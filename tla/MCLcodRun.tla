----------------------------- MODULE MCLcodRun -----------------------------
(***************************************************************************)
(* Worlds for the checks of LcodRun.                                       *)
(***************************************************************************)
EXTENDS LcodRun, TLC

Situation(bundle, workspace, input, manifest, listed) ==
  [bundle |-> bundle, workspace |-> workspace, input |-> input,
   manifest |-> manifest, listed |-> listed]

MCWorld ==
  {Situation(b, "none", "file", TRUE, FALSE) : b \in {"flat", "nested"}}
  \cup {Situation("none", w, "component", TRUE, TRUE) :
          w \in Workspaces \ {"none"}}
  \cup {Situation("external", "none", i, FALSE, l) :
          i \in {"url", "component"}, l \in BOOLEAN}
  \cup {Situation(b, "none", "component", FALSE, TRUE) : b \in {"none", "flat"}}

Symmetry == Permutations(Proc)
=============================================================================
