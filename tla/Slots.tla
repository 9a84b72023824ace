------------------------------- MODULE Slots -------------------------------
(***************************************************************************)
(* The slots of a compose step: how the two ways of writing them are       *)
(* merged, what a called function is told about them, and how a slot       *)
(* executor looks one up (src/src/compose.rs, src/src/flow/mod.rs).        *)
(*                                                                         *)
(* A step's `children` and its `slots` are each absent, a list of steps or *)
(* a map from slot names to lists of steps.  A list is written here as the *)
(* map it stands for, under the name "children"; `form` keeps what was     *)
(* written, because the metadata given to functions depends on it.         *)
(***************************************************************************)
EXTENDS Naturals, Sequences

CONSTANT Block,     \* identifiers of the step lists of a program
         SlotName   \* the slot names that occur

ASSUME SlotNames == {"children", "body"} \subseteq SlotName

SlotMap == UNION {[names -> Block] : names \in SUBSET SlotName}

StepChildren == [form : {"none", "list", "map"}, at : SlotMap]

(* What f says, and what g says where f is silent.                         *)
Over(f, g) ==
  [x \in DOMAIN f \cup DOMAIN g |-> IF x \in DOMAIN f THEN f[x] ELSE g[x]]

(* Faulty variant: children as they were written.                          *)
NormalizeChildren_AsWritten(step) == step.children

(* The slot map of a step: `slots` wins over `children`, and a body also   *)
(* answers to the legacy name "children" unless that name is taken.        *)
NormalizeChildren(step) ==
  LET given == Over(step.slots.at, step.children.at)
  IN  IF "body" \in DOMAIN given
      THEN Over(given, [name \in {"children"} |-> given["body"]])
      ELSE given

(* What the called function sees as meta.children: what was written under  *)
(* `children`, else under `slots`, else the empty map.                     *)
MetaChildren(step) ==
  IF step.children.form # "none" THEN step.children
  ELSE IF step.slots.form # "none" THEN step.slots
  ELSE [form |-> "map", at |-> <<>>]

(* has_slot: meta.children is a map that gives the slot some steps.        *)
HasSlot(step, name, blocks) ==
  /\ MetaChildren(step).form = "map"
  /\ name \in DOMAIN MetaChildren(step).at
  /\ blocks[MetaChildren(step).at[name]] # <<>>

(* The names an executor tries, in order, for the slot a function asks it  *)
(* to run: the name, its alias, and then whatever the children are.        *)
Candidates(name) ==
  <<name, IF name = "children" THEN "body" ELSE "children">>

Holds(slots, name) == \E c \in 1..2 : Candidates(name)[c] \in DOMAIN slots

SlotSteps(slots, name) ==
  IF Candidates(name)[1] \in DOMAIN slots
  THEN slots[Candidates(name)[1]]
  ELSE slots[Candidates(name)[2]]

(* Executors delegate to their fallback: the slot is run by the first of   *)
(* the chain that holds it.                                                *)
Owns(chain, k, name) ==
  /\ k \in DOMAIN chain
  /\ Holds(chain[k], name)
  /\ \A j \in 1..(k - 1) : ~ Holds(chain[j], name)

NobodyHolds(chain, name) == \A k \in DOMAIN chain : ~ Holds(chain[k], name)
=============================================================================
