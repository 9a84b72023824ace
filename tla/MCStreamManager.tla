-------------------------- MODULE MCStreamManager ---------------------------
(***************************************************************************)
(* Contents for StreamManager: up to three bytes, cut in every way into at *)
(* most three chunks, empty ones included.                                 *)
(***************************************************************************)
EXTENDS StreamManager

Texts == {<<>>, <<"one">>, <<"lead", "cont">>, <<"one", "lead", "cont">>}

Cuts(bytes) == UNION {[1..n -> 0..Len(bytes)] : n \in 0..3}

MCContent ==
  {c \in UNION {{[bytes |-> b, ends |-> cut] : cut \in Cuts(b)} : b \in Texts} :
     WellCut(c)}

MCLimit == {0, 1, 2, NoLimit}
=============================================================================
