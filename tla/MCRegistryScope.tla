-------------------------- MODULE MCRegistryScope ---------------------------
(***************************************************************************)
(* Instances of RegistryScope: one contract, one or two implementations,   *)
(* and one definition for every function.                                  *)
(***************************************************************************)
EXTENDS RegistryScope

CONSTANTS contract, implA, implB

OneImplementation == {contract, implA}
TwoImplementations == {contract, implA, implB}
OneContract == {contract}
=============================================================================
