------------------------------- MODULE MCRig -------------------------------
(***************************************************************************)
(* Two programs that fit and one that does not, a store of three words and *)
(* two attempts a call.                                                    *)
(***************************************************************************)
EXTENDS Rig

CONSTANTS opA, opB, stop

MCOps == {opA, opB, stop}
MCPrograms == {<<opA, stop>>, <<opB, opA, stop>>, <<opB, opB, opA, stop>>}
MCStore == [i \in Slots |-> opA]

=============================================================================
