--------------------------- MODULE MCUiController ---------------------------
(***************************************************************************)
(* Instances of UiController for TLC.  The .cfg files choose which parts   *)
(* of the controller an instance exercises through its bounds.             *)
(***************************************************************************)
EXTENDS UiController, TLC

\* One column: a schema has it or lacks it.
MCSchemas == SUBSET Columns

\* Identities are only compared.
MCSymmetry == Permutations(Identities)

=============================================================================
