------------------------- MODULE MCPayrollRegistry -------------------------
(***************************************************************************)
(* The instance of the registry checked by TLC.                            *)
(***************************************************************************)
EXTENDS PayrollRegistry
=============================================================================
