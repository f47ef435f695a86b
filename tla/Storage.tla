------------------------------ MODULE Storage ------------------------------
(***************************************************************************)
(* What is read where nothing is stored: under a key of a contract that    *)
(* holds no entry, and in a table of the client that has no row.           *)
(***************************************************************************)
CONSTANT None
=============================================================================
