----------------------------- MODULE RunLedger -----------------------------
(***************************************************************************)
(* What the payroll contract promises of its runs, without nonces, roles,  *)
(* pauses, reviews or tokens: run identifiers are used in order; a run is  *)
(* reserved and then either settled or released, or settled at once; its   *)
(* amount is fixed when it starts; and `reserved' goes up and down by      *)
(* exactly the amounts of the runs that are reserved.                      *)
(***************************************************************************)
EXTENDS Integers

CONSTANTS LastRun, Amount

VARIABLES status, amount, reserved

ledgerVars == <<status, amount, reserved>>

Run == 1..LastRun

Init ==
    /\ status = [r \in Run |-> "free"]
    /\ amount = [r \in Run |-> 0]
    /\ reserved = 0

\* r is the first identifier that is free.
Start(r, a, s) ==
    /\ status[r] = "free"
    /\ \A q \in Run : q < r => status[q] # "free"
    /\ status' = [status EXCEPT ![r] = s]
    /\ amount' = [amount EXCEPT ![r] = a]

Reserve(r, a) ==
    /\ Start(r, a, "reserved")
    /\ reserved' = reserved + a

PayDirectly(r, a) ==
    /\ Start(r, a, "settled")
    /\ reserved' = reserved

Resolve(r, s) ==
    /\ status[r] = "reserved"
    /\ status' = [status EXCEPT ![r] = s]
    /\ reserved' = reserved - amount[r]
    /\ amount' = amount

Next ==
    \E r \in Run :
        \/ \E a \in Amount : Reserve(r, a) \/ PayDirectly(r, a)
        \/ Resolve(r, "settled")
        \/ Resolve(r, "released")

Spec == Init /\ [][Next]_ledgerVars
=============================================================================
