---------------------------- MODULE MCPayrollCli ----------------------------
(***************************************************************************)
(* Two processes over two employees and one other address; four-valued     *)
(* words, so that the larger salary is stored as a negative column.        *)
(***************************************************************************)
EXTENDS PayrollCli

CONSTANTS e1, e2, other, acme

Paid(payee, amount) ==
    [success |-> TRUE, topics |-> [name |-> "PayrollProcessed", company |-> acme],
     data |-> [employee |-> payee, amount |-> amount]]

\* Two payments of the company, one to an address outside the database, one
\* under a topic that is not the symbol, one of a failed call, and one whose
\* data does not decode.
SmallEvents ==
    {Paid(e1, 3), Paid(other, 1),
     [Paid(e1, 3) EXCEPT !.topics.company = None],
     [Paid(e1, 3) EXCEPT !.success = FALSE],
     [Paid(e1, 3) EXCEPT !.data = None]}

SmallPubkey == {e1, e2, other}
SmallStellarKey == {e1, e2}
=============================================================================
