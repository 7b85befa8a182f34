---------------------------- MODULE InvoiceLedger ----------------------------
(***************************************************************************)
(* What the billing push promises, with the push itself left out: every    *)
(* installment number is issued at most one Invoice Ninja invoice, and the  *)
(* club's own row books that invoice and no other, once.                    *)
(***************************************************************************)
CONSTANTS Numbers,     \* the installment numbers {prefix}-{record}-{sequence}
          InvoiceIds,  \* the ids Invoice Ninja hands out
          NoId         \* a number with no invoice, a row with a blank id

VARIABLES issued,  \* the invoice issued for each number
          booked   \* the invoice id stored on the row of each number

vars == <<issued, booked>>

Init ==
    /\ issued = [n \in Numbers |-> NoId]
    /\ booked = [n \in Numbers |-> NoId]

Issue(n, i) ==
    /\ issued[n] = NoId
    /\ \A m \in Numbers : issued[m] # i
    /\ issued' = [issued EXCEPT ![n] = i]
    /\ UNCHANGED booked

Book(n) ==
    /\ issued[n] # NoId
    /\ booked[n] = NoId
    /\ booked' = [booked EXCEPT ![n] = issued[n]]
    /\ UNCHANGED issued

Next ==
    \/ \E n \in Numbers, i \in InvoiceIds : Issue(n, i)
    \/ \E n \in Numbers : Book(n)

Spec == Init /\ [][Next]_vars
=============================================================================
