--------------------------- MODULE PaymentLedger ---------------------------
(* What the purchase pipeline promises about one payment request, whoever    *)
(* moves it: it is opened once, ends once, gives access only while it is     *)
(* paid, and gives back what it took at most once.                           *)

CONSTANT Requests

VARIABLES
  status,  \* "absent", "pending", "paid", "declined" or "reversed"
  access   \* whether the purchase gives its buyer access

ledgerState == <<status, access>>

Init == /\ status = [k \in Requests |-> "absent"]
        /\ access = [k \in Requests |-> FALSE]

Move(k, from, to, gives) ==
  /\ status[k] = from
  /\ status' = [status EXCEPT ![k] = to]
  /\ access' = [access EXCEPT ![k] = gives]

Open(k)    == Move(k, "absent", "pending", FALSE)
Pay(k)     == Move(k, "pending", "paid", TRUE)
Decline(k) == Move(k, "pending", "declined", FALSE)
Reverse(k) == Move(k, "paid", "reversed", FALSE)

\* An operator withdraws the access of a paid request.
Withdraw(k) == Move(k, "paid", "paid", FALSE)

Next == \E k \in Requests :
          Open(k) \/ Pay(k) \/ Decline(k) \/ Reverse(k) \/ Withdraw(k)

Spec == Init /\ [][Next]_ledgerState
=============================================================================
