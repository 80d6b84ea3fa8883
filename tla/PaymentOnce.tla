----------------------------- MODULE PaymentOnce -----------------------------
(***************************************************************************)
(* What charging promises, with no worker, key, retry or crash in sight:   *)
(* the customer of a booking pays for it at most once, and what the        *)
(* booking's row records is the payment that was really taken, recorded    *)
(* once and never replaced.  Module Charging implements it.                *)
(***************************************************************************)
CONSTANT Bookings

VARIABLES taken,    \* booking -> the payments taken from its customer's card
          recorded  \* booking -> the payments its row carries

Init ==
    /\ taken = [b \in Bookings |-> {}]
    /\ recorded = [b \in Bookings |-> {}]

\* Stripe takes the one payment of a booking, whichever it is.
Take(b) ==
    /\ taken[b] = {}
    /\ \E p \in taken'[b] : taken' = [taken EXCEPT ![b] = {p}]
    /\ UNCHANGED recorded

\* The row learns of the payment that was taken.
Record(b) ==
    /\ taken[b] # {}
    /\ recorded[b] = {}
    /\ recorded' = [recorded EXCEPT ![b] = taken[b]]
    /\ UNCHANGED taken

Next == \E b \in Bookings : Take(b) \/ Record(b)

Spec == Init /\ [][Next]_<<taken, recorded>>
==============================================================================
