------------------------------ MODULE Calendar ------------------------------
(***************************************************************************)
(* What the reservations promise about the one resource, with no request,  *)
(* card or closure in sight: bookings hold periods of it that never        *)
(* overlap, a held period keeps its start, and bookings come and go one at *)
(* a time.  Module Reservations implements it.                             *)
(***************************************************************************)
EXTENDS Naturals

CONSTANT Bookings

VARIABLE held   \* booking -> the periods it holds, at most one

Disjoint(p, q) == p.to <= q.from \/ q.to <= p.from

\* Booking b may hold p beside what the others hold.
Free(b, p) == \A c \in Bookings \ {b} : \A q \in held[c] : Disjoint(p, q)

Init == held = [b \in Bookings |-> {}]

\* Any period may be reserved, as long as it is free: the one the step leaves with b.
Reserve(b) ==
    /\ held[b] = {}
    /\ \E p \in held'[b] : Free(b, p) /\ held' = [held EXCEPT ![b] = {p}]

Release(b) ==
    /\ held[b] # {}
    /\ held' = [held EXCEPT ![b] = {}]

\* The end of a held period moves to any time that keeps it free, its start does not.
Resize(b) ==
    \E p \in held[b], q \in held'[b] :
        /\ q.from = p.from
        /\ Free(b, q)
        /\ held' = [held EXCEPT ![b] = {q}]

Next == \E b \in Bookings : Reserve(b) \/ Release(b) \/ Resize(b)

Spec == Init /\ [][Next]_held
==============================================================================
