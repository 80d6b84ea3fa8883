----------------------------- MODULE MCBookingPage -----------------------------
(***************************************************************************)
(* Two days.  Returning customers have three whole hours on the first and  *)
(* two on the second; new ones have, on the first day only, an hour, a gap *)
(* of half an hour, and two windows of an hour and a half and of half an   *)
(* hour that merge into two hours.  Two hours are the least and the most.  *)
(***************************************************************************)
EXTENDS BookingPage

MCWindows ==
    [a \in Answers |-> [d \in Dates |->
        IF a = "new"
          THEN IF d = 1 THEN {[from |-> 0, to |-> 2], [from |-> 3, to |-> 6],
                              [from |-> 6, to |-> 7]}
                        ELSE {}
          ELSE {[from |-> 0, to |-> IF d = 1 THEN 6 ELSE 4]}]]

MCBlocks == {[date |-> 1, from |-> 2, to |-> 4]}
=============================================================================
