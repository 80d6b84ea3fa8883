---------------------------- MODULE MCAdminConsole ----------------------------
(***************************************************************************)
(* One booking of two and a half or three hours, and a day to filter by   *)
(* that has none; amounts up to 4 can be charged and an int32 holds up to  *)
(* 7, so that one of the two rates is too high and wraps.                  *)
(***************************************************************************)
EXTENDS AdminConsole

MCDayOf == [b \in Bookings |-> b]
=============================================================================
