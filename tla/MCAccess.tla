-------------------------------- MODULE MCAccess --------------------------------
(***************************************************************************)
(* Two browsers, each with an address of its own: a username is guessed    *)
(* from both, and an address guesses at both usernames.                    *)
(***************************************************************************)
EXTENDS Access

MCIpOf == [b \in Browsers |-> b]
=============================================================================
