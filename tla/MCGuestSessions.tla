-------------------------- MODULE MCGuestSessions --------------------------
(***************************************************************************)
(* TLC instance of GuestSessions: two invitations and two browsers, room   *)
(* for one session and a half in the record, so that eviction happens.     *)
(***************************************************************************)
EXTENDS GuestSessions, TLC

Symmetry == Permutations(Token) \cup Permutations(SessionId)
=============================================================================
