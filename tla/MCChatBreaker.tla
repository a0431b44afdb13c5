--------------------------- MODULE MCChatBreaker ---------------------------
(***************************************************************************)
(* Values for the constants of ChatBreaker.  The client of package xai     *)
(* returns no upstream error from Chat: its answer carries all of them.    *)
(***************************************************************************)
EXTENDS ChatBreaker, TLC

CONSTANTS t1, r1

MCStreamErrors == {"rateLimited", "transport", "other"}
=============================================================================
