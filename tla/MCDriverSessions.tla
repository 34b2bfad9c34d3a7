-------------------------- MODULE MCDriverSessions --------------------------
(* A connection of each driver, with as many calls as it takes for an answer   *)
(* to reach the wrong one.                                                   *)
EXTENDS DriverSessions
=============================================================================
