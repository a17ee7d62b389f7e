---------------------------- MODULE MCEventList -----------------------------
(* A wheel of five slots that the time runs round three times, three events    *)
(* and instructions of one to four cycles.                                     *)
EXTENDS EventList
=============================================================================
