----------------------------- MODULE MCRotation -----------------------------
(* Rotation over a change back to winter time, from a day and an hour before it *)
(* to a day and some hours after it, and over a change to summer time.          *)
EXTENDS Rotation

MCWinter == 210
MCSummer == 270

\* Day 2 begins at wall minute 2880.
MCStart == 2880 - MCSummer

\* At wall time 01:00 of day 3 the clocks go back to 00:00.
MCBack == MCStart + 1500
MCHorizon == MCBack + 1740

\* At wall time 02:00 of day 2 the clocks go to 03:00.
MCForward == 2880 + 120 - MCWinter
MCDawn == 2880 - MCWinter
MCChange == MCForward + 60
=============================================================================
