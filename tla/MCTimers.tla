------------------------------- MODULE MCTimers -------------------------------
EXTENDS Timers
===============================================================================
