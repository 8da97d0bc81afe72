------------------------------- MODULE MCTwoRuns ------------------------------
EXTENDS TwoRuns
===============================================================================
