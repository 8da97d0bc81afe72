------------------------------- MODULE MCMerge --------------------------------
EXTENDS Merge
===============================================================================
