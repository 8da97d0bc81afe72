------------------------------ MODULE MCExecutor ------------------------------
EXTENDS Executor, TLC

\* Indices of the slab are interchangeable, and so are tasks that are both held
\* or both detached.  Used for invariants only.
Symmetry ==
  Permutations(Keys) \cup Permutations(Held) \cup Permutations(Tasks \ Held)
===============================================================================
