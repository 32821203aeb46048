-------------------------- MODULE MCWorkItemStore --------------------------
EXTENDS WorkItemStore, TLC

\* Processes and items are interchangeable.
Symmetry == Permutations(Procs) \union Permutations(Items)
============================================================================
