-------------------------- MODULE MCGroupSubmissions --------------------------
EXTENDS GroupSubmissions, TLC

\* Nothing tells one student from another, nor one group from another: of two
\* students at most one is left for SubmitterTask to choose.
MCSymmetry == Permutations(Students) \cup Permutations(Groups)
===============================================================================
