-------------------------- MODULE MCCorpusRelease --------------------------
(* A small instance of CorpusRelease for TLC.                              *)
EXTENDS CorpusRelease, TLC

\* Every title resolves to a page of its own.
OwnPage == [t \in Titles |-> t]

\* Approve everything, declare the pages free of exceptions only, or record
\* an exception.
SomeReviews ==
    {[free |-> Titles, excepted |-> {}, record |-> TRUE, approve |-> TRUE],
     [free |-> Titles, excepted |-> {}, record |-> FALSE, approve |-> FALSE],
     [free |-> {}, excepted |-> Titles, record |-> FALSE, approve |-> FALSE]}

Symmetric == Permutations(Maintainers)
=============================================================================
