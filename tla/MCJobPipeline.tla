---------------------------- MODULE MCJobPipeline ----------------------------
\* Small instances of JobPipeline for TLC.
EXTENDS JobPipeline, TLC

\* Fails the first time and succeeds from then on: with one attempt allowed it
\* fails for good, with two it is retried and completes.
FlakyOnly == {[failTimes |-> 1, shouldFail |-> FALSE]}

\* Succeeds at once, or fails twice: with two attempts allowed an overlapping or
\* redelivered third one succeeds, so that a late save may put the status of one
\* execution next to the count of another.
NeverOrTwice == {[failTimes |-> n, shouldFail |-> FALSE] : n \in {0, 2}}

\* Slots are interchangeable, and so are requests.
Symmetry == Permutations(Workers) \cup Permutations(Requests)
==============================================================================
