----------------------------- MODULE MCJobIndex -----------------------------
EXTENDS JobIndex, TLC

CONSTANTS i1, i2

TwoInstances == {i1, i2}

NoRequests == {}

\* No job is submitted with a request id.
WithoutRequest == [j \in Jobs |-> NoRequest]

Instances == Permutations(Instance)

KeepNoneOrOne == {0, 1}
=============================================================================
