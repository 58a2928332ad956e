------------------------- MODULE MCGovernanceIngest -------------------------
EXTENDS GovernanceIngest, TLC

CONSTANTS k1, p1, r1, o1, i1

\* One request on two brokers and from an operator, and a message without id.
Messages == {k1, p1, r1, o1}
Sources ==
    k1 :> "kafka" @@ p1 :> "pulsar" @@ r1 :> "rabbit" @@ o1 :> "api"
Request == [m \in Messages |-> IF m = r1 THEN NoId ELSE i1]

\* One request comes three times, or the message with no id beside it; at most
\* one of them fails.
With(f, what) == {m \in Messages : f[m] \in what}
OneFails == {f \in [Messages -> Fate] :
                /\ f[o1] # "invalid" /\ Cardinality(With(f, {"invalid", "thrown", "late"})) <= 1
                /\ With(f, {"unsent"}) \in {{r1}, {p1, o1}}}
=============================================================================
