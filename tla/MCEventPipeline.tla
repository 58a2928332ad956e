-------------------------- MODULE MCEventPipeline --------------------------
EXTENDS EventPipeline

CONSTANTS e1, e2, r1, n1

NamedEvents == {e1, e2, r1}
RawEvents == {r1}
NamelessRecords == {n1}

\* Two events of one kind, or of two.
Pairs == {{e1, e2}, {e1, r1}, {e1, n1}}
=============================================================================
