------------------------- MODULE MCJobRecordMutator -------------------------
(***************************************************************************)
(* Small instances of JobRecordMutator for TLC.                            *)
(***************************************************************************)
EXTENDS JobRecordMutator

CONSTANTS c1, c2, c3

AllCalls == {c1, c2, c3}

\* c1 is an executor's call, without a fallback.
ServiceCalls == {c2, c3}

=============================================================================
