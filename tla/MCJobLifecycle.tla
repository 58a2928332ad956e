--------------------------- MODULE MCJobLifecycle ---------------------------
(***************************************************************************)
(* Small instances of JobLifecycle for TLC.                                *)
(***************************************************************************)
EXTENDS JobLifecycle

CONSTANTS j1, tacc1, vo1, rel1, rec1

OneJob == {j1}

Request(workflow, executor, deferred) ==
    [workflow |-> workflow, executor |-> executor, deferred |-> deferred]

TaccRequests == {Request("ingest", "unset", FALSE)}

AnyRequests ==
    {Request("other", "unset", FALSE), Request("ingest", "unset", FALSE),
     Request("vo", "unset", FALSE), Request("vo", "tacc", TRUE)}

NoThreads == {}

OneVoThread == {vo1}

OneReleaser == {rel1}

\* Clients that end jobs but never claim to have started one.  FAILED and TIMED_OUT
\* behave as CANCELED does.
EndingStates == {"COMPLETED", "CANCELED"}

=============================================================================
