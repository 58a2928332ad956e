---------------------------- MODULE AtomicRecord ----------------------------
(***************************************************************************)
(* What a caller of JobRecordMutator.mutate is promised about one stored   *)
(* record: every call takes effect at one instant, completely, or not at   *)
(* all, and is answered at that instant; removing the record is final.     *)
(*                                                                         *)
(* A record is abstracted to how often each call's change is in it.        *)
(***************************************************************************)
EXTENDS Naturals

CONSTANTS
    Call,        \* the invocations of mutate on this record's key
    NoRecord,    \* what a read of a missing key yields
    Lossy        \* may the store lose the reply to a write it has made?

VARIABLES
    record,      \* the stored record
    answer       \* what each call has been told

avars == <<record, answer>>

Record == [Call -> Nat]

Untouched == [c \in Call |-> 0]

Applied(r, c) == [r EXCEPT ![c] = @ + 1]

AInit ==
    /\ record = Untouched
    /\ answer = [c \in Call |-> "pending"]

\* The change is made and reported in one step.
ACommit(c) ==
    /\ answer[c] = "pending"
    /\ record # NoRecord
    /\ record' = Applied(record, c)
    /\ answer' = [answer EXCEPT ![c] = "committed"]

\* The record is missing, the mutator declined, or the call gave up.
AReject(c) ==
    /\ answer[c] = "pending"
    /\ answer' = [answer EXCEPT ![c] = "empty"]
    /\ UNCHANGED record

\* The store made the change and its reply was lost.
ACommitUnreported(c) ==
    /\ Lossy
    /\ answer[c] = "pending"
    /\ record # NoRecord
    /\ record' = Applied(record, c)
    /\ answer' = [answer EXCEPT ![c] = "empty"]

ARemove ==
    /\ record # NoRecord
    /\ record' = NoRecord
    /\ UNCHANGED answer

ANext ==
    \/ \E c \in Call : ACommit(c) \/ AReject(c) \/ ACommitUnreported(c)
    \/ ARemove

ASafety == AInit /\ [][ANext]_avars

ASpec ==
    /\ ASafety
    /\ \A c \in Call : WF_avars(ACommit(c) \/ AReject(c) \/ ACommitUnreported(c))

=============================================================================
