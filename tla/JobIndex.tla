------------------------------ MODULE JobIndex ------------------------------
(***************************************************************************)
(* How JobService finds jobs again: the records job:<id>, the sorted set   *)
(* job:index:createdAt of their ids, its one-time backfill, the listing    *)
(* that walks it, and deletion and purge, which remove from both.  Several *)
(* instances of the service share one Redis; none of the operations is a   *)
(* transaction, so each Redis call is a step.  A SCAN shows every key that *)
(* is there from its start to its end, and may show those that come or go. *)
(* RequestOf and the order of Jobs, which is the order of createdAt, are    *)
(* fixed; ids are submitted in any order.                                  *)
(***************************************************************************)
EXTENDS Naturals, FiniteSets

CONSTANTS
    Instance,       \* instances of the service
    Idle,           \* nobody is at it
    RequestId,      \* request ids
    NoRequest,      \* of a submission without one
    RequestOf,      \* the request id each job is submitted with
    MaxJobs,        \* bound: job ids, in the order of createdAt
    Legacy,         \* jobs 1..Legacy were stored before there was an index
    KeepRecent,     \* what purges are asked to keep
    Window,         \* INDEX_WINDOW
    MaxWalk,        \* MAX_INDEX_WALK
    MaxListed,      \* MAX_LISTED_RECORDS
    BatchSize,      \* keys a purge unlinks at a time
    MaxCalls,       \* bound: deletions, purges, listings, restarts and faults
    Breaks          \* Redis may throw

Jobs == 1..MaxJobs

ASSUME IndexAssumption ==
    /\ MaxJobs \in Nat /\ Legacy \in 0..MaxJobs
    /\ {Window, MaxWalk, MaxListed, BatchSize} \subseteq Nat \ {0}
    /\ KeepRecent \subseteq Nat
    /\ MaxCalls \in Nat /\ Breaks \in BOOLEAN
    /\ RequestId \cap Jobs = {} /\ RequestOf \in [Jobs -> RequestId \cup {NoRequest}]

VARIABLES
    records,    \* ids with a record job:<id>
    index,      \* members of job:index:createdAt
    claims,     \* request ids with a key job:requestid:<id>
    marker,     \* job:index:createdAt:backfilled is set
    lock,       \* job:index:createdAt:backfilling is set
    used,       \* ids handed out
    submits,    \* where each instance's submit stands
    sweep,      \* where each instance's backfill stands
    deleting,   \* ids deleteJob has unindexed and not yet deleted
    purge,      \* the purge in progress
    listing,    \* the listing in progress
    acked,      \* jobs whose submit has returned: history
    raced,      \* a purge has met a submit or a backfill in progress: history
    missed,     \* jobs that a call Redis threw at left out of the index: history
    calls       \* what MaxCalls counts, so far

store == <<records, index, claims, marker, lock>>

history == <<acked, raced, missed, calls>>

vars == <<store, used, submits, sweep, deleting, purge, listing, history>>

Submission == [job : Jobs, at : {"stored", "indexed"}]

Sweep == [at : {"look", "lock", "scan", "unlock", "off"}, left : SUBSET Jobs,
          hand : 0..MaxJobs]

SweepAt(where) == [at |-> where, left |-> {}, hand |-> 0]

Keys == Jobs \cup RequestId

Purging == [at : {"scan", "unmark"}, keep : KeepRecent, kept : SUBSET Jobs,
            blind : BOOLEAN, left : SUBSET Keys, batch : SUBSET Keys, owed : SUBSET Jobs]

\* matched counts the records a listing has collected: as ids move down under the
\* cursor it may collect one of them twice.
Listing == [at : {"walk", "scan", "over"}, cursor : Nat, found : SUBSET Jobs, matched : Nat,
            left : SUBSET Jobs, owed : SUBSET Jobs]

Init ==
    /\ records = 1..Legacy /\ index = {} /\ claims = {}
    /\ marker = FALSE /\ lock = FALSE
    /\ used = 1..Legacy
    /\ submits = [i \in Instance |-> Idle]
    /\ sweep = [i \in Instance |-> SweepAt("look")]
    /\ deleting = {} /\ purge = Idle /\ listing = Idle
    /\ acked = 1..Legacy /\ raced = FALSE
    /\ missed = {} /\ calls = 0

Call == calls < MaxCalls /\ calls' = calls + 1

\* A call that Redis throws at; nearly everywhere the service goes on without it.
Fails == Breaks /\ Call

Newest(n, ids) == {j \in ids : Cardinality({k \in ids : k > j}) < n}

\* A listing in progress when ids leave the index skips the ids that move up.
IndexShifted == listing' = IF listing = Idle THEN Idle ELSE [listing EXCEPT !.owed = {}]

RecordsGone(gone) ==
    listing' = IF listing = Idle THEN Idle ELSE [listing EXCEPT !.owed = @ \ gone]

-----------------------------------------------------------------------------
(* submit: SET the record, ZADD its id, SET the request id.                *)

\* Mutated form: the id is not new.
SubmitRecordReusingId(i) ==
    /\ submits[i] = Idle
    /\ \E j \in Jobs \ records :
          /\ records' = records \cup {j}
          /\ submits' = [submits EXCEPT ![i] = [job |-> j, at |-> "stored"]]
    /\ UNCHANGED <<index, claims, marker, lock, used, sweep, deleting, purge, listing, history>>

SubmitRecord(i) ==
    /\ submits[i] = Idle
    /\ \E j \in Jobs \ used :
          /\ records' = records \cup {j}
          /\ used' = used \cup {j}
          /\ submits' = [submits EXCEPT ![i] = [job |-> j, at |-> "stored"]]
    /\ raced' = (raced \/ purge # Idle)
    /\ UNCHANGED <<index, claims, marker, lock, sweep, deleting, purge, listing,
                   acked, missed, calls>>

SubmitIndex(i) ==
    /\ submits[i] # Idle /\ submits[i].at = "stored"
    /\ index' = index \cup {submits[i].job}
    /\ submits' = [submits EXCEPT ![i].at = "indexed"]
    /\ UNCHANGED <<records, claims, marker, lock, used, sweep, deleting, purge, listing, history>>

\* indexCreatedAt swallows it, and the job is acknowledged all the same.
SubmitIndexFails(i) ==
    /\ submits[i] # Idle /\ submits[i].at = "stored" /\ Fails
    /\ missed' = missed \cup {submits[i].job}
    /\ submits' = [submits EXCEPT ![i].at = "indexed"]
    /\ UNCHANGED <<store, used, sweep, deleting, purge, listing, acked, raced>>

SubmitClaim(i) ==
    /\ submits[i] # Idle /\ submits[i].at = "indexed"
    /\ claims' = claims \cup ({RequestOf[submits[i].job]} \ {NoRequest})
    /\ acked' = acked \cup {submits[i].job}
    /\ submits' = [submits EXCEPT ![i] = Idle]
    /\ UNCHANGED <<records, index, marker, lock, used, sweep, deleting, purge, listing,
                   raced, missed, calls>>

-----------------------------------------------------------------------------
(* deleteJob: ZREM, then DEL.                                              *)

DeleteUnindex(j) ==
    /\ j \in records \ deleting /\ Call
    /\ \/ index' = index \ {j} /\ IndexShifted
       \/ Breaks /\ UNCHANGED <<index, listing>>
    /\ deleting' = deleting \cup {j}
    /\ UNCHANGED <<records, claims, marker, lock, used, submits, sweep, purge,
                   acked, raced, missed>>

DeleteRecord(j) ==
    /\ j \in deleting
    /\ records' = records \ {j}
    /\ deleting' = deleting \ {j}
    /\ purge' = IF purge = Idle THEN Idle ELSE [purge EXCEPT !.owed = @ \ {j}]
    /\ RecordsGone({j})
    /\ UNCHANGED <<index, claims, marker, lock, used, submits, sweep, history>>

\* The job keeps its record, without its place in the index.
DeleteRecordFails(j) ==
    /\ j \in deleting /\ Fails
    /\ deleting' = deleting \ {j}
    /\ missed' = missed \cup {j}
    /\ UNCHANGED <<store, used, submits, sweep, purge, listing, acked, raced>>

-----------------------------------------------------------------------------
(* backfillCreatedAtIndex, once at every start of an instance.             *)

MoveSweep(i, to) == sweep' = [sweep EXCEPT ![i] = to]

LookForMarker(i) ==
    /\ sweep[i].at = "look"
    /\ MoveSweep(i, SweepAt(IF marker THEN "off" ELSE "lock"))
    /\ UNCHANGED <<store, used, submits, deleting, purge, listing, history>>

\* Mutated form: completion is recorded when the sweep is claimed.
TakeLockAndMark(i) ==
    /\ sweep[i].at = "lock"
    /\ MoveSweep(i, IF lock THEN SweepAt("off") ELSE [SweepAt("scan") EXCEPT !.left = records])
    /\ lock' = TRUE
    /\ marker' = TRUE
    /\ UNCHANGED <<records, index, claims, used, submits, deleting, purge, listing, history>>

\* Whoever finds the lock gives up until its next start.
TakeLock(i) ==
    /\ sweep[i].at = "lock"
    /\ IF lock THEN MoveSweep(i, SweepAt("off"))
               ELSE \E new \in SUBSET (Jobs \ used) :
                        MoveSweep(i, [at |-> "scan", left |-> records \cup new, hand |-> 0])
    /\ lock' = TRUE
    /\ raced' = (raced \/ purge # Idle)
    /\ UNCHANGED <<records, index, claims, marker, used, submits, deleting, purge, listing,
                   acked, missed, calls>>

\* Redis throws at the question for the marker or at the lock, which may be set.
ClaimFails(i) ==
    /\ sweep[i].at \in {"look", "lock"} /\ Fails
    /\ lock' \in {lock, lock \/ sweep[i].at = "lock"}
    /\ MoveSweep(i, SweepAt("off"))
    /\ UNCHANGED <<records, index, claims, marker, used, submits, deleting, purge, listing,
                   acked, raced, missed>>

\* The cursor comes past a key: GET, then ZADD in a step of its own.
SweepRead(i, j) ==
    /\ sweep[i].at = "scan" /\ sweep[i].hand = 0 /\ j \in sweep[i].left \cap records
    /\ MoveSweep(i, [sweep[i] EXCEPT !.left = @ \ {j}, !.hand = j])
    /\ UNCHANGED <<store, used, submits, deleting, purge, listing, history>>

SweepIndex(i) ==
    /\ sweep[i].at = "scan" /\ sweep[i].hand # 0
    /\ index' = index \cup {sweep[i].hand}
    /\ MoveSweep(i, [sweep[i] EXCEPT !.hand = 0])
    /\ UNCHANGED <<records, claims, marker, lock, used, submits, deleting, purge, listing, history>>

\* getValue or indexCreatedAt swallows what Redis throws, and the key is passed by.
SweepReadFails(i, j) ==
    /\ sweep[i].at = "scan" /\ sweep[i].hand = 0 /\ j \in sweep[i].left \cap records /\ Fails
    /\ missed' = missed \cup {j}
    /\ MoveSweep(i, [sweep[i] EXCEPT !.left = @ \ {j}])
    /\ UNCHANGED <<store, used, submits, deleting, purge, listing, acked, raced>>

SweepIndexFails(i) ==
    /\ sweep[i].at = "scan" /\ sweep[i].hand # 0 /\ Fails
    /\ missed' = missed \cup {sweep[i].hand}
    /\ MoveSweep(i, [sweep[i] EXCEPT !.hand = 0])
    /\ UNCHANGED <<store, used, submits, deleting, purge, listing, acked, raced>>

\* forEachKey swallows what SCAN throws, goes through the in-memory keys,
\* which are none, and returns as after a whole scan.
SweepBreaksOff(i) ==
    /\ sweep[i].at = "scan" /\ sweep[i].hand = 0 /\ Fails
    /\ missed' = missed \cup (sweep[i].left \cap records)
    /\ MoveSweep(i, SweepAt("scan"))
    /\ UNCHANGED <<store, used, submits, deleting, purge, listing, acked, raced>>

SetMarker(i) ==
    /\ sweep[i].at = "scan" /\ sweep[i].hand = 0 /\ sweep[i].left \cap records = {}
    /\ marker' = TRUE
    /\ MoveSweep(i, SweepAt("unlock"))
    /\ UNCHANGED <<records, index, claims, lock, used, submits, deleting, purge, listing, history>>

\* The marker is the one write whose failure ends the sweep without it.
SetMarkerFails(i) ==
    /\ sweep[i].at = "scan" /\ sweep[i].hand = 0 /\ sweep[i].left \cap records = {} /\ Fails
    /\ MoveSweep(i, SweepAt("unlock"))
    /\ UNCHANGED <<store, used, submits, deleting, purge, listing, acked, raced, missed>>

\* The lock is deleted whoever holds it by now.
DropLock(i) ==
    /\ sweep[i].at = "unlock"
    /\ lock' = FALSE
    /\ MoveSweep(i, SweepAt("off"))
    /\ UNCHANGED <<records, index, claims, marker, used, submits, deleting, purge, listing, history>>

DropLockFails(i) ==
    /\ sweep[i].at = "unlock" /\ Fails
    /\ MoveSweep(i, SweepAt("off"))
    /\ UNCHANGED <<store, used, submits, deleting, purge, listing, acked, raced, missed>>

\* After INDEX_BACKFILL_LOCK_TTL, which a long sweep outlives.
LockExpires ==
    /\ lock /\ Call
    /\ lock' = FALSE
    /\ UNCHANGED <<records, index, claims, marker, used, submits, sweep, deleting, purge,
                   listing, acked, raced, missed>>

-----------------------------------------------------------------------------
(* purgeJobs, which runs to its end or dies with its instance.             *)

InProgress == (\E i \in Instance : submits[i] # Idle \/ sweep[i].at = "scan")

\* owed: the jobs a purge that keeps n must leave, when index and records agree.
Owed(n) == IF marker /\ index = records THEN Newest(n, records) ELSE {}

Oldest(n, ids) == {j \in ids : Cardinality({k \in ids : k < j}) < n}

\* Mutated form: ZRANGE for ZREVRANGE.
PurgeStartKeepingOldest(n) ==
    /\ purge = Idle /\ Call
    /\ purge' = [at |-> "scan", keep |-> n, kept |-> Oldest(n, index),
                 blind |-> FALSE, left |-> records \cup claims, batch |-> {}, owed |-> Owed(n)]
    /\ raced' = (raced \/ InProgress)
    /\ UNCHANGED <<store, used, submits, sweep, deleting, listing, acked, missed>>

\* retainedIds swallows what ZREVRANGE throws and answers that no id is kept; the
\* purge goes on with that.
PurgeStart(n) ==
    /\ purge = Idle /\ Call
    /\ \E new \in SUBSET (Keys \ (used \cup claims)), blind \in {FALSE, Breaks /\ n > 0} :
          purge' = [at |-> "scan", keep |-> n,
                    kept |-> IF blind THEN {} ELSE Newest(n, index), blind |-> blind,
                    left |-> records \cup claims \cup new, batch |-> {}, owed |-> Owed(n)]
    /\ raced' = (raced \/ InProgress)
    /\ UNCHANGED <<store, used, submits, sweep, deleting, listing,
                   acked, missed>>

Due == purge.left \cap (records \cup claims)

\* jobIdOf(job:requestid:x) is "requestid", which is never among the kept.
PurgeVisit(k) ==
    /\ purge # Idle /\ purge.at = "scan" /\ k \in Due
    /\ Cardinality(purge.batch) < BatchSize
    /\ purge' = [purge EXCEPT !.left = @ \ {k}, !.batch = @ \cup ({k} \ purge.kept)]
    /\ UNCHANGED <<store, used, submits, sweep, deleting, listing, history>>

\* A batch is unlinked when it is full and at the end of the scan.
PurgeUnlink ==
    /\ purge # Idle /\ purge.batch # {}
    /\ Cardinality(purge.batch) >= BatchSize \/ Due = {}
    /\ records' = records \ purge.batch
    /\ claims' = claims \ purge.batch
    /\ purge' = [purge EXCEPT !.batch = {}]
    /\ RecordsGone(purge.batch)
    /\ UNCHANGED <<index, marker, lock, used, submits, sweep, deleting, history>>

\* unlinkAll's batch stays, or the rest of the scan is left out; the index is trimmed
\* all the same.
PurgeUnlinkFails ==
    /\ purge # Idle /\ purge.batch # {} /\ Fails
    /\ Cardinality(purge.batch) >= BatchSize \/ Due = {}
    /\ missed' = missed \cup (purge.batch \cap records)
    /\ purge' = [purge EXCEPT !.batch = {}]
    /\ UNCHANGED <<store, used, submits, sweep, deleting, listing, acked, raced>>

PurgeBreaksOff ==
    /\ purge # Idle /\ purge.at = "scan" /\ Fails
    /\ missed' = missed \cup (purge.left \cap records)
    /\ purge' = [purge EXCEPT !.left = {}]
    /\ UNCHANGED <<store, used, submits, sweep, deleting, listing, acked, raced>>

\* trimCreatedIndex; with nothing to keep it unlinks the index, then the marker.
PurgeTrim ==
    /\ purge # Idle /\ purge.at = "scan" /\ purge.batch = {} /\ Due = {}
    /\ index' = Newest(purge.keep, index)
    /\ purge' = IF purge.keep = 0 THEN [purge EXCEPT !.at = "unmark"] ELSE Idle
    /\ IndexShifted
    /\ UNCHANGED <<records, claims, marker, lock, used, submits, sweep, deleting, history>>

PurgeUnmark ==
    /\ purge # Idle /\ purge.at = "unmark"
    /\ marker' = FALSE
    /\ purge' = Idle
    /\ UNCHANGED <<records, index, claims, lock, used, submits, sweep, deleting, listing, history>>

\* What trimCreatedIndex has not unlinked by then stays, the marker included.
PurgeTrimFails ==
    /\ purge # Idle /\ Fails
    /\ purge.at = "scan" => purge.batch = {} /\ Due = {}
    /\ purge' = Idle
    /\ UNCHANGED <<store, used, submits, sweep, deleting, listing, acked, raced, missed>>

\* The instance dies and starts again, its backfill anew; a purge of its dies with it.
Restart(i) ==
    /\ Call
    /\ submits' = [submits EXCEPT ![i] = Idle]
    /\ MoveSweep(i, SweepAt("look"))
    /\ purge' \in {purge, Idle}
    /\ UNCHANGED <<store, used, deleting, listing, acked, raced, missed>>

-----------------------------------------------------------------------------
(* list: windows of the index, newest first, or a scan if there are none.  *)

\* owed: the jobs whoever asks now may expect to see.
ListStart ==
    /\ listing = Idle /\ Call
    /\ listing' = [at |-> "walk", cursor |-> 0, found |-> {}, matched |-> 0, left |-> {},
                   owed |-> IF raced THEN {}
                            ELSE ((IF marker THEN acked ELSE acked \ 1..Legacy) \cap records)
                                      \ (deleting \cup missed)]
    /\ UNCHANGED <<store, used, submits, sweep, deleting, purge, acked, raced, missed>>

\* ZREVRANGE cursor, cursor + Window - 1.
WindowAt(c) == Newest(c + Window, index) \ Newest(c, index)

Walking ==
    /\ listing # Idle /\ listing.at = "walk"
    /\ listing.cursor < MaxWalk /\ listing.matched < MaxListed

\* Mutated form: the next window starts one rank too far.
ListWindowSkipping ==
    /\ Walking /\ WindowAt(listing.cursor) # {}
    /\ LET shown == Newest(MaxListed - listing.matched, WindowAt(listing.cursor) \cap records)
       IN  listing' = [listing EXCEPT !.found = @ \cup shown,
                                      !.matched = @ + Cardinality(shown),
                                      !.cursor = @ + Window + 1]
    /\ UNCHANGED <<store, used, submits, sweep, deleting, purge, history>>

\* A GET for each id of the window, newest first, until enough has matched.  getValue
\* swallows what Redis throws, and the record is passed by.
ListWindow ==
    /\ Walking /\ WindowAt(listing.cursor) # {}
    /\ \E unread \in SUBSET WindowAt(listing.cursor) :
          /\ IF unread = {} THEN UNCHANGED calls ELSE Fails
          /\ LET shown == Newest(MaxListed - listing.matched,
                                 (WindowAt(listing.cursor) \cap records) \ unread)
             IN  listing' = [listing EXCEPT !.found = @ \cup shown,
                                            !.matched = @ + Cardinality(shown),
                                            !.cursor = @ + Window,
                                            !.owed = @ \ unread]
    /\ UNCHANGED <<store, used, submits, sweep, deleting, purge, acked, raced, missed>>

\* A ZREVRANGE that throws shows an empty window.
ListWindowFails ==
    /\ Walking /\ listing.cursor > 0 /\ Fails
    /\ listing' = [listing EXCEPT !.at = "over", !.owed = {}]
    /\ UNCHANGED <<store, used, submits, sweep, deleting, purge, acked, raced, missed>>

\* An index without a first window is taken for one that is not built.
ListWalked ==
    /\ Walking /\ listing.cursor = 0
    /\ \/ WindowAt(0) = {} /\ UNCHANGED calls
       \/ Fails
    /\ \E new \in SUBSET (Jobs \ used) :
          listing' = [listing EXCEPT !.at = "scan", !.left = records \cup new]
    /\ UNCHANGED <<store, used, submits, sweep, deleting, purge, acked, raced, missed>>

Scanning == listing # Idle /\ listing.at = "scan" /\ listing.matched < MaxListed

ListScan(j) ==
    /\ Scanning /\ j \in listing.left \cap records
    /\ listing' = [listing EXCEPT !.left = @ \ {j}, !.found = @ \cup {j}, !.matched = @ + 1]
    /\ UNCHANGED <<store, used, submits, sweep, deleting, purge, history>>

\* A GET throws, or the SCAN, which is then over.
ListScanFails ==
    /\ Scanning /\ Fails
    /\ \E unread \in SUBSET listing.left :
          listing' = [listing EXCEPT !.left = @ \ unread, !.owed = @ \ unread]
    /\ UNCHANGED <<store, used, submits, sweep, deleting, purge, acked, raced, missed>>

ListOver ==
    /\ listing # Idle
    /\ \/ listing.at = "over" \/ listing.matched >= MaxListed
       \/ listing.at = "walk" /\ listing.cursor >= MaxWalk
       \/ listing.at = "walk" /\ listing.cursor > 0 /\ WindowAt(listing.cursor) = {}
       \/ listing.at = "scan" /\ listing.left \cap records = {}

ListReturn ==
    /\ ListOver
    /\ listing' = Idle
    /\ UNCHANGED <<store, used, submits, sweep, deleting, purge, history>>

-----------------------------------------------------------------------------

Submit(i) == SubmitRecord(i) \/ SubmitIndex(i) \/ SubmitIndexFails(i) \/ SubmitClaim(i)

Delete(j) == DeleteUnindex(j) \/ DeleteRecord(j) \/ DeleteRecordFails(j)

Backfill(i) ==
    \/ LookForMarker(i) \/ TakeLock(i) \/ ClaimFails(i)
    \/ \E j \in Jobs : SweepRead(i, j) \/ SweepReadFails(i, j)
    \/ SweepIndex(i) \/ SweepIndexFails(i) \/ SweepBreaksOff(i)
    \/ SetMarker(i) \/ SetMarkerFails(i) \/ DropLock(i) \/ DropLockFails(i)

Purge ==
    \/ \E n \in KeepRecent : PurgeStart(n)
    \/ \E k \in Keys : PurgeVisit(k)
    \/ PurgeUnlink \/ PurgeTrim \/ PurgeUnmark
    \/ PurgeUnlinkFails \/ PurgeBreaksOff \/ PurgeTrimFails

List ==
    \/ ListStart \/ ListWindow \/ ListWindowFails \/ ListWalked \/ ListScanFails \/ ListReturn
    \/ \E j \in Jobs : ListScan(j)

Next ==
    \/ \E i \in Instance : Submit(i) \/ Backfill(i) \/ Restart(i)
    \/ \E j \in Jobs : Delete(j)
    \/ Purge \/ List \/ LockExpires

Spec == Init /\ [][Next]_vars

-----------------------------------------------------------------------------

SubmitsTyped ==
    /\ submits \in [Instance -> Submission \cup {Idle}]
    /\ \A i \in Instance : submits[i] # Idle => submits[i].job \in used

SweepsTyped ==
    /\ sweep \in [Instance -> Sweep]
    /\ \A i \in Instance : sweep[i].hand # 0 => sweep[i].hand \in used

TypeOK ==
    /\ records \subseteq used /\ index \subseteq used /\ used \subseteq Jobs
    /\ acked \subseteq used /\ deleting \subseteq used
    /\ claims \subseteq RequestId
    /\ marker \in BOOLEAN /\ lock \in BOOLEAN
    /\ SubmitsTyped /\ SweepsTyped
    /\ purge \in Purging \cup {Idle} /\ listing \in Listing \cup {Idle}
    /\ raced \in BOOLEAN /\ missed \subseteq used /\ calls \in 0..MaxCalls

\* Once the completion marker is set every job whose submit has returned, or
\* that was there before the index, is in the index as long as it has a record,
\* whichever instance died in the middle of a sweep.  Named exceptions: the jobs at
\* whose read, index write, deletion or purge Redis threw, which the code passes by
\* and marks the index done all the same; and a store in which a purge met a submit
\* or a sweep in progress, as it trims by a rank read earlier.
DoneMeansIndexed ==
    marker /\ ~raced => (acked \cap records) \ deleting \subseteq index \cup missed

\* A listing shows every job it owes: stored, acknowledged and not passed by when it
\* began and still stored, unless entries left the index or a read threw while it
\* was walked.  What it leaves out is beyond MAX_INDEX_WALK, or MAX_LISTED_RECORDS
\* have matched; and if it walked the index then, all it leaves out is older than
\* all it shows.
ListingIsComplete ==
    ListOver => \A j \in listing.owed \ listing.found :
        \/ listing.at = "walk" /\ j \notin Newest(MaxWalk, index)
        \/ /\ listing.matched >= MaxListed
           /\ listing.at = "walk" => \A k \in listing.found : j < k

\* A purge leaves the jobs it was told to keep, whatever is submitted or
\* deleted while it scans, unless Redis threw when it asked which these are.
PurgeKeepsNewest ==
    purge # Idle /\ ~purge.blind => purge.owed \subseteq records

=============================================================================
