--------------------------- MODULE JobIndexProofs ---------------------------
(***************************************************************************)
(* Proofs about JobIndex, for any number of jobs, instances and calls:     *)
(* type correctness, that the completion marker of the backfill means that *)
(* every stored job is in the index, that a purge keeps what it was told   *)
(* to, and that a listing shows all it owes.                               *)
(***************************************************************************)
EXTENDS JobIndex, FiniteSetTheorems, TLAPS

LEMMA NewestType == ASSUME NEW n, NEW ids PROVE Newest(n, ids) \subseteq ids
BY DEF Newest

LEMMA SweepAtType ==
    ASSUME NEW where \in {"look", "lock", "scan", "unlock", "off"}
    PROVE  SweepAt(where) \in Sweep /\ SweepAt(where).hand = 0
BY IndexAssumption DEF SweepAt, Sweep

LEMMA JobsFinite == IsFiniteSet(Jobs)
BY FS_Interval, IndexAssumption DEF Jobs

LEMMA InitType == Init => TypeOK
<1> SUFFICES ASSUME Init PROVE TypeOK
  OBVIOUS
<1> USE IndexAssumption DEF Init
<1>1. 1..Legacy \subseteq Jobs
  BY DEF Jobs
<1>2. SweepsTyped
  BY SweepAtType DEF SweepsTyped
<1>3. SubmitsTyped
  BY DEF SubmitsTyped
<1>4. calls \in 0..MaxCalls
  OBVIOUS
<1>5. QED
  BY <1>1, <1>2, <1>3, <1>4 DEF TypeOK

LEMMA ListingType ==
    ASSUME TypeOK, IndexShifted \/ (\E gone : RecordsGone(gone)) \/ UNCHANGED listing
    PROVE  listing' \in Listing \cup {Idle}
<1>1. CASE IndexShifted
  BY <1>1 DEF IndexShifted, TypeOK, Listing
<1>2. CASE \E gone : RecordsGone(gone)
  BY <1>2 DEF RecordsGone, TypeOK, Listing
<1>3. CASE UNCHANGED listing
  BY <1>3 DEF TypeOK
<1>4. QED
  BY <1>1, <1>2, <1>3

\* submits and sweep keep their type when one instance's entry moves on.
LEMMA SubmitsType ==
    ASSUME SubmitsTyped, NEW i \in Instance, NEW to \in Submission \cup {Idle},
           submits' = [submits EXCEPT ![i] = to], used \subseteq used',
           to # Idle => to.job \in used'
    PROVE  SubmitsTyped'
BY DEF SubmitsTyped

LEMMA MoveSweepType ==
    ASSUME SweepsTyped, NEW i \in Instance, NEW to \in Sweep, MoveSweep(i, to), used' = used,
           to.hand # 0 => to.hand \in used
    PROVE  SweepsTyped'
BY DEF MoveSweep, SweepsTyped

\* Nor does it matter that ids are handed out.
LEMMA SubmitsStay ==
    ASSUME SubmitsTyped, submits' = submits, used \subseteq used'
    PROVE  SubmitsTyped'
BY DEF SubmitsTyped

LEMMA SweepsStay ==
    ASSUME SweepsTyped, sweep' = sweep, used \subseteq used'
    PROVE  SweepsTyped'
BY DEF SweepsTyped

LEMMA CallType == ASSUME TypeOK, Call \/ Fails PROVE calls' \in 0..MaxCalls
BY IndexAssumption DEF TypeOK, Call, Fails

LEMMA SubmitType == ASSUME TypeOK, NEW i \in Instance, Submit(i) PROVE TypeOK'
<1>0. submits[i] # Idle => submits[i] \in Submission /\ submits[i].job \in used
  BY DEF TypeOK, SubmitsTyped
<1>1. CASE SubmitRecord(i)
  <2>1. PICK j \in Jobs \ used :
            /\ records' = records \cup {j}
            /\ used' = used \cup {j}
            /\ submits' = [submits EXCEPT ![i] = [job |-> j, at |-> "stored"]]
    BY <1>1 DEF SubmitRecord
  <2>2. [job |-> j, at |-> "stored"] \in Submission
    BY DEF Submission
  <2>3. SubmitsTyped'
    BY <2>1, <2>2, SubmitsType DEF TypeOK
  <2>4. QED
    BY <1>1, <2>1, <2>3, SweepsStay DEF SubmitRecord, TypeOK
<1>2. CASE SubmitIndex(i)
  <2> DEFINE to == [submits[i] EXCEPT !.at = "indexed"]
  <2>1. to \in Submission /\ to.job = submits[i].job
    BY <1>0, <1>2 DEF SubmitIndex, Submission
  <2>2. submits' = [submits EXCEPT ![i] = to] /\ used' = used
    BY <1>2 DEF SubmitIndex
  <2> HIDE DEF to
  <2>3. SubmitsTyped'
    BY <1>0, <1>2, <2>1, <2>2, SubmitsType DEF SubmitIndex, TypeOK
  <2>4. QED
    BY <1>0, <1>2, <2>3, SweepsStay DEF SubmitIndex, TypeOK, history
<1>3. CASE SubmitClaim(i)
  <2>1. SubmitsTyped'
    BY <1>3, SubmitsType DEF SubmitClaim, TypeOK
  <2>2. RequestOf[submits[i].job] \in RequestId \cup {NoRequest}
    BY <1>0, <1>3, IndexAssumption DEF SubmitClaim, Submission
  <2>3. QED
    BY <1>0, <1>3, <2>1, <2>2, SweepsStay DEF SubmitClaim, TypeOK
<1>4. CASE SubmitIndexFails(i)
  <2> DEFINE to == [submits[i] EXCEPT !.at = "indexed"]
  <2>1. to \in Submission /\ to.job = submits[i].job /\ submits[i] # Idle
    BY <1>0, <1>4 DEF SubmitIndexFails, Submission
  <2>2. submits' = [submits EXCEPT ![i] = to] /\ used' = used
    BY <1>4 DEF SubmitIndexFails
  <2> HIDE DEF to
  <2>3. SubmitsTyped'
    BY <1>0, <1>4, <2>1, <2>2, SubmitsType DEF SubmitIndexFails, TypeOK
  <2>4. calls' \in 0..MaxCalls
    BY <1>4, CallType DEF SubmitIndexFails
  <2>5. missed' \subseteq used
    BY <1>0, <1>4, <2>1 DEF SubmitIndexFails, TypeOK
  <2>6. QED
    BY <1>4, <2>3, <2>4, <2>5, SweepsStay DEF SubmitIndexFails, TypeOK, store
<1>5. QED
  BY <1>1, <1>2, <1>3, <1>4 DEF Submit

LEMMA DeleteType == ASSUME TypeOK, NEW j \in Jobs, Delete(j) PROVE TypeOK'
<1>1. CASE DeleteUnindex(j)
  <2>1. listing' \in Listing \cup {Idle} /\ index' \subseteq index
    BY <1>1, ListingType DEF DeleteUnindex
  <2>2. calls' \in 0..MaxCalls
    BY <1>1, CallType DEF DeleteUnindex
  <2>3. QED
    BY <1>1, <2>1, <2>2, SubmitsStay, SweepsStay DEF DeleteUnindex, TypeOK
<1>2. CASE DeleteRecord(j)
  <2>1. listing' \in Listing \cup {Idle}
    BY <1>2, ListingType DEF DeleteRecord
  <2>2. purge' \in Purging \cup {Idle}
    BY <1>2 DEF DeleteRecord, TypeOK, Purging
  <2>3. QED
    BY <1>2, <2>1, <2>2, SubmitsStay, SweepsStay DEF DeleteRecord, TypeOK, history
<1>3. CASE DeleteRecordFails(j)
  <2>1. calls' \in 0..MaxCalls
    BY <1>3, CallType DEF DeleteRecordFails
  <2>2. QED
    BY <1>3, <2>1, SubmitsStay, SweepsStay DEF DeleteRecordFails, TypeOK, store
<1>4. QED
  BY <1>1, <1>2, <1>3 DEF Delete

LEMMA BackfillType == ASSUME TypeOK, NEW i \in Instance, Backfill(i) PROVE TypeOK'
<1>0. sweep[i] \in Sweep /\ (sweep[i].hand # 0 => sweep[i].hand \in used)
  BY DEF TypeOK, SweepsTyped
<1>1. CASE LookForMarker(i)
  <2>1. SweepsTyped'
    BY <1>1, SweepAtType, MoveSweepType DEF LookForMarker, TypeOK
  <2>2. QED
    BY <1>1, <2>1, SubmitsStay DEF LookForMarker, TypeOK, store, history
<1>2. CASE TakeLock(i)
  <2>1. ASSUME NEW new \in SUBSET (Jobs \ used)
        PROVE  [at |-> "scan", left |-> records \cup new, hand |-> 0] \in Sweep
    BY IndexAssumption DEF Sweep, TypeOK
  <2>2. SweepsTyped'
    BY <1>2, <2>1, SweepAtType, MoveSweepType DEF TakeLock, TypeOK
  <2>3. QED
    BY <1>2, <2>2, SubmitsStay DEF TakeLock, TypeOK
<1>3. CASE ClaimFails(i)
  <2>1. SweepsTyped'
    BY <1>3, SweepAtType, MoveSweepType DEF ClaimFails, TypeOK
  <2>2. calls' \in 0..MaxCalls
    BY <1>3, CallType DEF ClaimFails
  <2>3. lock' \in BOOLEAN
    BY <1>3 DEF ClaimFails, TypeOK
  <2>4. QED
    BY <1>3, <2>1, <2>2, <2>3, SubmitsStay DEF ClaimFails, TypeOK
<1>4. ASSUME NEW j \in Jobs, SweepRead(i, j)
      PROVE  TypeOK'
  <2> DEFINE half == [sweep[i] EXCEPT !.left = @ \ {j}]
             to == [half EXCEPT !.hand = j]
  <2>1. half \in Sweep
    BY <1>0 DEF Sweep
  <2> HIDE DEF half
  <2>2. to \in Sweep /\ to.hand = j
    BY <2>1, IndexAssumption DEF Sweep, Jobs
  <2> USE DEF half
  <2>3. MoveSweep(i, to) /\ used' = used /\ j \in used
    BY <1>4 DEF SweepRead, TypeOK
  <2> HIDE DEF to
  <2>4. SweepsTyped'
    BY <2>2, <2>3, MoveSweepType DEF TypeOK
  <2>5. QED
    BY <1>4, <2>4, SubmitsStay DEF SweepRead, TypeOK, store, history
<1>5. CASE SweepIndex(i)
  <2> DEFINE to == [sweep[i] EXCEPT !.hand = 0]
  <2>1. to = [at |-> sweep[i].at, left |-> sweep[i].left, hand |-> 0]
    BY <1>0 DEF Sweep
  <2>2. to \in Sweep /\ to.hand = 0
    BY <1>0, <2>1, IndexAssumption DEF Sweep
  <2>3. MoveSweep(i, to) /\ used' = used
    BY <1>5 DEF SweepIndex
  <2> HIDE DEF to
  <2>4. SweepsTyped'
    BY <2>2, <2>3, MoveSweepType DEF TypeOK
  <2>5. QED
    BY <1>0, <1>5, <2>4, SubmitsStay DEF SweepIndex, TypeOK, history
<1>6. CASE SweepBreaksOff(i)
  <2>1. SweepsTyped'
    BY <1>6, SweepAtType, MoveSweepType DEF SweepBreaksOff, TypeOK
  <2>2. calls' \in 0..MaxCalls
    BY <1>6, CallType DEF SweepBreaksOff
  <2>3. QED
    BY <1>6, <2>1, <2>2, SubmitsStay DEF SweepBreaksOff, TypeOK, store
<1>7. CASE SetMarker(i)
  <2>1. SweepsTyped'
    BY <1>7, SweepAtType, MoveSweepType DEF SetMarker, TypeOK
  <2>2. QED
    BY <1>7, <2>1, SubmitsStay DEF SetMarker, TypeOK, history
<1>8. CASE DropLock(i)
  <2>1. SweepsTyped'
    BY <1>8, SweepAtType, MoveSweepType DEF DropLock, TypeOK
  <2>2. QED
    BY <1>8, <2>1, SubmitsStay DEF DropLock, TypeOK, history
<1>9. ASSUME NEW j \in Jobs, SweepReadFails(i, j)
      PROVE  TypeOK'
  <2> DEFINE to == [sweep[i] EXCEPT !.left = @ \ {j}]
  <2>1. to \in Sweep /\ to.hand = sweep[i].hand
    BY <1>0 DEF Sweep
  <2>2. MoveSweep(i, to) /\ used' = used /\ j \in used
    BY <1>9 DEF SweepReadFails, TypeOK
  <2> HIDE DEF to
  <2>3. SweepsTyped'
    BY <1>0, <2>1, <2>2, MoveSweepType DEF TypeOK
  <2>4. calls' \in 0..MaxCalls
    BY <1>9, CallType DEF SweepReadFails
  <2>5. QED
    BY <1>9, <2>2, <2>3, <2>4, SubmitsStay DEF SweepReadFails, TypeOK, store
<1>10. CASE SweepIndexFails(i)
  <2> DEFINE to == [sweep[i] EXCEPT !.hand = 0]
  <2>1. to \in Sweep /\ to.hand = 0
    BY <1>0, IndexAssumption DEF Sweep
  <2>2. MoveSweep(i, to) /\ used' = used
    BY <1>10 DEF SweepIndexFails
  <2> HIDE DEF to
  <2>3. SweepsTyped'
    BY <2>1, <2>2, MoveSweepType DEF TypeOK
  <2>4. calls' \in 0..MaxCalls
    BY <1>10, CallType DEF SweepIndexFails
  <2>5. QED
    BY <1>0, <1>10, <2>3, <2>4, SubmitsStay DEF SweepIndexFails, TypeOK, store
<1>11. CASE SetMarkerFails(i) \/ DropLockFails(i)
  <2>1. SweepsTyped'
    BY <1>11, SweepAtType, MoveSweepType DEF SetMarkerFails, DropLockFails, TypeOK
  <2>2. calls' \in 0..MaxCalls
    BY <1>11, CallType DEF SetMarkerFails, DropLockFails
  <2>3. QED
    BY <1>11, <2>1, <2>2, SubmitsStay DEF SetMarkerFails, DropLockFails, TypeOK, store
<1>12. QED
  BY <1>1, <1>2, <1>3, <1>4, <1>5, <1>6, <1>7, <1>8, <1>9, <1>10, <1>11 DEF Backfill

LEMMA PurgeType == ASSUME TypeOK, Purge PROVE TypeOK'
<1>0. purge # Idle => purge \in Purging
  BY DEF TypeOK
<1>1. ASSUME NEW n \in KeepRecent, PurgeStart(n)
      PROVE  TypeOK'
  <2>1. PICK new \in SUBSET (Keys \ (used \cup claims)), blind \in BOOLEAN :
            purge' = [at |-> "scan", keep |-> n,
                      kept |-> IF blind THEN {} ELSE Newest(n, index), blind |-> blind,
                      left |-> records \cup claims \cup new, batch |-> {}, owed |-> Owed(n)]
    BY <1>1, IndexAssumption DEF PurgeStart
  <2>2. Newest(n, index) \subseteq Jobs /\ Owed(n) \subseteq Jobs
    BY NewestType DEF Owed, TypeOK
  <2>3. records \cup claims \cup new \subseteq Keys
    BY DEF Keys, TypeOK
  <2>4. purge' \in Purging
    BY <2>1, <2>2, <2>3 DEF Purging
  <2>5. calls' \in 0..MaxCalls
    BY <1>1, CallType DEF PurgeStart
  <2>6. QED
    BY <1>1, <2>4, <2>5, SubmitsStay, SweepsStay DEF PurgeStart, TypeOK, store
<1>2. ASSUME NEW k \in Keys, PurgeVisit(k)
      PROVE  TypeOK'
  <2> DEFINE half == [purge EXCEPT !.left = @ \ {k}]
             to == [half EXCEPT !.batch = @ \cup ({k} \ purge.kept)]
  <2>1. half \in Purging
    BY <1>0, <1>2 DEF Purging, PurgeVisit
  <2>2. purge' = to
    BY <1>0, <1>2 DEF Purging, PurgeVisit
  <2> HIDE DEF half
  <2>3. to \in Purging
    BY <1>0, <1>2, <2>1 DEF Purging, PurgeVisit
  <2> HIDE DEF to
  <2>4. QED
    BY <1>2, <2>2, <2>3, SubmitsStay, SweepsStay DEF PurgeVisit, TypeOK, store, history
<1>3. CASE PurgeUnlink
  <2>1. purge' \in Purging
    BY <1>0, <1>3 DEF Purging, PurgeUnlink
  <2>2. listing' \in Listing \cup {Idle}
    BY <1>3, ListingType DEF PurgeUnlink
  <2>3. QED
    BY <1>3, <2>1, <2>2, SubmitsStay, SweepsStay DEF PurgeUnlink, TypeOK, history
<1>4. CASE PurgeTrim
  <2>1. purge' \in Purging \cup {Idle}
    BY <1>0, <1>4 DEF Purging, PurgeTrim
  <2>2. listing' \in Listing \cup {Idle}
    BY <1>4, ListingType DEF PurgeTrim
  <2>3. index' \subseteq index
    BY <1>4, NewestType DEF PurgeTrim
  <2>4. QED
    BY <1>4, <2>1, <2>2, <2>3, SubmitsStay, SweepsStay DEF PurgeTrim, TypeOK, history
<1>5. CASE PurgeUnmark
  BY <1>5, SubmitsStay, SweepsStay DEF PurgeUnmark, TypeOK, history
<1>6. CASE PurgeUnlinkFails \/ PurgeBreaksOff
  <2>1. /\ purge' \in {[purge EXCEPT !.batch = {}], [purge EXCEPT !.left = {}]}
        /\ purge # Idle /\ missed' \subseteq missed \cup records
    BY <1>6 DEF PurgeUnlinkFails, PurgeBreaksOff
  <2>2. purge' \in Purging
    BY <1>0, <2>1 DEF Purging
  <2>3. calls' \in 0..MaxCalls
    BY <1>6, CallType DEF PurgeUnlinkFails, PurgeBreaksOff
  <2>4. QED
    BY <1>6, <2>1, <2>2, <2>3, SubmitsStay, SweepsStay
    DEF PurgeUnlinkFails, PurgeBreaksOff, TypeOK, store
<1>7. CASE PurgeTrimFails
  <2>1. calls' \in 0..MaxCalls
    BY <1>7, CallType DEF PurgeTrimFails
  <2>2. QED
    BY <1>7, <2>1, SubmitsStay, SweepsStay DEF PurgeTrimFails, TypeOK, store
<1>8. QED
  BY <1>1, <1>2, <1>3, <1>4, <1>5, <1>6, <1>7 DEF Purge

LEMMA RestartType == ASSUME TypeOK, NEW i \in Instance, Restart(i) PROVE TypeOK'
<1>1. SubmitsTyped'
  BY SubmitsType DEF Restart, TypeOK
<1>2. SweepsTyped'
  BY SweepAtType, MoveSweepType DEF Restart, TypeOK
<1>3. purge' \in Purging \cup {Idle}
  BY DEF Restart, TypeOK
<1>4. calls' \in 0..MaxCalls
  BY CallType DEF Restart
<1>5. QED
  BY <1>1, <1>2, <1>3, <1>4 DEF Restart, TypeOK, store

LEMMA WindowType == ASSUME TypeOK, NEW c PROVE WindowAt(c) \subseteq index
BY NewestType DEF WindowAt

\* What a window shows, and what it makes of the listing.
LEMMA WindowMoves ==
    ASSUME TypeOK, ListWindow
    PROVE  \E unread \in SUBSET WindowAt(listing.cursor) :
               LET shown == Newest(MaxListed - listing.matched,
                                   (WindowAt(listing.cursor) \cap records) \ unread)
               IN  /\ listing \in Listing /\ Walking
                   /\ shown \subseteq Jobs /\ IsFiniteSet(shown) /\ Cardinality(shown) \in Nat
                   /\ listing' = [at |-> "walk", cursor |-> listing.cursor + Window,
                                  found |-> listing.found \cup shown,
                                  matched |-> listing.matched + Cardinality(shown),
                                  left |-> listing.left, owed |-> listing.owed \ unread]
<1>0. PICK unread \in SUBSET WindowAt(listing.cursor) :
        LET shown == Newest(MaxListed - listing.matched,
                            (WindowAt(listing.cursor) \cap records) \ unread)
        IN  listing' = [listing EXCEPT !.found = @ \cup shown,
                                       !.matched = @ + Cardinality(shown),
                                       !.cursor = @ + Window,
                                       !.owed = @ \ unread]
  BY DEF ListWindow
<1> DEFINE shown == Newest(MaxListed - listing.matched,
                           (WindowAt(listing.cursor) \cap records) \ unread)
<1>1. listing \in Listing /\ Walking /\ listing.at = "walk"
  BY DEF ListWindow, Walking, TypeOK
<1>2. shown \subseteq Jobs
  BY NewestType DEF TypeOK
<1>3. IsFiniteSet(shown) /\ Cardinality(shown) \in Nat
  <2> HIDE DEF shown
  <2> QED BY <1>2, JobsFinite, FS_Subset, FS_CardinalityType
<1> DEFINE f == listing.found \cup shown
           m == listing.matched + Cardinality(shown)
           c == listing.cursor + Window
           o == listing.owed \ unread
<1>4. listing' = [listing EXCEPT !.found = f, !.matched = m, !.cursor = c, !.owed = o]
  BY <1>0, <1>1 DEF Listing
<1> HIDE DEF f, m, c, o
<1>5. listing' = [at |-> "walk", cursor |-> c, found |-> f, matched |-> m,
                  left |-> listing.left, owed |-> o]
  <2> DEFINE rec(cc, ff, mm, oo) == [at |-> "walk", cursor |-> cc, found |-> ff, matched |-> mm,
                                     left |-> listing.left, owed |-> oo]
  <2>1. [listing EXCEPT !.found = f] = rec(listing.cursor, f, listing.matched, listing.owed)
    BY <1>1 DEF Listing
  <2>2. [rec(listing.cursor, f, listing.matched, listing.owed) EXCEPT !.matched = m]
            = rec(listing.cursor, f, m, listing.owed)
    OBVIOUS
  <2>3. [rec(listing.cursor, f, m, listing.owed) EXCEPT !.cursor = c] = rec(c, f, m, listing.owed)
    OBVIOUS
  <2>4. [rec(c, f, m, listing.owed) EXCEPT !.owed = o] = rec(c, f, m, o)
    OBVIOUS
  <2> HIDE DEF rec
  <2>5. listing' = rec(c, f, m, o)
    BY <1>4, <2>1, <2>2, <2>3, <2>4
  <2> QED BY <2>5 DEF rec
<1> HIDE DEF shown
<1> WITNESS unread \in SUBSET WindowAt(listing.cursor)
<1> QED BY <1>1, <1>2, <1>3, <1>5 DEF f, m, c, o, shown

LEMMA ListType == ASSUME TypeOK, List PROVE TypeOK'
<1>0. listing # Idle => listing \in Listing
  BY DEF TypeOK
<1>1. CASE ListStart
  <2>1. calls' \in 0..MaxCalls
    BY <1>1, CallType DEF ListStart
  <2>2. listing' \in Listing
    BY <1>1 DEF ListStart, Listing, TypeOK
  <2>3. QED
    BY <1>1, <2>1, <2>2, SubmitsStay, SweepsStay DEF ListStart, TypeOK, store
<1>2. CASE ListWindow
  <2>1. PICK cursor \in Nat, matched \in Nat, found \in SUBSET Jobs, owed \in SUBSET Jobs :
            listing' = [at |-> "walk", cursor |-> cursor, found |-> found, matched |-> matched,
                        left |-> listing.left, owed |-> owed]
    <3>1. PICK unread \in SUBSET WindowAt(listing.cursor), shown \in SUBSET Jobs :
              /\ listing \in Listing /\ Cardinality(shown) \in Nat
              /\ listing' = [at |-> "walk", cursor |-> listing.cursor + Window,
                             found |-> listing.found \cup shown,
                             matched |-> listing.matched + Cardinality(shown),
                             left |-> listing.left, owed |-> listing.owed \ unread]
      BY <1>2, WindowMoves
    <3>2. /\ listing.cursor + Window \in Nat /\ listing.matched + Cardinality(shown) \in Nat
          /\ listing.found \cup shown \in SUBSET Jobs /\ listing.owed \ unread \in SUBSET Jobs
      BY <3>1, IndexAssumption DEF Listing
    <3> QED BY <3>1, <3>2
  <2>2. listing \in Listing
    BY <1>2, WindowMoves
  <2>3. listing' \in Listing
    BY <2>1, <2>2 DEF Listing
  <2>4. calls' \in 0..MaxCalls
    BY <1>2, CallType DEF ListWindow, TypeOK
  <2>5. QED
    BY <1>2, <2>3, <2>4, SubmitsStay, SweepsStay DEF ListWindow, TypeOK, store
<1>3. CASE ListWalked
  <2>1. PICK new \in SUBSET (Jobs \ used) :
            listing' = [listing EXCEPT !.at = "scan", !.left = records \cup new]
    BY <1>3 DEF ListWalked
  <2> DEFINE half == [listing EXCEPT !.at = "scan"]
             to == [half EXCEPT !.left = records \cup new]
  <2>2. half \in Listing
    BY <1>0, <1>3 DEF Listing, ListWalked, Walking
  <2>3. listing' = to
    BY <2>1
  <2> HIDE DEF half
  <2>4. to \in Listing
    BY <2>2 DEF Listing, TypeOK
  <2> HIDE DEF to
  <2>5. calls' \in 0..MaxCalls
    BY <1>3, CallType DEF ListWalked, TypeOK
  <2>6. QED
    BY <1>3, <2>3, <2>4, <2>5, SubmitsStay, SweepsStay DEF ListWalked, TypeOK, store
<1>4. ASSUME NEW j \in Jobs, ListScan(j)
      PROVE  TypeOK'
  <2> DEFINE half == [listing EXCEPT !.left = @ \ {j}, !.found = @ \cup {j}]
             to == [half EXCEPT !.matched = @ + 1]
  <2>1. half \in Listing
    BY <1>0, <1>4 DEF Listing, ListScan, Scanning
  <2>2. listing' = to
    BY <1>0, <1>4 DEF Listing, ListScan, Scanning
  <2> HIDE DEF half
  <2>3. to \in Listing
    BY <2>1 DEF Listing
  <2> HIDE DEF to
  <2>4. QED
    BY <1>4, <2>2, <2>3, SubmitsStay, SweepsStay DEF ListScan, TypeOK, store, history
<1>5. CASE ListReturn
  BY <1>5, SubmitsStay, SweepsStay DEF ListReturn, TypeOK, store, history
<1>6. CASE ListWindowFails
  <2>1. listing' \in Listing
    BY <1>0, <1>6 DEF ListWindowFails, Walking, Listing
  <2>2. calls' \in 0..MaxCalls
    BY <1>6, CallType DEF ListWindowFails
  <2>3. QED
    BY <1>6, <2>1, <2>2, SubmitsStay, SweepsStay DEF ListWindowFails, TypeOK, store
<1>7. CASE ListScanFails
  <2>1. listing' \in Listing
    BY <1>0, <1>7 DEF ListScanFails, Scanning, Listing
  <2>2. calls' \in 0..MaxCalls
    BY <1>7, CallType DEF ListScanFails
  <2>3. QED
    BY <1>7, <2>1, <2>2, SubmitsStay, SweepsStay DEF ListScanFails, TypeOK, store
<1>8. QED
  BY <1>1, <1>2, <1>3, <1>4, <1>5, <1>6, <1>7 DEF List

LEMMA StepType == TypeOK /\ [Next]_vars => TypeOK'
<1> SUFFICES ASSUME TypeOK, [Next]_vars PROVE TypeOK'
  OBVIOUS
<1>1. CASE LockExpires
  <2>1. calls' \in 0..MaxCalls
    BY <1>1, CallType DEF LockExpires
  <2>2. QED
    BY <1>1, <2>1, SubmitsStay, SweepsStay DEF LockExpires, TypeOK
<1>2. CASE UNCHANGED vars
  BY <1>2, SubmitsStay, SweepsStay DEF vars, store, history, TypeOK
<1>3. QED
  BY <1>1, <1>2, SubmitType, BackfillType, RestartType, DeleteType, PurgeType, ListType
  DEF Next

\* Every variable of the index keeps its type, for every constant.
THEOREM IndexTypeOK == Spec => []TypeOK
<1>1. Init => TypeOK
  BY InitType
<1>2. TypeOK /\ [Next]_vars => TypeOK'
  BY StepType
<1>3. QED
  BY <1>1, <1>2, PTL DEF Spec

-----------------------------------------------------------------------------
(* What is not in the index while it is built is still ahead of the cursor *)
(* of every sweep, and a purge that met nobody trims no job it has left;    *)
(* whatever a call that threw has left out is among the missed.             *)

Stored == records \ deleting

Known == index \cup missed

\* A submit that has stored and indexed its job is in the index.
SubmitsIndexed ==
    ~raced => \A i \in Instance :
        submits[i] # Idle /\ submits[i].at = "indexed" /\ submits[i].job \in Stored
            => submits[i].job \in Known

\* The jobs a sweep has to see to are indexed, in its hand or ahead of it.
SweepsCover ==
    ~raced => \A i \in Instance :
        sweep[i].at = "scan" => acked \cap Stored \subseteq Known \cup sweep[i].left \cup {sweep[i].hand}

\* A purge that has met nobody is alone.
PurgeAlone == ~raced /\ purge # Idle => ~InProgress

\* A record is kept, or the purge has yet to reach or to unlink it; and what is
\* kept is still among the newest.
PurgeCovers ==
    ~raced /\ purge # Idle =>
        /\ records \subseteq purge.kept \cup purge.left \cup purge.batch \cup missed
        /\ purge.kept \cap index \subseteq Newest(purge.keep, index)

IInv ==
    /\ TypeOK
    /\ SubmitsIndexed
    /\ SweepsCover
    /\ PurgeAlone
    /\ PurgeCovers
    /\ DoneMeansIndexed

\* What is among the newest stays so when others leave.
LEMMA NewestShrinks ==
    ASSUME NEW n \in Nat, NEW few, NEW many, few \subseteq many, IsFiniteSet(many)
    PROVE  Newest(n, many) \cap few \subseteq Newest(n, few)
<1> SUFFICES ASSUME NEW j \in few, j \in Newest(n, many)
             PROVE  j \in Newest(n, few)
  BY DEF Newest
<1> DEFINE Above(ids) == {k \in ids : k > j}
<1>1. IsFiniteSet(Above(many))
  BY FS_Subset
<1>2. Above(few) \subseteq Above(many)
  OBVIOUS
<1>3. /\ IsFiniteSet(Above(few))
      /\ Cardinality(Above(few)) <= Cardinality(Above(many))
  BY <1>1, <1>2, FS_Subset
<1>4. Cardinality(Above(few)) \in Nat /\ Cardinality(Above(many)) \in Nat
  BY <1>1, <1>3, FS_CardinalityType
<1>5. Cardinality(Above(many)) < n
  BY DEF Newest
<1>6. Cardinality(Above(few)) < n
  BY <1>3, <1>4, <1>5
<1>7. QED
  BY <1>6 DEF Newest

LEMMA IndexFinite == TypeOK => IsFiniteSet(index)
<1>1. TypeOK => index \subseteq Jobs
  BY DEF TypeOK
<1>2. QED
  BY <1>1, JobsFinite, FS_Subset

LEMMA InitInv == Init => IInv
<1> SUFFICES ASSUME Init PROVE IInv
  OBVIOUS
<1>1. SubmitsIndexed /\ PurgeAlone /\ PurgeCovers
  BY DEF Init, SubmitsIndexed, PurgeAlone, PurgeCovers, Known
<1>2. SweepsCover
  BY DEF Init, SweepsCover, SweepAt, Known
<1>3. DoneMeansIndexed
  BY DEF Init, DoneMeansIndexed, Known
<1>4. QED
  BY <1>1, <1>2, <1>3, InitType DEF IInv

LEMMA SubmitKeepsInv == ASSUME IInv, NEW i \in Instance, Submit(i) PROVE IInv'
<1>0. TypeOK /\ TypeOK'
  BY SubmitType DEF IInv
<1>1. CASE SubmitRecord(i)
  <2>1. PICK j \in Jobs \ used :
            /\ records' = records \cup {j}
            /\ used' = used \cup {j}
            /\ submits' = [submits EXCEPT ![i] = [job |-> j, at |-> "stored"]]
    BY <1>1 DEF SubmitRecord
  <2>2. UNCHANGED <<index, sweep, deleting, purge, acked, missed, marker>>
    BY <1>1 DEF SubmitRecord
  <2>3. raced' = (raced \/ purge # Idle)
    BY <1>1 DEF SubmitRecord
  <2>4. j \notin acked
    BY <1>0 DEF TypeOK
  <2>5. SubmitsIndexed'
    <3> SUFFICES ASSUME ~raced', NEW k \in Instance, submits'[k] # Idle,
                        submits'[k].at = "indexed", submits'[k].job \in Stored'
                 PROVE  submits'[k].job \in Known'
      BY DEF SubmitsIndexed, Known
    <3>1. k # i
      BY <1>0, <2>1 DEF TypeOK, SubmitsTyped
    <3>2. submits'[k] = submits[k] /\ submits[k].job \in used
      BY <1>0, <2>1, <3>1 DEF TypeOK, SubmitsTyped
    <3>3. submits[k].job \in Stored
      BY <2>1, <2>2, <3>2 DEF Stored
    <3>4. QED
      BY <2>2, <2>3, <3>2, <3>3 DEF IInv, SubmitsIndexed, Known
  <2>6. acked' \cap Stored' = acked \cap Stored
    BY <2>1, <2>2, <2>4 DEF Stored
  <2>7. SweepsCover'
    BY <2>2, <2>3, <2>6 DEF IInv, SweepsCover, Known
  <2>8. PurgeAlone' /\ PurgeCovers'
    BY <2>2, <2>3 DEF PurgeAlone, PurgeCovers
  <2>9. DoneMeansIndexed'
    BY <2>2, <2>3, <2>6 DEF IInv, DoneMeansIndexed, Stored, Known
  <2>10. QED
    BY <1>0, <2>5, <2>7, <2>8, <2>9 DEF IInv
<1>2. CASE SubmitIndex(i)
  <2>1. /\ index' = index \cup {submits[i].job}
        /\ submits[i] # Idle
        /\ submits' = [submits EXCEPT ![i] = [submits[i] EXCEPT !.at = "indexed"]]
        /\ UNCHANGED <<records, marker, sweep, deleting, purge, acked, raced, missed>>
    BY <1>2 DEF SubmitIndex, history
  <2>2. submits'[i].job = submits[i].job
    BY <1>0, <2>1 DEF TypeOK, SubmitsTyped, Submission
  <2>3. \A k \in Instance \ {i} : submits'[k] = submits[k]
    BY <1>0, <2>1 DEF TypeOK, SubmitsTyped
  <2>4. SubmitsIndexed'
    BY <2>1, <2>2, <2>3 DEF IInv, SubmitsIndexed, Stored, Known
  <2>5. SweepsCover'
    BY <2>1 DEF IInv, SweepsCover, Stored, Known
  <2>6. raced \/ purge = Idle
    BY <2>1 DEF IInv, PurgeAlone, InProgress
  <2>7. PurgeAlone' /\ PurgeCovers'
    BY <2>1, <2>6 DEF PurgeAlone, PurgeCovers
  <2>8. DoneMeansIndexed'
    BY <2>1 DEF IInv, DoneMeansIndexed, Known
  <2>9. QED
    BY <1>0, <2>4, <2>5, <2>7, <2>8 DEF IInv
<1>3. CASE SubmitClaim(i)
  <2>1. /\ submits[i] # Idle /\ submits[i].at = "indexed"
        /\ acked' = acked \cup {submits[i].job}
        /\ submits' = [submits EXCEPT ![i] = Idle]
        /\ UNCHANGED <<records, index, marker, sweep, deleting, purge, raced, missed>>
    BY <1>3 DEF SubmitClaim
  <2>2. ~raced /\ submits[i].job \in Stored => submits[i].job \in Known
    BY <2>1 DEF IInv, SubmitsIndexed, Known
  <2>3. \A k \in Instance : submits'[k] # Idle => submits'[k] = submits[k]
    BY <1>0, <2>1 DEF TypeOK, SubmitsTyped
  <2>4. SubmitsIndexed'
    BY <2>1, <2>3 DEF IInv, SubmitsIndexed, Stored, Known
  <2>5. SweepsCover'
    BY <2>1, <2>2 DEF IInv, SweepsCover, Stored, Known
  <2>6. PurgeAlone' /\ PurgeCovers'
    BY <2>1, <2>3 DEF IInv, PurgeAlone, PurgeCovers, InProgress
  <2>7. DoneMeansIndexed'
    BY <2>1, <2>2 DEF IInv, DoneMeansIndexed, Stored, Known
  <2>8. QED
    BY <1>0, <2>4, <2>5, <2>6, <2>7 DEF IInv
<1>4. CASE SubmitIndexFails(i)
  <2>1. /\ missed' = missed \cup {submits[i].job}
        /\ submits[i] # Idle
        /\ submits' = [submits EXCEPT ![i] = [submits[i] EXCEPT !.at = "indexed"]]
        /\ UNCHANGED <<records, index, marker, sweep, deleting, purge, acked, raced>>
    BY <1>4 DEF SubmitIndexFails, store
  <2>2. submits'[i].job = submits[i].job
    BY <1>0, <2>1 DEF TypeOK, SubmitsTyped, Submission
  <2>3. \A k \in Instance \ {i} : submits'[k] = submits[k]
    BY <1>0, <2>1 DEF TypeOK, SubmitsTyped
  <2>4. SubmitsIndexed'
    BY <2>1, <2>2, <2>3 DEF IInv, SubmitsIndexed, Stored, Known
  <2>5. SweepsCover'
    BY <2>1 DEF IInv, SweepsCover, Stored, Known
  <2>6. raced \/ purge = Idle
    BY <2>1 DEF IInv, PurgeAlone, InProgress
  <2>7. PurgeAlone' /\ PurgeCovers'
    BY <2>1, <2>6 DEF PurgeAlone, PurgeCovers
  <2>8. DoneMeansIndexed'
    BY <2>1 DEF IInv, DoneMeansIndexed, Known
  <2>9. QED
    BY <1>0, <2>4, <2>5, <2>7, <2>8 DEF IInv
<1>5. QED
  BY <1>1, <1>2, <1>3, <1>4 DEF Submit

LEMMA DeleteKeepsInv == ASSUME IInv, NEW j \in Jobs, Delete(j) PROVE IInv'
<1>0. TypeOK /\ TypeOK'
  BY DeleteType DEF IInv
<1>1. CASE DeleteUnindex(j)
  <2>1. /\ index \ {j} \subseteq index' /\ index' \subseteq index /\ deleting' = deleting \cup {j}
        /\ UNCHANGED <<records, marker, submits, sweep, purge, acked, raced, missed>>
    BY <1>1 DEF DeleteUnindex
  <2>2. Stored' = Stored \ {j}
    BY <2>1 DEF Stored
  <2>3. SubmitsIndexed'
    BY <2>1, <2>2 DEF IInv, SubmitsIndexed, Known
  <2>4. SweepsCover'
    BY <2>1, <2>2 DEF IInv, SweepsCover, Known
  <2>5. PurgeAlone'
    BY <2>1 DEF IInv, PurgeAlone, InProgress
  <2>6. ASSUME ~raced, purge # Idle
        PROVE  purge.kept \cap index' \subseteq Newest(purge.keep, index')
    <3>1. purge.keep \in Nat
      BY <1>0, <2>6, IndexAssumption DEF TypeOK, Purging
    <3>2. Newest(purge.keep, index) \cap index' \subseteq Newest(purge.keep, index')
      BY <1>0, <2>1, <3>1, IndexFinite, NewestShrinks
    <3>3. purge.kept \cap index \subseteq Newest(purge.keep, index)
      BY <2>6 DEF IInv, PurgeCovers
    <3>4. QED
      BY <2>1, <3>2, <3>3
  <2>7. PurgeCovers'
    BY <2>1, <2>6 DEF IInv, PurgeCovers
  <2>8. DoneMeansIndexed'
    BY <2>1 DEF IInv, DoneMeansIndexed, Known
  <2>9. QED
    BY <1>0, <2>3, <2>4, <2>5, <2>7, <2>8 DEF IInv
<1>2. CASE DeleteRecord(j)
  <2>1. /\ j \in deleting
        /\ records' = records \ {j} /\ deleting' = deleting \ {j}
        /\ UNCHANGED <<index, marker, submits, sweep, acked, raced, missed>>
    BY <1>2 DEF DeleteRecord, history
  <2>2. Stored' = Stored
    BY <2>1 DEF Stored
  <2>3. SubmitsIndexed'
    BY <2>1, <2>2 DEF IInv, SubmitsIndexed, Known
  <2>4. SweepsCover'
    BY <2>1, <2>2 DEF IInv, SweepsCover, Known
  <2>5. CASE purge = Idle
    <3>1. purge' = Idle
      BY <1>2, <2>5 DEF DeleteRecord
    <3>2. QED
      BY <1>0, <2>1, <2>2, <2>3, <2>4, <3>1
      DEF IInv, PurgeAlone, PurgeCovers, DoneMeansIndexed, Stored, Known
  <2>6. CASE purge # Idle
    <3>1. purge' = [purge EXCEPT !.owed = @ \ {j}]
      BY <1>2, <2>6 DEF DeleteRecord
    <3>2. purge \in Purging
      BY <1>0, <2>6 DEF TypeOK
    <3>3. /\ purge'.kept = purge.kept /\ purge'.left = purge.left
          /\ purge'.batch = purge.batch /\ purge'.keep = purge.keep
      BY <3>1, <3>2 DEF Purging
    <3>4. PurgeCovers'
      BY <2>1, <2>6, <3>3 DEF IInv, PurgeCovers
    <3>5. PurgeAlone'
      BY <2>1, <2>6 DEF IInv, PurgeAlone, InProgress
    <3>6. DoneMeansIndexed'
      BY <2>1, <2>2 DEF IInv, DoneMeansIndexed, Stored, Known
    <3>7. QED
      BY <1>0, <2>3, <2>4, <3>4, <3>5, <3>6 DEF IInv
  <2>7. QED
    BY <2>5, <2>6
<1>3. CASE DeleteRecordFails(j)
  <2>1. /\ deleting' = deleting \ {j} /\ missed' = missed \cup {j}
        /\ UNCHANGED <<records, index, marker, submits, sweep, purge, acked, raced>>
    BY <1>3 DEF DeleteRecordFails, store
  <2>2. Stored' \subseteq Stored \cup {j} /\ Known' = Known \cup {j}
    BY <2>1 DEF Stored, Known
  <2>3. SubmitsIndexed' /\ SweepsCover'
    BY <2>1, <2>2 DEF IInv, SubmitsIndexed, SweepsCover, Known
  <2>4. PurgeAlone' /\ PurgeCovers'
    BY <2>1 DEF IInv, PurgeAlone, PurgeCovers, InProgress
  <2>5. DoneMeansIndexed'
    BY <2>1 DEF IInv, DoneMeansIndexed, Known
  <2>6. QED
    BY <1>0, <2>3, <2>4, <2>5 DEF IInv
<1>4. QED
  BY <1>1, <1>2, <1>3 DEF Delete

\* A step that touches none of what the invariant speaks of.
LEMMA InvStays ==
    ASSUME IInv, TypeOK',
           UNCHANGED <<records, index, marker, submits, sweep, deleting, purge,
                       acked, raced, missed>>
    PROVE  IInv'
<1>1. SubmitsIndexed' /\ SweepsCover'
  BY DEF IInv, SubmitsIndexed, SweepsCover, Stored, Known
<1>2. PurgeAlone' /\ PurgeCovers'
  BY DEF IInv, PurgeAlone, PurgeCovers, InProgress
<1>3. DoneMeansIndexed'
  BY DEF IInv, DoneMeansIndexed, Known
<1>4. QED
  BY <1>1, <1>2, <1>3 DEF IInv

\* One sweep moves on and nothing is indexed: it covers what it has to, and a
\* purge it meets is marked.
LEMMA SweepMoves ==
    ASSUME IInv, TypeOK', NEW i \in Instance, NEW to \in Sweep, MoveSweep(i, to),
           UNCHANGED <<records, index, marker, submits, deleting, purge, acked, missed>>,
           raced => raced',
           to.at = "scan" => raced' \/ purge = Idle,
           to.at = "scan" /\ ~raced' =>
               acked \cap Stored \subseteq Known \cup to.left \cup {to.hand}
    PROVE  IInv'
<1>1. sweep'[i] = to /\ \A k \in Instance \ {i} : sweep'[k] = sweep[k]
  BY DEF IInv, TypeOK, SweepsTyped, MoveSweep
<1>2. SubmitsIndexed'
  BY DEF IInv, SubmitsIndexed, Stored, Known
<1>3. SweepsCover'
  BY <1>1 DEF IInv, SweepsCover, Stored, Known
<1>4. PurgeAlone'
  BY <1>1 DEF IInv, PurgeAlone, InProgress
<1>5. PurgeCovers'
  BY DEF IInv, PurgeCovers
<1>6. DoneMeansIndexed'
  BY DEF IInv, DoneMeansIndexed, Known
<1>7. QED
  BY <1>2, <1>3, <1>4, <1>5, <1>6 DEF IInv

\* A sweep in progress passes jobs by.
LEMMA SweepLeaves ==
    ASSUME IInv, TypeOK', NEW i \in Instance, sweep[i].at = "scan",
           NEW to \in Sweep, MoveSweep(i, to), missed \subseteq missed',
           UNCHANGED <<records, index, marker, submits, deleting, purge, acked, raced>>,
           ~raced => acked \cap Stored \subseteq Known' \cup to.left \cup {to.hand}
    PROVE  IInv'
<1>1. sweep'[i] = to /\ \A k \in Instance \ {i} : sweep'[k] = sweep[k]
  BY DEF IInv, TypeOK, SweepsTyped, MoveSweep
<1>2. SubmitsIndexed'
  BY DEF IInv, SubmitsIndexed, Stored, Known
<1>3. SweepsCover'
  BY <1>1 DEF IInv, SweepsCover, Stored, Known
<1>4. raced \/ purge = Idle
  BY DEF IInv, PurgeAlone, InProgress
<1>5. PurgeAlone' /\ PurgeCovers'
  BY <1>4 DEF PurgeAlone, PurgeCovers
<1>6. DoneMeansIndexed'
  BY DEF IInv, DoneMeansIndexed, Known
<1>7. QED
  BY <1>2, <1>3, <1>5, <1>6 DEF IInv

\* A sweep in progress has met every purge there is.
LEMMA SweepApart ==
    ASSUME IInv, NEW i \in Instance, sweep[i].at = "scan"
    PROVE  raced \/ purge = Idle
BY DEF IInv, PurgeAlone, InProgress

LEMMA BackfillKeepsInv == ASSUME IInv, NEW i \in Instance, Backfill(i) PROVE IInv'
<1>0. TypeOK /\ TypeOK'
  BY BackfillType DEF IInv
<1>a. sweep[i] \in Sweep /\ acked \cap Stored \subseteq Jobs
  BY <1>0 DEF TypeOK, SweepsTyped
<1>b. 0 \notin Jobs
  BY IndexAssumption DEF Jobs
<1>c. SweepAt("off").at = "off" /\ SweepAt("lock").at = "lock" /\ SweepAt("unlock").at = "unlock"
  BY DEF SweepAt
<1>1. CASE LookForMarker(i)
  <2>1. PICK to \in {SweepAt("off"), SweepAt("lock")} : MoveSweep(i, to)
    BY <1>1 DEF LookForMarker
  <2>2. to \in Sweep /\ to.at # "scan"
    BY <1>c, SweepAtType
  <2>3. UNCHANGED <<records, index, marker, submits, deleting, purge, acked, raced, missed>>
    BY <1>1 DEF LookForMarker, store, history
  <2>4. QED
    BY <1>0, <2>1, <2>2, <2>3, SweepMoves
<1>2. CASE TakeLock(i)
  <2>1. /\ UNCHANGED <<records, index, marker, submits, deleting, purge, acked, missed>>
        /\ raced' = (raced \/ purge # Idle)
    BY <1>2 DEF TakeLock
  <2>2. CASE lock
    <3>1. MoveSweep(i, SweepAt("off"))
      BY <1>2, <2>2 DEF TakeLock
    <3>2. QED
      BY <1>0, <1>c, <2>1, <3>1, SweepAtType, SweepMoves
  <2>3. CASE ~lock
    <3>1. PICK new \in SUBSET (Jobs \ used) :
              MoveSweep(i, [at |-> "scan", left |-> records \cup new, hand |-> 0])
      BY <1>2, <2>3 DEF TakeLock
    <3> DEFINE to == [at |-> "scan", left |-> records \cup new, hand |-> 0]
    <3>2. to \in Sweep /\ to.left = records \cup new
      BY <1>0, IndexAssumption DEF Sweep, TypeOK
    <3>3. acked \cap Stored \subseteq to.left
      BY <3>2 DEF Stored
    <3>4. MoveSweep(i, to)
      BY <3>1
    <3> HIDE DEF to
    <3>5. QED
      BY <1>0, <2>1, <3>2, <3>3, <3>4, SweepMoves
  <2>4. QED
    BY <2>2, <2>3
<1>3. CASE ClaimFails(i)
  <2>1. /\ MoveSweep(i, SweepAt("off"))
        /\ UNCHANGED <<records, index, marker, submits, deleting, purge, acked, raced, missed>>
    BY <1>3 DEF ClaimFails
  <2>2. QED
    BY <1>0, <1>c, <2>1, SweepAtType, SweepMoves
<1>4. ASSUME NEW j \in Jobs, SweepRead(i, j)
      PROVE  IInv'
  <2> DEFINE half == [sweep[i] EXCEPT !.left = @ \ {j}]
             to == [half EXCEPT !.hand = j]
  <2>1. /\ sweep[i].at = "scan" /\ sweep[i].hand = 0
        /\ MoveSweep(i, to)
        /\ UNCHANGED <<records, index, marker, submits, deleting, purge, acked, raced, missed>>
    BY <1>4 DEF SweepRead, store, history
  <2>2. half \in Sweep /\ half.left = sweep[i].left \ {j}
    BY <1>a DEF Sweep
  <2> HIDE DEF half
  <2>3. to \in Sweep /\ to.left = sweep[i].left \ {j} /\ to.hand = j
    BY <2>2, IndexAssumption DEF Sweep, Jobs
  <2>4. raced \/ purge = Idle
    BY <2>1, SweepApart
  <2>5. ~raced => acked \cap Stored \subseteq Known \cup sweep[i].left \cup {0}
    BY <2>1 DEF IInv, SweepsCover, Known
  <2> HIDE DEF to
  <2>6. ~raced => acked \cap Stored \subseteq Known \cup to.left \cup {to.hand}
    BY <1>a, <1>b, <2>3, <2>5
  <2>7. QED
    BY <1>0, <2>1, <2>3, <2>4, <2>6, SweepMoves
<1>5. CASE SweepIndex(i)
  <2>1. /\ sweep[i].at = "scan"
        /\ index' = index \cup {sweep[i].hand}
        /\ sweep' = [sweep EXCEPT ![i] = [sweep[i] EXCEPT !.hand = 0]]
        /\ UNCHANGED <<records, marker, submits, deleting, purge, acked, raced, missed>>
    BY <1>5 DEF SweepIndex, MoveSweep, history
  <2>2. \A k \in Instance : sweep'[k].at = sweep[k].at /\ sweep'[k].left = sweep[k].left
    BY <1>0, <2>1 DEF TypeOK, SweepsTyped, Sweep
  <2>3. \A k \in Instance \ {i} : sweep'[k].hand = sweep[k].hand
    BY <1>0, <2>1 DEF TypeOK, SweepsTyped
  <2>4. raced \/ purge = Idle
    BY <2>1, SweepApart
  <2>5. SubmitsIndexed'
    BY <2>1 DEF IInv, SubmitsIndexed, Stored, Known
  <2>6. SweepsCover'
    BY <2>1, <2>2, <2>3 DEF IInv, SweepsCover, Stored, Known
  <2>7. PurgeAlone' /\ PurgeCovers'
    BY <2>1, <2>4 DEF PurgeAlone, PurgeCovers
  <2>8. DoneMeansIndexed'
    BY <2>1 DEF IInv, DoneMeansIndexed, Known
  <2>9. QED
    BY <1>0, <2>5, <2>6, <2>7, <2>8 DEF IInv
<1>6. CASE SweepBreaksOff(i)
  <2>1. /\ sweep[i].at = "scan" /\ sweep[i].hand = 0 /\ MoveSweep(i, SweepAt("scan"))
        /\ missed' = missed \cup (sweep[i].left \cap records)
        /\ UNCHANGED <<records, index, marker, submits, deleting, purge, acked, raced>>
    BY <1>6 DEF SweepBreaksOff, store
  <2>2. ~raced => acked \cap Stored \subseteq Known'
    <3>1. ~raced => acked \cap Stored \subseteq Known \cup sweep[i].left \cup {0}
      BY <2>1 DEF IInv, SweepsCover, Known
    <3>2. QED
      BY <1>a, <1>b, <2>1, <3>1 DEF Stored, Known
  <2>3. QED
    BY <1>0, <2>1, <2>2, SweepAtType, SweepLeaves
<1>7. CASE SetMarker(i)
  <2>1. /\ sweep[i].at = "scan" /\ sweep[i].hand = 0 /\ sweep[i].left \cap records = {}
        /\ MoveSweep(i, SweepAt("unlock"))
        /\ UNCHANGED <<records, index, submits, deleting, purge, acked, raced, missed>>
    BY <1>7 DEF SetMarker, history
  <2>2. ~raced => acked \cap Stored \subseteq Known
    <3>1. ~raced => acked \cap Stored \subseteq Known \cup sweep[i].left \cup {0}
      BY <2>1 DEF IInv, SweepsCover, Known
    <3>2. QED
      BY <1>a, <1>b, <2>1, <3>1 DEF Stored
  <2>3. DoneMeansIndexed'
    BY <2>1, <2>2 DEF DoneMeansIndexed, Stored, Known
  <2>4. sweep'[i].at = "unlock" /\ \A k \in Instance \ {i} : sweep'[k] = sweep[k]
    BY <1>0, <1>c, <2>1 DEF TypeOK, SweepsTyped, MoveSweep
  <2>5. SubmitsIndexed' /\ SweepsCover'
    BY <2>1, <2>4 DEF IInv, SubmitsIndexed, SweepsCover, Stored, Known
  <2>6. PurgeAlone' /\ PurgeCovers'
    BY <2>1, <2>4 DEF IInv, PurgeAlone, PurgeCovers, InProgress
  <2>7. QED
    BY <1>0, <2>3, <2>5, <2>6 DEF IInv
<1>8. CASE DropLock(i)
  <2>1. /\ MoveSweep(i, SweepAt("off"))
        /\ UNCHANGED <<records, index, marker, submits, deleting, purge, acked, raced, missed>>
    BY <1>8 DEF DropLock, history
  <2>2. QED
    BY <1>0, <1>c, <2>1, SweepAtType, SweepMoves
<1>9. ASSUME NEW j \in Jobs, SweepReadFails(i, j)
      PROVE  IInv'
  <2> DEFINE to == [sweep[i] EXCEPT !.left = @ \ {j}]
  <2>1. /\ sweep[i].at = "scan" /\ MoveSweep(i, to) /\ missed' = missed \cup {j}
        /\ UNCHANGED <<records, index, marker, submits, deleting, purge, acked, raced>>
    BY <1>9 DEF SweepReadFails, store
  <2>2. to \in Sweep /\ to.left = sweep[i].left \ {j} /\ to.hand = sweep[i].hand
    BY <1>a DEF Sweep
  <2> HIDE DEF to
  <2>3. ~raced => acked \cap Stored \subseteq Known \cup sweep[i].left \cup {sweep[i].hand}
    BY <2>1 DEF IInv, SweepsCover, Known
  <2>4. ~raced => acked \cap Stored \subseteq Known' \cup to.left \cup {to.hand}
    BY <2>1, <2>2, <2>3 DEF Known
  <2>5. QED
    BY <1>0, <2>1, <2>2, <2>4, SweepLeaves
<1>10. CASE SweepIndexFails(i)
  <2> DEFINE to == [sweep[i] EXCEPT !.hand = 0]
  <2>1. /\ sweep[i].at = "scan" /\ MoveSweep(i, to) /\ missed' = missed \cup {sweep[i].hand}
        /\ UNCHANGED <<records, index, marker, submits, deleting, purge, acked, raced>>
    BY <1>10 DEF SweepIndexFails, store
  <2>2. to \in Sweep /\ to.left = sweep[i].left /\ to.hand = 0
    BY <1>a, IndexAssumption DEF Sweep
  <2> HIDE DEF to
  <2>3. ~raced => acked \cap Stored \subseteq Known \cup sweep[i].left \cup {sweep[i].hand}
    BY <2>1 DEF IInv, SweepsCover, Known
  <2>4. ~raced => acked \cap Stored \subseteq Known' \cup to.left \cup {to.hand}
    BY <2>1, <2>2, <2>3 DEF Known
  <2>5. QED
    BY <1>0, <2>1, <2>2, <2>4, SweepLeaves
<1>11. CASE SetMarkerFails(i) \/ DropLockFails(i)
  <2>1. PICK to \in {SweepAt("off"), SweepAt("unlock")} : MoveSweep(i, to)
    BY <1>11 DEF SetMarkerFails, DropLockFails
  <2>2. to \in Sweep /\ to.at # "scan"
    BY <1>c, SweepAtType
  <2>3. UNCHANGED <<records, index, marker, submits, deleting, purge, acked, raced, missed>>
    BY <1>11 DEF SetMarkerFails, DropLockFails, store
  <2>4. QED
    BY <1>0, <2>1, <2>2, <2>3, SweepMoves
<1>12. QED
  BY <1>1, <1>2, <1>3, <1>4, <1>5, <1>6, <1>7, <1>8, <1>9, <1>10, <1>11 DEF Backfill

LEMMA PurgeKeepsInv == ASSUME IInv, Purge PROVE IInv'
<1>0. TypeOK /\ TypeOK'
  BY PurgeType DEF IInv
<1>a. purge # Idle => purge \in Purging
  BY <1>0 DEF TypeOK
<1>1. ASSUME NEW n \in KeepRecent, PurgeStart(n)
      PROVE  IInv'
  <2>1. PICK new \in SUBSET (Keys \ (used \cup claims)), blind \in BOOLEAN :
            purge' = [at |-> "scan", keep |-> n,
                      kept |-> IF blind THEN {} ELSE Newest(n, index), blind |-> blind,
                      left |-> records \cup claims \cup new, batch |-> {}, owed |-> Owed(n)]
    BY <1>1, IndexAssumption DEF PurgeStart
  <2>2. /\ raced' = (raced \/ InProgress)
        /\ UNCHANGED <<records, index, marker, submits, sweep, deleting, acked, missed>>
    BY <1>1 DEF PurgeStart, store
  <2>3. PurgeAlone'
    BY <2>2 DEF PurgeAlone, InProgress
  <2>4. purge'.keep = n /\ purge'.kept \subseteq Newest(n, index) /\ records \subseteq purge'.left
    BY <2>1
  <2>5. PurgeCovers'
    BY <2>2, <2>4 DEF PurgeCovers
  <2>6. SubmitsIndexed' /\ SweepsCover'
    BY <2>2 DEF IInv, SubmitsIndexed, SweepsCover, Stored, Known
  <2>7. DoneMeansIndexed'
    BY <2>2 DEF IInv, DoneMeansIndexed, Known
  <2>8. QED
    BY <1>0, <2>3, <2>5, <2>6, <2>7 DEF IInv
<1>2. ASSUME NEW k \in Keys, PurgeVisit(k)
      PROVE  IInv'
  <2> DEFINE half == [purge EXCEPT !.left = @ \ {k}]
             to == [half EXCEPT !.batch = @ \cup ({k} \ purge.kept)]
  <2>1. /\ purge # Idle /\ purge' = to
        /\ UNCHANGED <<records, index, marker, submits, sweep, deleting, acked, raced, missed>>
    BY <1>2 DEF PurgeVisit, store, history
  <2>2. /\ half \in Purging /\ half.left = purge.left \ {k} /\ half.batch = purge.batch
        /\ half.kept = purge.kept /\ half.keep = purge.keep
    BY <1>a, <2>1 DEF Purging
  <2> HIDE DEF half
  <2>3. /\ to.left = purge.left \ {k} /\ to.batch = purge.batch \cup ({k} \ purge.kept)
        /\ to.kept = purge.kept /\ to.keep = purge.keep
    BY <2>2 DEF Purging
  <2> HIDE DEF to
  <2>4. PurgeCovers'
    BY <2>1, <2>3 DEF IInv, PurgeCovers
  <2>5. PurgeAlone'
    BY <2>1 DEF IInv, PurgeAlone, InProgress
  <2>6. SubmitsIndexed' /\ SweepsCover'
    BY <2>1 DEF IInv, SubmitsIndexed, SweepsCover, Stored, Known
  <2>7. DoneMeansIndexed'
    BY <2>1 DEF IInv, DoneMeansIndexed, Known
  <2>8. QED
    BY <1>0, <2>4, <2>5, <2>6, <2>7 DEF IInv
<1>3. CASE PurgeUnlink
  <2>1. /\ purge # Idle /\ records' = records \ purge.batch
        /\ purge' = [purge EXCEPT !.batch = {}]
        /\ UNCHANGED <<index, marker, submits, sweep, deleting, acked, raced, missed>>
    BY <1>3 DEF PurgeUnlink, history
  <2>2. /\ purge'.left = purge.left /\ purge'.kept = purge.kept /\ purge'.keep = purge.keep
    BY <1>a, <2>1 DEF Purging
  <2>3. PurgeCovers'
    BY <2>1, <2>2 DEF IInv, PurgeCovers
  <2>4. PurgeAlone'
    BY <2>1 DEF IInv, PurgeAlone, InProgress
  <2>5. SubmitsIndexed' /\ SweepsCover'
    BY <2>1 DEF IInv, SubmitsIndexed, SweepsCover, Stored, Known
  <2>6. DoneMeansIndexed'
    BY <2>1 DEF IInv, DoneMeansIndexed, Known
  <2>7. QED
    BY <1>0, <2>3, <2>4, <2>5, <2>6 DEF IInv
<1>4. CASE PurgeTrim
  <2>1. /\ purge # Idle /\ purge.batch = {} /\ Due = {}
        /\ index' = Newest(purge.keep, index)
        /\ purge' = IF purge.keep = 0 THEN [purge EXCEPT !.at = "unmark"] ELSE Idle
        /\ UNCHANGED <<records, marker, submits, sweep, deleting, acked, raced, missed>>
    BY <1>4 DEF PurgeTrim, history
  <2>2. ~raced => ~InProgress
    BY <2>1 DEF IInv, PurgeAlone
  <2>3. ~raced => records \cap index \subseteq index' \cup missed
    BY <2>1 DEF IInv, PurgeCovers, Due
  <2>4. PurgeAlone'
    BY <2>1, <2>2 DEF PurgeAlone, InProgress
  <2>5. SubmitsIndexed' /\ SweepsCover'
    BY <2>1, <2>2 DEF SubmitsIndexed, SweepsCover, InProgress, Known
  <2>6. DoneMeansIndexed'
    BY <2>1, <2>3 DEF IInv, DoneMeansIndexed, Known
  <2>7. CASE purge.keep = 0
    <3>1. purge' = [purge EXCEPT !.at = "unmark"]
      BY <2>1, <2>7
    <3>2. /\ purge'.left = purge.left /\ purge'.batch = purge.batch
          /\ purge'.kept = purge.kept /\ purge'.keep = purge.keep
      BY <1>a, <2>1, <3>1 DEF Purging
    <3>3. Newest(purge.keep, index) \cap index' \subseteq Newest(purge.keep, index')
      <4>1. purge.keep \in Nat /\ index' \subseteq index
        BY <2>1, <2>7, NewestType
      <4>2. QED
        BY <1>0, <4>1, IndexFinite, NewestShrinks
    <3>4. PurgeCovers'
      BY <2>1, <3>2, <3>3 DEF IInv, PurgeCovers
    <3>5. QED
      BY <1>0, <2>4, <2>5, <2>6, <3>4 DEF IInv
  <2>8. CASE purge.keep # 0
    BY <1>0, <2>1, <2>4, <2>5, <2>6, <2>8 DEF IInv, PurgeCovers
  <2>9. QED
    BY <2>7, <2>8
<1>5. CASE PurgeUnmark
  <2>1. /\ ~marker' /\ purge' = Idle
        /\ UNCHANGED <<records, index, submits, sweep, deleting, acked, raced, missed>>
    BY <1>5 DEF PurgeUnmark, history
  <2>2. SubmitsIndexed' /\ SweepsCover'
    BY <2>1 DEF IInv, SubmitsIndexed, SweepsCover, Stored, Known
  <2>3. PurgeAlone' /\ PurgeCovers' /\ DoneMeansIndexed'
    BY <2>1 DEF PurgeAlone, PurgeCovers, DoneMeansIndexed, Known
  <2>4. QED
    BY <1>0, <2>2, <2>3 DEF IInv
<1>6. CASE PurgeUnlinkFails \/ PurgeBreaksOff
  <2>1. /\ purge # Idle
        /\ UNCHANGED <<records, index, marker, submits, sweep, deleting, acked, raced>>
        /\ \/ /\ missed' = missed \cup (purge.batch \cap records)
              /\ purge' = [purge EXCEPT !.batch = {}]
           \/ /\ missed' = missed \cup (purge.left \cap records)
              /\ purge' = [purge EXCEPT !.left = {}]
    BY <1>6 DEF PurgeUnlinkFails, PurgeBreaksOff, store
  <2>2. /\ purge'.kept = purge.kept /\ purge'.keep = purge.keep
        /\ records \cap (purge.left \cup purge.batch) \subseteq purge'.left \cup purge'.batch \cup missed'
        /\ missed \subseteq missed'
    BY <1>a, <2>1 DEF Purging
  <2>3. PurgeCovers'
    BY <2>1, <2>2 DEF IInv, PurgeCovers
  <2>4. PurgeAlone'
    BY <2>1 DEF IInv, PurgeAlone, InProgress
  <2>5. SubmitsIndexed' /\ SweepsCover'
    BY <2>1, <2>2 DEF IInv, SubmitsIndexed, SweepsCover, Stored, Known
  <2>6. DoneMeansIndexed'
    BY <2>1, <2>2 DEF IInv, DoneMeansIndexed, Known
  <2>7. QED
    BY <1>0, <2>3, <2>4, <2>5, <2>6 DEF IInv
<1>7. CASE PurgeTrimFails
  <2>1. /\ purge' = Idle
        /\ UNCHANGED <<records, index, marker, submits, sweep, deleting, acked, raced, missed>>
    BY <1>7 DEF PurgeTrimFails, store
  <2>2. SubmitsIndexed' /\ SweepsCover'
    BY <2>1 DEF IInv, SubmitsIndexed, SweepsCover, Stored, Known
  <2>3. PurgeAlone' /\ PurgeCovers'
    BY <2>1 DEF PurgeAlone, PurgeCovers
  <2>4. DoneMeansIndexed'
    BY <2>1 DEF IInv, DoneMeansIndexed, Known
  <2>5. QED
    BY <1>0, <2>2, <2>3, <2>4 DEF IInv
<1>8. QED
  BY <1>1, <1>2, <1>3, <1>4, <1>5, <1>6, <1>7 DEF Purge

LEMMA RestartKeepsInv == ASSUME IInv, NEW i \in Instance, Restart(i) PROVE IInv'
<1>0. TypeOK /\ TypeOK'
  BY RestartType DEF IInv
<1>1. /\ submits' = [submits EXCEPT ![i] = Idle]
      /\ sweep' = [sweep EXCEPT ![i] = SweepAt("look")]
      /\ purge' \in {purge, Idle}
      /\ UNCHANGED <<records, index, marker, deleting, acked, raced, missed>>
  BY DEF Restart, MoveSweep, store
<1>2. /\ \A k \in Instance : submits'[k] # Idle => submits'[k] = submits[k]
      /\ \A k \in Instance : sweep'[k].at = "scan" => sweep'[k] = sweep[k]
  BY <1>0, <1>1 DEF TypeOK, SubmitsTyped, SweepsTyped, SweepAt
<1>3. SubmitsIndexed'
  BY <1>1, <1>2 DEF IInv, SubmitsIndexed, Stored, Known
<1>4. SweepsCover'
  BY <1>1, <1>2 DEF IInv, SweepsCover, Stored, Known
<1>5. PurgeAlone' /\ PurgeCovers'
  BY <1>1, <1>2 DEF IInv, PurgeAlone, PurgeCovers, InProgress
<1>6. DoneMeansIndexed'
  BY <1>1 DEF IInv, DoneMeansIndexed, Known
<1>7. QED
  BY <1>0, <1>3, <1>4, <1>5, <1>6 DEF IInv

LEMMA StepInv == IInv /\ [Next]_vars => IInv'
<1> SUFFICES ASSUME IInv, [Next]_vars PROVE IInv'
  OBVIOUS
<1>0. TypeOK'
  BY StepType DEF IInv
<1>1. CASE List \/ LockExpires \/ UNCHANGED vars
  <2>1. UNCHANGED <<records, index, marker, submits, sweep, deleting, purge, acked, raced, missed>>
    BY <1>1 DEF List, ListStart, ListWindow, ListWindowFails, ListWalked, ListScan, ListScanFails,
                ListReturn, LockExpires, vars, store, history
  <2>2. QED
    BY <1>0, <2>1, InvStays
<1>2. QED
  BY <1>1, SubmitKeepsInv, DeleteKeepsInv, BackfillKeepsInv, PurgeKeepsInv, RestartKeepsInv
  DEF Next

\* Once the backfill's marker is set, every acknowledged job with a record is in
\* the index, whatever submits, deletions, sweeps, restarts and purges came in
\* between, but for the jobs at which Redis threw and as long as no purge met a
\* submit or a sweep.
THEOREM IndexDoneMeansIndexed == Spec => []DoneMeansIndexed
<1>1. Init => IInv
  BY InitInv
<1>2. IInv /\ [Next]_vars => IInv'
  BY StepInv
<1>3. IInv => DoneMeansIndexed
  BY DEF IInv
<1>4. QED
  BY <1>1, <1>2, <1>3, PTL DEF Spec

-----------------------------------------------------------------------------
(* What a purge keeps.  It unlinks only what it visited and did not keep;  *)
(* what it owes was among the kept when it started, if it could read them. *)

PurgeSound ==
    purge # Idle /\ ~purge.blind =>
        /\ purge.owed \subseteq records \cap purge.kept
        /\ purge.batch \cap purge.kept = {}

LEMMA PurgeStepSound == ASSUME TypeOK, PurgeSound, Purge PROVE PurgeSound'
<1>0. purge # Idle => purge \in Purging
  BY DEF TypeOK
<1>1. ASSUME NEW n \in KeepRecent, PurgeStart(n)
      PROVE  PurgeSound'
  <2>1. PICK new \in SUBSET (Keys \ (used \cup claims)), blind \in BOOLEAN :
            purge' = [at |-> "scan", keep |-> n,
                      kept |-> IF blind THEN {} ELSE Newest(n, index), blind |-> blind,
                      left |-> records \cup claims \cup new, batch |-> {}, owed |-> Owed(n)]
    BY <1>1, IndexAssumption DEF PurgeStart
  <2>2. Owed(n) \subseteq records \cap Newest(n, index)
    BY NewestType DEF Owed
  <2>3. records' = records
    BY <1>1 DEF PurgeStart, store
  <2>4. QED
    BY <2>1, <2>2, <2>3 DEF PurgeSound
<1>2. ASSUME NEW k \in Keys, PurgeVisit(k)
      PROVE  PurgeSound'
  <2> DEFINE half == [purge EXCEPT !.left = @ \ {k}]
             to == [half EXCEPT !.batch = @ \cup ({k} \ purge.kept)]
  <2>1. purge # Idle /\ purge' = to /\ records' = records
    BY <1>2 DEF PurgeVisit, store
  <2>2. /\ half \in Purging /\ half.batch = purge.batch /\ half.blind = purge.blind
        /\ half.kept = purge.kept /\ half.owed = purge.owed
    BY <1>0, <2>1 DEF Purging
  <2> HIDE DEF half
  <2>3. /\ to.batch = purge.batch \cup ({k} \ purge.kept) /\ to.blind = purge.blind
        /\ to.kept = purge.kept /\ to.owed = purge.owed
    BY <2>2 DEF Purging
  <2> HIDE DEF to
  <2>4. QED
    BY <2>1, <2>3 DEF PurgeSound
<1>3. CASE PurgeUnlink \/ PurgeUnlinkFails
  <2>1. /\ purge # Idle /\ records \ purge.batch \subseteq records'
        /\ purge' = [purge EXCEPT !.batch = {}]
    BY <1>3 DEF PurgeUnlink, PurgeUnlinkFails, store
  <2>2. /\ purge'.batch = {} /\ purge'.kept = purge.kept /\ purge'.owed = purge.owed
        /\ purge'.blind = purge.blind
    BY <1>0, <2>1 DEF Purging
  <2>3. QED
    BY <2>1, <2>2 DEF PurgeSound
<1>4. CASE PurgeTrim \/ PurgeBreaksOff
  <2>1. /\ purge' \in {[purge EXCEPT !.at = "unmark"], [purge EXCEPT !.left = {}], Idle}
        /\ purge # Idle /\ records' = records
    BY <1>4 DEF PurgeTrim, PurgeBreaksOff, store
  <2>2. purge' # Idle => /\ purge'.batch = purge.batch /\ purge'.kept = purge.kept
                         /\ purge'.owed = purge.owed /\ purge'.blind = purge.blind
    BY <1>0, <2>1 DEF Purging
  <2>3. QED
    BY <2>1, <2>2 DEF PurgeSound
<1>5. CASE PurgeUnmark \/ PurgeTrimFails
  BY <1>5 DEF PurgeUnmark, PurgeTrimFails, PurgeSound
<1>6. QED
  BY <1>1, <1>2, <1>3, <1>4, <1>5 DEF Purge

LEMMA StepPurgeSound == TypeOK /\ PurgeSound /\ [Next]_vars => PurgeSound'
<1> SUFFICES ASSUME TypeOK, PurgeSound, [Next]_vars PROVE PurgeSound'
  OBVIOUS
<1>1. ASSUME NEW i \in Instance, Submit(i) \/ Backfill(i) \/ Restart(i)
      PROVE  PurgeSound'
  <2>1. records \subseteq records' /\ purge' \in {purge, Idle}
    BY <1>1 DEF Submit, SubmitRecord, SubmitIndex, SubmitIndexFails, SubmitClaim, Backfill,
                LookForMarker, TakeLock, ClaimFails, SweepRead, SweepReadFails, SweepIndex,
                SweepIndexFails, SweepBreaksOff, SetMarker, SetMarkerFails, DropLock, DropLockFails,
                Restart, store
  <2>2. QED
    BY <2>1 DEF PurgeSound
<1>2. ASSUME NEW j \in Jobs, Delete(j)
      PROVE  PurgeSound'
  <2>1. CASE DeleteUnindex(j) \/ DeleteRecordFails(j)
    BY <2>1 DEF DeleteUnindex, DeleteRecordFails, store, PurgeSound
  <2>2. CASE DeleteRecord(j)
    <3>1. CASE purge = Idle
      BY <2>2, <3>1 DEF DeleteRecord, PurgeSound
    <3>2. CASE purge # Idle
      <4>1. purge' = [purge EXCEPT !.owed = @ \ {j}] /\ records' = records \ {j}
        BY <2>2, <3>2 DEF DeleteRecord
      <4>2. /\ purge'.batch = purge.batch /\ purge'.kept = purge.kept
            /\ purge'.owed = purge.owed \ {j} /\ purge'.blind = purge.blind
        BY <3>2, <4>1 DEF TypeOK, Purging
      <4>3. QED
        BY <3>2, <4>1, <4>2 DEF PurgeSound
    <3>3. QED
      BY <3>1, <3>2
  <2>3. QED
    BY <1>2, <2>1, <2>2 DEF Delete
<1>3. CASE List \/ LockExpires \/ UNCHANGED vars
  <2>1. records' = records /\ purge' = purge
    BY <1>3 DEF List, ListStart, ListWindow, ListWindowFails, ListWalked, ListScan, ListScanFails,
                ListReturn, LockExpires, vars, store
  <2>2. QED
    BY <2>1 DEF PurgeSound
<1>4. QED
  BY <1>1, <1>2, <1>3, PurgeStepSound DEF Next

\* A purge that starts on a whole index and reads which jobs it is to keep leaves
\* the newest, however the index changes under it and whatever Redis call throws
\* later: what it keeps is fixed at its start.
THEOREM IndexPurgeKeepsNewest == Spec => []PurgeKeepsNewest
<1>1. Init => PurgeSound
  BY DEF Init, PurgeSound
<1>2. PurgeSound => PurgeKeepsNewest
  BY DEF PurgeSound, PurgeKeepsNewest
<1>3. QED
  BY <1>1, <1>2, InitType, StepType, StepPurgeSound, PTL DEF Spec

-----------------------------------------------------------------------------
(* What a listing shows.  While it walks, what it owes is in the index, and *)
(* what is among the newest up to the cursor has been found, unless enough  *)
(* has matched; ranks only grow under it, for whatever shrinks the index    *)
(* takes away its debt.                                                     *)

\* The acknowledged jobs that did not come before the index are in it.
NewIndexed == ~raced => (acked \ 1..Legacy) \cap Stored \subseteq Known

WalkSound ==
    /\ listing.owed \subseteq index
    /\ listing.matched < MaxListed =>
           listing.owed \cap Newest(listing.cursor, index) \subseteq listing.found
    /\ \A j \in listing.owed \ listing.found : \A k \in listing.found : j < k

ListingSound ==
    listing # Idle =>
        /\ listing.owed \subseteq records
        /\ listing.at = "walk" => WalkSound
        /\ listing.at = "scan" => listing.owed \subseteq listing.found \cup listing.left
        /\ listing.at = "over" => listing.owed = {}

LInv == IInv /\ NewIndexed /\ ListingSound

\* Every rank up to the size of a finite set of numbers is somebody's.
LEMMA RanksAreTaken ==
    ASSUME NEW S \in SUBSET Nat, IsFiniteSet(S), NEW c \in Nat, c < Cardinality(S)
    PROVE  \E j \in S : Cardinality({k \in S : k > j}) = c
<1> DEFINE Above(j) == {k \in S : k > j}
           Ranks == 0..(Cardinality(S) - 1)
           rank == [j \in S |-> Cardinality(Above(j))]
<1>1. \A j : IsFiniteSet(Above(j)) /\ Cardinality(Above(j)) \in Nat
  BY FS_Subset, FS_CardinalityType
<1>2. Cardinality(S) \in Nat
  BY FS_CardinalityType
<1>3. \A j \in S : Cardinality(Above(j)) < Cardinality(S)
  <2> TAKE j \in S
  <2>1. Above(j) \in SUBSET S /\ Above(j) # S
    <3>1. ~(j > j)
      OBVIOUS
    <3> QED BY <3>1
  <2>2. /\ Cardinality(Above(j)) <= Cardinality(S)
        /\ Cardinality(S) = Cardinality(Above(j)) => S = Above(j)
    BY <2>1, FS_Subset
  <2> QED BY <1>1, <1>2, <2>1, <2>2
<1>4. \A j, l \in S : j < l => Cardinality(Above(l)) < Cardinality(Above(j))
  <2> TAKE j, l \in S
  <2> HAVE j < l
  <2>0. ~(l > l) /\ l > j /\ \A k \in S : k > l => k > j
    OBVIOUS
  <2>1. Above(l) \in SUBSET Above(j) /\ l \in Above(j) /\ l \notin Above(l)
    BY <2>0
  <2>2. /\ Cardinality(Above(l)) <= Cardinality(Above(j))
        /\ Cardinality(Above(j)) = Cardinality(Above(l)) => Above(j) = Above(l)
    BY <1>1, <2>1, FS_Subset
  <2> HIDE DEF Above
  <2> QED BY <1>1, <2>1, <2>2
<1>5. rank \in Injection(S, Ranks)
  <2> HIDE DEF Above
  <2>1. rank \in [S -> Ranks]
    BY <1>1, <1>2, <1>3
  <2>2. ASSUME NEW j \in S, NEW l \in S, rank[j] = rank[l]
        PROVE  j = l
    <3>1. j < l \/ l < j \/ j = l
      OBVIOUS
    <3> QED BY <1>1, <1>4, <2>2, <3>1
  <2> HIDE DEF rank
  <2> QED BY <2>1, <2>2 DEF Injection, IsInjective
<1>6. IsFiniteSet(Ranks) /\ Cardinality(Ranks) = Cardinality(S)
  <2>1. PICK n \in Nat : n = Cardinality(S)
    BY <1>2
  <2>2. n - 1 \in Int /\ (IF 0 > n - 1 THEN 0 ELSE (n - 1) - 0 + 1) = n
    OBVIOUS
  <2>3. IsFiniteSet(0..(n - 1)) /\ Cardinality(0..(n - 1)) = n
    BY <2>2, FS_Interval
  <2> QED BY <2>1, <2>3
<1>7. rank \in Surjection(S, Ranks)
  <2> HIDE DEF rank, Ranks
  <2> QED BY <1>5, <1>6, FS_Injection
<1>8. c \in Ranks
  BY <1>2
<1>9. \E j \in S : rank[j] = c
  <2> HIDE DEF rank, Ranks
  <2> QED BY <1>7, <1>8 DEF Surjection
<1> QED BY <1>9

\* Whoever comes after one of the newest is one of them.
LEMMA NewestUpward ==
    ASSUME NEW S \in SUBSET Nat, IsFiniteSet(S), NEW n \in Nat, NEW j \in S, NEW k \in Newest(n, S),
           ~(j < k)
    PROVE  j \in Newest(n, S)
<1> DEFINE Above(l) == {i \in S : i > l}
<1>1. k \in S /\ Cardinality(Above(k)) < n
  BY DEF Newest
<1>2. Above(j) \subseteq Above(k)
  <2>1. ASSUME NEW i \in S, i > j
        PROVE  i > k
    BY <1>1, <2>1
  <2> QED BY <2>1
<1>3. \A l : IsFiniteSet(Above(l)) /\ Cardinality(Above(l)) \in Nat
  BY FS_Subset, FS_CardinalityType
<1>4. Cardinality(Above(j)) <= Cardinality(Above(k))
  BY <1>2, <1>3, FS_Subset
<1>5. Cardinality(Above(j)) < n
  <2> HIDE DEF Above
  <2> QED BY <1>1, <1>3, <1>4
<1> QED BY <1>5 DEF Newest

LEMMA NewestGrows ==
    ASSUME NEW S, IsFiniteSet(S), NEW m \in Nat, NEW n \in Nat, m <= n
    PROVE  Newest(m, S) \subseteq Newest(n, S)
<1> SUFFICES ASSUME NEW j \in Newest(m, S) PROVE j \in Newest(n, S)
  OBVIOUS
<1> DEFINE c == Cardinality({k \in S : k > j})
<1>1. c \in Nat
  BY FS_Subset, FS_CardinalityType
<1>2. j \in S /\ c < m
  BY DEF Newest
<1>3. c < n
  <2> HIDE DEF c
  <2> QED BY <1>1, <1>2
<1> QED BY <1>2, <1>3 DEF Newest

\* The newest n are n, unless they are all.
LEMMA NewestFull ==
    ASSUME NEW S \in SUBSET Nat, IsFiniteSet(S), NEW n \in Nat, Newest(n, S) # S
    PROVE  Cardinality(Newest(n, S)) >= n
<1> DEFINE N == Newest(n, S)
           Above(l) == {i \in S : i > l}
<1>1. N \subseteq S
  BY NewestType
<1>2. IsFiniteSet(N) /\ Cardinality(N) \in Nat /\ Cardinality(S) \in Nat
  BY <1>1, FS_Subset, FS_CardinalityType
<1>3. Cardinality(N) < Cardinality(S)
  <2> HIDE DEF N
  <2>1. Cardinality(N) <= Cardinality(S) /\ (Cardinality(S) = Cardinality(N) => S = N)
    BY <1>1, FS_Subset
  <2>2. N # S
    BY DEF N
  <2> QED BY <1>2, <2>1, <2>2
<1>4. SUFFICES ASSUME Cardinality(N) < n PROVE FALSE
  BY <1>2
<1>5. PICK l \in S : Cardinality(Above(l)) = Cardinality(N)
  <2> HIDE DEF N
  <2> QED BY <1>2, <1>3, RanksAreTaken
<1>6. l \in N
  BY <1>4, <1>5 DEF Newest
<1>7. Above(l) \subseteq N
  <2> SUFFICES ASSUME NEW i \in S, i > l PROVE i \in N
    OBVIOUS
  <2>1. ~(i < l)
    OBVIOUS
  <2> QED BY <1>6, <2>1, NewestUpward
<1>8. l \notin Above(l)
  <2>1. ~(l > l)
    OBVIOUS
  <2> QED BY <2>1
<1>9. Above(l) = N
  <2> HIDE DEF N, Above
  <2> QED BY <1>2, <1>5, <1>7, FS_Subset
<1> QED BY <1>6, <1>8, <1>9

\* A window past which there is nothing is past the whole index.
LEMMA EmptyWindow ==
    ASSUME TypeOK, NEW c \in Nat, WindowAt(c) = {}
    PROVE  index \subseteq Newest(c, index)
<1> SUFFICES ASSUME NEW j \in index, j \notin Newest(c, index)
             PROVE  FALSE
  OBVIOUS
<1> DEFINE Above(l) == {k \in index : k > l}
<1>1. index \in SUBSET Nat /\ IsFiniteSet(index)
  BY IndexFinite, IndexAssumption DEF TypeOK, Jobs
<1>2. \A l : IsFiniteSet(Above(l)) /\ Cardinality(Above(l)) \in Nat
             /\ Cardinality(Above(l)) <= Cardinality(index)
  BY <1>1, FS_Subset, FS_CardinalityType
<1>3. Cardinality(index) \in Nat
  BY <1>1, FS_CardinalityType
<1>4. ~(Cardinality(Above(j)) < c)
  BY DEF Newest
<1>5. Above(j) # index
  <2>1. j \notin Above(j)
    BY <1>1
  <2> QED BY <2>1
<1>6. Cardinality(Above(j)) # Cardinality(index)
  BY <1>1, <1>5, FS_Subset
<1>7. c < Cardinality(index)
  <2> HIDE DEF Above
  <2> QED BY <1>2, <1>3, <1>4, <1>6
<1>8. PICK l \in index : Cardinality(Above(l)) = c
  BY <1>1, <1>7, RanksAreTaken
<1>9. l \in Newest(c + Window, index) /\ l \notin Newest(c, index)
  <2>1. c < c + Window /\ ~(c < c)
    BY IndexAssumption
  <2> QED BY <1>8, <2>1 DEF Newest
<1> QED BY <1>9 DEF WindowAt

\* What comes into the index only moves the cursor back.
LEMMA ListingGrows ==
    ASSUME TypeOK, TypeOK', ListingSound, listing' = listing,
           records \subseteq records', index \subseteq index'
    PROVE  ListingSound'
<1>1. CASE listing = Idle
  BY <1>1 DEF ListingSound
<1>2. CASE listing # Idle
  <2>1. PICK c \in Nat : c = listing.cursor
    BY <1>2 DEF TypeOK, Listing
  <2>2. PICK more : more = index'
    OBVIOUS
  <2>3. IsFiniteSet(more)
    BY <2>2, JobsFinite, FS_Subset DEF TypeOK
  <2>4. Newest(c, more) \cap index \subseteq Newest(c, index)
    BY <2>2, <2>3, NewestShrinks
  <2>5. Newest(listing.cursor, index)' = Newest(c, more)
    BY <2>1, <2>2
  <2>6. listing.at = "walk" => WalkSound'
    BY <1>2, <2>1, <2>2, <2>4, <2>5 DEF ListingSound, WalkSound
  <2> QED BY <1>2, <2>6 DEF ListingSound
<1> QED BY <1>1, <1>2

LEMMA ListingIsShifted ==
    ASSUME TypeOK, IndexShifted
    PROVE  ListingSound'
<1>1. listing' # Idle => listing'.owed = {}
  BY DEF IndexShifted, TypeOK, Listing
<1> QED BY <1>1 DEF ListingSound, WalkSound

LEMMA ListingLoses ==
    ASSUME TypeOK, ListingSound, NEW gone, RecordsGone(gone), records' = records \ gone,
           index' = index
    PROVE  ListingSound'
<1>1. CASE listing = Idle
  BY <1>1 DEF RecordsGone, ListingSound
<1>2. CASE listing # Idle
  <2>1. listing' = [listing EXCEPT !.owed = @ \ gone]
    BY <1>2 DEF RecordsGone
  <2>2. /\ listing'.owed = listing.owed \ gone /\ listing'.at = listing.at
        /\ listing'.cursor = listing.cursor /\ listing'.found = listing.found
        /\ listing'.left = listing.left /\ listing'.matched = listing.matched
    BY <1>2, <2>1 DEF TypeOK, Listing
  <2>3. Newest(listing.cursor, index)' = Newest(listing.cursor, index)
    BY <2>2
  <2>4. listing.at = "walk" => WalkSound'
    BY <1>2, <2>2, <2>3 DEF ListingSound, WalkSound
  <2> QED BY <1>2, <2>2, <2>4 DEF ListingSound
<1> QED BY <1>1, <1>2

\* A window read: what it does not show of its own is older than all it shows, or it
\* shows it all.
LEMMA WindowSound == ASSUME TypeOK, ListingSound, ListWindow PROVE ListingSound'
<1>0. UNCHANGED <<records, index>> /\ IsFiniteSet(index) /\ index \in SUBSET Nat
  BY IndexFinite, IndexAssumption DEF ListWindow, store, TypeOK, Jobs
<1> DEFINE W == WindowAt(listing.cursor)
           rest == MaxListed - listing.matched
           S(unread) == (W \cap records) \ unread
<1>1. PICK unread \in SUBSET W :
          LET shown == Newest(rest, S(unread))
          IN  /\ listing \in Listing /\ Walking
              /\ shown \subseteq Jobs /\ IsFiniteSet(shown) /\ Cardinality(shown) \in Nat
              /\ listing' = [at |-> "walk", cursor |-> listing.cursor + Window,
                             found |-> listing.found \cup shown,
                             matched |-> listing.matched + Cardinality(shown),
                             left |-> listing.left, owed |-> listing.owed \ unread]
  BY WindowMoves
<1> DEFINE shown == Newest(rest, S(unread))
           c == listing.cursor
<1>2. /\ listing # Idle /\ listing.at = "walk" /\ c \in Nat /\ c + Window \in Nat
      /\ listing.matched \in Nat /\ listing.matched < MaxListed /\ rest \in Nat
  BY <1>1, IndexAssumption DEF Walking, Listing
<1>3. /\ S(unread) \in SUBSET Nat /\ IsFiniteSet(S(unread))
      /\ W \subseteq Newest(c + Window, index)
      /\ Newest(c + Window, index) \subseteq Newest(c, index) \cup W
  <2>1. W \subseteq index
    BY WindowType
  <2> QED BY <1>0, <2>1, FS_Subset DEF WindowAt
<1>4. /\ listing'.at = "walk" /\ listing'.cursor = c + Window
      /\ listing'.found = listing.found \cup shown
      /\ listing'.matched = listing.matched + Cardinality(shown)
      /\ listing'.owed = listing.owed \ unread
  BY <1>1
<1>5. Newest(listing.cursor, index)' = Newest(c + Window, index)
  BY <1>0, <1>4
<1> HIDE DEF W
<1>6. shown \subseteq S(unread) /\ Cardinality(shown) \in Nat
  BY <1>1, NewestType
<1>7. listing.matched + Cardinality(shown) < MaxListed => shown = S(unread)
  <2>1. shown # S(unread) => Cardinality(shown) >= rest
    BY <1>2, <1>3, NewestFull
  <2> HIDE DEF shown, S
  <2> QED BY <1>2, <1>6, <2>1, IndexAssumption
<1>8. /\ listing.owed \subseteq index \cap records
      /\ listing.owed \cap Newest(c, index) \subseteq listing.found
      /\ \A j \in listing.owed \ listing.found : \A k \in listing.found : j < k
  BY <1>2 DEF ListingSound, WalkSound
<1>9. listing'.matched < MaxListed =>
          listing'.owed \cap Newest(c + Window, index) \subseteq listing'.found
  <2> HIDE DEF shown
  <2> QED BY <1>3, <1>4, <1>7, <1>8
<1>10. ASSUME NEW j \in listing'.owed \ listing'.found, NEW k \in listing'.found
       PROVE  j < k
  <2>1. /\ j \in listing.owed /\ j \notin unread /\ j \notin listing.found /\ j \notin shown
        /\ j \in index /\ j \in records /\ j \notin Newest(c, index)
    BY <1>4, <1>8
  <2>2. CASE k \in listing.found
    BY <1>8, <2>1, <2>2
  <2>3. CASE k \in shown /\ j \in W
    BY <1>2, <1>3, <2>1, <2>3, NewestUpward
  <2>4. CASE k \in shown /\ j \notin W
    <3>1. k \in Newest(c + Window, index)
      BY <1>3, <1>6, <2>4
    <3>2. j \notin Newest(c + Window, index)
      BY <1>3, <2>1, <2>4
    <3> QED BY <1>0, <1>2, <2>1, <3>1, <3>2, NewestUpward
  <2> QED BY <1>4, <2>2, <2>3, <2>4
<1>11. WalkSound'
  BY <1>0, <1>4, <1>5, <1>8, <1>9, <1>10 DEF WalkSound
<1> QED BY <1>0, <1>4, <1>8, <1>11 DEF ListingSound

LEMMA ListStepSound == ASSUME LInv, List PROVE ListingSound'
<1>0. TypeOK /\ IsFiniteSet(index) /\ UNCHANGED <<records, index>> /\ ListingSound
  BY IndexFinite DEF LInv, IInv, List, ListStart, ListWindow, ListWindowFails, ListWalked,
                     ListReturn, ListScan, ListScanFails, store
<1>1. listing # Idle => listing \in Listing
  BY <1>0 DEF TypeOK
<1>2. CASE ListStart
  <2> DEFINE due == IF raced THEN {}
                    ELSE ((IF marker THEN acked ELSE acked \ 1..Legacy) \cap records)
                             \ (deleting \cup missed)
  <2>1. listing' = [at |-> "walk", cursor |-> 0, found |-> {}, matched |-> 0, left |-> {},
                    owed |-> due]
    BY <1>2 DEF ListStart
  <2>2. due \subseteq records \cap index
    BY DEF LInv, IInv, NewIndexed, DoneMeansIndexed, Stored, Known
  <2> HIDE DEF due
  <2>3. Newest(0, index) = {}
    <3>1. ASSUME NEW j \in Newest(0, index)
          PROVE  FALSE
      <4>1. IsFiniteSet({k \in index : k > j})
        BY <1>0, FS_Subset
      <4> QED BY <3>1, <4>1, FS_CardinalityType DEF Newest
    <3> QED BY <3>1
  <2>4. Newest(listing.cursor, index)' = {}
    BY <1>0, <2>1, <2>3
  <2> QED BY <1>0, <2>1, <2>2, <2>4 DEF ListingSound, WalkSound
<1>3. CASE ListWindow
  BY <1>0, <1>3, WindowSound
<1>4. CASE ListWindowFails
  <2>1. listing # Idle /\ listing' = [listing EXCEPT !.at = "over", !.owed = {}]
    BY <1>4 DEF ListWindowFails, Walking
  <2>2. listing'.at = "over" /\ listing'.owed = {}
    BY <1>1, <2>1 DEF Listing
  <2> QED BY <2>2 DEF ListingSound
<1>5. CASE ListWalked
  <2>1. PICK new \in SUBSET (Jobs \ used) :
            listing' = [listing EXCEPT !.at = "scan", !.left = records \cup new]
    BY <1>5 DEF ListWalked
  <2>2. listing # Idle
    BY <1>5 DEF ListWalked, Walking
  <2>3. /\ listing'.at = "scan" /\ listing'.left = records \cup new
        /\ listing'.owed = listing.owed
    BY <1>1, <2>1, <2>2 DEF Listing
  <2> QED BY <1>0, <2>2, <2>3 DEF ListingSound
<1>6. ASSUME NEW j \in Jobs, ListScan(j)
      PROVE  ListingSound'
  <2>1. listing # Idle /\ listing.at = "scan"
    BY <1>6 DEF ListScan, Scanning
  <2> DEFINE l == listing.left \ {j}
             f == listing.found \cup {j}
             m == listing.matched + 1
  <2>2. listing' = [listing EXCEPT !.left = l, !.found = f, !.matched = m]
    BY <1>1, <1>6, <2>1 DEF ListScan, Listing
  <2> HIDE DEF l, f, m
  <2>3. /\ listing'.left = l /\ listing'.found = f /\ listing'.at = "scan"
        /\ listing'.owed = listing.owed
    <3> DEFINE half == [listing EXCEPT !.left = l]
               more == [half EXCEPT !.found = f]
    <3>1. /\ half.left = l /\ half.found = listing.found /\ half.at = "scan"
          /\ half.owed = listing.owed
          /\ half = [at |-> listing.at, cursor |-> listing.cursor, found |-> listing.found,
                     matched |-> listing.matched, left |-> l, owed |-> listing.owed]
      BY <1>1, <2>1 DEF Listing
    <3>2. listing' = [more EXCEPT !.matched = m]
      BY <2>2
    <3> HIDE DEF half
    <3>3. more = [at |-> listing.at, cursor |-> listing.cursor, found |-> f,
                  matched |-> listing.matched, left |-> l, owed |-> listing.owed]
      BY <3>1
    <3> HIDE DEF more
    <3> QED BY <2>1, <3>2, <3>3
  <2> QED BY <1>0, <2>1, <2>3 DEF ListingSound, l, f
<1>7. CASE ListScanFails
  <2>0. PICK unread \in SUBSET listing.left :
            listing' = [listing EXCEPT !.left = @ \ unread, !.owed = @ \ unread]
    BY <1>7 DEF ListScanFails
  <2>1. listing # Idle /\ listing.at = "scan"
    BY <1>7 DEF ListScanFails, Scanning
  <2>2. /\ listing'.left = listing.left \ unread /\ listing'.owed = listing.owed \ unread
        /\ listing'.at = "scan" /\ listing'.found = listing.found
    BY <1>1, <2>0, <2>1 DEF Listing
  <2> QED BY <1>0, <2>1, <2>2 DEF ListingSound
<1>8. CASE ListReturn
  BY <1>8 DEF ListReturn, ListingSound
<1> QED BY <1>2, <1>3, <1>4, <1>5, <1>6, <1>7, <1>8 DEF List

LEMMA StepListingSound == ASSUME LInv, [Next]_vars PROVE ListingSound'
<1>0. TypeOK /\ TypeOK' /\ ListingSound
  BY StepType DEF LInv, IInv
<1>1. ASSUME NEW i \in Instance, Submit(i) \/ Backfill(i) \/ Restart(i)
      PROVE  ListingSound'
  <2>1. records \subseteq records' /\ index \subseteq index' /\ listing' = listing
    BY <1>1 DEF Submit, SubmitRecord, SubmitIndex, SubmitIndexFails, SubmitClaim, Backfill,
                LookForMarker, TakeLock, ClaimFails, SweepRead, SweepReadFails, SweepIndex,
                SweepIndexFails, SweepBreaksOff, SetMarker, SetMarkerFails, DropLock, DropLockFails,
                Restart, store
  <2> QED BY <1>0, <2>1, ListingGrows
<1>2. ASSUME NEW j \in Jobs, Delete(j)
      PROVE  ListingSound'
  <2>1. CASE IndexShifted
    BY <1>0, <2>1, ListingIsShifted
  <2>2. CASE DeleteRecord(j)
    BY <1>0, <2>2, ListingLoses DEF DeleteRecord
  <2>3. CASE ~DeleteRecord(j) /\ ~IndexShifted
    <3>1. UNCHANGED <<records, index, listing>>
      BY <1>2, <2>3 DEF Delete, DeleteUnindex, DeleteRecordFails, store
    <3> QED BY <1>0, <3>1, ListingGrows
  <2> QED BY <2>1, <2>2, <2>3
<1>3. CASE Purge
  <2>1. CASE PurgeUnlink
    BY <1>0, <2>1, ListingLoses DEF PurgeUnlink
  <2>2. CASE PurgeTrim
    BY <1>0, <2>2, ListingIsShifted DEF PurgeTrim
  <2>3. CASE ~PurgeUnlink /\ ~PurgeTrim
    <3>1. UNCHANGED <<records, index, listing>>
      BY <1>3, <2>3 DEF Purge, PurgeStart, PurgeVisit, PurgeUnmark, PurgeUnlinkFails,
                        PurgeBreaksOff, PurgeTrimFails, store
    <3> QED BY <1>0, <3>1, ListingGrows
  <2> QED BY <2>1, <2>2, <2>3
<1>4. CASE LockExpires \/ UNCHANGED vars
  <2>1. UNCHANGED <<records, index, listing>>
    BY <1>4 DEF LockExpires, vars, store
  <2> QED BY <1>0, <2>1, ListingGrows
<1> QED BY <1>1, <1>2, <1>3, <1>4, ListStepSound DEF Next

LEMMA StepNewIndexed == ASSUME LInv, [Next]_vars PROVE NewIndexed'
<1>0. TypeOK /\ NewIndexed
  BY DEF LInv, IInv
<1>1. ASSUME NEW i \in Instance, Submit(i)
      PROVE  NewIndexed'
  <2>1. CASE SubmitRecord(i)
    <3>1. PICK j \in Jobs \ used : records' = records \cup {j}
      BY <2>1 DEF SubmitRecord
    <3>2. j \notin acked /\ UNCHANGED <<index, acked, deleting, missed>> /\ (raced => raced')
      BY <1>0, <2>1, <3>1 DEF SubmitRecord, TypeOK
    <3> QED BY <1>0, <3>1, <3>2 DEF NewIndexed, Stored, Known
  <2>2. CASE SubmitIndex(i) \/ SubmitIndexFails(i)
    <3>1. UNCHANGED <<records, deleting, acked, raced>> /\ Known \subseteq Known'
      BY <2>2 DEF SubmitIndex, SubmitIndexFails, Known, store, history
    <3> QED BY <1>0, <3>1 DEF NewIndexed, Stored
  <2>3. CASE SubmitClaim(i)
    <3>1. ~raced /\ submits[i].job \in Stored => submits[i].job \in Known
      BY <2>3 DEF LInv, IInv, SubmitsIndexed, SubmitClaim
    <3>2. UNCHANGED <<records, deleting, raced, Known>> /\ acked' = acked \cup {submits[i].job}
      BY <2>3 DEF SubmitClaim, Known
    <3> QED BY <1>0, <3>1, <3>2 DEF NewIndexed, Stored
  <2> QED BY <1>1, <2>1, <2>2, <2>3 DEF Submit
<1>2. ASSUME NEW i \in Instance, Backfill(i) \/ Restart(i)
      PROVE  NewIndexed'
  <2>1. UNCHANGED <<records, deleting, acked>> /\ Known \subseteq Known'
    BY <1>2 DEF Backfill, LookForMarker, TakeLock, ClaimFails, SweepRead, SweepReadFails, SweepIndex,
                SweepIndexFails, SweepBreaksOff, SetMarker, SetMarkerFails, DropLock, DropLockFails,
                Restart, store, history, Known
  <2>2. raced' = raced \/ TakeLock(i)
    BY <1>2 DEF Backfill, LookForMarker, ClaimFails, SweepRead, SweepReadFails, SweepIndex,
                SweepIndexFails, SweepBreaksOff, SetMarker, SetMarkerFails, DropLock, DropLockFails,
                Restart, history
  <2>3. raced => raced'
    BY <2>2, Zenon DEF TakeLock
  <2> QED BY <1>0, <2>1, <2>3 DEF NewIndexed, Stored
<1>3. ASSUME NEW j \in Jobs, Delete(j)
      PROVE  NewIndexed'
  <2>1. CASE DeleteRecordFails(j)
    <3>1. /\ records' = records /\ deleting' = deleting \ {j} /\ Known' = Known \cup {j}
          /\ UNCHANGED <<acked, raced>>
      BY <2>1 DEF DeleteRecordFails, Known, store
    <3> QED BY <1>0, <3>1 DEF NewIndexed, Stored
  <2>2. CASE DeleteUnindex(j) \/ DeleteRecord(j)
    <3>1. /\ Stored' \subseteq Stored /\ Stored' \cap Known \subseteq Known'
          /\ UNCHANGED <<acked, raced>>
      BY <2>2 DEF DeleteUnindex, DeleteRecord, Stored, Known, history
    <3> QED BY <1>0, <3>1 DEF NewIndexed
  <2> QED BY <1>3, <2>1, <2>2 DEF Delete
<1>4. CASE Purge
  <2>1. records' \subseteq records /\ UNCHANGED <<deleting, acked>>
    BY <1>4 DEF Purge, PurgeStart, PurgeVisit, PurgeUnlink, PurgeTrim, PurgeUnmark,
                PurgeUnlinkFails, PurgeBreaksOff, PurgeTrimFails, store, history
  <2>2. raced' = raced \/ \E n \in KeepRecent : PurgeStart(n)
    BY <1>4 DEF Purge, PurgeVisit, PurgeUnlink, PurgeTrim, PurgeUnmark,
                PurgeUnlinkFails, PurgeBreaksOff, PurgeTrimFails, history
  <2>3. raced => raced'
    BY <2>2, Zenon DEF PurgeStart
  <2>4. ~raced => records \cap Known \subseteq Known'
    <3>1. CASE PurgeTrim
      <4>1. /\ purge # Idle /\ purge.batch = {} /\ Due = {} /\ missed' = missed
            /\ index' = Newest(purge.keep, index)
        BY <3>1 DEF PurgeTrim, history
      <4> QED BY <4>1 DEF LInv, IInv, PurgeCovers, Due, Known
    <3>2. CASE ~PurgeTrim
      BY <1>4, <3>2 DEF Purge, PurgeStart, PurgeVisit, PurgeUnlink, PurgeUnmark,
                        PurgeUnlinkFails, PurgeBreaksOff, PurgeTrimFails, store, history, Known
    <3> QED BY <3>1, <3>2
  <2> QED BY <1>0, <2>1, <2>3, <2>4 DEF NewIndexed, Stored
<1>5. CASE List \/ LockExpires \/ UNCHANGED vars
  <2>1. UNCHANGED <<records, index, deleting, acked, raced, missed>>
    BY <1>5 DEF List, ListStart, ListWindow, ListWindowFails, ListWalked, ListScan, ListScanFails,
                ListReturn, LockExpires, vars, store, history
  <2> QED BY <1>0, <2>1 DEF NewIndexed, Stored, Known
<1> QED BY <1>1, <1>2, <1>3, <1>4, <1>5 DEF Next

\* What a listing that is over leaves out of the jobs it owes is beyond
\* MAX_INDEX_WALK in the index, or older than all it shows, of which there are
\* MAX_LISTED_RECORDS, whatever is submitted and swept into the index while its
\* cursor walks by rank.  It owes the acknowledged jobs (before the backfill is done,
\* the newer ones) that had a record when it began, and have it still, and that no
\* call that threw left out of the index or of the listing.
THEOREM IndexListingIsComplete == Spec => []ListingIsComplete
<1>1. Init => LInv
  BY InitInv DEF LInv, Init, NewIndexed, ListingSound
<1>2. LInv /\ [Next]_vars => LInv'
  BY StepInv, StepNewIndexed, StepListingSound DEF LInv
<1>3. LInv => ListingIsComplete
  <2> SUFFICES ASSUME LInv, ListOver, NEW j \in listing.owed \ listing.found
               PROVE  \/ listing.at = "walk" /\ j \notin Newest(MaxWalk, index)
                      \/ /\ listing.matched >= MaxListed
                         /\ listing.at = "walk" => \A k \in listing.found : j < k
    BY DEF ListingIsComplete
  <2>1. /\ TypeOK /\ listing \in Listing /\ listing # Idle /\ ListingSound
        /\ IsFiniteSet(index) /\ listing.matched \in Nat /\ listing.cursor \in Nat
        /\ {MaxListed, MaxWalk} \subseteq Nat
    BY IndexFinite, IndexAssumption DEF LInv, IInv, TypeOK, ListOver, Listing
  <2>2. CASE listing.matched >= MaxListed
    <3>1. listing.at = "walk" => \A k \in listing.found : j < k
      BY <2>1 DEF ListingSound, WalkSound
    <3> QED BY <2>2, <3>1
  <2>3. CASE ~(listing.matched >= MaxListed) /\ listing.at = "walk"
    <3>1. j \in index /\ j \notin Newest(listing.cursor, index)
      BY <2>1, <2>3 DEF ListingSound, WalkSound
    <3>2. WindowAt(listing.cursor) # {}
      BY <2>1, <3>1, EmptyWindow
    <3>3. MaxWalk <= listing.cursor
      BY <2>1, <2>3, <3>2 DEF ListOver
    <3>4. Newest(MaxWalk, index) \subseteq Newest(listing.cursor, index)
      BY <2>1, <3>3, NewestGrows
    <3> QED BY <2>3, <3>1, <3>4
  <2>4. CASE ~(listing.matched >= MaxListed) /\ listing.at = "scan"
    BY <2>1, <2>4 DEF ListingSound, ListOver
  <2>5. CASE listing.at = "over"
    BY <2>1, <2>5 DEF ListingSound
  <2> QED BY <2>1, <2>2, <2>3, <2>4, <2>5 DEF Listing
<1> QED BY <1>1, <1>2, <1>3, PTL DEF Spec
=============================================================================
