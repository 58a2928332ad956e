------------------------ MODULE EventPipelineProofs ------------------------
(***************************************************************************)
(* Proofs about the way of an event to the browser, for any number of      *)
(* events and attempts, any bounds of the caches and lists, and any number *)
(* of crashes, restarts, lost answers and expired claims.                  *)
(*                                                                         *)
(* The types are inductive with what a listener and a handler have in      *)
(* hand, and with the queue of requests Redis has yet to answer.           *)
(* NothingIsLost rests on Known: whatever a hop remembers of an event, its *)
(* claim, the server's map or java-ingest's cache, is true only because    *)
(* the event was projected, or burnt, or is about to be projected by the   *)
(* request that owns the claim.  ProjectedOnce is about that owner.        *)
(* ShowsTheBuffer follows the browser's place on the tape of projected     *)
(* events, of which the stream and the buffer both are an end.             *)
(***************************************************************************)
EXTENDS EventPipeline, SequenceTheorems, WellFoundedInduction, TLAPS

Waiting == {"claimed", "refused"}
InServer == {"arrived", "claimed", "refused", "replied"}

\* A request carries a named event.
HandlerFits ==
    \A l \in Level : handler[l] = Idle
                     \/ (handler[l].of \in Named /\ handler[l].at \in InServer)

\* A listener holds a record that it has not committed, and posts named ones.
ListenerFits ==
    \A l \in Level : listener[l] = Idle
        \/ /\ listener[l].of \in Message /\ kafka[listener[l].of][l] > 0
           /\ listener[l].at = "done" \/ (listener[l].at = "posted" /\ listener[l].of \in Named)

\* A listener that waits for an answer waits for its own request's, and an
\* answer is on its way to the listener that waits for it.
SameEvent ==
    \A l \in Level :
        /\ listener[l].at = "posted" /\ handler[l] # Idle => handler[l].of = listener[l].of
        /\ handler[l].at = "replied" => listener[l] = [of |-> handler[l].of, at |-> "posted"]

\* Redis owes an answer to each request that it has executed, and to no other.
Queue ==
    /\ \A i \in 1..Len(answers) : handler[answers[i]].at \in Waiting
    /\ \A l \in Level : handler[l].at \in Waiting => \E i \in 1..Len(answers) : answers[i] = l
    /\ \A i, j \in 1..Len(answers) : answers[i] = answers[j] => i = j

Owns(l, e) == handler[l] = [of |-> e, at |-> "claimed"]
Known == {e \in Named : recorded[e] > 0 \/ e \in burnt}

\* What the hops remember, they remember of known events; a claim may also be
\* of an event whose owner is still waiting, and so is what a refused request
\* will have been told when its turn comes.
ClaimsAreFounded == \A e \in claims : e \in Known \/ \E l \in Level : Owns(l, e)
MemoriesAreTrue ==
    /\ delivered \in Seq(Known) /\ memory \in Seq(Known)
    /\ \A l \in Level : handler[l].at = "replied" => handler[l].of \in Known
RefusalsAreFounded ==
    \A i \in 1..Len(answers) : handler[answers[i]].at = "refused" =>
        \/ handler[answers[i]].of \in Known
        \/ \E j \in 1..(i - 1) : Owns(answers[j], handler[answers[i]].of)

\* A record that a listener is done with has ended or is on a later topic.
PassedOn(l) == Ended(listener[l].of)
               \/ \E k \in Level : k > l /\ kafka[listener[l].of][k] > 0
DoneIsSafe == \A l \in Level : listener[l].at = "done" => PassedOn(l)

\* While Redis has served without fail, an event that is projected or about to
\* be has its claim, and is so once.
OneOwner ==
    ~troubled =>
        /\ hasRedis
        /\ \A e \in Named : recorded[e] > 0 => e \in claims
        /\ \A l \in Level : handler[l].at = "claimed" =>
              handler[l].of \in claims /\ recorded[handler[l].of] = 0
        /\ \A l, k \in Level : \A e \in Named : Owns(l, e) /\ Owns(k, e) => l = k

Hands == HandlerFits /\ ListenerFits /\ SameEvent /\ Queue
Foundation == ClaimsAreFounded /\ MemoriesAreTrue /\ RefusalsAreFounded

-----------------------------------------------------------------------------
(* The two bounded maps.                                                   *)

\* A set of numbers has its least one.
LEMMA LeastIsIn ==
    ASSUME NEW I \in SUBSET Nat, I # {}
    PROVE  Min(I) \in I
<1>1. PICK x \in I : \A y \in I : ~(<<y, x>> \in OpToRel(<, Nat))
  BY NatLessThanWellFounded, WFMin
<1>2. OpToRel(<, Nat) = {p \in Nat \X Nat : p[1] < p[2]}
  BY Zenon DEF OpToRel
<1>3. \A y \in I : <<y, x>> \in Nat \X Nat /\ ~(y < x)
  BY <1>1, <1>2
<1>4. \A y \in I : x =< y
  <2> TAKE y \in I
  <2>1. x \in Nat /\ y \in Nat
    OBVIOUS
  <2>2. ~(y < x)
    BY <1>3
  <2> QED BY <2>1, <2>2
<1> QED BY <1>4 DEF Min

\* Removing an event leaves a sequence over the same set, at most one shorter.
LEMMA RemoveFirstType ==
    ASSUME NEW S, NEW s \in Seq(S), NEW e
    PROVE  /\ RemoveFirst(s, e) \in Seq(S)
           /\ Len(RemoveFirst(s, e)) \in {Len(s), Len(s) - 1}
           /\ Len(s) \in Nat
<1>1. Len(s) \in Nat /\ \A i \in 1..Len(s) : s[i] \in S
  BY LenProperties, ElementOfSeq
<1>2. CASE \E i \in 1..Len(s) : s[i] = e
  <2> DEFINE I == {i \in 1..Len(s) : s[i] = e}
             k == Min(I)
  <2>1. k \in 1..Len(s)
    BY <1>2, LeastIsIn
  <2>2. RemoveFirst(s, e) = SubSeq(s, 1, k - 1) \o SubSeq(s, k + 1, Len(s))
    BY <1>2 DEF RemoveFirst, RemoveAt, SelectInSeq
  <2> HIDE DEF k, I
  <2>3. SubSeq(s, 1, k - 1) \in Seq(S) /\ Len(SubSeq(s, 1, k - 1)) = k - 1
    BY <1>1, <2>1, SubSeqProperties
  <2>4. SubSeq(s, k + 1, Len(s)) \in Seq(S) /\ Len(SubSeq(s, k + 1, Len(s))) = Len(s) - k
    BY <1>1, <2>1, SubSeqProperties
  <2>5. RemoveFirst(s, e) \in Seq(S)
        /\ Len(RemoveFirst(s, e)) = (k - 1) + (Len(s) - k)
    BY <2>2, <2>3, <2>4, ConcatProperties
  <2> QED BY <1>1, <2>1, <2>5
<1>3. CASE ~ \E i \in 1..Len(s) : s[i] = e
  BY <1>1, <1>3 DEF RemoveFirst
<1> QED BY <1>2, <1>3

\* A map stays within its bound and holds what it held, and the new event.
LEMMA LastUsedType ==
    ASSUME NEW S, NEW s \in Seq(S), NEW e \in S, NEW size \in Nat \ {0}, Len(s) <= size
    PROVE  LastUsed(s, e, size) \in Seq(S) /\ Len(LastUsed(s, e, size)) <= size
<1> DEFINE r == RemoveFirst(s, e)
           a == Append(r, e)
<1>1. r \in Seq(S) /\ Len(r) \in {Len(s), Len(s) - 1} /\ Len(s) \in Nat
  BY RemoveFirstType
<1>2. LastUsed(s, e, size) = IF Len(a) > size THEN Tail(a) ELSE a
  BY DEF LastUsed
<1> HIDE DEF r
<1>3. a \in Seq(S) /\ Len(a) = Len(r) + 1 /\ a # <<>>
  BY <1>1, AppendProperties
<1> HIDE DEF a
<1>4. Tail(a) \in Seq(S) /\ Len(Tail(a)) = Len(a) - 1
  BY <1>3, HeadTailProperties
<1> QED BY <1>1, <1>2, <1>3, <1>4

\* The buffer keeps the last events, and as many as it may.
LEMMA PushedType ==
    ASSUME NEW e \in Named, buffer \in Seq(Named), Len(buffer) <= Window, Window \in Nat
    PROVE  Pushed(e) \in Seq(Named) /\ Len(Pushed(e)) <= Window
<1> DEFINE a == Append(buffer, e)
<1>1. Len(buffer) \in Nat
  BY LenProperties
<1>2. a \in Seq(Named) /\ Len(a) = Len(buffer) + 1 /\ a # <<>>
  BY AppendProperties
<1>3. Pushed(e) = IF Len(a) > Window THEN Tail(a) ELSE a
  BY DEF Pushed
<1> HIDE DEF a
<1>4. Tail(a) \in Seq(Named) /\ Len(Tail(a)) = Len(a) - 1
  BY <1>2, HeadTailProperties
<1> QED BY <1>1, <1>2, <1>3, <1>4

\* The browser's list is cut to its length.
LEMMA FirstOfType ==
    ASSUME NEW s \in Seq(Named), Window \in Nat
    PROVE  FirstOf(s) \in Seq(Named) /\ Len(FirstOf(s)) <= Window
<1>1. Len(s) \in Nat /\ \A i \in 1..Len(s) : s[i] \in Named
  BY LenProperties, ElementOfSeq
<1>2. CASE Len(s) > Window
  <2>1. SubSeq(s, 1, Window) \in Seq(Named) /\ Len(SubSeq(s, 1, Window)) <= Window
    BY <1>1, <1>2, SubSeqProperties
  <2> QED BY <1>2, <2>1 DEF FirstOf
<1>3. CASE ~(Len(s) > Window)
  BY <1>1, <1>3 DEF FirstOf
<1> QED BY <1>2, <1>3

-----------------------------------------------------------------------------
(* The parts of the type invariant, by who writes them.                    *)

Records == published \in Batches /\ pulsar \subseteq published /\ vanished \subseteq published
           /\ deadLetters \subseteq Message /\ quarantined \subseteq Nameless
Topics == kafka \in [Message -> [Level -> Nat]]
Threads == listener \in [Level -> Place] /\ handler \in [Level -> Place]
CacheOK == delivered \in Seq(Named) /\ Len(delivered) <= CacheSize
RedisOK == hasRedis \in BOOLEAN /\ claims \subseteq Named /\ answers \in Seq(Level)
MemoryOK == memory \in Seq(Named) /\ Len(memory) <= MemorySize
BufferOK == buffer \in Seq(Named) /\ Len(buffer) <= Window
BrowserOK == (stream = Nothing \/ stream \in Seq(Named))
             /\ shown \in Seq(Named) /\ Len(shown) <= Window
HistoryOK == recorded \in [Named -> Nat] /\ burnt \subseteq Named /\ troubled \in BOOLEAN
FaultsOK == faults \in 0..MaxFaults

IngestSide == Records /\ Topics /\ CacheOK
ServerSide == RedisOK /\ MemoryOK /\ BufferOK /\ HistoryOK

LEMMA TypeParts == TypeOK <=> IngestSide /\ Threads /\ ServerSide /\ BrowserOK /\ FaultsOK
BY DEF TypeOK, IngestSide, ServerSide, Records, Topics, Threads, CacheOK, RedisOK, MemoryOK,
       BufferOK, BrowserOK, HistoryOK, FaultsOK

LEMMA TypePartsAfter ==
    TypeOK' <=> IngestSide' /\ Threads' /\ ServerSide' /\ BrowserOK' /\ FaultsOK'
BY TypeParts, PTL

TypeInv == TypeOK /\ Hands

\* Facts about the constants.
LEMMA Constants ==
    /\ \A b \in Batches : b \subseteq Message
    /\ Named \subseteq Message /\ Nameless \subseteq Message
    /\ Nothing \notin Named /\ Nothing \notin Message
    /\ Attempts \in Nat /\ Level = 1..Attempts /\ 1 \in Level
    /\ CacheSize \in Nat \ {0} /\ MemorySize \in Nat \ {0} /\ Window \in Nat \ {0}
    /\ MaxFaults \in Nat
BY PipelineAssumption DEF Message, Level

\* A fault that is counted is within its bound.
LEMMA FaultCounts ==
    ASSUME FaultsOK, Fault \/ UNCHANGED faults
    PROVE  FaultsOK'
BY Constants DEF FaultsOK, Fault

-----------------------------------------------------------------------------
(* Steps before the server: what the collector and java-ingest leave alone *)
(* of it.                                                                  *)

\* No request that Redis owes an answer comes or goes.
ServedAlike ==
    \A l \in Level : handler[l].at \in Waiting \/ handler'[l].at \in Waiting
                     => handler'[l] = handler[l]

LEMMA ServedQueue ==
    ASSUME Queue, RedisOK, ServedAlike, UNCHANGED answers
    PROVE  Queue'
<1>1. \A i \in 1..Len(answers) : answers[i] \in Level
  BY ElementOfSeq DEF RedisOK
<1> QED BY <1>1 DEF Queue, ServedAlike

BeforeServer == ServedAlike /\ UNCHANGED <<server, browser, history>>

LEMMA ServerUntouched ==
    ASSUME Queue, ServerSide, BrowserOK, BeforeServer
    PROVE  Queue' /\ ServerSide' /\ BrowserOK'
<1>1. UNCHANGED <<hasRedis, claims, answers, memory, buffer, stream, shown, recorded, burnt,
                  troubled>>
  BY DEF BeforeServer, server, browser, history
<1>2. Queue'
  BY <1>1, ServedQueue DEF BeforeServer, ServerSide
<1>3. ServerSide' /\ BrowserOK'
  BY <1>1 DEF ServerSide, RedisOK, MemoryOK, BufferOK, HistoryOK, BrowserOK
<1> QED BY <1>2, <1>3

\* A request put in place of another.
LEMMA HandlerStep ==
    ASSUME Threads, HandlerFits, NEW l \in Level, NEW h,
           h = Idle \/ (h \in Place /\ h.of \in Named /\ h.at \in InServer),
           handler' = [handler EXCEPT ![l] = h]
    PROVE  handler' \in [Level -> Place] /\ HandlerFits'
<1>1. h \in Place
  BY DEF Idle, Place
<1>2. handler \in [Level -> Place]
  BY DEF Threads
<1>3. handler' \in [Level -> Place]
  BY <1>1, <1>2
<1>4. \A k \in Level : handler'[k] = IF k = l THEN h ELSE handler[k]
  BY <1>2
<1>5. HandlerFits'
  BY <1>4 DEF HandlerFits
<1> QED BY <1>3, <1>5

\* Topics only grow, but for a commit.
KafkaGrew == \A m \in Message : \A l \in Level : kafka'[m][l] >= kafka[m][l]

LEMMA OneMore ==
    ASSUME Topics, NEW m \in Message, NEW l \in Level,
           kafka' = [kafka EXCEPT ![m][l] = @ + 1]
    PROVE  Topics' /\ KafkaGrew /\ kafka'[m][l] > 0
<1>1. kafka' = [kafka EXCEPT ![m] = [kafka[m] EXCEPT ![l] = kafka[m][l] + 1]]
  OBVIOUS
<1>2. kafka \in [Message -> [Level -> Nat]] /\ kafka[m] \in [Level -> Nat] /\ kafka[m][l] \in Nat
  BY DEF Topics
<1>3. [kafka[m] EXCEPT ![l] = kafka[m][l] + 1] \in [Level -> Nat]
  BY <1>2
<1>4. kafka' \in [Message -> [Level -> Nat]]
  BY <1>1, <1>2, <1>3
<1>5. kafka'[m][l] = kafka[m][l] + 1
  BY <1>1, <1>2
<1>6. ASSUME NEW x \in Message, NEW k \in Level
      PROVE  kafka'[x][k] >= kafka[x][k]
  <2>1. CASE x = m /\ k = l
    BY <2>1, <1>2, <1>5
  <2>2. CASE ~(x = m /\ k = l)
    <3>1. kafka'[x][k] = kafka[x][k]
      BY <2>2, <1>1, <1>2
    <3>2. kafka[x][k] \in Nat
      BY <1>2
    <3> QED BY <3>1, <3>2
  <2> QED BY <2>1, <2>2
<1> QED BY <1>2, <1>4, <1>5, <1>6 DEF Topics, KafkaGrew

\* A listener that holds a record keeps holding it as topics grow.
LEMMA GrowthKeepsRecords ==
    ASSUME ListenerFits, Topics, Topics', KafkaGrew, UNCHANGED listener
    PROVE  ListenerFits'
<1>1. \A m \in Message, l \in Level : kafka[m][l] \in Nat /\ kafka'[m][l] \in Nat
                                      /\ kafka'[m][l] >= kafka[m][l]
  BY DEF Topics, KafkaGrew
<1>2. \A m \in Message, l \in Level : kafka[m][l] > 0 => kafka'[m][l] > 0
  BY <1>1
<1> QED BY <1>2 DEF ListenerFits

\* A failed record is on the next topic or among the dead letters.
LEMMA RetryKeeps ==
    ASSUME Topics, Records, NEW m \in Message, NEW l \in Level, Retry(l, m)
    PROVE  /\ Topics' /\ KafkaGrew /\ deadLetters' \subseteq Message /\ deadLetters \subseteq deadLetters'
           /\ m \in deadLetters' \/ \E k \in Level : k > l /\ kafka'[m][k] > 0
<1>1. CASE l < Attempts
  <2>1. l + 1 \in Level /\ l + 1 > l
    BY <1>1, Constants
  <2>2. kafka' = [kafka EXCEPT ![m][l + 1] = @ + 1] /\ UNCHANGED deadLetters
    BY <1>1 DEF Retry
  <2>3. Topics' /\ KafkaGrew /\ kafka'[m][l + 1] > 0
    BY <2>1, <2>2, OneMore
  <2> QED BY <2>1, <2>2, <2>3 DEF Records
<1>2. CASE ~(l < Attempts)
  <2>1. deadLetters' = deadLetters \cup {m} /\ UNCHANGED kafka
    BY <1>2 DEF Retry
  <2>2. \A x \in Message, k \in Level : kafka[x][k] \in Nat
    BY DEF Topics
  <2>3. KafkaGrew
    BY <2>1, <2>2 DEF KafkaGrew
  <2> QED BY <2>1, <2>3 DEF Records, Topics
<1> QED BY <1>1, <1>2

\* A listener takes up or finishes a record that it has not committed.
LEMMA ListenerStep ==
    ASSUME Threads, Topics, Topics', KafkaGrew, ListenerFits,
           NEW l \in Level, NEW m \in Message, kafka[m][l] > 0,
           NEW where, where = "done" \/ (where = "posted" /\ m \in Named), At(l, m, where)
    PROVE  listener' \in [Level -> Place] /\ ListenerFits'
<1> DEFINE p == [of |-> m, at |-> where]
<1>1. listener \in [Level -> Place] /\ p \in Place /\ listener' = [listener EXCEPT ![l] = p]
  BY DEF Threads, Place, At
<1>2. listener' \in [Level -> Place]
  BY <1>1
<1>3. \A k \in Level : listener'[k] = IF k = l THEN p ELSE listener[k]
  BY <1>1
<1>4. p.of = m /\ p.at = where
  OBVIOUS
<1> HIDE DEF p
<1>5. \A x \in Message, k \in Level : kafka[x][k] \in Nat /\ kafka'[x][k] \in Nat
                                      /\ kafka'[x][k] >= kafka[x][k]
  BY DEF Topics, KafkaGrew
<1>6. \A x \in Message, k \in Level : kafka[x][k] > 0 => kafka'[x][k] > 0
  BY <1>5
<1>7. ListenerFits'
  <2> SUFFICES ASSUME NEW k \in Level
               PROVE  \/ listener'[k] = Idle
                      \/ /\ listener'[k].of \in Message /\ kafka'[listener'[k].of][k] > 0
                         /\ listener'[k].at = "done"
                            \/ (listener'[k].at = "posted" /\ listener'[k].of \in Named)
    BY DEF ListenerFits
  <2>1. CASE k = l
    BY <2>1, <1>3, <1>4, <1>6
  <2>2. CASE k # l
    BY <2>2, <1>3, <1>6 DEF ListenerFits
  <2> QED BY <2>1, <2>2
<1> QED BY <1>2, <1>7

\* Its request is its record's, and an answer is only awaited while posted.
LEMMA SameEventStep ==
    ASSUME Threads, SameEvent, NEW l \in Level, NEW m, NEW where, At(l, m, where),
           \A k \in Level \ {l} : handler'[k] = handler[k],
           where = "posted" => handler'[l] = Idle \/ handler'[l].of = m,
           handler'[l].at # "replied"
    PROVE  SameEvent'
<1> DEFINE p == [of |-> m, at |-> where]
<1>1. \A k \in Level : listener'[k] = IF k = l THEN p ELSE listener[k]
  BY DEF Threads, At
<1>2. p.of = m /\ p.at = where
  OBVIOUS
<1> HIDE DEF p
<1> QED BY <1>1, <1>2 DEF SameEvent

\* The types after a step before the server, from what the step writes.
LEMMA IngestHolds ==
    ASSUME TypeInv, BeforeServer, IngestSide', Threads', HandlerFits', ListenerFits', SameEvent',
           Fault \/ UNCHANGED faults
    PROVE  TypeInv'
<1>1. ServerSide' /\ BrowserOK' /\ Queue'
  BY ServerUntouched, TypeParts DEF TypeInv, Hands
<1>2. FaultsOK'
  BY FaultCounts, TypeParts DEF TypeInv
<1> QED BY <1>1, <1>2, TypePartsAfter DEF TypeInv, Hands

\* The record a listener may take, and one it has in hand.
LEMMA TakenHolds ==
    ASSUME NEW l \in Level, NEW m, CanTake(l, m)
    PROVE  kafka[m][l] > 0 /\ listener[l] = Idle /\ listener[l].at = "idle"
BY DEF CanTake, Idle

LEMMA PostedHolds ==
    ASSUME TypeInv, NEW l \in Level, listener[l].at = "posted"
    PROVE  listener[l].of \in Named /\ listener[l].of \in Message
           /\ kafka[listener[l].of][l] > 0
BY DEF TypeInv, Hands, ListenerFits, Idle

LEMMA SameKafka ==
    ASSUME Topics, UNCHANGED kafka
    PROVE  Topics' /\ KafkaGrew
<1>1. \A x \in Message, k \in Level : kafka[x][k] \in Nat
  BY DEF Topics
<1> QED BY <1>1 DEF Topics, KafkaGrew

LEMMA ForwardTypes ==
    ASSUME TypeInv, NEW m \in Message, Forward(m) \/ ForwardUnstored(m) \/ ForwardUnseen(m)
    PROVE  TypeInv' /\ KafkaGrew
<1>1. UNCHANGED <<listener, delivered, deadLetters, quarantined, handler>>
      /\ UNCHANGED <<server, browser, history>>
      /\ (kafka' = [kafka EXCEPT ![m][1] = @ + 1] \/ UNCHANGED kafka)
      /\ (pulsar' = pulsar \/ (pulsar' = pulsar \ {m} /\ m \in pulsar))
      /\ (vanished' = vanished \/ (vanished' = vanished \cup {m} /\ m \in pulsar))
      /\ (Fault \/ UNCHANGED faults)
  BY DEF Forward, ForwardUnstored, ForwardUnseen, ingest
<1>2. IngestSide /\ Threads /\ Hands
  BY TypeParts DEF TypeInv
<1>3. Topics' /\ KafkaGrew
  BY <1>1, <1>2, OneMore, SameKafka, Constants DEF IngestSide
<1>4. IngestSide' /\ Threads'
  BY <1>1, <1>2, <1>3 DEF IngestSide, Records, CacheOK, Threads, history
<1>5. HandlerFits' /\ ListenerFits' /\ SameEvent'
  <2>1. ListenerFits'
    BY <1>1, <1>2, <1>3, GrowthKeepsRecords DEF IngestSide, Hands
  <2> QED BY <1>1, <1>2, <2>1 DEF Hands, HandlerFits, SameEvent
<1>6. BeforeServer
  BY <1>1 DEF BeforeServer, ServedAlike
<1> QED BY <1>1, <1>3, <1>4, <1>5, <1>6, IngestHolds

LEMMA TakeTypes ==
    ASSUME TypeInv, NEW l \in Level, NEW m \in Message, Take(l, m)
    PROVE  TypeInv' /\ KafkaGrew
<1>1. UNCHANGED <<pulsar, vanished, kafka, delivered, deadLetters, quarantined, server, browser,
                  history, faults>>
      /\ CanTake(l, m) /\ m \in Named /\ handler[l] = Idle
  BY DEF Take
<1>2. IngestSide /\ Threads /\ Hands
  BY TypeParts DEF TypeInv
<1>3. Topics' /\ KafkaGrew
  BY <1>1, <1>2, SameKafka DEF IngestSide
<1>4. IngestSide'
  BY <1>1, <1>2, <1>3 DEF IngestSide, Records, CacheOK, history
<1>5. PICK where \in {"done", "posted"} :
        /\ At(l, m, where)
        /\ where = "posted" => handler' = [handler EXCEPT ![l] = [of |-> m, at |-> "arrived"]]
        /\ where = "done" => handler' = handler
  BY DEF Take
<1>6. listener' \in [Level -> Place] /\ ListenerFits'
  BY <1>1, <1>2, <1>3, <1>5, TakenHolds, ListenerStep DEF IngestSide, Hands
<1>7. PICK h : /\ handler' = [handler EXCEPT ![l] = h]
               /\ h = Idle \/ h = [of |-> m, at |-> "arrived"]
               /\ where = "posted" => h = [of |-> m, at |-> "arrived"]
  <2>1. handler = [handler EXCEPT ![l] = Idle]
    BY <1>1, <1>2 DEF Threads
  <2> QED BY <1>5, <2>1
<1>8. h = Idle \/ (h \in Place /\ h.of \in Named /\ h.at \in InServer)
  BY <1>1, <1>7, Constants DEF Place, InServer
<1>9. handler' \in [Level -> Place] /\ HandlerFits'
  BY <1>2, <1>7, <1>8, HandlerStep DEF Hands
<1>10. \A k \in Level : handler'[k] = IF k = l THEN h ELSE handler[k]
  BY <1>2, <1>7 DEF Threads
<1>11. h.at \notin Waiting /\ h.at # "replied" /\ Idle.at \notin Waiting
  BY <1>7 DEF Idle, Waiting
<1>12. SameEvent'
  BY <1>2, <1>5, <1>7, <1>10, <1>11, SameEventStep DEF Hands
<1>13. BeforeServer
  BY <1>1, <1>10, <1>11 DEF BeforeServer, ServedAlike
<1> QED BY <1>1, <1>3, <1>4, <1>6, <1>9, <1>12, <1>13, IngestHolds DEF Threads

\* A listener is done with a record; an answer that waited for it is dropped.
Finished(l, m) ==
    /\ At(l, m, "done")
    /\ handler' = IF handler[l].at = "replied" THEN [handler EXCEPT ![l] = Idle] ELSE handler
    /\ UNCHANGED <<server, browser, history>>

LEMMA FinishTypes ==
    ASSUME TypeInv, NEW l \in Level, NEW m \in Message, kafka[m][l] > 0, Finished(l, m),
           IngestSide', KafkaGrew, Fault \/ UNCHANGED faults
    PROVE  TypeInv'
<1>1. IngestSide /\ Threads /\ Hands
  BY TypeParts DEF TypeInv
<1>2. listener' \in [Level -> Place] /\ ListenerFits'
  BY <1>1, ListenerStep DEF IngestSide, Hands, Finished
<1>3. PICK h : /\ handler' = [handler EXCEPT ![l] = h]
               /\ h = IF handler[l].at = "replied" THEN Idle ELSE handler[l]
  BY <1>1 DEF Finished, Threads
<1>4. h = Idle \/ (h \in Place /\ h.of \in Named /\ h.at \in InServer)
  BY <1>1, <1>3 DEF Hands, HandlerFits, Threads
<1>5. handler' \in [Level -> Place] /\ HandlerFits'
  BY <1>1, <1>3, <1>4, HandlerStep DEF Hands
<1>6. \A k \in Level : handler'[k] = IF k = l THEN h ELSE handler[k]
  BY <1>1, <1>3 DEF Threads
<1>7. h.at # "replied" /\ (h.at \in Waiting \/ handler[l].at \in Waiting => h = handler[l])
  BY <1>3 DEF Idle, Waiting
<1>8. SameEvent'
  BY <1>1, <1>6, <1>7, SameEventStep DEF Hands, Finished
<1>9. BeforeServer
  BY <1>6, <1>7 DEF BeforeServer, ServedAlike, Finished
<1> QED BY <1>2, <1>5, <1>8, <1>9, IngestHolds DEF Threads

\* Only a listener that has posted has an answer on its way.
LEMMA OnlyPostedAwaits ==
    ASSUME SameEvent, NEW l \in Level, handler[l].at = "replied"
    PROVE  listener[l].at = "posted" /\ listener[l].of = handler[l].of
<1>1. PICK e : e = handler[l].of
  OBVIOUS
<1>2. listener[l] = [of |-> e, at |-> "posted"]
  BY <1>1 DEF SameEvent
<1>3. [of |-> e, at |-> "posted"].at = "posted" /\ [of |-> e, at |-> "posted"].of = e
  OBVIOUS
<1> QED BY <1>1, <1>2, <1>3, Zenon

LEMMA NoneAwaited ==
    ASSUME TypeInv, NEW l \in Level, listener[l] = Idle
    PROVE  handler[l].at # "replied"
<1>1. Idle.at # "posted"
  BY DEF Idle
<1> QED BY <1>1, OnlyPostedAwaits DEF TypeInv, Hands

LEMMA PostRefusedTypes ==
    ASSUME TypeInv, NEW l \in Level, NEW m \in Message, PostRefused(l, m)
    PROVE  TypeInv' /\ KafkaGrew
<1>1. CanTake(l, m) /\ Retry(l, m) /\ At(l, m, "done") /\ Fault
      /\ UNCHANGED <<pulsar, vanished, delivered, quarantined, handler, server, browser, history>>
  BY DEF PostRefused
<1>2. IngestSide
  BY TypeParts DEF TypeInv
<1>3. Topics' /\ KafkaGrew /\ deadLetters' \subseteq Message
  BY <1>1, <1>2, RetryKeeps DEF IngestSide
<1>4. IngestSide'
  BY <1>1, <1>2, <1>3 DEF IngestSide, Records, CacheOK, history
<1>5. Finished(l, m) /\ kafka[m][l] > 0
  BY <1>1, TakenHolds, NoneAwaited DEF Finished
<1> QED BY <1>1, <1>3, <1>4, <1>5, FinishTypes

LEMMA QuarantineTypes ==
    ASSUME TypeInv, NEW l \in Level, NEW m \in Message, Quarantine(l, m)
    PROVE  TypeInv' /\ KafkaGrew
<1>1. CanTake(l, m) /\ m \in Nameless /\ quarantined' = quarantined \cup {m} /\ At(l, m, "done")
      /\ UNCHANGED <<pulsar, vanished, kafka, delivered, deadLetters, handler, server, browser,
                     history, faults>>
  BY DEF Quarantine
<1>2. IngestSide
  BY TypeParts DEF TypeInv
<1>3. Topics' /\ KafkaGrew
  BY <1>1, <1>2, SameKafka DEF IngestSide
<1>4. IngestSide'
  BY <1>1, <1>2, <1>3 DEF IngestSide, Records, CacheOK, history
<1>5. Finished(l, m) /\ kafka[m][l] > 0
  BY <1>1, TakenHolds, NoneAwaited DEF Finished
<1> QED BY <1>1, <1>3, <1>4, <1>5, FinishTypes

LEMMA QuarantineFailsTypes ==
    ASSUME TypeInv, NEW l \in Level, NEW m \in Message, QuarantineFails(l, m)
    PROVE  TypeInv' /\ KafkaGrew
<1>1. CanTake(l, m) /\ m \in Nameless /\ quarantined' \in {quarantined, quarantined \cup {m}}
      /\ At(l, m, "done") /\ Retry(l, m) /\ Fault
      /\ UNCHANGED <<pulsar, vanished, delivered, handler, server, browser, history>>
  BY DEF QuarantineFails
<1>2. IngestSide
  BY TypeParts DEF TypeInv
<1>3. Topics' /\ KafkaGrew /\ deadLetters' \subseteq Message
  BY <1>1, <1>2, RetryKeeps DEF IngestSide
<1>4. IngestSide'
  BY <1>1, <1>2, <1>3 DEF IngestSide, Records, CacheOK, history
<1>5. Finished(l, m) /\ kafka[m][l] > 0
  BY <1>1, TakenHolds, NoneAwaited DEF Finished
<1> QED BY <1>1, <1>3, <1>4, <1>5, FinishTypes

LEMMA PostAnsweredTypes ==
    ASSUME TypeInv, NEW l \in Level, PostAnswered(l)
    PROVE  TypeInv' /\ KafkaGrew
<1> DEFINE m == listener[l].of
<1>1. listener[l].at = "posted" /\ handler[l].at = "replied"
      /\ delivered' = LastUsed(delivered, m, CacheSize) /\ At(l, m, "done")
      /\ handler' = [handler EXCEPT ![l] = Idle]
      /\ UNCHANGED <<pulsar, vanished, kafka, deadLetters, quarantined, server, browser, history,
                     faults>>
  BY DEF PostAnswered
<1>2. IngestSide
  BY TypeParts DEF TypeInv
<1>3. Topics' /\ KafkaGrew
  BY <1>1, <1>2, SameKafka DEF IngestSide
<1>4. m \in Named /\ m \in Message /\ kafka[m][l] > 0
  BY <1>1, PostedHolds
<1>5. CacheOK'
  BY <1>1, <1>2, <1>4, LastUsedType, Constants DEF IngestSide, CacheOK
<1>6. IngestSide'
  BY <1>1, <1>2, <1>3, <1>5 DEF IngestSide, Records, history
<1>7. Finished(l, m)
  BY <1>1 DEF Finished
<1> HIDE DEF m
<1> QED BY <1>1, <1>3, <1>4, <1>6, <1>7, FinishTypes

LEMMA PostFailsTypes ==
    ASSUME TypeInv, NEW l \in Level, PostFails(l)
    PROVE  TypeInv' /\ KafkaGrew
<1> DEFINE m == listener[l].of
<1>1. listener[l].at = "posted" /\ Retry(l, m) /\ Finished(l, m) /\ (Fault \/ UNCHANGED faults)
      /\ UNCHANGED <<pulsar, vanished, delivered, quarantined, server, browser, history>>
  BY DEF PostFails, Finished
<1>2. IngestSide
  BY TypeParts DEF TypeInv
<1>3. m \in Message /\ kafka[m][l] > 0
  BY <1>1, PostedHolds
<1>4. Topics' /\ KafkaGrew /\ deadLetters' \subseteq Message
  BY <1>1, <1>2, <1>3, RetryKeeps DEF IngestSide
<1>5. IngestSide'
  BY <1>1, <1>2, <1>4 DEF IngestSide, Records, CacheOK, history
<1> HIDE DEF m
<1> QED BY <1>1, <1>3, <1>4, <1>5, FinishTypes

\* A commit takes one copy off one topic.
LEMMA OneLess ==
    ASSUME Topics, NEW m \in Message, NEW l \in Level, kafka[m][l] > 0,
           kafka' = [kafka EXCEPT ![m][l] = @ - 1]
    PROVE  /\ Topics'
           /\ \A x \in Message : \A k \in Level : (x = m /\ k = l) \/ kafka'[x][k] = kafka[x][k]
<1>1. kafka' = [kafka EXCEPT ![m] = [kafka[m] EXCEPT ![l] = kafka[m][l] - 1]]
  OBVIOUS
<1>2. kafka \in [Message -> [Level -> Nat]] /\ kafka[m] \in [Level -> Nat] /\ kafka[m][l] \in Nat
  BY DEF Topics
<1>3. kafka[m][l] - 1 \in Nat
  BY <1>2
<1>4. [kafka[m] EXCEPT ![l] = kafka[m][l] - 1] \in [Level -> Nat]
  BY <1>2, <1>3
<1>5. kafka' \in [Message -> [Level -> Nat]]
  BY <1>1, <1>2, <1>4
<1>6. \A x \in Message : \A k \in Level : (x = m /\ k = l) \/ kafka'[x][k] = kafka[x][k]
  BY <1>1, <1>2
<1> QED BY <1>5, <1>6 DEF Topics

LEMMA CommitTypes ==
    ASSUME TypeInv, NEW l \in Level, Commit(l)
    PROVE  TypeInv'
<1>1. listener[l].at = "done" /\ kafka' = [kafka EXCEPT ![listener[l].of][l] = @ - 1]
      /\ listener' = [listener EXCEPT ![l] = Idle]
      /\ UNCHANGED <<pulsar, vanished, delivered, deadLetters, quarantined, handler, server,
                     browser, history, faults>>
  BY DEF Commit
<1>2. IngestSide /\ Threads /\ Hands
  BY TypeParts DEF TypeInv
<1>3. PICK m : m = listener[l].of /\ m \in Message /\ kafka[m][l] > 0
  BY <1>1, <1>2 DEF Hands, ListenerFits, Idle
<1>4. Topics' /\ \A x \in Message : \A k \in Level : (x = m /\ k = l) \/ kafka'[x][k] = kafka[x][k]
  BY <1>1, <1>2, <1>3, OneLess DEF IngestSide
<1>5. IngestSide'
  BY <1>1, <1>2, <1>4 DEF IngestSide, Records, CacheOK, history
<1>6. \A k \in Level : listener'[k] = IF k = l THEN Idle ELSE listener[k]
  BY <1>1, <1>2 DEF Threads
<1>7. Threads'
  <2>1. Idle \in Place
    BY DEF Idle, Place
  <2> QED BY <1>1, <1>2, <2>1 DEF Threads
<1>8. HandlerFits'
  BY <1>1, <1>2 DEF Hands, HandlerFits
<1>9. ListenerFits'
  BY <1>2, <1>4, <1>6 DEF Hands, ListenerFits
<1>10. SameEvent'
  <2>1. handler[l].at # "replied"
    BY <1>1, <1>2, OnlyPostedAwaits DEF Hands
  <2> QED BY <1>1, <1>2, <1>6, <2>1 DEF Hands, SameEvent, Idle
<1>11. BeforeServer
  BY <1>1 DEF BeforeServer, ServedAlike
<1> QED BY <1>1, <1>5, <1>7, <1>8, <1>9, <1>10, <1>11, IngestHolds

LEMMA IngestRestartsTypes ==
    ASSUME TypeInv, IngestRestarts
    PROVE  TypeInv' /\ KafkaGrew
<1>1. Fault /\ listener' = [l \in Level |-> Idle] /\ delivered' = <<>>
      /\ handler' = [l \in Level |-> IF handler[l].at = "replied" THEN Idle ELSE handler[l]]
      /\ UNCHANGED <<pulsar, vanished, kafka, deadLetters, quarantined, server, browser, history>>
  BY DEF IngestRestarts
<1>2. IngestSide /\ Threads /\ Hands
  BY TypeParts DEF TypeInv
<1>3. Topics' /\ KafkaGrew
  BY <1>1, <1>2, SameKafka DEF IngestSide
<1>4. CacheOK'
  BY <1>1, EmptySeq, Constants DEF CacheOK
<1>5. IngestSide'
  BY <1>1, <1>2, <1>3, <1>4 DEF IngestSide, Records, history
<1>6. Idle \in Place /\ Idle.at = "idle"
  BY DEF Idle, Place
<1>7. Threads'
  BY <1>1, <1>2, <1>6 DEF Threads
<1>8. HandlerFits' /\ ListenerFits' /\ SameEvent'
  BY <1>1, <1>2, <1>6 DEF Hands, HandlerFits, ListenerFits, SameEvent
<1>9. BeforeServer
  BY <1>1, <1>6 DEF BeforeServer, ServedAlike, Waiting
<1> QED BY <1>1, <1>3, <1>5, <1>7, <1>8, <1>9, IngestHolds

-----------------------------------------------------------------------------
(* Steps of the server and of the browser, which leave java-ingest alone.  *)

AfterIngest == UNCHANGED <<published, pulsar, vanished, kafka, ingest>>

LEMMA ServerHolds ==
    ASSUME TypeInv, AfterIngest, handler' \in [Level -> Place], HandlerFits', SameEvent', Queue',
           ServerSide', BrowserOK', Fault \/ UNCHANGED faults
    PROVE  TypeInv'
<1>1. UNCHANGED <<published, pulsar, vanished, kafka, listener, delivered, deadLetters,
                  quarantined>>
  BY DEF AfterIngest, ingest
<1>2. IngestSide /\ Threads /\ FaultsOK /\ ListenerFits
  BY TypeParts DEF TypeInv, Hands
<1>3. IngestSide'
  BY <1>1, <1>2 DEF IngestSide, Records, Topics, CacheOK
<1>4. Threads'
  BY <1>1, <1>2 DEF Threads
<1>5. ListenerFits'
  BY <1>1, <1>2 DEF ListenerFits
<1>6. FaultsOK'
  BY <1>2, FaultCounts
<1> QED BY <1>3, <1>4, <1>5, <1>6, TypePartsAfter DEF TypeInv, Hands

\* A step that no request takes part in.
LEMMA HandlersRest ==
    ASSUME TypeInv, AfterIngest, UNCHANGED <<handler, answers>>
    PROVE  handler' \in [Level -> Place] /\ HandlerFits' /\ SameEvent' /\ Queue'
<1>1. UNCHANGED listener
  BY DEF AfterIngest, ingest
<1>2. Threads /\ Hands
  BY TypeParts DEF TypeInv
<1> QED BY <1>1, <1>2 DEF Threads, Hands, HandlerFits, SameEvent, Queue

\* Appending to what Redis owes, and taking its first answer.
LEMMA QueueAppends ==
    ASSUME Queue, RedisOK, NEW l \in Level, handler[l].at \notin Waiting,
           handler'[l].at \in Waiting, \A k \in Level \ {l} : handler'[k] = handler[k],
           answers' = Append(answers, l)
    PROVE  Queue' /\ answers' \in Seq(Level)
<1>1. Len(answers) \in Nat /\ \A i \in 1..Len(answers) : answers[i] \in Level
  BY ElementOfSeq, LenProperties DEF RedisOK
<1>2. /\ answers' \in Seq(Level) /\ Len(answers') = Len(answers) + 1
      /\ \A i \in 1..Len(answers) : answers'[i] = answers[i]
      /\ answers'[Len(answers) + 1] = l
  BY AppendProperties DEF RedisOK
<1>3. \A i \in 1..Len(answers) : answers[i] # l
  BY DEF Queue
<1>4. 1..Len(answers') = 1..Len(answers) \cup {Len(answers) + 1}
  BY <1>1, <1>2
<1>5. ASSUME NEW k \in Level, handler'[k].at \in Waiting
      PROVE  \E i \in 1..Len(answers') : answers'[i] = k
  <2>1. CASE k = l
    BY <2>1, <1>2, <1>4
  <2>2. CASE k # l
    <3>1. PICK i \in 1..Len(answers) : answers[i] = k
      BY <2>2, <1>5 DEF Queue
    <3> QED BY <3>1, <1>2, <1>4
  <2> QED BY <2>1, <2>2
<1>6. ASSUME NEW i \in 1..Len(answers')
      PROVE  handler'[answers'[i]].at \in Waiting
  BY <1>1, <1>2, <1>3, <1>4 DEF Queue
<1>7. ASSUME NEW i \in 1..Len(answers'), NEW j \in 1..Len(answers'), answers'[i] = answers'[j]
      PROVE  i = j
  BY <1>1, <1>2, <1>3, <1>4, <1>7 DEF Queue
<1> QED BY <1>2, <1>5, <1>6, <1>7 DEF Queue

LEMMA QueuePops ==
    ASSUME Queue, RedisOK, answers # <<>>, NEW l, l = Head(answers), answers' = Tail(answers),
           handler'[l].at \notin Waiting, \A k \in Level \ {l} : handler'[k] = handler[k]
    PROVE  /\ Queue' /\ answers' \in Seq(Level) /\ l = answers[1] /\ l \in Level
           /\ handler[l].at \in Waiting /\ Len(answers) \in Nat \ {0}
           /\ Len(answers') = Len(answers) - 1
           /\ \A i \in 1..Len(answers') : answers'[i] = answers[i + 1] /\ answers'[i] # l
<1>1. Len(answers) \in Nat \ {0} /\ \A i \in 1..Len(answers) : answers[i] \in Level
  BY ElementOfSeq, LenProperties, EmptySeq DEF RedisOK
<1>2. /\ answers' \in Seq(Level) /\ Len(answers') = Len(answers) - 1
      /\ \A i \in 1..Len(answers') : answers'[i] = answers[i + 1]
  BY HeadTailProperties DEF RedisOK
<1>3. l = answers[1] /\ 1 \in 1..Len(answers) /\ l \in Level
  BY <1>1 DEF RedisOK
<1>4. handler[l].at \in Waiting
  BY <1>3 DEF Queue
<1>5. \A i \in 1..Len(answers') : i + 1 \in 1..Len(answers) /\ i + 1 # 1
  BY <1>1, <1>2
<1>6. \A i \in 1..Len(answers') : answers'[i] # l
  BY <1>2, <1>3, <1>5 DEF Queue
<1>7. ASSUME NEW k \in Level, handler'[k].at \in Waiting
      PROVE  \E i \in 1..Len(answers') : answers'[i] = k
  <2>1. k # l
    BY <1>7
  <2>2. PICK i \in 1..Len(answers) : answers[i] = k
    BY <2>1, <1>7 DEF Queue
  <2>3. i - 1 \in 1..Len(answers') /\ (i - 1) + 1 = i
    BY <2>1, <2>2, <1>1, <1>2, <1>3
  <2> QED BY <2>2, <2>3, <1>2
<1>8. ASSUME NEW i \in 1..Len(answers')
      PROVE  handler'[answers'[i]].at \in Waiting
  <2>1. answers'[i] = answers[i + 1] /\ i + 1 \in 1..Len(answers)
    BY <1>2, <1>5
  <2> QED BY <2>1, <1>1, <1>6 DEF Queue
<1>9. ASSUME NEW i \in 1..Len(answers'), NEW j \in 1..Len(answers'), answers'[i] = answers'[j]
      PROVE  i = j
  <2>1. answers[i + 1] = answers[j + 1]
    BY <1>2, <1>9
  <2>2. i + 1 = j + 1
    BY <2>1, <1>5 DEF Queue
  <2> QED BY <2>2, <1>1, <1>2
<1> QED BY <1>1, <1>2, <1>3, <1>4, <1>6, <1>7, <1>8, <1>9 DEF Queue

\* The server answers a request: nobody else's changes.
LEMMA ReplyStep ==
    ASSUME TypeInv, UNCHANGED listener, NEW l \in Level, handler[l] # Idle, Reply(l)
    PROVE  /\ handler' \in [Level -> Place] /\ HandlerFits' /\ SameEvent'
           /\ \A k \in Level \ {l} : handler'[k] = handler[k]
           /\ handler'[l].at \notin Waiting
           /\ handler'[l].at = "replied" => handler'[l].of = handler[l].of
<1>1. Threads /\ Hands
  BY TypeParts DEF TypeInv
<1>2. PICK e : e = handler[l].of /\ e \in Named
  BY <1>1 DEF Hands, HandlerFits
<1>3. handler[l] \in Place
  BY <1>1 DEF Threads
<1>4. PICK h : /\ handler' = [handler EXCEPT ![l] = h]
               /\ h = IF listener[l] = [of |-> e, at |-> "posted"]
                      THEN [handler[l] EXCEPT !.at = "replied"] ELSE Idle
  BY <1>2 DEF Reply
<1>5. CASE listener[l] = [of |-> e, at |-> "posted"]
  <2>1. h \in Place /\ h.of = e /\ h.at = "replied"
    BY <1>2, <1>3, <1>4, <1>5 DEF Place
  <2>2. handler' \in [Level -> Place] /\ HandlerFits'
    BY <1>1, <1>2, <1>4, <2>1, HandlerStep DEF Hands, InServer
  <2>3. \A k \in Level : handler'[k] = IF k = l THEN h ELSE handler[k]
    BY <1>1, <1>4 DEF Threads
  <2>4. [of |-> e, at |-> "posted"].of = e
    OBVIOUS
  <2>5. SameEvent'
    BY <1>1, <1>5, <2>1, <2>3, <2>4 DEF Hands, SameEvent
  <2> QED BY <1>2, <2>1, <2>2, <2>3, <2>5 DEF Waiting
<1>6. CASE listener[l] # [of |-> e, at |-> "posted"]
  <2>1. h = Idle
    BY <1>4, <1>6
  <2>2. handler' \in [Level -> Place] /\ HandlerFits'
    BY <1>1, <1>4, <2>1, HandlerStep DEF Hands
  <2>3. \A k \in Level : handler'[k] = IF k = l THEN h ELSE handler[k]
    BY <1>1, <1>4 DEF Threads
  <2>4. h.at = "idle"
    BY <2>1 DEF Idle
  <2>5. SameEvent'
    BY <1>1, <2>1, <2>3, <2>4 DEF Hands, SameEvent
  <2> QED BY <2>2, <2>3, <2>4, <2>5 DEF Waiting
<1> QED BY <1>5, <1>6

LEMMA ClaimTypes ==
    ASSUME TypeInv, NEW l \in Level, Claim(l)
    PROVE  TypeInv'
<1>1. PICK where \in Waiting :
        /\ handler' = [handler EXCEPT ![l].at = where]
        /\ handler[l].at = "arrived" /\ claims' = claims \cup {handler[l].of}
        /\ answers' = Append(answers, l)
        /\ UNCHANGED <<pulsar, vanished, kafka, ingest, hasRedis, memory, buffer, browser,
                       history, faults>>
  BY DEF Claim, Waiting
<1>2. Threads /\ Hands /\ ServerSide /\ BrowserOK
  BY TypeParts DEF TypeInv
<1>3. PICK e : e = handler[l].of /\ e \in Named /\ handler[l] \in Place
  BY <1>1, <1>2 DEF Hands, HandlerFits, Idle, Threads
<1> DEFINE h == [handler[l] EXCEPT !.at = where]
<1>4. h \in Place /\ h.of = e /\ h.at = where
  BY <1>3 DEF Place, Waiting
<1>5. handler' = [handler EXCEPT ![l] = h]
  BY <1>1
<1> HIDE DEF h
<1>6. handler' \in [Level -> Place] /\ HandlerFits'
  BY <1>2, <1>3, <1>4, <1>5, HandlerStep DEF Hands, Waiting, InServer
<1>7. \A k \in Level : handler'[k] = IF k = l THEN h ELSE handler[k]
  BY <1>2, <1>5 DEF Threads
<1>8. Queue' /\ answers' \in Seq(Level)
  <2>1. handler[l].at \notin Waiting /\ handler'[l].at \in Waiting
    BY <1>1, <1>4, <1>7 DEF Waiting
  <2> QED BY <1>1, <1>2, <1>7, <2>1, QueueAppends DEF Hands, ServerSide
<1>9. SameEvent'
  <2>1. UNCHANGED listener /\ h.at # "replied" /\ handler[l] # Idle
    BY <1>1, <1>4 DEF ingest, Waiting, Idle
  <2> QED BY <1>2, <1>3, <1>4, <1>7, <2>1 DEF Hands, SameEvent
<1>10. ServerSide' /\ BrowserOK' /\ AfterIngest
  BY <1>1, <1>2, <1>3, <1>8 DEF ServerSide, RedisOK, MemoryOK, BufferOK, HistoryOK, BrowserOK,
     browser, history, AfterIngest
<1> QED BY <1>1, <1>6, <1>8, <1>9, <1>10, ServerHolds

\* An event is counted, buffered and broadcast.
LEMMA RecordingTypes ==
    ASSUME HistoryOK, BufferOK, BrowserOK, NEW e \in Named, recordIngestEvent(e)
    PROVE  /\ recorded' \in [Named -> Nat] /\ BufferOK'
           /\ stream' = Nothing \/ stream' \in Seq(Named)
           /\ \A x \in Named : recorded'[x] = IF x = e THEN recorded[x] + 1 ELSE recorded[x]
<1>1. recorded' = [recorded EXCEPT ![e] = @ + 1] /\ buffer' = Pushed(e)
      /\ stream' = IF stream = Nothing THEN Nothing ELSE Append(stream, e)
  BY DEF recordIngestEvent
<1>2. BufferOK'
  BY <1>1, PushedType, Constants DEF BufferOK
<1>3. stream' = Nothing \/ stream' \in Seq(Named)
  BY <1>1, AppendProperties DEF BrowserOK
<1> QED BY <1>1, <1>2, <1>3 DEF HistoryOK

\* A request is answered: the one whose turn it is at Redis, or one that never
\* got there.
Answering(l) ==
    /\ IF answers = <<>> THEN handler[l].at = "arrived" /\ UNCHANGED answers
       ELSE l = Head(answers) /\ answers' = Tail(answers)
    /\ Reply(l) /\ UNCHANGED listener

LEMMA AnsweringStep ==
    ASSUME TypeInv, NEW l \in Level, Answering(l)
    PROVE  /\ handler[l] # Idle /\ handler[l].of \in Named
           /\ handler' \in [Level -> Place] /\ HandlerFits' /\ SameEvent'
           /\ Queue' /\ answers' \in Seq(Level)
           /\ \A k \in Level \ {l} : handler'[k] = handler[k]
           /\ handler'[l].at \notin Waiting
           /\ handler'[l].at = "replied" => handler'[l].of = handler[l].of
<1>1. Hands /\ RedisOK
  BY TypeParts DEF TypeInv, ServerSide
<1>2. handler[l] # Idle
  <2>1. CASE answers = <<>>
    BY <2>1 DEF Answering, Idle
  <2>2. CASE answers # <<>>
    <3>1. Len(answers) \in Nat \ {0} /\ l = answers[1]
      BY <1>1, <2>2, LenProperties, EmptySeq DEF Answering, RedisOK
    <3>2. handler[l].at \in Waiting
      BY <1>1, <3>1 DEF Hands, Queue
    <3> QED BY <3>2 DEF Waiting, Idle
  <2> QED BY <2>1, <2>2
<1>3. handler[l].of \in Named
  BY <1>1, <1>2 DEF Hands, HandlerFits
<1>4. /\ handler' \in [Level -> Place] /\ HandlerFits' /\ SameEvent'
      /\ \A k \in Level \ {l} : handler'[k] = handler[k]
      /\ handler'[l].at \notin Waiting
      /\ handler'[l].at = "replied" => handler'[l].of = handler[l].of
  BY <1>2, ReplyStep DEF Answering
<1>5. Queue' /\ answers' \in Seq(Level)
  <2>1. CASE answers = <<>>
    <3>1. handler[l].at \notin Waiting /\ UNCHANGED answers
      BY <2>1 DEF Answering, Waiting
    <3>2. ServedAlike
      BY <1>4, <3>1 DEF ServedAlike
    <3> QED BY <1>1, <3>1, <3>2, ServedQueue DEF Hands, RedisOK
  <2>2. CASE answers # <<>>
    BY <1>1, <1>4, <2>2, QueuePops DEF Hands, Answering
  <2> QED BY <2>1, <2>2
<1> QED BY <1>2, <1>3, <1>4, <1>5

\* The writes of the two ways to answer.
LEMMA RecordWrites ==
    ASSUME NEW l \in Level, Record(l) \/ RecordFromMemory(l)
    PROVE  /\ Answering(l) /\ AfterIngest
           /\ memory' = LastUsed(memory, handler[l].of, MemorySize)
           /\ recordIngestEvent(handler[l].of) \/ UNCHANGED <<recorded, buffer, stream>>
           /\ Fault \/ UNCHANGED faults
           /\ UNCHANGED <<hasRedis, claims, shown, published, burnt>>
           /\ troubled' \in {TRUE, troubled}
<1>1. CASE Record(l)
  BY <1>1 DEF Record, Answering, AfterIngest, ingest
<1>2. CASE RecordFromMemory(l)
  BY <1>2 DEF RecordFromMemory, Answering, AfterIngest, ingest
<1> QED BY <1>1, <1>2

LEMMA RecordTypes ==
    ASSUME TypeInv, NEW l \in Level, Record(l) \/ RecordFromMemory(l)
    PROVE  TypeInv'
<1>1. PICK e : e = handler[l].of
  OBVIOUS
<1>2. /\ Answering(l) /\ AfterIngest
      /\ memory' = LastUsed(memory, e, MemorySize)
      /\ recordIngestEvent(e) \/ UNCHANGED <<recorded, buffer, stream>>
      /\ Fault \/ UNCHANGED faults
      /\ UNCHANGED <<hasRedis, claims, shown, published, burnt>>
      /\ troubled' \in {TRUE, troubled}
  BY <1>1, RecordWrites
<1>3. ServerSide /\ BrowserOK
  BY TypeParts DEF TypeInv
<1>4. /\ e \in Named /\ handler' \in [Level -> Place] /\ HandlerFits' /\ SameEvent'
      /\ Queue' /\ answers' \in Seq(Level)
  BY <1>1, <1>2, AnsweringStep
<1>5. MemoryOK'
  BY <1>2, <1>3, <1>4, LastUsedType, Constants DEF ServerSide, MemoryOK
<1>6. recorded' \in [Named -> Nat] /\ BufferOK' /\ (stream' = Nothing \/ stream' \in Seq(Named))
  <2>1. CASE recordIngestEvent(e)
    BY <1>3, <1>4, <2>1, RecordingTypes DEF ServerSide
  <2>2. CASE UNCHANGED <<recorded, buffer, stream>>
    BY <1>3, <2>2 DEF ServerSide, HistoryOK, BufferOK, BrowserOK
  <2> QED BY <1>2, <2>1, <2>2
<1>7. ServerSide' /\ BrowserOK'
  BY <1>2, <1>3, <1>4, <1>5, <1>6 DEF ServerSide, RedisOK, HistoryOK, BrowserOK
<1> QED BY <1>2, <1>4, <1>7, ServerHolds

LEMMA ClaimExpiresTypes ==
    ASSUME TypeInv, NEW e \in Named, ClaimExpires(e)
    PROVE  TypeInv'
<1>1. Fault /\ claims' = claims \ {e} /\ troubled' = TRUE
      /\ UNCHANGED <<pulsar, vanished, kafka, ingest, handler, hasRedis, answers, memory, buffer,
                     browser, published, recorded, burnt>>
  BY DEF ClaimExpires
<1>2. AfterIngest
  BY <1>1 DEF AfterIngest
<1>3. ServerSide' /\ BrowserOK'
  BY <1>1, TypeParts DEF TypeInv, ServerSide, RedisOK, MemoryOK, BufferOK, HistoryOK, BrowserOK,
     browser
<1> QED BY <1>1, <1>2, <1>3, HandlersRest, ServerHolds

LEMMA ServerRestartsTypes ==
    ASSUME TypeInv, ServerRestarts
    PROVE  TypeInv'
<1>1. Fault /\ handler' = [l \in Level |-> Idle]
      /\ burnt' = burnt \cup {handler[l].of : l \in {k \in Level : handler[k].at = "claimed"}}
      /\ answers' = <<>> /\ memory' = <<>> /\ buffer' = <<>> /\ stream' = Nothing
      /\ hasRedis' \in BOOLEAN /\ troubled' = (troubled \/ ~hasRedis')
      /\ UNCHANGED <<pulsar, vanished, kafka, ingest, claims, shown, published, recorded>>
  BY DEF ServerRestarts
<1>2. /\ ServerSide /\ BrowserOK /\ HandlerFits
      /\ UNCHANGED <<published, pulsar, vanished, kafka, ingest, listener>>
  BY <1>1, TypeParts DEF TypeInv, Hands, ingest
<1>3. Idle \in Place /\ Idle.at = "idle" /\ Idle.at \notin Waiting
  BY DEF Idle, Place, Waiting
<1>4. handler' \in [Level -> Place] /\ HandlerFits' /\ SameEvent'
  BY <1>1, <1>3 DEF HandlerFits, SameEvent
<1>5. \A S : <<>> \in Seq(S) /\ Len(<<>>) = 0
  BY EmptySeq
<1>6. Queue'
  BY <1>1, <1>3, <1>5 DEF Queue
<1>7. burnt' \subseteq Named
  <2>1. \A l \in Level : handler[l].at = "claimed" => handler[l].of \in Named
    BY <1>2, <1>3 DEF HandlerFits
  <2> QED BY <1>1, <1>2, <2>1 DEF ServerSide, HistoryOK
<1>8. RedisOK' /\ MemoryOK' /\ BufferOK' /\ HistoryOK' /\ BrowserOK'
  <2>1. RedisOK' /\ MemoryOK' /\ BufferOK'
    BY <1>1, <1>2, <1>5, Constants DEF ServerSide, RedisOK, MemoryOK, BufferOK
  <2>2. HistoryOK' /\ BrowserOK'
    BY <1>1, <1>2, <1>7 DEF ServerSide, HistoryOK, BrowserOK
  <2> QED BY <2>1, <2>2
<1> QED BY <1>1, <1>2, <1>4, <1>6, <1>8, ServerHolds DEF AfterIngest, ServerSide

LEMMA BrowserTypes ==
    ASSUME TypeInv, Connect \/ Disconnect \/ ReceiveFrame
    PROVE  TypeInv' /\ UNCHANGED <<pulsar, vanished, kafka, ingest, handler, server, history>>
<1>1. ServerSide /\ BrowserOK
  BY TypeParts DEF TypeInv
<1>2. UNCHANGED <<pulsar, vanished, kafka, ingest, handler, server,
                  history>> /\ (Fault \/ UNCHANGED faults)
  BY DEF Connect, Disconnect, ReceiveFrame
<1>3. ServerSide' /\ AfterIngest /\ UNCHANGED <<handler, answers>>
  BY <1>1, <1>2 DEF ServerSide, RedisOK, MemoryOK, BufferOK, HistoryOK, server, history, AfterIngest
<1>4. BrowserOK'
  <2>1. CASE Connect
    BY <1>1, <2>1 DEF Connect, ServerSide, BufferOK, BrowserOK
  <2>2. CASE Disconnect
    BY <1>1, <2>2 DEF Disconnect, BrowserOK
  <2>3. CASE ReceiveFrame
    <3>1. Head(stream) \in Named /\ Tail(stream) \in Seq(Named)
          /\ Accept(Head(stream)) /\ stream' = Tail(stream)
      BY <1>1, <2>3, HeadTailProperties DEF ReceiveFrame, BrowserOK
    <3>2. PICK e \in Named : e = Head(stream)
      BY <3>1
    <3>3. UNCHANGED shown \/ shown' = FirstOf(<<e>> \o shown)
      BY <3>1, <3>2 DEF Accept
    <3>4. <<e>> \o shown \in Seq(Named)
      <4>1. <<e>> \in Seq(Named)
        OBVIOUS
      <4> QED BY <1>1, <4>1, ConcatProperties DEF BrowserOK
    <3>5. shown' \in Seq(Named) /\ Len(shown') <= Window
      BY <1>1, <3>3, <3>4, FirstOfType, Constants DEF BrowserOK
    <3> QED BY <3>1, <3>5 DEF BrowserOK
  <2> QED BY <2>1, <2>2, <2>3
<1> QED BY <1>2, <1>3, <1>4, HandlersRest, ServerHolds

-----------------------------------------------------------------------------
(* The type theorem.                                                       *)

LEMMA InitTypes == Init => TypeInv
<1> SUFFICES ASSUME Init
             PROVE  TypeInv
  OBVIOUS
<1> USE DEF Init
<1>1. Idle \in Place /\ Idle.at = "idle" /\ Idle.at \notin Waiting /\ Idle.at # "replied"
  BY DEF Idle, Place, Waiting
<1>2. \A S : <<>> \in Seq(S) /\ Len(<<>>) = 0
  BY EmptySeq
<1>3. Threads /\ HandlerFits /\ ListenerFits /\ SameEvent
  BY <1>1 DEF Threads, HandlerFits, ListenerFits, SameEvent
<1>4. Queue
  BY <1>1, <1>2 DEF Queue
<1>5. IngestSide
  BY <1>2, Constants DEF IngestSide, Records, Topics, CacheOK
<1>6. ServerSide
  BY <1>2, Constants DEF ServerSide, RedisOK, MemoryOK, BufferOK, HistoryOK
<1>7. BrowserOK /\ FaultsOK
  BY <1>2, Constants DEF BrowserOK, FaultsOK
<1> QED BY <1>3, <1>4, <1>5, <1>6, <1>7, TypeParts DEF TypeInv, Hands

LEMMA IngestTypes ==
    ASSUME TypeInv, Ingest
    PROVE  TypeInv'
BY TakeTypes, PostRefusedTypes, QuarantineTypes, QuarantineFailsTypes, PostAnsweredTypes,
   PostFailsTypes, CommitTypes, IngestRestartsTypes DEF Ingest

LEMMA StepTypes == TypeInv /\ [Next]_vars => TypeInv'
<1> SUFFICES ASSUME TypeInv, [Next]_vars
             PROVE  TypeInv'
  OBVIOUS
<1>1. CASE \E m \in Message : Forward(m) \/ ForwardUnstored(m) \/ ForwardUnseen(m)
  BY <1>1, ForwardTypes
<1>2. CASE Ingest
  BY <1>2, IngestTypes
<1>3. CASE \E l \in Level : Claim(l) \/ Record(l) \/ RecordFromMemory(l)
  BY <1>3, ClaimTypes, RecordTypes
<1>4. CASE \E e \in Named : ClaimExpires(e)
  BY <1>4, ClaimExpiresTypes
<1>5. CASE ServerRestarts
  BY <1>5, ServerRestartsTypes
<1>6. CASE Connect \/ Disconnect \/ ReceiveFrame
  BY <1>6, BrowserTypes
<1>7. CASE UNCHANGED vars
  BY <1>7 DEF vars, ingest, server, browser, history, TypeInv, TypeOK, Hands, HandlerFits,
     ListenerFits, SameEvent, Queue
<1> QED BY <1>1, <1>2, <1>3, <1>4, <1>5, <1>6, <1>7 DEF Next

\* Every variable of the pipeline keeps its type: the caches, the buffer and
\* the list stay within their bounds, and no topic is committed below zero.
THEOREM PipelineTypeOK == Spec => []TypeOK
<1>1. TypeInv => TypeOK
  BY DEF TypeInv
<1> QED BY <1>1, InitTypes, StepTypes, PTL DEF Spec

-----------------------------------------------------------------------------
(* What the hops remember is of events that are known.                     *)

\* What is known stays known.
LEMMA KnownStays ==
    ASSUME UNCHANGED <<recorded, burnt>>
    PROVE  Known' = Known
BY DEF Known

LEMMA KnownGrows ==
    ASSUME HistoryOK, HistoryOK', burnt \subseteq burnt',
           \A e \in Named : recorded'[e] >= recorded[e]
    PROVE  Known \subseteq Known'
<1>1. \A e \in Named : recorded[e] \in Nat /\ recorded'[e] \in Nat
  BY DEF HistoryOK
<1>2. \A e \in Named : recorded[e] > 0 => recorded'[e] > 0
  BY <1>1
<1> QED BY <1>2 DEF Known

LEMMA MoreToKnow ==
    ASSUME NEW S, NEW T, S \subseteq T, NEW s \in Seq(S)
    PROVE  s \in Seq(T)
BY SeqMonotonic

\* Steps before the server only add answered events to the cache.
LEMMA FoundationBefore ==
    ASSUME RedisOK, Foundation, BeforeServer, delivered' \in Seq(Known),
           \A l \in Level : handler'[l].at = "replied" => handler'[l] = handler[l]
    PROVE  Foundation'
<1>1. UNCHANGED <<claims, answers, memory, recorded, burnt>>
  BY DEF BeforeServer, server, history
<1>2. Known' = Known
  BY <1>1, KnownStays
<1>3. \A l \in Level, e \in Named \cup claims : Owns(l, e) <=> Owns(l, e)'
  <2> SUFFICES ASSUME NEW l \in Level, NEW e
               PROVE  Owns(l, e) <=> handler'[l] = [of |-> e, at |-> "claimed"]
    BY DEF Owns
  <2>1. [of |-> e, at |-> "claimed"].at \in Waiting
    BY DEF Waiting
  <2> QED BY <2>1 DEF Owns, BeforeServer, ServedAlike
<1>4. ClaimsAreFounded'
  BY <1>1, <1>2, <1>3 DEF Foundation, ClaimsAreFounded
<1>5. MemoriesAreTrue'
  BY <1>1, <1>2 DEF Foundation, MemoriesAreTrue
<1>6. RefusalsAreFounded'
  <2> SUFFICES ASSUME NEW i \in 1..Len(answers), handler'[answers[i]].at = "refused"
               PROVE  \/ handler'[answers[i]].of \in Known
                      \/ \E j \in 1..(i - 1) : handler'[answers[j]]
                                               = [of |-> handler'[answers[i]].of, at |-> "claimed"]
    BY <1>1, <1>2 DEF RefusalsAreFounded, Owns
  <2>1. \A j \in 1..Len(answers) : answers[j] \in Level
    BY ElementOfSeq DEF RedisOK
  <2>2. handler'[answers[i]] = handler[answers[i]]
    BY <2>1 DEF BeforeServer, ServedAlike, Waiting
  <2>3. CASE handler[answers[i]].of \in Known
    BY <2>2, <2>3
  <2>4. CASE handler[answers[i]].of \notin Known
    <3>1. PICK j \in 1..(i - 1) : Owns(answers[j], handler[answers[i]].of)
      BY <2>2, <2>4 DEF Foundation, RefusalsAreFounded
    <3>2. j \in 1..Len(answers)
      BY LenProperties DEF RedisOK
    <3>3. PICK e : e = handler[answers[i]].of
      OBVIOUS
    <3>4. [of |-> e, at |-> "claimed"].at \in Waiting
      BY DEF Waiting
    <3>5. handler'[answers[j]] = [of |-> e, at |-> "claimed"]
      BY <2>1, <3>1, <3>2, <3>3, <3>4 DEF Owns, BeforeServer, ServedAlike
    <3> QED BY <2>2, <3>3, <3>5
  <2> QED BY <2>3, <2>4
<1> QED BY <1>4, <1>5, <1>6 DEF Foundation

\* What java-ingest writes of requests and of its cache.
LEMMA IngestWrites ==
    ASSUME TypeInv, Ingest
    PROVE  /\ BeforeServer
           /\ \A l \in Level : handler'[l].at = "replied" => handler'[l] = handler[l]
           /\ \/ UNCHANGED delivered \/ delivered' = <<>>
              \/ \E l \in Level : handler[l].at = "replied"
                    /\ delivered' = LastUsed(delivered, handler[l].of, CacheSize)
<1> DEFINE Goal == /\ ServedAlike
                   /\ \A l \in Level : handler'[l].at = "replied" => handler'[l] = handler[l]
<1>1. handler \in [Level -> Place] /\ SameEvent
  BY TypeParts DEF TypeInv, Hands, Threads
<1>2. Idle.at \notin Waiting /\ Idle.at # "replied" /\ "replied" \notin Waiting
  BY DEF Idle, Waiting
<1>3. UNCHANGED handler => Goal
  BY DEF ServedAlike
<1>4. ASSUME NEW l \in Level, handler[l].at = "replied",
             handler' = [handler EXCEPT ![l] = Idle]
      PROVE  Goal
  <2>1. \A k \in Level : handler'[k] = IF k = l THEN Idle ELSE handler[k]
    BY <1>1, <1>4
  <2> QED BY <2>1, <1>2, <1>4 DEF ServedAlike
<1>5. CASE \E l \in Level, m \in Message : Take(l, m)
  <2>1. PICK l \in Level, m \in Message : Take(l, m)
    BY <1>5
  <2>2. UNCHANGED delivered /\ UNCHANGED <<server, browser, history>> /\ handler[l] = Idle
    BY <2>1 DEF Take
  <2>3. UNCHANGED handler \/ handler' = [handler EXCEPT ![l] = [of |-> m, at |-> "arrived"]]
    BY <2>1 DEF Take
  <2>4. CASE handler' = [handler EXCEPT ![l] = [of |-> m, at |-> "arrived"]]
    <3> DEFINE h == [of |-> m, at |-> "arrived"]
    <3>1. h.at \notin Waiting /\ h.at # "replied"
      BY DEF Waiting
    <3>2. \A k \in Level : handler'[k] = IF k = l THEN h ELSE handler[k]
      BY <1>1, <2>4
    <3> HIDE DEF h
    <3>3. Goal
      BY <3>1, <3>2, <2>2, <1>2 DEF ServedAlike
    <3> QED BY <2>2, <3>3 DEF BeforeServer
  <2> QED BY <1>3, <2>2, <2>3, <2>4 DEF BeforeServer
<1>6. CASE \E l \in Level, m \in Message : PostRefused(l, m) \/ Quarantine(l, m) \/ QuarantineFails(l, m)
  <2>1. UNCHANGED <<handler, delivered>> /\ UNCHANGED <<server, browser, history>>
    BY <1>6 DEF PostRefused, Quarantine, QuarantineFails
  <2> QED BY <1>3, <2>1 DEF BeforeServer
<1>7. CASE \E l \in Level : PostAnswered(l)
  <2>1. PICK l \in Level : PostAnswered(l)
    BY <1>7
  <2>2. handler[l].at = "replied" /\ handler' = [handler EXCEPT ![l] = Idle]
        /\ delivered' = LastUsed(delivered, listener[l].of, CacheSize)
        /\ UNCHANGED <<server, browser, history>>
    BY <2>1 DEF PostAnswered
  <2>3. listener[l].of = handler[l].of
    BY <1>1, <2>2, OnlyPostedAwaits
  <2> QED BY <1>4, <2>2, <2>3 DEF BeforeServer
<1>8. CASE \E l \in Level : PostFails(l)
  <2>1. PICK l \in Level : PostFails(l)
    BY <1>8
  <2>2. UNCHANGED delivered /\ UNCHANGED <<server, browser, history>>
        /\ handler' = IF handler[l].at = "replied" THEN [handler EXCEPT ![l] = Idle] ELSE handler
    BY <2>1 DEF PostFails
  <2>3. Goal
    BY <1>3, <1>4, <2>2
  <2> QED BY <2>2, <2>3 DEF BeforeServer
<1>9. CASE \E l \in Level : Commit(l)
  <2>1. UNCHANGED <<handler, delivered>> /\ UNCHANGED <<server, browser, history>>
    BY <1>9 DEF Commit
  <2> QED BY <1>3, <2>1 DEF BeforeServer
<1>10. CASE IngestRestarts
  <2>1. handler' = [l \in Level |-> IF handler[l].at = "replied" THEN Idle ELSE handler[l]]
        /\ delivered' = <<>> /\ UNCHANGED <<server, browser, history>>
    BY <1>10 DEF IngestRestarts
  <2>2. \A l \in Level : handler'[l] = IF handler[l].at = "replied" THEN Idle ELSE handler[l]
    BY <2>1
  <2>3. Goal
    BY <2>2, <1>2 DEF ServedAlike
  <2> QED BY <2>1, <2>3 DEF BeforeServer
<1> QED BY <1>5, <1>6, <1>7, <1>8, <1>9, <1>10 DEF Ingest

LEMMA ForwardWrites ==
    ASSUME NEW m \in Message, Forward(m) \/ ForwardUnstored(m) \/ ForwardUnseen(m)
    PROVE  /\ BeforeServer /\ UNCHANGED <<handler, listener, delivered, deadLetters, quarantined>>
BY DEF Forward, ForwardUnstored, ForwardUnseen, ingest, BeforeServer, ServedAlike

LEMMA IngestFoundation ==
    ASSUME TypeInv, Foundation, Ingest \/ \E m \in Message : Forward(m) \/ ForwardUnstored(m) \/ ForwardUnseen(m)
    PROVE  Foundation'
<1>1. CacheOK /\ RedisOK
  BY TypeParts DEF TypeInv, IngestSide, ServerSide
<1>2. CASE Ingest
  <2>1. BeforeServer /\ \A l \in Level : handler'[l].at = "replied" => handler'[l] = handler[l]
    BY <1>2, IngestWrites
  <2>2. delivered' \in Seq(Known)
    <3>1. CASE UNCHANGED delivered
      BY <3>1 DEF Foundation, MemoriesAreTrue
    <3>2. CASE delivered' = <<>>
      BY <3>2, EmptySeq
    <3>3. CASE \E l \in Level : handler[l].at = "replied"
                  /\ delivered' = LastUsed(delivered, handler[l].of, CacheSize)
      <4>1. PICK l \in Level : handler[l].at = "replied"
                  /\ delivered' = LastUsed(delivered, handler[l].of, CacheSize)
        BY <3>3
      <4>2. handler[l].of \in Known /\ delivered \in Seq(Known)
        BY <4>1 DEF Foundation, MemoriesAreTrue
      <4> QED BY <4>1, <4>2, <1>1, LastUsedType, Constants DEF CacheOK
    <3> QED BY <1>2, <3>1, <3>2, <3>3, IngestWrites
  <2> QED BY <1>1, <2>1, <2>2, FoundationBefore
<1>3. CASE \E m \in Message : Forward(m) \/ ForwardUnstored(m) \/ ForwardUnseen(m)
  <2>1. BeforeServer /\ UNCHANGED <<handler, delivered>>
    BY <1>3, ForwardWrites
  <2> QED BY <1>1, <2>1, FoundationBefore DEF Foundation, MemoriesAreTrue
<1> QED BY <1>2, <1>3

\* A claim is founded on its owner, and a refusal on the claim.
LEMMA ClaimFoundation ==
    ASSUME TypeInv, Foundation, NEW l \in Level, Claim(l)
    PROVE  Foundation'
<1>1. PICK e : e = handler[l].of
  OBVIOUS
<1>2. PICK where \in Waiting :
        /\ where = IF e \in claims THEN "refused" ELSE "claimed"
        /\ handler' = [handler EXCEPT ![l].at = where]
        /\ handler[l].at = "arrived" /\ claims' = claims \cup {e}
        /\ answers' = Append(answers, l)
        /\ UNCHANGED <<ingest, memory, history>>
  BY <1>1 DEF Claim, Waiting
<1>3. Threads /\ Hands /\ RedisOK /\ Threads' /\ UNCHANGED delivered /\ Known' = Known
  BY <1>2, ClaimTypes, TypeParts, TypePartsAfter, KnownStays DEF TypeInv, ServerSide, history, ingest
<1>4. handler[l] \in Place
  BY <1>3 DEF Threads
<1>5. /\ handler'[l].of = e /\ handler'[l].at = where
      /\ \A k \in Level \ {l} : handler'[k] = handler[k]
  BY <1>1, <1>2, <1>3, <1>4 DEF Threads, Place
<1>6. Len(answers) \in Nat /\ \A i \in 1..Len(answers) : answers[i] \in Level /\ answers[i] # l
  <2>1. handler[l].at \notin Waiting
    BY <1>2 DEF Waiting
  <2> QED BY <1>3, <2>1, LenProperties, ElementOfSeq DEF Hands, Queue, RedisOK
<1>7. /\ Len(answers') = Len(answers) + 1 /\ answers'[Len(answers) + 1] = l
      /\ \A i \in 1..Len(answers) : answers'[i] = answers[i]
  BY <1>2, <1>3, AppendProperties DEF RedisOK
<1>8. \A k \in Level : \A x : Owns(k, x) => Owns(k, x)'
  <2> SUFFICES ASSUME NEW k \in Level, NEW x, handler[k] = [of |-> x, at |-> "claimed"]
               PROVE  handler'[k] = [of |-> x, at |-> "claimed"]
    BY DEF Owns
  <2>1. [of |-> x, at |-> "claimed"].at = "claimed"
    OBVIOUS
  <2> QED BY <2>1, <1>2, <1>5
<1>9. e \notin claims => Owns(l, e)'
  <2>1. handler'[l] \in Place
    BY <1>3 DEF Threads
  <2> QED BY <2>1, <1>2, <1>5 DEF Owns, Place
<1>10. ClaimsAreFounded'
  BY <1>2, <1>3, <1>8, <1>9 DEF Foundation, ClaimsAreFounded
<1>11. MemoriesAreTrue'
  BY <1>2, <1>3, <1>5 DEF Foundation, MemoriesAreTrue, Waiting
<1>12. RefusalsAreFounded'
  <2> SUFFICES ASSUME NEW i \in 1..Len(answers'), handler'[answers'[i]].at = "refused"
               PROVE  \/ handler'[answers'[i]].of \in Known
                      \/ \E j \in 1..(i - 1) : handler'[answers'[j]]
                                               = [of |-> handler'[answers'[i]].of, at |-> "claimed"]
    BY <1>3 DEF RefusalsAreFounded, Owns
  <2>1. CASE i = Len(answers) + 1
    <3>1. e \in claims
      BY <2>1, <1>2, <1>5, <1>7
    <3>2. CASE e \in Known
      BY <2>1, <3>2, <1>5, <1>7
    <3>3. CASE e \notin Known
      <4>1. PICK k \in Level : Owns(k, e)
        BY <3>1, <3>3 DEF Foundation, ClaimsAreFounded
      <4>2. [of |-> e, at |-> "claimed"].at \in Waiting
        BY DEF Waiting
      <4>3. PICK j \in 1..Len(answers) : answers[j] = k
        BY <4>1, <4>2, <1>3 DEF Owns, Hands, Queue
      <4>4. handler'[answers'[j]] = [of |-> e, at |-> "claimed"]
        BY <4>1, <4>3, <1>7, <1>8 DEF Owns
      <4>5. j \in 1..(i - 1)
        BY <2>1, <1>6
      <4> QED BY <4>4, <4>5, <2>1, <1>5, <1>7
    <3> QED BY <3>2, <3>3
  <2>2. CASE i \in 1..Len(answers)
    <3>1. answers'[i] = answers[i] /\ answers[i] \in Level \ {l}
          /\ handler'[answers[i]] = handler[answers[i]]
      BY <2>2, <1>5, <1>6, <1>7
    <3>2. CASE handler[answers[i]].of \in Known
      BY <3>1, <3>2
    <3>3. CASE handler[answers[i]].of \notin Known
      <4>1. PICK j \in 1..(i - 1) : Owns(answers[j], handler[answers[i]].of)
        BY <2>2, <3>1, <3>3 DEF Foundation, RefusalsAreFounded
      <4>2. j \in 1..Len(answers)
        BY <2>2, <1>6
      <4>3. handler'[answers[j]] = [of |-> handler[answers[i]].of, at |-> "claimed"]
        BY <4>1, <4>2, <1>6, <1>8 DEF Owns
      <4> QED BY <4>2, <4>3, <3>1, <1>7
    <3> QED BY <3>2, <3>3
  <2> QED BY <2>1, <2>2, <1>6, <1>7
<1> QED BY <1>10, <1>11, <1>12 DEF Foundation

\* An answered request's event is known: the request has recorded it, or it
\* was refused for a claim whose owner came before, or the map remembers it.
LEMMA AnsweredIsKnown ==
    ASSUME TypeInv, Foundation, NEW l \in Level, Record(l) \/ RecordFromMemory(l)
    PROVE  /\ handler[l].of \in Known' /\ Known \subseteq Known'
           /\ \A x \in Named : recorded'[x] >= recorded[x]
<1>1. PICK e : e = handler[l].of
  OBVIOUS
<1>2. Answering(l) /\ UNCHANGED burnt /\ (recordIngestEvent(e) \/ UNCHANGED recorded)
  BY <1>1, RecordWrites
<1>3. e \in Named /\ HistoryOK /\ HistoryOK' /\ BufferOK /\ BrowserOK /\ MemoryOK /\ RedisOK
  BY <1>1, <1>2, AnsweringStep, RecordTypes, TypeParts, TypePartsAfter DEF TypeInv, ServerSide
<1>4. \A x \in Named : recorded[x] \in Nat
  BY <1>3 DEF HistoryOK
<1>5. recordIngestEvent(e) => \A x \in Named : recorded'[x] = IF x = e THEN recorded[x] + 1 ELSE recorded[x]
  BY <1>3, RecordingTypes
<1>6. \A x \in Named : recorded'[x] >= recorded[x]
  BY <1>2, <1>4, <1>5
<1>7. Known \subseteq Known'
  BY <1>2, <1>3, <1>6, KnownGrows
<1>8. recordIngestEvent(e) => e \in Known'
  BY <1>3, <1>4, <1>5 DEF Known
<1>9. CASE Record(l)
  <2>1. answers # <<>> /\ l = Head(answers)
    BY <1>9 DEF Record
  <2>2. l = answers[1] /\ 1 \in 1..Len(answers) /\ handler[l].at \in Waiting
    BY <2>1, <1>3, LenProperties, EmptySeq DEF RedisOK, TypeInv, Hands, Queue
  <2>3. CASE handler[l].at = "claimed"
    BY <2>3, <1>1, <1>6, <1>7, <1>8, <1>9 DEF Record
  <2>4. CASE handler[l].at = "refused"
    BY <2>2, <2>4, <1>1, <1>6, <1>7 DEF Foundation, RefusalsAreFounded
  <2> QED BY <2>2, <2>3, <2>4, <1>1, <1>6, <1>7 DEF Waiting
<1>10. CASE RecordFromMemory(l)
  <2>1. Contains(memory, e) => e \in Known
    BY <1>3, ElementOfSeq DEF Contains, Foundation, MemoriesAreTrue
  <2> QED BY <2>1, <1>1, <1>6, <1>7, <1>8, <1>10 DEF RecordFromMemory
<1> QED BY <1>9, <1>10

LEMMA RecordFoundation ==
    ASSUME TypeInv, Foundation, NEW l \in Level, Record(l) \/ RecordFromMemory(l)
    PROVE  Foundation'
<1>1. PICK e : e = handler[l].of
  OBVIOUS
<1>2. /\ Answering(l) /\ UNCHANGED <<claims, delivered>> /\ memory' = LastUsed(memory, e, MemorySize)
  BY <1>1, RecordWrites DEF AfterIngest, ingest
<1>3. e \in Known' /\ Known \subseteq Known'
  BY <1>1, AnsweredIsKnown
<1>4. /\ \A k \in Level \ {l} : handler'[k] = handler[k]
      /\ handler'[l].at \notin Waiting
      /\ handler'[l].at = "replied" => handler'[l].of = e
  BY <1>1, <1>2, AnsweringStep
<1>5. MemoryOK /\ RedisOK /\ Queue
  BY TypeParts DEF TypeInv, ServerSide, Hands
<1>6. ASSUME NEW x \in Named, NEW k \in Level, Owns(k, x)
      PROVE  x \in Known' \/ handler'[k] = [of |-> x, at |-> "claimed"]
  <2>1. CASE k = l
    <3>1. [of |-> x, at |-> "claimed"].of = x
      OBVIOUS
    <3> QED BY <2>1, <3>1, <1>1, <1>3, <1>6 DEF Owns
  <2>2. CASE k # l
    BY <2>2, <1>4, <1>6 DEF Owns
  <2> QED BY <2>1, <2>2
<1>7. ClaimsAreFounded'
  <2> SUFFICES ASSUME NEW x \in claims, x \notin Known'
               PROVE  \E k \in Level : handler'[k] = [of |-> x, at |-> "claimed"]
    BY <1>2 DEF ClaimsAreFounded, Owns
  <2>1. PICK k \in Level : Owns(k, x)
    BY <1>3 DEF Foundation, ClaimsAreFounded
  <2> QED BY <2>1, <1>5, <1>6 DEF RedisOK
<1>8. MemoriesAreTrue'
  <2>1. memory \in Seq(Known') /\ delivered \in Seq(Known')
    BY <1>3, MoreToKnow DEF Foundation, MemoriesAreTrue
  <2>2. memory' \in Seq(Known')
    BY <2>1, <1>2, <1>3, <1>5, LastUsedType, Constants DEF MemoryOK
  <2> QED BY <2>1, <2>2, <1>2, <1>3, <1>4 DEF Foundation, MemoriesAreTrue
<1>9. RefusalsAreFounded'
  <2> SUFFICES ASSUME NEW i \in 1..Len(answers'), handler'[answers'[i]].at = "refused",
                      handler'[answers'[i]].of \notin Known'
               PROVE  \E j \in 1..(i - 1) : handler'[answers'[j]]
                                            = [of |-> handler'[answers'[i]].of, at |-> "claimed"]
    BY DEF RefusalsAreFounded, Owns
  <2>1. CASE answers = <<>>
    BY <2>1, <1>2, EmptySeq DEF Answering
  <2>2. CASE answers # <<>>
    <3>1. /\ l = answers[1] /\ Len(answers) \in Nat \ {0} /\ Len(answers') = Len(answers) - 1
          /\ \A j \in 1..Len(answers') : answers'[j] = answers[j + 1] /\ answers'[j] # l
      BY <2>2, <1>2, <1>4, <1>5, QueuePops DEF Answering
    <3>2. \A j \in 1..Len(answers) : answers[j] \in Level
      BY <1>5, ElementOfSeq DEF RedisOK
    <3>3. i + 1 \in 1..Len(answers) /\ answers'[i] = answers[i + 1]
          /\ handler'[answers'[i]] = handler[answers[i + 1]]
      BY <3>1, <3>2, <1>4
    <3>4. PICK x : x = handler[answers[i + 1]].of
      OBVIOUS
    <3>5. x \in Named
      BY <3>2, <3>3, <3>4 DEF TypeInv, Hands, HandlerFits, Idle
    <3>6. x \notin Known /\ x \notin Known' /\ x # e
      BY <3>3, <3>4, <1>3
    <3>7. PICK j \in 1..((i + 1) - 1) : Owns(answers[j], x)
      BY <3>3, <3>4, <3>6 DEF Foundation, RefusalsAreFounded
    <3>8. j \in 1..Len(answers) /\ j \in 1..i
      BY <3>1, <3>7
    <3>9. handler'[answers[j]] = [of |-> x, at |-> "claimed"]
      BY <3>2, <3>5, <3>6, <3>7, <3>8, <1>6
    <3>10. answers[j] # l
      <4>1. [of |-> x, at |-> "claimed"].at \in Waiting
        BY DEF Waiting
      <4> QED BY <4>1, <3>9, <1>4
    <3>11. j - 1 \in 1..(i - 1) /\ j - 1 \in 1..Len(answers') /\ (j - 1) + 1 = j
      BY <3>1, <3>8, <3>10
    <3>12. answers'[j - 1] = answers[j]
      BY <3>1, <3>11
    <3> QED BY <3>3, <3>4, <3>9, <3>11, <3>12
  <2> QED BY <2>1, <2>2
<1> QED BY <1>7, <1>8, <1>9 DEF Foundation

LEMMA RestartFoundation ==
    ASSUME TypeInv, Foundation, ServerRestarts
    PROVE  Foundation' /\ Known \subseteq Known'
<1>1. /\ handler' = [l \in Level |-> Idle] /\ answers' = <<>> /\ memory' = <<>>
      /\ burnt' = burnt \cup {handler[l].of : l \in {k \in Level : handler[k].at = "claimed"}}
      /\ UNCHANGED <<claims, delivered, recorded>>
  BY DEF ServerRestarts, ingest
<1>2. Known \subseteq Known'
  BY <1>1 DEF Known
<1>3. \A x \in Named, k \in Level : Owns(k, x) => x \in Known'
  <2> SUFFICES ASSUME NEW x \in Named, NEW k \in Level, Owns(k, x)
               PROVE  x \in Known'
    OBVIOUS
  <2>1. [of |-> x, at |-> "claimed"].of = x /\ [of |-> x, at |-> "claimed"].at = "claimed"
    OBVIOUS
  <2> QED BY <2>1, <1>1 DEF Owns, Known
<1>4. ClaimsAreFounded'
  BY <1>1, <1>2, <1>3, TypeParts DEF Foundation, ClaimsAreFounded, TypeInv, ServerSide, RedisOK
<1>5. MemoriesAreTrue'
  <2>1. delivered \in Seq(Known')
    BY <1>2, MoreToKnow DEF Foundation, MemoriesAreTrue
  <2> QED BY <2>1, <1>1, EmptySeq DEF MemoriesAreTrue, Idle
<1>6. RefusalsAreFounded'
  BY <1>1, EmptySeq DEF RefusalsAreFounded
<1> QED BY <1>2, <1>4, <1>5, <1>6 DEF Foundation

\* A claim that is gone founds nothing, and the browser's steps neither.
LEMMA RestFoundation ==
    ASSUME Foundation, claims' \subseteq claims,
           UNCHANGED <<handler, delivered, memory, answers, recorded, burnt>>
    PROVE  Foundation'
<1>1. Known' = Known
  BY KnownStays
<1>2. ClaimsAreFounded'
  BY <1>1 DEF Foundation, ClaimsAreFounded, Owns
<1>3. MemoriesAreTrue'
  BY <1>1 DEF Foundation, MemoriesAreTrue
<1>4. RefusalsAreFounded'
  BY <1>1 DEF Foundation, RefusalsAreFounded, Owns
<1> QED BY <1>2, <1>3, <1>4 DEF Foundation

LEMMA InitFoundation == Init => Foundation
<1> SUFFICES ASSUME Init
             PROVE  Foundation
  OBVIOUS
<1>1. claims = {} /\ answers = <<>> /\ delivered = <<>> /\ memory = <<>>
      /\ handler = [l \in Level |-> Idle]
  BY DEF Init
<1>2. ClaimsAreFounded
  BY <1>1 DEF ClaimsAreFounded
<1>3. MemoriesAreTrue
  BY <1>1, EmptySeq DEF MemoriesAreTrue, Idle
<1>4. RefusalsAreFounded
  BY <1>1, EmptySeq DEF RefusalsAreFounded
<1> QED BY <1>2, <1>3, <1>4 DEF Foundation

LEMMA StepFoundation == TypeInv /\ Foundation /\ [Next]_vars => Foundation'
<1> SUFFICES ASSUME TypeInv, Foundation, [Next]_vars
             PROVE  Foundation'
  OBVIOUS
<1>1. CASE Ingest \/ \E m \in Message : Forward(m) \/ ForwardUnstored(m) \/ ForwardUnseen(m)
  BY <1>1, IngestFoundation
<1>2. CASE \E l \in Level : Claim(l) \/ Record(l) \/ RecordFromMemory(l)
  BY <1>2, ClaimFoundation, RecordFoundation
<1>3. CASE \E e \in Named : ClaimExpires(e)
  BY <1>3, RestFoundation DEF ClaimExpires, ingest
<1>4. CASE ServerRestarts
  BY <1>4, RestartFoundation
<1>5. CASE Connect \/ Disconnect \/ ReceiveFrame
  BY <1>5, BrowserTypes, RestFoundation DEF ingest, server, history
<1>6. CASE UNCHANGED vars
  BY <1>6, RestFoundation DEF vars, ingest, server, history
<1> QED BY <1>1, <1>2, <1>3, <1>4, <1>5, <1>6 DEF Next

-----------------------------------------------------------------------------
(* No message is lost.                                                     *)

Safe == DoneIsSafe /\ NothingIsLost

\* What has ended has ended for good.
EndsStay == \A m \in Message : Ended(m) => Ended(m)'

LEMMA EndsAreFinal ==
    ASSUME HistoryOK, HistoryOK', deadLetters \subseteq deadLetters',
           quarantined \subseteq quarantined', burnt \subseteq burnt',
           \A e \in Named : recorded'[e] >= recorded[e]
    PROVE  EndsStay
<1>1. \A e \in Named : recorded[e] \in Nat /\ recorded'[e] \in Nat
  BY DEF HistoryOK
<1>2. \A e \in Named : recorded[e] > 0 => recorded'[e] > 0
  BY <1>1
<1> QED BY <1>2 DEF Ended, EndsStay

\* What was passed on stays passed on while the topics rest.
LEMMA SameHandsPassedOn ==
    ASSUME NEW l \in Level, listener[l].of \in Message, EndsStay, PassedOn(l),
           UNCHANGED <<kafka, listener>>
    PROVE  PassedOn(l)'
<1>1. PICK m \in Message : m = listener[l].of
  OBVIOUS
<1>2. Ended(m) => Ended(m)'
  BY DEF EndsStay
<1> QED BY <1>1, <1>2 DEF PassedOn, Ended

\* A step of the server or the browser touches no topic.
LEMMA SafeAfterIngest ==
    ASSUME TypeInv, Safe, AfterIngest, EndsStay
    PROVE  Safe'
<1>1. UNCHANGED <<published, pulsar, vanished, kafka, listener>>
  BY DEF AfterIngest, ingest
<1>2. \A l \in Level : listener[l].at = "done" => listener[l].of \in Message
  BY DEF TypeInv, Hands, ListenerFits, Idle
<1>3. DoneIsSafe'
  BY <1>1, <1>2, SameHandsPassedOn DEF Safe, DoneIsSafe
<1>4. published \subseteq Message
  BY TypeParts, Constants DEF TypeInv, IngestSide, Records
<1>5. NothingIsLost'
  BY <1>1, <1>4 DEF Safe, NothingIsLost, InKafka, EndsStay
<1> QED BY <1>3, <1>5 DEF Safe

\* Topics grow, and each listener that has become done with a record leaves it
\* ended or on a later topic.
LEMMA SafeAsTopicsGrow ==
    ASSUME TypeInv, TypeInv', Safe, KafkaGrew, EndsStay, UNCHANGED published,
           \A m \in pulsar \ pulsar' : InKafka(m)' \/ m \in vanished', vanished \subseteq vanished',
           \A l \in Level : listener'[l].at = "done" => listener'[l] = listener[l] \/ PassedOn(l)'
    PROVE  Safe'
<1>1. \A m \in Message, l \in Level : kafka[m][l] \in Nat /\ kafka'[m][l] \in Nat
                                      /\ kafka'[m][l] >= kafka[m][l]
  BY TypeParts, TypePartsAfter DEF TypeInv, IngestSide, Topics, KafkaGrew
<1>2. \A m \in Message, l \in Level : kafka[m][l] > 0 => kafka'[m][l] > 0
  BY <1>1
<1>3. \A l \in Level : listener[l].at = "done" => listener[l].of \in Message
  BY DEF TypeInv, Hands, ListenerFits, Idle
<1>4. DoneIsSafe'
  <2> SUFFICES ASSUME NEW l \in Level, listener'[l].at = "done", listener'[l] = listener[l]
               PROVE  PassedOn(l)'
    BY DEF DoneIsSafe
  <2>1. PICK m \in Message : m = listener[l].of /\ m = listener'[l].of
    BY <1>3
  <2>2. CASE Ended(m)
    <3>1. Ended(m)'
      BY <2>2 DEF EndsStay
    <3> QED BY <2>1, <3>1 DEF PassedOn, Ended
  <2>3. CASE \E k \in Level : k > l /\ kafka[m][k] > 0
    BY <2>1, <2>3, <1>2 DEF PassedOn
  <2>4. PassedOn(l)
    BY DEF Safe, DoneIsSafe
  <2> QED BY <2>1, <2>2, <2>3, <2>4 DEF PassedOn
<1>5. NothingIsLost'
  <2> SUFFICES ASSUME NEW m \in published, m \notin pulsar', m \notin vanished'
               PROVE  InKafka(m)' \/ Ended(m)'
    BY DEF NothingIsLost
  <2>1. m \in Message
    BY TypeParts, Constants DEF TypeInv, IngestSide, Records
  <2>2. CASE m \in pulsar
    BY <2>2
  <2>3. CASE InKafka(m)
    BY <2>1, <2>3, <1>2 DEF InKafka
  <2>4. CASE Ended(m)
    BY <2>1, <2>4 DEF EndsStay
  <2> QED BY <2>2, <2>3, <2>4 DEF Safe, NothingIsLost
<1> QED BY <1>4, <1>5 DEF Safe

\* One listener moves on with a record.
LEMMA SafeStep ==
    ASSUME TypeInv, TypeInv', Safe, KafkaGrew, EndsStay, UNCHANGED <<published, pulsar, vanished>>,
           NEW l \in Level, NEW m \in Message, NEW where, At(l, m, where),
           where = "done" => Ended(m)' \/ \E k \in Level : k > l /\ kafka'[m][k] > 0
    PROVE  Safe'
<1> DEFINE p == [of |-> m, at |-> where]
<1>1. \A k \in Level : listener'[k] = IF k = l THEN p ELSE listener[k]
  BY TypeParts DEF TypeInv, Threads, At
<1>2. p.of = m /\ p.at = where
  OBVIOUS
<1> HIDE DEF p
<1>3. ASSUME NEW k \in Level, listener'[k].at = "done", listener'[k] # listener[k]
      PROVE  PassedOn(k)'
  <2>1. k = l /\ listener'[l].of = m /\ where = "done"
    BY <1>1, <1>2, <1>3
  <2> QED BY <2>1 DEF PassedOn, Ended
<1> QED BY <1>3, SafeAsTopicsGrow

\* java-ingest forgets no end, and a retried record is passed on.
LEMMA RetryEnds ==
    ASSUME TypeInv, TypeInv', NEW m \in Message, NEW l \in Level, Retry(l, m),
           quarantined \subseteq quarantined', UNCHANGED history
    PROVE  /\ EndsStay /\ KafkaGrew
           /\ Ended(m)' \/ \E k \in Level : k > l /\ kafka'[m][k] > 0
<1>1. Topics /\ Records /\ HistoryOK /\ HistoryOK'
  BY TypeParts, TypePartsAfter DEF TypeInv, IngestSide, ServerSide
<1>2. /\ deadLetters \subseteq deadLetters' /\ KafkaGrew
      /\ m \in deadLetters' \/ \E k \in Level : k > l /\ kafka'[m][k] > 0
  BY <1>1, RetryKeeps
<1>3. \A e \in Named : recorded[e] \in Nat /\ recorded'[e] = recorded[e]
  BY <1>1 DEF HistoryOK, history
<1>4. EndsStay
  BY <1>1, <1>2, <1>3, EndsAreFinal DEF history
<1> QED BY <1>2, <1>4 DEF Ended

LEMMA EndsUntouched ==
    ASSUME TypeInv, quarantined \subseteq quarantined', UNCHANGED <<deadLetters, recorded, burnt>>
    PROVE  EndsStay
BY DEF EndsStay, Ended

LEMMA CommitSafe ==
    ASSUME TypeInv, Safe, NEW l \in Level, Commit(l)
    PROVE  Safe'
<1>1. listener[l].at = "done" /\ kafka' = [kafka EXCEPT ![listener[l].of][l] = @ - 1]
      /\ listener' = [listener EXCEPT ![l] = Idle]
      /\ UNCHANGED <<published, pulsar, vanished, deadLetters, quarantined, recorded, burnt>>
  BY DEF Commit, history
<1>2. Topics /\ Threads /\ Records /\ ListenerFits
  BY TypeParts DEF TypeInv, IngestSide, Hands
<1>3. PICK m : m = listener[l].of /\ m \in Message /\ kafka[m][l] > 0
  BY <1>1, <1>2 DEF ListenerFits, Idle
<1>4. \A x \in Message : \A k \in Level : (x = m /\ k = l) \/ kafka'[x][k] = kafka[x][k]
  BY <1>1, <1>2, <1>3, OneLess
<1>5. \A k \in Level : listener'[k] = IF k = l THEN Idle ELSE listener[k]
  BY <1>1, <1>2 DEF Threads
<1>6. \A x : Ended(x)' <=> Ended(x)
  BY <1>1 DEF Ended
<1>7. PassedOn(l)
  BY <1>1 DEF Safe, DoneIsSafe
<1>8. \A k \in Level : ~(k > k)
  BY Constants
<1>9. Ended(m) \/ \E j \in Level : j > l /\ kafka'[m][j] > 0
  BY <1>3, <1>4, <1>7, <1>8 DEF PassedOn
<1>10. DoneIsSafe'
  <2> SUFFICES ASSUME NEW k \in Level, listener'[k].at = "done"
               PROVE  PassedOn(k)'
    BY DEF DoneIsSafe
  <2>1. k # l /\ listener'[k] = listener[k]
    BY <1>5 DEF Idle
  <2>2. PICK x \in Message : x = listener[k].of /\ x = listener'[k].of
    BY <2>1, <1>2 DEF ListenerFits, Idle
  <2>3. CASE Ended(x)
    <3>1. Ended(x)'
      BY <2>3, <1>6
    <3> QED BY <2>2, <3>1 DEF PassedOn, Ended
  <2>4. CASE \E j \in Level : j > k /\ kafka[x][j] > 0
    <3>1. PICK j \in Level : j > k /\ kafka[x][j] > 0
      BY <2>4
    <3>2. CASE x = m /\ j = l
      <4>1. CASE Ended(m)
        <5>1. Ended(x)'
          BY <3>2, <4>1, <1>6
        <5> QED BY <2>2, <5>1 DEF PassedOn, Ended
      <4>2. CASE \E i \in Level : i > l /\ kafka'[m][i] > 0
        <5>1. PICK i \in Level : i > l /\ kafka'[m][i] > 0
          BY <4>2
        <5>2. i > k
          BY <3>1, <3>2, <5>1, Constants
        <5> QED BY <2>2, <3>2, <5>1, <5>2 DEF PassedOn
      <4> QED BY <4>1, <4>2, <1>9
    <3>3. CASE ~(x = m /\ j = l)
      <4>1. kafka'[x][j] > 0
        BY <3>1, <3>3, <1>4
      <4> QED BY <2>2, <3>1, <4>1 DEF PassedOn
    <3> QED BY <3>2, <3>3
  <2>5. PassedOn(k)
    BY <2>1 DEF Safe, DoneIsSafe
  <2> QED BY <2>2, <2>3, <2>4, <2>5 DEF PassedOn
<1>11. NothingIsLost'
  <2> SUFFICES ASSUME NEW x \in published, x \notin pulsar, x \notin vanished
               PROVE  InKafka(x)' \/ Ended(x)'
    BY <1>1 DEF NothingIsLost
  <2>1. x \in Message
    BY <1>2, Constants DEF Records
  <2>2. CASE x = m
    BY <2>2, <1>6, <1>9 DEF InKafka
  <2>3. CASE x # m
    BY <2>1, <2>3, <1>4, <1>6 DEF Safe, NothingIsLost, InKafka
  <2> QED BY <2>2, <2>3
<1> QED BY <1>10, <1>11 DEF Safe

LEMMA ForwardSafe ==
    ASSUME TypeInv, Safe, NEW m \in Message, Forward(m) \/ ForwardUnstored(m) \/ ForwardUnseen(m)
    PROVE  Safe'
<1>1. /\ pulsar' = pulsar \/ pulsar' = pulsar \ {m}
      /\ \/ kafka' = [kafka EXCEPT ![m][1] = @ + 1] /\ UNCHANGED vanished
         \/ UNCHANGED kafka /\ vanished' = vanished \cup {m}
      /\ UNCHANGED <<published, listener, deadLetters, quarantined, recorded, burnt>>
  BY DEF Forward, ForwardUnstored, ForwardUnseen, ingest, history
<1>2. TypeInv' /\ KafkaGrew
  BY ForwardTypes
<1>3. kafka' = [kafka EXCEPT ![m][1] = @ + 1] => kafka'[m][1] > 0 /\ 1 \in Level
  BY OneMore, TypeParts, Constants DEF TypeInv, IngestSide
<1>4. \A x \in pulsar \ pulsar' : InKafka(x)' \/ x \in vanished'
  BY <1>1, <1>3 DEF InKafka
<1> QED BY <1>1, <1>2, <1>4, EndsUntouched, SafeAsTopicsGrow

LEMMA IngestSafe ==
    ASSUME TypeInv, Foundation, Safe, Ingest
    PROVE  Safe'
<1>1. TypeInv' /\ SameEvent /\ "posted" # "done"
  BY IngestTypes DEF TypeInv, Hands
<1>2. \A e \in Known : Ended(e)
  BY DEF Known, Ended
<1>3. CASE \E l \in Level, m \in Message : Take(l, m)
  <2>1. PICK l \in Level, m \in Message : Take(l, m)
    BY <1>3
  <2>2. KafkaGrew /\ UNCHANGED <<published, pulsar, vanished>> /\ EndsStay
    BY <2>1, TakeTypes, EndsUntouched DEF Take, history
  <2>3. PICK where : At(l, m, where) /\ (where = "done" => Contains(delivered, m))
    BY <2>1, <1>1 DEF Take
  <2>4. Contains(delivered, m) => m \in Known
    BY ElementOfSeq DEF Contains, Foundation, MemoriesAreTrue
  <2>5. where = "done" => Ended(m)'
    BY <2>2, <2>3, <2>4, <1>2 DEF EndsStay
  <2> QED BY <2>2, <2>3, <2>5, <1>1, SafeStep
<1>4. CASE \E l \in Level, m \in Message : PostRefused(l, m)
  <2>1. PICK l \in Level, m \in Message : PostRefused(l, m)
    BY <1>4
  <2>2. At(l, m, "done") /\ Retry(l, m) /\ UNCHANGED <<published, pulsar, vanished, quarantined>> /\ UNCHANGED history
    BY <2>1 DEF PostRefused, history
  <2> QED BY <2>2, <1>1, RetryEnds, SafeStep
<1>5. CASE \E l \in Level, m \in Message : Quarantine(l, m)
  <2>1. PICK l \in Level, m \in Message : Quarantine(l, m)
    BY <1>5
  <2>2. At(l, m, "done") /\ quarantined' = quarantined \cup {m}
        /\ UNCHANGED <<published, pulsar, vanished, deadLetters, recorded, burnt>>
    BY <2>1 DEF Quarantine, history
  <2>3. KafkaGrew /\ EndsStay /\ Ended(m)'
    BY <2>1, <2>2, QuarantineTypes, EndsUntouched DEF Ended
  <2> QED BY <2>2, <2>3, <1>1, SafeStep
<1>6. CASE \E l \in Level, m \in Message : QuarantineFails(l, m)
  <2>1. PICK l \in Level, m \in Message : QuarantineFails(l, m)
    BY <1>6
  <2>2. At(l, m, "done") /\ Retry(l, m) /\ UNCHANGED <<published, pulsar, vanished>> /\ UNCHANGED history
        /\ quarantined \subseteq quarantined'
    BY <2>1 DEF QuarantineFails, history
  <2> QED BY <2>2, <1>1, RetryEnds, SafeStep
<1>7. CASE \E l \in Level : PostAnswered(l)
  <2>1. PICK l \in Level : PostAnswered(l)
    BY <1>7
  <2>2. PICK m : m = listener[l].of
    OBVIOUS
  <2>3. listener[l].at = "posted" /\ handler[l].at = "replied" /\ At(l, m, "done")
        /\ UNCHANGED <<published, pulsar, vanished, deadLetters, quarantined, recorded, burnt>>
    BY <2>1, <2>2 DEF PostAnswered, history
  <2>4. m \in Message /\ m \in Known
    BY <2>2, <2>3, <1>1, OnlyPostedAwaits, PostedHolds DEF Foundation, MemoriesAreTrue
  <2>5. KafkaGrew /\ EndsStay
    BY <2>1, <2>3, PostAnsweredTypes, EndsUntouched
  <2>6. Ended(m)'
    BY <2>4, <2>5, <1>2 DEF EndsStay
  <2> QED BY <2>3, <2>4, <2>5, <2>6, <1>1, SafeStep
<1>8. CASE \E l \in Level : PostFails(l)
  <2>1. PICK l \in Level : PostFails(l)
    BY <1>8
  <2>2. PICK m : m = listener[l].of
    OBVIOUS
  <2>3. listener[l].at = "posted" /\ At(l, m, "done") /\ Retry(l, m)
        /\ UNCHANGED <<published, pulsar, vanished, quarantined>> /\ UNCHANGED history
    BY <2>1, <2>2 DEF PostFails, history
  <2>4. m \in Message
    BY <2>2, <2>3, PostedHolds
  <2> QED BY <2>3, <2>4, <1>1, RetryEnds, SafeStep
<1>9. CASE \E l \in Level : Commit(l)
  BY <1>9, CommitSafe
<1>10. CASE IngestRestarts
  <2>1. listener' = [l \in Level |-> Idle]
        /\ UNCHANGED <<published, pulsar, vanished, deadLetters, quarantined, recorded, burnt>>
    BY <1>10 DEF IngestRestarts, history
  <2>2. \A l \in Level : listener'[l].at # "done"
    BY <2>1 DEF Idle
  <2>3. KafkaGrew /\ EndsStay
    BY <2>1, <1>10, IngestRestartsTypes, EndsUntouched
  <2> QED BY <2>1, <2>2, <2>3, <1>1, SafeAsTopicsGrow
<1> QED BY <1>3, <1>4, <1>5, <1>6, <1>7, <1>8, <1>9, <1>10 DEF Ingest

LEMMA RecordSafe ==
    ASSUME TypeInv, Foundation, Safe, NEW l \in Level, Record(l) \/ RecordFromMemory(l)
    PROVE  Safe'
<1>1. AfterIngest /\ UNCHANGED burnt
  BY RecordWrites
<1>2. UNCHANGED <<deadLetters, quarantined>>
  BY <1>1 DEF AfterIngest, ingest
<1>3. \A e \in Named : recorded'[e] >= recorded[e]
  BY AnsweredIsKnown
<1>4. HistoryOK /\ HistoryOK'
  BY RecordTypes, TypeParts, TypePartsAfter DEF TypeInv, ServerSide
<1>5. EndsStay
  BY <1>1, <1>2, <1>3, <1>4, EndsAreFinal
<1> QED BY <1>1, <1>5, SafeAfterIngest

LEMMA InitSafe == Init => Safe
BY DEF Init, Safe, DoneIsSafe, NothingIsLost, Idle

LEMMA StepSafe == TypeInv /\ Foundation /\ Safe /\ [Next]_vars => Safe'
<1> SUFFICES ASSUME TypeInv, Foundation, Safe, [Next]_vars
             PROVE  Safe'
  OBVIOUS
<1>1. CASE \E m \in Message : Forward(m) \/ ForwardUnstored(m) \/ ForwardUnseen(m)
  BY <1>1, ForwardSafe
<1>2. CASE Ingest
  BY <1>2, IngestSafe
<1>3. CASE \E l \in Level : Claim(l)
  BY <1>3, EndsUntouched, SafeAfterIngest DEF Claim, AfterIngest, ingest, history
<1>4. CASE \E l \in Level : Record(l) \/ RecordFromMemory(l)
  BY <1>4, RecordSafe
<1>5. CASE \E e \in Named : ClaimExpires(e)
  BY <1>5, EndsUntouched, SafeAfterIngest DEF ClaimExpires, AfterIngest, ingest
<1>6. CASE ServerRestarts
  <2>1. AfterIngest /\ UNCHANGED <<deadLetters, quarantined, recorded>> /\ burnt \subseteq burnt'
    BY <1>6 DEF ServerRestarts, AfterIngest, ingest
  <2>2. EndsStay
    BY <2>1 DEF EndsStay, Ended
  <2> QED BY <2>1, <2>2, SafeAfterIngest
<1>7. CASE Connect \/ Disconnect \/ ReceiveFrame
  <2>1. UNCHANGED <<pulsar, vanished, kafka, ingest, handler, server, history>>
    BY <1>7, BrowserTypes
  <2>2. AfterIngest /\ UNCHANGED <<deadLetters, quarantined, recorded, burnt>>
    BY <2>1 DEF AfterIngest, ingest, history
  <2> QED BY <2>2, EndsUntouched, SafeAfterIngest
<1>8. CASE UNCHANGED vars
  <2>1. AfterIngest /\ UNCHANGED <<deadLetters, quarantined, recorded, burnt>>
    BY <1>8 DEF vars, AfterIngest, ingest, history
  <2> QED BY <2>1, EndsUntouched, SafeAfterIngest
<1> QED BY <1>1, <1>2, <1>3, <1>4, <1>5, <1>6, <1>7, <1>8 DEF Next

\* Once Pulsar has let go of a message, and unless Kafka never stored what the
\* collector wrote, it is in Kafka until it is projected, on a dead letter
\* topic, or claimed by a server that died: a listener that is
\* done with a record is so because the record was passed on, or because what
\* the cache, the map or Redis remember of it is true.
THEOREM PipelineLosesNothing == Spec => []NothingIsLost
<1>1. Safe => NothingIsLost
  BY DEF Safe
<1> QED BY <1>1, InitTypes, StepTypes, InitFoundation, StepFoundation, InitSafe, StepSafe,
           PTL DEF Spec

-----------------------------------------------------------------------------
(* No event is projected twice while Redis serves.                         *)

Once == OneOwner /\ ProjectedOnce

LEMMA OnceBefore ==
    ASSUME Once, BeforeServer
    PROVE  Once'
<1>1. UNCHANGED <<hasRedis, claims, recorded, troubled>>
  BY DEF BeforeServer, server, history
<1>2. \A l \in Level : handler[l].at = "claimed" \/ handler'[l].at = "claimed"
                       => handler'[l] = handler[l]
  BY DEF BeforeServer, ServedAlike, Waiting
<1>3. \A l \in Level, e \in Named : Owns(l, e)' => Owns(l, e)
  <2> SUFFICES ASSUME NEW l \in Level, NEW e \in Named, handler'[l] = [of |-> e, at |-> "claimed"]
               PROVE  handler[l] = [of |-> e, at |-> "claimed"]
    BY DEF Owns
  <2>1. [of |-> e, at |-> "claimed"].at = "claimed"
    OBVIOUS
  <2> QED BY <2>1, <1>2
<1>4. OneOwner'
  BY <1>1, <1>2, <1>3 DEF Once, OneOwner
<1> QED BY <1>1, <1>4 DEF Once, ProjectedOnce

LEMMA ClaimOnce ==
    ASSUME TypeInv, Once, NEW l \in Level, Claim(l)
    PROVE  Once'
<1>1. PICK e : e = handler[l].of
  OBVIOUS
<1>2. PICK where \in Waiting :
        /\ where = IF e \in claims THEN "refused" ELSE "claimed"
        /\ handler' = [handler EXCEPT ![l].at = where]
        /\ handler[l].at = "arrived" /\ claims' = claims \cup {e}
        /\ UNCHANGED <<hasRedis, recorded, troubled>>
  BY <1>1 DEF Claim, Waiting, history
<1>3. handler \in [Level -> Place] /\ HistoryOK
  BY TypeParts DEF TypeInv, Threads, ServerSide
<1>4. /\ handler'[l].of = e /\ handler'[l].at = where
      /\ \A k \in Level \ {l} : handler'[k] = handler[k]
  BY <1>1, <1>2, <1>3 DEF Place
<1>5. e \in Named
  BY <1>1, <1>2 DEF TypeInv, Hands, HandlerFits, Idle
<1>6. CASE troubled
  BY <1>2, <1>6 DEF Once, OneOwner, ProjectedOnce
<1>7. CASE ~troubled
  <2>1. e \notin claims => recorded[e] = 0
    BY <1>3, <1>5, <1>7 DEF Once, OneOwner, HistoryOK
  <2>2. \A k \in Level, x \in Named :
            Owns(k, x)' => (k # l /\ Owns(k, x)) \/ (k = l /\ x = e /\ e \notin claims)
    <3> SUFFICES ASSUME NEW k \in Level, NEW x \in Named, handler'[k] = [of |-> x, at |-> "claimed"]
                 PROVE  \/ k # l /\ handler[k] = [of |-> x, at |-> "claimed"]
                        \/ k = l /\ x = e /\ e \notin claims
      BY DEF Owns
    <3>1. [of |-> x, at |-> "claimed"].at = "claimed" /\ [of |-> x, at |-> "claimed"].of = x
      OBVIOUS
    <3> QED BY <3>1, <1>2, <1>4
  <2>3. \A k \in Level : \A x \in Named : Owns(k, x) => x \in claims
    <3> SUFFICES ASSUME NEW k \in Level, NEW x \in Named, handler[k] = [of |-> x, at |-> "claimed"]
                 PROVE  x \in claims
      BY DEF Owns
    <3>1. [of |-> x, at |-> "claimed"].at = "claimed" /\ [of |-> x, at |-> "claimed"].of = x
      OBVIOUS
    <3>2. handler[k].at = "claimed" /\ handler[k].of = x
      BY <3>1
    <3> QED BY <3>2, <1>7 DEF Once, OneOwner
  <2>4. \A k, j \in Level : \A x \in Named : Owns(k, x)' /\ Owns(j, x)' => k = j
    BY <2>2, <2>3, <1>7 DEF Once, OneOwner
  <2>5. \A k \in Level : handler'[k].at = "claimed" =>
            handler'[k].of \in claims' /\ recorded'[handler'[k].of] = 0
    BY <2>1, <1>2, <1>4, <1>7 DEF Once, OneOwner
  <2>6. OneOwner'
    BY <2>4, <2>5, <1>2, <1>7 DEF Once, OneOwner
  <2> QED BY <2>6, <1>2 DEF Once, ProjectedOnce
<1> QED BY <1>6, <1>7

LEMMA RecordOnce ==
    ASSUME TypeInv, Once, NEW l \in Level, Record(l)
    PROVE  Once'
<1>1. PICK e : e = handler[l].of
  OBVIOUS
<1>2. /\ Answering(l) /\ UNCHANGED <<hasRedis, claims, troubled>>
      /\ IF handler[l].at = "claimed" THEN recordIngestEvent(e) ELSE UNCHANGED recorded
  BY <1>1, RecordWrites DEF Record
<1>3. HistoryOK /\ BufferOK /\ BrowserOK /\ HandlerFits
  BY TypeParts DEF TypeInv, ServerSide, Hands
<1>4. /\ e \in Named /\ \A k \in Level \ {l} : handler'[k] = handler[k]
      /\ handler'[l].at # "claimed"
  BY <1>1, <1>2, AnsweringStep DEF Waiting
<1>5. \A k \in Level, x \in Named : Owns(k, x)' => k # l /\ Owns(k, x)
  <2> SUFFICES ASSUME NEW k \in Level, NEW x \in Named, handler'[k] = [of |-> x, at |-> "claimed"]
               PROVE  k # l /\ handler[k] = [of |-> x, at |-> "claimed"]
    BY DEF Owns
  <2>1. [of |-> x, at |-> "claimed"].at = "claimed"
    OBVIOUS
  <2> QED BY <2>1, <1>4
<1>6. \A k \in Level : handler[k].at = "claimed" =>
          handler[k].of \in Named /\ Owns(k, handler[k].of)
  <2> SUFFICES ASSUME NEW k \in Level, handler[k].at = "claimed"
               PROVE  handler[k].of \in Named /\ handler[k] = [of |-> handler[k].of, at |-> "claimed"]
    BY DEF Owns
  <2>1. handler[k] \in Place
    BY TypeParts DEF TypeInv, Threads
  <2>2. handler[k].of \in Named
    BY <1>3 DEF HandlerFits, Idle
  <2> QED BY <2>1, <2>2 DEF Place
<1>7. CASE troubled
  BY <1>2, <1>7 DEF Once, OneOwner, ProjectedOnce
<1>8. CASE ~troubled /\ handler[l].at = "claimed"
  <2>1. \A x \in Named : recorded'[x] = IF x = e THEN recorded[x] + 1 ELSE recorded[x]
    BY <1>2, <1>3, <1>4, <1>8, RecordingTypes
  <2>2. e \in claims /\ recorded[e] = 0
    BY <1>1, <1>8 DEF Once, OneOwner
  <2>3. Owns(l, e)
    BY <1>1, <1>6, <1>8
  <2>4. \A x \in Named : recorded'[x] > 0 => x \in claims
    BY <2>1, <2>2, <1>8 DEF Once, OneOwner
  <2>5. \A x \in Named : recorded'[x] <= 1
    BY <2>1, <2>2, <1>8 DEF Once, ProjectedOnce
  <2>6. ASSUME NEW k \in Level, handler'[k].at = "claimed"
        PROVE  handler'[k].of \in claims /\ recorded'[handler'[k].of] = 0
    <3>1. k # l /\ handler'[k] = handler[k]
      BY <1>4, <2>6
    <3>2. PICK x \in Named : x = handler[k].of /\ Owns(k, x)
      BY <3>1, <1>6, <2>6
    <3>3. x # e
      BY <3>1, <3>2, <2>3, <1>8, <1>4 DEF Once, OneOwner
    <3>4. x \in claims /\ recorded[x] = 0
      BY <3>1, <3>2, <2>6, <1>8 DEF Once, OneOwner
    <3> QED BY <3>1, <3>2, <3>3, <3>4, <2>1
  <2>7. OneOwner'
    BY <2>4, <2>6, <1>2, <1>5, <1>8 DEF Once, OneOwner
  <2> QED BY <2>5, <2>7 DEF Once, ProjectedOnce
<1>9. CASE ~troubled /\ handler[l].at # "claimed"
  <2>1. UNCHANGED recorded
    BY <1>2, <1>9
  <2>2. OneOwner'
    BY <2>1, <1>2, <1>4, <1>5, <1>9 DEF Once, OneOwner
  <2> QED BY <2>1, <2>2, <1>2 DEF Once, ProjectedOnce
<1> QED BY <1>7, <1>8, <1>9

LEMMA RestOnce ==
    ASSUME Once, UNCHANGED <<hasRedis, claims, handler, recorded, troubled>>
    PROVE  Once'
BY DEF Once, OneOwner, ProjectedOnce, Owns

LEMMA InitOnce == Init => Once
<1> SUFFICES ASSUME Init
             PROVE  Once
  OBVIOUS
<1>1. hasRedis \in BOOLEAN /\ troubled = ~hasRedis /\ recorded = [m \in Named |-> 0]
      /\ handler = [l \in Level |-> Idle]
  BY DEF Init
<1>2. \A l \in Level : \A e : ~Owns(l, e) /\ handler[l].at # "claimed"
  BY <1>1 DEF Owns, Idle
<1>3. ~troubled => hasRedis
  BY <1>1
<1>4. \A e \in Named : recorded[e] = 0
  BY <1>1
<1> QED BY <1>2, <1>3, <1>4 DEF Once, OneOwner, ProjectedOnce

LEMMA StepOnce == TypeInv /\ Once /\ [Next]_vars => Once'
<1> SUFFICES ASSUME TypeInv, Once, [Next]_vars
             PROVE  Once'
  OBVIOUS
<1>1. CASE \E m \in Message : Forward(m) \/ ForwardUnstored(m) \/ ForwardUnseen(m)
  BY <1>1, ForwardWrites, OnceBefore
<1>2. CASE Ingest
  BY <1>2, IngestWrites, OnceBefore
<1>3. CASE \E l \in Level : Claim(l)
  BY <1>3, ClaimOnce
<1>4. CASE \E l \in Level : Record(l)
  BY <1>4, RecordOnce
<1>5. CASE \E l \in Level : RecordFromMemory(l)
  BY <1>5 DEF RecordFromMemory, Once, OneOwner, ProjectedOnce
<1>6. CASE \E e \in Named : ClaimExpires(e)
  BY <1>6 DEF ClaimExpires, Once, OneOwner, ProjectedOnce
<1>7. CASE ServerRestarts
  <2>1. /\ handler' = [l \in Level |-> Idle] /\ hasRedis' \in BOOLEAN
        /\ troubled' = (troubled \/ ~hasRedis') /\ UNCHANGED <<claims, recorded>>
    BY <1>7 DEF ServerRestarts
  <2>2. \A l \in Level : handler'[l].at # "claimed"
    BY <2>1 DEF Idle
  <2>3. \A l \in Level, e \in Named : ~Owns(l, e)'
    BY <2>1 DEF Owns, Idle
  <2>4. ~troubled' => ~troubled /\ hasRedis'
    BY <2>1
  <2> QED BY <2>1, <2>2, <2>3, <2>4 DEF Once, OneOwner, ProjectedOnce
<1>8. CASE Connect \/ Disconnect \/ ReceiveFrame
  BY <1>8, BrowserTypes, RestOnce DEF server, history
<1>9. CASE UNCHANGED vars
  BY <1>9, RestOnce DEF vars, server, history
<1> QED BY <1>1, <1>2, <1>3, <1>4, <1>5, <1>6, <1>7, <1>8, <1>9 DEF Next

\* As long as Redis answers and keeps its claims no event is projected twice,
\* whatever java-ingest retries, repeats and forgets, however late an answer
\* is and however often either program restarts.
THEOREM PipelineProjectsOnce == Spec => []ProjectedOnce
<1>1. Once => ProjectedOnce
  BY DEF Once
<1> QED BY <1>1, InitTypes, StepTypes, InitOnce, StepOnce, PTL DEF Spec

-----------------------------------------------------------------------------
(* What the panel shows.  The tape is the longer of the stream and the     *)
(* buffer: the events in the order of their projection, up to the last.    *)
(* The list begins with the tape's first events, the latest of them on     *)
(* top, and holds none of its other events; what the browser has read of   *)
(* the tape is among those.                                                *)

Distinct(tape) == \A i, j \in 1..Len(tape) : tape[i] = tape[j] => i = j

\* The list begins with the first k events of the tape, newest first.
Lined(tape, k, list) ==
    /\ k <= Len(tape) /\ k <= Len(list)
    /\ \A i \in 1..k : list[i] = tape[k + 1 - i]
    /\ \A i \in (k + 1)..Len(list), j \in 1..Len(tape) : list[i] # tape[j]

\* One sequence is the end of another.
Ends(end, tape) ==
    /\ Len(end) <= Len(tape)
    /\ \A i \in 1..Len(end) : end[i] = tape[i + (Len(tape) - Len(end))]

\* A tape that loses its first events keeps the list's place.
LEMMA LinedSuffix ==
    ASSUME NEW S, NEW tape \in Seq(S), NEW end \in Seq(S), NEW list \in Seq(S), NEW k \in Nat,
           Distinct(tape), Lined(tape, k, list), Ends(end, tape)
    PROVE  /\ Distinct(end)
           /\ k >= Len(tape) - Len(end) => Lined(end, k - (Len(tape) - Len(end)), list)
           /\ k < Len(tape) - Len(end) => Lined(end, 0, list)
<1>0. Len(tape) \in Nat /\ Len(end) \in Nat /\ Len(list) \in Nat
  BY LenProperties
<1>1. PICK d \in Nat : d = Len(tape) - Len(end)
  <2>1. Len(tape) - Len(end) \in Nat
    BY <1>0 DEF Ends
  <2> QED BY <2>1
<1>2. \A i \in 1..Len(end) : i + d \in 1..Len(tape) /\ end[i] = tape[i + d]
  BY <1>0, <1>1 DEF Ends
<1>3. Distinct(end)
  <2> SUFFICES ASSUME NEW i \in 1..Len(end), NEW j \in 1..Len(end), end[i] = end[j]
               PROVE  i = j
    BY DEF Distinct
  <2>1. i + d = j + d
    BY <1>2 DEF Distinct
  <2> QED BY <1>0, <2>1
<1>4. ASSUME k >= d
      PROVE  Lined(end, k - d, list)
  <2>1. k - d \in Nat /\ k - d <= Len(end) /\ k - d <= Len(list)
    BY <1>0, <1>1, <1>4 DEF Lined
  <2>2. ASSUME NEW i \in 1..(k - d)
        PROVE  list[i] = end[(k - d) + 1 - i]
    <3>1. i \in 1..k /\ (k - d) + 1 - i \in 1..Len(end) /\ (k - d) + 1 - i + d = k + 1 - i
      BY <1>0, <2>1
    <3>2. list[i] = tape[k + 1 - i]
      BY <3>1 DEF Lined
    <3> QED BY <1>2, <3>1, <3>2
  <2>3. ASSUME NEW i \in ((k - d) + 1)..Len(list), NEW j \in 1..Len(end)
        PROVE  list[i] # end[j]
    <3>1. j + d \in 1..Len(tape) /\ end[j] = tape[j + d]
      BY <1>2
    <3>2. CASE i > k
      <4>1. i \in (k + 1)..Len(list)
        BY <1>0, <2>1, <3>2
      <4> QED BY <3>1, <4>1 DEF Lined
    <3>3. CASE i <= k
      <4>1. i \in 1..k /\ k + 1 - i \in 1..Len(tape) /\ k + 1 - i # j + d
        BY <1>0, <2>1, <3>3 DEF Lined
      <4>2. list[i] = tape[k + 1 - i]
        BY <4>1 DEF Lined
      <4> QED BY <3>1, <4>1, <4>2 DEF Distinct
    <3> QED BY <1>0, <2>1, <3>2, <3>3
  <2> QED BY <2>1, <2>2, <2>3 DEF Lined
<1>5. ASSUME k < d
      PROVE  Lined(end, 0, list)
  <2>1. ASSUME NEW i \in 1..Len(list), NEW j \in 1..Len(end)
        PROVE  list[i] # end[j]
    <3>1. j + d \in 1..Len(tape) /\ end[j] = tape[j + d]
      BY <1>2
    <3>2. CASE i > k
      <4>1. i \in (k + 1)..Len(list)
        BY <1>0, <3>2
      <4> QED BY <3>1, <4>1 DEF Lined
    <3>3. CASE i <= k
      <4>1. i \in 1..k /\ k + 1 - i \in 1..Len(tape) /\ k + 1 - i # j + d
        BY <1>0, <1>5, <3>3 DEF Lined
      <4>2. list[i] = tape[k + 1 - i]
        BY <4>1 DEF Lined
      <4> QED BY <3>1, <4>1, <4>2 DEF Distinct
    <3> QED BY <1>0, <3>2, <3>3
  <2> QED BY <1>0, <2>1 DEF Lined
<1> QED BY <1>1, <1>3, <1>4, <1>5

\* An event that is new to both goes to the end of the tape.
LEMMA LinedAppend ==
    ASSUME NEW S, NEW tape \in Seq(S), NEW list \in Seq(S), NEW k \in Nat, NEW e \in S,
           Distinct(tape), Lined(tape, k, list),
           \A i \in 1..Len(tape) : tape[i] # e, \A i \in 1..Len(list) : list[i] # e
    PROVE  Distinct(Append(tape, e)) /\ Lined(Append(tape, e), k, list)
<1> DEFINE more == Append(tape, e)
<1>0. Len(tape) \in Nat /\ Len(list) \in Nat
  BY LenProperties
<1>1. /\ Len(more) = Len(tape) + 1 /\ more[Len(tape) + 1] = e
      /\ \A i \in 1..Len(tape) : more[i] = tape[i]
  BY AppendProperties
<1> HIDE DEF more
<1>2. \A i \in 1..Len(more) : i \in 1..Len(tape) \/ i = Len(tape) + 1
  BY <1>0, <1>1
<1>3. Distinct(more)
  BY <1>1, <1>2 DEF Distinct
<1>4. k <= Len(more) /\ \A i \in 1..k : k + 1 - i \in 1..Len(tape)
  BY <1>0, <1>1 DEF Lined
<1>5. \A i \in 1..k : list[i] = more[k + 1 - i]
  BY <1>1, <1>4 DEF Lined
<1>6. \A i \in (k + 1)..Len(list) : i \in 1..Len(list)
  BY <1>0
<1>7. \A i \in (k + 1)..Len(list), j \in 1..Len(more) : list[i] # more[j]
  BY <1>1, <1>2, <1>6 DEF Lined
<1> QED BY <1>3, <1>4, <1>5, <1>7 DEF Lined, more

\* What the browser's list is after it accepted an event.
LEMMA AcceptedList ==
    ASSUME NEW S, NEW list \in Seq(S), NEW e \in S, Len(list) <= Window, Window \in Nat \ {0}
    PROVE  LET next == FirstOf(<<e>> \o list)
           IN  /\ Len(next) \in {Len(list), Len(list) + 1}
               /\ Len(list) < Window => Len(next) = Len(list) + 1
               /\ 0 < Len(next) /\ next[1] = e
               /\ \A i \in 2..Len(next) : next[i] = list[i - 1]
<1> DEFINE long == <<e>> \o list
           next == FirstOf(long)
<1>0. Len(list) \in Nat
  BY LenProperties
<1>1. <<e>> \in Seq(S) /\ Len(<<e>>) = 1 /\ <<e>>[1] = e
  OBVIOUS
<1>2. /\ long \in Seq(S) /\ Len(long) = Len(list) + 1
      /\ \A i \in 1..(Len(list) + 1) : long[i] = IF i <= 1 THEN <<e>>[i] ELSE list[i - 1]
  BY <1>1, ConcatProperties
<1> HIDE DEF long
<1>3. long[1] = e /\ \A i \in 2..(Len(list) + 1) : long[i] = list[i - 1]
  BY <1>0, <1>1, <1>2
<1>4. CASE Len(list) < Window
  <2>1. next = long
    BY <1>0, <1>2, <1>4 DEF FirstOf
  <2> QED BY <1>0, <1>2, <1>3, <1>4, <2>1 DEF long
<1>5. CASE Len(list) = Window
  <2>1. next = SubSeq(long, 1, Window)
    BY <1>0, <1>2, <1>5 DEF FirstOf
  <2>2. \A i \in 1..Window : long[i] \in S
    BY <1>0, <1>2, <1>5, ElementOfSeq
  <2>3. Len(next) = Window /\ \A i \in 1..Window : next[i] = long[i]
    <3>1. /\ Len(SubSeq(long, 1, Window)) = Window
          /\ \A i \in 1..(Window - 1 + 1) : SubSeq(long, 1, Window)[i] = long[1 + i - 1]
      BY <2>2, SubSeqProperties
    <3>2. Window - 1 + 1 = Window /\ \A i \in 1..Window : 1 + i - 1 = i
      OBVIOUS
    <3> QED BY <2>1, <3>1, <3>2
  <2> HIDE DEF next
  <2>4. next[1] = e /\ \A i \in 2..Window : next[i] = list[i - 1]
    BY <1>0, <1>3, <1>5, <2>3
  <2> QED BY <1>0, <1>5, <2>3, <2>4 DEF next, long
<1> QED BY <1>0, <1>4, <1>5

\* The next event of the tape is put on top.
LEMMA LinedAccept ==
    ASSUME NEW S, NEW tape \in Seq(S), NEW list \in Seq(S), NEW k \in Nat, Distinct(tape),
           Lined(tape, k, list), k < Len(tape), Len(tape) <= Window, Len(list) <= Window,
           Window \in Nat \ {0}
    PROVE  Lined(tape, k + 1, FirstOf(<<tape[k + 1]>> \o list))
<1>0. Len(tape) \in Nat /\ Len(list) \in Nat
  BY LenProperties
<1>1. PICK e \in S : e = tape[k + 1]
  <2>1. k + 1 \in 1..Len(tape)
    BY <1>0
  <2> QED BY <2>1, ElementOfSeq
<1>2. PICK next : next = FirstOf(<<e>> \o list)
  OBVIOUS
<1>3. /\ Len(next) \in {Len(list), Len(list) + 1}
      /\ Len(list) < Window => Len(next) = Len(list) + 1
      /\ next[1] = e
      /\ \A i \in 2..Len(next) : next[i] = list[i - 1]
  BY <1>1, <1>2, AcceptedList
<1>4. k <= Len(list) /\ k + 1 <= Len(next) /\ k + 1 <= Len(tape)
  BY <1>0, <1>3 DEF Lined
<1>5. ASSUME NEW i \in 1..(k + 1)
      PROVE  next[i] = tape[(k + 1) + 1 - i]
  <2>1. CASE i = 1
    <3>1. (k + 1) + 1 - 1 = k + 1
      OBVIOUS
    <3> QED BY <1>1, <1>3, <2>1, <3>1
  <2>2. CASE i # 1
    <3>1. i - 1 \in 1..k /\ k + 1 - (i - 1) = (k + 1) + 1 - i
      BY <2>2
    <3>2. i \in 2..Len(next)
      BY <1>0, <1>3, <1>4, <2>2
    <3> QED BY <1>3, <3>1, <3>2 DEF Lined
  <2> QED BY <2>1, <2>2
<1>6. ASSUME NEW i \in ((k + 1) + 1)..Len(next), NEW j \in 1..Len(tape)
      PROVE  next[i] # tape[j]
  <2>1. i \in 2..Len(next) /\ i - 1 \in (k + 1)..Len(list)
    BY <1>0, <1>3
  <2> QED BY <1>3, <2>1 DEF Lined
<1> QED BY <1>1, <1>2, <1>4, <1>5, <1>6 DEF Lined

\* An event from before the tape, too.
LEMMA LinedForeign ==
    ASSUME NEW S, NEW tape \in Seq(S), NEW list \in Seq(S), NEW e \in S,
           Lined(tape, 0, list), \A j \in 1..Len(tape) : tape[j] # e,
           Len(list) <= Window, Window \in Nat \ {0}
    PROVE  Lined(tape, 0, FirstOf(<<e>> \o list))
<1>0. Len(tape) \in Nat /\ Len(list) \in Nat
  BY LenProperties
<1>2. PICK next : next = FirstOf(<<e>> \o list)
  OBVIOUS
<1>3. /\ Len(next) \in {Len(list), Len(list) + 1} /\ next[1] = e
      /\ \A i \in 2..Len(next) : next[i] = list[i - 1]
  BY <1>2, AcceptedList
<1>4. ASSUME NEW i \in 1..Len(next), NEW j \in 1..Len(tape)
      PROVE  next[i] # tape[j]
  <2>1. CASE i = 1
    BY <1>3, <2>1
  <2>2. CASE i # 1
    <3>1. i \in 2..Len(next) /\ i - 1 \in 1..Len(list)
      BY <1>0, <1>3, <2>2
    <3> QED BY <1>3, <3>1 DEF Lined
  <2> QED BY <2>1, <2>2
<1> QED BY <1>0, <1>2, <1>3, <1>4 DEF Lined

LEMMA EndsTransitive ==
    ASSUME NEW S, NEW a \in Seq(S), NEW b \in Seq(S), NEW c \in Seq(S), Ends(a, b), Ends(b, c)
    PROVE  Ends(a, c)
<1>0. Len(a) \in Nat /\ Len(b) \in Nat /\ Len(c) \in Nat
  BY LenProperties
<1>1. Len(a) <= Len(c)
  BY <1>0 DEF Ends
<1>2. ASSUME NEW i \in 1..Len(a)
      PROVE  a[i] = c[i + (Len(c) - Len(a))]
  <2>1. /\ i + (Len(b) - Len(a)) \in 1..Len(b)
        /\ (i + (Len(b) - Len(a))) + (Len(c) - Len(b)) = i + (Len(c) - Len(a))
    BY <1>0 DEF Ends
  <2>2. a[i] = b[i + (Len(b) - Len(a))]
    BY DEF Ends
  <2>3. b[i + (Len(b) - Len(a))] = c[(i + (Len(b) - Len(a))) + (Len(c) - Len(b))]
    BY <2>1 DEF Ends
  <2> QED BY <2>1, <2>2, <2>3
<1> QED BY <1>1, <1>2 DEF Ends

\* Of two ends of one sequence the shorter is the end of the longer.
LEMMA EndsNest ==
    ASSUME NEW S, NEW a \in Seq(S), NEW b \in Seq(S), NEW c \in Seq(S), Ends(a, c), Ends(b, c),
           Len(a) <= Len(b)
    PROVE  Ends(a, b)
<1>0. Len(a) \in Nat /\ Len(b) \in Nat /\ Len(c) \in Nat
  BY LenProperties
<1>1. ASSUME NEW i \in 1..Len(a)
      PROVE  a[i] = b[i + (Len(b) - Len(a))]
  <2>1. /\ i + (Len(b) - Len(a)) \in 1..Len(b)
        /\ (i + (Len(b) - Len(a))) + (Len(c) - Len(b)) = i + (Len(c) - Len(a))
    BY <1>0
  <2>2. a[i] = c[i + (Len(c) - Len(a))]
    BY DEF Ends
  <2>3. b[i + (Len(b) - Len(a))] = c[(i + (Len(b) - Len(a))) + (Len(c) - Len(b))]
    BY <2>1 DEF Ends
  <2> QED BY <2>1, <2>2, <2>3
<1> QED BY <1>1 DEF Ends

LEMMA EndsAppend ==
    ASSUME NEW S, NEW a \in Seq(S), NEW b \in Seq(S), NEW e \in S, Ends(a, b)
    PROVE  Ends(Append(a, e), Append(b, e))
<1>0. Len(a) \in Nat /\ Len(b) \in Nat
  BY LenProperties
<1>1. PICK p : p = Append(a, e)
  OBVIOUS
<1>2. PICK q : q = Append(b, e)
  OBVIOUS
<1>3. /\ Len(p) = Len(a) + 1 /\ p[Len(a) + 1] = e /\ \A i \in 1..Len(a) : p[i] = a[i]
      /\ Len(q) = Len(b) + 1 /\ q[Len(b) + 1] = e /\ \A i \in 1..Len(b) : q[i] = b[i]
  BY <1>1, <1>2, AppendProperties
<1>4. ASSUME NEW i \in 1..Len(p)
      PROVE  p[i] = q[i + (Len(q) - Len(p))]
  <2>1. Len(q) - Len(p) = Len(b) - Len(a)
    BY <1>0, <1>3
  <2>2. CASE i = Len(a) + 1
    <3>1. i + (Len(b) - Len(a)) = Len(b) + 1
      BY <1>0, <2>2
    <3> QED BY <1>3, <2>1, <2>2, <3>1
  <2>3. CASE i # Len(a) + 1
    <3>1. i \in 1..Len(a) /\ i + (Len(b) - Len(a)) \in 1..Len(b)
      BY <1>0, <1>3, <2>3 DEF Ends
    <3>2. a[i] = b[i + (Len(b) - Len(a))]
      BY <3>1 DEF Ends
    <3> QED BY <1>3, <2>1, <3>1, <3>2
  <2> QED BY <2>2, <2>3
<1>5. Len(p) <= Len(q)
  BY <1>0, <1>3 DEF Ends
<1> QED BY <1>1, <1>2, <1>4, <1>5 DEF Ends

LEMMA TailEnds ==
    ASSUME NEW S, NEW s \in Seq(S), s # <<>>
    PROVE  Tail(s) \in Seq(S) /\ Len(Tail(s)) = Len(s) - 1 /\ Ends(Tail(s), s)
<1>1. PICK t : t = Tail(s)
  OBVIOUS
<1>2. /\ t \in Seq(S) /\ Len(t) = Len(s) - 1 /\ Len(s) \in Nat
      /\ \A i \in 1..Len(t) : t[i] = s[i + 1]
  BY <1>1, HeadTailProperties, LenProperties
<1>3. Len(s) - Len(t) = 1 /\ Len(t) <= Len(s)
  BY <1>2
<1> QED BY <1>1, <1>2, <1>3 DEF Ends

LEMMA EndsSelf ==
    ASSUME NEW S, NEW s \in Seq(S)
    PROVE  Ends(s, s)
<1>1. Len(s) \in Nat
  BY LenProperties
<1>2. \A i \in 1..Len(s) : i + (Len(s) - Len(s)) = i
  BY <1>1
<1> QED BY <1>1, <1>2 DEF Ends

\* The list has its place on a tape of which the browser has read so many.
Follows(tape, list, read) ==
    Distinct(tape) /\ \E k \in Nat : read <= k /\ Lined(tape, k, list)

LEMMA FollowsEnd ==
    ASSUME NEW S, NEW tape \in Seq(S), NEW end \in Seq(S), NEW list \in Seq(S), NEW read \in Nat,
           Follows(tape, list, read), Ends(end, tape)
    PROVE  /\ Follows(end, list, 0)
           /\ read >= Len(tape) - Len(end) => Follows(end, list, read - (Len(tape) - Len(end)))
<1>0. Len(tape) \in Nat /\ Len(end) \in Nat /\ Len(end) <= Len(tape)
  BY LenProperties DEF Ends
<1>1. PICK k \in Nat : read <= k /\ Lined(tape, k, list)
  BY DEF Follows
<1>2. PICK d \in Nat : d = Len(tape) - Len(end)
  <2>1. Len(tape) - Len(end) \in Nat
    BY <1>0
  <2> QED BY <2>1
<1>3. /\ Distinct(end)
      /\ k >= d => Lined(end, k - d, list)
      /\ k < d => Lined(end, 0, list)
  BY <1>1, <1>2, LinedSuffix DEF Follows
<1>4. CASE k >= d
  <2>1. k - d \in Nat /\ 0 <= k - d /\ read - d <= k - d
    BY <1>1, <1>4
  <2> QED BY <1>2, <1>3, <1>4, <2>1 DEF Follows
<1>5. CASE k < d
  <2>1. ~(read >= d) /\ 0 <= 0
    BY <1>1, <1>5
  <2> QED BY <1>2, <1>3, <1>5, <2>1 DEF Follows
<1> QED BY <1>4, <1>5

LEMMA FollowsAppend ==
    ASSUME NEW S, NEW tape \in Seq(S), NEW list \in Seq(S), NEW read \in Nat, NEW e \in S,
           Follows(tape, list, read), \A i \in 1..Len(tape) : tape[i] # e,
           \A i \in 1..Len(list) : list[i] # e
    PROVE  Follows(Append(tape, e), list, read)
<1>1. PICK k \in Nat : read <= k /\ Lined(tape, k, list)
  BY DEF Follows
<1>2. Distinct(Append(tape, e)) /\ Lined(Append(tape, e), k, list)
  BY <1>1, LinedAppend DEF Follows
<1> QED BY <1>1, <1>2 DEF Follows

\* What the browser does with a frame whose payload carries its id.
Taken(list, e) == IF Contains(list, e) THEN list ELSE FirstOf(<<e>> \o list)

\* The browser reads what the buffer still has.
LEMMA FollowsRead ==
    ASSUME NEW S, NEW tape \in Seq(S), NEW list \in Seq(S), NEW read \in Nat,
           Follows(tape, list, read), read < Len(tape), Len(tape) <= Window,
           Len(list) <= Window, Window \in Nat \ {0}
    PROVE  Follows(tape, Taken(list, tape[read + 1]), read + 1)
<1>0. Len(tape) \in Nat /\ Len(list) \in Nat /\ read + 1 \in 1..Len(tape)
  BY LenProperties
<1>1. PICK k \in Nat : read <= k /\ Lined(tape, k, list)
  BY DEF Follows
<1>2. CASE k = read
  <2>1. ASSUME NEW i \in 1..Len(list)
        PROVE  list[i] # tape[read + 1]
    <3>1. CASE i \in 1..k
      <4>1. k + 1 - i \in 1..Len(tape) /\ k + 1 - i # read + 1
        BY <1>0, <1>2, <3>1
      <4>2. list[i] = tape[k + 1 - i]
        BY <1>1, <3>1 DEF Lined
      <4> QED BY <1>0, <4>1, <4>2 DEF Follows, Distinct
    <3>2. CASE i \in (k + 1)..Len(list)
      BY <1>0, <1>1, <3>2 DEF Lined
    <3> QED BY <1>0, <3>1, <3>2
  <2>2. Taken(list, tape[read + 1]) = FirstOf(<<tape[k + 1]>> \o list)
    BY <1>2, <2>1 DEF Taken, Contains
  <2>3. Lined(tape, k + 1, FirstOf(<<tape[k + 1]>> \o list))
    BY <1>0, <1>1, <1>2, LinedAccept DEF Follows
  <2>4. k + 1 \in Nat /\ read + 1 <= k + 1
    BY <1>1
  <2> QED BY <2>2, <2>3, <2>4 DEF Follows
<1>3. CASE k # read
  <2>1. read + 1 <= k /\ k - read \in 1..k /\ k + 1 - (k - read) = read + 1
    BY <1>1, <1>3
  <2>2. list[k - read] = tape[read + 1] /\ k - read \in 1..Len(list)
    <3>1. k <= Len(list) /\ list[k - read] = tape[k + 1 - (k - read)]
      BY <1>1, <2>1 DEF Lined
    <3> QED BY <1>0, <2>1, <3>1
  <2>3. Taken(list, tape[read + 1]) = list
    BY <2>2 DEF Taken, Contains
  <2> QED BY <1>1, <2>1, <2>3 DEF Follows
<1> QED BY <1>2, <1>3

\* A slow browser reads what the buffer no longer has.
LEMMA FollowsLate ==
    ASSUME NEW S, NEW tape \in Seq(S), NEW list \in Seq(S), tape # <<>>,
           Follows(tape, list, 0), Len(list) <= Window, Window \in Nat \ {0}
    PROVE  Follows(Tail(tape), Taken(list, tape[1]), 0)
<1>0. Len(tape) \in Nat \ {0} /\ Len(list) \in Nat /\ 1 \in 1..Len(tape)
  <2>1. Len(tape) \in Nat \ {0} /\ Len(list) \in Nat
    BY LenProperties, EmptySeq
  <2> QED BY <2>1
<1>1. PICK k \in Nat : Lined(tape, k, list)
  BY DEF Follows
<1>2. PICK rest \in Seq(S) : rest = Tail(tape)
  <2>1. Tail(tape) \in Seq(S)
    BY TailEnds
  <2> QED BY <2>1
<1>3. Ends(rest, tape) /\ Len(tape) - Len(rest) = 1 /\ \A i \in 1..Len(rest) : rest[i] = tape[i + 1]
  <2>1. Ends(rest, tape) /\ Len(rest) = Len(tape) - 1
    BY <1>2, TailEnds
  <2>2. \A i \in 1..Len(rest) : rest[i] = tape[i + 1]
    BY <1>2, HeadTailProperties
  <2> QED BY <1>0, <2>1, <2>2
<1>4. /\ Distinct(rest)
      /\ k >= 1 => Lined(rest, k - 1, list)
      /\ k < 1 => Lined(rest, 0, list)
  BY <1>1, <1>2, <1>3, LinedSuffix DEF Follows
<1>5. CASE k = 0
  <2>1. \A i \in 1..Len(list) : list[i] # tape[1]
    BY <1>0, <1>1, <1>5 DEF Lined
  <2>2. Taken(list, tape[1]) = FirstOf(<<tape[1]>> \o list)
    BY <2>1 DEF Taken, Contains
  <2>3. \A j \in 1..Len(rest) : rest[j] # tape[1]
    <3> TAKE j \in 1..Len(rest)
    <3>1. j + 1 \in 1..Len(tape) /\ j + 1 # 1
      BY <1>0, <1>3
    <3> QED BY <1>0, <1>3, <3>1 DEF Follows, Distinct
  <2>4. tape[1] \in S
    BY <1>0, ElementOfSeq
  <2>5. PICK e \in S : e = tape[1]
    BY <2>4
  <2>6. Lined(rest, 0, list)
    BY <1>4, <1>5
  <2>7. Lined(rest, 0, FirstOf(<<e>> \o list))
    BY <1>2, <2>3, <2>5, <2>6, LinedForeign
  <2> QED BY <1>2, <1>4, <2>2, <2>5, <2>7 DEF Follows
<1>6. CASE k # 0
  <2>1. list[k] = tape[1] /\ k \in 1..Len(list)
    <3>1. k \in 1..k /\ k + 1 - k = 1 /\ k <= Len(list)
      BY <1>1, <1>6 DEF Lined
    <3> QED BY <1>0, <1>1, <3>1 DEF Lined
  <2>2. Taken(list, tape[1]) = list
    BY <2>1 DEF Taken, Contains
  <2>3. k - 1 \in Nat /\ 0 <= k - 1 /\ Lined(rest, k - 1, list)
    BY <1>4, <1>6
  <2> QED BY <1>2, <1>4, <2>2, <2>3 DEF Follows
<1> QED BY <1>5, <1>6

-----------------------------------------------------------------------------
(* The panel's invariant, and what the steps of the server and of the      *)
(* browser do to it.                                                       *)

Projected == {e \in Named : recorded[e] > 0}

\* What is on its way to the panel has been projected.
Sighted ==
    /\ buffer \in Seq(Projected) /\ shown \in Seq(Projected)
    /\ stream = Nothing \/ stream \in Seq(Projected)

\* The stream ends with the buffer, or the buffer with the stream, and the list
\* follows the longer of the two.
Aligned ==
    IF stream = Nothing THEN Follows(buffer, shown, 0)
    ELSE \/ Ends(stream, buffer) /\ Follows(buffer, shown, Len(buffer) - Len(stream))
         \/ Ends(buffer, stream) /\ Follows(stream, shown, 0)

Smooth == ~troubled /\ \A r \in Raw : recorded[r] = 0

Panel == Sighted /\ (Smooth => Aligned)

\* A connection is a sequence, which Nothing is not.
LEMMA Connected ==
    ASSUME Sighted
    PROVE  /\ buffer \in Seq(Named) /\ shown \in Seq(Named)
           /\ stream # Nothing => stream \in Seq(Named)
           /\ \A s \in Seq(Named) : s # Nothing
<1>1. Projected \subseteq Named
  BY DEF Projected
<1> QED BY <1>1, SeqMonotonic, PipelineAssumption DEF Sighted

\* What the buffer keeps is the end of what it had and the new event.
LEMMA PushedEnds ==
    ASSUME NEW e \in Named, buffer \in Seq(Named)
    PROVE  Pushed(e) \in Seq(Named) /\ Ends(Pushed(e), Append(buffer, e))
<1>1. PICK a \in Seq(Named) : a = Append(buffer, e) /\ a # <<>>
  <2>1. Append(buffer, e) \in Seq(Named) /\ Append(buffer, e) # <<>>
    BY AppendProperties
  <2> QED BY <2>1
<1>2. Pushed(e) \in {a, Tail(a)}
  BY <1>1 DEF Pushed
<1>3. Ends(a, a) /\ Tail(a) \in Seq(Named) /\ Ends(Tail(a), a)
  BY <1>1, EndsSelf, TailEnds
<1> QED BY <1>1, <1>2, <1>3

\* Some of a list's facts are of its elements.
LEMMA NotAmong ==
    ASSUME NEW s \in Seq(Projected), NEW e \in Named, e \notin Projected
    PROVE  \A i \in 1..Len(s) : s[i] # e
BY ElementOfSeq

LEMMA RecordedAligned ==
    ASSUME Sighted, Aligned, NEW e \in Named, e \notin Projected, recordIngestEvent(e),
           UNCHANGED shown
    PROVE  Aligned'
<1>1. PICK b \in Seq(Named) : b = buffer /\ \A i \in 1..Len(b) : b[i] # e
  BY Connected, NotAmong DEF Sighted
<1>2. PICK t \in Seq(Named) : t = shown /\ \A i \in 1..Len(t) : t[i] # e
  BY Connected, NotAmong DEF Sighted
<1>3. PICK p \in Seq(Named) : p = Pushed(e) /\ Ends(p, Append(b, e))
  <2>1. Pushed(e) \in Seq(Named) /\ Ends(Pushed(e), Append(b, e))
    BY <1>1, PushedEnds
  <2> QED BY <2>1
<1>4. buffer' = p /\ shown' = t
      /\ stream' = IF stream = Nothing THEN Nothing ELSE Append(stream, e)
  BY <1>2, <1>3 DEF recordIngestEvent
<1>5. PICK a \in Seq(Named) : a = Append(b, e)
  <2>1. Append(b, e) \in Seq(Named)
    BY <1>1, AppendProperties
  <2> QED BY <2>1
<1>6. Len(a) \in Nat /\ Len(b) \in Nat /\ Len(p) \in Nat /\ Len(a) = Len(b) + 1 /\ Ends(p, a)
  BY <1>1, <1>3, <1>5, LenProperties, AppendProperties
<1>7. CASE stream = Nothing
  <2>1. Follows(b, t, 0)
    BY <1>1, <1>2, <1>7 DEF Aligned
  <2>2. Follows(a, t, 0)
    BY <1>1, <1>2, <1>5, <2>1, FollowsAppend
  <2>3. Follows(p, t, 0)
    BY <1>2, <1>3, <1>5, <1>6, <2>2, FollowsEnd
  <2>4. stream' = Nothing
    BY <1>4, <1>7
  <2> QED BY <1>4, <2>3, <2>4 DEF Aligned
<1>8. CASE stream # Nothing
  <2>1. PICK r \in Seq(Named) : r = stream /\ \A i \in 1..Len(r) : r[i] # e
    BY <1>8, Connected, NotAmong DEF Sighted
  <2>2. PICK q \in Seq(Named) : q = Append(r, e)
    <3>1. Append(r, e) \in Seq(Named)
      BY <2>1, AppendProperties
    <3> QED BY <3>1
  <2>3. Len(q) \in Nat /\ Len(r) \in Nat /\ Len(q) = Len(r) + 1
    BY <2>1, <2>2, LenProperties, AppendProperties
  <2>4. stream' = q /\ q # Nothing
    BY <1>4, <1>8, <2>1, <2>2, Connected
  <2>5. SUFFICES \/ Ends(q, p) /\ Follows(p, t, Len(p) - Len(q))
                 \/ Ends(p, q) /\ Follows(q, t, 0)
    BY <1>4, <2>4 DEF Aligned
  <2>6. CASE Ends(r, b) /\ Follows(b, t, Len(b) - Len(r))
    <3>1. PICK n \in Nat : n = Len(b) - Len(r)
      <4>1. Len(b) - Len(r) \in Nat
        BY <1>6, <2>3, <2>6 DEF Ends
      <4> QED BY <4>1
    <3>2. Follows(a, t, n)
      BY <1>1, <1>2, <1>5, <2>6, <3>1, FollowsAppend
    <3>3. Ends(q, a)
      BY <1>1, <1>5, <2>1, <2>2, <2>6, EndsAppend
    <3>4. n = Len(a) - Len(q)
      BY <1>6, <2>3, <3>1
    <3>5. CASE Len(q) <= Len(p)
      <4>1. Ends(q, p)
        BY <1>3, <1>5, <1>6, <2>2, <3>3, <3>5, EndsNest
      <4>2. n >= Len(a) - Len(p) /\ n - (Len(a) - Len(p)) = Len(p) - Len(q)
        BY <1>6, <2>3, <3>4, <3>5
      <4>3. Follows(p, t, n - (Len(a) - Len(p)))
        BY <1>2, <1>3, <1>5, <1>6, <3>1, <3>2, <4>2, FollowsEnd
      <4> QED BY <4>1, <4>2, <4>3
    <3>6. CASE ~(Len(q) <= Len(p))
      <4>1. Ends(p, q)
        <5>1. Len(p) <= Len(q)
          BY <1>6, <2>3, <3>6
        <5> QED BY <1>3, <1>5, <1>6, <2>2, <3>3, <5>1, EndsNest
      <4>2. Follows(q, t, 0)
        BY <1>2, <1>5, <2>2, <3>1, <3>2, <3>3, FollowsEnd
      <4> QED BY <4>1, <4>2
    <3> QED BY <3>5, <3>6
  <2>7. CASE Ends(b, r) /\ Follows(r, t, 0)
    <3>1. Follows(q, t, 0)
      BY <1>2, <2>1, <2>2, <2>7, FollowsAppend
    <3>2. Ends(a, q)
      BY <1>1, <1>5, <2>1, <2>2, <2>7, EndsAppend
    <3>3. Ends(p, q)
      BY <1>3, <1>5, <1>6, <2>2, <3>2, EndsTransitive
    <3> QED BY <3>1, <3>3
  <2>8. \/ Ends(r, b) /\ Follows(b, t, Len(b) - Len(r))
        \/ Ends(b, r) /\ Follows(r, t, 0)
    BY <1>1, <1>2, <1>8, <2>1 DEF Aligned
  <2> QED BY <2>6, <2>7, <2>8
<1> QED BY <1>7, <1>8

\* The browser reads a frame.
LEMMA ReadAligned ==
    ASSUME Sighted, Aligned, Smooth, ReceiveFrame, UNCHANGED buffer, BufferOK, BrowserOK
    PROVE  Aligned'
<1>1. stream # Nothing /\ stream # <<>> /\ stream' = Tail(stream)
  BY DEF ReceiveFrame
<1>2. PICK b \in Seq(Named) : b = buffer
  BY Connected
<1>3. PICK t \in Seq(Named) : t = shown
  BY Connected
<1>4. PICK r \in Seq(Named) : r = stream /\ r \in Seq(Projected)
  BY <1>1, Connected DEF Sighted
<1>5. PICK q \in Seq(Named) : q = Tail(r)
  <2>1. Tail(r) \in Seq(Named)
    BY <1>1, <1>4, TailEnds
  <2> QED BY <2>1
<1>6. Len(b) \in Nat /\ Len(r) \in Nat \ {0} /\ Len(q) = Len(r) - 1 /\ Ends(q, r)
  BY <1>1, <1>2, <1>4, <1>5, LenProperties, EmptySeq, TailEnds
<1>7. /\ Window \in Nat \ {0} /\ Len(b) <= Window /\ Len(t) <= Window
  BY <1>2, <1>3, Constants DEF BufferOK, BrowserOK
<1>8. shown' = Taken(t, r[1])
  <2>1. 1 \in 1..Len(r)
    BY <1>6
  <2>2. r[1] \in Projected
    BY <1>4, <2>1, ElementOfSeq
  <2>3. r[1] \notin Raw
    <3>1. recorded[r[1]] # 0
      BY <2>2 DEF Projected
    <3> QED BY <3>1 DEF Smooth
  <2>4. Accept(r[1])
    BY <1>4 DEF ReceiveFrame
  <2> QED BY <1>3, <2>3, <2>4 DEF Accept, Taken
<1>9. stream' = q /\ q # Nothing /\ buffer' = b
  BY <1>1, <1>2, <1>4, <1>5, Connected
<1>10. SUFFICES \/ Ends(q, b) /\ Follows(b, Taken(t, r[1]), Len(b) - Len(q))
                \/ Ends(b, q) /\ Follows(q, Taken(t, r[1]), 0)
  BY <1>8, <1>9 DEF Aligned
<1>11. ASSUME Ends(r, b), Follows(b, t, Len(b) - Len(r))
       PROVE  Ends(q, b) /\ Follows(b, Taken(t, r[1]), Len(b) - Len(q))
  <2>1. PICK n \in Nat : n = Len(b) - Len(r)
    <3>1. Len(b) - Len(r) \in Nat
      BY <1>6, <1>11 DEF Ends
    <3> QED BY <3>1
  <2>2. n < Len(b) /\ n + 1 = Len(b) - Len(q) /\ 1 \in 1..Len(r) /\ 1 + n = n + 1
    BY <1>6, <2>1
  <2>3. r[1] = b[n + 1]
    BY <1>11, <2>1, <2>2 DEF Ends
  <2>4. Follows(b, Taken(t, b[n + 1]), n + 1)
    BY <1>2, <1>3, <1>7, <1>11, <2>1, <2>2, FollowsRead
  <2>5. Ends(q, b)
    BY <1>2, <1>4, <1>5, <1>6, <1>11, EndsTransitive
  <2> QED BY <2>2, <2>3, <2>4, <2>5
<1>12. CASE Ends(b, r) /\ Follows(r, t, 0)
  <2>1. CASE Len(b) = Len(r)
    <3>1. b = r
      <4>1. \A i \in 1..Len(b) : i + (Len(r) - Len(b)) = i
        BY <1>6, <2>1
      <4>2. \A i \in 1..Len(b) : b[i] = r[i]
        BY <1>12, <4>1 DEF Ends
      <4> QED BY <1>2, <1>4, <2>1, <4>2, SeqEqual
    <3>2. Ends(r, b) /\ Follows(b, t, 0) /\ Len(b) - Len(r) = 0
      BY <1>6, <1>12, <3>1
    <3> QED BY <1>11, <3>2
  <2>2. CASE Len(b) # Len(r)
    <3>1. Len(b) <= Len(q)
      BY <1>6, <1>12, <2>2 DEF Ends
    <3>2. Ends(b, q)
      BY <1>2, <1>4, <1>5, <1>6, <1>12, <3>1, EndsNest
    <3>3. Follows(q, Taken(t, r[1]), 0)
      BY <1>1, <1>3, <1>4, <1>5, <1>7, <1>12, FollowsLate
    <3> QED BY <3>2, <3>3
  <2> QED BY <2>1, <2>2
<1>13. \/ Ends(r, b) /\ Follows(b, t, Len(b) - Len(r))
       \/ Ends(b, r) /\ Follows(r, t, 0)
  BY <1>1, <1>2, <1>3, <1>4 DEF Aligned
<1> QED BY <1>11, <1>12, <1>13

\* Steps of others leave the panel as it is, whatever they do to the claims.
LEMMA PanelRests ==
    ASSUME Panel, UNCHANGED <<buffer, shown, stream, recorded>>, Smooth' => Smooth
    PROVE  Panel'
<1>1. Projected' = Projected
  BY DEF Projected
<1>2. Sighted'
  BY <1>1 DEF Panel, Sighted
<1>3. Aligned' <=> Aligned
  BY DEF Aligned
<1> QED BY <1>2, <1>3 DEF Panel

\* What was projected stays so, and what has no fault now had none before.
LEMMA ProjectedGrows ==
    ASSUME HistoryOK, \A e \in Named : recorded'[e] >= recorded[e], HistoryOK',
           troubled' = FALSE => troubled = FALSE
    PROVE  Projected \subseteq Projected' /\ (Smooth' => Smooth)
<1>1. \A e \in Named : recorded[e] \in Nat /\ recorded'[e] \in Nat
  BY DEF HistoryOK
<1>2. Projected \subseteq Projected'
  BY <1>1 DEF Projected
<1>3. \A e \in Named : recorded'[e] = 0 => recorded[e] = 0
  BY <1>1
<1>4. troubled \in BOOLEAN /\ troubled' \in BOOLEAN
  BY DEF HistoryOK
<1>5. ~troubled' => ~troubled
  BY <1>4
<1> QED BY <1>2, <1>3, <1>5, PipelineAssumption DEF Smooth

LEMMA RecordPanel ==
    ASSUME TypeInv, Foundation, Once, Panel, NEW l \in Level, Record(l) \/ RecordFromMemory(l)
    PROVE  Panel'
<1>1. PICK e : e = handler[l].of
  OBVIOUS
<1>2. /\ Answering(l) /\ UNCHANGED shown
      /\ recordIngestEvent(e) \/ UNCHANGED <<recorded, buffer, stream>>
      /\ troubled' \in {TRUE, troubled}
  BY <1>1, RecordWrites
<1>3. /\ HistoryOK /\ HistoryOK' /\ BufferOK /\ BrowserOK
  BY RecordTypes, TypeParts, TypePartsAfter DEF TypeInv, ServerSide
<1>4. e \in Named
  BY <1>1, <1>2, AnsweringStep
<1>5. Projected \subseteq Projected' /\ (Smooth' => Smooth)
  <2>1. \A x \in Named : recorded'[x] >= recorded[x]
    BY AnsweredIsKnown
  <2>2. troubled' = FALSE => troubled = FALSE
    BY <1>2
  <2> QED BY <1>3, <2>1, <2>2, ProjectedGrows
<1>6. CASE UNCHANGED <<recorded, buffer, stream>>
  BY <1>2, <1>5, <1>6, PanelRests
<1>7. CASE recordIngestEvent(e)
  <2>1. e \in Projected'
    <3>1. recorded[e] \in Nat /\ recorded'[e] = recorded[e] + 1
      BY <1>3, <1>4, <1>7 DEF HistoryOK, recordIngestEvent
    <3> QED BY <1>4, <3>1 DEF Projected
  <2>2. PICK P : P = Projected'
    OBVIOUS
  <2>3. buffer \in Seq(P) /\ shown \in Seq(P) /\ (stream = Nothing \/ stream \in Seq(P))
    BY <1>5, <2>2, SeqMonotonic DEF Panel, Sighted
  <2>4. buffer' \in Seq(P)
    <3>1. Append(buffer, e) \in Seq(P) /\ Append(buffer, e) # <<>>
      BY <2>1, <2>2, <2>3, AppendProperties
    <3>2. PICK a \in Seq(P) : a = Append(buffer, e) /\ a # <<>>
      BY <3>1
    <3>3. Pushed(e) \in {a, Tail(a)}
      BY <3>2 DEF Pushed
    <3> QED BY <1>7, <3>2, <3>3, HeadTailProperties DEF recordIngestEvent
  <2>5. stream' = Nothing \/ stream' \in Seq(P)
    BY <1>7, <2>1, <2>2, <2>3, AppendProperties DEF recordIngestEvent
  <2>6. Sighted'
    BY <1>2, <2>2, <2>3, <2>4, <2>5 DEF Sighted
  <2>7. ASSUME Smooth'
        PROVE  Aligned'
    <3>1. ~troubled /\ ~troubled' /\ Aligned
      BY <1>5, <2>7 DEF Panel, Smooth
    <3>2. Record(l)
      BY <3>1 DEF RecordFromMemory
    <3>3. handler[l].at = "claimed"
      <4>1. CASE handler[l].at = "claimed"
        BY <4>1
      <4>2. CASE handler[l].at # "claimed"
        <5>1. recorded' = recorded
          BY <3>2, <4>2 DEF Record
        <5> QED BY <1>3, <1>4, <1>7, <5>1 DEF recordIngestEvent, HistoryOK
      <4> QED BY <4>1, <4>2
    <3>4. recorded[e] = 0
      BY <1>1, <3>1, <3>3 DEF Once, OneOwner
    <3>5. e \notin Projected
      BY <3>4 DEF Projected
    <3> QED BY <1>2, <1>4, <1>7, <3>1, <3>5, RecordedAligned DEF Panel
  <2> QED BY <2>6, <2>7 DEF Panel
<1> QED BY <1>2, <1>6, <1>7

\* The server begins with an empty buffer, and nobody is connected.
LEMMA RestartPanel ==
    ASSUME TypeInv, Panel, ServerRestarts
    PROVE  Panel'
<1>1. /\ buffer' = <<>> /\ stream' = Nothing /\ UNCHANGED <<shown, recorded>>
  BY DEF ServerRestarts
<1>2. Projected' = Projected
  BY <1>1 DEF Projected
<1>3. Sighted'
  BY <1>1, <1>2, EmptySeq DEF Panel, Sighted
<1>4. PICK t \in Seq(Named) : t = shown
  BY Connected DEF Panel
<1>5. Follows(<<>>, t, 0)
  <2>1. Len(t) \in Nat /\ Len(<<>>) = 0
    BY LenProperties
  <2>2. Distinct(<<>>) /\ Lined(<<>>, 0, t)
    BY <2>1 DEF Distinct, Lined
  <2> QED BY <2>2 DEF Follows
<1>6. Aligned'
  BY <1>1, <1>4, <1>5 DEF Aligned
<1> QED BY <1>3, <1>6 DEF Panel

LEMMA BrowserPanel ==
    ASSUME TypeInv, Panel, Connect \/ Disconnect \/ ReceiveFrame
    PROVE  Panel'
<1>1. UNCHANGED <<buffer, recorded, troubled>>
  BY DEF Connect, Disconnect, ReceiveFrame, server, history
<1>2. Projected' = Projected /\ (Smooth' <=> Smooth)
  BY <1>1 DEF Projected, Smooth
<1>3. BufferOK /\ BrowserOK
  BY TypeParts DEF TypeInv, ServerSide
<1>4. PICK b \in Seq(Named) : b = buffer
  BY Connected DEF Panel
<1>5. PICK t \in Seq(Named) : t = shown
  BY Connected DEF Panel
<1>6. CASE Connect
  <2>1. stream = Nothing /\ stream' = b /\ buffer' = b /\ shown' = t /\ b # Nothing
    BY <1>1, <1>4, <1>5, <1>6, Connected DEF Connect, Panel
  <2>2. Sighted'
    BY <1>2, <1>4, <1>5, <2>1 DEF Panel, Sighted
  <2>3. Aligned => Ends(b, b) /\ Follows(b, t, 0)
    BY <1>4, <1>5, <2>1, EndsSelf DEF Aligned
  <2>4. Aligned => Aligned'
    BY <2>1, <2>3 DEF Aligned
  <2> QED BY <1>2, <2>2, <2>4 DEF Panel
<1>7. CASE Disconnect
  <2>1. stream # Nothing /\ stream' = Nothing /\ UNCHANGED <<buffer, shown>>
    BY <1>1, <1>7 DEF Disconnect
  <2>2. Sighted'
    BY <1>2, <2>1 DEF Panel, Sighted
  <2>3. PICK r \in Seq(Named) : r = stream
    BY <2>1, Connected DEF Panel
  <2>4. Aligned => Follows(b, t, 0)
    <3>1. ASSUME Ends(r, b), Follows(b, t, Len(b) - Len(r))
          PROVE  Follows(b, t, 0)
      <4>1. PICK n \in Nat : n = Len(b) - Len(r)
        <5>1. Len(b) \in Nat /\ Len(r) \in Nat /\ Len(r) <= Len(b)
          BY <3>1, LenProperties DEF Ends
        <5>2. Len(b) - Len(r) \in Nat
          BY <5>1
        <5> QED BY <5>2
      <4> QED BY <1>4, <1>5, <3>1, <4>1, EndsSelf, FollowsEnd
    <3>2. ASSUME Ends(b, r), Follows(r, t, 0)
          PROVE  Follows(b, t, 0)
      BY <1>4, <1>5, <2>3, <3>2, FollowsEnd
    <3> QED BY <1>4, <1>5, <2>1, <2>3, <3>1, <3>2 DEF Aligned
  <2>5. Aligned => Aligned'
    BY <1>4, <1>5, <2>1, <2>4 DEF Aligned
  <2> QED BY <1>2, <2>2, <2>5 DEF Panel
<1>8. CASE ReceiveFrame
  <2>1. PICK P : P = Projected
    OBVIOUS
  <2>2. stream # Nothing /\ stream # <<>> /\ stream' = Tail(stream) /\ Accept(Head(stream))
    BY <1>8 DEF ReceiveFrame
  <2>3. buffer \in Seq(P) /\ shown \in Seq(P) /\ stream \in Seq(P)
    BY <2>1, <2>2 DEF Panel, Sighted
  <2>4. Head(stream) \in P /\ Tail(stream) \in Seq(P)
    BY <2>2, <2>3, HeadTailProperties
  <2>5. PICK e \in P : e = Head(stream)
    BY <2>4
  <2>6. shown' \in Seq(P)
    <3>1. PICK long \in Seq(P) : long = <<e>> \o shown
      <4>1. <<e>> \in Seq(P)
        OBVIOUS
      <4>2. <<e>> \o shown \in Seq(P)
        BY <2>3, <4>1, ConcatProperties
      <4> QED BY <4>2
    <3>2. shown' = shown \/ shown' = FirstOf(long)
      BY <2>2, <2>5, <3>1 DEF Accept
    <3>3. FirstOf(long) \in Seq(P)
      <4>1. Len(long) \in Nat /\ \A i \in 1..Len(long) : long[i] \in P
        BY LenProperties, ElementOfSeq
      <4>2. CASE Len(long) > Window
        <5>1. Window \in Nat /\ \A i \in 1..Window : long[i] \in P
          BY <4>1, <4>2, Constants
        <5>2. SubSeq(long, 1, Window) \in Seq(P)
          BY <5>1, SubSeqProperties
        <5> QED BY <4>2, <5>2 DEF FirstOf
      <4>3. CASE ~(Len(long) > Window)
        BY <4>3 DEF FirstOf
      <4> QED BY <4>2, <4>3
    <3> QED BY <2>3, <3>2, <3>3
  <2>7. Sighted'
    BY <1>1, <1>2, <2>1, <2>2, <2>3, <2>4, <2>6 DEF Sighted
  <2>8. Smooth => Aligned'
    BY <1>1, <1>3, <1>8, ReadAligned DEF Panel
  <2> QED BY <1>2, <2>7, <2>8 DEF Panel
<1> QED BY <1>6, <1>7, <1>8

LEMMA InitPanel == Init => Panel
<1> SUFFICES ASSUME Init
             PROVE  Panel
  OBVIOUS
<1>1. buffer = <<>> /\ shown = <<>> /\ stream = Nothing
  BY DEF Init
<1>2. Sighted
  BY <1>1, EmptySeq DEF Sighted
<1>3. Distinct(<<>>) /\ Lined(<<>>, 0, <<>>)
  BY DEF Distinct, Lined
<1>4. Follows(<<>>, <<>>, 0)
  BY <1>3 DEF Follows
<1> QED BY <1>1, <1>2, <1>4 DEF Panel, Aligned

LEMMA StepPanel == TypeInv /\ Foundation /\ Once /\ Panel /\ [Next]_vars => Panel'
<1> SUFFICES ASSUME TypeInv, Foundation, Once, Panel, [Next]_vars
             PROVE  Panel'
  OBVIOUS
<1>1. CASE (\E m \in Message : Forward(m) \/ ForwardUnstored(m) \/ ForwardUnseen(m)) \/ Ingest
  <2>1. UNCHANGED <<server, browser, history>>
    BY <1>1, ForwardWrites, IngestWrites DEF BeforeServer
  <2>2. UNCHANGED <<buffer, shown, stream, recorded, troubled>>
    BY <2>1 DEF server, browser, history
  <2>3. Smooth' => Smooth
    BY <2>2 DEF Smooth
  <2> QED BY <2>2, <2>3, PanelRests
<1>2. CASE \E l \in Level : Claim(l)
  <2>1. UNCHANGED <<buffer, shown, stream, recorded, troubled>>
    BY <1>2 DEF Claim, browser, history
  <2>2. Smooth' => Smooth
    BY <2>1 DEF Smooth
  <2> QED BY <2>1, <2>2, PanelRests
<1>3. CASE \E l \in Level : Record(l) \/ RecordFromMemory(l)
  BY <1>3, RecordPanel
<1>4. CASE \E e \in Named : ClaimExpires(e)
  <2>1. UNCHANGED <<buffer, shown, stream, recorded>> /\ troubled'
    BY <1>4 DEF ClaimExpires, browser
  <2>2. Smooth' => Smooth
    BY <2>1 DEF Smooth
  <2> QED BY <2>1, <2>2, PanelRests
<1>5. CASE ServerRestarts
  BY <1>5, RestartPanel
<1>6. CASE Connect \/ Disconnect \/ ReceiveFrame
  BY <1>6, BrowserPanel
<1>7. CASE UNCHANGED vars
  <2>1. UNCHANGED <<buffer, shown, stream, recorded, troubled>>
    BY <1>7 DEF vars, server, browser, history
  <2>2. Smooth' => Smooth
    BY <2>1 DEF Smooth
  <2> QED BY <2>1, <2>2, PanelRests
<1> QED BY <1>1, <1>2, <1>3, <1>4, <1>5, <1>6, <1>7 DEF Next

\* A browser that has read all its frames shows every event of the server's
\* buffer, however often it lost its connection, however slowly it reads and
\* whichever program restarted, as long as Redis kept the events apart.
THEOREM PipelineShowsTheBuffer == Spec => []ShowsTheBuffer
<1>1. Panel => ShowsTheBuffer
  <2> SUFFICES ASSUME Panel, stream = <<>>, Smooth, NEW i \in 1..Len(buffer)
               PROVE  Contains(shown, buffer[i])
    BY DEF ShowsTheBuffer, Smooth
  <2>1. PICK b \in Seq(Named) : b = buffer
    BY Connected DEF Panel
  <2>2. PICK t \in Seq(Named) : t = shown
    BY Connected DEF Panel
  <2>3. Len(b) \in Nat /\ Len(t) \in Nat /\ Len(<<>>) = 0 /\ stream # Nothing
    <3>1. <<>> \in Seq(Named)
      BY EmptySeq
    <3> QED BY <3>1, LenProperties, Connected DEF Panel
  <2>4. Follows(b, t, Len(b))
    <3>1. CASE Ends(<<>>, b) /\ Follows(b, t, Len(b) - Len(<<>>))
      BY <2>3, <3>1
    <3>2. CASE Ends(b, <<>>) /\ Follows(<<>>, t, 0)
      <4>1. Len(b) = 0
        BY <2>3, <3>2 DEF Ends
      <4> QED BY <2>1, <4>1
    <3> QED BY <2>1, <2>2, <2>3, <3>1, <3>2 DEF Panel, Aligned
  <2>5. PICK k \in Nat : Len(b) <= k /\ Lined(b, k, t)
    BY <2>4 DEF Follows
  <2>6. k + 1 - i \in 1..k /\ k + 1 - (k + 1 - i) = i /\ k <= Len(t)
    BY <2>1, <2>3, <2>5 DEF Lined
  <2>7. t[k + 1 - i] = b[i] /\ k + 1 - i \in 1..Len(t)
    <3>1. t[k + 1 - i] = b[k + 1 - (k + 1 - i)]
      BY <2>5, <2>6 DEF Lined
    <3> QED BY <2>3, <2>6, <3>1
  <2> QED BY <2>1, <2>2, <2>7 DEF Contains
<1> QED BY <1>1, InitTypes, StepTypes, InitFoundation, StepFoundation, InitOnce, StepOnce,
           InitPanel, StepPanel, PTL DEF Spec
=============================================================================
