--------------------------- MODULE EventPipeline ---------------------------
(***************************************************************************)
(* The way of an event to the operator's browser: pulsar-collector copies  *)
(* it from Pulsar to Kafka, java-ingest takes it from Kafka and posts it   *)
(* to the Nest server, which projects it once, keeps the last ones and     *)
(* streams them to the browser.  Every hop delivers at least once, so each *)
(* has its own memory of what it has seen: java-ingest a bounded cache,    *)
(* the server a claim in Redis or a bounded map, the browser its list.     *)
(* A failed post goes through retry topics, each with a listener thread of *)
(* its own, to a dead letter topic.  Level l is the l-th attempt.          *)
(***************************************************************************)
EXTENDS Naturals, Sequences, FiniteSets, SequencesExt

CONSTANTS
    Named,          \* events with an event-id
    Nameless,       \* records without one, which fail validation
    Raw,            \* named events whose payload is not a JSON object
    Batches,        \* sets of messages that may have been published to Pulsar
    Nothing,        \* no event
    Attempts,       \* ingest.forward.retry-attempts
    CacheSize,      \* ingest.dedupe.max-entries
    MemorySize,     \* INGEST_EVENT_IDEMPOTENCY_MAX_ENTRIES
    Window,         \* INGEST_EVENT_BUFFER_LIMIT, and the browser's 50
    MaxFaults       \* bound: crashes, restarts, lost calls and expired claims

ASSUME PipelineAssumption ==
    /\ Batches \subseteq SUBSET (Named \cup Nameless)
    /\ Raw \subseteq Named /\ Named \cap Nameless = {} /\ Nothing \notin Named \cup Nameless
    /\ Attempts \in Nat \ {0} /\ CacheSize \in Nat \ {0} /\ MemorySize \in Nat \ {0}
    /\ Window \in Nat \ {0} /\ MaxFaults \in Nat
    /\ Nothing \notin Seq(Named)

Message == Named \cup Nameless
Level == 1..Attempts

VARIABLES
    pulsar,     \* messages the collector has not acknowledged
    kafka,      \* copies of each message on the topic of each level, not committed
    listener,   \* per level, the message java-ingest has in hand and how far it is
    delivered,  \* EventDeduplicationService, the eldest first
    deadLetters,    \* the forward DLT
    quarantined,    \* the validation DLT
    handler,    \* per level, its request at the Nest server
    hasRedis,   \* this Nest process has a Redis client
    claims,     \* keys frontend:ingest:event:<id>
    answers,    \* levels Redis has yet to answer; it answers in order
    memory,     \* acceptedIngestEventIds, the oldest first
    buffer,     \* recentIngestEvents
    stream,     \* SSE frames on their way; Nothing is not connected
    shown,      \* the browser's list, newest first
    published,  \* the messages Pulsar was given, which do not change
    recorded,   \* how often each event was projected: history
    burnt,      \* events claimed by a handler that did not live to record them: history
    vanished,   \* messages acknowledged in Pulsar that Kafka never stored: history
    troubled,   \* Redis failed, was not there or forgot a claim: history
    faults      \* what MaxFaults counts, so far

ingest == <<listener, delivered, deadLetters, quarantined>>
server == <<hasRedis, claims, answers, memory, buffer>>
browser == <<stream, shown>>
history == <<published, recorded, burnt, troubled>>
vars == <<pulsar, vanished, kafka, ingest, handler, server, browser, history, faults>>

Idle == [of |-> Nothing, at |-> "idle"]

Init ==
    /\ published \in Batches /\ pulsar = published /\ vanished = {}
    /\ kafka = [m \in Message |-> [l \in Level |-> 0]]
    /\ listener = [l \in Level |-> Idle] /\ delivered = <<>>
    /\ deadLetters = {} /\ quarantined = {}
    /\ handler = [l \in Level |-> Idle]
    /\ hasRedis \in BOOLEAN /\ claims = {} /\ answers = <<>>
    /\ memory = <<>> /\ buffer = <<>>
    /\ stream = Nothing /\ shown = <<>>
    /\ recorded = [m \in Named |-> 0] /\ burnt = {} /\ troubled = ~hasRedis
    /\ faults = 0

Fault == faults < MaxFaults /\ faults' = faults + 1

\* A map in order of use, cut to its bound; it holds an event once.
\* Mutated form: never cut.
LastUsedUnbounded(seq, e, size) == Append(RemoveFirst(seq, e), e)

LastUsed(seq, e, size) ==
    LET s == Append(RemoveFirst(seq, e), e)
    IN IF Len(s) > size THEN Tail(s) ELSE s

-----------------------------------------------------------------------------
(* pulsar-collector.                                                       *)

\* WriteMessages returns nil, Kafka has stored the record, and the message is
\* acknowledged.
Forward(m) ==
    /\ m \in pulsar
    /\ pulsar' = pulsar \ {m}
    /\ kafka' = [kafka EXCEPT ![m][1] = @ + 1]
    /\ UNCHANGED <<vanished, ingest, handler, server, browser, history, faults>>

\* The writer leaves RequiredAcks at RequireNone: nil only says that the record
\* was sent.  The broker drops it, and the message is acknowledged all the same.
ForwardUnstored(m) ==
    /\ m \in pulsar /\ Fault
    /\ pulsar' = pulsar \ {m}
    /\ vanished' = vanished \cup {m}
    /\ UNCHANGED <<kafka, ingest, handler, server, browser, history>>

\* Kafka has the record, and the message comes again: the write seemed to
\* fail and was nacked, the acknowledgement was lost, or the collector died.
ForwardUnseen(m) ==
    /\ m \in pulsar /\ Fault
    /\ kafka' = [kafka EXCEPT ![m][1] = @ + 1]
    /\ UNCHANGED <<pulsar, vanished, ingest, handler, server, browser, history>>

-----------------------------------------------------------------------------
(* java-ingest: onMessage, one thread a level.                             *)

At(l, m, where) == listener' = [listener EXCEPT ![l] = [of |-> m, at |-> where]]

\* Spring publishes the record to the next topic before it commits this one.
Retry(l, m) ==
    IF l < Attempts THEN kafka' = [kafka EXCEPT ![m][l + 1] = @ + 1] /\ UNCHANGED deadLetters
    ELSE deadLetters' = deadLetters \cup {m} /\ UNCHANGED kafka

CanTake(l, m) == listener[l] = Idle /\ kafka[m][l] > 0

\* A delivered event is a duplicate; the other is posted.  Bound: the level's
\* last request has been answered, or has timed out and ended.
Take(l, m) ==
    /\ CanTake(l, m) /\ m \in Named /\ handler[l] = Idle
    /\ IF Contains(delivered, m) THEN At(l, m, "done") /\ UNCHANGED handler
       ELSE /\ At(l, m, "posted")
            /\ handler' = [handler EXCEPT ![l] = [of |-> m, at |-> "arrived"]]
    /\ UNCHANGED <<pulsar, vanished, kafka, delivered, deadLetters, quarantined, server, browser,
                   history, faults>>

\* The connection is refused.
PostRefused(l, m) ==
    /\ CanTake(l, m) /\ m \in Named /\ ~Contains(delivered, m) /\ Fault
    /\ Retry(l, m)
    /\ At(l, m, "done")
    /\ UNCHANGED <<pulsar, vanished, delivered, quarantined, handler, server, browser, history>>

\* An invalid record goes to the validation DLT, and is not posted.
Quarantine(l, m) ==
    /\ CanTake(l, m) /\ m \in Nameless
    /\ quarantined' = quarantined \cup {m}
    /\ At(l, m, "done")
    /\ UNCHANGED <<pulsar, vanished, kafka, delivered, deadLetters, handler, server, browser,
                   history, faults>>

\* The publisher throws, whether the copy arrived or not.
\* Mutated form: it logs the error.
QuarantineIgnored(l, m) ==
    /\ CanTake(l, m) /\ m \in Nameless /\ Fault
    /\ quarantined' \in {quarantined, quarantined \cup {m}}
    /\ At(l, m, "done")
    /\ UNCHANGED <<pulsar, vanished, kafka, delivered, deadLetters, handler, server, browser,
                   history>>

QuarantineFails(l, m) ==
    /\ CanTake(l, m) /\ m \in Nameless /\ Fault
    /\ quarantined' \in {quarantined, quarantined \cup {m}}
    /\ Retry(l, m)
    /\ At(l, m, "done")
    /\ UNCHANGED <<pulsar, vanished, delivered, handler, server, browser, history>>

\* The server has answered: markDelivered.
PostAnswered(l) ==
    /\ listener[l].at = "posted" /\ handler[l].at = "replied"
    /\ delivered' = LastUsed(delivered, listener[l].of, CacheSize)
    /\ At(l, listener[l].of, "done")
    /\ handler' = [handler EXCEPT ![l] = Idle]
    /\ UNCHANGED <<pulsar, vanished, kafka, deadLetters, quarantined, server, browser, history,
                   faults>>

\* The answer is late or lost; the handler may still be at work.
\* Mutated form: without the request's timeout, a dead server is waited for.
PostFailsUnlessDead(l) ==
    /\ listener[l].at = "posted" /\ handler[l] # Idle /\ Fault
    /\ Retry(l, listener[l].of)
    /\ At(l, listener[l].of, "done")
    /\ handler' = IF handler[l].at = "replied" THEN [handler EXCEPT ![l] = Idle] ELSE handler
    /\ UNCHANGED <<pulsar, vanished, delivered, quarantined, server, browser, history>>

PostFails(l) ==
    /\ listener[l].at = "posted"
    /\ IF handler[l] = Idle THEN UNCHANGED faults ELSE Fault
    /\ Retry(l, listener[l].of)
    /\ At(l, listener[l].of, "done")
    /\ handler' = IF handler[l].at = "replied" THEN [handler EXCEPT ![l] = Idle] ELSE handler
    /\ UNCHANGED <<pulsar, vanished, delivered, quarantined, server, browser, history>>

\* The offset is committed when the record is done with.
Commit(l) ==
    /\ listener[l].at = "done"
    /\ kafka' = [kafka EXCEPT ![listener[l].of][l] = @ - 1]
    /\ listener' = [listener EXCEPT ![l] = Idle]
    /\ UNCHANGED <<pulsar, vanished, delivered, deadLetters, quarantined, handler, server,
                   browser, history, faults>>

IngestRestarts ==
    /\ Fault
    /\ listener' = [l \in Level |-> Idle] /\ delivered' = <<>>
    /\ handler' = [l \in Level |-> IF handler[l].at = "replied" THEN Idle ELSE handler[l]]
    /\ UNCHANGED <<pulsar, vanished, kafka, deadLetters, quarantined, server, browser, history>>

Ingest ==
    \/ \E l \in Level, m \in Message :
          Take(l, m) \/ PostRefused(l, m) \/ Quarantine(l, m) \/ QuarantineFails(l, m)
    \/ \E l \in Level : PostAnswered(l) \/ PostFails(l) \/ Commit(l)
    \/ IngestRestarts

-----------------------------------------------------------------------------
(* The Nest server: receiveIngestEvent.                                    *)

\* The reply finds nobody if the listener has given up.
Reply(l) ==
    handler' = [handler EXCEPT ![l] =
        IF listener[l] = [of |-> handler[l].of, at |-> "posted"]
        THEN [handler[l] EXCEPT !.at = "replied"] ELSE Idle]

Pushed(e) == LET b == Append(buffer, e) IN IF Len(b) > Window THEN Tail(b) ELSE b

\* Counts, buffers and broadcasts the event.
recordIngestEvent(e) ==
    /\ recorded' = [recorded EXCEPT ![e] = @ + 1]
    /\ buffer' = Pushed(e)
    /\ stream' = IF stream = Nothing THEN Nothing ELSE Append(stream, e)

\* Redis executes SET NX EX; the server does not know yet.
\* Mutated form: without NX.
ClaimAnyway(l) ==
    /\ hasRedis /\ handler[l].at = "arrived"
    /\ handler' = [handler EXCEPT ![l].at = "claimed"]
    /\ claims' = claims \cup {handler[l].of}
    /\ answers' = Append(answers, l)
    /\ UNCHANGED <<pulsar, vanished, kafka, ingest, hasRedis, memory, buffer, browser, history,
                   faults>>

Claim(l) ==
    /\ hasRedis /\ handler[l].at = "arrived"
    /\ handler' = [handler EXCEPT ![l].at = IF handler[l].of \in claims THEN "refused"
                                            ELSE "claimed"]
    /\ claims' = claims \cup {handler[l].of}
    /\ answers' = Append(answers, l)
    /\ UNCHANGED <<pulsar, vanished, kafka, ingest, hasRedis, memory, buffer, browser, history,
                   faults>>

\* Redis has answered: remember the id, record a new event, reply.
Record(l) ==
    /\ answers # <<>> /\ l = Head(answers) /\ answers' = Tail(answers)
    /\ memory' = LastUsed(memory, handler[l].of, MemorySize)
    /\ IF handler[l].at = "claimed" THEN recordIngestEvent(handler[l].of)
       ELSE UNCHANGED <<recorded, buffer, stream>>
    /\ Reply(l)
    /\ UNCHANGED <<pulsar, vanished, kafka, ingest, hasRedis, claims, shown, published, burnt,
                   troubled, faults>>

\* No client, or Redis threw, before or after it executed the SET.
RecordFromMemory(l) ==
    /\ IF answers = <<>> THEN handler[l].at = "arrived" /\ UNCHANGED answers
       ELSE l = Head(answers) /\ answers' = Tail(answers)
    /\ IF hasRedis THEN Fault ELSE UNCHANGED faults
    /\ memory' = LastUsed(memory, handler[l].of, MemorySize)
    /\ IF Contains(memory, handler[l].of) THEN UNCHANGED <<recorded, buffer, stream>>
       ELSE recordIngestEvent(handler[l].of)
    /\ troubled' = TRUE
    /\ Reply(l)
    /\ UNCHANGED <<pulsar, vanished, kafka, ingest, hasRedis, claims, shown, published, burnt>>

\* INGEST_EVENT_IDEMPOTENCY_TTL_SECONDS are over.
ClaimExpires(e) ==
    /\ e \in claims /\ Fault
    /\ claims' = claims \ {e}
    /\ troubled' = TRUE
    /\ UNCHANGED <<pulsar, vanished, kafka, ingest, handler, hasRedis, answers, memory, buffer,
                   browser, published, recorded, burnt>>

\* Requests and connections break, the memory is lost, Redis is asked again.
ServerRestarts ==
    /\ Fault
    /\ burnt' = burnt \cup {handler[l].of : l \in {k \in Level : handler[k].at = "claimed"}}
    /\ handler' = [l \in Level |-> Idle]
    /\ answers' = <<>> /\ memory' = <<>> /\ buffer' = <<>> /\ stream' = Nothing
    /\ hasRedis' \in BOOLEAN
    /\ troubled' = (troubled \/ ~hasRedis')
    /\ UNCHANGED <<pulsar, vanished, kafka, ingest, claims, shown, published, recorded>>

-----------------------------------------------------------------------------
(* The browser: IngestEventStreamService and its EventSource.              *)

\* The server subscribes the response and replays its buffer in one step.
\* Mutated form: without the replay.
ConnectOnly ==
    /\ stream = Nothing
    /\ stream' = <<>>
    /\ UNCHANGED <<pulsar, vanished, kafka, ingest, handler, server, shown, history, faults>>

Connect ==
    /\ stream = Nothing
    /\ stream' = buffer
    /\ UNCHANGED <<pulsar, vanished, kafka, ingest, handler, server, shown, history, faults>>

Disconnect ==
    /\ stream # Nothing /\ Fault
    /\ stream' = Nothing
    /\ UNCHANGED <<pulsar, vanished, kafka, ingest, handler, server, shown, history>>

FirstOf(s) == IF Len(s) > Window THEN SubSeq(s, 1, Window) ELSE s

\* A payload that is no object carries no id to compare.
Accept(e) ==
    IF e \notin Raw /\ Contains(shown, e) THEN UNCHANGED shown
    ELSE shown' = FirstOf(<<e>> \o shown)

ReceiveFrame ==
    /\ stream # Nothing /\ stream # <<>>
    /\ Accept(Head(stream))
    /\ stream' = Tail(stream)
    /\ UNCHANGED <<pulsar, vanished, kafka, ingest, handler, server, history, faults>>

-----------------------------------------------------------------------------

Next ==
    \/ \E m \in Message : Forward(m) \/ ForwardUnstored(m) \/ ForwardUnseen(m)
    \/ Ingest
    \/ \E l \in Level : Claim(l) \/ Record(l) \/ RecordFromMemory(l)
    \/ \E e \in Named : ClaimExpires(e)
    \/ ServerRestarts
    \/ Connect \/ Disconnect \/ ReceiveFrame

\* The loops of the four programs go on as long as there is something to do;
\* nobody owes the system a crash, a lost answer or a late one.
Spec == Init /\ [][Next]_vars /\ WF_vars(Next /\ UNCHANGED faults)

-----------------------------------------------------------------------------

Place == [of : Message \cup {Nothing},
          at : {"idle", "posted", "done", "arrived", "claimed", "refused", "replied"}]

\* The variables keep their types.
TypeOK ==
    /\ published \in Batches /\ pulsar \subseteq published /\ vanished \subseteq published
    /\ kafka \in [Message -> [Level -> Nat]]
    /\ listener \in [Level -> Place] /\ handler \in [Level -> Place]
    /\ delivered \in Seq(Named) /\ Len(delivered) <= CacheSize
    /\ deadLetters \subseteq Message /\ quarantined \subseteq Nameless
    /\ hasRedis \in BOOLEAN /\ claims \subseteq Named
    /\ answers \in Seq(Level)
    /\ memory \in Seq(Named) /\ Len(memory) <= MemorySize
    /\ buffer \in Seq(Named) /\ Len(buffer) <= Window
    /\ stream = Nothing \/ stream \in Seq(Named)
    /\ shown \in Seq(Named) /\ Len(shown) <= Window
    /\ recorded \in [Named -> Nat] /\ burnt \subseteq Named
    /\ troubled \in BOOLEAN /\ faults \in 0..MaxFaults

InKafka(m) == \E l \in Level : kafka[m][l] > 0
Ended(m) == m \in deadLetters \cup quarantined \cup burnt
            \/ (m \in Named /\ recorded[m] > 0)

\* A message Pulsar has let go of and Kafka has stored stays in Kafka until it
\* is projected or on a dead letter topic, whatever crashes and whichever
\* answers are lost; only a server that dies between its claim and the record
\* drops an event.  What the collector acknowledged and Kafka never stored has
\* vanished, against its "must not acknowledge what it did not forward".
NothingIsLost == \A m \in published \ (pulsar \cup vanished) : InKafka(m) \/ Ended(m)

\* As long as Redis answers and keeps its claims, no event is projected twice,
\* though every hop repeats, restarts and retries while a first try is at work.
ProjectedOnce == ~troubled => \A e \in Named : recorded[e] <= 1

\* A browser that has read its stream shows all that the server would replay,
\* across reconnections and restarts, unless events came twice.
ShowsTheBuffer ==
    stream = <<>> /\ ~troubled /\ (\A r \in Raw : recorded[r] = 0)
        => \A i \in 1..Len(buffer) : Contains(shown, buffer[i])

\* Every message that Kafka was not the one to drop comes to its end:
\* projected, or on a dead letter topic.
EveryMessageEnds == <>(\A m \in published : Ended(m) \/ m \in vanished)
=============================================================================
