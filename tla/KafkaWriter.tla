----------------------------- MODULE KafkaWriter -----------------------------
(***************************************************************************)
(* The Kafka log writer (src/src/logging/writers/kafka/Kafka.cc): a Bro    *)
(* writer backend that formats every log record into its buffer and hands *)
(* it to a librdkafka producer.  The backend's thread calls the writer's   *)
(* methods one at a time: the constructor, DoInit, then DoWrite,           *)
(* DoHeartbeat and DoRotate in any order, DoFinish, and the destructor.    *)
(* Concurrently, librdkafka's broker thread takes messages from the        *)
(* producer's local queue and delivers them, or drops them when            *)
(* message.timeout.ms expires.                                             *)
(*                                                                         *)
(* A record is a model value; the formatted bytes of a buffer are the     *)
(* sequence of records appended to it.  A pointer member is "null",        *)
(* "live", "freed", or "garbage" (an uninitialised, non-null value).       *)
(***************************************************************************)
EXTENDS Integers, Sequences, SequencesExt, FiniteSets

CONSTANTS
    Records,           \* the log records Bro may write
    QueueMax,          \* queue.buffering.max.messages
    MaxBatchInterval,  \* LogKafka::max_batch_interval, in clock ticks
    MaxTime,           \* bound on the clock
    InitOutcomes,      \* how DoInit may end, see DoInit
    RotationMayFail    \* whether Bro's FinishedRotation can fail

ASSUME QueueMaxAssumption == QueueMax \in Nat \ {0}
ASSUME MaxBatchIntervalAssumption == MaxBatchInterval \in Nat
ASSUME MaxTimeAssumption == MaxTime \in Nat \ {0}
ASSUME InitOutcomesAssumption ==
    InitOutcomes \subseteq {"ok", "bad_brokers", "no_producer", "no_topic"}
ASSUME RotationMayFailAssumption == RotationMayFail \in BOOLEAN

VARIABLES
    wstate,     \* where the backend is: "constructed", "ready", "finishing" (in
                \* DoFinish's wait), "failed", "finished", "destroyed"
    producer,   \* the RdKafka::Producer* member
    topic,      \* the RdKafka::Topic* member
    buffer,     \* the ODesc buffer: records appended since the last Clear
    last_send,  \* last_send
    now,        \* current_time()
    queue,      \* librdkafka's local queue: a sequence of messages
    delivered,  \* the messages the broker has, in delivery order
    rejected,   \* records whose produce failed ("Produce failed" reported)
    expired,    \* records librdkafka dropped after message.timeout.ms
    purged,     \* records still queued when the producer was deleted
    written,    \* records handed to DoWrite
    status      \* "ok", or "crash" after undefined behaviour

vars == <<wstate, producer, topic, buffer, last_send, now, queue, delivered,
          rejected, expired, purged, written, status>>

Handles == {"null", "live", "freed", "garbage"}

(***************************************************************************)
(* The constructor copies the configuration strings, clears the buffer and *)
(* sets last_send to the current time.  It does not initialise producer    *)
(* and topic: their values are whatever the allocation left there.         *)
(***************************************************************************)
\* Mutant: last_send never set by the constructor.
InitLastSendZero ==
    /\ wstate = "constructed"
    /\ producer \in {"null", "garbage"}
    /\ topic \in {"null", "garbage"}
    /\ buffer = <<>>
    /\ now = 1
    /\ last_send = 0
    /\ queue = <<>>
    /\ delivered = <<>>
    /\ rejected = {}
    /\ expired = {}
    /\ purged = {}
    /\ written = {}
    /\ status = "ok"
Init ==
    /\ wstate = "constructed"
    /\ producer \in {"null", "garbage"}
    /\ topic \in {"null", "garbage"}
    /\ buffer = <<>>
    /\ now = 1
    /\ last_send = now
    /\ queue = <<>>
    /\ delivered = <<>>
    /\ rejected = {}
    /\ expired = {}
    /\ purged = {}
    /\ written = {}
    /\ status = "ok"

(***************************************************************************)
(* DoInit: "bad_brokers" is the early return when metadata.broker.list is  *)
(* refused, "no_producer" and "no_topic" the returns when Producer::create *)
(* or Topic::create returns NULL.                                          *)
(***************************************************************************)
\* Mutant: the topic check left out, so the writer goes on with a NULL topic.
DoInitNoTopicContinues(outcome) ==
    /\ wstate = "constructed"
    /\ CASE outcome = "bad_brokers" -> wstate' = "failed" /\ UNCHANGED <<producer, topic>>
         [] outcome = "no_producer" -> wstate' = "failed" /\ producer' = "null" /\ UNCHANGED topic
         [] outcome = "no_topic"    -> wstate' = "ready" /\ producer' = "live" /\ topic' = "null"
         [] outcome = "ok"          -> wstate' = "ready" /\ producer' = "live" /\ topic' = "live"
    /\ UNCHANGED <<buffer, last_send, now, queue, delivered, rejected, expired, purged, written, status>>
DoInit(outcome) ==
    /\ wstate = "constructed"
    /\ CASE outcome = "bad_brokers" -> wstate' = "failed" /\ UNCHANGED <<producer, topic>>
         [] outcome = "no_producer" -> wstate' = "failed" /\ producer' = "null" /\ UNCHANGED topic
         [] outcome = "no_topic"    -> wstate' = "failed" /\ producer' = "live" /\ topic' = "null"
         [] outcome = "ok"          -> wstate' = "ready" /\ producer' = "live" /\ topic' = "live"
    /\ UNCHANGED <<buffer, last_send, now, queue, delivered, rejected, expired, purged, written, status>>

(***************************************************************************)
(* BatchIndex with the buffer b: produce copies b into a message on the    *)
(* local queue, or fails when the queue is full and the record is only     *)
(* reported; poll(0) serves no callback (none is registered); the buffer   *)
(* is cleared and last_send set.  produce through a NULL topic crashes.    *)
(***************************************************************************)
\* Mutant: a failed produce not reported, the record silently gone.
BatchIndexUnreported(b) ==
    /\ IF Len(queue) < QueueMax
       THEN queue' = Append(queue, b) /\ UNCHANGED rejected
       ELSE UNCHANGED <<queue, rejected>>
    /\ status' = IF topic = "live" THEN status ELSE "crash"
    /\ buffer' = <<>>
    /\ last_send' = now
\* Mutant: buffer.Clear() left out.
BatchIndexNoClear(b) ==
    /\ IF Len(queue) < QueueMax
       THEN queue' = Append(queue, b) /\ UNCHANGED rejected
       ELSE rejected' = rejected \cup Range(b) /\ UNCHANGED queue
    /\ status' = IF topic = "live" THEN status ELSE "crash"
    /\ buffer' = b
    /\ last_send' = now
BatchIndex(b) ==
    /\ IF Len(queue) < QueueMax
       THEN queue' = Append(queue, b) /\ UNCHANGED rejected
       ELSE rejected' = rejected \cup Range(b) /\ UNCHANGED queue
    /\ status' = IF topic = "live" THEN status ELSE "crash"
    /\ buffer' = <<>>
    /\ last_send' = now

\* Mutant: the batching of the commented-out counter check: DoWrite only
\* appends, and the heartbeat sends.
DoWriteDeferred(r) ==
    /\ wstate = "ready"
    /\ r \notin written
    /\ written' = written \cup {r}
    /\ buffer' = Append(buffer, r)
    /\ UNCHANGED <<wstate, producer, topic, now, delivered, expired, purged,
                   queue, rejected, status, last_send>>
\* DoWrite: Describe the record into the buffer, add "\n", and BatchIndex.
DoWrite(r) ==
    /\ wstate = "ready"
    /\ r \notin written
    /\ written' = written \cup {r}
    /\ BatchIndex(Append(buffer, r))
    /\ UNCHANGED <<wstate, producer, topic, now, delivered, expired, purged>>

\* DoHeartbeat: send the buffer if it holds data older than the interval.
DoHeartbeat ==
    /\ wstate = "ready"
    /\ IF last_send > 0 /\ buffer # <<>> /\ now - last_send > MaxBatchInterval
       THEN BatchIndex(buffer)
       ELSE UNCHANGED <<queue, rejected, status, buffer, last_send>>
    /\ UNCHANGED <<wstate, producer, topic, now, delivered, expired, purged, written>>

\* DoRotate when Bro's FinishedRotation fails: DoRotate returns false and
\* the backend disables the writer.  When FinishedRotation succeeds DoRotate
\* returns true and changes nothing: a stutter step.
DoRotate ==
    /\ RotationMayFail
    /\ wstate = "ready"
    /\ wstate' = "failed"
    /\ UNCHANGED <<producer, topic, buffer, last_send, now, queue, delivered,
                   rejected, expired, purged, written, status>>

(***************************************************************************)
(* DoFinish: wait_destroyed(5000) waits for every librdkafka handle to be  *)
(* destroyed.  The writer's own producer is still alive, so the call only  *)
(* returns when its 5 s run out; meanwhile librdkafka's broker thread      *)
(* goes on sending or expiring queued messages.  Nothing is flushed.       *)
(***************************************************************************)
DoFinish ==
    /\ wstate = "ready"
    /\ wstate' = "finishing"
    /\ UNCHANGED <<producer, topic, buffer, last_send, now, queue, delivered,
                   rejected, expired, purged, written, status>>

\* wait_destroyed times out whatever is left in the queue; DoFinish returns.
WaitDestroyedTimeout ==
    /\ wstate = "finishing"
    /\ wstate' = "finished"
    /\ UNCHANGED <<producer, topic, buffer, last_send, now, queue, delivered,
                   rejected, expired, purged, written, status>>

(***************************************************************************)
(* The destructor: delete producer and topic when non-NULL.  Deleting a    *)
(* garbage pointer is undefined behaviour.  Deleting the producer destroys *)
(* the librdkafka handle, and the messages still in its queue with it.     *)
(***************************************************************************)
Freed(h) == IF h = "live" THEN "freed" ELSE h

Destroy ==
    /\ wstate \in {"failed", "finished"}
    /\ wstate' = "destroyed"
    /\ producer' = Freed(producer)
    /\ topic' = Freed(topic)
    /\ status' = IF "garbage" \in {producer, topic} THEN "crash" ELSE status
    /\ purged' = purged \cup UNION {Range(queue[i]) : i \in DOMAIN queue}
    /\ queue' = <<>>
    /\ UNCHANGED <<buffer, last_send, now, delivered, rejected, expired, written>>

-----------------------------------------------------------------------------
(***************************************************************************)
(* The environment: Bro's clock, and librdkafka's broker thread, which     *)
(* works while the producer handle exists.                                 *)
(***************************************************************************)
Tick ==
    /\ now < MaxTime
    /\ now' = now + 1
    /\ UNCHANGED <<wstate, producer, topic, buffer, last_send, queue, delivered,
                   rejected, expired, purged, written, status>>

Send ==
    /\ producer = "live"
    /\ queue # <<>>
    /\ delivered' = Append(delivered, Head(queue))
    /\ queue' = Tail(queue)
    /\ UNCHANGED <<wstate, producer, topic, buffer, last_send, now, rejected,
                   expired, purged, written, status>>

Expire ==
    /\ producer = "live"
    /\ queue # <<>>
    /\ expired' = expired \cup Range(Head(queue))
    /\ queue' = Tail(queue)
    /\ UNCHANGED <<wstate, producer, topic, buffer, last_send, now, delivered,
                   rejected, purged, written, status>>

Writer ==
    /\ status = "ok"
    /\ \/ \E o \in InitOutcomes : DoInit(o)
       \/ \E r \in Records : DoWrite(r)
       \/ DoHeartbeat
       \/ DoRotate
       \/ DoFinish
       \/ WaitDestroyedTimeout
       \/ Destroy

Library == Send \/ Expire

Next == Writer \/ Library \/ Tick

\* librdkafka's broker thread runs on its own and cannot stop while there
\* is work; Bro's heartbeat timer fires while the writer is up; the wait in
\* DoFinish ends after its 5 s.
Fairness == WF_vars(Library) /\ WF_vars(DoHeartbeat) /\ WF_vars(Tick)
            /\ WF_vars(WaitDestroyedTimeout)

Spec == Init /\ [][Next]_vars /\ Fairness

-----------------------------------------------------------------------------
TypeOK ==
    /\ wstate \in {"constructed", "ready", "finishing", "failed", "finished", "destroyed"}
    /\ producer \in Handles /\ topic \in Handles
    /\ buffer \in Seq(Records)
    /\ last_send \in 1..MaxTime /\ now \in 1..MaxTime
    /\ queue \in Seq(Seq(Records)) /\ delivered \in Seq(Seq(Records))
    /\ rejected \subseteq Records /\ expired \subseteq Records
    /\ purged \subseteq Records /\ written \subseteq Records
    /\ status \in {"ok", "crash"}

(***************************************************************************)
(* Every record handed to DoWrite is in exactly one place: in the buffer,  *)
(* once in one message of the queue or of the broker, or reported as a     *)
(* failed produce, expired, or purged at shutdown.  So BatchIndex neither  *)
(* drops a record without a report when produce fails on a full queue nor *)
(* sends one twice.                                                        *)
(***************************************************************************)
Occurrences(r, s) == Cardinality({i \in DOMAIN s : s[i] = r})

\* The places of r in a sequence of messages, as <<message, index>> pairs:
\* one per occurrence of r in the messages put end to end.
Positions(r, ms) ==
    UNION {{<<i, j>> : j \in {k \in DOMAIN ms[i] : ms[i][k] = r}} : i \in DOMAIN ms}

EveryRecordAccounted ==
    \A r \in written :
        Occurrences(r, buffer) + Cardinality(Positions(r, queue))
          + Cardinality(Positions(r, delivered))
          + Cardinality({S \in {rejected, expired, purged} : r \in S}) = 1

(* No handle is used or deleted when it is garbage, freed or NULL: produce *)
(* and the destructor touch only live producer and topic handles.          *)
HandlesSafe == status = "ok"

(***************************************************************************)
(* Whatever way DoInit ends, the only undefined behaviour is the           *)
(* destructor's delete of a pointer the constructor left uninitialised and *)
(* DoInit never assigned (its returns at lines 106 and 121): produce is    *)
(* never called through a NULL or unset topic, a NULL handle is skipped,   *)
(* and a destroyed writer crashed exactly when such a pointer remained.    *)
(***************************************************************************)
UndefinedOnlyOnUnsetHandles ==
    status = "crash" <=> wstate = "destroyed" /\ "garbage" \in {producer, topic}

(***************************************************************************)
(* A record librdkafka accepted into its queue is eventually delivered to  *)
(* the broker or dropped by librdkafka's own message timeout; it is not    *)
(* lost because the writer shut down.                                      *)
(***************************************************************************)
Queued(r) == r \in Range(FlattenSeq(queue))

AcceptedEventuallyDelivered ==
    \A r \in Records :
        Queued(r) ~> (r \in Range(FlattenSeq(delivered)) \/ r \in expired)

-----------------------------------------------------------------------------
(***************************************************************************)
(* The writer implements KafkaLog: a record is pending while it is in the  *)
(* buffer or in a message of librdkafka's queue, and its fate is final     *)
(* once it is at the broker or in one of the sets of lost records.         *)
(***************************************************************************)
InMessages(r, ms) == \E i \in DOMAIN ms : r \in Range(ms[i])

FateOf ==
    [r \in Records |->
        CASE r \in Range(buffer) \/ InMessages(r, queue) -> "pending"
          [] InMessages(r, delivered)                    -> "delivered"
          [] r \in rejected                              -> "rejected"
          [] r \in expired                               -> "expired"
          [] r \in purged                                -> "purged"
          [] OTHER                                       -> "unwritten"]

Abstract == INSTANCE KafkaLog WITH fate <- FateOf

(***************************************************************************)
(* Every behaviour of the writer, with its backend and librdkafka, is a    *)
(* behaviour of KafkaLog: records are never lost without a trace nor       *)
(* resurrected, and each one written is eventually settled.                *)
(***************************************************************************)
ImplementsKafkaLog == Abstract!Spec

=============================================================================
