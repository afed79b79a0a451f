------------------------- MODULE KafkaWriter_proofs -------------------------
(***************************************************************************)
(* Proofs about the Kafka writer for every value of the constants.        *)
(***************************************************************************)
EXTENDS KafkaWriter, TLAPS, FiniteSetTheorems

(***************************************************************************)
(* Where the writer is determines its handles.  Before DoInit they are    *)
(* whatever the allocation left, NULL or unset.  A failed DoInit leaves     *)
(* them so when it returns before Producer::create (line 106) or when that  *)
(* returns NULL (line 121); after Topic::create failed the producer is live *)
(* and the topic NULL.  From a successful DoInit up to the destructor both *)
(* are live.  After the destructor a handle is freed, NULL or still unset, *)
(* and the writer crashed exactly when one was unset.                      *)
(***************************************************************************)
Unset == {"null", "garbage"}

HandleInv ==
    /\ wstate \in {"constructed", "ready", "finishing", "failed", "finished", "destroyed"}
    /\ wstate # "destroyed" => status = "ok"
    /\ wstate = "constructed" => producer \in Unset /\ topic \in Unset
    /\ wstate \in {"ready", "finishing", "finished"} => producer = "live" /\ topic = "live"
    /\ wstate = "failed" =>
           \/ producer = "live" /\ topic \in {"live", "null"}
           \/ producer \in Unset /\ topic \in Unset
    /\ wstate = "destroyed" =>
           /\ producer \in {"freed", "null", "garbage"}
           /\ topic \in {"freed", "null", "garbage"}
           /\ (status = "crash" <=> "garbage" \in {producer, topic})

\* The BatchIndex of DoWrite and DoHeartbeat: run in "ready", where the
\* topic is live, it keeps the status and the handles.
LEMMA BatchIndexSafe ==
    ASSUME HandleInv, wstate = "ready", NEW b, BatchIndex(b),
           UNCHANGED <<wstate, producer, topic>>
    PROVE  HandleInv'
<1>1. topic = "live" /\ producer = "live" /\ status = "ok"
    BY DEF HandleInv
<1>2. status' = "ok"
    BY <1>1 DEF BatchIndex
<1> QED
    BY <1>1, <1>2 DEF HandleInv

(***************************************************************************)
(* Whichever way DoInit ends, for every record set, queue size, batch     *)
(* interval and time bound, the only undefined behaviour of the writer is  *)
(* the destructor's delete of a pointer the constructor left unset and      *)
(* DoInit never assigned: produce is never called through a NULL or unset  *)
(* topic, NULL handles are skipped, and a destroyed writer crashed exactly *)
(* when such a pointer remained.                                           *)
(***************************************************************************)
THEOREM UndefinedOnlyOnUnsetHandlesInvariant == Spec => []UndefinedOnlyOnUnsetHandles
<1>1. Init => HandleInv
    BY DEF Init, HandleInv, Unset
<1>2. HandleInv /\ [Next]_vars => HandleInv'
    <2> SUFFICES ASSUME HandleInv, [Next]_vars PROVE HandleInv'
        OBVIOUS
    <2>1. ASSUME NEW o \in InitOutcomes, DoInit(o) PROVE HandleInv'
        <3>1. wstate = "constructed" /\ producer \in Unset /\ topic \in Unset /\ status = "ok"
            BY <2>1 DEF DoInit, HandleInv
        <3>2. o \in {"ok", "bad_brokers", "no_producer", "no_topic"}
            BY InitOutcomesAssumption
        <3> QED
            BY <2>1, <3>1, <3>2 DEF DoInit, HandleInv, Unset
    <2>2. ASSUME NEW r \in Records, DoWrite(r) PROVE HandleInv'
        BY <2>2, BatchIndexSafe DEF DoWrite
    <2>3. CASE DoHeartbeat
        <3>1. CASE last_send > 0 /\ buffer # <<>> /\ now - last_send > MaxBatchInterval
            BY <2>3, <3>1, BatchIndexSafe DEF DoHeartbeat
        <3>2. CASE ~(last_send > 0 /\ buffer # <<>> /\ now - last_send > MaxBatchInterval)
            BY <2>3, <3>2 DEF DoHeartbeat, HandleInv
        <3> QED
            BY <3>1, <3>2
    <2>4. CASE DoRotate \/ DoFinish \/ WaitDestroyedTimeout
        BY <2>4 DEF DoRotate, DoFinish, WaitDestroyedTimeout, HandleInv
    <2>5. CASE Destroy
        <3>1. status = "ok" /\ wstate \in {"failed", "finished"}
            BY <2>5 DEF Destroy, HandleInv
        <3>2. \/ producer = "live" /\ topic \in {"live", "null"}
              \/ producer \in Unset /\ topic \in Unset
            BY <3>1 DEF HandleInv
        <3> QED
            BY <2>5, <3>1, <3>2 DEF Destroy, Freed, HandleInv, Unset
    <2>6. CASE Tick \/ Send \/ Expire \/ UNCHANGED vars
        BY <2>6 DEF Tick, Send, Expire, vars, HandleInv
    <2> QED
        BY <2>1, <2>2, <2>3, <2>4, <2>5, <2>6 DEF Next, Writer, Library
<1>3. HandleInv => UndefinedOnlyOnUnsetHandles
    BY DEF HandleInv, UndefinedOnlyOnUnsetHandles
<1> QED
    BY <1>1, <1>2, <1>3, PTL DEF Spec
-----------------------------------------------------------------------------
(***************************************************************************)
(* The records of a sequence of messages, and the inductive invariant     *)
(* behind the refinement of KafkaLog.  DoWrite hands every record to      *)
(* BatchIndex at once, so the buffer is empty between calls; every queued *)
(* message holds a record; no record is in two queued messages; and the   *)
(* records written are split, without overlap, between the queue, the     *)
(* broker and the three sets of lost records.                              *)
(***************************************************************************)
Recs(ms) == UNION {Range(ms[i]) : i \in DOMAIN ms}

NonEmptyMessages(ms) == \A i \in DOMAIN ms : ms[i] # <<>>

DisjointMessages(ms) ==
    \A i, j \in DOMAIN ms : i # j => Range(ms[i]) \cap Range(ms[j]) = {}

PlacesInv ==
    /\ buffer = <<>>
    /\ NonEmptyMessages(queue)
    /\ DisjointMessages(queue)
    /\ Recs(queue) \cup Recs(delivered) \cup rejected \cup expired \cup purged = written
    /\ Recs(queue) \cap (Recs(delivered) \cup rejected \cup expired \cup purged) = {}
    /\ Recs(delivered) \cap (rejected \cup expired \cup purged) = {}
    /\ rejected \cap (expired \cup purged) = {}
    /\ expired \cap purged = {}

FateInv == TypeOK /\ PlacesInv

\* Every step of the writer, its backend, librdkafka or the clock keeps TypeOK.
LEMMA TypeStep == TypeOK /\ [Next]_vars => TypeOK'
<1> USE QueueMaxAssumption, MaxTimeAssumption, InitOutcomesAssumption
<1>1. TypeOK /\ [Next]_vars => TypeOK'
    <2> SUFFICES ASSUME TypeOK, [Next]_vars PROVE TypeOK'
        OBVIOUS
    <2>1. ASSUME NEW o \in InitOutcomes, DoInit(o) PROVE TypeOK'
        BY <2>1 DEF DoInit, TypeOK, Handles
    <2>2. ASSUME NEW b \in Seq(Records), BatchIndex(b),
                 UNCHANGED <<wstate, producer, topic, now, delivered, expired, purged>>,
                 written' \subseteq Records
          PROVE  TypeOK'
        <3>1. Range(b) \subseteq Records
            BY DEF Range
        <3>2. Append(queue, b) \in Seq(Seq(Records))
            BY DEF TypeOK
        <3>3. queue' \in Seq(Seq(Records)) /\ rejected' \subseteq Records
            <4>1. CASE Len(queue) < QueueMax
                BY <2>2, <3>2, <4>1 DEF BatchIndex, TypeOK
            <4>2. CASE ~(Len(queue) < QueueMax)
                BY <2>2, <3>1, <4>2 DEF BatchIndex, TypeOK
            <4> QED
                BY <4>1, <4>2
        <3>4. status' \in {"ok", "crash"} /\ buffer' = <<>> /\ last_send' = now
            BY <2>2 DEF BatchIndex, TypeOK
        <3> QED
            BY <2>2, <3>3, <3>4 DEF TypeOK
    <2>3. ASSUME NEW r \in Records, DoWrite(r) PROVE TypeOK'
        <3>1. Append(buffer, r) \in Seq(Records)
            BY DEF TypeOK
        <3>2. written' \subseteq Records
            BY <2>3 DEF DoWrite, TypeOK
        <3> QED
            BY <2>3, <3>1, <3>2, <2>2 DEF DoWrite
    <2>4. CASE DoHeartbeat
        <3>1. CASE last_send > 0 /\ buffer # <<>> /\ now - last_send > MaxBatchInterval
            BY <2>4, <3>1, <2>2 DEF DoHeartbeat, TypeOK
        <3>2. CASE ~(last_send > 0 /\ buffer # <<>> /\ now - last_send > MaxBatchInterval)
            BY <2>4, <3>2 DEF DoHeartbeat, TypeOK
        <3> QED
            BY <3>1, <3>2
    <2>5. CASE DoRotate \/ DoFinish \/ WaitDestroyedTimeout
        BY <2>5 DEF DoRotate, DoFinish, WaitDestroyedTimeout, TypeOK
    <2>6. CASE Destroy
        <3>1. UNION {Range(queue[i]) : i \in DOMAIN queue} \subseteq Records
            BY DEF TypeOK, Range
        <3> QED
            BY <2>6, <3>1 DEF Destroy, Freed, TypeOK, Handles
    <2>7. CASE Tick
        BY <2>7 DEF Tick, TypeOK
    <2>8. CASE Send \/ Expire
        <3>1. queue # <<>>
            BY <2>8 DEF Send, Expire
        <3>2. Head(queue) \in Seq(Records) /\ Tail(queue) \in Seq(Seq(Records))
            BY <3>1 DEF TypeOK
        <3>3. Range(Head(queue)) \subseteq Records
            BY <3>2 DEF Range
        <3>4. Append(delivered, Head(queue)) \in Seq(Seq(Records))
            BY <3>2 DEF TypeOK
        <3>5. CASE Send
            BY <3>5, <3>2, <3>4 DEF Send, TypeOK
        <3>6. CASE Expire
            BY <3>6, <3>2, <3>3 DEF Expire, TypeOK
        <3> QED
            BY <2>8, <3>5, <3>6
    <2>9. CASE UNCHANGED vars
        BY <2>9 DEF vars, TypeOK
    <2> QED
        BY <2>1, <2>3, <2>4, <2>5, <2>6, <2>7, <2>8, <2>9 DEF Next, Writer, Library
<1> QED
    BY <1>1

(***************************************************************************)
(* Type correctness: every variable keeps the type TypeOK gives it, for    *)
(* every queue size, batch interval and time bound -- in particular the    *)
(* clock and last_send stay within 1..MaxTime, and librdkafka's queue and  *)
(* the broker hold only sequences of records.                              *)
(***************************************************************************)
THEOREM TypeCorrect == Spec => []TypeOK
<1>1. Init => TypeOK
    BY MaxTimeAssumption DEF Init, TypeOK, Handles
<1> QED
    BY <1>1, TypeStep, PTL DEF Spec
-----------------------------------------------------------------------------
(* Lemmas on the records of a sequence of messages. *)

\* No message, no record.
LEMMA RecsEmpty == Recs(<<>>) = {}
BY DEF Recs

\* Appending a message adds its records.
LEMMA RecsAppend ==
    ASSUME NEW S, NEW ms \in Seq(Seq(S)), NEW m \in Seq(S)
    PROVE  Recs(Append(ms, m)) = Recs(ms) \cup Range(m)
<1>1. DOMAIN Append(ms, m) = DOMAIN ms \cup {Len(ms) + 1}
    OBVIOUS
<1>2. \A i \in DOMAIN ms : Append(ms, m)[i] = ms[i]
    OBVIOUS
<1>3. Append(ms, m)[Len(ms) + 1] = m
    OBVIOUS
<1> QED
    BY <1>1, <1>2, <1>3 DEF Recs

\* The records of a queue are those of its head and of its tail.
LEMMA RecsTail ==
    ASSUME NEW S, NEW ms \in Seq(Seq(S)), ms # <<>>
    PROVE  Recs(ms) = Range(Head(ms)) \cup Recs(Tail(ms))
<1>1. DOMAIN Tail(ms) = 1..(Len(ms) - 1) /\ DOMAIN ms = 1..Len(ms) /\ Len(ms) >= 1
    OBVIOUS
<1>2. \A i \in DOMAIN Tail(ms) : Tail(ms)[i] = ms[i + 1]
    OBVIOUS
<1>3. Head(ms) = ms[1]
    OBVIOUS
<1>4. \A k \in DOMAIN ms : k = 1 \/ (k - 1 \in DOMAIN Tail(ms) /\ Tail(ms)[k - 1] = ms[k])
    BY <1>1, <1>2
<1>5. \A i \in DOMAIN Tail(ms) : i + 1 \in DOMAIN ms /\ 1 \in DOMAIN ms
    BY <1>1
<1>6. Recs(ms) \subseteq Range(Head(ms)) \cup Recs(Tail(ms))
    BY <1>3, <1>4 DEF Recs
<1>7. Range(Head(ms)) \cup Recs(Tail(ms)) \subseteq Recs(ms)
    BY <1>2, <1>3, <1>5 DEF Recs
<1> QED
    BY <1>6, <1>7

\* InMessages is membership in the records.
LEMMA InMessagesRecs ==
    ASSUME NEW r, NEW ms
    PROVE  InMessages(r, ms) <=> r \in Recs(ms)
BY DEF InMessages, Recs

\* Appending a message of records that no queued message holds keeps the
\* messages non-empty and disjoint.
LEMMA AppendMessage ==
    ASSUME NEW S, NEW ms \in Seq(Seq(S)), NEW m \in Seq(S), m # <<>>,
           NonEmptyMessages(ms), DisjointMessages(ms),
           Range(m) \cap Recs(ms) = {}
    PROVE  NonEmptyMessages(Append(ms, m)) /\ DisjointMessages(Append(ms, m))
<1>1. DOMAIN Append(ms, m) = DOMAIN ms \cup {Len(ms) + 1} /\ Len(ms) + 1 \notin DOMAIN ms
    OBVIOUS
<1>2. \A i \in DOMAIN ms : Append(ms, m)[i] = ms[i]
    OBVIOUS
<1>3. Append(ms, m)[Len(ms) + 1] = m
    OBVIOUS
<1>4. \A i \in DOMAIN ms : Range(ms[i]) \subseteq Recs(ms)
    BY DEF Recs
<1>5. NonEmptyMessages(Append(ms, m))
    BY <1>1, <1>2, <1>3 DEF NonEmptyMessages
<1>6. DisjointMessages(Append(ms, m))
    BY <1>1, <1>2, <1>3, <1>4 DEF DisjointMessages
<1> QED
    BY <1>5, <1>6

\* Taking the head off disjoint, non-empty messages leaves disjoint,
\* non-empty messages, none of which shares a record with the head.
LEMMA TailMessages ==
    ASSUME NEW S, NEW ms \in Seq(Seq(S)), ms # <<>>,
           NonEmptyMessages(ms), DisjointMessages(ms)
    PROVE  /\ NonEmptyMessages(Tail(ms))
           /\ DisjointMessages(Tail(ms))
           /\ Range(Head(ms)) \cap Recs(Tail(ms)) = {}
           /\ Range(Head(ms)) # {}
<1>1. DOMAIN Tail(ms) = 1..(Len(ms) - 1) /\ DOMAIN ms = 1..Len(ms) /\ Len(ms) >= 1
    OBVIOUS
<1>2. \A i \in DOMAIN Tail(ms) : Tail(ms)[i] = ms[i + 1] /\ i + 1 \in DOMAIN ms /\ i + 1 # 1
    BY <1>1
<1>3. Head(ms) = ms[1] /\ 1 \in DOMAIN ms
    BY <1>1
<1>4. NonEmptyMessages(Tail(ms))
    BY <1>2 DEF NonEmptyMessages
<1>5. DisjointMessages(Tail(ms))
    <2> SUFFICES ASSUME NEW i \in DOMAIN Tail(ms), NEW j \in DOMAIN Tail(ms), i # j
                 PROVE  Range(Tail(ms)[i]) \cap Range(Tail(ms)[j]) = {}
        BY DEF DisjointMessages
    <2>1. i + 1 # j + 1 /\ i + 1 \in DOMAIN ms /\ j + 1 \in DOMAIN ms
        BY <1>1
    <2>2. Tail(ms)[i] = ms[i + 1] /\ Tail(ms)[j] = ms[j + 1]
        BY <1>2
    <2> QED
        BY <2>1, <2>2 DEF DisjointMessages
<1>6. Range(Head(ms)) \cap Recs(Tail(ms)) = {}
    BY <1>2, <1>3 DEF DisjointMessages, Recs
<1>7. Head(ms) \in Seq(S) /\ Head(ms) # <<>>
    BY <1>3 DEF NonEmptyMessages
<1>8. Range(Head(ms)) # {}
    <2>1. Len(Head(ms)) >= 1 /\ DOMAIN Head(ms) = 1..Len(Head(ms))
        BY <1>7
    <2>2. 1 \in DOMAIN Head(ms)
        BY <2>1
    <2>3. Head(ms)[1] \in Range(Head(ms))
        BY <2>2 DEF Range
    <2> QED
        BY <2>3
<1> QED
    BY <1>4, <1>5, <1>6, <1>8

-----------------------------------------------------------------------------
\* Initially nothing is written and every place is empty.
LEMMA FateInvInit == Init => FateInv
<1> SUFFICES ASSUME Init PROVE FateInv
    OBVIOUS
<1>1. TypeOK
    BY MaxTimeAssumption DEF Init, TypeOK, Handles
<1> QED
    BY <1>1, RecsEmpty DEF Init, FateInv, PlacesInv, NonEmptyMessages, DisjointMessages

(***************************************************************************)
(* Every step keeps the records written split without overlap between the *)
(* queue, the broker and the lost records.  DoWrite adds a new record to   *)
(* the queue or to rejected; Send and Expire move the head message's       *)
(* records to the broker or to expired; the destructor moves all queued    *)
(* records to purged; the other steps touch none of these places.          *)
(***************************************************************************)
LEMMA FateInvStep == FateInv /\ [Next]_vars => FateInv'
<1> SUFFICES ASSUME FateInv, [Next]_vars PROVE FateInv'
    OBVIOUS
<1> USE DEF FateInv
<1>0. TypeOK'
    BY TypeStep
<1> DEFINE Lost == Recs(delivered) \cup rejected \cup expired \cup purged
<1>1. CASE UNCHANGED <<buffer, queue, delivered, rejected, expired, purged, written>>
    BY <1>0, <1>1 DEF PlacesInv, NonEmptyMessages, DisjointMessages, Recs
<1>2. ASSUME NEW r \in Records, DoWrite(r) PROVE FateInv'
    <2>1. Append(buffer, r) = <<r>> /\ Range(<<r>>) = {r}
        BY DEF PlacesInv, Range
    <2>2. r \notin Recs(queue) /\ r \notin Lost
        BY <1>2 DEF DoWrite, PlacesInv
    <2>3. written' = written \cup {r} /\ buffer' = <<>>
          /\ UNCHANGED <<delivered, expired, purged>>
        BY <1>2 DEF DoWrite, BatchIndex
    <2>4. CASE Len(queue) < QueueMax
        <3>1. queue' = Append(queue, <<r>>) /\ rejected' = rejected
            BY <1>2, <2>1, <2>4 DEF DoWrite, BatchIndex
        <3>2. <<r>> \in Seq(Records) /\ queue \in Seq(Seq(Records))
            BY DEF TypeOK
        <3>3. Recs(queue') = Recs(queue) \cup {r}
            <4>1. Recs(Append(queue, <<r>>)) = Recs(queue) \cup Range(<<r>>)
                BY <3>2, RecsAppend
            <4> QED
                BY <4>1, <3>1, <2>1
        <3>4. NonEmptyMessages(queue') /\ DisjointMessages(queue')
            BY <3>1, <3>2, <2>1, <2>2, AppendMessage DEF PlacesInv
        <3> QED
            BY <1>0, <2>2, <2>3, <3>1, <3>3, <3>4 DEF PlacesInv
    <2>5. CASE ~(Len(queue) < QueueMax)
        <3>1. queue' = queue /\ rejected' = rejected \cup {r}
            BY <1>2, <2>1, <2>5 DEF DoWrite, BatchIndex
        <3> QED
            BY <1>0, <2>2, <2>3, <3>1 DEF PlacesInv
    <2> QED
        BY <2>4, <2>5
<1>3. CASE DoHeartbeat
    BY <1>3, <1>1 DEF DoHeartbeat, PlacesInv
<1>4. CASE Destroy
    <2>1. queue' = <<>> /\ purged' = purged \cup Recs(queue)
          /\ UNCHANGED <<buffer, delivered, rejected, expired, written>>
        BY <1>4 DEF Destroy, Recs
    <2> QED
        BY <1>0, <2>1, RecsEmpty DEF PlacesInv, NonEmptyMessages, DisjointMessages
<1>5. CASE Send \/ Expire
    <2>1. queue # <<>> /\ queue' = Tail(queue) /\ queue \in Seq(Seq(Records))
        BY <1>5 DEF Send, Expire, TypeOK
    <2>2. /\ NonEmptyMessages(Tail(queue))
          /\ DisjointMessages(Tail(queue))
          /\ Range(Head(queue)) \cap Recs(Tail(queue)) = {}
        BY <2>1, TailMessages DEF PlacesInv
    <2>3. Recs(queue) = Range(Head(queue)) \cup Recs(Tail(queue))
        BY <2>1, RecsTail
    <2>4. CASE Send
        <3>1. Head(queue) \in Seq(Records) /\ delivered \in Seq(Seq(Records))
            BY <2>1 DEF TypeOK
        <3>2. Recs(delivered') = Recs(delivered) \cup Range(Head(queue))
            BY <2>4, <3>1, RecsAppend DEF Send
        <3>3. UNCHANGED <<buffer, rejected, expired, purged, written>>
            BY <2>4 DEF Send
        <3> QED
            BY <1>0, <2>1, <2>2, <2>3, <3>2, <3>3 DEF PlacesInv
    <2>5. CASE Expire
        <3>1. expired' = expired \cup Range(Head(queue))
              /\ UNCHANGED <<buffer, delivered, rejected, purged, written>>
            BY <2>5 DEF Expire
        <3> QED
            BY <1>0, <2>1, <2>2, <2>3, <3>1 DEF PlacesInv
    <2> QED
        BY <1>5, <2>4, <2>5
<1>6. CASE \E o \in InitOutcomes : DoInit(o)
    BY <1>6, <1>1 DEF DoInit
<1>7. CASE DoRotate \/ DoFinish \/ WaitDestroyedTimeout \/ Tick \/ UNCHANGED vars
    BY <1>7, <1>1 DEF DoRotate, DoFinish, WaitDestroyedTimeout, Tick, vars
<1> QED
    BY <1>2, <1>3, <1>4, <1>5, <1>6, <1>7 DEF Next, Writer, Library

-----------------------------------------------------------------------------
(***************************************************************************)
(* The refinement of KafkaLog, safety part.  Under PlacesInv the fate      *)
(* FateOf gives a record is read off the one place that holds it.          *)
(***************************************************************************)
FateFrom(x, q, d, rj, ex, pu) ==
    IF x \in Recs(q) THEN "pending"
    ELSE IF x \in Recs(d) THEN "delivered"
    ELSE IF x \in rj THEN "rejected"
    ELSE IF x \in ex THEN "expired"
    ELSE IF x \in pu THEN "purged"
    ELSE "unwritten"

\* With an empty buffer and disjoint places, FateOf is FateFrom.
LEMMA FateOfValue ==
    PlacesInv => FateOf = [x \in Records |-> FateFrom(x, queue, delivered, rejected, expired, purged)]
<1> SUFFICES ASSUME PlacesInv, NEW x \in Records
             PROVE  FateOf[x] = FateFrom(x, queue, delivered, rejected, expired, purged)
    BY DEF FateOf
<1>1. Range(buffer) = {}
    BY DEF PlacesInv, Range
<1>2. InMessages(x, queue) <=> x \in Recs(queue)
    BY InMessagesRecs
<1>3. InMessages(x, delivered) <=> x \in Recs(delivered)
    BY InMessagesRecs
<1> QED
    BY <1>1, <1>2, <1>3 DEF FateOf, FateFrom, PlacesInv

\* The same in the next state.
LEMMA FateOfValuePrimed ==
    PlacesInv' => FateOf' = [x \in Records |-> FateFrom(x, queue', delivered', rejected', expired', purged')]
<1> SUFFICES ASSUME PlacesInv', NEW x \in Records
             PROVE  FateOf'[x] = FateFrom(x, queue', delivered', rejected', expired', purged')
    BY DEF FateOf
<1>1. Range(buffer') = {}
    BY DEF PlacesInv, Range
<1>2. InMessages(x, queue') <=> x \in Recs(queue')
    BY InMessagesRecs
<1>3. InMessages(x, delivered') <=> x \in Recs(delivered')
    BY InMessagesRecs
<1> QED
    BY <1>1, <1>2, <1>3 DEF FateOf, FateFrom, PlacesInv

(***************************************************************************)
(* Every step of the writer, its backend, librdkafka and the clock is a    *)
(* step of KafkaLog or leaves every record's fate alone: DoWrite writes a  *)
(* new record, pending in the queue or rejected by a failed produce; Send, *)
(* Expire and the destructor settle the records of the head message, or   *)
(* of the whole queue, to one final fate; no step changes a final fate or *)
(* makes a record pending again.  Holds for every value of the constants. *)
(***************************************************************************)
THEOREM RefinesKafkaLogSafety == Spec => Abstract!SafetySpec
<1>1. Init => Abstract!Init
    <2> SUFFICES ASSUME Init PROVE Abstract!Init
        OBVIOUS
    <2>1. FateInv
        BY FateInvInit
    <2>2. \A x \in Records : FateFrom(x, queue, delivered, rejected, expired, purged) = "unwritten"
        BY RecsEmpty DEF Init, FateFrom
    <2> QED
        BY <2>1, <2>2, FateOfValue DEF FateInv, Abstract!Init
<1>2. FateInv /\ FateInv' /\ [Next]_vars => [Abstract!Next]_FateOf
    <2> SUFFICES ASSUME FateInv, FateInv', [Next]_vars PROVE [Abstract!Next]_FateOf
        OBVIOUS
    <2> DEFINE Fate(x) == FateFrom(x, queue, delivered, rejected, expired, purged)
               FateP(x) == FateFrom(x, queue', delivered', rejected', expired', purged')
    <2>0. /\ FateOf = [x \in Records |-> Fate(x)]
          /\ FateOf' = [x \in Records |-> FateP(x)]
        BY FateOfValue, FateOfValuePrimed DEF FateInv
    <2>1. CASE UNCHANGED <<queue, delivered, rejected, expired, purged>>
        BY <2>0, <2>1 DEF FateFrom, Fate, FateP
    <2>2. ASSUME NEW r \in Records, DoWrite(r) PROVE [Abstract!Next]_FateOf
        <3>1. r \notin Recs(queue) \cup Recs(delivered) \cup rejected \cup expired \cup purged
            BY <2>2 DEF DoWrite, FateInv, PlacesInv
        <3>2. Fate(r) = "unwritten"
            BY <3>1 DEF FateFrom, Fate
        <3>3. UNCHANGED <<delivered, expired, purged>>
            BY <2>2 DEF DoWrite
        <3>4. Recs(queue') \cup Recs(delivered') \cup rejected' \cup expired' \cup purged'
                = Recs(queue) \cup Recs(delivered) \cup rejected \cup expired \cup purged \cup {r}
            BY <2>2 DEF DoWrite, FateInv, PlacesInv
        <3>5. \A x \in Records \ {r} : FateP(x) = Fate(x)
            <4>1. CASE Len(queue) < QueueMax
                <5>1. rejected' = rejected /\ queue' = Append(queue, <<r>>)
                    BY <2>2, <4>1 DEF DoWrite, BatchIndex, FateInv, PlacesInv
                <5>2. Recs(Append(queue, <<r>>)) = Recs(queue) \cup Range(<<r>>)
                    <6>1. <<r>> \in Seq(Records) /\ queue \in Seq(Seq(Records))
                        BY DEF FateInv, TypeOK
                    <6> QED
                        BY <6>1, RecsAppend
                <5>3. Recs(queue') = Recs(queue) \cup {r}
                    BY <5>1, <5>2 DEF Range
                <5> QED
                    BY <3>3, <5>1, <5>3 DEF FateFrom, Fate, FateP
            <4>2. CASE ~(Len(queue) < QueueMax)
                <5>1. queue' = queue /\ rejected' = rejected \cup {r}
                    BY <2>2, <4>2 DEF DoWrite, BatchIndex, FateInv, PlacesInv, Range
                <5> QED
                    BY <3>3, <5>1 DEF FateFrom, Fate, FateP
            <4> QED
                BY <4>1, <4>2
        <3>6. FateP(r) \in {"pending", "rejected"}
            <4>1. r \in Recs(queue') \cup rejected'
                BY <3>3, <3>4, <3>1
            <4> QED
                BY <4>1 DEF FateFrom, FateP, FateInv, PlacesInv
        <3>7. Abstract!Write(r)
            BY <2>0, <3>2, <3>5, <3>6 DEF Abstract!Write, Fate, FateP
        <3> QED
            BY <3>7 DEF Abstract!Next
    <2>3. CASE DoHeartbeat
        BY <2>3, <2>1 DEF DoHeartbeat, FateInv, PlacesInv
    <2>4. CASE Destroy
        <3>1. queue' = <<>> /\ purged' = purged \cup Recs(queue)
              /\ UNCHANGED <<delivered, rejected, expired>>
            BY <2>4 DEF Destroy, Recs
        <3>2. CASE Recs(queue) = {}
            <4>1. \A x \in Records : FateP(x) = Fate(x)
                BY <3>1, <3>2, RecsEmpty DEF FateFrom, Fate, FateP
            <4> QED
                BY <2>0, <4>1
        <3>3. CASE Recs(queue) # {}
            <4>1. Recs(queue) \in SUBSET Records
                BY DEF FateInv, TypeOK, Recs, Range
            <4>2. \A x \in Records : FateP(x) = IF x \in Recs(queue) THEN "purged" ELSE Fate(x)
                BY <3>1, RecsEmpty DEF FateInv, PlacesInv, FateFrom, Fate, FateP
            <4>3. \A x \in Recs(queue) : Fate(x) = "pending"
                BY DEF FateFrom, Fate
            <4>4. Abstract!Settle(Recs(queue), "purged")
                BY <2>0, <3>3, <4>1, <4>2, <4>3 DEF Abstract!Settle
            <4> QED
                BY <4>1, <4>4 DEF Abstract!Next, Abstract!Final
        <3> QED
            BY <3>2, <3>3
    <2>5. ASSUME NEW f \in {"delivered", "expired"},
                 \/ f = "delivered" /\ Send
                 \/ f = "expired" /\ Expire
          PROVE  [Abstract!Next]_FateOf
        <3> DEFINE H == Range(Head(queue))
        <3>1. queue # <<>> /\ queue' = Tail(queue) /\ queue \in Seq(Seq(Records))
            BY <2>5 DEF Send, Expire, FateInv, TypeOK
        <3>2. Recs(queue) = H \cup Recs(Tail(queue)) /\ H \cap Recs(Tail(queue)) = {} /\ H # {}
            BY <3>1, RecsTail, TailMessages DEF FateInv, PlacesInv
        <3>3. H \in SUBSET Records
            <4>1. Head(queue) \in Seq(Records)
                BY <3>1
            <4> QED
                BY <4>1 DEF Range
        <3>4. ASSUME f = "delivered"
              PROVE  \A x \in Records : FateP(x) = IF x \in H THEN f ELSE Fate(x)
            <4>1. Head(queue) \in Seq(Records) /\ delivered \in Seq(Seq(Records))
                BY <3>1 DEF FateInv, TypeOK
            <4>2. Recs(delivered') = Recs(delivered) \cup H
                BY <2>5, <3>4, <4>1, RecsAppend DEF Send
            <4>3. UNCHANGED <<rejected, expired, purged>>
                BY <2>5, <3>4 DEF Send
            <4>4. \A x \in Records : FateP(x) = IF x \in H THEN "delivered" ELSE Fate(x)
                BY <3>1, <3>2, <4>2, <4>3 DEF FateFrom, Fate, FateP, FateInv, PlacesInv
            <4> QED
                BY <3>4, <4>4
        <3>5. ASSUME f = "expired"
              PROVE  \A x \in Records : FateP(x) = IF x \in H THEN f ELSE Fate(x)
            <4>1. expired' = expired \cup H /\ UNCHANGED <<delivered, rejected, purged>>
                BY <2>5, <3>5 DEF Expire
            <4>2. H \cap (Recs(delivered) \cup rejected) = {}
                BY <3>2 DEF FateInv, PlacesInv
            <4>3. \A x \in Records : FateP(x) = IF x \in H THEN "expired" ELSE Fate(x)
                BY <3>1, <3>2, <4>1, <4>2 DEF FateFrom, Fate, FateP, FateInv, PlacesInv
            <4> QED
                BY <3>5, <4>3
        <3>6. \A x \in Records : FateP(x) = IF x \in H THEN f ELSE Fate(x)
            BY <3>4, <3>5
        <3>7. \A x \in H : Fate(x) = "pending"
            BY <3>2 DEF FateFrom, Fate
        <3>8. Abstract!Settle(H, f)
            BY <2>0, <3>2, <3>3, <3>6, <3>7 DEF Abstract!Settle
        <3> QED
            BY <3>3, <3>8 DEF Abstract!Next, Abstract!Final
    <2>6. CASE \E o \in InitOutcomes : DoInit(o)
        BY <2>6, <2>1 DEF DoInit
    <2>7. CASE DoRotate \/ DoFinish \/ WaitDestroyedTimeout \/ Tick \/ UNCHANGED vars
        BY <2>7, <2>1 DEF DoRotate, DoFinish, WaitDestroyedTimeout, Tick, vars
    <2> QED
        BY <2>2, <2>3, <2>4, <2>5, <2>6, <2>7 DEF Next, Writer, Library
<1> QED
    BY <1>1, <1>2, FateInvInit, FateInvStep, PTL DEF Spec, Abstract!SafetySpec

-----------------------------------------------------------------------------
(***************************************************************************)
(* The inductive invariant behind EveryRecordAccounted: FateInv, and every *)
(* message of the queue and of the broker holds exactly one record (the    *)
(* buffer is empty when DoWrite appends its record and calls BatchIndex),  *)
(* and no record is in two messages at the broker.                         *)
(***************************************************************************)
SingletonMessages(ms) == \A i \in DOMAIN ms : Len(ms[i]) = 1

AccInv ==
    /\ FateInv
    /\ SingletonMessages(queue)
    /\ SingletonMessages(delivered)
    /\ DisjointMessages(delivered)
-----------------------------------------------------------------------------
\* Appending a one-record message keeps every message one record long.
LEMMA SingletonAppend ==
    ASSUME NEW ms \in Seq(Seq(Records)), NEW m \in Seq(Records),
           SingletonMessages(ms), Len(m) = 1
    PROVE  SingletonMessages(Append(ms, m))
<1>1. DOMAIN Append(ms, m) = DOMAIN ms \cup {Len(ms) + 1}
    OBVIOUS
<1>2. \A i \in DOMAIN ms : Append(ms, m)[i] = ms[i]
    OBVIOUS
<1>3. Append(ms, m)[Len(ms) + 1] = m
    OBVIOUS
<1> QED
    BY <1>1, <1>2, <1>3 DEF SingletonMessages

\* The head of one-record messages is one record long, and so is every
\* message of the tail.
LEMMA SingletonTail ==
    ASSUME NEW ms \in Seq(Seq(Records)), ms # <<>>, SingletonMessages(ms)
    PROVE  SingletonMessages(Tail(ms)) /\ Len(Head(ms)) = 1
<1>1. DOMAIN Tail(ms) = 1..(Len(ms) - 1) /\ DOMAIN ms = 1..Len(ms) /\ Len(ms) >= 1
    OBVIOUS
<1>2. \A i \in DOMAIN Tail(ms) : Tail(ms)[i] = ms[i + 1] /\ i + 1 \in DOMAIN ms
    BY <1>1
<1>3. Head(ms) = ms[1] /\ 1 \in DOMAIN ms
    BY <1>1
<1> QED
    BY <1>2, <1>3 DEF SingletonMessages

\* One-record messages hold something.
LEMMA SingletonNonEmpty ==
    ASSUME NEW ms \in Seq(Seq(Records)), SingletonMessages(ms)
    PROVE  NonEmptyMessages(ms)
<1> SUFFICES ASSUME NEW i \in DOMAIN ms PROVE ms[i] # <<>>
    BY DEF NonEmptyMessages
<1>1. Len(ms[i]) = 1
    BY DEF SingletonMessages
<1>2. ASSUME ms[i] = <<>> PROVE Len(ms[i]) = 0
    BY <1>2
<1> QED
    BY <1>1, <1>2

\* In disjoint one-record messages a record has one position if it is in
\* one of them, and none otherwise.
LEMMA PositionsCount ==
    ASSUME NEW ms \in Seq(Seq(Records)), SingletonMessages(ms),
           DisjointMessages(ms), NEW r
    PROVE  Cardinality(Positions(r, ms)) = IF r \in Recs(ms) THEN 1 ELSE 0
<1>1. CASE r \notin Recs(ms)
    <2>1. Positions(r, ms) = {}
        BY <1>1 DEF Positions, Recs, Range
    <2> QED
        BY <1>1, <2>1, FS_EmptySet
<1>2. CASE r \in Recs(ms)
    <2>1. PICK i \in DOMAIN ms : r \in Range(ms[i])
        BY <1>2 DEF Recs
    <2>2. ms[i] \in Seq(Records) /\ Len(ms[i]) = 1
        BY DEF SingletonMessages
    <2>3. DOMAIN ms[i] = {1} /\ ms[i][1] = r
        BY <2>1, <2>2 DEF Range
    <2>4. ASSUME NEW k \in DOMAIN ms, NEW j \in DOMAIN ms[k], ms[k][j] = r
          PROVE  k = i /\ j = 1
        <3>1. ms[k] \in Seq(Records) /\ Len(ms[k]) = 1
            BY DEF SingletonMessages
        <3>2. j = 1
            BY <3>1
        <3>3. r \in Range(ms[k])
            BY <2>4 DEF Range
        <3> QED
            BY <2>1, <3>2, <3>3 DEF DisjointMessages
    <2>5. Positions(r, ms) = {<<i, 1>>}
        BY <2>3, <2>4 DEF Positions
    <2> QED
        BY <1>2, <2>5, FS_Singleton
<1> QED
    BY <1>1, <1>2

\* A record in at most one of three disjoint sets is counted once if it is
\* in one of them.
LEMMA LostCount ==
    ASSUME NEW r, NEW A, NEW B, NEW C,
           A \cap (B \cup C) = {}, B \cap C = {}
    PROVE  Cardinality({S \in {A, B, C} : r \in S}) = IF r \in A \cup B \cup C THEN 1 ELSE 0
<1>1. CASE r \in A
    <2>1. {S \in {A, B, C} : r \in S} = {A}
        BY <1>1
    <2> QED
        BY <1>1, <2>1, FS_Singleton
<1>2. CASE r \in B
    <2>1. {S \in {A, B, C} : r \in S} = {B}
        BY <1>2
    <2> QED
        BY <1>2, <2>1, FS_Singleton
<1>3. CASE r \in C
    <2>1. {S \in {A, B, C} : r \in S} = {C}
        BY <1>3
    <2> QED
        BY <1>3, <2>1, FS_Singleton
<1>4. CASE r \notin A \cup B \cup C
    <2>1. {S \in {A, B, C} : r \in S} = {}
        BY <1>4
    <2> QED
        BY <1>4, <2>1, FS_EmptySet
<1> QED
    BY <1>1, <1>2, <1>3, <1>4

\* Initially there are no messages.
LEMMA AccInvInit == Init => AccInv
<1> SUFFICES ASSUME Init PROVE AccInv
    OBVIOUS
<1>1. FateInv
    BY FateInvInit
<1> QED
    BY <1>1 DEF Init, AccInv, SingletonMessages, DisjointMessages

(***************************************************************************)
(* Every step keeps AccInv.  DoWrite queues the one-record message <<r>>   *)
(* (the buffer it appends r to is empty); Send moves the head message, one *)
(* record that no message at the broker holds, to the broker; Expire and   *)
(* the destructor only remove messages.                                    *)
(***************************************************************************)
LEMMA AccInvStep == AccInv /\ [Next]_vars => AccInv'
<1> SUFFICES ASSUME AccInv, [Next]_vars PROVE AccInv'
    OBVIOUS
<1>0. FateInv' /\ queue \in Seq(Seq(Records)) /\ delivered \in Seq(Seq(Records))
    BY FateInvStep DEF AccInv, FateInv, TypeOK
<1>1. CASE UNCHANGED <<queue, delivered>>
    BY <1>0, <1>1 DEF AccInv, SingletonMessages, DisjointMessages
<1>2. ASSUME NEW r \in Records, DoWrite(r) PROVE AccInv'
    <2>1. Append(buffer, r) = <<r>> /\ delivered' = delivered
        BY <1>2 DEF DoWrite, AccInv, FateInv, PlacesInv
    <2>2. CASE Len(queue) < QueueMax
        <3>1. queue' = Append(queue, <<r>>)
            BY <1>2, <2>1, <2>2 DEF DoWrite, BatchIndex
        <3>2. SingletonMessages(queue)
            BY DEF AccInv
        <3>3. <<r>> \in Seq(Records) /\ Len(<<r>>) = 1
            OBVIOUS
        <3>4. SingletonMessages(Append(queue, <<r>>))
            BY <1>0, <3>2, <3>3, SingletonAppend
        <3>5. SingletonMessages(queue')
            BY <3>1, <3>4
        <3> QED
            BY <1>0, <2>1, <3>5 DEF AccInv
    <2>3. CASE ~(Len(queue) < QueueMax)
        BY <1>0, <1>2, <2>1, <2>3 DEF DoWrite, BatchIndex, AccInv
    <2> QED
        BY <2>2, <2>3
<1>3. CASE DoHeartbeat
    <2>1. buffer = <<>>
        BY DEF AccInv, FateInv, PlacesInv
    <2> QED
        BY <1>1, <1>3, <2>1 DEF DoHeartbeat
<1>4. CASE Destroy
    BY <1>0, <1>4 DEF Destroy, AccInv, SingletonMessages, DisjointMessages
<1>5. CASE Send \/ Expire
    <2>1. queue # <<>> /\ queue' = Tail(queue)
        BY <1>5 DEF Send, Expire
    <2>2. SingletonMessages(queue') /\ Len(Head(queue)) = 1
        BY <1>0, <2>1, SingletonTail DEF AccInv
    <2>3. CASE Send
        <3>1. delivered' = Append(delivered, Head(queue))
            BY <2>3 DEF Send
        <3>2. Head(queue) \in Seq(Records)
            BY <1>0, <2>1
        <3>3. SingletonMessages(delivered')
            BY <1>0, <2>2, <3>1, <3>2, SingletonAppend DEF AccInv
        <3>4. Range(Head(queue)) \cap Recs(delivered) = {}
            <4>1. Recs(queue) = Range(Head(queue)) \cup Recs(Tail(queue))
                BY <1>0, <2>1, RecsTail
            <4>2. Recs(queue) \cap Recs(delivered) = {}
                BY DEF AccInv, FateInv, PlacesInv
            <4> QED
                BY <4>1, <4>2
        <3>5. Head(queue) # <<>>
            BY <2>2, <3>2
        <3>6. NonEmptyMessages(delivered)
            BY <1>0, SingletonNonEmpty DEF AccInv
        <3>7. DisjointMessages(delivered')
            BY <1>0, <3>1, <3>2, <3>4, <3>5, <3>6, AppendMessage DEF AccInv
        <3> QED
            BY <1>0, <2>2, <3>3, <3>7 DEF AccInv
    <2>4. CASE Expire
        BY <1>0, <2>2, <2>4 DEF Expire, AccInv
    <2> QED
        BY <1>5, <2>3, <2>4
<1>6. CASE \E o \in InitOutcomes : DoInit(o)
    BY <1>6, <1>1 DEF DoInit
<1>7. CASE DoRotate \/ DoFinish \/ WaitDestroyedTimeout \/ Tick \/ UNCHANGED vars
    BY <1>7, <1>1 DEF DoRotate, DoFinish, WaitDestroyedTimeout, Tick, vars
<1> QED
    BY <1>2, <1>3, <1>4, <1>5, <1>6, <1>7 DEF Next, Writer, Library

\* AccInv counts every written record once.
LEMMA AccInvAccounted == AccInv => EveryRecordAccounted
<1> SUFFICES ASSUME AccInv, NEW r \in written
             PROVE  Occurrences(r, buffer) + Cardinality(Positions(r, queue))
                      + Cardinality(Positions(r, delivered))
                      + Cardinality({S \in {rejected, expired, purged} : r \in S}) = 1
    BY DEF EveryRecordAccounted
<1>1. queue \in Seq(Seq(Records)) /\ delivered \in Seq(Seq(Records))
    BY DEF AccInv, FateInv, TypeOK
<1>2. Occurrences(r, buffer) = 0
    <2>1. {i \in DOMAIN buffer : buffer[i] = r} = {}
        BY DEF AccInv, FateInv, PlacesInv
    <2> QED
        BY <2>1, FS_EmptySet DEF Occurrences
<1>3. Cardinality(Positions(r, queue)) = IF r \in Recs(queue) THEN 1 ELSE 0
    BY <1>1, PositionsCount DEF AccInv, FateInv, PlacesInv
<1>4. Cardinality(Positions(r, delivered)) = IF r \in Recs(delivered) THEN 1 ELSE 0
    BY <1>1, PositionsCount DEF AccInv
<1>5. Cardinality({S \in {rejected, expired, purged} : r \in S})
        = IF r \in rejected \cup expired \cup purged THEN 1 ELSE 0
    BY LostCount DEF AccInv, FateInv, PlacesInv
<1>6. /\ r \in Recs(queue) \cup Recs(delivered) \cup rejected \cup expired \cup purged
      /\ Recs(queue) \cap (Recs(delivered) \cup rejected \cup expired \cup purged) = {}
      /\ Recs(delivered) \cap (rejected \cup expired \cup purged) = {}
    BY DEF AccInv, FateInv, PlacesInv
<1> QED
    BY <1>2, <1>3, <1>4, <1>5, <1>6

(***************************************************************************)
(* Every record handed to DoWrite is accounted for exactly once, for every *)
(* record set, queue size, batch interval, time bound and set of init      *)
(* outcomes: it is in one position of one message of librdkafka's queue  *)
(* or of the broker, or in exactly one of the reports of a failed produce, *)
(* an expiry or a purge at shutdown, and never in the buffer between calls.*)
(* So BatchIndex neither drops a record silently when produce fails on a   *)
(* full queue nor sends one twice.                                         *)
(***************************************************************************)
THEOREM EveryRecordAccountedInvariant == Spec => []EveryRecordAccounted
<1>1. Init => AccInv
    BY AccInvInit
<1>2. AccInv /\ [Next]_vars => AccInv'
    BY AccInvStep
<1>3. AccInv => EveryRecordAccounted
    BY AccInvAccounted
<1> QED
    BY <1>1, <1>2, <1>3, PTL DEF Spec

-----------------------------------------------------------------------------
\* No step of KafkaLog changes a final fate: Write only touches an unwritten
\* record, Settle only pending ones.
LEMMA AbstractStepKeepsFinal ==
    ASSUME [Abstract!Next]_FateOf
    PROVE  \A r \in Records : FateOf[r] \in Abstract!Final => FateOf'[r] = FateOf[r]
<1>1. CASE \E x \in Records : Abstract!Write(x)
    BY <1>1 DEF Abstract!Write, Abstract!Final, FateOf
<1>2. CASE \E S \in SUBSET Records, f \in Abstract!Final \ {"rejected"} : Abstract!Settle(S, f)
    BY <1>2 DEF Abstract!Settle, Abstract!Final
<1>3. CASE UNCHANGED FateOf
    BY <1>3
<1> QED
    BY <1>1, <1>2, <1>3 DEF Abstract!Next

(***************************************************************************)
(* The writer keeps KafkaLog's promise that a final fate never changes: a  *)
(* record at the broker, reported as a failed produce, expired by          *)
(* librdkafka or purged at shutdown never goes back to the buffer or the   *)
(* queue, nor moves to another of these places, for every record set,     *)
(* queue size, batch interval, time bound and set of init outcomes.        *)
(***************************************************************************)
THEOREM FinalFateNeverChanges == Spec => Abstract!FinalFateStable
<1>1. Abstract!SafetySpec => Abstract!FinalFateStable
    <2>1. [Abstract!Next]_FateOf
            => [\A r \in Records : FateOf[r] \in Abstract!Final => FateOf'[r] = FateOf[r]]_FateOf
        BY AbstractStepKeepsFinal
    <2> QED
        BY <2>1, PTL DEF Abstract!SafetySpec, Abstract!FinalFateStable
<1> QED
    BY <1>1, RefinesKafkaLogSafety

=============================================================================
