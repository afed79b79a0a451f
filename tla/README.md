# Formal models of bro_kafka

This directory holds TLA+ models of the repository's code, the TLC configurations
that model-check them, and TLAPS proofs. Two programs are in scope:

* **bro-cut**, in `src/aux/bro-aux/bro-cut/bro-cut.c`. It is a filter that reads
  Bro ASCII logs on stdin and prints selected columns. It runs as one sequential
  loop.
* **The Kafka log writer**, in `src/src/logging/writers/kafka/Kafka.cc`. It is a
  Bro logging writer that sends every record to Kafka through librdkafka. Bro's
  writer thread calls its methods one at a time; librdkafka delivers the
  queued messages on its own broker thread.

## 1. Inventory

### bro-cut

| part | code | state | operations |
|------|------|-------|------------|
| driver / header state machine | `bro_cut` (318-420) | `headers_seen`, `prev_line_hdr`, `prev_fields_line`, `struct logparams lp` | one loop iteration per line: the `#fields`→`#types` check (348), the header-block counter (363-370), `#separator` (372-378), `#fields` (379-385), `#types` (386-399), display (402-411), end of input |
| ColumnResolver | `find_output_indexes` (142-234), `string_index` (60-68) | `lp.out_indexes`, `lp.idx_range`, `lp.num_fields`, `lp.tmp_fields` | all columns; selected columns (-1 for unknown names); `-n` negation |
| TimeColumnDetector | `find_timecol` (99-134) | `lp.time_cols` | reallocated to `idx_range` entries; fatal on a short `#types` line |
| LineProjector | `output_indexes` (239-312) | reads `tmp_fields` and `time_cols` | split with `strsep`; skip short lines; print the selected fields |
| SeparatorResolver | `parsesep` (83-94) | `lp.ifs`, `lp.ofs` | `\x` + `strtol`, or the literal character |
| TimeFormatter | lines 282-299 | none | `localtime`/`gmtime` + `strftime` |
| CLI | `main` (422-475) | `struct useropts` | `getopt` |

How the parts interact:

* Header lines change `lp` through the resolvers.
* Every later line is projected through `lp`.
* So a header line that is missing, out of order, short, or malformed leaves
  `lp` stale. The next projection then reads outside the buffers `lp`
  describes. This is what the model is about.

### Kafka writer

| code | what it does |
|------|--------------|
| `DoInit` | Creates the producer and the topic. |
| `DoWrite` | Formats the record into a buffer, then calls `BatchIndex`. |
| `BatchIndex` | Calls `rd_kafka_produce` and `poll(0)`, then clears the buffer. |
| `DoHeartbeat` | Calls `BatchIndex` when the buffer holds data older than `max_batch_interval`; it does not poll. |
| `DoFinish` | Calls `RdKafka::wait_destroyed(5000)`, which waits up to 5 s for librdkafka handles to be destroyed. |
| `DoRotate` | Calls Bro's `FinishedRotation`; returns false (and the backend disables the writer) only when that fails. |
| destructor | Frees the topic and the producer. |
| `DoSetBuf`, `DoFlush` | Return true and change nothing. |

It interacts with librdkafka's asynchronous delivery queue: `rd_kafka_produce`
puts a message on a local queue of `queue.buffering.max.messages` entries (or
fails when it is full), and the broker thread later delivers it or drops it on
`message.timeout.ms`.

## 2. Modules

| module | models | notes |
|--------|--------|-------|
| `BroLog` | the input stream (environment, not repository code) | Which line the log writer may write next, malformed headers included. Variables: `wphase`, `wsep`, `wschema`, `wtypes`, `wlogs`, `wdata`, and `line` (the last line written). |
| `BroCut` | the loop of `bro_cut` and every function it calls | Details below. |
| `MC_BroCut` | TLC instances | Names `{"a","b"}`; separators tab and comma, written as `\x09`, `\x2c` or `,`; column lists. |
| `BroCut_proofs` | TLAPS proofs | See §5. |
| `BroCut_memory_proofs` | TLAPS proofs of memory safety | See §5. |
| `BroCut_type_proofs` | TLAPS proof of type correctness | See §5. |
| `KafkaWriter` | `Kafka.cc`, every method, plus librdkafka and the clock as environment | Details below. |
| `KafkaLog` | the abstract promise of the writer | One variable `fate`: per record `unwritten`, `pending`, or a final fate. |
| `MC_KafkaWriter` | TLC instances | Records are model values; the set of `DoInit` outcomes is a constant. |
| `KafkaWriter_proofs` | TLAPS proofs | See §5. |

How `BroCut` corresponds to the code:

* **State.** Its variables are the program's loop state:
  * `lp` is `struct logparams`, with buffers represented by their lengths.
  * `headers_seen`, `prev_line_hdr` and `prev_fields_line` are the locals of
    the same names.
  * `status` records how the loop ended.
  * `row` is what the step printed.
* **Steps.** `ReadLine` is one whole loop iteration. It:
  1. takes a line the writer wrote (`WriteLine`);
  2. drops its last character (`StripNewline`, line 346);
  3. runs exactly one handler: `MissingTypes`, `DataLine`, `SeparatorLine`,
     `FieldsLine`, `TypesLine` or `OtherLine`.

  Each handler's guard is the `if`/`else if` of the loop. Its updates are the
  assignments of the functions it calls, and its output is `output_indexes`.
* **Undefined behaviour.** A read outside `tmp_fields` or `time_cols`, a read
  of a `tmp_fields` entry this line did not set, and `strchr` running off the
  line on a NUL separator are all undefined behaviour. Each ends the run with
  `status = "crash"`.
* **Data abstraction.** A field is a string: the column's name in data lines.
  Time formatting is `Fmt(v)`.
* **Algorithms.** `string_index`, `maxval` (`MaxIndex`) and the `-n` list
  (`Enumeration`) are written with counting and `CHOOSE`, not recursion, so
  that the proofs can use them.

How `KafkaWriter` corresponds to the code:

* **State.** `wstate` is where the backend is in the writer's life
  (constructed, ready, failed, finished, destroyed). `producer` and `topic` are
  the pointer members, each `null`, `live`, `freed` or `garbage`; the
  constructor leaves them uninitialised, so `Init` chooses `null` or `garbage`
  (the C++ undefined value). `buffer` is the ODesc buffer as a sequence of
  records, `last_send` and `now` are times, `queue` is librdkafka's local queue
  of messages (each a sequence of records), `delivered` what reached the
  broker, `rejected`, `expired` and `purged` the records lost to a full queue,
  to the message timeout and to the destructor. `written` is the records the
  backend has handed over; `status` becomes `crash` on undefined behaviour.
* **Steps.** `DoInit(outcome)` takes the code's three early returns and its
  success. `DoWrite(r)` appends the record and runs the whole of
  `BatchIndex`: produce or report a full queue, clear the buffer, set
  `last_send`. `DoHeartbeat` re-sends a buffer older than the batch interval.
  `DoRotate` is the failure of Bro's `FinishedRotation` (outside this
  repository): the writer is disabled. It is possible only when the constant
  `RotationMayFail` is TRUE; a successful rotation changes nothing and is a
  stutter. `DoFinish` enters `wait_destroyed`'s wait (`wstate = "finishing"`).
  The broker thread keeps sending or expiring during the wait, and
  `WaitDestroyedTimeout` ends it whatever is still queued, because the
  writer's own producer is still alive. `Destroy` frees both handles and
  purges the local queue. `Send`, `Expire` (the broker thread) and `Tick` are
  the environment. A record is a model value: formatting is left out, because
  no property depends on the bytes.

## 3. Runs

| run | cfg | question | result |
|-----|-----|----------|--------|
| `cut_select` | `MC_BroCut_select.cfg` | Options `-d` (UTC), `-c`, columns `b x b`: is the state typed and in range? Is every printed row the spec's projection? Is the run fatal exactly on malformed headers? | pass |
| `cut_negate` | `MC_BroCut_negate.cfg` | Options `-n a`, `-d`, `-C`, `-F '\|'`: are the indexes in range, and is the output faithful? | pass |
| `cut_allcols` | `MC_BroCut_allcols.cfg` | All columns, with `-d`, and an unterminated last line allowed: is memory never touched out of bounds, and is the run fatal iff a header is malformed? | pass |
| `cut_no_newline` | `MC_BroCut_nonewline.cfg` | Is the last field of an unterminated last line printed intact? | violation: it loses its last character (code bug, line 346) |
| `cut_bad_separator` | `MC_BroCut_badsep.cfg` | Does a malformed `\x` escape degrade to the literal character, as the spec says? | violation: it becomes NUL (line 87) |
| `cut_short_types` | `MC_BroCut_shorttypes.cfg` | Is a short `#types` line fatal without `-d`? | violation: it is not (line 394) |
| `kafka_write` | `MC_KafkaWriter_write.cfg` | Is every written record accounted for exactly once, are the handles safe when the producer was created, and is the buffer always flushed? | pass |
| `kafka_refinement` | `MC_KafkaWriter_refine.cfg` | Does the writer implement `KafkaLog`? | pass |
| `kafka_shutdown_loss` | `MC_KafkaWriter_shutdown.cfg` | Is every record accepted onto the queue eventually delivered or expired? | violation: the destructor purges it (line 198) |
| `kafka_init_failure` | `MC_KafkaWriter_initfail.cfg` | Does the destructor only free handles it created, when the brokers are rejected? | violation: it deletes uninitialised pointers (line 87) |

The properties are:

* `IndexesInRange` (invariant). Every out index is -1 or below `idx_range`.
  `idx_range` is at most `num_fields`, and `tmp_fields` is `num_fields + 1`.
  With `-d`, outside a `#fields`/`#types` pair, `time_cols` has `idx_range`
  entries.
* `MemorySafe` (invariant). No run reaches undefined behaviour.
* `FatalIffMalformed` (action property). A step is fatal exactly when the
  writer wrote a malformed header.
* `OutputFaithful` (action property). Each printed row equals a reference
  projection computed from the writer's schema, not from `lp`. This relates
  state built over several earlier lines to the current line.

For the Kafka writer:

* `EveryRecordAccounted` (invariant). Each written record occurs exactly once
  across the buffer, the queue, the delivered messages and the three sets of
  lost records: none is silently dropped or duplicated by a produce, a
  heartbeat re-send, an expiry or the destructor.
* `HandlesSafe` (invariant). The destructor never deletes an uninitialised
  pointer.
* `UndefinedOnlyOnUnsetHandles` (invariant, run `kafka_lifecycle`, with all
  four ways `DoInit` can end). The writer's only undefined behaviour is the
  destructor deleting a pointer that `DoInit`'s returns at lines 106 and 121
  left unset. `produce` never goes through a NULL topic, and a destroyed
  writer has crashed exactly when such a pointer remained.
* `AcceptedEventuallyDelivered` (liveness). A queued record is eventually
  delivered or expired.
* `ImplementsKafkaLog` (refinement). `FateOf` maps the writer's state to
  `KafkaLog`'s `fate`: pending while in the buffer or a queued message,
  otherwise the set it is in. `KafkaLog` allows a record to be written once,
  either pending or rejected, and a set of pending records to reach one final
  fate together (a delivered batch, an expiry, the destructor's purge); it
  asks that each pending record is eventually settled. Checked as a
  `PROPERTY`, this covers the safety (no fate changes twice, no resurrection)
  and the liveness.

Each property of a passing run has a mutant, listed in `PROJECT.json`, that
TLC catches.

**Bounds.** The runs use:

* 3 sub-logs, which reach two header blocks and a third one. This exercises
  `-c` versus `-C`, and schema changes between sub-logs.
* 2 data lines per sub-log.
* 2 names. Schemas are all sequences of distinct names, including the
  reordered and the shorter ones.
* The column lists include an unknown name and a duplicate.

These bounds make every branch of `find_output_indexes` and `output_indexes`
happen, along with short lines, missing and short `#types` lines, and a
separator change between sub-logs. Larger bounds only repeat the same shapes.

**Kafka bounds.** 3 records with a queue of 1 make the queue fill and reject,
batch interval 1 and 3 clock ticks make the heartbeat fire, and the set of
`DoInit` outcomes includes a failure after the producer was created.
The shutdown run uses 2 records and a queue of 2, enough to leave a message
queued at `DoFinish`. It sets `RotationMayFail` to FALSE, so that its trace
shows the loss on the normal shutdown path rather than after a failed rotation.
The lifecycle run takes all four `DoInit` outcomes with 2 records.

**Fairness and deadlock.** No fairness is assumed for bro-cut, because all its
properties are safety properties. `CHECK_DEADLOCK FALSE` is set because the program really
stops: at end of input, or on a fatal error.

For the Kafka writer, `Spec` assumes weak fairness of three things:

* `Library` (`Send` or `Expire`). librdkafka's broker thread runs on its own
  and keeps working on a non-empty queue while the producer exists.
* `DoHeartbeat`. Bro's writer thread calls it periodically while the writer
  is open.
* `Tick`. Time advances, up to `MaxTime`.
* `WaitDestroyedTimeout`. `wait_destroyed(5000)` returns after its 5 s.

No fairness is assumed for the backend's other calls: Bro may never write,
finish or destroy. `CHECK_DEADLOCK FALSE` is set because the writer really
stops once destroyed.

## 4. Findings

These are also recorded in `PROJECT.json`.

1. **Unterminated last line.** Line 346 removes the last character of every
   line. When the last line has no trailing newline, that character is real
   data, so a real character is lost.
2. **Malformed separator escape.** `parsesep` turns a malformed `\x` escape
   into a NUL separator. A following `#fields` line then makes the count at
   line 152 run past the line's terminating NUL.
3. **Short `#types` line.** The length of `#types` is checked only under
   `-d`/`-u`.
4. **Queued records lost at shutdown.** `DoFinish` (line 198) only calls
   `wait_destroyed`, which waits for handles to be destroyed; it neither
   flushes nor polls. The writer's producer is still alive, so the wait times
   out whatever is still queued. The destructor then destroys the producer
   and librdkafka purges the messages still in its local queue. TLC's trace
   runs DoWrite, DoFinish, the timeout and the destructor. A failed rotation
   followed by the destructor loses records the same way.
5. **Uninitialised handles deleted.** The constructor does not initialise
   `producer` and `topic`. When `DoInit` returns early (bad brokers, no
   producer), the destructor (line 87) deletes whatever those pointers hold.

## 5. Proofs

### `BroCut_proofs`

`THEOREM IndexesInRangeInvariant == Spec => []IndexesInRange` is proved for
every value of the constants. The only assumptions are the `ASSUME`s of
`BroLog` and `BroCut`.

`IndexesInRange` is not inductive as it stands, because the steps rewrite `lp`
with `EXCEPT`. The strengthening `IInv` adds:

* `LPShape`: `lp` is a record with those seven fields, and its index fields are
  naturals and sequences. `ifs` and `ofs` are left unconstrained, because no
  step that keeps `IndexesInRange` reads them as numbers (their range is
  the subject of `BroCut_type_proofs`).
* the types of `prev_fields_line` and `status`.

TLC checked `IInv` as an invariant on all three passing instances.

The argument runs as follows:

* **`FieldsLineShape`**: a `#fields` line carries a non-empty sequence of
  names.
* **`PayloadShape`**: whichever separator is in force, `find_output_indexes`
  gets a non-empty sequence.
* **`StringIndexRange`**, **`MaxIndexBound`**, **`EnumerationRange`** and
  **`FindOutputIndexesRange`**: the computed indexes lie in
  `-1..idx_range-1`, with `idx_range` in `1..num_fields`.
* **`FieldsLineIInv`**: `#fields` sets `prev_fields_line`, so `time_cols` may
  lag behind.
* **`TypesLineIInv`**: `#types` is fatal, keeps `lp` (without `-d`), or
  reallocates `time_cols` to `idx_range` entries.
* **`SeparatorLineIInv`**: `#separator` changes only `ifs`/`ofs`.
* **`KeepLp`**: covers every other step.

The theorem then follows by `PTL`.

### `KafkaWriter_proofs`

`THEOREM UndefinedOnlyOnUnsetHandlesInvariant == Spec =>
[]UndefinedOnlyOnUnsetHandles` holds for every set of `DoInit` outcomes,
including the early returns at lines 106 and 121. The inductive invariant
`HandleInv` ties the handles to `wstate`:

* before `DoInit`, both handles are NULL or unset;
* from a successful `DoInit` until the destructor, both are live, during
  `DoFinish`'s wait included;
* after a failed `DoInit` or rotation, either the producer is live and the
  topic live or NULL, or both are still NULL or unset;
* after the destructor, each handle is freed, NULL or unset, and `status` is
  `crash` exactly when one is unset.

It is needed because the property says nothing about the handles the
destructor will meet. `BatchIndexSafe` shows that `produce` runs only in
`ready`, where the topic is live. `HandlesSafe` itself fails when `DoInit`
returns early (finding 5). This theorem states exactly what does hold there.

`THEOREM TypeCorrect == Spec => []TypeOK` is proved for every record set,
queue size, batch interval, time bound and set of init outcomes. `TypeOK` is
inductive as it stands (`LEMMA TypeStep`); the only care needed is in
`BatchIndex`, whose queue-full branch (`rd_kafka_produce` returning
`QUEUE_FULL`) moves the batch to `rejected`.

`THEOREM RefinesKafkaLogSafety == Spec => Abstract!SafetySpec` proves the
safety half of `ImplementsKafkaLog`: under `FateOf`, `Init` maps to
`KafkaLog`'s `Init` and every step maps to a `Write`, a `Settle` or a stutter.
The layout is the standard one: an initial-state step, a step-simulation step
with one case per action, and `PTL`. The step-simulation needs the inductive
invariant `FateInv == TypeOK /\ PlacesInv`, where `PlacesInv` says:

* `buffer = <<>>` between steps. `DoWrite` always ends with `BatchIndex`,
  which sends every buffered record, so no record is "pending in the buffer"
  when another action runs.
* every queued message is non-empty, and no record sits in two messages.
* the records of the queue, the delivered messages, `rejected`, `expired` and
  `purged` are pairwise disjoint and together equal `written`.

Without disjointness `FateOf`'s `CASE` is a `CHOOSE` among overlapping
guards, and a `Send` could not be shown to move exactly the head message's
records from "pending" to "delivered". The lemmas `RecsAppend`, `RecsTail`,
`AppendMessage` and `TailMessages` say what `Append` and `Tail` do to the set
of queued records; `FateOfValue` evaluates `FateOf` from the places.
`Destroy` with an empty queue is a stutter; with a non-empty queue it is
`Settle(Recs(queue), "purged")`, which is the model of the records lost at
shutdown (finding `kafka_shutdown_loss`).

`THEOREM FinalFateNeverChanges == Spec => Abstract!FinalFateStable` follows
from the refinement. Every `KafkaLog` step keeps a final fate
(`AbstractStepKeepsFinal`): `Write` only touches an unwritten record, and
`Settle` only pending ones. So a record at the broker, rejected, expired or
purged never returns to the queue and never moves to another of those places.

`THEOREM EveryRecordAccountedInvariant == Spec => []EveryRecordAccounted`
proves the counting invariant for every value of the constants.
`EveryRecordAccounted` counts a record's places in a sequence of messages as
`Positions(r, ms)`, its `<<message, index>>` pairs. That number equals its
count in the messages put end to end. The set form lets the provers count
without evaluating a recursive concatenation. The inductive invariant is
`AccInv`, which extends `FateInv` with two facts:

* every message of the queue and of the broker holds exactly one record,
  because the buffer `DoWrite` appends to is empty;
* no record is in two messages at the broker.

`PositionsCount` turns one message into one position, and `LostCount` counts
the three disjoint sets of lost records.

### `BroCut_memory_proofs`

`THEOREM MemorySafeInvariant == ASSUME NoNulSeparator PROVE Spec =>
[]MemorySafe` proves that bro_cut never reads outside `tmp_fields` or
`time_cols`, never reads an unset `tmp_fields` entry, and never counts past
the end of a `#fields` line. This holds for every column list and option
setting, and for every stream whose `#separator` specs decode to a non-NUL
byte.

`NoNulSeparator` is a hypothesis of the theorem, not an `ASSUME`. The code
does not guarantee it: a malformed `\x` escape gives NUL (finding
`cut_bad_separator`, line 87), and then the `strchr` count at line 152 runs
past the line. The passing runs' `MCSepSpecs` satisfy it; the violation run
shows what happens when it fails.

`MemorySafe` is not inductive. The strengthening `MInv` adds the following:

* `IInv`, the invariant of `IndexesInRangeInvariant`;
* `WInv`, the writer's schema and types, so that every line value is a name,
  a type or a `close` stamp (`WriteLineVals`, `StripNewlineShape`);
* `status # "crash"`;
* `lp.ifs # 0`;
* `prev_fields_line => lp.num_fields >= 1`. A `#types` line prints through
  the `lp` of the `#fields` line before it.

TLC checked `MInv` as an invariant on the three passing bro-cut instances.

`OutputSafe` is the core lemma. `output_indexes` does not fault when its
indexes are in range, `tmp_fields` is sized `num_fields + 1`, a header
print has at least one field, and a data print has `time_cols` as long as
`idx_range`. The data case holds because `DataLine` runs only when
`prev_fields_line` is false.

`ShowHeaderSafe` lifts `OutputSafe` to the header echo. `MInvStep` takes one
case per line kind, then `EndOfInput` and the stutter.

### `BroCut_type_proofs`

`THEOREM TypeCorrect == Spec => []TypeOK` proves bro-cut's type invariant for
every value of the constants. The inductive invariant is
`TInv == IInv /\ WInv /\ TypeOK`:

* `IInv` supplies the shape of `lp`.
* `WInv` lets `StripNewline` keep a line's kind and separator spec, so a
  `#separator` line's spec is one of `SepSpecs`.
* `TypeOK` supplies its own ranges.

The core lemma is `ParsesepRange`: `parsesep` yields a byte for every spec
in `SpecRecs`.

`parsesep` is written in closed form, not as the value `strtol`
accumulates digit by digit: the provers cannot evaluate that recursive
function without induction. The closed form follows what the `char`
conversion at line 88 keeps:

* the low byte of `strtol`'s `long` is the last two hex digits read
  (`LowByte`, `HexDigit`);
* `strtol` saturates at `LONG_MAX` (low byte 255) when the digits, without
  their leading zeros, make `2^63` or more (`StrtolOverflows`).

The model's escape is a sequence of hex digits ended by a non-digit. It
leaves out what `strtol` also accepts before the digits: leading white space,
a sign and a `0x` prefix. For example, `\x-1` is 255 in C and 0 in the
model. No property tells these apart: every result is still a byte, and a
malformed escape still gives NUL.

`MC_BroCut`'s `ASSUME ParsesepMatchesStrtol` checks the closed form against
the digit-by-digit accumulation for every spec of at most four digits. TLC
evaluates it on every bro-cut run. The saturation is beyond TLC's integers and
is not part of that check.

These stay with TLC only:

* `OutputFaithful` and `FatalIffMalformed`. Their reference definitions use
  `Max`, `SelectSeq` and `CHOOSE` over the schema, and would need induction
  over sequences.
* For the Kafka writer, the fairness half of `ImplementsKafkaLog` (every
  pending record is eventually settled). It needs `ENABLED` and the weak
  fairness of librdkafka's thread, which the provers do not handle.
  `AcceptedEventuallyDelivered` is a violation run, not a claim.

## 6. Not modelled

* **The `strftime` calendar and `MAX_TIMESTAMP_LEN`.** These depend on the
  user's format string, not on control.
* **Command-line parsing.** The options are the constants.
* **The bytes of a Kafka record.** `DoWrite` formats with Bro's ASCII
  formatter, which escapes NUL; the model's records are opaque values, and the
  `rd_kafka_produce` length is the buffer's length.
* **librdkafka's internals** beyond its local queue: brokers, retries,
  partitions. `Send` and `Expire` abstract them.
* **Bro's `WriterBackend`.** It is not in this repository; the order of calls
  in `Writer` follows its documented contract.

## 7. Plan for later sittings

1. **An abstract `CutSpec`.** A row per line, equal to the projection of the
   writer's schema, with `BroCut` shown to implement it under terminated lines
   and well-formed headers.
2. **A run with a `#separator \x00` sub-log**, reaching the line-152 overrun.
3. **More proofs.** `FatalIffMalformed` under `-d`, with the separator specs
   parsing to the writer's separator. The missing piece is a lemma that
   relates `MaxIndex` to the largest reference position without `Max`'s
   `CHOOSE`.
