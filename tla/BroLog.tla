------------------------------- MODULE BroLog -------------------------------
(***************************************************************************)
(* The input of bro-cut: a stream of ASCII Bro logs concatenated on stdin. *)
(* Each sub-log is written by a log writer as a header block               *)
(*   #separator <spec>, #fields <names>, #types <types>                    *)
(* followed by data lines and an optional #close line.  This module is the *)
(* environment of the BroCut model: it says which line may come next.      *)
(* It models no code of the repository (the writer is part of Bro); it     *)
(* follows the input format of spec section 6, and it can also produce the *)
(* malformed inputs bro-cut must cope with: a missing or short #types      *)
(* line, a short data line, a last line without its newline.              *)
(*                                                                         *)
(* A line is a record: its kind, the separator byte it was written with,   *)
(* its fields after the tag (vals), the sub-log's schema and types (kept   *)
(* beside the line so that properties can say what the line means),       *)
(* whether it ends in a newline, and for #separator lines the text of the  *)
(* separator specification.  A field value is a string: a column's value   *)
(* in a data line is the column's name, so a projection can be checked.   *)
(***************************************************************************)
EXTENDS Integers, Sequences, SequencesExt

CONSTANTS
    Names,             \* column names a writer may declare
    SepSpecs,          \* set of <<byte, spec>>: a separator and a way to write it
    MaxLogs,           \* number of sub-logs in the stream
    MaxData,           \* data lines per sub-log
    AllowUnterminated  \* may the last line lack its newline?

\* A separator specification as it appears after "#separator ": either an
\* escape "\x" followed by characters (hex digits 0..15, 16 = any other
\* character), or a literal character given by its byte.
SpecRecs == [esc : BOOLEAN, digits : Seq(0..16), ch : 0..255]

ASSUME SepSpecsAssumption == SepSpecs \subseteq (1..255) \X SpecRecs
ASSUME MaxLogsAssumption == MaxLogs \in Nat
ASSUME MaxDataAssumption == MaxData \in Nat
ASSUME AllowUnterminatedAssumption == AllowUnterminated \in BOOLEAN

Seps == {p[1] : p \in SepSpecs}

\* Schemas: sequences of distinct declared names, and their type lists.
Schemas == {s \in BoundedSeq(Names, Cardinality(Names)) :
               Len(s) > 0 /\ \A i, j \in DOMAIN s : i # j => s[i] # s[j]}
TypeLists(s) == [1..Len(s) -> {"time", "string"}]

LineKinds == {"sep", "fields", "types", "other", "data"}

Line(kind, sep, vals, schema, types, spec) ==
    [kind |-> kind, sep |-> sep, vals |-> vals, schema |-> schema,
     types |-> types, nl |-> TRUE, spec |-> spec]

NoSpec == [esc |-> FALSE, digits |-> <<>>, ch |-> 0]

VARIABLES
    wphase,   \* what the writer may write next: "start", "types", "body", "eof"
    wsep,     \* separator of the current sub-log
    wschema,  \* its schema
    wtypes,   \* its types
    wlogs,    \* sub-logs begun
    wdata,    \* data lines of the current sub-log
    line      \* the line last written

wvars == <<wphase, wsep, wschema, wtypes, wlogs, wdata, line>>

WInit ==
    /\ wphase = "start"
    /\ wsep = 9
    /\ wschema = <<>>
    /\ wtypes = <<>>
    /\ wlogs = 0
    /\ wdata = 0
    /\ line = Line("data", 9, <<>>, <<>>, <<>>, NoSpec)

(***************************************************************************)
(* The writer's steps.  WriteLine is a step that writes a line, held in the variable line.  A      *)
(* sub-log's header is written in one go up to its #fields line; the       *)
(* #types line may be written, written short, or left out.                 *)
(***************************************************************************)
BeginLog ==
    /\ wphase \in {"start", "body"}
    /\ wlogs < MaxLogs
    /\ \E p \in SepSpecs :
          /\ line' = Line("sep", p[1], <<>>, <<>>, <<>>, p[2])
          /\ wsep' = p[1]
    /\ wphase' = "fields"
    /\ wlogs' = wlogs + 1
    /\ wdata' = 0
    /\ UNCHANGED <<wschema, wtypes>>

WriteFields ==
    /\ wphase = "fields"
    /\ \E s \in Schemas : \E t \in TypeLists(s) :
          /\ line' = Line("fields", wsep, s, s, <<>>, NoSpec)
          /\ wschema' = s
          /\ wtypes' = t
    /\ wphase' = "types"
    /\ UNCHANGED <<wsep, wlogs, wdata>>

\* The #types line, in full or missing its last type (a line keeps one); or a second #types
\* line among the data lines of the sub-log.
WriteTypes ==
    /\ wphase \in {"types", "body"}
    /\ \E n \in {Len(wtypes), Len(wtypes) - 1} \ {0} :
          line' = Line("types", wsep, SubSeq(wtypes, 1, n), wschema, wtypes, NoSpec)
    /\ wphase' = "body"
    /\ UNCHANGED <<wsep, wschema, wtypes, wlogs, wdata>>

\* A data line, in full or missing its last field (a line keeps one); or, right after the
\* #fields line, a data line where the #types line should have been.
WriteData ==
    /\ \/ wphase = "body" /\ wdata < MaxData
       \/ wphase = "types"
    /\ \E n \in {Len(wschema), Len(wschema) - 1} \ {0} :
          line' = Line("data", wsep, SubSeq(wschema, 1, n), wschema, wtypes, NoSpec)
    /\ wphase' = "body"
    /\ wdata' = wdata + 1
    /\ UNCHANGED <<wsep, wschema, wtypes, wlogs>>

WriteClose ==
    /\ wphase = "body"
    /\ line' = Line("other", wsep, <<"close">>, wschema, wtypes, NoSpec)
    /\ wphase' = "start"
    /\ UNCHANGED <<wsep, wschema, wtypes, wlogs, wdata>>

\* The stream may end with a data line that has no newline.
WriteLastUnterminated ==
    /\ AllowUnterminated
    /\ wphase = "body"
    /\ line' = [Line("data", wsep, wschema, wschema, wtypes, NoSpec) EXCEPT !.nl = FALSE]
    /\ wphase' = "eof"
    /\ UNCHANGED <<wsep, wschema, wtypes, wlogs, wdata>>

WriteLine ==
    \/ BeginLog
    \/ WriteFields
    \/ WriteTypes
    \/ WriteData
    \/ WriteClose
    \/ WriteLastUnterminated

=============================================================================
