------------------------------- MODULE BroCut -------------------------------
(***************************************************************************)
(* bro-cut (src/aux/bro-aux/bro-cut/bro-cut.c): the loop of bro_cut() that *)
(* reads the log stream line by line, keeps the per-log parameters of      *)
(* struct logparams up to date from the header lines, and prints the       *)
(* selected columns of every line.  One step reads one line and runs the   *)
(* whole body of the while loop for it, output included.                   *)
(*                                                                         *)
(* The user options of struct useropts are constants.  The lines come from *)
(* the log writer of module BroLog.  Memory that the code reallocates is   *)
(* represented by its length; a read or write outside it is undefined      *)
(* behaviour and ends the run with status "crash".                         *)
(***************************************************************************)
EXTENDS BroLog

CONSTANTS
    Cols,      \* bopts.columns: the column names given on the command line
    Negate,    \* bopts.negate
    TimeConv,  \* bopts.timeconv: 0 = no, 1 = local time, 2 = UTC
    ShowHdr,   \* bopts.showhdr: 0 = no headers, 1 = first block, 2 = all
    Ofs        \* bopts.ofs[0]: the -F separator, 0 when not given

ASSUME ColsAssumption == Cols \in Seq(STRING)
ASSUME NegateAssumption == Negate \in BOOLEAN
ASSUME TimeConvAssumption == TimeConv \in 0..2
ASSUME ShowHdrAssumption == ShowHdr \in 0..2
ASSUME OfsAssumption == Ofs \in 0..255

VARIABLES
    lp,                \* struct logparams
    headers_seen,      \* header blocks seen, counting stops at 2
    prev_line_hdr,     \* was the previous line a header line?
    prev_fields_line,  \* was the previous line a #fields line?
    status,            \* "running", or how the loop ended: "ok", "fatal", "crash"
    row,               \* what the last step printed on stdout, or NoRow
    dataSeen           \* has a data line been read?

cvars == <<lp, headers_seen, prev_line_hdr, prev_fields_line, status, row, dataSeen>>
vars == <<wvars, cvars>>

NoRow == [hdr |-> FALSE, tag |-> "none", sep |-> 0, vals |-> <<>>]

Tag(l) == CASE l.kind = "sep"    -> "#separator"
            [] l.kind = "fields" -> "#fields"
            [] l.kind = "types"  -> "#types"
            [] l.kind = "other"  -> "#close"
            [] l.kind = "data"   -> ""

(***************************************************************************)
(* Conversions of field text.  Fmt is strftime of atol of the field, Chop   *)
(* the loss of the last character of a line read without its newline.      *)
(***************************************************************************)
Fmt(v) == "fmt:" \o v
Chop(v) == "chop:" \o v

\* The remove-trailing-'\n' step: line[linelen - 1] = '\0' drops the last
\* character whether or not it was a newline.
StripNewline(l) ==
    IF l.nl \/ l.vals = <<>> THEN l
    ELSE [l EXCEPT !.vals[Len(l.vals)] = Chop(@)]

\* The fields strsep returns for the text of the line after its tag, with
\* separator byte sep: the line's fields if it was written with sep, else one
\* field holding the whole text (strsep with the empty delimiter set when
\* sep is 0 does the same).
Joined(vals) == IF Len(vals) = 1 THEN vals[1] ELSE "joined"
Payload(l, sep) == IF l.sep = sep THEN l.vals ELSE <<Joined(l.vals)>>

\* The fields of the whole line: a header line has its tag as field 0.
SplitLine(hdr, l, sep) ==
    IF hdr = 0 THEN Payload(l, sep)
    ELSE IF l.sep = sep THEN <<Tag(l)>> \o l.vals
    ELSE <<"joined">>

(***************************************************************************)
(* string_index: the 0-based index of the first element equal to needle,   *)
(* or -1.  The loop runs once for each element before the first match, so  *)
(* the index is the number of positions i with no match in 1..i; when it   *)
(* is the whole length there was no match.                                 *)
(***************************************************************************)
string_index(haystack, needle) ==
    LET k == Cardinality({i \in 1..Len(haystack) :
                            \A j \in 1..i : haystack[j] # needle})
    IN  IF k = Len(haystack) THEN -1 ELSE k

(***************************************************************************)
(* parsesep: "\x" and the hex digits strtol accepts (all of them, not only *)
(* two), converted to char; otherwise the first character.  The char keeps *)
(* the low byte of strtol's long, that is the last two digits read (a     *)
(* position before the first digit counts as 0).  strtol saturates at      *)
(* LONG_MAX, whose low byte is 255, when the digits without their leading  *)
(* zeros make 2^63 or more: more than 16 of them, or 16 from 8 up.         *)
(***************************************************************************)
HexLen(d) == IF \E i \in DOMAIN d : d[i] > 15
             THEN SelectInSeq(d, LAMBDA x : x > 15) - 1 ELSE Len(d)
HexDigit(d, i) == IF i \in 1..Len(d) /\ d[i] <= 15 THEN d[i] ELSE 0
LowByte(d, n) == 16 * HexDigit(d, n - 1) + HexDigit(d, n)
StrtolOverflows(d, n) ==
    \E i \in 1..n :
        /\ d[i] # 0
        /\ \A j \in 1..(i - 1) : d[j] = 0
        /\ \/ n - i > 15
           \/ n - i = 15 /\ d[i] >= 8
parsesep(spec) ==
    CASE ~spec.esc                                        -> spec.ch
      [] StrtolOverflows(spec.digits, HexLen(spec.digits)) -> 255
      [] OTHER -> LowByte(spec.digits, HexLen(spec.digits))

(***************************************************************************)
(* maxval: the largest index in out_indexes, or 0 (the loops start it at   *)
(* 0 and raise it to every larger index).  Indexes lie below n, the number *)
(* of fields, and the largest of them is the number of v in 1..n-1 that    *)
(* some index reaches.                                                     *)
(***************************************************************************)
MaxIndex(oi, n) == Cardinality({v \in 1..(n - 1) : \E i \in DOMAIN oi : oi[i] >= v})

\* idx_range = maxval + 1.
\* Mutant: idx_range set to maxval.
IdxRangeOffByOne(oi, n) == MaxIndex(oi, n)
IdxRangeOf(oi, n) == MaxIndex(oi, n) + 1

(***************************************************************************)
(* -n: the 0-based indexes of the declared names not asked for, in the     *)
(* order the loop appends them: the increasing enumeration of that set.    *)
(***************************************************************************)
Enumerations(K, n) ==
    {s \in UNION {[1..m -> K] : m \in 0..n} :
        /\ Range(s) = K
        /\ \A i, j \in DOMAIN s : i < j => s[i] < s[j]}
Enumeration(K, n) ==
    IF Enumerations(K, n) = {} THEN <<>> ELSE CHOOSE s \in Enumerations(K, n) : TRUE

\* Mutant: the indexes counted from 1.
NegateIndexesFromOne(names) ==
    Enumeration({i \in 1..Len(names) : string_index(Cols, names[i]) = -1}, Len(names))
NegateIndexes(names) ==
    Enumeration({i \in 0..(Len(names) - 1) : string_index(Cols, names[i + 1]) = -1},
                Len(names))

(***************************************************************************)
(* find_output_indexes on the names of a #fields line: the new out_indexes *)
(* and idx_range.                                                          *)
(***************************************************************************)
find_output_indexes(names) ==
    LET n == Len(names)
        oi == IF Cols = <<>> THEN [i \in 1..n |-> i - 1]
              ELSE IF ~Negate
                   THEN [i \in 1..Len(Cols) |-> string_index(names, Cols[i])]
                   ELSE NegateIndexes(names)
    IN  [out_indexes |-> oi,
         idx_range   |-> IF Cols = <<>> THEN n ELSE IdxRangeOf(oi, n)]

(***************************************************************************)
(* output_indexes(hdr, line): the fields of the line are stored in         *)
(* tmp_fields (idx_range + hdr of them); if there are fewer the line is    *)
(* skipped.  Each out index prints its field, converted on data lines when *)
(* the column is a time column, and "time" printed as "string" on #types   *)
(* lines when converting.  An index of -1 prints an empty field.  The      *)
(* result says whether memory outside tmp_fields or time_cols, or an entry *)
(* of tmp_fields this line did not set, was read.                          *)
(***************************************************************************)
output_indexes(hdr, l, p) ==
    LET f == SplitLine(hdr, l, p.ifs)
        need == p.idx_range + hdr
        dotimeconv == TimeConv # 0 /\ hdr = 0
        dotimetypeconv == TimeConv # 0 /\ hdr = 1 /\ f[1] = "#types"
        written == IF Len(f) < need THEN Len(f) ELSE need
        used == {x \in Range(p.out_indexes) : x # -1}
        Field(x) ==
            IF dotimeconv /\ p.time_cols[x + 1] THEN Fmt(f[x + 1])
            ELSE IF dotimetypeconv /\ f[x + hdr + 1] = "time" THEN "string"
            ELSE f[x + hdr + 1]
    IN  IF written > p.tmp_fields THEN [fault |-> TRUE, row |-> NoRow]
        ELSE IF Len(f) < need THEN [fault |-> FALSE, row |-> NoRow]
        ELSE IF \/ \E x \in used : x + hdr >= need
                \/ dotimeconv /\ \E x \in used : x >= Len(p.time_cols)
             THEN [fault |-> TRUE, row |-> NoRow]
        ELSE [fault |-> FALSE,
              row |-> [hdr |-> hdr = 1, tag |-> IF hdr = 1 THEN f[1] ELSE "",
                       sep |-> p.ofs,
                       vals |-> [i \in DOMAIN p.out_indexes |->
                                   IF p.out_indexes[i] = -1 THEN ""
                                   ELSE Field(p.out_indexes[i])]]]

\* puts(line): a header line echoed as it was read.
Echo(l) == [hdr |-> TRUE, tag |-> Tag(l), sep |-> l.sep, vals |-> l.vals]

-----------------------------------------------------------------------------
CInit ==
    /\ lp = [out_indexes |-> <<>>, idx_range |-> 0, time_cols |-> <<>>,
             tmp_fields |-> 0, num_fields |-> 0, ifs |-> 9, ofs |-> 9]
    /\ headers_seen = 0
    /\ prev_line_hdr = FALSE
    /\ prev_fields_line = FALSE
    /\ status = "running"
    /\ row = NoRow
    /\ dataSeen = FALSE

Init == WInit /\ CInit

\* The end of a step that printed what output_indexes returned.
Emit(o) ==
    /\ row' = o.row
    /\ status' = IF o.fault THEN "crash" ELSE status

(***************************************************************************)
(* The check at the top of the loop: the previous line was #fields and     *)
(* this one is not #types.  Fatal.                                         *)
(***************************************************************************)
\* Mutant: the check left out.
MissingTypesCheckDropped(x) == FALSE
MissingTypesCheck(x) == prev_fields_line /\ x.kind # "types"

MissingTypes(x) ==
    /\ MissingTypesCheck(x)
    /\ status' = "fatal"
    /\ row' = NoRow
    /\ UNCHANGED <<lp, headers_seen, prev_line_hdr, prev_fields_line>>

\* A data line: print its columns.
DataLine(x) ==
    /\ ~MissingTypesCheck(x)
    /\ x.kind = "data"
    /\ prev_line_hdr' = FALSE
    /\ Emit(output_indexes(0, x, lp))
    /\ UNCHANGED <<lp, headers_seen, prev_fields_line>>

\* headers_seen after a header line: a new block if the previous line was
\* not a header.
\* Mutant: the count does not stop at 2.
HeadersSeenUnbounded == IF ~prev_line_hdr THEN headers_seen + 1 ELSE headers_seen
HeadersSeenAfter == IF ~prev_line_hdr /\ headers_seen < 2
                    THEN headers_seen + 1 ELSE headers_seen

\* Is a header of block hs printed?
\* Mutant: the comparison made strict.
DisplayedStrict(hs) == ShowHdr > hs
Displayed(hs) == ShowHdr >= hs

\* The end of a header step: decide if the header is printed.
ShowHeader(x, p) ==
    IF Displayed(HeadersSeenAfter)
    THEN IF x.kind \in {"fields", "types"} THEN Emit(output_indexes(1, x, p))
         ELSE row' = Echo(x) /\ UNCHANGED status
    ELSE row' = NoRow /\ UNCHANGED status

HeaderStep ==
    /\ headers_seen' = HeadersSeenAfter
    /\ prev_line_hdr' = TRUE

\* ofs after a #separator line: the -F separator if given, else ifs.
\* Mutant: the -F separator ignored.
OfsIgnoringOverride(ifs) == ifs
OfsFor(ifs) == IF Ofs # 0 THEN Ofs ELSE ifs

SeparatorLine(x) ==
    /\ ~MissingTypesCheck(x)
    /\ x.kind = "sep"
    /\ HeaderStep
    /\ LET ifs == parsesep(x.spec)
       IN  lp' = [lp EXCEPT !.ifs = ifs, !.ofs = OfsFor(ifs)]
    /\ ShowHeader(x, lp')
    /\ UNCHANGED prev_fields_line

\* tmp_fields is reallocated to num_fields + 1: header lines have a tag.
TmpFieldsFor(n) == n + 1

\* #fields: count the fields by looking for ifs[0] with strchr; with a NUL
\* separator strchr finds the terminating NUL and the count runs off the
\* end of the line.
FieldsLine(x) ==
    /\ ~MissingTypesCheck(x)
    /\ x.kind = "fields"
    /\ HeaderStep
    /\ prev_fields_line' = TRUE
    /\ IF lp.ifs = 0
       THEN status' = "crash" /\ row' = NoRow /\ UNCHANGED lp
       ELSE LET names == Payload(x, lp.ifs)
                r == find_output_indexes(names)
            IN  /\ lp' = [lp EXCEPT !.num_fields = Len(names),
                                    !.tmp_fields = TmpFieldsFor(Len(names)),
                                    !.out_indexes = r.out_indexes,
                                    !.idx_range = r.idx_range]
                /\ ShowHeader(x, lp')

\* #types: fatal unless right after #fields; with time conversion,
\* find_timecol reallocates time_cols to idx_range and marks the "time"
\* columns, fatal if the line has fewer types than idx_range.
\* find_timecol runs out of types before idx_range.
TypesTooShort(t) == Len(t) < lp.idx_range

\* The #types check of bro_cut: no #fields line right before.
\* Mutant: the check left out.
TypesAfterFieldsDropped == FALSE
TypesWithoutFields == ~prev_fields_line

TypesLine(x) ==
    /\ ~MissingTypesCheck(x)
    /\ x.kind = "types"
    /\ HeaderStep
    /\ IF TypesWithoutFields
       THEN status' = "fatal" /\ row' = NoRow /\ UNCHANGED <<lp, prev_fields_line>>
       ELSE /\ prev_fields_line' = FALSE
            /\ IF TimeConv = 0
               THEN UNCHANGED lp /\ ShowHeader(x, lp)
               ELSE LET t == Payload(x, lp.ifs)
                    IN  IF TypesTooShort(t)
                        THEN status' = "fatal" /\ row' = NoRow /\ UNCHANGED lp
                        ELSE /\ lp' = [lp EXCEPT !.time_cols =
                                         [i \in 1..lp.idx_range |-> t[i] = "time"]]
                             /\ ShowHeader(x, lp')

\* Any other header line (#close here) is only shown or not.
OtherLine(x) ==
    /\ ~MissingTypesCheck(x)
    /\ x.kind = "other"
    /\ HeaderStep
    /\ ShowHeader(x, lp)
    /\ UNCHANGED <<lp, prev_fields_line>>

\* One iteration of the while loop of bro_cut on a line the writer wrote.
ReadLine ==
    /\ status = "running"
    /\ WriteLine
    /\ dataSeen' = (dataSeen \/ line'.kind = "data")
    /\ LET x == StripNewline(line')
       IN  \/ MissingTypes(x)
           \/ DataLine(x)
           \/ SeparatorLine(x)
           \/ FieldsLine(x)
           \/ TypesLine(x)
           \/ OtherLine(x)

\* getline finds the end of the input: the loop ends with ret = 0.
EndOfInput ==
    /\ status = "running"
    /\ status' = "ok"
    /\ row' = NoRow
    /\ UNCHANGED <<wvars, lp, headers_seen, prev_line_hdr, prev_fields_line, dataSeen>>

Next == ReadLine \/ EndOfInput

Spec == Init /\ [][Next]_vars

-----------------------------------------------------------------------------
(***************************************************************************)
(* What bro-cut should print for a line, from the writer's view of it      *)
(* (spec sections 4.2, 4.4-4.6): the positions of the selected columns in  *)
(* the sub-log's schema (0 for a name the schema lacks), the values there, *)
(* converted as the options say, and the header display policy.  A header  *)
(* belongs to the first block iff no data line came before it.            *)
(***************************************************************************)
RefPositions(S) ==
    IF Cols = <<>> THEN [i \in 1..Len(S) |-> i]
    ELSE IF ~Negate
         THEN [i \in 1..Len(Cols) |->
                 IF \E j \in DOMAIN S : S[j] = Cols[i]
                 THEN CHOOSE j \in DOMAIN S : S[j] = Cols[i] ELSE 0]
         ELSE SelectSeq([j \in 1..Len(S) |-> j], LAMBDA j : S[j] \notin Range(Cols))

RefField(l, j) ==
    CASE l.kind = "data"  -> IF TimeConv # 0 /\ l.types[j] = "time"
                             THEN Fmt(l.vals[j]) ELSE l.vals[j]
      [] l.kind = "types" -> IF TimeConv # 0 /\ l.vals[j] = "time"
                             THEN "string" ELSE l.vals[j]
      [] OTHER            -> l.vals[j]

ExpectedRow(l, seen) ==
    LET P == RefPositions(l.schema)
        complete == Len(l.vals) >= Max({1} \cup Range(P))
        shown == ShowHdr = 2 \/ (ShowHdr = 1 /\ ~seen)
        projected == [hdr |-> l.kind # "data", tag |-> Tag(l),
                      sep |-> IF Ofs # 0 THEN Ofs ELSE l.sep,
                      vals |-> [i \in DOMAIN P |->
                                  IF P[i] = 0 THEN "" ELSE RefField(l, P[i])]]
    IN  CASE l.kind = "data"               -> IF complete THEN projected ELSE NoRow
          [] l.kind \in {"fields", "types"} -> IF shown /\ complete
                                               THEN projected ELSE NoRow
          [] OTHER                         -> IF shown THEN Echo(l) ELSE NoRow

-----------------------------------------------------------------------------
(* The type invariant. *)
TypeOK ==
    /\ lp \in [out_indexes : Seq(Int), idx_range : Nat, time_cols : Seq(BOOLEAN),
               tmp_fields : Nat, num_fields : Nat, ifs : 0..255, ofs : 0..255]
    /\ headers_seen \in 0..2
    /\ prev_line_hdr \in BOOLEAN
    /\ prev_fields_line \in BOOLEAN
    /\ status \in {"running", "ok", "fatal", "crash"}
    /\ dataSeen \in BOOLEAN

(***************************************************************************)
(* The buffers cover the indexes (spec section 3): every out index is -1   *)
(* or below idx_range, idx_range is at most num_fields, tmp_fields holds   *)
(* num_fields + 1 pointers (a header line's tag), and while the run goes   *)
(* on with time conversion, outside a #fields/#types pair, time_cols has   *)
(* exactly idx_range entries.  This is what find_output_indexes,           *)
(* find_timecol and the #types check of bro_cut maintain between them, and *)
(* what makes the reads of output_indexes safe.                            *)
(***************************************************************************)
IndexesInRange ==
    /\ \A i \in DOMAIN lp.out_indexes : lp.out_indexes[i] \in -1..(lp.idx_range - 1)
    /\ lp.idx_range <= lp.num_fields
    /\ lp.tmp_fields = IF lp.num_fields = 0 THEN 0 ELSE lp.num_fields + 1
    /\ (TimeConv # 0 /\ ~prev_fields_line /\ status = "running")
          => Len(lp.time_cols) = lp.idx_range

(***************************************************************************)
(* The run stops with a fatal error exactly on a malformed header (spec    *)
(* section 7): a #fields line not followed by #types, a #types line not    *)
(* right after #fields, or a #types line with fewer types than the         *)
(* selected columns need.  wphase is the writer's state before the line.   *)
(***************************************************************************)
MalformedHeader(l) ==
    \/ wphase = "types" /\ l.kind # "types"
    \/ wphase # "types" /\ l.kind = "types"
    \/ l.kind = "types" /\ Len(l.vals) < Max({1} \cup Range(RefPositions(l.schema)))

FatalIffMalformed ==
    [][ReadLine => (status' = "fatal" <=> MalformedHeader(line'))]_vars

(* No line makes output_indexes or the field count touch memory outside  *)
(* the buffers bro-cut allocated.                                         *)
MemorySafe == status # "crash"

(***************************************************************************)
(* Every line read while the run goes on prints exactly what the spec      *)
(* says: the selected columns of the sub-log the line belongs to, in the   *)
(* requested order, empty for unknown names, time values converted and     *)
(* "time" types renamed, short lines skipped, header lines only in the     *)
(* blocks -c/-C ask for.  It relates bro_cut's header state, built from    *)
(* earlier lines, to the writer's schema for the current line.            *)
(***************************************************************************)
OutputFaithful ==
    [][ReadLine /\ status' = "running" => row' = ExpectedRow(line', dataSeen)]_vars

(***************************************************************************)
(* The separator of a "#separator" line is read as spec section 4.1 says:  *)
(* "\x" and two hex digits give their byte, a malformed escape degrades to *)
(* the first character ("\", byte 92), anything else is its first byte.   *)
(***************************************************************************)
SpecSep(spec) ==
    IF ~spec.esc THEN spec.ch
    ELSE IF Len(spec.digits) >= 2 /\ spec.digits[1] <= 15 /\ spec.digits[2] <= 15
         THEN 16 * spec.digits[1] + spec.digits[2]
         ELSE 92

SeparatorPolicy ==
    [][ReadLine /\ line'.kind = "sep" /\ status' = "running" => lp'.ifs = SpecSep(line'.spec)]_vars

=============================================================================
