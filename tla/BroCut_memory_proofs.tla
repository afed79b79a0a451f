------------------------- MODULE BroCut_memory_proofs -------------------------
(***************************************************************************)
(* bro-cut never reads or writes outside the buffers it allocated, when no *)
(* "#separator" line of the stream decodes to the NUL byte.                *)
(***************************************************************************)
EXTENDS BroCut_proofs, SequenceTheorems

\* The separators the writer may write: every one parsesep reads as a
\* non-NUL byte.
NoNulSeparator == \A p \in SepSpecs : parsesep(p[2]) # 0

\* The values the writer puts in a line's fields.
LineVals == Names \cup {"time", "string", "close"}

\* The writer's schema and types are sequences.
WInv ==
    /\ wschema \in Seq(Names)
    /\ wtypes \in Seq({"time", "string"})

(***************************************************************************)
(* The inductive invariant behind MemorySafe: IInv, the writer's state is  *)
(* typed, the run has not crashed, the input separator is not NUL, and     *)
(* right after a #fields line there is at least one field, so that the     *)
(* #types line that follows fits in tmp_fields.                            *)
(***************************************************************************)
MInv ==
    /\ IInv
    /\ WInv
    /\ status # "crash"
    /\ lp.ifs # 0
    /\ prev_fields_line => lp.num_fields >= 1
-----------------------------------------------------------------------------
(* The lines the writer produces. *)

\* Every line the writer writes is a sequence of field values, and the
\* writer's schema and types stay sequences.
LEMMA WriteLineVals ==
    ASSUME WInv, WriteLine
    PROVE  /\ line'.vals \in Seq(LineVals)
           /\ WInv'
<1>1. CASE BeginLog
    BY <1>1 DEF BeginLog, Line, WInv
<1>2. CASE WriteFields
    <2>0. PICK s \in Schemas : \E t \in TypeLists(s) :
              /\ line' = Line("fields", wsep, s, s, <<>>, NoSpec)
              /\ wschema' = s
              /\ wtypes' = t
        BY <1>2 DEF WriteFields
    <2>1. PICK t \in TypeLists(s) :
              /\ line' = Line("fields", wsep, s, s, <<>>, NoSpec)
              /\ wschema' = s
              /\ wtypes' = t
        BY <2>0
    <2>2. PICK m \in 0..Cardinality(Names) : s \in [1..m -> Names]
        BY DEF Schemas, BoundedSeq, SeqOf
    <2>3. \A g \in [1..m -> Names] : g \in Seq(Names)
        OBVIOUS
    <2>4. s \in Seq(Names)
        BY <2>2, <2>3
    <2>5. t \in Seq({"time", "string"})
        <3>1. t \in [1..Len(s) -> {"time", "string"}] /\ Len(s) \in Nat
            BY <2>4 DEF TypeLists
        <3>2. \A g \in [1..Len(s) -> {"time", "string"}] : g \in Seq({"time", "string"})
            BY <3>1
        <3> QED
            BY <3>1, <3>2
    <2>6. s \in Seq(LineVals)
        BY <2>4, SeqMonotonic DEF LineVals
    <2> QED
        BY <2>1, <2>4, <2>5, <2>6 DEF Line, WInv
<1>3. CASE WriteTypes
    <2>1. PICK n \in {Len(wtypes), Len(wtypes) - 1} \ {0} :
              line' = Line("types", wsep, SubSeq(wtypes, 1, n), wschema, wtypes, NoSpec)
        BY <1>3 DEF WriteTypes
    <2>2. n \in Int /\ n <= Len(wtypes) /\ wtypes \in Seq({"time", "string"})
        BY <2>1 DEF WInv
    <2>3. SubSeq(wtypes, 1, n) \in Seq({"time", "string"})
        <3>1. \A i \in 1..n : wtypes[i] \in {"time", "string"}
            BY <2>2
        <3> QED
            BY <2>2, <3>1, SubSeqProperties
    <2>4. SubSeq(wtypes, 1, n) \in Seq(LineVals)
        BY <2>3, SeqMonotonic DEF LineVals
    <2> QED
        BY <1>3, <2>1, <2>4 DEF WriteTypes, Line, WInv
<1>4. CASE WriteData
    <2>1. PICK n \in {Len(wschema), Len(wschema) - 1} \ {0} :
              line' = Line("data", wsep, SubSeq(wschema, 1, n), wschema, wtypes, NoSpec)
        BY <1>4 DEF WriteData
    <2>2. n \in Int /\ n <= Len(wschema) /\ wschema \in Seq(Names)
        BY <2>1 DEF WInv
    <2>3. SubSeq(wschema, 1, n) \in Seq(Names)
        <3>1. \A i \in 1..n : wschema[i] \in Names
            BY <2>2
        <3> QED
            BY <2>2, <3>1, SubSeqProperties
    <2>4. SubSeq(wschema, 1, n) \in Seq(LineVals)
        BY <2>3, SeqMonotonic DEF LineVals
    <2> QED
        BY <1>4, <2>1, <2>4 DEF WriteData, Line, WInv
<1>5. CASE WriteClose
    BY <1>5 DEF WriteClose, Line, WInv, LineVals
<1>6. CASE WriteLastUnterminated
    <2>1. wschema \in Seq(LineVals)
        BY SeqMonotonic DEF WInv, LineVals
    <2> QED
        BY <1>6, <2>1 DEF WriteLastUnterminated, Line, WInv
<1> QED
    BY <1>1, <1>2, <1>3, <1>4, <1>5, <1>6 DEF WriteLine

\* The fields of a line after its last character is dropped.
ChopVals == LineVals \cup {Chop(v) : v \in LineVals}

\* Dropping the last character keeps a line's kind, separator, spec and
\* newline flag, and its fields a sequence.
LEMMA StripNewlineShape ==
    ASSUME NEW l, l.vals \in Seq(LineVals)
    PROVE  /\ StripNewline(l).vals \in Seq(ChopVals)
           /\ StripNewline(l).kind = l.kind
           /\ StripNewline(l).sep = l.sep
           /\ StripNewline(l).spec = l.spec
<1>1. l.vals \in Seq(ChopVals)
    BY SeqMonotonic DEF ChopVals
<1>2. CASE l.nl \/ l.vals = <<>>
    BY <1>1, <1>2 DEF StripNewline
<1>3. CASE ~(l.nl \/ l.vals = <<>>)
    <2> DEFINE k == Len(l.vals)
    <2>1. k \in 1..k
        BY <1>3
    <2>2. Chop(l.vals[k]) \in ChopVals
        BY <2>1 DEF ChopVals
    <2>3. [l.vals EXCEPT ![k] = Chop(l.vals[k])] \in Seq(ChopVals)
        BY <1>1, <2>1, <2>2, ExceptSeq
    <2> QED
        BY <1>3, <2>3 DEF StripNewline
<1> QED
    BY <1>2, <1>3

-----------------------------------------------------------------------------
(***************************************************************************)
(* output_indexes touches only what is allocated when struct logparams p  *)
(* satisfies IndexesInRange, a header line comes after a #fields line with *)
(* at least one field, and time_cols covers idx_range on data lines.       *)
(***************************************************************************)
LEMMA SplitLineLen ==
    ASSUME NEW hdr \in {0, 1}, NEW l, l.vals \in Seq(ChopVals), NEW sep
    PROVE  Len(SplitLine(hdr, l, sep)) \in Nat
<1>1. CASE hdr = 0
    <2>1. CASE l.sep = sep
        BY <1>1, <2>1 DEF SplitLine, Payload
    <2>2. CASE l.sep # sep
        BY <1>1, <2>2 DEF SplitLine, Payload
    <2> QED
        BY <2>1, <2>2
<1>2. CASE hdr = 1 /\ l.sep = sep
    <2>1. <<Tag(l)>> \in Seq(ChopVals \cup {Tag(l)}) /\ l.vals \in Seq(ChopVals \cup {Tag(l)})
        BY SeqMonotonic
    <2>2. <<Tag(l)>> \o l.vals \in Seq(ChopVals \cup {Tag(l)})
        BY <2>1, ConcatProperties
    <2> QED
        BY <1>2, <2>2 DEF SplitLine
<1>3. CASE hdr = 1 /\ l.sep # sep
    BY <1>3 DEF SplitLine
<1> QED
    BY <1>1, <1>2, <1>3

LEMMA OutputSafe ==
    ASSUME NEW hdr \in {0, 1}, NEW l, l.vals \in Seq(ChopVals), NEW p,
           p.out_indexes \in Seq(Int), p.idx_range \in Nat, p.num_fields \in Nat,
           p.tmp_fields \in Nat, p.time_cols \in Seq(BOOLEAN),
           \A i \in DOMAIN p.out_indexes : p.out_indexes[i] \in -1..(p.idx_range - 1),
           p.idx_range <= p.num_fields,
           p.tmp_fields = IF p.num_fields = 0 THEN 0 ELSE p.num_fields + 1,
           hdr = 1 => p.num_fields >= 1,
           hdr = 0 /\ TimeConv # 0 => Len(p.time_cols) = p.idx_range
    PROVE  output_indexes(hdr, l, p).fault = FALSE
<1> DEFINE f == SplitLine(hdr, l, p.ifs)
           need == p.idx_range + hdr
           written == IF Len(f) < need THEN Len(f) ELSE need
           used == {x \in Range(p.out_indexes) : x # -1}
<1>1. Len(f) \in Nat
    BY SplitLineLen
<1>2. ~(written > p.tmp_fields)
    BY <1>1
<1>3. \A x \in used : x \in 0..(p.idx_range - 1)
    BY DEF Range
<1>4. ~(\E x \in used : x + hdr >= need)
    BY <1>3
<1>5. ~(TimeConv # 0 /\ hdr = 0 /\ \E x \in used : x >= Len(p.time_cols))
    BY <1>3
<1> QED
    BY <1>2, <1>4, <1>5 DEF output_indexes

\* What output_indexes needs of struct logparams: IndexesInRange on p.
LPSafe(p) ==
    /\ p.out_indexes \in Seq(Int) /\ p.idx_range \in Nat /\ p.num_fields \in Nat
    /\ p.tmp_fields \in Nat /\ p.time_cols \in Seq(BOOLEAN)
    /\ \A i \in DOMAIN p.out_indexes : p.out_indexes[i] \in -1..(p.idx_range - 1)
    /\ p.idx_range <= p.num_fields
    /\ p.tmp_fields = IF p.num_fields = 0 THEN 0 ELSE p.num_fields + 1

\* IInv gives LPSafe for the current struct logparams.
LEMMA IInvLPSafe == IInv => LPSafe(lp)
BY DEF IInv, LPShape, IndexesInRange, LPSafe

\* A header step does not crash when the #fields/#types line it may print
\* comes after a #fields line with fields.
LEMMA ShowHeaderSafe ==
    ASSUME NEW x, NEW p, ShowHeader(x, p), x.vals \in Seq(ChopVals), LPSafe(p),
           x.kind \in {"fields", "types"} => p.num_fields >= 1
    PROVE  status' = status
<1>1. CASE Displayed(HeadersSeenAfter) /\ x.kind \in {"fields", "types"}
    <2>0. /\ p.out_indexes \in Seq(Int) /\ p.idx_range \in Nat /\ p.num_fields \in Nat
          /\ p.tmp_fields \in Nat /\ p.time_cols \in Seq(BOOLEAN)
          /\ \A i \in DOMAIN p.out_indexes : p.out_indexes[i] \in -1..(p.idx_range - 1)
          /\ p.idx_range <= p.num_fields
          /\ p.tmp_fields = IF p.num_fields = 0 THEN 0 ELSE p.num_fields + 1
          /\ (1 = 1 => p.num_fields >= 1)
          /\ (1 = 0 /\ TimeConv # 0 => Len(p.time_cols) = p.idx_range)
        BY <1>1 DEF LPSafe
    <2>1. output_indexes(1, x, p).fault = FALSE
        BY <2>0, OutputSafe
    <2> QED
        BY <1>1, <2>1 DEF ShowHeader, Emit
<1>2. CASE ~(Displayed(HeadersSeenAfter) /\ x.kind \in {"fields", "types"})
    BY <1>2 DEF ShowHeader
<1> QED
    BY <1>1, <1>2

\* The separator of a #separator line is one the writer may write.
LEMMA SepLineSpec ==
    ASSUME WriteLine, line'.kind = "sep"
    PROVE  \E p \in SepSpecs : line'.spec = p[2]
<1>1. CASE BeginLog
    BY <1>1 DEF BeginLog, Line
<1>2. CASE WriteFields \/ WriteTypes \/ WriteData \/ WriteClose \/ WriteLastUnterminated
    BY <1>2 DEF WriteFields, WriteTypes, WriteData, WriteClose, WriteLastUnterminated, Line
<1> QED
    BY <1>1, <1>2 DEF WriteLine

-----------------------------------------------------------------------------
\* Initially nothing is allocated, the separator is a tab and nothing ran.
LEMMA InitMInv == Init => MInv
<1> SUFFICES ASSUME Init PROVE MInv
    OBVIOUS
<1>1. IInv
    BY InitIInv
<1> QED
    BY <1>1 DEF Init, CInit, WInit, MInv, WInv

(***************************************************************************)
(* Every step keeps MInv: each handler of the loop body either stops the   *)
(* run with a fatal error, or prints through output_indexes with a struct  *)
(* logparams that satisfies LPSafe; the #separator handler stores a        *)
(* non-NUL separator, so the #fields handler never counts past the line.   *)
(***************************************************************************)
LEMMA MInvStep ==
    ASSUME NoNulSeparator
    PROVE  MInv /\ [Next]_vars => MInv'
<1> SUFFICES ASSUME MInv, [Next]_vars PROVE MInv'
    OBVIOUS
<1>0. IInv'
    BY NextIInv DEF MInv
<1>1. CASE ReadLine
    <2> DEFINE x == StripNewline(line')
    <2>0. status = "running" /\ WriteLine
        BY <1>1 DEF ReadLine
    <2>1. line'.vals \in Seq(LineVals) /\ WInv'
        BY <2>0, WriteLineVals DEF MInv
    <2>2. x.vals \in Seq(ChopVals) /\ x.kind = line'.kind /\ x.spec = line'.spec
        BY <2>1, StripNewlineShape
    <2>3. LPSafe(lp) /\ lp.ifs # 0 /\ (prev_fields_line => lp.num_fields >= 1)
        BY IInvLPSafe DEF MInv
    <2>4. CASE MissingTypes(x)
        BY <1>0, <2>1, <2>3, <2>4 DEF MissingTypes, MInv
    <2>5. CASE DataLine(x)
        <3>1. ~prev_fields_line
            BY <2>5 DEF DataLine, MissingTypesCheck
        <3>2. TimeConv # 0 => Len(lp.time_cols) = lp.idx_range
            BY <2>0, <3>1 DEF MInv, IInv, IndexesInRange
        <3>3. /\ lp.out_indexes \in Seq(Int) /\ lp.idx_range \in Nat /\ lp.num_fields \in Nat
              /\ lp.tmp_fields \in Nat /\ lp.time_cols \in Seq(BOOLEAN)
              /\ \A i \in DOMAIN lp.out_indexes : lp.out_indexes[i] \in -1..(lp.idx_range - 1)
              /\ lp.idx_range <= lp.num_fields
              /\ lp.tmp_fields = IF lp.num_fields = 0 THEN 0 ELSE lp.num_fields + 1
              /\ (0 = 1 => lp.num_fields >= 1)
              /\ (0 = 0 /\ TimeConv # 0 => Len(lp.time_cols) = lp.idx_range)
            BY <2>3, <3>2 DEF LPSafe
        <3>4. output_indexes(0, x, lp).fault = FALSE
            BY <2>2, <3>3, OutputSafe
        <3>5. status' = status /\ lp' = lp /\ prev_fields_line' = prev_fields_line
            BY <2>5, <3>4 DEF DataLine, Emit
        <3> QED
            BY <1>0, <2>0, <2>1, <2>3, <3>5 DEF MInv
    <2>6. CASE SeparatorLine(x)
        <3>1. x.kind = "sep"
            BY <2>6 DEF SeparatorLine
        <3>2. PICK p \in SepSpecs : x.spec = p[2]
            BY <2>0, <2>2, <3>1, SepLineSpec
        <3>3. lp'.ifs = parsesep(x.spec) /\ lp'.num_fields = lp.num_fields
            BY <2>6, <2>3 DEF SeparatorLine, MInv, IInv, LPShape
        <3>4. lp'.ifs # 0
            BY <3>2, <3>3 DEF NoNulSeparator
        <3>5. status' = status /\ prev_fields_line' = prev_fields_line
            BY <2>6, <3>1 DEF SeparatorLine, ShowHeader
        <3> QED
            BY <1>0, <2>0, <2>1, <2>3, <3>3, <3>4, <3>5 DEF MInv
    <2>7. CASE FieldsLine(x)
        <3>1. x.kind = "fields" /\ line'.kind = "fields"
            BY <2>2, <2>7 DEF FieldsLine
        <3>2. line'.vals \in Seq(Names) /\ Len(line'.vals) >= 1 /\ line'.nl = TRUE
            BY <2>0, <3>1, FieldsLineShape
        <3>3. x = line'
            BY <3>2 DEF StripNewline
        <3> DEFINE names == Payload(x, lp.ifs)
                   r == find_output_indexes(names)
        <3>4. Len(names) >= 1
            BY <3>2, <3>3, PayloadShape
        <3>5. /\ lp'.num_fields = Len(names) /\ lp'.ifs = lp.ifs
              /\ ShowHeader(x, lp')
              /\ prev_fields_line' = TRUE
            BY <2>3, <2>7 DEF FieldsLine, MInv, IInv, LPShape
        <3>6. LPSafe(lp')
            BY <1>0 DEF IInv, LPShape, IndexesInRange, LPSafe
        <3>7. status' = status
            BY <2>2, <3>4, <3>5, <3>6, ShowHeaderSafe
        <3> QED
            BY <1>0, <2>0, <2>1, <2>3, <3>4, <3>5, <3>7 DEF MInv
    <2>8. CASE TypesLine(x)
        <3>1. x.kind = "types"
            BY <2>8 DEF TypesLine
        <3>2. CASE TypesWithoutFields
            <4>1. lp' = lp /\ prev_fields_line' = prev_fields_line /\ status' = "fatal"
                BY <2>8, <3>2 DEF TypesLine
            <4> QED
                BY <1>0, <2>1, <2>3, <4>1 DEF MInv
        <3>3. CASE ~TypesWithoutFields
            <4>1. lp.num_fields >= 1
                BY <2>3, <3>3 DEF TypesWithoutFields
            <4>2. prev_fields_line' = FALSE \/ status' = "fatal"
                BY <2>8, <3>3 DEF TypesLine
            <4>3. lp'.ifs = lp.ifs /\ lp'.num_fields = lp.num_fields
                BY <2>8, <3>3 DEF TypesLine, MInv, IInv, LPShape
            <4>4. status' \in {status, "fatal"}
                <5>1. CASE TimeConv = 0
                    <6>1. lp' = lp /\ ShowHeader(x, lp)
                        BY <2>8, <3>3, <5>1 DEF TypesLine
                    <6> QED
                        BY <2>2, <2>3, <3>1, <4>1, <6>1, ShowHeaderSafe
                <5>2. CASE TimeConv # 0 /\ TypesTooShort(Payload(x, lp.ifs))
                    BY <2>8, <3>3, <5>2 DEF TypesLine
                <5>3. CASE TimeConv # 0 /\ ~TypesTooShort(Payload(x, lp.ifs))
                    <6>1. ShowHeader(x, lp')
                        BY <2>8, <3>3, <5>3 DEF TypesLine
                    <6>2. LPSafe(lp')
                        BY <1>0 DEF IInv, LPShape, IndexesInRange, LPSafe
                    <6> QED
                        BY <2>2, <3>1, <4>1, <4>3, <6>1, <6>2, ShowHeaderSafe
                <5> QED
                    BY <5>1, <5>2, <5>3
            <4> QED
                BY <1>0, <2>0, <2>1, <2>3, <4>1, <4>2, <4>3, <4>4 DEF MInv
        <3> QED
            BY <3>2, <3>3
    <2>9. CASE OtherLine(x)
        <3>1. x.kind = "other" /\ lp' = lp /\ prev_fields_line' = prev_fields_line
            BY <2>9 DEF OtherLine
        <3>2. status' = status
            BY <2>9, <3>1 DEF OtherLine, ShowHeader
        <3> QED
            BY <1>0, <2>0, <2>1, <2>3, <3>1, <3>2 DEF MInv
    <2> QED
        BY <1>1, <2>4, <2>5, <2>6, <2>7, <2>8, <2>9 DEF ReadLine
<1>2. CASE EndOfInput
    BY <1>0, <1>2 DEF EndOfInput, MInv, WInv, wvars
<1>3. CASE UNCHANGED vars
    BY <1>0, <1>3 DEF vars, cvars, wvars, MInv, WInv
<1> QED
    BY <1>1, <1>2, <1>3 DEF Next

(***************************************************************************)
(* Memory safety of bro-cut: for every choice of options and columns, and  *)
(* every stream the writer can produce whose "#separator" lines all decode *)
(* to a non-NUL byte, no step of bro_cut reads outside tmp_fields or       *)
(* time_cols, reads a tmp_fields entry the line did not set, or counts     *)
(* fields past the end of a #fields line.                                  *)
(***************************************************************************)
THEOREM MemorySafeInvariant ==
    ASSUME NoNulSeparator
    PROVE  Spec => []MemorySafe
<1>1. Init => MInv
    BY InitMInv
<1>2. MInv /\ [Next]_vars => MInv'
    BY MInvStep
<1>3. MInv => MemorySafe
    BY DEF MInv, MemorySafe
<1> QED
    BY <1>1, <1>2, <1>3, PTL DEF Spec

=============================================================================
