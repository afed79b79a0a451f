-------------------------- MODULE BroCut_type_proofs --------------------------
(***************************************************************************)
(* Type correctness of bro-cut: every variable of the loop keeps its type, *)
(* the separators parsesep produces included.                              *)
(***************************************************************************)
EXTENDS BroCut_memory_proofs

-----------------------------------------------------------------------------
(* parsesep *)

\* A digit strtol reads is a hex digit, whatever position is asked for.
LEMMA HexDigitRange ==
    ASSUME NEW d \in Seq(0..16), NEW i
    PROVE  HexDigit(d, i) \in 0..15
BY DEF HexDigit

\* parsesep yields a byte for every separator spec: the first character,
\* LONG_MAX's low byte, or the low byte of the last two digits read.
LEMMA ParsesepRange ==
    ASSUME NEW spec \in SpecRecs
    PROVE  parsesep(spec) \in 0..255
<1> DEFINE d == spec.digits
           n == HexLen(d)
<1>1. d \in Seq(0..16)
    BY DEF SpecRecs
<1>2. HexDigit(d, n - 1) \in 0..15 /\ HexDigit(d, n) \in 0..15
    BY <1>1, HexDigitRange
<1>3. LowByte(d, n) \in 0..255
    BY <1>2 DEF LowByte
<1>4. spec.ch \in 0..255
    BY DEF SpecRecs
<1>5. parsesep(spec) \in {spec.ch, 255, LowByte(d, n)}
    BY DEF parsesep
<1> QED
    BY <1>3, <1>4, <1>5

-----------------------------------------------------------------------------
(***************************************************************************)
(* The inductive invariant behind TypeOK: IInv gives the shape of struct  *)
(* logparams, WInv that the lines carry field values, and TypeOK itself   *)
(* the ranges of the separators and of the header-block counter.          *)
(***************************************************************************)
TInv == IInv /\ WInv /\ TypeOK

LEMMA InitTInv == Init => TInv
<1> SUFFICES ASSUME Init PROVE TInv
    OBVIOUS
<1>1. IInv
    BY InitIInv
<1>2. lp = [out_indexes |-> <<>>, idx_range |-> 0, time_cols |-> <<>>,
            tmp_fields |-> 0, num_fields |-> 0, ifs |-> 9, ofs |-> 9]
    BY DEF Init, CInit
<1>3. WInv
    BY DEF Init, WInit, WInv
<1>4. lp \in [out_indexes : Seq(Int), idx_range : Nat, time_cols : Seq(BOOLEAN),
              tmp_fields : Nat, num_fields : Nat, ifs : 0..255, ofs : 0..255]
    BY <1>2
<1>5. headers_seen = 0 /\ prev_line_hdr = FALSE /\ prev_fields_line = FALSE
    BY DEF Init, CInit
<1>6. status = "running" /\ dataSeen = FALSE
    BY DEF Init, CInit
<1>7. headers_seen \in 0..2
    BY <1>5
<1>8. prev_line_hdr \in BOOLEAN /\ prev_fields_line \in BOOLEAN
    BY <1>5
<1>9. status \in {"running", "ok", "fatal", "crash"} /\ dataSeen \in BOOLEAN
    BY <1>6
<1>10. TypeOK
    BY <1>4, <1>7, <1>8, <1>9 DEF TypeOK
<1> QED
    BY <1>1, <1>3, <1>10 DEF TInv

\* headers_seen counts header blocks up to 2.
LEMMA HeadersSeenRange ==
    ASSUME headers_seen \in 0..2
    PROVE  HeadersSeenAfter \in 0..2
BY DEF HeadersSeenAfter

\* From the shape of lp and the range of its separators, its type.
LEMMA LpType ==
    ASSUME NEW p,
           p \in [out_indexes : Seq(Int), idx_range : Nat, time_cols : Seq(BOOLEAN),
                  tmp_fields : Nat, num_fields : Nat, ifs : {p.ifs}, ofs : {p.ofs}],
           p.ifs \in 0..255, p.ofs \in 0..255
    PROVE  p \in [out_indexes : Seq(Int), idx_range : Nat, time_cols : Seq(BOOLEAN),
                  tmp_fields : Nat, num_fields : Nat, ifs : 0..255, ofs : 0..255]
OBVIOUS

(***************************************************************************)
(* Every step keeps TInv.  Only the #separator handler changes ifs and     *)
(* ofs, to parsesep of the spec the writer wrote and to -F or that byte;   *)
(* every header handler moves headers_seen along HeadersSeenAfter.         *)
(***************************************************************************)
LEMMA TInvStep == TInv /\ [Next]_vars => TInv'
<1> SUFFICES ASSUME TInv, [Next]_vars PROVE TInv'
    OBVIOUS
<1>0. IInv'
    BY NextIInv DEF TInv
<1>1. CASE ReadLine
    <2> DEFINE x == StripNewline(line')
    <2>0. status = "running" /\ WriteLine
        BY <1>1 DEF ReadLine
    <2>1. line'.vals \in Seq(LineVals) /\ WInv'
        BY <2>0, WriteLineVals DEF TInv
    <2>2. x.kind = line'.kind /\ x.spec = line'.spec
        BY <2>1, StripNewlineShape
    <2>3. dataSeen' \in BOOLEAN
        BY <1>1 DEF ReadLine
    <2>4. headers_seen' \in 0..2 /\ prev_line_hdr' \in BOOLEAN
        <3>1. headers_seen \in 0..2
            BY DEF TInv, TypeOK
        <3>2. HeadersSeenAfter \in 0..2
            BY <3>1, HeadersSeenRange
        <3> QED
            BY <1>1, <3>1, <3>2 DEF ReadLine, MissingTypes, DataLine, SeparatorLine,
                FieldsLine, TypesLine, OtherLine, HeaderStep, TInv, TypeOK
    <2>5. lp'.ifs \in 0..255 /\ lp'.ofs \in 0..255
        <3>0. lp \in [out_indexes : Seq(Int), idx_range : Nat, time_cols : Seq(BOOLEAN),
                      tmp_fields : Nat, num_fields : Nat, ifs : 0..255, ofs : 0..255]
            BY DEF TInv, TypeOK
        <3>1. CASE SeparatorLine(x)
            <4>1. PICK p \in SepSpecs : x.spec = p[2]
                BY <2>0, <2>2, <3>1, SepLineSpec DEF SeparatorLine
            <4>2. parsesep(x.spec) \in 0..255
                BY <4>1, ParsesepRange, SepSpecsAssumption
            <4>3. OfsFor(parsesep(x.spec)) \in 0..255
                BY <4>2, OfsAssumption DEF OfsFor
            <4> QED
                BY <3>0, <3>1, <4>2, <4>3 DEF SeparatorLine
        <3>2. CASE ~SeparatorLine(x)
            <4>1. lp'.ifs = lp.ifs /\ lp'.ofs = lp.ofs
                BY <1>1, <3>0, <3>2 DEF ReadLine, MissingTypes, DataLine, FieldsLine,
                    TypesLine, OtherLine
            <4> QED
                BY <3>0, <4>1
        <3> QED
            BY <3>1, <3>2
    <2>6. lp' \in [out_indexes : Seq(Int), idx_range : Nat, time_cols : Seq(BOOLEAN),
                   tmp_fields : Nat, num_fields : Nat, ifs : 0..255, ofs : 0..255]
        <3>1. lp' \in [out_indexes : Seq(Int), idx_range : Nat, time_cols : Seq(BOOLEAN),
                       tmp_fields : Nat, num_fields : Nat, ifs : {lp'.ifs}, ofs : {lp'.ofs}]
            BY <1>0 DEF IInv, LPShape
        <3> QED
            BY <2>5, <3>1, LpType
    <2> QED
        BY <1>0, <2>1, <2>3, <2>4, <2>6 DEF TInv, TypeOK, IInv
<1>2. CASE EndOfInput
    <2>1. /\ lp' = lp /\ headers_seen' = headers_seen /\ prev_line_hdr' = prev_line_hdr
          /\ prev_fields_line' = prev_fields_line /\ dataSeen' = dataSeen
          /\ status' = "ok" /\ wschema' = wschema /\ wtypes' = wtypes
        BY <1>2 DEF EndOfInput, wvars
    <2>2. TypeOK'
        BY <2>1 DEF TInv, TypeOK
    <2>3. WInv'
        BY <2>1 DEF TInv, WInv
    <2> QED
        BY <1>0, <2>2, <2>3 DEF TInv
<1>3. CASE UNCHANGED vars
    BY <1>0, <1>3 DEF vars, cvars, wvars, TInv, TypeOK, WInv
<1> QED
    BY <1>1, <1>2, <1>3 DEF Next

(***************************************************************************)
(* Type correctness of bro-cut: for every column list, option setting and *)
(* stream the writer can produce, struct logparams keeps its fields, the   *)
(* input and output separators stay bytes (whatever hex digits follow a    *)
(* "\x", strtol's saturation included), headers_seen stays within 0..2,    *)
(* and the flags and the status keep their values.                         *)
(***************************************************************************)
THEOREM TypeCorrect == Spec => []TypeOK
<1>1. Init => TInv
    BY InitTInv
<1>2. TInv /\ [Next]_vars => TInv'
    BY TInvStep
<1>3. TInv => TypeOK
    BY DEF TInv
<1> QED
    BY <1>1, <1>2, <1>3, PTL DEF Spec
=============================================================================
