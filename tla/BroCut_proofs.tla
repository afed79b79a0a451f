---------------------------- MODULE BroCut_proofs ----------------------------
(***************************************************************************)
(* Proofs about BroCut for every value of the constants: the buffers of    *)
(* struct logparams always cover the indexes bro-cut reads through them    *)
(* (IndexesInRange).                                                       *)
(***************************************************************************)
EXTENDS BroCut, TLAPS, FiniteSetTheorems

(***************************************************************************)
(* Lemmas about the operators of find_output_indexes.                      *)
(***************************************************************************)

\* string_index returns -1 or an index of the haystack.
LEMMA StringIndexRange ==
    ASSUME NEW S, NEW h \in Seq(S), NEW x
    PROVE  string_index(h, x) \in -1..(Len(h) - 1)
<1> DEFINE T == {i \in 1..Len(h) : \A j \in 1..i : h[j] # x}
<1>0. 1 \in Int /\ Len(h) \in Nat
    OBVIOUS
<1>1. IsFiniteSet(1..Len(h)) /\ Cardinality(1..Len(h)) = Len(h)
    BY <1>0, FS_Interval
<1>2. IsFiniteSet(T) /\ Cardinality(T) <= Len(h)
    BY <1>1, FS_Subset
<1>3. Cardinality(T) \in Nat
    BY <1>2, FS_CardinalityType
<1> QED
    BY <1>2, <1>3 DEF string_index

\* maxval is at most n - 1 and at least every index.
LEMMA MaxIndexBound ==
    ASSUME NEW oi, NEW n \in Nat \ {0},
           \A i \in DOMAIN oi : oi[i] \in -1..(n - 1)
    PROVE  /\ MaxIndex(oi, n) \in 0..(n - 1)
           /\ \A i \in DOMAIN oi : oi[i] <= MaxIndex(oi, n)
<1> DEFINE T == {v \in 1..(n - 1) : \E i \in DOMAIN oi : oi[i] >= v}
<1>0. 1 \in Int /\ n - 1 \in Nat
    OBVIOUS
<1>1. IsFiniteSet(1..(n - 1)) /\ Cardinality(1..(n - 1)) = n - 1
    BY <1>0, FS_Interval
<1>2. IsFiniteSet(T) /\ Cardinality(T) <= n - 1
    BY <1>1, FS_Subset
<1>3. Cardinality(T) \in Nat
    BY <1>2, FS_CardinalityType
<1>4. ASSUME NEW i \in DOMAIN oi PROVE oi[i] <= Cardinality(T)
    <2>1. CASE oi[i] <= 0
        BY <2>1, <1>3
    <2>2. CASE oi[i] >= 1
        <3>1. 1..oi[i] \subseteq T
            BY <2>2
        <3>0. 1 \in Int /\ oi[i] \in Nat
            BY <2>2
        <3>2. Cardinality(1..oi[i]) = oi[i]
            BY <3>0, FS_Interval
        <3> QED
            BY <3>1, <3>2, <1>2, FS_Subset
    <2> QED
        BY <2>1, <2>2
<1> QED
    BY <1>2, <1>3, <1>4 DEF MaxIndex

\* The -n index list is a sequence of members of the kept set.
LEMMA EnumerationRange ==
    ASSUME NEW K \in SUBSET Int, NEW n \in Nat
    PROVE  /\ Enumeration(K, n) \in Seq(Int)
           /\ \A i \in DOMAIN Enumeration(K, n) : Enumeration(K, n)[i] \in K
<1>1. CASE Enumerations(K, n) = {}
    BY <1>1 DEF Enumeration
<1>2. CASE Enumerations(K, n) # {}
    <2>1. Enumeration(K, n) \in Enumerations(K, n)
        BY <1>2 DEF Enumeration
    <2>2. PICK m \in 0..n : Enumeration(K, n) \in [1..m -> K]
        BY <2>1 DEF Enumerations
    <2>3. Enumeration(K, n) \in [1..m -> Int]
        BY <2>2
    <2>4. \A g \in [1..m -> Int] : g \in Seq(Int)
        OBVIOUS
    <2> QED
        BY <2>2, <2>3, <2>4
<1> QED
    BY <1>1, <1>2

\* find_output_indexes on a non-empty list of names.
LEMMA FindOutputIndexesRange ==
    ASSUME NEW S, NEW names \in Seq(S), Len(names) >= 1
    PROVE  /\ find_output_indexes(names).out_indexes \in Seq(Int)
           /\ find_output_indexes(names).idx_range \in 1..Len(names)
           /\ \A i \in DOMAIN find_output_indexes(names).out_indexes :
                 find_output_indexes(names).out_indexes[i]
                    \in -1..(find_output_indexes(names).idx_range - 1)
<1> DEFINE n == Len(names)
<1>1. CASE Cols = <<>>
    BY <1>1 DEF find_output_indexes
<1>2. CASE Cols # <<>> /\ ~Negate
    <2> DEFINE oi == [i \in 1..Len(Cols) |-> string_index(names, Cols[i])]
    <2>1. \A i \in DOMAIN oi : oi[i] \in -1..(n - 1)
        BY StringIndexRange, ColsAssumption
    <2>2. oi \in Seq(Int)
        BY <2>1, ColsAssumption
    <2>3. /\ MaxIndex(oi, n) \in 0..(n - 1)
          /\ \A i \in DOMAIN oi : oi[i] <= MaxIndex(oi, n)
        <3>1. n \in Nat \ {0}
            OBVIOUS
        <3> QED
            BY <2>1, <3>1, MaxIndexBound
    <2>4. find_output_indexes(names) = [out_indexes |-> oi, idx_range |-> MaxIndex(oi, n) + 1]
        BY <1>2 DEF find_output_indexes, IdxRangeOf
    <2>5. /\ find_output_indexes(names).out_indexes = oi
          /\ find_output_indexes(names).idx_range = MaxIndex(oi, n) + 1
        BY <2>4
    <2>6. MaxIndex(oi, n) + 1 \in 1..Len(names)
        BY <2>3 DEF n
    <2>7. \A i \in DOMAIN oi : oi[i] \in -1..(MaxIndex(oi, n) + 1 - 1)
        BY <2>1, <2>3
    <2>8. find_output_indexes(names).out_indexes \in Seq(Int)
        BY <2>2, <2>5
    <2>9. find_output_indexes(names).idx_range \in 1..Len(names)
        BY <2>5, <2>6
    <2>10. \A i \in DOMAIN find_output_indexes(names).out_indexes :
              find_output_indexes(names).out_indexes[i]
                 \in -1..(find_output_indexes(names).idx_range - 1)
        BY <2>3, <2>5, <2>7
    <2> QED
        BY <2>8, <2>9, <2>10
<1>3. CASE Cols # <<>> /\ Negate
    <2> DEFINE K == {i \in 0..(n - 1) : string_index(Cols, names[i + 1]) = -1}
               oi == Enumeration(K, n)
    <2>1. oi \in Seq(Int) /\ \A i \in DOMAIN oi : oi[i] \in K
        BY EnumerationRange
    <2>2. \A i \in DOMAIN oi : oi[i] \in -1..(n - 1)
        BY <2>1
    <2>3. /\ MaxIndex(oi, n) \in 0..(n - 1)
          /\ \A i \in DOMAIN oi : oi[i] <= MaxIndex(oi, n)
        <3>1. n \in Nat \ {0}
            OBVIOUS
        <3> QED
            BY <2>2, <3>1, MaxIndexBound
    <2>4. find_output_indexes(names) = [out_indexes |-> oi, idx_range |-> MaxIndex(oi, n) + 1]
        BY <1>3, NegateAssumption DEF find_output_indexes, NegateIndexes, IdxRangeOf
    <2>5. /\ find_output_indexes(names).out_indexes = oi
          /\ find_output_indexes(names).idx_range = MaxIndex(oi, n) + 1
        BY <2>4
    <2>6. MaxIndex(oi, n) + 1 \in 1..Len(names)
        BY <2>3 DEF n
    <2>7. \A i \in DOMAIN oi : oi[i] \in -1..(MaxIndex(oi, n) + 1 - 1)
        BY <2>2, <2>3
    <2>8. find_output_indexes(names).out_indexes \in Seq(Int)
        BY <2>1, <2>5
    <2>9. find_output_indexes(names).idx_range \in 1..Len(names)
        BY <2>5, <2>6
    <2>10. \A i \in DOMAIN find_output_indexes(names).out_indexes :
              find_output_indexes(names).out_indexes[i]
                 \in -1..(find_output_indexes(names).idx_range - 1)
        BY <2>3, <2>5, <2>7
    <2> QED
        BY <2>8, <2>9, <2>10
<1> QED
    BY <1>1, <1>2, <1>3, NegateAssumption


(***************************************************************************)
(* The lines the writer produces.                                          *)
(***************************************************************************)

\* A #fields line carries a non-empty schema of declared names and ends in
\* its newline.
LEMMA FieldsLineShape ==
    ASSUME WriteLine, line'.kind = "fields"
    PROVE  /\ line'.vals \in Seq(Names)
           /\ Len(line'.vals) >= 1
           /\ line'.nl = TRUE
<1>1. CASE WriteFields
    <2>1. PICK s \in Schemas : line' = Line("fields", wsep, s, s, <<>>, NoSpec)
        BY <1>1 DEF WriteFields
    <2>2. PICK m \in 0..Cardinality(Names) : s \in [1..m -> Names]
        BY DEF Schemas, BoundedSeq, SeqOf
    <2>3. \A g \in [1..m -> Names] : g \in Seq(Names)
        OBVIOUS
    <2>4. Len(s) > 0
        BY DEF Schemas
    <2> QED
        BY <2>1, <2>2, <2>3, <2>4 DEF Line
<1>2. CASE BeginLog \/ WriteTypes \/ WriteData \/ WriteClose \/ WriteLastUnterminated
    BY <1>2 DEF BeginLog, WriteTypes, WriteData, WriteClose, WriteLastUnterminated, Line
<1> QED
    BY <1>1, <1>2 DEF WriteLine

\* The names find_output_indexes is given: the line's fields, or the whole
\* text as one field.
LEMMA PayloadShape ==
    ASSUME NEW l, l.vals \in Seq(Names), Len(l.vals) >= 1, NEW sep
    PROVE  /\ Payload(l, sep) \in Seq(Names \cup {"joined"})
           /\ Len(Payload(l, sep)) >= 1
<1>1. Joined(l.vals) \in Names \cup {"joined"}
    BY DEF Joined
<1>2. CASE l.sep = sep
    <2>1. \A i \in 1..Len(l.vals) : l.vals[i] \in Names \cup {"joined"}
        OBVIOUS
    <2> QED
        BY <1>2, <2>1 DEF Payload
<1>3. CASE l.sep # sep
    BY <1>1, <1>3 DEF Payload
<1> QED
    BY <1>2, <1>3

(***************************************************************************)
(* The inductive invariant: IndexesInRange together with the shape of      *)
(* struct logparams that the EXCEPTs of the header handlers preserve.      *)
(* ifs and ofs are left unconstrained: the separator parsed by parsesep is *)
(* never read as a number by the steps that keep IndexesInRange.          *)
(***************************************************************************)
LPShape ==
    lp \in [out_indexes : Seq(Int), idx_range : Nat, time_cols : Seq(BOOLEAN),
            tmp_fields : Nat, num_fields : Nat, ifs : {lp.ifs}, ofs : {lp.ofs}]

IInv ==
    /\ LPShape
    /\ prev_fields_line \in BOOLEAN
    /\ status \in {"running", "ok", "fatal", "crash"}
    /\ IndexesInRange

\* The initial state satisfies the invariant.
LEMMA InitIInv == Init => IInv
<1> SUFFICES ASSUME Init PROVE IInv
    OBVIOUS
<1>1. lp = [out_indexes |-> <<>>, idx_range |-> 0, time_cols |-> <<>>,
            tmp_fields |-> 0, num_fields |-> 0, ifs |-> 9, ofs |-> 9]
    BY DEF Init, CInit
<1>2. LPShape
    BY <1>1 DEF LPShape
<1>3. prev_fields_line = FALSE /\ status = "running"
    BY DEF Init, CInit
<1>4. IndexesInRange
    BY <1>1 DEF IndexesInRange
<1> QED
    BY <1>2, <1>3, <1>4 DEF IInv


\* Printing a header changes the status only to a crash.
LEMMA ShowHeaderStatus ==
    ASSUME NEW x, NEW p, ShowHeader(x, p)
    PROVE  status' \in {status, "crash"}
BY DEF ShowHeader, Emit

\* A step that keeps the index state of struct logparams and the #fields
\* flag, taken while the run goes on, keeps the invariant.
LEMMA KeepIndexes ==
    ASSUME IInv, status = "running",
           LPShape',
           lp'.out_indexes = lp.out_indexes, lp'.idx_range = lp.idx_range,
           lp'.time_cols = lp.time_cols, lp'.tmp_fields = lp.tmp_fields,
           lp'.num_fields = lp.num_fields,
           prev_fields_line' = prev_fields_line,
           status' \in {"running", "ok", "fatal", "crash"}
    PROVE  IInv'
<1>1. IndexesInRange'
    BY DEF IInv, IndexesInRange
<1> QED
    BY <1>1 DEF IInv

\* A step that leaves struct logparams alone.
LEMMA KeepLp ==
    ASSUME IInv, status = "running", lp' = lp,
           prev_fields_line' = prev_fields_line,
           status' \in {"running", "ok", "fatal", "crash"}
    PROVE  IInv'
<1>1. LPShape'
    BY DEF IInv, LPShape
<1> QED
    BY <1>1, KeepIndexes


\* The #fields handler: find_output_indexes sets out_indexes and idx_range
\* for the new names, tmp_fields is reallocated to one more than their
\* number, and prev_fields_line is set, so time_cols may lag behind until
\* the #types line.
LEMMA FieldsLineIInv ==
    ASSUME IInv, status = "running", WriteLine,
           FieldsLine(StripNewline(line'))
    PROVE  IInv'
<1> DEFINE x == StripNewline(line')
<1>1. x = line' /\ x.kind = "fields"
    <2>1. line'.kind = "fields"
        BY DEF FieldsLine, StripNewline
    <2> QED
        BY <2>1, FieldsLineShape DEF StripNewline
<1>2. x.vals \in Seq(Names) /\ Len(x.vals) >= 1
    BY <1>1, FieldsLineShape
<1>3. prev_fields_line' = TRUE
    BY DEF FieldsLine
<1>4. CASE lp.ifs = 0
    <2>1. lp' = lp /\ status' = "crash"
        BY <1>4 DEF FieldsLine
    <2>2. LPShape'
        BY <2>1 DEF IInv, LPShape
    <2>3. IndexesInRange'
        BY <2>1, <1>3 DEF IInv, IndexesInRange
    <2> QED
        BY <1>3, <2>1, <2>2, <2>3 DEF IInv
<1>5. CASE lp.ifs # 0
    <2> DEFINE names == Payload(x, lp.ifs)
               r == find_output_indexes(names)
    <2>1. names \in Seq(Names \cup {"joined"}) /\ Len(names) >= 1
        BY <1>2, PayloadShape
    <2>2. /\ r.out_indexes \in Seq(Int)
          /\ r.idx_range \in 1..Len(names)
          /\ \A i \in DOMAIN r.out_indexes : r.out_indexes[i] \in -1..(r.idx_range - 1)
        BY <2>1, FindOutputIndexesRange
    <2>3. /\ lp' = [lp EXCEPT !.num_fields = Len(names),
                              !.tmp_fields = TmpFieldsFor(Len(names)),
                              !.out_indexes = r.out_indexes,
                              !.idx_range = r.idx_range]
          /\ ShowHeader(x, lp')
        BY <1>5 DEF FieldsLine
    <2>7. LET R == [out_indexes : Seq(Int), idx_range : Nat, time_cols : Seq(BOOLEAN),
                    tmp_fields : Nat, num_fields : Nat, ifs : {lp.ifs}, ofs : {lp.ofs}]
          IN  lp \in R
        BY DEF IInv, LPShape
    <2>8. lp' = [out_indexes |-> r.out_indexes, idx_range |-> r.idx_range,
                 time_cols |-> lp.time_cols, tmp_fields |-> Len(names) + 1,
                 num_fields |-> Len(names), ifs |-> lp.ifs, ofs |-> lp.ofs]
        BY <2>3, <2>7 DEF TmpFieldsFor
    <2>9. lp.time_cols \in Seq(BOOLEAN)
        BY <2>7
    <2>4. /\ lp'.num_fields = Len(names)
          /\ lp'.tmp_fields = Len(names) + 1
          /\ lp'.out_indexes = r.out_indexes
          /\ lp'.idx_range = r.idx_range
          /\ LPShape'
        BY <2>1, <2>2, <2>8, <2>9 DEF LPShape
    <2>5. IndexesInRange'
        BY <1>3, <2>1, <2>2, <2>4 DEF IndexesInRange
    <2>6. status' \in {"running", "ok", "fatal", "crash"}
        BY <2>3, ShowHeaderStatus
    <2> QED
        BY <1>3, <2>4, <2>5, <2>6 DEF IInv
<1> QED
    BY <1>4, <1>5


\* The #types handler: fatal unless right after #fields; otherwise it
\* clears prev_fields_line and, with time conversion, either stops on a
\* short line or reallocates time_cols to idx_range entries.
LEMMA TypesLineIInv ==
    ASSUME IInv, status = "running", TypesLine(StripNewline(line'))
    PROVE  IInv'
<1> DEFINE x == StripNewline(line')
<1>0. lp \in [out_indexes : Seq(Int), idx_range : Nat, time_cols : Seq(BOOLEAN),
              tmp_fields : Nat, num_fields : Nat, ifs : {lp.ifs}, ofs : {lp.ofs}]
    BY DEF IInv, LPShape
<1>1. CASE TypesWithoutFields
    <2>1. lp' = lp /\ prev_fields_line' = prev_fields_line /\ status' = "fatal"
        BY <1>1 DEF TypesLine
    <2> QED
        BY <2>1, KeepLp
<1>2. CASE ~TypesWithoutFields /\ TimeConv = 0
    <2>1. lp' = lp /\ prev_fields_line' = FALSE /\ ShowHeader(x, lp)
        BY <1>2 DEF TypesLine
    <2>2. status' \in {"running", "ok", "fatal", "crash"}
        BY <2>1, ShowHeaderStatus
    <2>3. LPShape'
        BY <2>1 DEF IInv, LPShape
    <2>4. IndexesInRange'
        BY <1>2, <2>1 DEF IInv, IndexesInRange
    <2> QED
        BY <2>1, <2>2, <2>3, <2>4 DEF IInv
<1>3. CASE ~TypesWithoutFields /\ TimeConv # 0 /\ TypesTooShort(Payload(x, lp.ifs))
    <2>1. lp' = lp /\ prev_fields_line' = FALSE /\ status' = "fatal"
        BY <1>3 DEF TypesLine
    <2>2. LPShape'
        BY <2>1 DEF IInv, LPShape
    <2>3. IndexesInRange'
        BY <2>1 DEF IInv, IndexesInRange
    <2> QED
        BY <2>1, <2>2, <2>3 DEF IInv
<1>4. CASE ~TypesWithoutFields /\ TimeConv # 0 /\ ~TypesTooShort(Payload(x, lp.ifs))
    <2> DEFINE t == Payload(x, lp.ifs)
               tc == [i \in 1..lp.idx_range |-> t[i] = "time"]
    <2>1. /\ lp' = [lp EXCEPT !.time_cols = tc]
          /\ prev_fields_line' = FALSE
          /\ ShowHeader(x, lp')
        BY <1>4 DEF TypesLine
    <2>7. lp.idx_range \in Nat /\ tc \in [1..lp.idx_range -> BOOLEAN]
        BY <1>0
    <2>8. \A g \in [1..lp.idx_range -> BOOLEAN] : g \in Seq(BOOLEAN)
        BY <2>7
    <2>9. tc \in Seq(BOOLEAN)
        BY <2>7, <2>8
    <2>10. DOMAIN tc = 1..lp.idx_range
        OBVIOUS
    <2>2. tc \in Seq(BOOLEAN) /\ Len(tc) = lp.idx_range
        BY <2>7, <2>9, <2>10
    <2>3. lp' = [out_indexes |-> lp.out_indexes, idx_range |-> lp.idx_range,
                 time_cols |-> tc, tmp_fields |-> lp.tmp_fields,
                 num_fields |-> lp.num_fields, ifs |-> lp.ifs, ofs |-> lp.ofs]
        BY <1>0, <2>1
    <2>4. LPShape'
        BY <1>0, <2>2, <2>3 DEF LPShape
    <2>5. IndexesInRange'
        BY <2>2, <2>3 DEF IInv, IndexesInRange
    <2>6. status' \in {"running", "ok", "fatal", "crash"}
        BY <2>1, ShowHeaderStatus
    <2> QED
        BY <2>1, <2>4, <2>5, <2>6 DEF IInv
<1> QED
    BY <1>1, <1>2, <1>3, <1>4

\* The #separator handler changes only ifs and ofs.
LEMMA SeparatorLineIInv ==
    ASSUME IInv, status = "running", SeparatorLine(StripNewline(line'))
    PROVE  IInv'
<1> DEFINE x == StripNewline(line')
           ifs == parsesep(x.spec)
<1>0. lp \in [out_indexes : Seq(Int), idx_range : Nat, time_cols : Seq(BOOLEAN),
              tmp_fields : Nat, num_fields : Nat, ifs : {lp.ifs}, ofs : {lp.ofs}]
    BY DEF IInv, LPShape
<1>1. /\ lp' = [lp EXCEPT !.ifs = ifs, !.ofs = OfsFor(ifs)]
      /\ prev_fields_line' = prev_fields_line
      /\ ShowHeader(x, lp')
    BY DEF SeparatorLine
<1>2. lp' = [out_indexes |-> lp.out_indexes, idx_range |-> lp.idx_range,
             time_cols |-> lp.time_cols, tmp_fields |-> lp.tmp_fields,
             num_fields |-> lp.num_fields, ifs |-> ifs, ofs |-> OfsFor(ifs)]
    BY <1>0, <1>1
<1>3. LPShape'
    BY <1>0, <1>2 DEF LPShape
<1>4. status' \in {"running", "ok", "fatal", "crash"}
    BY <1>1, ShowHeaderStatus
<1> QED
    BY <1>1, <1>2, <1>3, <1>4, KeepIndexes


\* Every step keeps the invariant: one case per handler of the loop body,
\* the end of input, and a stuttering step.
LEMMA NextIInv == IInv /\ [Next]_vars => IInv'
<1> SUFFICES ASSUME IInv, [Next]_vars PROVE IInv'
    OBVIOUS
<1>1. CASE ReadLine
    <2> DEFINE x == StripNewline(line')
    <2>0. status = "running" /\ WriteLine
        BY <1>1 DEF ReadLine
    <2>1. CASE MissingTypes(x)
        BY <2>0, <2>1, KeepLp DEF MissingTypes
    <2>2. CASE DataLine(x)
        BY <2>0, <2>2, KeepLp DEF DataLine, Emit
    <2>3. CASE SeparatorLine(x)
        BY <2>0, <2>3, SeparatorLineIInv
    <2>4. CASE FieldsLine(x)
        BY <2>0, <2>4, FieldsLineIInv
    <2>5. CASE TypesLine(x)
        BY <2>0, <2>5, TypesLineIInv
    <2>6. CASE OtherLine(x)
        <3>1. status' \in {"running", "ok", "fatal", "crash"}
            BY <2>0, <2>6, ShowHeaderStatus DEF OtherLine
        <3> QED
            BY <2>0, <2>6, <3>1, KeepLp DEF OtherLine
    <2> QED
        BY <1>1, <2>1, <2>2, <2>3, <2>4, <2>5, <2>6 DEF ReadLine
<1>2. CASE EndOfInput
    <2>1. lp' = lp /\ prev_fields_line' = prev_fields_line /\ status' = "ok"
        BY <1>2 DEF EndOfInput
    <2>2. LPShape'
        BY <2>1 DEF IInv, LPShape
    <2>3. IndexesInRange'
        BY <2>1 DEF IInv, IndexesInRange
    <2> QED
        BY <2>1, <2>2, <2>3 DEF IInv
<1>3. CASE UNCHANGED vars
    BY <1>3 DEF vars, cvars, IInv, LPShape, IndexesInRange
<1> QED
    BY <1>1, <1>2, <1>3 DEF Next

\* The invariant implies IndexesInRange.
LEMMA IInvIndexes == IInv => IndexesInRange
BY DEF IInv

(***************************************************************************)
(* For every choice of columns, -n, -d, -c/-C and -F, and every stream the *)
(* writer can produce: the out indexes find_output_indexes computes stay   *)
(* below idx_range, idx_range within num_fields, tmp_fields one more than  *)
(* num_fields, and time_cols as long as idx_range whenever bro_cut runs    *)
(* with -d past a #types line.                                             *)
(***************************************************************************)
THEOREM IndexesInRangeInvariant == Spec => []IndexesInRange
<1>1. Init => IInv
    BY InitIInv
<1>2. IInv /\ [Next]_vars => IInv'
    BY NextIInv
<1>3. IInv => IndexesInRange
    BY IInvIndexes
<1> QED
    BY <1>1, <1>2, <1>3, PTL DEF Spec

=============================================================================
