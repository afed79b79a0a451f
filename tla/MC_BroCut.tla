------------------------------ MODULE MC_BroCut ------------------------------
(* Model-checking instance of BroCut: two column names, tab and comma      *)
(* separators written as "\x09", "\x2c" or a literal ",".                  *)
EXTENDS BroCut

MCNames == {"a", "b"}
MCSepSpecs ==
    { <<9, [esc |-> TRUE, digits |-> <<0, 9>>, ch |-> 0]>>,
      <<44, [esc |-> TRUE, digits |-> <<2, 12>>, ch |-> 0]>>,
      <<44, [esc |-> FALSE, digits |-> <<>>, ch |-> 44]>> }

\* A "#separator \xZZ" line: an escape with no hex digits after it.
BadSepSpecs ==
    { <<9, [esc |-> TRUE, digits |-> <<16, 16>>, ch |-> 0]>> }

\* Requested columns: a name asked twice and a name no schema declares.
SelectCols == <<"b", "x", "b">>
NegateCols == <<"a">>
NoCols == <<>>

(***************************************************************************)
(* parsesep's closed form against strtol's digit-by-digit accumulation,    *)
(* for every spec of at most four characters after "\x" (TLC's integers   *)
(* cannot reach LONG_MAX, so the saturation is not part of this check).    *)
(***************************************************************************)
StrtolValue(d) ==
    LET acc[k \in 0..HexLen(d)] == IF k = 0 THEN 0 ELSE 16 * acc[k - 1] + d[k]
    IN  acc[HexLen(d)]
ASSUME ParsesepMatchesStrtol ==
    \A d \in BoundedSeq(0..16, 4) :
        parsesep([esc |-> TRUE, digits |-> d, ch |-> 0]) = StrtolValue(d) % 256

=============================================================================
