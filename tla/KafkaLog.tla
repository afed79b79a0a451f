------------------------------- MODULE KafkaLog -------------------------------
(***************************************************************************)
(* What the Kafka log writer promises for each log record, whatever its   *)
(* buffering and librdkafka's queue do: once written, a record is pending *)
(* or has one final fate -- delivered to the broker, rejected by produce  *)
(* with a report, expired by librdkafka, or purged when the producer is   *)
(* deleted -- and a final fate never changes.  Every pending record        *)
(* eventually reaches a final fate.                                        *)
(***************************************************************************)
CONSTANT Records

VARIABLE fate

Final == {"delivered", "rejected", "expired", "purged"}

TypeOK == fate \in [Records -> {"unwritten", "pending"} \cup Final]

Init == fate = [r \in Records |-> "unwritten"]

\* A record is handed to the writer: it becomes pending, or is rejected at once.
Write(r) ==
    /\ fate[r] = "unwritten"
    /\ \E f \in {"pending", "rejected"} : fate' = [fate EXCEPT ![r] = f]

\* Some pending records reach the same final fate together.
Settle(S, f) ==
    /\ S # {}
    /\ \A r \in S : fate[r] = "pending"
    /\ fate' = [r \in Records |-> IF r \in S THEN f ELSE fate[r]]

Next ==
    \/ \E r \in Records : Write(r)
    \/ \E S \in SUBSET Records, f \in Final \ {"rejected"} : Settle(S, f)

\* The safety part of Spec: every step is a Write, a Settle or a stutter.
SafetySpec == Init /\ [][Next]_fate

(***************************************************************************)
(* A final fate never changes: no step moves a delivered, rejected,       *)
(* expired or purged record anywhere else.                                 *)
(***************************************************************************)
FinalFateStable ==
    [][\A r \in Records : fate[r] \in Final => fate'[r] = fate[r]]_fate

\* A pending record cannot stay pending forever.
Spec == Init /\ [][Next]_fate
        /\ \A r \in Records : WF_fate(\E f \in Final \ {"rejected"} : Settle({r}, f))
=============================================================================
