---------------------------- MODULE MC_KafkaWriter ----------------------------
(* Small instances of the Kafka writer for TLC. *)
EXTENDS KafkaWriter

\* DoInit succeeds, or fails after the producer was created.
InitOkOrNoTopic == {"ok", "no_topic"}
\* DoInit fails on the broker list, before producer and topic are assigned.
InitBadBrokers == {"bad_brokers"}
\* Every way DoInit can end.
InitAny == {"ok", "bad_brokers", "no_producer", "no_topic"}
=============================================================================
