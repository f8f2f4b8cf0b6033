-------------------------- MODULE MCKafkaConsumers --------------------------
(* The instance of KafkaConsumers that TLC checks. *)
EXTENDS KafkaConsumers

Leases ==
    {[fingerprint |-> "f1", vendor |-> "v1", oui |-> Nothing, request |-> "Request"],
     [fingerprint |-> "f1", vendor |-> "v2", oui |-> "o1", request |-> "Decline"],
     [fingerprint |-> Nothing, vendor |-> Nothing, oui |-> "o1", request |-> "Release"]}

Packets == {[alarm |-> "IllegalClient"], Garbled}

=============================================================================
