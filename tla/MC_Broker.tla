------------------------------ MODULE MC_Broker ------------------------------
(* A small broker: one producer event, two event types, two triggers.  The *)
(* first passes only T1 and has a dead-letter sink; the second has no      *)
(* subscriber URI in its status.                                           *)
EXTENDS Broker

CONSTANTS e1, T1, T2, t1, t2

MCFilterOf == [t \in Triggers |-> IF t = t1 THEN {T1} ELSE Types]

\* TTLs a producer may send: none, a negative one, one above MaxTTL.
MCProducerTTLs == {None, -1, MaxTTL + 1}

=============================================================================
