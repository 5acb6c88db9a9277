--------------------------- MODULE MCKafkaProducer ---------------------------
(***************************************************************************)
(* KafkaProducer for TLC.                                                  *)
(***************************************************************************)
EXTENDS KafkaProducer
=============================================================================
