----------------------------- MODULE MCPipeline -----------------------------
(* Instances of Pipeline with one event: events share no state but the queues'
   retention, which is not modelled. *)
EXTENDS Pipeline

CONSTANT e1
=============================================================================
