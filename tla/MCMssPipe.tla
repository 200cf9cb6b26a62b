------------------------------ MODULE MCMssPipe ------------------------------
(***************************************************************************)
(* The API sends the device and its calibration, a worker the result of a  *)
(* job, over a client that may have to connect three times.                *)
(***************************************************************************)
EXTENDS MssPipe

CONSTANTS api, worker, device, calibration, result

MCPlan == [s \in Senders |-> IF s = api THEN <<device, calibration>> ELSE <<result>>]

=============================================================================
