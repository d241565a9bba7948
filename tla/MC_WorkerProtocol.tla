------------------------ MODULE MC_WorkerProtocol ------------------------
(***************************************************************************)
(* Instances of WorkerProtocol for TLC.                                    *)
(***************************************************************************)
EXTENDS WorkerProtocol
=============================================================================
