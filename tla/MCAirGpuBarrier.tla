-------------------------- MODULE MCAirGpuBarrier --------------------------
(***************************************************************************)
(* TLC instances of AirGpuBarrier.                                         *)
(***************************************************************************)
EXTENDS AirGpuBarrier
AnyRank == Ranks
=============================================================================
