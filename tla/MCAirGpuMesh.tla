---------------------------- MODULE MCAirGpuMesh ----------------------------
(***************************************************************************)
(* TLC instances of AirGpuMesh.                                            *)
(***************************************************************************)
EXTENDS AirGpuMesh

AnyRank == Ranks
=============================================================================
