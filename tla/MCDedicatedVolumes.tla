------------------------- MODULE MCDedicatedVolumes -------------------------
(***************************************************************************)
(* Instances of DedicatedVolumes for TLC.  A live volume, a claim's handle *)
(* and a handler each remember at most one UUID, so MCUuids is large       *)
(* enough that a fresh one always exists.                                  *)
(***************************************************************************)
EXTENDS DedicatedVolumes

CONSTANTS ClaimCount, HandlerCount, MaxSize

MCClaims == 1 .. ClaimCount
MCHandlers == 1 .. HandlerCount
MCUuids == 1 .. (2 * ClaimCount + HandlerCount)
MCSizes == 1 .. MaxSize
=============================================================================
