------------------------ MODULE MCSharedVolumeSystem ------------------------
(***************************************************************************)
(* Instances of SharedVolumeSystem for TLC: two claims in one listed       *)
(* volume, one worker and a channel of one place.                          *)
(***************************************************************************)
EXTENDS SharedVolumeSystem

MCClaims == {"c1", "c2"}
MCHome == [c \in MCClaims |-> "v1"]
MCSweepList == <<"v1">>
MCHandlers == {1, 2}
=============================================================================
