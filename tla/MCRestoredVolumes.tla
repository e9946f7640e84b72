-------------------------- MODULE MCRestoredVolumes --------------------------
(***************************************************************************)
(* An instance of RestoredVolumes for TLC: three snapshots of one volume,  *)
(* a dynamic one, one that an administrator named by the volume's name     *)
(* and with a subdirectory, and one without; a claim restored from each of *)
(* the first two and a pod on each.                                        *)
(***************************************************************************)
EXTENDS RestoredVolumes

MCSourceHandle ==
    [s1 |-> <<"tenant", "volume">>, s2 |-> <<"tenant", "volume", "sub">>,
     s3 |-> <<"tenant", "volume">>]
MCGivenId == [s2 |-> <<"tenant", "volume", "snap", "sub">>, s3 |-> <<"tenant", "volume", "other">>]
MCTenantUuid == [tenant |-> "t1", t1 |-> "t1"]
MCUuidOf == [v1 |-> "v1", volume |-> "v1"]
MCFrom == [r1 |-> "s1", r2 |-> "s2"]
MCKeyOf == [p1 |-> "key1", p2 |-> "key2"]
MCClaimOf == [p1 |-> "r1", p2 |-> "r2"]
MCHandlersOf == [s1 |-> {1, 2}, s2 |-> {3}, s3 |-> {4}]
MCCallsOf == [p1 |-> {1, 2}, p2 |-> {3, 4}]
=============================================================================
