-------------------------- MODULE MCDriverProcess --------------------------
(***************************************************************************)
(* An instance of DriverProcess for TLC.  The credentials of "shared" and  *)
(* "spelled" read the same one after the other, "twice" has the user of    *)
(* "shared" and another password, "refused" a third key, so that a cache   *)
(* of two clients evicts.                                                  *)
(***************************************************************************)
EXTENDS DriverProcess, TLC

MCLower ==
    [sharedVolumeName |-> "sharedvolumename", sharedvolumename |-> "sharedvolumename",
     accessMode |-> "accessmode", user |-> "user", User |-> "user", group |-> "group",
     createQuota |-> "createquota", True |-> "true", labels |-> "labels",
     quobyteTenant |-> "quobytetenant"]
    @@ (PvcNamespaceKey :> PvcNamespaceKey)

\* One tenant is given by name and by UUID.
MCTenantUuid == [ns |-> "ns-uuid", t |-> "t-uuid"] @@ ("t-uuid" :> "t-uuid")

Namespace == PvcNamespaceKey :> "ns"

Request(name, parameters, secrets) ==
    [name |-> name, capacity |-> TRUE, block |-> FALSE, snapshot |-> <<>>,
     parameters |-> parameters, secrets |-> secrets]

MCRequests ==
    [shared |-> Request("pvc-1",
        [sharedVolumeName |-> "shared", accessMode |-> 9, user |-> ""] @@ Namespace,
        [accessKeyId |-> <<"a">>, accessKeySecret |-> <<"b", "c">>, user |-> <<"x">>]),
     spelled |-> Request("pvc-2",
        [sharedvolumename |-> "shared", createQuota |-> "True", group |-> "g2"] @@ Namespace,
        [user |-> <<"a", "b">>, password |-> <<"c">>]),
     twice |-> Request("pvc-3",
        [user |-> "u1", User |-> "u2", quobyteTenant |-> "t",
         labels |-> <<<<"k", "v">>, <<"k2", "v2", "v3">>>>],
        [user |-> <<"a">>, password |-> <<"d">>]),
     refused |-> Request("pvc-4",
        [labels |-> <<<<"">>>>, accessMode |-> 16, group |-> ""],
        [user |-> <<"b">>, password |-> <<"b">>]),
     plain |-> Request("pvc-5", [quobyteTenant |-> "t-uuid"], [user |-> <<"a">>, password |-> <<"d">>])]

MCWhoAmI ==
    (<<"a">> :> [name |-> "a", group |-> "g"]) @@ (<<"a", "b">> :> [name |-> "ab", group |-> ""])
    @@ (<<"b">> :> [name |-> "b", group |-> "g"])

GoodOptions == [quobyteVersion |-> 3, apiUrl |-> TRUE, mountPath |-> TRUE, name |-> TRUE,
                version |-> TRUE, unix |-> TRUE]

MCOptions == {GoodOptions, [GoodOptions EXCEPT !.quobyteVersion = 2], [GoodOptions EXCEPT !.unix = FALSE]}
=============================================================================
