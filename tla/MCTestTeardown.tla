--------------------------- MODULE MCTestTeardown ---------------------------
(***************************************************************************)
(* An instance of TestTeardown for TLC: a dynamic volume with an access    *)
(* key, a volume of the test's own, and dynamic volumes in tenants that    *)
(* are deleted, emptied or not, each beside a claim that is refused.       *)
(***************************************************************************)
EXTENDS TestTeardown

DynamicProvisioning ==
    <<"tenant", "grant", "user", "key", "secret", "class", "pvc", "bound", "pod", "running">>

PreProvisionedVolume ==
    <<"tenant", "grant", "user", "volume", "secret", "pv", "pvc", "bound", "pod", "running">>

NamespaceTenantMapping ==
    <<"tenant", "deleted", "user", "key", "secret", "class", "pvc", "bound">>

VolumeInTenantOfItsOwn ==
    <<"tenant", "grant", "emptied", "user", "secret", "class", "pvc", "bound">>

QuotaThatCannotBeSet ==
    <<"tenant", "grant", "emptied", "user", "secret", "class", "pvc", "refused">>

MCSuites ==
    {[t1 |-> s, t2 |-> QuotaThatCannotBeSet] :
        s \in {DynamicProvisioning, PreProvisionedVolume, NamespaceTenantMapping,
               VolumeInTenantOfItsOwn}}
=============================================================================
