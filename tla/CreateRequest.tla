--------------------------- MODULE CreateRequest ---------------------------
(***************************************************************************)
(* What CreateVolume makes of a request: its validation, the loop over the *)
(* StorageClass parameters and the volume it asks the API for, from        *)
(* controller.go and utils.go.                                             *)
(*                                                                         *)
(* A request is a record: the PV's name, whether it has a capacity range   *)
(* and asks for a block device, the parts of the snapshot id it restores   *)
(* (or <<>>), its parameters and secrets.  Parameters map spellings of     *)
(* names to values: strings, a number or Unparsable for accessMode, for    *)
(* labels the sequence of comma-separated labels, each the sequence of its *)
(* colon-separated fields, trimmed.                                        *)
(***************************************************************************)
EXTENDS Naturals, Sequences, FiniteSets

CONSTANTS
    Lower,                         \* strings.ToLower, of the spellings that occur
    IntBits,                       \* the width of accessMode, 32 in the code
    TenantUuid,                    \* GetTenantUUID, of the spellings of tenants that occur
    UseK8SNamespaceAsQuobyteTenant,
    DefaultAccessModes, DefaultSharedVolumeAccessModes, DefaultPVCAccessModeInsideSharedVolume

ASSUME RequestAssumption ==
    /\ IntBits \in Nat \ {0} /\ UseK8SNamespaceAsQuobyteTenant \in BOOLEAN

SharedVolumeNameKey == "sharedVolumeName"
PvcNamespaceKey == "csi.storage.k8s.io/pvc/namespace"
Unparsable == 2 ^ IntBits

Validated(request) == request.capacity /\ DOMAIN request.secrets # {} /\ ~request.block

IsShared(request) == SharedVolumeNameKey \in DOMAIN request.parameters

\* int32(u64)
Int32(n) == IF n < 2 ^ (IntBits - 1) THEN n ELSE n - 2 ^ IntBits

GoodLabel(fields) == Len(fields) >= 2 /\ fields[1] # "" /\ fields[2] # ""

\* Does the parameter end CreateVolume with an error?
Refused(key, value) ==
    \/ Lower[key] = "labels" /\ \E i \in DOMAIN value : ~GoodLabel(value[i])
    \/ Lower[key] = "accessmode" /\ value >= Unparsable

\* A blank user does not override the user of the credentials, a blank group does.
Ignored(key, value) == Lower[key] = "user" /\ value = ""

Meaning(key, value) ==
    CASE Lower[key] = "createquota" -> Lower[value] = "true"
      [] Lower[key] = "labels" ->
           [i \in DOMAIN value |-> [name |-> value[i][1], value |-> value[i][2]]]
      [] Lower[key] = "accessmode" -> Int32(value)
      [] OTHER -> value

\* Mutant: without a parameter that names it, the volume is named after its user.
Defaults_unnamed(request, user) ==
    [quobytetenant |-> "", sharedvolumename |-> user.name, user |-> user.name,
     group |-> user.group, createquota |-> FALSE, labels |-> <<>>, accessmode |-> 0]

\* The fields that parameters set, by the names of the parameters.
Defaults(request, user) ==
    [quobytetenant |-> "", sharedvolumename |-> request.name, user |-> user.name,
     group |-> user.group, createquota |-> FALSE, labels |-> <<>>, accessmode |-> 0]

\* Mutant: a blank user is taken.
Applied_blank_user(fields, key, value) ==
    IF Lower[key] \notin DOMAIN fields THEN fields
    ELSE [fields EXCEPT ![Lower[key]] = Meaning(key, value)]

\* One iteration of the loop; other parameters are of no concern.
Applied(fields, key, value) ==
    IF Lower[key] \notin DOMAIN fields \/ Ignored(key, value) THEN fields
    ELSE [fields EXCEPT ![Lower[key]] = Meaning(key, value)]

\* "Use storage class tenant if provided, otherwise use namespace as tenant".
NamespaceIsTenant(fields) == fields.quobytetenant = "" /\ UseK8SNamespaceAsQuobyteTenant

\* The checks after the loop.
Complete(request, fields) ==
    /\ fields.group # ""
    /\ NamespaceIsTenant(fields) => PvcNamespaceKey \in DOMAIN request.parameters

Tenant(request, fields) ==
    IF NamespaceIsTenant(fields) THEN request.parameters[PvcNamespaceKey] ELSE fields.quobytetenant

HasAccessMode(request) == \E key \in DOMAIN request.parameters : Lower[key] = "accessmode"

\* The volume that the API is asked for, and the mode of the claim's subdirectory in it.
VolumeRequest(request, fields) ==
    [name |-> fields.sharedvolumename, user |-> fields.user, group |-> fields.group,
     label |-> fields.labels,
     tenant |-> IF Tenant(request, fields) = "" THEN "" ELSE TenantUuid[Tenant(request, fields)],
     mode |-> IF IsShared(request) THEN DefaultSharedVolumeAccessModes
              ELSE IF HasAccessMode(request) THEN fields.accessmode ELSE DefaultAccessModes,
     quota |-> ~IsShared(request) /\ fields.createquota,
     directoryMode |-> IF fields.accessmode # 0 THEN fields.accessmode
                       ELSE DefaultPVCAccessModeInsideSharedVolume]

\* The values that the parameters give a field.
Given(request, field) ==
    {Meaning(key, request.parameters[key]) : key \in
        {k \in DOMAIN request.parameters :
            Lower[k] = field /\ ~Ignored(k, request.parameters[k])}}

\* A shared volume that the code takes for a dedicated one (controller.go:69, 89).
Misspelled(request) ==
    /\ ~IsShared(request)
    /\ \E key \in DOMAIN request.parameters : Lower[key] = "sharedvolumename"
=============================================================================
