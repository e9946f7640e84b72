--------------------------- MODULE CapacityLedger ---------------------------
(***************************************************************************)
(* What provisioning with createQuota promises, without handlers, retries  *)
(* or faults (the comment before SetVolumeQuota in CreateVolume,           *)
(* src/driver/controller.go): capacity is promised to a claim only while   *)
(* at least as much is reserved for it in the tenant, and what is promised *)
(* is neither given back nor given away before the claim is deleted.       *)
(***************************************************************************)
EXTENDS Capacity

CONSTANTS
    Owners,   \* who capacity is promised to
    Amounts,  \* the capacities one may ask for
    Limit     \* capacity there is

VARIABLES
    reserved,  \* capacity taken from the limit for each owner
    promised   \* capacity each owner was told it has

ledger == <<reserved, promised>>

LedgerInit ==
    /\ reserved = [o \in Owners |-> 0]
    /\ promised = [o \in Owners |-> 0]

\* Never below what was promised, and never beyond the limit.
Reserve(o) ==
    /\ \E n \in Amounts :
         /\ n >= promised[o]
         /\ n + Total(reserved, Owners \ {o}) <= Limit
         /\ reserved' = [reserved EXCEPT ![o] = n]
    /\ UNCHANGED promised

Promise(o) ==
    /\ \E n \in Amounts :
         /\ n <= reserved[o]
         /\ n >= promised[o]
         /\ promised' = [promised EXCEPT ![o] = n]
    /\ UNCHANGED reserved

\* The owner gives its capacity up.
Withdraw(o) ==
    /\ promised' = [promised EXCEPT ![o] = 0]
    /\ UNCHANGED reserved

GiveBack(o) ==
    /\ promised[o] = 0
    /\ reserved' = [reserved EXCEPT ![o] = 0]
    /\ UNCHANGED promised

LedgerNext ==
    \E o \in Owners : Reserve(o) \/ Promise(o) \/ Withdraw(o) \/ GiveBack(o)

LedgerSpec == LedgerInit /\ [][LedgerNext]_ledger
=============================================================================
