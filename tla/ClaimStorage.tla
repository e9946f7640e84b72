----------------------------- MODULE ClaimStorage -----------------------------
(***************************************************************************)
(* What provisioning inside shared volumes promises of a claim's storage,  *)
(* without handlers, retries, faults or a sweep (CreateVolume and          *)
(* DeleteVolume of src/driver/controller.go, the deletion workers of       *)
(* shared_volume_directory_deleter.go): a claim that is held has its       *)
(* subdirectory under its own name, with the files written to it; only the *)
(* storage of a claim that was given up goes, as a whole, to the trash or  *)
(* by a task of the backend; and nothing else is ever in the trash.        *)
(***************************************************************************)
CONSTANTS
    Owners,  \* whose storage it is
    ByTask   \* the backend erases what was given up, there is no trash

VARIABLES
    tenure,  \* whether an owner wants, holds or gave up its storage, or never got any
    own,     \* what is under the owner's own name
    trash    \* the owners that have something in the trash

claimStorage == <<tenure, own, trash>>

StorageInit ==
    /\ tenure = [o \in Owners |-> "wanted"]
    /\ own = [o \in Owners |-> "nothing"]
    /\ trash = {}

\* Also for an owner that gave up, by a call that nobody waits for.
Provide(o) ==
    /\ tenure[o] # "held"
    /\ own[o] = "nothing"
    /\ own' = [own EXCEPT ![o] = "empty"]
    /\ UNCHANGED <<tenure, trash>>

Hold(o) ==
    /\ tenure[o] = "wanted"
    /\ own[o] # "nothing"
    /\ tenure' = [tenure EXCEPT ![o] = "held"]
    /\ UNCHANGED <<own, trash>>

Write(o) ==
    /\ tenure[o] = "held"
    /\ own' = [own EXCEPT ![o] = "files"]
    /\ UNCHANGED <<tenure, trash>>

\* There is something to give up, and no way back.
GiveUp(o) ==
    /\ tenure[o] \in {"wanted", "held"}
    /\ own[o] # "nothing"
    /\ tenure' = [tenure EXCEPT ![o] = "givenUp"]
    /\ UNCHANGED <<own, trash>>

Abandon(o) ==
    /\ tenure[o] = "wanted"
    /\ tenure' = [tenure EXCEPT ![o] = "never"]
    /\ UNCHANGED <<own, trash>>

Discard(o) ==
    /\ tenure[o] = "givenUp"
    /\ own[o] # "nothing"
    /\ own' = [own EXCEPT ![o] = "nothing"]
    /\ trash' = IF ByTask THEN trash ELSE trash \cup {o}
    /\ UNCHANGED tenure

Empty(o) ==
    /\ tenure[o] = "givenUp"
    /\ o \in trash
    /\ trash' = trash \ {o}
    /\ UNCHANGED <<tenure, own>>

StorageNext ==
    \E o \in Owners :
        Provide(o) \/ Hold(o) \/ Write(o) \/ GiveUp(o) \/ Abandon(o) \/ Discard(o) \/ Empty(o)

StorageSpec == StorageInit /\ [][StorageNext]_claimStorage
=============================================================================
