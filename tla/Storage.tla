------------------------------ MODULE Storage ------------------------------
(***************************************************************************)
(* common/src/storage.rs: how long the instance entry, which holds the one *)
(* record of a contract, stays live.  Every ledger takes one from its      *)
(* time-to-live, and a call that changes the record extends it.  What has  *)
(* run out is archived: no call runs until somebody pays to restore it.    *)
(***************************************************************************)
EXTENDS Integers

CONSTANTS
    Threshold,  \* INSTANCE_THRESHOLD, in ledgers, scaled down
    Bump,       \* INSTANCE_BUMP
    MinTtl      \* what the host gives an entry it creates or restores

ASSUME StorageAssumption ==
    /\ Threshold \in Nat
    /\ Bump \in Nat /\ Threshold <= Bump
    /\ MinTtl \in Nat

VARIABLES
    ttl,  \* the ledgers after this one in which the instance is live
    idle  \* history: the ledgers since the last call that succeeded

storageVars == <<ttl, idle>>

-----------------------------------------------------------------------------

StorageTypeOK ==
    /\ ttl \in Nat \cup {-1}
    /\ idle \in 0..(Threshold + 1)

\* No call has succeeded yet: that is longer ago than the threshold.
StorageInit ==
    /\ ttl = MinTtl
    /\ idle = Threshold + 1

Archived == ttl < 0

\* Mutant: extended on its last day only.
ExtendedLate(t) == IF t < 1 THEN Bump ELSE t

\* extend_instance: to INSTANCE_BUMP, whenever below INSTANCE_THRESHOLD.
Extended(t) == IF t < Threshold THEN Bump ELSE t

\* A call that runs load, save or bump, however many of them, and succeeds.
Tend ==
    /\ ttl' = Extended(ttl)
    /\ idle' = 0

\* A ledger closes; `idle` stops counting past the threshold.
Age ==
    /\ ttl' = IF Archived THEN ttl ELSE ttl - 1
    /\ idle' = IF idle > Threshold THEN idle ELSE idle + 1

Restore ==
    /\ Archived
    /\ ttl' = MinTtl
    /\ UNCHANGED idle

=============================================================================
