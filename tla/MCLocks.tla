------------------------------- MODULE MCLocks -------------------------------
(***************************************************************************)
(* The locks of the library, each used by the same threads.  The locks do  *)
(* not interact, so a behaviour exercises one of them, chosen at the start.*)
(***************************************************************************)
EXTENDS InitTermLock

CONSTANTS t1, t2, t3, MaxActive, Nil

MCThreads == {t1, t2, t3}

VARIABLES inUse,                        \* the lock this behaviour uses
          lock, gw, cOwner, gsem, gth,  \* of the reader-writer and binary lock
          lw, cQS, lsem, lth,           \* of the latch
          half, key, open, mth          \* of the metered section

Group == INSTANCE GroupLock WITH Locks <- {"rw", "binary"}, w <- gw, sem <- gsem, th <- gth
Latch == INSTANCE SXWLatch WITH w <- lw, sem <- lsem, th <- lth
Section == INSTANCE MeteredSection WITH th <- mth

groupVars == <<lock, gw, cOwner, gsem, gth>>
latchVars == <<lw, cQS, lsem, lth>>
sectionVars == <<half, key, open, mth>>

locksVars == <<vars, groupVars, latchVars, sectionVars, inUse>>

LocksInit ==
    /\ Init /\ Group!Init /\ Latch!Init /\ Section!Init
    /\ inUse \in {"initterm", "group", "latch", "section"}
    /\ inUse # "group" => lock = "rw"

UseInitTermLock == inUse = "initterm" /\ Next /\ UNCHANGED <<groupVars, latchVars, sectionVars, inUse>>
UseGroupLock == inUse = "group" /\ Group!Next /\ UNCHANGED <<vars, latchVars, sectionVars, inUse>>
UseLatch == inUse = "latch" /\ Latch!Next /\ UNCHANGED <<vars, groupVars, sectionVars, inUse>>
UseSection == inUse = "section" /\ Section!Next /\ UNCHANGED <<vars, groupVars, latchVars, inUse>>

LocksNext == UseInitTermLock \/ UseGroupLock \/ UseLatch \/ UseSection

(* The fairness of the modules.  A behaviour enables the fair actions of   *)
(* the lock it uses only, so conditions of the same kind are stated once.  *)
GoesOn(t) ==
    \/ (Group!Leave(t) \/ Group!Inner(t)) /\ UNCHANGED <<latchVars, sectionVars>>
    \/ Latch!Inner(t) /\ UNCHANGED <<groupVars, sectionVars>>
    \/ Section!Goes(t) /\ UNCHANGED <<groupVars, latchVars>>

KernelWakes(t) ==
    \/ Group!AwakeInside(t) /\ UNCHANGED latchVars
    \/ Latch!AwakeLatched(t) /\ UNCHANGED groupVars

LocksSpec ==
    /\ LocksInit /\ [][LocksNext]_locksVars
    /\ \A t \in Threads : WF_<<groupVars, latchVars, sectionVars>>(GoesOn(t))
    /\ \A t \in Threads : SF_<<groupVars, latchVars>>(KernelWakes(t))
    /\ \A t \in Threads : SF_latchVars(Latch!ReleaseLatch(t))
-----------------------------------------------------------------------------
(* Readers and writers exclude one another, as do the two groups of a      *)
(* CBinaryLock, as do write and exclusive holders of a CSXWLatch through   *)
(* every upgrade and downgrade, and its word shows the latch a thread has, *)
(* as AssertValid enforces.                                                *)
MutualExclusion == Group!Exclusion /\ Latch!Exclusion /\ Latch!WordShowsOwner

(* CMeteredSection counts the threads of each group, and calls the pending *)
(* partition back when the old group is gone.                              *)
SectionSound == Section!HalvesExact /\ Section!CallsBackWhenGone

(* Every change of CReaderWriterLock's and CBinaryLock's word is one the   *)
(* asserted transition tables allow.                                       *)
GroupTransitionsValid == Group!TransitionsValid

(* Whoever waits for a CReaderWriterLock, CBinaryLock or CSXWLatch gets    *)
(* it, and every partition of a CMeteredSection is called back, while      *)
(* others keep coming.                                                     *)
EverybodyServed ==
    Group!NobodyStarves /\ Latch!NobodyStarves /\ Section!PartitionsComplete
=============================================================================
