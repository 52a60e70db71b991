----------------------------- MODULE MCJournal -----------------------------
(***************************************************************************)
(* The journal in memory (JournalCommit) and on disk (JournalRing).  Both  *)
(* see the positions of the same segments, but the ring takes an append, a *)
(* write and a flush as one call each, so a behaviour is of one of them,   *)
(* chosen at the start.                                                    *)
(***************************************************************************)
EXTENDS JournalCommit

CONSTANTS N, RingMaxPos, MaxMounts, Zero, Bad

VARIABLES part,      \* what this behaviour is of
          disk, left, phase, mgr, jnl, unsealed, mounts, log, ack, gap, lost

Ring == INSTANCE JournalRing WITH MaxPos <- RingMaxPos

ringVars == <<disk, left, phase, mgr, jnl, unsealed, mounts, log, ack, gap, lost>>
journalVars == <<vars, ringVars, part>>

JournalInit ==
    /\ Init /\ Ring!Init
    /\ part \in {"commit", "ring"}
    /\ part = "ring" => j.durable = 0

Commits == part = "commit" /\ Next /\ UNCHANGED <<ringVars, part>>
OnDisk == part = "ring" /\ Ring!Next /\ UNCHANGED <<vars, part>>

JournalNext == Commits \/ OnDisk

(* The fairness of JournalCommit.                                          *)
JournalSpec ==
    /\ JournalInit /\ [][JournalNext]_journalVars
    /\ \A t \in Threads : WF_vars(part = "commit" /\ Inner(t))
    /\ \A s \in 2..MaxPos : WF_vars(part = "commit" /\ \E ok \in BOOLEAN : Sealed(s, ok))
-----------------------------------------------------------------------------
(* A journal something of which was acknowledged mounts and is visited     *)
(* without an error after every sequence of crashes, repairs and           *)
(* truncations (ErrInit, ErrVisitEntries), save after a gap and save when  *)
(* a crash lost what ErrFlush acknowledged while its write was out.        *)
RecoveryWorks == Ring!RecoveryWorks

(* A recovery that reports no error goes through every segment that        *)
(* ErrFlush acknowledged with all before it on the medium, and that        *)
(* ErrTruncate did not give up.                                            *)
NothingLost == Ring!NothingLost

(* A recovery goes through no segment that an earlier ErrRepair discarded, *)
(* save when a crash lost what ErrFlush acknowledged too early.            *)
NothingRevived == Ring!NothingRevived

(* After a flush and a truncation as far as they go, ErrAppendSegment      *)
(* takes another segment.                                                  *)
NeverStuck == Ring!NeverStuck
=============================================================================
