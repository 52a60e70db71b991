------------------------- MODULE MCDynamicHashTable -------------------------
(***************************************************************************)
(* One thread writes while another calls everything else.  The number of   *)
(* states allows for two sections, two keys, both kinds of scan and a      *)
(* directory that is split and merged, but not for all of it at once: each *)
(* behaviour is one of three cases.                                        *)
(***************************************************************************)
EXTENDS TLC, Naturals

CONSTANTS t1, t2

VARIABLES dirptrs, arrays, bucket, stateCur, cCompletions, semPolicy, cBucketPreferred, group, th,
          stored,
          case      \* the case this behaviour is of

Threads == {t1, t2}
cbucketMin == 2

Calls(ops) == t1 :> {"write"} @@ t2 :> ops

\* Key 4 is in bucket 0 of up to four buckets and in bucket 4 of five.
Locking ==
    INSTANCE DynamicHashTable WITH
        Keys <- {4}, chs <- 2, Sizes <- {3, 5}, Ops <- Calls({"read", "try"})
Scanning ==
    INSTANCE DynamicHashTable WITH
        Keys <- {4}, chs <- 1, Sizes <- {3, 5}, Ops <- Calls({"scan", "from"})

\* Keys 0 and 2 are both in bucket 0 of two buckets, and apart in three.
Crowded ==
    INSTANCE DynamicHashTable WITH
        Keys <- {0, 2}, chs <- 1, Sizes <- {2, 3}, Ops <- Calls({"scan", "from"})

vars == <<dirptrs, arrays, bucket, stateCur, cCompletions, semPolicy, cBucketPreferred, group, th,
          stored, case>>

\* The table as ErrInit leaves it has two buckets; from there it has grown to
\* four, through the split of its directory, and nothing is left in it.
\* From five buckets to three and back both directories are split and merged.
Grown(sections, buckets, idle) ==
    /\ dirptrs = <<[max |-> 2, c |-> 2], [max |-> 1, c |-> 1]>>
    /\ arrays = {0, 1}
    /\ bucket = [i \in buckets |-> << >>]
    /\ stateCur = "Grow" /\ semPolicy = 1 /\ cBucketPreferred = 4
    /\ group = [h \in sections |-> 0]
    /\ cCompletions \in sections /\ cCompletions + 1 \notin sections
    /\ th = [t \in Threads |-> idle]
    /\ stored = {}

Init ==
    \/ case = "locking" /\ Grown(Locking!Sections, Locking!Buckets, Locking!Idle)
    \/ case = "scanning" /\ Grown(Scanning!Sections, Scanning!Buckets, Scanning!Idle)
    \/ case = "crowded" /\ Crowded!Init

Next ==
    \/ case = "locking" /\ Locking!Next /\ UNCHANGED case
    \/ case = "scanning" /\ Scanning!Next /\ UNCHANGED case
    \/ case = "crowded" /\ Crowded!Next /\ UNCHANGED case

Spec == Init /\ [][Next]_vars
-----------------------------------------------------------------------------
(* ReadLockKey, WriteLockKey and FTryWriteLockKey find the entry of a key  *)
(* if and only if it was inserted and not deleted, and none is lost or     *)
(* doubled by splits and merges of buckets and directories.                *)
EntriesFound ==
    /\ case = "locking" => Locking!EntriesFound
    /\ case = "scanning" => Scanning!EntriesFound
    /\ case = "crowded" => Crowded!EntriesFound

(* DIRIMerge frees no bucket array that somebody has or is about to lock a *)
(* bucket of, and a bucket is had by one thread or by readers.             *)
BucketsSound ==
    /\ case = "locking" => Locking!BucketsSound
    /\ case = "scanning" => Scanning!BucketsSound
    /\ case = "crowded" => Crowded!BucketsSound

(* A scan to the end (ErrMoveNext) has gone over every entry that was      *)
(* there from its beginning and that no merge moved behind it.             *)
ScanMissesNothing ==
    /\ case = "locking" => Locking!ScanMissesNothing
    /\ case = "scanning" => Scanning!ScanMissesNothing
    /\ case = "crowded" => Crowded!ScanMissesNothing

(* While the policy semaphore is taken somebody carries the transition on  *)
(* (STTransition, STCompletion); while it is free none is under way.       *)
TransitionCarried ==
    /\ case = "locking" => Locking!TransitionCarried
    /\ case = "scanning" => Scanning!TransitionCarried
    /\ case = "crowded" => Crowded!TransitionCarried
=============================================================================
