-------------------------- MODULE DynamicHashTable --------------------------
(***************************************************************************)
(* CDynamicHashTable (dht.hxx): a linear hash table that grows and shrinks *)
(* one bucket at a time while it is used.  A call passes through one of    *)
(* the metered sections (one per processor), reads the state of the table  *)
(* there and picks with it one of two copies of the directory pointers.    *)
(* The state changes by partitioning every section: when all have called   *)
(* back, everybody inside has seen the new state.                          *)
(*                                                                         *)
(* A key is its hash.  A bucket, its overflow chain included, is a         *)
(* sequence of keys.  The reader-writer lock of a bucket and the metered   *)
(* section are taken by what they promise (GroupLock, MeteredSection).     *)
(* The counts the policy is computed from are left out: a policy may       *)
(* prefer any number of buckets of Sizes.                                  *)
(***************************************************************************)
EXTENDS Integers, FiniteSets, Sequences, SequencesExt

CONSTANTS Threads,
          Keys,        \* hashes
          chs,         \* metered sections
          cbucketMin,
          Sizes,       \* numbers of buckets a policy may prefer
          Ops          \* the calls of every thread: "read", "write", "try", "scan", "from"

VARIABLES dirptrs,     \* m_dirptrs: the directory as states Split and Merge see it is the second
          arrays,      \* exponents with a bucket array in m_rgrgBucket
          bucket,      \* contents of every bucket
          stateCur, cCompletions, semPolicy, cBucketPreferred,
          group,       \* the current group of every metered section
          th,          \* what every thread is doing
          stored       \* keys inserted and not deleted

vars == <<dirptrs, arrays, bucket, stateCur, cCompletions, semPolicy, cBucketPreferred, group, th, stored>>
table == <<dirptrs, arrays, bucket, stored>>
policy == <<stateCur, cCompletions, semPolicy, cBucketPreferred>>

Sections == 1 .. chs
Buckets == 0 .. Max(Sizes) - 1

(* DIRILog2: the array a bucket is in.                                     *)
Exponent(i) == CHOOSE e \in 0 .. Max(Sizes) : IF i < 2 THEN e = 0 ELSE 2 ^ e <= i /\ i < 2 ^ (e + 1)

(* PbucketDIRIHash.                                                        *)
HashTo(d, k) ==
    LET i == k % (2 * d.max) IN IF i >= d.max + d.c THEN i - d.max ELSE i

Active(d) == d.max + d.c

(* m_dirptrs[ esCurrent >> 4 ].                                            *)
DirOf(es) == dirptrs[IF es \in {"Split", "Merge"} THEN 2 ELSE 1]

(* m_stNext of the state transition table.                                 *)
StNext ==
    [ShrinkFromGrow |-> "ShrinkFromGrow2", ShrinkFromGrow2 |-> "Shrink",
     GrowFromShrink |-> "GrowFromShrink2", GrowFromShrink2 |-> "Grow",
     SplitFromGrow |-> "SplitFromGrow2", SplitFromGrow2 |-> "Split",
     Split |-> "GrowFromSplit", GrowFromSplit |-> "GrowFromSplit2", GrowFromSplit2 |-> "Grow",
     MergeFromShrink |-> "MergeFromShrink2", MergeFromShrink2 |-> "Merge",
     Merge |-> "ShrinkFromMerge", ShrinkFromMerge |-> "ShrinkFromMerge2", ShrinkFromMerge2 |-> "Shrink",
     Grow |-> "Nil", Shrink |-> "Nil"]

Idle == [pc |-> "idle", op |-> "none", k |-> 0, h |-> 1, g |-> 0, es |-> "Nil",
         b |-> 0, b2 |-> 0, i |-> 0, c |-> 0, again |-> FALSE, s |-> 0, n |-> 0,
         dirty |-> FALSE, p |-> chs + 1, ret |-> "idle", owed |-> {}]

(* ErrInit, for a number of buckets that ErrDIRInit need not round up.      *)
Init ==
    /\ dirptrs = <<[max |-> cbucketMin \div 2, c |-> cbucketMin \div 2], [max |-> 0, c |-> 0]>>
    /\ arrays = {Exponent(i) : i \in 0 .. cbucketMin - 1}
    /\ bucket = [i \in Buckets |-> << >>]
    /\ stateCur = "Grow" /\ cCompletions = 0 /\ semPolicy = 1
    /\ cBucketPreferred = cbucketMin
    /\ group = [h \in Sections |-> 0]
    /\ th = [t \in Threads |-> Idle]
    /\ stored = {}
-----------------------------------------------------------------------------
InSection == {"state", "hash", "lock", "next", "hashnext", "locknext",
              "maint", "split", "splitmove", "merge", "mergemove", "leave"}

Members(h, g) == {t \in Threads : th[t].pc \in InSection /\ th[t].h = h /\ th[t].g = g}

(* The buckets a thread has locked.                                        *)
Locked(t) ==
    LET me == th[t] IN
    CASE me.pc = "held" -> {me.b}
      [] me.pc \in {"leave", "callback", "completed", "part"} /\ me.ret = "held" -> {me.b}
      [] me.pc \in {"splitmove", "mergemove"} -> {me.b, me.b2}
      [] OTHER -> {}

CanLock(t, b) ==
    \A u \in Threads \ {t} : b \in Locked(u) => th[t].op = "read" /\ th[u].op = "read"

(* UiSTEnter: whoever enters is of the current group of its section.       *)
Entering(t, r) ==
    \E h \in Sections : th' = [th EXCEPT ![t] = [r EXCEPT !.pc = "state", !.h = h, !.g = group[h]]]

Becomes(t, r) == th' = [th EXCEPT ![t] = r]
Goes(t, pc) == th' = [th EXCEPT ![t].pc = pc]

(* On the way out of the section with no bucket.                           *)
Leaves(t, ret) ==
    LET me == IF th[t].op = "scan" THEN [th[t] EXCEPT !.b = 0, !.b2 = 0, !.c = 0] ELSE Idle
    IN  th' = [th EXCEPT ![t] = [me EXCEPT !.pc = "leave", !.ret = ret, !.h = th[t].h, !.g = th[t].g]]

(* Where MaintainTable returns to: the scan it was called from, or nowhere.*)
After(t) == IF th[t].op = "scan" THEN "enternext" ELSE "idle"
-----------------------------------------------------------------------------
(* ReadLockKey, WriteLockKey, FTryWriteLockKey, BeginHashScan and          *)
(* BeginHashScanFromKey enter a section; BeginHashScan hashes bucket 0.    *)
Begin(t) ==
    /\ th[t].pc = "idle"
    /\ \E op \in Ops[t], k \in Keys :
         Entering(t, [Idle EXCEPT !.op = op, !.k = IF op = "scan" THEN 0 ELSE k, !.ret = "hash"])
    /\ UNCHANGED <<table, policy, group>>

(* EsSTGetState.                                                           *)
ReadState(t) ==
    /\ th[t].pc = "state"
    /\ th' = [th EXCEPT ![t].es = stateCur, ![t].pc = th[t].ret]
    /\ UNCHANGED <<table, policy, group>>

HashKey(t) ==
    LET d == DirOf(th[t].es) IN
    /\ th[t].pc = "hash"
    /\ th' = [th EXCEPT ![t].pc = "lock", ![t].b = HashTo(d, th[t].k), ![t].i = HashTo(d, th[t].k),
                        ![t].c = IF th[t].again THEN @ ELSE d.c]
    /\ UNCHANGED <<table, policy, group>>

(* The lock is taken; a scan that begins owes its caller what is in the    *)
(* buckets from here on.                                                   *)
Holding(t) ==
    IF th[t].op \in {"scan", "from"}
    THEN [th[t] EXCEPT !.pc = "leave", !.ret = "held", !.op = "scan", !.again = FALSE, !.c = 0, !.k = 0,
                       !.s = 0, !.n = IF bucket[th[t].b] = << >> THEN 0 ELSE 1,
                       !.owed = {k \in stored : HashTo(DirOf(th[t].es), k) >= th[t].i}]
    ELSE [th[t] EXCEPT !.pc = "leave", !.ret = "held", !.again = FALSE, !.c = 0]

(* Mutant: a bucket that was merged away is not noticed. *)
SplitMeanwhile(d, c, i) == c <= i /\ i < d.c

(* The bucket was split or merged between the hash and the lock.           *)
MovedMeanwhile(d, c, i) ==
    \/ c <= i /\ i < d.c
    \/ d.max + d.c <= i /\ i < d.max + c

(* DIRReadLockKey and FDIRTryWriteLockKey with the lock look once whether  *)
(* it is still the bucket of the key: only who has the lock moves the      *)
(* bucket, so locking and looking are one step.                            *)
LockBucket(t) ==
    /\ th[t].pc = "lock"
    /\ CanLock(t, th[t].b)
    /\ IF th[t].op # "scan" /\ ~ th[t].again /\ MovedMeanwhile(DirOf(th[t].es), th[t].c, th[t].i)
       THEN th' = [th EXCEPT ![t].pc = "hash", ![t].again = TRUE]
       ELSE Becomes(t, Holding(t))
    /\ UNCHANGED <<table, policy, group>>

(* FTryEnterAsWriter fails: FTryWriteLockKey leaves with nothing.          *)
TryFails(t) ==
    /\ th[t].pc = "lock" /\ th[t].op = "try"
    /\ ~ CanLock(t, th[t].b)
    /\ Leaves(t, "idle")
    /\ UNCHANGED <<table, policy, group>>

(* Mutant: the last one to leave does not complete the partition. *)
LeaveSilently(t) ==
    /\ th[t].pc = "leave"
    /\ th' = [th EXCEPT ![t].pc = th[t].ret, ![t].es = "Nil", ![t].g = 0, ![t].h = 1]
    /\ UNCHANGED <<table, policy, group>>

(* STLeave: the last of a group that is not the current one completes the  *)
(* partition of the section.                                               *)
Leave(t) ==
    /\ th[t].pc = "leave"
    /\ th' = [th EXCEPT ![t].pc = IF th[t].g # group[th[t].h] /\ Members(th[t].h, th[t].g) = {t}
                                  THEN "callback" ELSE th[t].ret,
                        ![t].es = "Nil", ![t].g = 0, ![t].h = 1]
    /\ UNCHANGED <<table, policy, group>>
-----------------------------------------------------------------------------
(* ErrInsertEntry; it changes nothing if the key is there or memory is not.*)
InsertEntry(t) ==
    /\ th[t].pc = "held" /\ th[t].op \in {"write", "try"}
    /\ ~ Contains(bucket[th[t].b], th[t].k)
    /\ bucket' = [bucket EXCEPT ![th[t].b] = Append(@, th[t].k)]
    /\ stored' = stored \cup {th[t].k}
    /\ th' = [th EXCEPT ![t].dirty = TRUE]
    /\ UNCHANGED <<dirptrs, arrays, policy, group>>

(* ErrBKTDeleteEntry puts the last entry of the bucket in the hole.        *)
Without(seq, j) == Front([seq EXCEPT ![j] = Last(seq)])

(* ErrDeleteEntry under a key's lock.                                      *)
DeleteEntry(t) ==
    LET seq == bucket[th[t].b] IN
    /\ th[t].pc = "held" /\ th[t].op \in {"write", "try"}
    /\ \E j \in DOMAIN seq :
         /\ seq[j] = th[t].k
         /\ bucket' = [bucket EXCEPT ![th[t].b] = Without(seq, j)]
    /\ stored' = stored \ {th[t].k}
    /\ th' = [u \in Threads |-> [th[u] EXCEPT !.owed = @ \ {th[t].k}, !.dirty = IF u = t THEN TRUE ELSE @]]
    /\ UNCHANGED <<dirptrs, arrays, policy, group>>

(* ReadUnlockKey; WriteUnlockKey goes on with MaintainTable.               *)
Unlock(t) ==
    /\ th[t].pc = "held" /\ th[t].op # "scan"
    /\ Becomes(t, IF th[t].dirty THEN [Idle EXCEPT !.op = "write", !.pc = "maintain"] ELSE Idle)
    /\ UNCHANGED <<table, policy, group>>
-----------------------------------------------------------------------------
(* ErrMoveNext within a bucket.                                            *)
MoveNext(t) ==
    LET seq == bucket[th[t].b]
        s == IF th[t].s = 0 THEN th[t].n ELSE IF th[t].s < Len(seq) THEN th[t].s + 1 ELSE 0
    IN
    /\ th[t].pc = "held" /\ th[t].op = "scan"
    /\ IF s # 0
       THEN th' = [th EXCEPT ![t].s = s, ![t].n = 0, ![t].owed = @ \ {seq[s]}]
       ELSE th' = [th EXCEPT ![t].s = 0, ![t].n = 0, ![t].b = 0,
                            ![t].pc = IF th[t].dirty THEN "maintain" ELSE "enternext"]
    /\ UNCHANGED <<table, policy, group>>

(* Mutant: the scan goes on behind the entry put in the hole. *)
ScanDeleteSkips(t) ==
    LET seq == bucket[th[t].b] IN
    /\ th[t].pc = "held" /\ th[t].op = "scan" /\ th[t].s # 0
    /\ bucket' = [bucket EXCEPT ![th[t].b] = Without(seq, th[t].s)]
    /\ stored' = stored \ {seq[th[t].s]}
    /\ th' = [u \in Threads |->
                 IF u = t THEN [th[t] EXCEPT !.dirty = TRUE, !.s = 0, !.n = 0]
                 ELSE [th[u] EXCEPT !.owed = @ \ {seq[th[t].s]}]]
    /\ UNCHANGED <<dirptrs, arrays, policy, group>>

(* ErrDeleteEntry at the entry a scan is on: the entry put in the hole is  *)
(* the next.                                                               *)
ScanDelete(t) ==
    LET seq == bucket[th[t].b] IN
    /\ th[t].pc = "held" /\ th[t].op = "scan" /\ th[t].s # 0
    /\ bucket' = [bucket EXCEPT ![th[t].b] = Without(seq, th[t].s)]
    /\ stored' = stored \ {seq[th[t].s]}
    /\ th' = [u \in Threads |->
                 IF u = t
                 THEN [th[t] EXCEPT !.dirty = TRUE, !.s = 0, !.n = IF th[t].s # Len(seq) THEN th[t].s ELSE 0]
                 ELSE [th[u] EXCEPT !.owed = @ \ {seq[th[t].s]}]]
    /\ UNCHANGED <<dirptrs, arrays, policy, group>>

(* ErrSCANMoveNext, the bucket before left and the table maintained.       *)
EnterNext(t) ==
    /\ th[t].pc = "enternext"
    /\ Entering(t, [th[t] EXCEPT !.ret = "next"])
    /\ UNCHANGED <<table, policy, group>>

NextBucket(t) ==
    /\ th[t].pc = "next"
    /\ IF th[t].i + 1 < Active(DirOf(th[t].es))
       THEN th' = [th EXCEPT ![t].pc = "hashnext", ![t].i = @ + 1]
       ELSE Leaves(t, "over")
    /\ UNCHANGED <<table, policy, group>>

HashNext(t) ==
    /\ th[t].pc = "hashnext"
    /\ th' = [th EXCEPT ![t].pc = "locknext", ![t].b = HashTo(DirOf(th[t].es), th[t].i)]
    /\ UNCHANGED <<table, policy, group>>

(* With the lock, the bucket is passed over if it is gone or empty.        *)
LockNext(t) ==
    LET seq == bucket[th[t].b] IN
    /\ th[t].pc = "locknext"
    /\ CanLock(t, th[t].b)
    /\ IF th[t].i < Active(DirOf(th[t].es)) /\ seq # << >>
       THEN th' = [th EXCEPT ![t].pc = "leave", ![t].ret = "held", ![t].s = 1, ![t].owed = @ \ {seq[1]}]
       ELSE th' = [th EXCEPT ![t].pc = "next", ![t].b = 0]
    /\ UNCHANGED <<table, policy, group>>

(* EndHashScan, on an entry or behind the last.                            *)
EndScan(t) ==
    /\ th[t].op = "scan" /\ th[t].pc \in {"held", "over"}
    /\ Becomes(t, IF th[t].pc = "held" /\ th[t].dirty THEN [Idle EXCEPT !.op = "write", !.pc = "maintain"] ELSE Idle)
    /\ UNCHANGED <<table, policy, group>>
-----------------------------------------------------------------------------
(* MaintainTable without the policy semaphore, or with too few operations  *)
(* since the last policy.                                                  *)
NoPolicy(t) ==
    /\ th[t].pc = "maintain"
    /\ Goes(t, "perform")
    /\ UNCHANGED <<table, policy, group>>

(* Mutant: the directory is merged before its last bucket is. *)
EsNewEager(es, d, preferred) ==
    CASE es = "Grow" /\ preferred < Active(d) -> "ShrinkFromGrow"
      [] es = "Grow" /\ preferred > Active(d) /\ d.c = d.max -> "SplitFromGrow"
      [] es = "Shrink" /\ preferred < Active(d) -> "MergeFromShrink"
      [] es = "Shrink" /\ preferred > Active(d) -> "GrowFromShrink"
      [] OTHER -> "Nil"

(* SelectMaintenancePolicy's choice of the state to go to.                 *)
EsNew(es, d, preferred) ==
    CASE es = "Grow" /\ preferred < Active(d) -> "ShrinkFromGrow"
      [] es = "Grow" /\ preferred > Active(d) /\ d.c = d.max -> "SplitFromGrow"
      [] es = "Shrink" /\ preferred < Active(d) /\ d.c = 0 -> "MergeFromShrink"
      [] es = "Shrink" /\ preferred > Active(d) -> "GrowFromShrink"
      [] OTHER -> "Nil"

SelectMaintenancePolicy(t) ==
    /\ th[t].pc = "maintain"
    /\ semPolicy = 1 /\ semPolicy' = 0
    /\ \E preferred \in Sizes :
         /\ cBucketPreferred' = preferred
         /\ th' = [th EXCEPT ![t].pc = "policy", ![t].es = EsNew(stateCur, DirOf(stateCur), preferred)]
    /\ UNCHANGED <<table, stateCur, cCompletions, group>>

(* STTransition up to the partitions.                                      *)
STTransition(t, es, ret) ==
    /\ stateCur' = es /\ cCompletions' = 0
    /\ th' = [th EXCEPT ![t].pc = "part", ![t].p = 1, ![t].es = "Nil", ![t].ret = ret]

FollowPolicy(t) ==
    /\ th[t].pc = "policy"
    /\ IF th[t].es # "Nil"
       THEN STTransition(t, th[t].es, "perform") /\ UNCHANGED semPolicy
       ELSE /\ semPolicy' = 1
            /\ Goes(t, "perform")
            /\ UNCHANGED <<stateCur, cCompletions>>
    /\ UNCHANGED <<table, cBucketPreferred, group>>

(* Partition of one section after the other: at once complete when nobody  *)
(* of the old group is inside.                                             *)
Partition(t) ==
    LET h == th[t].p IN
    /\ th[t].pc = "part"
    /\ group' = [group EXCEPT ![h] = 1 - @]
    /\ th' = [th EXCEPT ![t].p = h + 1,
                        ![t].pc = IF Members(h, group[h]) = {} THEN "callback"
                                  ELSE IF h = chs THEN th[t].ret ELSE "part"]
    /\ UNCHANGED <<table, policy>>

(* DIRISplit and DIRIMerge; the array of the merged half goes.             *)
DIRISplit(d) == [max |-> d.max * 2, c |-> 0]
DIRIMerge(d) == [max |-> d.max \div 2, c |-> d.max \div 2]

(* STCompletion, in a section that is not the last to call back.           *)
STCompletion(t) ==
    /\ th[t].pc = "callback"
    /\ cCompletions + 1 < chs
    /\ cCompletions' = cCompletions + 1
    /\ Goes(t, IF th[t].p > chs THEN th[t].ret ELSE "part")
    /\ UNCHANGED <<table, stateCur, semPolicy, cBucketPreferred, group>>

(* The last one runs the completion of the state: STCompletionCopyDir,     *)
(* STCompletionSplit, STCompletionMerge or STCompletionGrowShrink.         *)
STCompletionLast(t) ==
    LET d == dirptrs[1] IN
    /\ th[t].pc = "callback"
    /\ cCompletions + 1 >= chs
    /\ cCompletions' = cCompletions + 1
    /\ dirptrs' = CASE stateCur \in {"SplitFromGrow2", "MergeFromShrink2"} -> [dirptrs EXCEPT ![2] = d]
                     [] stateCur = "Split" -> [dirptrs EXCEPT ![1] = DIRISplit(d)]
                     [] stateCur = "Merge" -> [dirptrs EXCEPT ![1] = DIRIMerge(d)]
                     [] OTHER -> dirptrs
    /\ arrays' = IF stateCur = "Merge" THEN arrays \ {Exponent(d.max)} ELSE arrays
    /\ semPolicy' = IF stateCur \in {"Grow", "Shrink"} THEN semPolicy + 1 ELSE semPolicy
    /\ Goes(t, IF StNext[stateCur] = "Nil" THEN th[t].ret ELSE "completed")
    /\ UNCHANGED <<bucket, stored, stateCur, cBucketPreferred, group>>

NextState(t) ==
    /\ th[t].pc = "completed"
    /\ STTransition(t, StNext[stateCur], th[t].ret)
    /\ UNCHANGED <<table, semPolicy, cBucketPreferred, group>>
-----------------------------------------------------------------------------
(* MaintainTable performs maintenance while the table has not the size the *)
(* policy prefers.                                                         *)
PerformMaintenance(t) ==
    /\ th[t].pc = "perform"
    /\ IF Active(dirptrs[1]) # cBucketPreferred
       THEN Entering(t, [th[t] EXCEPT !.ret = "maint"])
       ELSE Becomes(t, IF th[t].op = "scan" THEN [th[t] EXCEPT !.pc = "enternext"] ELSE Idle)
    /\ UNCHANGED <<table, policy, group>>

(* BKTISplit and BKTIMerge find nothing to do, or no bucket in reserve.    *)
NothingToDo(t) ==
    /\ th[t].pc = "maint"
    /\ Leaves(t, After(t))
    /\ UNCHANGED <<table, policy, group>>

BKTISplit(t) ==
    LET d == dirptrs[1] IN
    /\ th[t].pc = "maint" /\ th[t].es = "Grow"
    /\ Active(d) < cBucketPreferred /\ d.c # d.max
    /\ th' = [th EXCEPT ![t].pc = "split", ![t].b = HashTo(d, d.c), ![t].c = d.c]
    /\ UNCHANGED <<table, policy, group>>

BKTIMerge(t) ==
    LET d == dirptrs[1] IN
    /\ th[t].pc = "maint" /\ th[t].es = "Shrink"
    /\ Active(d) > cBucketPreferred /\ d.c # 0
    /\ th' = [th EXCEPT ![t].pc = "merge", ![t].b = HashTo(d, d.c - 1), ![t].c = d.c - 1]
    /\ UNCHANGED <<table, policy, group>>

(* With the bucket locked and still the next to split, its other half is   *)
(* locked, which nobody else can have, and becomes a bucket.               *)
AddBucket(t) ==
    LET d == dirptrs[1] IN
    /\ th[t].pc = "split"
    /\ CanLock(t, th[t].b) /\ d.c = th[t].c
    /\ arrays' = arrays \cup {Exponent(d.max + d.c)}
    /\ dirptrs' = [dirptrs EXCEPT ![1].c = @ + 1]
    /\ th' = [th EXCEPT ![t].pc = "splitmove", ![t].b2 = d.max + d.c]
    /\ UNCHANGED <<bucket, stored, policy, group>>

(* The bucket is in use, or was split by somebody else, or the array of    *)
(* its other half cannot be had.                                           *)
GiveUpSplit(t) ==
    LET d == dirptrs[1] IN
    /\ th[t].pc = "split"
    /\ ~ CanLock(t, th[t].b) \/ d.c # th[t].c \/ Exponent(d.max + d.c) \notin arrays
    /\ Leaves(t, After(t))
    /\ UNCHANGED <<table, policy, group>>

(* BKTIDoSplit: what now hashes to the new bucket moves there.             *)
DoSplit(t) ==
    LET d == dirptrs[1]
        stays(k) == HashTo(d, k) = th[t].b
        moves(k) == ~ stays(k)
    IN
    /\ th[t].pc = "splitmove"
    /\ bucket' = [bucket EXCEPT ![th[t].b] = SelectSeq(@, stays), ![th[t].b2] = SelectSeq(bucket[th[t].b], moves)]
    /\ Leaves(t, After(t))
    /\ UNCHANGED <<dirptrs, arrays, stored, policy, group>>

(* Both locks are had at the first try, and nobody else merged the two.    *)
CanMerge(t) ==
    LET d == dirptrs[1] IN
    CanLock(t, th[t].b) /\ d.c = th[t].c + 1 /\ CanLock(t, d.max + th[t].c)

(* With both halves locked the upper one is no bucket any more.  A scan    *)
(* between the two is not owed what moves behind it.                       *)
RemoveBucket(t) ==
    LET src == dirptrs[1].max + th[t].c
        passed == [u \in Threads |->
                     IF th[t].b <= th[u].i THEN [th[u] EXCEPT !.owed = @ \ ToSet(bucket[src])] ELSE th[u]]
    IN
    /\ th[t].pc = "merge"
    /\ CanMerge(t)
    /\ dirptrs' = [dirptrs EXCEPT ![1].c = @ - 1]
    /\ th' = [passed EXCEPT ![t].pc = "mergemove", ![t].b2 = src]
    /\ UNCHANGED <<arrays, bucket, stored, policy, group>>

(* One of the two is in use, or somebody else merged them.                 *)
GiveUpMerge(t) ==
    /\ th[t].pc = "merge"
    /\ ~ CanMerge(t)
    /\ Leaves(t, After(t))
    /\ UNCHANGED <<table, policy, group>>

(* BKTIDoMerge.                                                            *)
DoMerge(t) ==
    LET src == th[t].b2 dst == th[t].b IN
    /\ th[t].pc = "mergemove"
    /\ bucket' = [bucket EXCEPT ![dst] = @ \o bucket[src], ![src] = << >>]
    /\ Leaves(t, After(t))
    /\ UNCHANGED <<dirptrs, arrays, stored, policy, group>>
-----------------------------------------------------------------------------
Steps(t) ==
    \/ ReadState(t) \/ HashKey(t) \/ TryFails(t) \/ Leave(t)
    \/ EnterNext(t) \/ NextBucket(t) \/ HashNext(t)
    \/ NoPolicy(t) \/ SelectMaintenancePolicy(t) \/ FollowPolicy(t)
    \/ Partition(t) \/ STCompletion(t) \/ STCompletionLast(t) \/ NextState(t)
    \/ PerformMaintenance(t) \/ NothingToDo(t) \/ BKTISplit(t) \/ BKTIMerge(t)
    \/ AddBucket(t) \/ GiveUpSplit(t) \/ DoSplit(t) \/ RemoveBucket(t) \/ GiveUpMerge(t) \/ DoMerge(t)

Next == \E t \in Threads :
    \/ Begin(t) \/ LockBucket(t) \/ LockNext(t) \/ Steps(t)
    \/ InsertEntry(t) \/ DeleteEntry(t) \/ Unlock(t)
    \/ MoveNext(t) \/ ScanDelete(t) \/ EndScan(t)

Spec == Init /\ [][Next]_vars
-----------------------------------------------------------------------------
(* The buckets a thread has locked or has an address of.                   *)
Pointed(t) == IF th[t].pc \in {"lock", "locknext", "split", "merge"} THEN {th[t].b} ELSE Locked(t)

Places(k) == {<<i, j>> \in Buckets \X (1 .. Cardinality(Keys)) : j <= Len(bucket[i]) /\ bucket[i][j] = k}

(* Whoever has locked a key (ReadLockKey, WriteLockKey, FTryWriteLockKey)  *)
(* finds its entry if and only if it was inserted and not deleted, and no  *)
(* entry is lost or doubled, whatever buckets and directories were split   *)
(* and merged since the state was read or while the lock was waited for.   *)
EntriesFound ==
    /\ \A k \in Keys : Cardinality(Places(k)) = IF k \in stored THEN 1 ELSE 0
    /\ \A t \in Threads : th[t].pc = "held" /\ th[t].op # "scan" =>
           (th[t].k \in stored <=> Contains(bucket[th[t].b], th[t].k))

(* A bucket array is freed (DIRIMerge) when nobody has a bucket of it or   *)
(* is about to lock one, and the bucket that BKTISplit adds and locks      *)
(* without looking at the result is one that nobody has.                   *)
BucketsSound ==
    /\ \A t \in Threads : \A b \in Pointed(t) : Exponent(b) \in arrays
    /\ \A t, u \in Threads :
          t # u /\ Locked(t) \cap Locked(u) # {} => th[t].op = "read" /\ th[u].op = "read"

(* A scan that comes to its end (ErrMoveNext, ErrSCANMoveNext) went over   *)
(* every entry that was there from its beginning, while it deleted entries *)
(* and the table grew and shrank, save for those that a merge moved from   *)
(* a bucket ahead of it to one behind it.                                  *)
ScanMissesNothing == \A t \in Threads : th[t].pc = "over" => th[t].owed = {}

Transiting == \E t \in Threads : th[t].pc \in {"policy", "part", "callback", "completed"}

(* The policy semaphore is never left behind: while it is taken somebody   *)
(* is at work on the transition, or a section is still to be left by one   *)
(* who will complete its partition (STCompletion).  While it is free no    *)
(* transition is under way and the table grows or shrinks.                 *)
TransitionCarried ==
    IF semPolicy = 0
    THEN Transiting \/ \E h \in Sections : Members(h, 1 - group[h]) # {}
    ELSE semPolicy = 1 /\ stateCur \in {"Grow", "Shrink"} /\ ~ Transiting
=============================================================================
