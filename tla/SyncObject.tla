----------------------------- MODULE SyncObject -----------------------------
(***************************************************************************)
(* CSemaphore, CAutoResetSignal and CManualResetSignal over the one pool   *)
(* of kernel semaphores they share (sync.hxx, sync.cxx).                   *)
(*                                                                         *)
(* An object is one word: n >= 0 is the number of permits (of a signal: 1  *)
(* when set), n < 0 says that -n threads wait on the kernel semaphore ks.  *)
(* A thread changes the word by compare-and-exchange and sleeps on the     *)
(* kernel semaphore afterwards; the thread that takes waiters out of the   *)
(* word posts the kernel semaphore afterwards.  A read followed by the     *)
(* exchange alone is one step; whatever happens between the two in the     *)
(* code (allocating or referencing a kernel semaphore) is a step apart.    *)
(***************************************************************************)
EXTENDS Integers, FiniteSets, FiniteSetsExt

CONSTANTS Threads,      \* the threads of the process
          Objects,      \* the semaphores and signals
          Setups,       \* which kind every object is and who uses it
          Ksems,        \* the kernel semaphores the pool may come to hold
          Nil,          \* irksemNil, and no object
          MaxAvail,     \* bound on the permits of a semaphore
          Batches       \* how many permits one Release may give

VARIABLES kind,         \* the kind of every object, fixed at the start
          users,        \* the threads that use every object, fixed too
          word,         \* the state word of every object
          made,         \* the kernel semaphores made so far (m_cksem of them)
          pool,         \* every kernel semaphore with its bookkeeping
          th            \* what every thread is doing

vars == <<kind, users, word, made, pool, th>>
setup == <<kind, users>>

Word  == [n : Int, ks : Ksems \cup {Nil}]
Free(n) == [n |-> n, ks |-> Nil]
Waited(c, k) == [n |-> -c, ks |-> k]

(* m_fAvailable, m_fInUse and m_cReference, the user, the kernel's count. *)
Ksem == [avail : BOOLEAN, used : BOOLEAN, refs : Nat,
         user : Objects \cup {Nil}, count : Nat]
NewKsem == [avail |-> FALSE, used |-> FALSE, refs |-> 0, user |-> Nil, count |-> 0]

Idle == [pc |-> "idle", obj |-> Nil, alloc |-> Nil,
         on |-> Nil, seen |-> Free(0), post |-> 0]

Pcs == {"idle", "look", "publish", "refer", "join", "unjoin", "drop",
        "sleep", "late", "claim", "awake", "putback", "post"}

TypeOK ==
    /\ word \in [Objects -> Word]
    /\ made \in SUBSET Ksems
    /\ pool \in [Ksems -> Ksem]
    /\ th \in [Threads -> [pc : Pcs, obj : Objects \cup {Nil},
                           alloc : Ksems \cup {Nil}, on : Ksems \cup {Nil},
                           seen : Word, post : Nat]]

Init ==
    /\ \E s \in Setups : kind = s.kind /\ users = s.users
    /\ word = [o \in Objects |-> Free(0)]
    /\ made = {}
    /\ pool = [k \in Ksems |-> NewKsem]
    /\ th = [t \in Threads |-> Idle]
-----------------------------------------------------------------------------
(* The pool of kernel semaphores.                                          *)

(* Unreference: the last user frees it; a stale reference to one that is   *)
(* not in use is only taken back.  Between FUnreference and Free nothing   *)
(* but such references can touch it, so the two are one step.              *)
Unreferenced(r) ==
    IF r.used /\ r.refs = 1
    THEN [r EXCEPT !.used = FALSE, !.refs = 0, !.user = Nil, !.avail = TRUE]
    ELSE [r EXCEPT !.refs = @ - 1]

Unreference(k) == pool' = [pool EXCEPT ![k] = Unreferenced(@)]

SetUser(r, o) ==
    [r EXCEPT !.avail = FALSE, !.used = TRUE, !.refs = @ + 1, !.user = o]

(* Allocate probes the pool from an arbitrary place, one kernel semaphore  *)
(* after the other.  It may pass one just before it is freed, so a new one *)
(* may be made although another is free.                                   *)
Allocate(t, o) ==
    \E k \in Ksems :
        /\ \/ pool[k].avail /\ UNCHANGED made
           \/ k \notin made /\ made' = made \cup {k}
        /\ pool' = [pool EXCEPT ![k] = SetUser(@, o)]
        /\ th' = [th EXCEPT ![t].alloc = k, ![t].pc = "publish"]
-----------------------------------------------------------------------------
(* _FAcquire and _FWait.                                                   *)

Consumed(o) == IF kind[o] = "manual" THEN word[o] ELSE Free(word[o].n - 1)

(* FTryAcquire, FTryWait and, if they fail, the entry of the slow path; a  *)
(* caller that only tries goes back to where it was.                       *)
Try(t, o) ==
    /\ th[t].pc = "idle"
    /\ word[o].n > 0
    /\ word' = [word EXCEPT ![o] = Consumed(o)]
    /\ UNCHANGED <<setup, made, pool, th>>

BeginWait(t, o) ==
    /\ th[t].pc = "idle"
    /\ word[o].n <= 0
    /\ th' = [th EXCEPT ![t] = [Idle EXCEPT !.pc = "look", !.obj = o]]
    /\ UNCHANGED <<setup, word, made, pool>>

(* A kernel semaphore allocated in an earlier round is given back once the *)
(* thread needs it no more.                                                *)
DoneLooking(t) ==
    IF th[t].alloc = Nil THEN Idle ELSE [th[t] EXCEPT !.pc = "putback", !.on = th[t].alloc]

LookAvailable(t) ==
    LET o == th[t].obj IN
    /\ th[t].pc = "look"
    /\ word[o].n > 0
    /\ word' = [word EXCEPT ![o] = Consumed(o)]
    /\ th' = [th EXCEPT ![t] = DoneLooking(t)]
    /\ UNCHANGED <<setup, made, pool>>

(* Nobody waits yet: with a kernel semaphore at hand the exchange follows  *)
(* at once, otherwise one is allocated first.                              *)
LookEmpty(t) ==
    LET o == th[t].obj IN
    /\ th[t].pc = "look"
    /\ word[o].n = 0
    /\ \/ /\ th[t].alloc = Nil
          /\ Allocate(t, o)
          /\ UNCHANGED word
       \/ /\ th[t].alloc # Nil
          /\ th' = [th EXCEPT ![t].pc = "publish"]
          /\ UNCHANGED <<word, made, pool>>
    /\ UNCHANGED setup

Publish(t) ==
    LET o == th[t].obj IN
    /\ th[t].pc = "publish"
    /\ IF word[o] = Free(0)
       THEN /\ word' = [word EXCEPT ![o] = Waited(1, th[t].alloc)]
            /\ th' = [th EXCEPT ![t].pc = "sleep", ![t].on = th[t].alloc, ![t].alloc = Nil]
       ELSE /\ th' = [th EXCEPT ![t].pc = "look"]
            /\ UNCHANGED word
    /\ UNCHANGED <<setup, made, pool>>

(* Others wait already: remember the word, reference their kernel          *)
(* semaphore, and only then try to become one of them.                     *)
LookWaited(t) ==
    LET o == th[t].obj IN
    /\ th[t].pc = "look"
    /\ word[o].n < 0
    /\ th' = [th EXCEPT ![t].pc = "refer", ![t].seen = word[o]]
    /\ UNCHANGED <<setup, word, made, pool>>

Refer(t) ==
    LET k == th[t].seen.ks IN
    /\ th[t].pc = "refer"
    /\ pool' = [pool EXCEPT ![k].refs = @ + 1]
    /\ th' = [th EXCEPT ![t].pc = "join", ![t].on = k]
    /\ UNCHANGED <<setup, word, made>>

(* Mutant: only the number of waiters is compared, not the kernel semaphore. *)
JoinBlind(t) ==
    LET o == th[t].obj IN
    /\ th[t].pc = "join"
    /\ IF word[o].n = th[t].seen.n
       THEN /\ word' = [word EXCEPT ![o].n = @ - 1]
            /\ th' = [th EXCEPT ![t].pc = IF th[t].alloc = Nil THEN "sleep" ELSE "drop",
                                ![t].seen = Free(0)]
       ELSE /\ th' = [th EXCEPT ![t].pc = "unjoin", ![t].seen = Free(0)]
            /\ UNCHANGED word
    /\ UNCHANGED <<setup, made, pool>>

Join(t) ==
    LET o == th[t].obj IN
    /\ th[t].pc = "join"
    /\ IF word[o] = th[t].seen
       THEN /\ word' = [word EXCEPT ![o].n = @ - 1]
            /\ th' = [th EXCEPT ![t].pc = IF th[t].alloc = Nil THEN "sleep" ELSE "drop",
                                ![t].seen = Free(0)]
       ELSE /\ th' = [th EXCEPT ![t].pc = "unjoin", ![t].seen = Free(0)]
            /\ UNCHANGED word
    /\ UNCHANGED <<setup, made, pool>>

(* Mutant: the exchange lost, the thread looks again with its reference kept. *)
UnjoinKeeps(t) ==
    /\ th[t].pc = "unjoin"
    /\ th' = [th EXCEPT ![t].pc = "look", ![t].on = Nil]
    /\ UNCHANGED <<setup, word, made, pool>>

Unjoin(t) ==
    /\ th[t].pc = "unjoin"
    /\ Unreference(th[t].on)
    /\ th' = [th EXCEPT ![t].pc = "look", ![t].on = Nil]
    /\ UNCHANGED <<setup, word, made>>

Drop(t) ==
    /\ th[t].pc = "drop"
    /\ Unreference(th[t].alloc)
    /\ th' = [th EXCEPT ![t].pc = "sleep", ![t].alloc = Nil]
    /\ UNCHANGED <<setup, word, made>>

(* CKernelSemaphore::FAcquire succeeds.                                    *)
WakeUp(t) ==
    /\ th[t].pc \in {"sleep", "claim"}
    /\ pool[th[t].on].count > 0
    /\ pool' = [pool EXCEPT ![th[t].on].count = @ - 1]
    /\ th' = [th EXCEPT ![t].pc = "awake"]
    /\ UNCHANGED <<setup, word, made>>

(* CKernelSemaphore::FAcquire times out.  A wait without a timeout is one  *)
(* that never takes this step.  The clock may beat a count that is there:  *)
(* the kernel may have meant it for another sleeper.                       *)
TimeOut(t) ==
    /\ th[t].pc = "sleep"
    /\ th' = [th EXCEPT ![t].pc = "late"]
    /\ UNCHANGED <<setup, word, made, pool>>

(* Mutant: the timeout is answered although the waiter has been released. *)
LateServedLeaves(t) ==
    LET w == word[th[t].obj] IN
    /\ th[t].pc = "late"
    /\ w.n >= 0 \/ w.ks # th[t].on
    /\ th' = [th EXCEPT ![t].pc = "putback"]
    /\ UNCHANGED <<setup, word, made, pool>>

(* Too late if a release has taken every waiter of our kernel semaphore    *)
(* out of the word: a count is on its way to us and must be taken.         *)
LateServed(t) ==
    LET w == word[th[t].obj] IN
    /\ th[t].pc = "late"
    /\ w.n >= 0 \/ w.ks # th[t].on
    /\ th' = [th EXCEPT ![t].pc = "claim"]
    /\ UNCHANGED <<setup, word, made, pool>>

LateLeaves(t) ==
    LET o == th[t].obj IN
    /\ th[t].pc = "late"
    /\ word[o].n < 0 /\ word[o].ks = th[t].on
    /\ word' = [word EXCEPT ![o] = IF @.n = -1 THEN Free(0) ELSE [@ EXCEPT !.n = @ + 1]]
    /\ th' = [th EXCEPT ![t].pc = "putback"]
    /\ UNCHANGED <<setup, made, pool>>

(* The wait is over, with or without success: give the reference back.     *)
PutBack(t) ==
    /\ th[t].pc \in {"awake", "putback"}
    /\ Unreference(th[t].on)
    /\ th' = [th EXCEPT ![t] = Idle]
    /\ UNCHANGED <<setup, word, made>>
-----------------------------------------------------------------------------
(* Release, ReleaseAllWaiters, Set and Reset.                              *)

(* Take c waiters out of the word; the kernel semaphore is posted later.   *)
Hand(t, o, c, left) ==
    /\ word' = [word EXCEPT ![o] = left]
    /\ th' = [th EXCEPT ![t] = [Idle EXCEPT !.pc = "post", !.obj = o,
                                            !.on = word[o].ks, !.post = c]]

(* Mutant: the permits that serve waiters are left in the word as well. *)
ReleaseTwice(t, o, c) ==
    /\ th[t].pc = "idle"
    /\ kind[o] = "semaphore"
    /\ word[o].n + c <= MaxAvail
    /\ IF word[o].n >= 0
       THEN word' = [word EXCEPT ![o] = Free(@.n + c)] /\ UNCHANGED th
       ELSE Hand(t, o, -word[o].n, Free(c))
    /\ UNCHANGED <<setup, made, pool>>

Release(t, o, c) ==
    /\ th[t].pc = "idle"
    /\ kind[o] = "semaphore"
    /\ word[o].n + c <= MaxAvail
    /\ \/ /\ word[o].n >= 0
          /\ word' = [word EXCEPT ![o] = Free(@.n + c)]
          /\ UNCHANGED th
       \/ /\ word[o].n < 0 /\ -word[o].n <= c
          /\ Hand(t, o, -word[o].n, Free(c + word[o].n))
       \/ /\ -word[o].n > c
          /\ Hand(t, o, c, [word[o] EXCEPT !.n = @ + c])
    /\ UNCHANGED <<setup, made, pool>>

ReleaseAllWaiters(t, o) ==
    /\ th[t].pc = "idle"
    /\ kind[o] = "semaphore"
    /\ word[o].n < 0
    /\ Hand(t, o, -word[o].n, Free(0))
    /\ UNCHANGED <<setup, made, pool>>

SetAuto(t, o) ==
    /\ th[t].pc = "idle"
    /\ kind[o] = "auto"
    /\ \/ /\ word[o].n >= 0
          /\ word' = [word EXCEPT ![o] = Free(1)]
          /\ UNCHANGED th
       \/ /\ word[o].n < 0
          /\ Hand(t, o, 1, IF word[o].n = -1 THEN Free(0) ELSE [word[o] EXCEPT !.n = @ + 1])
    /\ UNCHANGED <<setup, made, pool>>

SetManual(t, o) ==
    /\ th[t].pc = "idle"
    /\ kind[o] = "manual"
    /\ IF word[o].n < 0
       THEN Hand(t, o, -word[o].n, Free(1))
       ELSE word' = [word EXCEPT ![o] = Free(1)] /\ UNCHANGED th
    /\ UNCHANGED <<setup, made, pool>>

Reset(t, o) ==
    /\ th[t].pc = "idle"
    /\ kind[o] # "semaphore"
    /\ word[o] = Free(1)
    /\ word' = [word EXCEPT ![o] = Free(0)]
    /\ UNCHANGED <<setup, made, pool, th>>

(* CKernelSemaphore::Release.                                              *)
Post(t) ==
    /\ th[t].pc = "post"
    /\ pool' = [pool EXCEPT ![th[t].on].count = @ + th[t].post]
    /\ th' = [th EXCEPT ![t] = Idle]
    /\ UNCHANGED <<setup, word, made>>
-----------------------------------------------------------------------------
Call(t) ==
    \E o \in {p \in Objects : t \in users[p]} :
        \/ Try(t, o)
        \/ BeginWait(t, o)
        \/ \E c \in Batches : Release(t, o, c)
        \/ ReleaseAllWaiters(t, o)
        \/ SetAuto(t, o)
        \/ SetManual(t, o)
        \/ Reset(t, o)

Step(t) ==
    \/ LookAvailable(t) \/ LookEmpty(t) \/ LookWaited(t)
    \/ Publish(t) \/ Refer(t) \/ Join(t) \/ Unjoin(t) \/ Drop(t)
    \/ WakeUp(t) \/ LateServed(t) \/ LateLeaves(t) \/ PutBack(t) \/ Post(t)

Next == \E t \in Threads : Call(t) \/ Step(t) \/ TimeOut(t)

Spec == Init /\ [][Next]_vars
-----------------------------------------------------------------------------
(* The threads that count as waiters of kernel semaphore k.                *)
Waiting == {"drop", "sleep", "late", "claim"}
WaitersOn(k) == {t \in Threads : th[t].on = k /\ th[t].pc \in Waiting}
PostsTo(k)   == {t \in Threads : th[t].on = k /\ th[t].pc = "post"}
InWord(k)    == {o \in Objects : word[o].n < 0 /\ word[o].ks = k}

OnTheWay(k) == pool[k].count + MapThenSumSet(LAMBDA t : th[t].post, PostsTo(k))

(* Every waiter of a kernel semaphore is either still counted in the word  *)
(* or has a count posted or about to be posted: none is forgotten and no   *)
(* count is left behind for a later user, whatever timeouts race releases. *)
EveryWaiterAccounted ==
    \A k \in Ksems :
        Cardinality(WaitersOn(k)) =
            OnTheWay(k) + MapThenSumSet(LAMBDA o : -word[o].n, InWord(k))

(* The enforced uses of a kernel semaphore: it is in the word, slept on    *)
(* and posted only for the object it was allocated for, and it is idle     *)
(* when it goes back to the pool.                                          *)
KsemUsedByItsObject ==
    \A k \in Ksems :
        /\ \A o \in InWord(k) : pool[k].user = o
        /\ \A t \in WaitersOn(k) \cup PostsTo(k) : pool[k].user = th[t].obj
        /\ pool[k].avail => ~pool[k].used /\ pool[k].count = 0

(* References are exact: a kernel semaphore is in use as long as a thread  *)
(* still needs it and no longer.                                           *)
Holders(k) ==
    {t \in Threads : th[t].alloc = k} \cup
    {t \in Threads : th[t].on = k /\ th[t].pc # "post"}
ReferencesExact ==
    \A k \in Ksems :
        /\ pool[k].refs = Cardinality(Holders(k))
        /\ pool[k].used => pool[k].refs > 0

(* Each object is a hand-off semaphore: a permit given to sleepers cannot  *)
(* be taken by a newcomer and a timeout never swallows one.                *)
Sleepers(o) == {t \in Threads : th[t].obj = o /\ th[t].pc \in Waiting}
Unserved(o) == IF word[o].n < 0 THEN -word[o].n ELSE 0

Promise == INSTANCE HandOff
    WITH type     <- kind,
         spare    <- [o \in Objects |-> word[o].n + Unserved(o)],
         owed     <- [o \in Objects |-> Cardinality(Sleepers(o)) - Unserved(o)],
         sleepers <- [o \in Objects |-> Sleepers(o)]

HandsOff == Promise!HSpec
=============================================================================
