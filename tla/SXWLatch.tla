------------------------------ MODULE SXWLatch ------------------------------
(***************************************************************************)
(* CSXWLatch (sync.hxx): a latch held shared, exclusive or for writing.    *)
(* Exclusive excludes exclusive and write, write excludes everything.  A   *)
(* holder may upgrade and downgrade without letting go.                    *)
(*                                                                         *)
(* The control word counts owners or waiters of the shared latch (cS),     *)
(* says whether sharers are quiesced for a writer (q), and counts the      *)
(* owner and the waiters of the exclusive latch (cX).  The sharers a       *)
(* writer has to wait for are moved from the word to cQS.                  *)
(***************************************************************************)
EXTENDS Integers, FiniteSets

CONSTANT Threads

VARIABLES w,         \* the control word [cS, q, cX]
          cQS,       \* m_cQS, the sharers a writer waits for
          sem,       \* permits of the three semaphores
          th         \* what every thread is doing

vars == <<w, cQS, sem, th>>

Latches == {"S", "X", "W"}

(* own: the latch the thread has or waits for.  n: what it has to add to   *)
(* cQS or to release to the sharers.  x: it has an exclusive waiter to     *)
(* release.                                                                *)
Free == [pc |-> "rest", own |-> "none", n |-> 0, x |-> FALSE]
Has(l) == [Free EXCEPT !.own = l]
Queues(l) == [Free EXCEPT !.pc = "acquire", !.own = l]
Counts(l, n) == [Free EXCEPT !.pc = "count", !.own = l, !.n = n]

(* Thread t releases n sharers and, if x, an exclusive waiter, then rests. *)
Releases(l, n, x) ==
    [pc |-> IF n > 0 THEN "wakeS" ELSE IF x THEN "wakeX" ELSE "rest",
     own |-> l, n |-> n, x |-> x /\ n > 0]

TypeOK ==
    /\ w \in [cS : Nat, q : BOOLEAN, cX : Nat]
    /\ cQS \in Int
    /\ sem \in [Latches -> Nat]
    /\ th \in [Threads -> [pc : {"rest", "count", "wakeS", "wakeX", "wakeW", "acquire", "asleep"},
                           own : Latches \cup {"none"}, n : Int, x : BOOLEAN]]

Init ==
    /\ w = [cS |-> 0, q |-> FALSE, cX |-> 0]
    /\ cQS = 0
    /\ sem = [l \in Latches |-> 0]
    /\ th = [t \in Threads |-> Free]

Rests(t, l) == th[t].pc = "rest" /\ th[t].own = l
Becomes(t, r) == th' = [th EXCEPT ![t] = r] /\ UNCHANGED <<cQS, sem>>
-----------------------------------------------------------------------------
(* Each operation is one exchange on the word.                             *)

ErrAcquireSharedLatch(t) ==
    /\ Rests(t, "none")
    /\ w' = [w EXCEPT !.cS = @ + 1]
    /\ Becomes(t, IF w.q THEN Queues("S") ELSE Has("S"))

ErrTryAcquireSharedLatch(t) ==
    /\ Rests(t, "none")
    /\ ~w.q
    /\ w' = [w EXCEPT !.cS = @ + 1]
    /\ Becomes(t, Has("S"))

ErrAcquireExclusiveLatch(t) ==
    /\ Rests(t, "none")
    /\ w' = [w EXCEPT !.cX = @ + 1]
    /\ Becomes(t, IF w.cX > 0 THEN Queues("X") ELSE Has("X"))

ErrTryAcquireExclusiveLatch(t) ==
    /\ Rests(t, "none")
    /\ w.cX = 0
    /\ w' = [w EXCEPT !.cX = 1]
    /\ Becomes(t, Has("X"))

ErrTryAcquireWriteLatch(t) ==
    /\ Rests(t, "none")
    /\ w = [cS |-> 0, q |-> FALSE, cX |-> 0]
    /\ w' = [cS |-> 0, q |-> TRUE, cX |-> 1]
    /\ Becomes(t, Has("W"))

(* An upgrade from shared fails with errLatchConflict, and changes         *)
(* nothing, while anybody owns or waits for the exclusive latch.           *)
ErrUpgradeSharedLatchToExclusiveLatch(t) ==
    /\ Rests(t, "S")
    /\ w.cX = 0
    /\ w' = [w EXCEPT !.cS = @ - 1, !.cX = 1]
    /\ Becomes(t, Has("X"))

ErrUpgradeSharedLatchToWriteLatch(t) ==
    /\ Rests(t, "S")
    /\ w.cX = 0
    /\ w' = [cS |-> 0, q |-> TRUE, cX |-> 1]
    /\ Becomes(t, IF w.cS = 1 THEN Has("W") ELSE Counts("W", w.cS - 1))

ErrUpgradeExclusiveLatchToWriteLatch(t) ==
    /\ Rests(t, "X")
    /\ w' = [w EXCEPT !.cS = 0, !.q = TRUE]
    /\ Becomes(t, IF w.cS = 0 THEN Has("W") ELSE Counts("W", w.cS))

ErrTryUpgradeSharedLatchToWriteLatch(t) ==
    /\ Rests(t, "S")
    /\ w = [cS |-> 1, q |-> FALSE, cX |-> 0]
    /\ w' = [cS |-> 0, q |-> TRUE, cX |-> 1]
    /\ Becomes(t, Has("W"))

ErrTryUpgradeExclusiveLatchToWriteLatch(t) ==
    /\ Rests(t, "X")
    /\ w = [cS |-> 0, q |-> FALSE, cX |-> 1]
    /\ w' = [w EXCEPT !.q = TRUE]
    /\ Becomes(t, Has("W"))

DowngradeWriteLatchToExclusiveLatch(t) ==
    /\ Rests(t, "W")
    /\ w' = [w EXCEPT !.q = FALSE]
    /\ Becomes(t, Releases("X", w.cS, FALSE))

DowngradeWriteLatchToSharedLatch(t) ==
    /\ Rests(t, "W")
    /\ w' = [cS |-> w.cS + 1, q |-> FALSE, cX |-> w.cX - 1]
    /\ Becomes(t, Releases("S", w.cS, w.cX >= 2))

DowngradeExclusiveLatchToSharedLatch(t) ==
    /\ Rests(t, "X")
    /\ w' = [w EXCEPT !.cS = @ + 1, !.cX = @ - 1]
    /\ Becomes(t, Releases("S", 0, w.cX >= 2))

ReleaseWriteLatch(t) ==
    /\ Rests(t, "W")
    /\ w' = [w EXCEPT !.q = FALSE, !.cX = @ - 1]
    /\ Becomes(t, Releases("none", w.cS, w.cX >= 2))

ReleaseExclusiveLatch(t) ==
    /\ Rests(t, "X")
    /\ w' = [w EXCEPT !.cX = @ - 1]
    /\ Becomes(t, Releases("none", 0, w.cX >= 2))

ReleaseSharedLatch(t) ==
    /\ Rests(t, "S")
    /\ IF w.q
       THEN UNCHANGED w /\ Becomes(t, Counts("none", -1))
       ELSE w' = [w EXCEPT !.cS = @ - 1] /\ Becomes(t, Free)
-----------------------------------------------------------------------------
(* _UpdateQuiescedSharedLatchCount: whoever brings the count to 0, the     *)
(* last sharer or the writer itself, lets the writer in.                   *)
AfterCount(t) == IF th[t].own = "none" THEN Free ELSE Queues("W")

UpdateQuiescedSharedLatchCount(t) ==
    /\ th[t].pc = "count"
    /\ cQS' = cQS + th[t].n
    /\ th' = [th EXCEPT ![t] = IF cQS + th[t].n = 0 THEN [@ EXCEPT !.pc = "wakeW"] ELSE AfterCount(t)]
    /\ UNCHANGED <<w, sem>>

ReleaseWriter(t) ==
    /\ th[t].pc = "wakeW"
    /\ sem' = [sem EXCEPT !["W"] = @ + 1]
    /\ th' = [th EXCEPT ![t] = AfterCount(t)]
    /\ UNCHANGED <<w, cQS>>

ReleaseSharers(t) ==
    /\ th[t].pc = "wakeS"
    /\ sem' = [sem EXCEPT !["S"] = @ + th[t].n]
    /\ th' = [th EXCEPT ![t] = Releases(th[t].own, 0, th[t].x)]
    /\ UNCHANGED <<w, cQS>>

ReleaseExclusive(t) ==
    /\ th[t].pc = "wakeX"
    /\ sem' = [sem EXCEPT !["X"] = @ + 1]
    /\ th' = [th EXCEPT ![t] = Has(th[t].own)]
    /\ UNCHANGED <<w, cQS>>

(* WaitForSharedLatch, WaitForExclusiveLatch and WaitForWriteLatch, over a *)
(* semaphore as HandOff promises it.                                       *)
Asleep(l) == {t \in Threads : th[t].pc = "asleep" /\ th[t].own = l}

WaitForLatch(t) ==
    LET l == th[t].own IN
    /\ th[t].pc = "acquire"
    /\ IF sem[l] > Cardinality(Asleep(l))
       THEN /\ sem' = [sem EXCEPT ![l] = @ - 1]
            /\ th' = [th EXCEPT ![t] = Has(l)]
       ELSE /\ th' = [th EXCEPT ![t].pc = "asleep"]
            /\ UNCHANGED sem
    /\ UNCHANGED <<w, cQS>>

AwakeLatched(t) ==
    LET l == th[t].own IN
    /\ th[t].pc = "asleep"
    /\ sem[l] > 0
    /\ sem' = [sem EXCEPT ![l] = @ - 1]
    /\ th' = [th EXCEPT ![t] = Has(l)]
    /\ UNCHANGED <<w, cQS>>
-----------------------------------------------------------------------------
Acquire(t) ==
    \/ ErrAcquireSharedLatch(t) \/ ErrTryAcquireSharedLatch(t)
    \/ ErrAcquireExclusiveLatch(t) \/ ErrTryAcquireExclusiveLatch(t)
    \/ ErrTryAcquireWriteLatch(t)

Convert(t) ==
    \/ ErrUpgradeSharedLatchToExclusiveLatch(t) \/ ErrUpgradeSharedLatchToWriteLatch(t)
    \/ ErrUpgradeExclusiveLatchToWriteLatch(t)
    \/ ErrTryUpgradeSharedLatchToWriteLatch(t) \/ ErrTryUpgradeExclusiveLatchToWriteLatch(t)
    \/ DowngradeWriteLatchToExclusiveLatch(t) \/ DowngradeWriteLatchToSharedLatch(t)
    \/ DowngradeExclusiveLatchToSharedLatch(t)

ReleaseLatch(t) == ReleaseWriteLatch(t) \/ ReleaseExclusiveLatch(t) \/ ReleaseSharedLatch(t)

Inner(t) ==
    \/ UpdateQuiescedSharedLatchCount(t)
    \/ ReleaseWriter(t) \/ ReleaseSharers(t) \/ ReleaseExclusive(t) \/ WaitForLatch(t)

Next == \E t \in Threads :
            Acquire(t) \/ Convert(t) \/ ReleaseLatch(t) \/ Inner(t) \/ AwakeLatched(t)

(* A call once begun goes on, a holder does not convert its latch for ever *)
(* but releases it, and the kernel passes no sleeper over for ever.        *)
Fairness == \A t \in Threads : /\ WF_vars(Inner(t))
                               /\ SF_vars(ReleaseLatch(t))
                               /\ SF_vars(AwakeLatched(t))
Spec == Init /\ [][Next]_vars /\ Fairness
-----------------------------------------------------------------------------
Owners(l) == {t \in Threads : th[t].own = l /\ th[t].pc \in {"rest", "wakeS", "wakeX"}}

(* Write excludes all others, exclusive excludes exclusive, through every  *)
(* upgrade and downgrade.                                                  *)
Exclusion ==
    /\ Cardinality(Owners("X") \cup Owners("W")) <= 1
    /\ Owners("W") # {} => Owners("S") = {}

(* What the latch enforces of its word for the latch a thread has.         *)
WordShowsOwner ==
    /\ Owners("X") # {} => w.cX > 0
    /\ Owners("W") # {} => w.cX > 0 /\ w.q

(* Whoever waits for a latch gets it.                                      *)
NobodyStarves == \A t \in Threads : th[t].pc \in {"count", "acquire"} ~> th[t].pc = "rest"
=============================================================================
