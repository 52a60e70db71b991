--------------------------- MODULE JournalCommit ---------------------------
(***************************************************************************)
(* The group commit of the block cache's journal (_journal.hxx): threads   *)
(* append entries to the newest segment and ask for a flush; one of them   *)
(* at a time appends, one seals segments (writes them), one flushes the    *)
(* file, and each passes its role on to a waiter.                          *)
(*                                                                         *)
(* What happens inside one hold of m_crit is one step, and the journal's   *)
(* fields are one record so that such a step composes the functions it     *)
(* calls.  The list m_ilWaitersForSeal is the set of the threads in it:    *)
(* it is ordered by position and taken from by position.  A signal is set  *)
(* as the waiter is taken out of the field or list it waited in.           *)
(***************************************************************************)
EXTENDS Integers, Sequences, FiniteSetsExt

CONSTANTS Threads, Nil,
          Sizes,     \* the sizes of entries
          Capacity,  \* what a segment takes
          Cache,     \* segments in the cache, rounddn( m_cbCache, cbSegment )
          MaxPos,    \* bound: the file is full at this position
          Calls      \* bound: the calls all threads make

ASSUME CommitAssumption ==
    /\ Sizes \subseteq Nat \ {0}
    /\ Capacity \in Nat \ {0} /\ Cache \in Nat \ {0} /\ MaxPos \in Nat \ {0} /\ Calls \in Nat

VARIABLES j,       \* the fields of TJournal
          calls,   \* calls so far
          th,      \* every thread: where it is, its call, its loop over the pending segments
          written, \* history: the segments whose write completed
          stable,  \* history: the segments a flush of the file covers
          excused, \* history: the segments the code takes for durable too early
          astray   \* history: did a loop over the pending segments leave the list?

vars == <<j, calls, th, written, stable, excused, astray>>

sposInvalid == MaxPos + 1

(* After ErrInit, the last segment flushed or not.                         *)
Init ==
    /\ \E durable \in {0, 1} :
          j = [err |-> FALSE, durable |-> durable, sealed |-> 1, append |-> 1, fill |-> 0,
               toSeal |-> {}, pending |-> {}, begun |-> {},
               appender |-> Nil, appendQ |-> <<>>,
               sealer |-> Nil, nextSealer |-> Nil, sealPending |-> sposInvalid,
               flusher |-> Nil, nextFlusher |-> Nil, durablePending |-> sposInvalid,
               waitSeal |-> {}, waitFlush |-> {}]
    /\ th = [t \in Threads |-> [pc |-> "idle", size |-> 0, cur |-> sposInvalid, covers |-> {}]]
    /\ calls = 0
    /\ written = {0, 1} /\ stable = {0, 1}
    /\ excused = {}
    /\ astray = FALSE

history == <<written, stable, excused, astray>>

(* CWaiter: a thread and the position it waits for.                        *)
Waiter(t, spos) == [who |-> t, spos |-> spos]
Is(w, t) == w # Nil /\ w.who = t
Greatest(W) == Max({w.spos : w \in W} \union {0})

Ceil(a, b) == (a + b - 1) \div b
-----------------------------------------------------------------------------
(* Sealing.                                                                *)

PrepareToWaitForSeal(k, t, to, for) ==
    LET w == [k EXCEPT !.waitSeal = IF k.sealed < for THEN @ \union {Waiter(t, for)} ELSE @]
    IN  IF k.sealed >= to THEN w
        ELSE IF k.sealer = Nil THEN [w EXCEPT !.sealer = Waiter(t, to), !.sealPending = to]
        ELSE IF k.sealPending < to /\ k.nextSealer = Nil THEN [w EXCEPT !.nextSealer = Waiter(t, to)]
        ELSE w

sposWaitersForSealMax(k) ==
    Greatest(({k.sealer, k.nextSealer} \ {Nil}) \union k.waitSeal)

(* The next sealer starts when all that is waited for is appended, and     *)
(* seals for all who wait.                                                 *)
PrepareToReleaseNextSealer(k) ==
    IF k.sealer = Nil /\ k.nextSealer # Nil /\ (k.append >= sposWaitersForSealMax(k) \/ k.err)
    THEN [k EXCEPT !.sealer = k.nextSealer, !.nextSealer = Nil,
                   !.sealPending = sposWaitersForSealMax(k)]
    ELSE k

WaitsForSeal(k, t) == \E w \in {k.sealer, k.nextSealer} \union k.waitSeal : Is(w, t)
-----------------------------------------------------------------------------
(* Flushing.                                                               *)

(* Mutant: who comes during a flush relies on it, whatever it covers. *)
PrepareToWaitForFlushJoin(k, t, spos) ==
    LET me == Waiter(t, spos)
        w  == [k EXCEPT !.waitFlush = IF k.durable < spos THEN @ \union {me} ELSE @]
    IN  IF k.durable < spos /\ k.flusher = Nil
        THEN [w EXCEPT !.flusher = me, !.durablePending = spos]
        ELSE w

PrepareToWaitForFlush(k, t, spos) ==
    LET me == Waiter(t, spos)
        w  == [k EXCEPT !.waitFlush = IF k.durable < spos THEN @ \union {me} ELSE @]
    IN  IF k.durable >= spos THEN w
        ELSE IF k.flusher = Nil THEN [w EXCEPT !.flusher = me, !.durablePending = spos]
        ELSE IF k.durablePending < spos /\ k.nextFlusher = Nil THEN [w EXCEPT !.nextFlusher = me]
        ELSE w

sposWaitersForFlushMax(k) ==
    Greatest(({k.flusher, k.nextFlusher} \ {Nil}) \union k.waitFlush)

(* The next flusher starts when all that is waited for is sealed, and      *)
(* flushes for all who wait.                                               *)
PrepareToReleaseNextFlusher(k) ==
    IF k.flusher = Nil /\ k.nextFlusher # Nil /\ (k.sealed >= sposWaitersForFlushMax(k) \/ k.err)
    THEN [k EXCEPT !.flusher = k.nextFlusher, !.nextFlusher = Nil,
                   !.durablePending = sposWaitersForFlushMax(k)]
    ELSE k

WaitsForFlush(k, t) == \E w \in {k.flusher, k.nextFlusher} \union k.waitFlush : Is(w, t)
-----------------------------------------------------------------------------
(* Appending.                                                              *)

(* The loop of ErrAppendEntry over ErrGetAppendSegment: the newest segment *)
(* is filled, then new ones; the file may be full on the way.              *)
AppendEntry(k, size) ==
    LET room == IF k.toSeal = {} THEN 0 ELSE Capacity - k.fill
        more == IF size <= room THEN 0 ELSE Ceil(size - room, Capacity)
        last == k.append + more
    IN  IF last > MaxPos
        THEN [k EXCEPT !.append = MaxPos, !.fill = Capacity,
                       !.toSeal = @ \union (k.append + 1)..MaxPos]
        ELSE [k EXCEPT !.append = last, !.toSeal = @ \union (k.append + 1)..last,
                       !.fill = IF more = 0 THEN @ + size ELSE size - room - ((more - 1) * Capacity)]

ReleaseAppender(k) ==
    PrepareToReleaseNextSealer(
        IF k.appendQ = <<>> THEN [k EXCEPT !.appender = Nil]
        ELSE [k EXCEPT !.appender = Head(k.appendQ), !.appendQ = Tail(k.appendQ)])

(* WaitForAppend, once it is t's turn: what to have written back by then,  *)
(* and what must be.                                                       *)
PrepareToAppend(k, t, size) ==
    LET Q    == Ceil((IF k.toSeal = {} THEN 0 ELSE k.fill) + size, Capacity)
        back == k.append + Q - (Cache \div 2)
        full == k.append + Q - Cache
    IN  PrepareToWaitForSeal(k, t, back, IF full < k.append THEN full ELSE k.append)
-----------------------------------------------------------------------------
At(t, pc) == th[t].pc = pc
Goes(t, me, pc) ==
    th' = [th EXCEPT ![t] = [me EXCEPT !.pc = pc, !.size = IF pc = "idle" THEN 0 ELSE @]]

(* What follows WaitForSeal under the same hold of m_crit.                 *)
AfterSeal(k, t, me) ==
    IF me.size > 0
    THEN /\ j' = ReleaseAppender(IF k.err THEN k ELSE AppendEntry(k, me.size))
         /\ Goes(t, me, "idle")
    ELSE /\ j' = k
         /\ Goes(t, me, IF WaitsForFlush(k, t) THEN "toFlush" ELSE "idle")

(* WaitForSeal gives m_crit up only if there is something to wait for.     *)
WaitForSeal(k, t, me) ==
    IF WaitsForSeal(k, t) THEN j' = k /\ Goes(t, me, "toSeal") ELSE AfterSeal(k, t, me)

Called(t, size) == [th[t] EXCEPT !.size = size]

ErrFlush(t) ==
    /\ At(t, "idle") /\ calls < Calls
    /\ calls' = calls + 1
    /\ WaitForSeal(PrepareToWaitForFlush(PrepareToWaitForSeal(j, t, j.append, j.append), t, j.append),
                   t, Called(t, 0))
    /\ UNCHANGED history

ErrAppendEntry(t, size) ==
    /\ At(t, "idle") /\ calls < Calls
    /\ calls' = calls + 1
    /\ IF j.appender = Nil
       THEN WaitForSeal(PrepareToAppend([j EXCEPT !.appender = t], t, size), t, Called(t, size))
       ELSE j' = [j EXCEPT !.appendQ = Append(@, t)] /\ Goes(t, Called(t, size), "forAppend")
    /\ UNCHANGED history

AppendersTurn(t) ==
    /\ At(t, "forAppend") /\ j.appender = t
    /\ WaitForSeal(PrepareToAppend(j, t, th[t].size), t, th[t])
    /\ UNCHANGED <<calls, history>>
-----------------------------------------------------------------------------
(* The sealer.  SealSegments takes what is to seal under m_crit ...        *)
SealSegments(t) ==
    LET taken == {s \in j.toSeal : s <= j.sealPending}
    IN  /\ At(t, "toSeal") /\ Is(j.sealer, t)
        /\ j' = [j EXCEPT !.toSeal = @ \ taken, !.pending = @ \union taken]
        /\ th' = [th EXCEPT ![t].pc = "sealing", ![t].cur = Min(j'.pending \union {sposInvalid})]
        /\ UNCHANGED <<calls, history>>

(* ... and walks the pending segments without it.  A segment an earlier    *)
(* sealer began may complete meanwhile: it is in another list then, and    *)
(* the walk ends in that list.                                             *)
ErrBeginSeal(t) ==
    /\ At(t, "sealing") /\ th[t].cur # sposInvalid
    /\ IF th[t].cur \in j.pending
       THEN /\ j' = [j EXCEPT !.begun = @ \union {th[t].cur}]
            /\ th' = [th EXCEPT ![t].cur = Min({s \in j.pending : s > th[t].cur} \union {sposInvalid})]
            /\ UNCHANGED astray
       ELSE /\ th' = [th EXCEPT ![t].cur = sposInvalid]
            /\ astray' = TRUE
            /\ UNCHANGED j
    /\ UNCHANGED <<calls, written, stable, excused>>

ReleaseSealer(t) ==
    /\ At(t, "sealing") /\ th[t].cur = sposInvalid
    /\ j' = PrepareToReleaseNextSealer([j EXCEPT !.sealer = Nil])
    /\ Goes(t, th[t], "forSeal")
    /\ UNCHANGED <<calls, history>>

SealWaited(t) ==
    /\ At(t, "forSeal") \/ (At(t, "toSeal") /\ ~Is(j.sealer, t) /\ ~Is(j.nextSealer, t))
    /\ \A w \in j.waitSeal : ~Is(w, t)
    /\ AfterSeal(j, t, th[t])
    /\ UNCHANGED <<calls, history>>

(* A write that failed, or that a flush under way need not cover.          *)
Early(s, ok) == IF ok /\ \A t \in Threads : ~At(t, "flushing") THEN {} ELSE {s}

(* Mutant: a completed write does not look for a waiting flusher. *)
SealedAlone(s, ok) ==
    LET to == IF j.toSeal = {} THEN s ELSE Min(j.toSeal) - 1
        sealed == IF to > j.sealed THEN to ELSE j.sealed
        pending == j.pending \ {s}
    IN  /\ s \in j.begun
        /\ j' = [j EXCEPT !.pending = pending, !.begun = @ \ {s}, !.sealed = sealed,
                          !.err = @ \/ ~ok, !.waitSeal = {w \in @ : w.spos > sealed}]
        /\ written' = IF ok THEN written \union {s} ELSE written
        /\ excused' = excused \union {p \in pending : p <= sealed} \union Early(s, ok)
        /\ UNCHANGED <<calls, th, stable, astray>>

(* CSegment::Sealed, TJournal::Sealed: a write completes, in any order,    *)
(* with or without an error.  The segments between it and the newest one   *)
(* sealed count as sealed while their own writes are still out.            *)
Sealed(s, ok) ==
    LET to == IF j.toSeal = {} THEN s ELSE Min(j.toSeal) - 1
        sealed == IF to > j.sealed THEN to ELSE j.sealed
        pending == j.pending \ {s}
    IN  /\ s \in j.begun
        /\ j' = PrepareToReleaseNextFlusher(
                  [j EXCEPT !.pending = pending, !.begun = @ \ {s}, !.sealed = sealed,
                            !.err = @ \/ ~ok,
                            !.waitSeal = {w \in @ : w.spos > sealed}])
        /\ written' = IF ok THEN written \union {s} ELSE written
        /\ excused' = excused \union {p \in pending : p <= sealed} \union Early(s, ok)
        /\ UNCHANGED <<calls, th, stable, astray>>
-----------------------------------------------------------------------------
(* The flusher.  FlushSealedSegments flushes the file without m_crit, and  *)
(* takes what is sealed by then for durable.                               *)
FlushSealedSegments(t) ==
    /\ At(t, "toFlush") /\ Is(j.flusher, t)
    /\ th' = [th EXCEPT ![t].pc = "flushing", ![t].covers = written \ stable]
    /\ UNCHANGED <<j, calls, history>>

(* Mutant: everything appended is taken for durable. *)
FlushedAll(t, ok) ==
    /\ At(t, "flushing")
    /\ j' = [j EXCEPT !.err = @ \/ ~ok,
                      !.durable = IF ok THEN j.append ELSE @,
                      !.waitFlush = {w \in @ : w.spos > j.durablePending}]
    /\ stable' = IF ok THEN stable \union th[t].covers ELSE stable
    /\ th' = [th EXCEPT ![t].pc = "flushed", ![t].covers = {}]
    /\ UNCHANGED <<calls, written, excused, astray>>

Flushed(t, ok) ==
    /\ At(t, "flushing")
    /\ j' = [j EXCEPT !.err = @ \/ ~ok,
                      !.durable = IF ok THEN j.sealed ELSE @,
                      !.waitFlush = {w \in @ : w.spos > j.durablePending}]
    /\ stable' = IF ok THEN stable \union th[t].covers ELSE stable
    /\ th' = [th EXCEPT ![t].pc = "flushed", ![t].covers = {}]
    /\ excused' = excused \ stable'
    /\ UNCHANGED <<calls, written, astray>>

ReleaseFlusher(t) ==
    /\ At(t, "flushed")
    /\ j' = PrepareToReleaseNextFlusher([j EXCEPT !.flusher = Nil])
    /\ Goes(t, th[t], "forFlush")
    /\ UNCHANGED <<calls, history>>

FlushWaited(t) ==
    /\ At(t, "forFlush") \/ (At(t, "toFlush") /\ ~Is(j.flusher, t) /\ ~Is(j.nextFlusher, t))
    /\ \A w \in j.waitFlush : ~Is(w, t)
    /\ Goes(t, th[t], "idle")
    /\ UNCHANGED <<j, calls, history>>
-----------------------------------------------------------------------------
Inner(t) ==
    \/ AppendersTurn(t) \/ SealSegments(t) \/ ErrBeginSeal(t) \/ ReleaseSealer(t) \/ SealWaited(t)
    \/ FlushSealedSegments(t) \/ (\E ok \in BOOLEAN : Flushed(t, ok))
    \/ ReleaseFlusher(t) \/ FlushWaited(t)

Next ==
    \/ \E t \in Threads :
          \/ ErrFlush(t) \/ (\E size \in Sizes : ErrAppendEntry(t, size))
          \/ Inner(t)
    \/ \E s \in 2..MaxPos, ok \in BOOLEAN : Sealed(s, ok)

(* A thread goes on with its call, and the system completes its writes and *)
(* flushes.                                                                *)
Spec ==
    /\ Init /\ [][Next]_vars
    /\ \A t \in Threads : WF_vars(Inner(t))
    /\ \A s \in 2..MaxPos : WF_vars(\E ok \in BOOLEAN : Sealed(s, ok))
-----------------------------------------------------------------------------
(* What the journal takes for durable is on the medium: every segment up   *)
(* to m_sposDurable was written before a flush that succeeded began, save  *)
(* for the ones excused, which TJournal::Sealed and FlushSealedSegments    *)
(* count early by the way they move m_sposSealed and m_sposDurable.  Both  *)
(* positions are moved by threads and completions that run against each    *)
(* other.                                                                  *)
DurableIsStable == \A s \in 0..j.durable : s \in stable \union excused

(* Nobody is forgotten when a role changes hands: what a waiter waits for  *)
(* is covered by the sealer at work, or by a next sealer, or is no longer  *)
(* to be sealed; the same of the flusher (the assertions of                *)
(* PrepareToReleaseNextSealer and PrepareToReleaseNextFlusher, the first   *)
(* as far as it holds); and a flusher starts only when its segments are    *)
(* sealed or the journal has failed (the assertion of                      *)
(* FlushSealedSegments).                                                   *)
NobodyForgotten ==
    /\ \/ sposWaitersForSealMax(j) <= j.sealPending
       \/ j.nextSealer # Nil
       \/ \A s \in j.toSeal : s > sposWaitersForSealMax(j)
    /\ sposWaitersForFlushMax(j) <= j.durablePending \/ j.nextFlusher # Nil
    /\ \A t \in Threads :
          At(t, "toFlush") /\ Is(j.flusher, t) => j.durablePending <= j.sealed \/ j.err

(* The assertion of PrepareToReleaseNextSealer (_journal.hxx:1050) as it   *)
(* stands, where ReleaseSealer comes to it: the sealer that leaves has     *)
(* sealed up to everything that is waited for, or somebody is to seal the  *)
(* rest.  It does not hold: a sealer may work to a lower position than the *)
(* one before it, whose segments are still being written.                  *)
SealWaitersCovered ==
    \A t \in Threads :
        At(t, "sealing") /\ th[t].cur = sposInvalid =>
            \/ sposWaitersForSealMax([j EXCEPT !.sealer = Nil]) <= j.sealPending
            \/ j.nextSealer # Nil

(* An entry larger than half the cache: its appender is the next sealer    *)
(* and waits for what only it can append.                                  *)
Jammed == \E t \in Threads : j.appender = t /\ Is(j.nextSealer, t) /\ j.nextSealer.spos > j.append

(* A flush failed and its waiters were answered, and before the flusher    *)
(* gave its role up another thread joined: it relies on a flush that is    *)
(* over.                                                                   *)
Orphaned ==
    /\ j.nextFlusher = Nil
    /\ j.flusher = Nil \/ \E t \in Threads : Is(j.flusher, t) /\ At(t, "flushed")
    /\ \E w \in j.waitFlush : w.spos <= j.durablePending

(* Every ErrAppendEntry and every ErrFlush returns, through any hand-over  *)
(* of the three roles and with any write or flush failing, unless a loop   *)
(* of SealSegments went astray, an appender jammed or a waiter was         *)
(* orphaned: the three ways in which the code can hang.  The calls are     *)
(* bounded, so every call returns exactly when all threads come to rest.   *)
EveryCallReturns ==
    []<>((\A t \in Threads : At(t, "idle")) \/ astray \/ Jammed \/ Orphaned)
=============================================================================
