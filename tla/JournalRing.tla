---------------------------- MODULE JournalRing ----------------------------
(***************************************************************************)
(* The journal of the block cache as it lies in its file                   *)
(* (_journalsegmentmanager.hxx, with the segment operations of             *)
(* _journalsegment.hxx and the operations of _journal.hxx that move its    *)
(* positions): a ring of segments, written out of order, flushed, lost in  *)
(* part by a crash, and found again by the next mount.                     *)
(*                                                                         *)
(* Positions count segments.  What a segment carries is left out: its      *)
(* identity stands for it.  The random unique id of a segment is           *)
(* <<spos, mount that created it>>, so two segments never share one.       *)
(***************************************************************************)
EXTENDS Integers, FiniteSetsExt, Functions, TLC

CONSTANTS N,         \* segments in the file, m_cb / cbSegment
          MaxPos,    \* bound: the last position a behaviour appends
          MaxMounts, \* bound: how often the journal is mounted
          Zero,      \* a slot never written
          Bad        \* a slot whose checksum fails, a torn write

Slots == 0..(N - 1)

VARIABLES disk,     \* what a read of every slot returns
          left,     \* what every slot may hold after a power failure
          phase,    \* how far the mount has come
          mgr,      \* the fields of TJournalSegmentManager
          jnl,      \* the positions of TJournal
          unsealed, \* segments created and not written yet, by position
          mounts,   \* mounts so far
          log,      \* history: the journal's segments, position -> identity
          ack,      \* history: the positions acknowledged and not truncated: "from" the first one "to"
                    \* the last that was on the medium with all before it, and the last one "said"
          gap,      \* history: did the last crash lose a segment beyond that and leave a later one?
          lost      \* history: did a crash lose a segment that was acknowledged too early?

vars == <<disk, left, phase, mgr, jnl, unsealed, mounts, log, ack, gap, lost>>

NoId == <<0, 0>>
NoFields == [first |-> 0, ibLast |-> 0, last |-> 0, idPos |-> 0, id |-> NoId,
             replayMax |-> 0, durableMax |-> 0, info |-> <<>>]
NoPositions == [replay |-> 0, durable |-> 0, sealed |-> 0, append |-> 0, flushing |-> FALSE]

Init ==
    /\ disk = [s \in Slots |-> Zero]
    /\ left = [s \in Slots |-> {Zero}]
    /\ phase = "down"
    /\ mgr = NoFields
    /\ jnl = NoPositions
    /\ unsealed = <<>>
    /\ mounts = 0
    /\ log = <<>>
    /\ ack = [from |-> N, to |-> N - 1, said |-> N - 1]
    /\ gap = FALSE /\ lost = FALSE
-----------------------------------------------------------------------------
(* Slots and segments.                                                     *)

(* CJournalSegmentHeader::ErrCreate.                                       *)
ErrCreate(spos, prev, replay, durable) ==
    [spos |-> spos, id |-> <<spos, mounts>>, prev |-> prev, replay |-> replay, durable |-> durable]

(* ErrLoad fails on a slot that is zero and on one that does not verify.   *)
Loads(c) == c \notin {Zero, Bad}
IdOf(c) == IF Loads(c) THEN c.id ELSE NoId

(* ErrGetSegmentOffset: one turn of the ring in either direction.  A       *)
(* result outside Slots is JET_errInternalError.                           *)
ErrGetSegmentOffset(ibLast, sposLast, spos) ==
    LET ib == ibLast - (sposLast - spos)
        up == IF ib < 0 THEN ib + N ELSE ib
    IN  IF up >= N THEN up - N ELSE up

Offset(spos) == ErrGetSegmentOffset(mgr.ibLast, mgr.last, spos)

(* The position ErrLoadSegmentForRecovery reports of a slot.               *)
SposAt(s) == IF Loads(disk[s]) THEN disk[s].spos ELSE s

(* A write reaches the file; until the next flush a power failure may      *)
(* leave it, tear it or lose it.                                           *)
Written(s, seg) ==
    /\ disk' = [disk EXCEPT ![s] = seg]
    /\ left' = [left EXCEPT ![s] = @ \union {seg, Bad}]

Flushed == left' = [s \in Slots |-> {disk[s]}]
-----------------------------------------------------------------------------
(* Mount: TJournalSegmentManager::ErrInit, then TJournal::ErrInit.         *)

None == [found |-> FALSE, slot |-> 0]

(* ErrFindLastSegmentWithBinarySearch: the slot where the search ends.  A  *)
(* slot that does not verify ends it with nothing.                         *)
ErrFindLastSegmentWithBinarySearch ==
    LET search[lo \in 0..N, hi \in 0..N] ==
            IF lo >= hi THEN [found |-> TRUE, slot |-> hi]
            ELSE LET mid == lo + ((hi - lo) \div 2)
                 IN  IF disk[mid] = Bad THEN None
                     ELSE IF SposAt(lo) < SposAt(mid) THEN search[mid, hi] ELSE search[lo, mid]
    IN  IF disk[0] = Bad THEN None ELSE search[0, N]

(* ErrFindLastSegmentWithLinearSearch: the loaded slot of the highest      *)
(* position.                                                               *)
ErrFindLastSegmentWithLinearSearch ==
    LET loaded == {s \in Slots : Loads(disk[s])}
    IN  IF loaded = {} THEN None
        ELSE [found |-> TRUE,
              slot |-> CHOOSE s \in loaded : \A r \in loaded : disk[r].spos <= disk[s].spos]

(* Mutant: a slot that does not verify counts as an empty journal. *)
FindLastBinaryOnly ==
    LET binary == ErrFindLastSegmentWithBinarySearch
    IN  IF binary.found /\ Loads(disk[binary.slot]) THEN binary ELSE None

(* The slot of the last segment; an uninitialised slot where the binary    *)
(* search ends means an empty journal.                                     *)
FindLast ==
    LET binary == ErrFindLastSegmentWithBinarySearch
    IN  IF binary.found
        THEN IF Loads(disk[binary.slot]) THEN binary ELSE None
        ELSE ErrFindLastSegmentWithLinearSearch

Starts(replay, durable, last) ==
    jnl' = [replay |-> replay, durable |-> durable, sealed |-> last, append |-> last, flushing |-> FALSE]

(* ErrInitEmptyJournal creates and seals the segment at position N ...     *)
ErrInitEmptyJournal ==
    LET seg == ErrCreate(N, NoId, N, N)'
    IN  /\ phase = "down" /\ mounts < MaxMounts /\ ~FindLast.found
        /\ mounts' = mounts + 1
        /\ mgr' = [first |-> N, ibLast |-> 0, last |-> N, idPos |-> N, id |-> seg.id,
                   replayMax |-> N, durableMax |-> N, info |-> (N :> N)]
        /\ Written(0, seg)
        /\ phase' = "initializing"
        /\ log' = (N :> seg.id) @@ log
        /\ UNCHANGED <<jnl, unsealed, ack, gap, lost>>

(* ... and flushes it.                                                     *)
InitEmptyJournalFlushes ==
    /\ phase = "initializing"
    /\ Flushed
    /\ Starts(N, N, N)
    /\ phase' = "mounted"
    /\ ack' = [ack EXCEPT !.to = Max({@, N}), !.said = Max({@, N})]
    /\ UNCHANGED <<disk, mgr, unsealed, mounts, log, gap, lost>>

(* ErrInitExistingJournal: from the last segment to the one it names as    *)
(* durable, and from that one to where the replay starts.                  *)
ErrInitExistingJournal ==
    LET ibLast    == FindLast.slot
        last      == disk[ibLast]
        ibDurable == ErrGetSegmentOffset(ibLast, last.spos, last.durable)
        durable   == disk[ibDurable]
    IN  /\ phase = "down" /\ mounts < MaxMounts /\ FindLast.found
        /\ mounts' = mounts + 1
        /\ IF \/ ibDurable \notin Slots
              \/ ~Loads(durable)
              \/ ErrGetSegmentOffset(ibLast, last.spos, durable.replay) \notin Slots
           THEN phase' = "failed" /\ UNCHANGED <<mgr, jnl>>
           ELSE /\ mgr' = [first |-> durable.replay, ibLast |-> ibLast, last |-> last.spos,
                           idPos |-> last.durable, id |-> durable.id,
                           replayMax |-> durable.replay, durableMax |-> last.durable,
                           info |-> (last.durable :> durable.replay)]
                /\ Starts(durable.replay, last.durable, last.spos)
                /\ phase' = "mounted"
        /\ UNCHANGED <<disk, left, unsealed, log, ack, gap, lost>>
-----------------------------------------------------------------------------
(* Recovery: ErrVisitEntries, then ErrRepair where it stopped.             *)

(* Mutant: the chain of unique ids is not followed. *)
VerifiesUnchained(spos) == LET c == disk[Offset(spos)] IN Loads(c) /\ c.spos = spos

(* ErrVisitSegments: the segment at spos loads, is the one expected there, *)
(* and names the one before it.                                            *)
Verifies(spos) ==
    LET c == disk[Offset(spos)]
    IN  /\ Loads(c)
        /\ c.spos = spos
        /\ spos > mgr.first => c.prev = IdOf(disk[Offset(spos - 1)])

(* The visitor stops at the first segment that does not verify.            *)
Stop == Min({spos \in mgr.first..mgr.last : ~Verifies(spos)} \union {mgr.last + 1})

(* ErrRepair drops what follows.  A segment is never being appended at     *)
(* that moment.                                                            *)
ErrRepair(sposInvalidate) ==
    /\ sposInvalidate > jnl.durable
    /\ sposInvalidate <= jnl.append + 1
    /\ jnl' = [jnl EXCEPT !.sealed = sposInvalidate - 1, !.append = sposInvalidate - 1]

(* Mutant: any segment that does not verify is an error. *)
ErrVisitEntriesStrict ==
    /\ phase = "mounted"
    /\ phase' = IF Stop <= mgr.last THEN "failed" ELSE "running"
    /\ UNCHANGED <<disk, left, mgr, jnl, unsealed, mounts, log, ack, gap, lost>>

(* FVisitSegment reports a segment that does not verify up to the durable  *)
(* position.  Otherwise the client repairs the journal from where the      *)
(* visit ended; nobody in the sources calls ErrRepair.                     *)
ErrVisitEntries ==
    /\ phase = "mounted"
    /\ IF Stop <= mgr.durableMax
       THEN phase' = "failed" /\ UNCHANGED <<jnl, log, ack>>
       ELSE /\ phase' = "running"
            /\ ErrRepair(Stop)
            /\ log' = Restrict(log, {spos \in DOMAIN log : spos < Stop})
            /\ ack' = [ack EXCEPT !.said = Min({@, Stop - 1})]
    /\ UNCHANGED <<disk, left, mgr, unsealed, mounts, gap, lost>>
-----------------------------------------------------------------------------
(* Appends.                                                                *)

(* The identity of the previous segment: cached, or read from its slot.    *)
Previous(spos) == disk[Offset(spos - 1)]

(* Mutant: the ring may be filled to its last slot. *)
ErrAppendSegmentChecksFull(spos, replay, durable) ==
    LET used == spos - mgr.info[durable]
    IN  IF spos <= mgr.durableMax \/ durable >= spos \/ replay > durable THEN "InvalidParameter"
        ELSE IF durable \notin DOMAIN mgr.info THEN "InternalError"
        ELSE IF used >= N THEN "DiskFull"
        ELSE "Success"

(* The parameter and space checks of ErrAppendSegment.                     *)
ErrAppendSegmentChecks(spos, replay, durable) ==
    IF \/ spos < N \/ spos <= mgr.durableMax \/ spos > mgr.last + 1
       \/ durable < mgr.durableMax \/ durable >= spos
       \/ replay < mgr.replayMax \/ replay > durable
    THEN "InvalidParameter"
    ELSE IF Offset(spos) \notin Slots \/ durable \notin DOMAIN mgr.info
    THEN "InternalError"
    ELSE LET used == spos - mgr.info[durable]
         IN  IF used + 2 >= N /\ replay <= mgr.info[durable] THEN "DiskFull"
             ELSE IF used + 1 >= N /\ durable + 1 <= spos THEN "DiskFull"
             ELSE IF used >= N THEN "InternalError"
             ELSE IF mgr.idPos # spos - 1 /\ ~Loads(Previous(spos)) THEN "ReadVerifyFailure"
             ELSE "Success"

(* ErrAppendEntry opens a new segment (ErrGetAppendSegment); the manager   *)
(* remembers what a later segment needs to know.  An append that is        *)
(* refused changes nothing.                                                *)
ErrAppendSegment ==
    LET spos == jnl.append + 1
        prev == IF mgr.idPos = spos - 1 THEN mgr.id ELSE Previous(spos).id
        seg  == ErrCreate(spos, prev, jnl.replay, jnl.durable)
        info == (spos :> jnl.replay) @@ mgr.info
    IN  /\ phase = "running" /\ spos <= MaxPos
        /\ ErrAppendSegmentChecks(spos, jnl.replay, jnl.durable) = "Success"
        /\ mgr' = [first      |-> mgr.info[jnl.durable],
                   ibLast     |-> IF spos > mgr.last THEN Offset(spos) ELSE mgr.ibLast,
                   last       |-> IF spos > mgr.last THEN spos ELSE mgr.last,
                   idPos      |-> spos,
                   id         |-> seg.id,
                   replayMax  |-> jnl.replay,
                   durableMax |-> jnl.durable,
                   info       |-> Restrict(info, {p \in DOMAIN info : p >= jnl.durable})]
        /\ jnl' = [jnl EXCEPT !.append = spos]
        /\ unsealed' = (spos :> seg) @@ unsealed
        /\ log' = (spos :> seg.id) @@ log
        /\ UNCHANGED <<disk, left, phase, mounts, ack, gap, lost>>

(* ErrSeal: the write of an open segment completes, in any order, and      *)
(* TJournal::Sealed moves m_sposSealed to it, or to the segment before the *)
(* first that no sealer has taken yet: which that is, is left open.  The   *)
(* writes of segments it passes may still be out.                          *)
ErrSeal(spos) ==
    /\ phase = "running" /\ spos \in DOMAIN unsealed
    /\ Written(Offset(spos), unsealed[spos])
    /\ unsealed' = Restrict(unsealed, DOMAIN unsealed \ {spos})
    /\ \E to \in spos..jnl.append : jnl' = [jnl EXCEPT !.sealed = Max({@, to})]
    /\ UNCHANGED <<phase, mgr, mounts, log, ack, gap, lost>>

(* FlushSealedSegments, with something new sealed: the file is flushed ... *)
FlushSealedSegments ==
    /\ phase = "running" /\ ~jnl.flushing /\ jnl.durable < jnl.sealed
    /\ Flushed
    /\ jnl' = [jnl EXCEPT !.flushing = TRUE]
    /\ UNCHANGED <<disk, phase, mgr, unsealed, mounts, log, ack, gap, lost>>

OnMedium(spos) == left[spos % N] = {disk[spos % N]} /\ IdOf(disk[spos % N]) = log[spos]

(* ... and what is sealed by then is taken for durable and acknowledged,   *)
(* on the medium or not.  JournalCommit has the threads that do this.      *)
ErrFlush ==
    /\ jnl.flushing
    /\ jnl' = [jnl EXCEPT !.durable = jnl.sealed, !.flushing = FALSE]
    /\ ack' = [ack EXCEPT !.to = Max({@} \union {p \in @..jnl.sealed : \A q \in (@ + 1)..p : OnMedium(q)}),
                          !.said = Max({@, jnl.sealed})]
    /\ gap' = (gap /\ ack'.to = ack.to)
    /\ UNCHANGED <<disk, left, phase, mgr, unsealed, mounts, log, lost>>

(* ErrTruncate: replay may start at spos from now on.                      *)
ErrTruncate(spos) ==
    /\ phase = "running"
    /\ spos \in (jnl.replay + 1)..jnl.durable
    /\ jnl' = [jnl EXCEPT !.replay = spos]
    /\ ack' = [ack EXCEPT !.from = spos]
    /\ UNCHANGED <<disk, left, phase, mgr, unsealed, mounts, log, gap, lost>>
-----------------------------------------------------------------------------
(* Crashes.                                                                *)

Missing(d, p) == IdOf(d[p % N]) # log[p]

(* A gap: a segment nobody had to rely on is missing, and the slot of a    *)
(* later one was written.                                                  *)
Gap(d) ==
    \E p, q \in DOMAIN log :
        /\ ack.to < p /\ p < q
        /\ Missing(d, p)
        /\ d[q % N] = Bad \/ ~Missing(d, q)

(* A segment acknowledged before it was on the medium is missing.          *)
Lost(d) == \E p \in (ack.to + 1)..ack.said : Missing(d, p)

Crash(d) ==
    /\ phase' = "down"
    /\ mgr' = NoFields /\ jnl' = NoPositions /\ unsealed' = <<>>
    /\ gap' = (gap \/ Gap(d)) /\ lost' = (lost \/ Lost(d))
    /\ UNCHANGED <<mounts, log, ack>>

(* The process ends: what is in memory is gone, what was written is there. *)
Exit ==
    /\ phase # "down"
    /\ Crash(disk)
    /\ UNCHANGED <<disk, left>>

(* The power fails: every write since the last flush is there, torn or     *)
(* lost.                                                                   *)
PowerFailure ==
    /\ LET dirty == {s \in Slots : left[s] # {disk[s]}}
       IN  /\ dirty # {}
           /\ \E now \in [dirty -> UNION {left[s] : s \in dirty}] :
                 /\ \A s \in dirty : now[s] \in left[s]
                 /\ disk' = now @@ disk
                 /\ left' = [s \in Slots |-> {disk'[s]}]
    /\ Crash(disk')

(* A journal that has lost what it acknowledged is mounted and visited,    *)
(* once or several times; what is appended to it then is not followed.     *)
Used ==
    \/ ErrAppendSegment \/ FlushSealedSegments \/ ErrFlush
    \/ \E spos \in 0..MaxPos : ErrSeal(spos) \/ ErrTruncate(spos)

Next ==
    \/ ErrInitEmptyJournal \/ InitEmptyJournalFlushes \/ ErrInitExistingJournal
    \/ ErrVisitEntries
    \/ ~lost /\ Used
    \/ Exit \/ PowerFailure

Spec == Init /\ [][Next]_vars
-----------------------------------------------------------------------------
(* What ErrVisitEntries goes through after a mount.                        *)
Recoverable == {disk[Offset(spos)].id : spos \in mgr.first..(Stop - 1)}

(* A journal something of which was acknowledged mounts and is visited     *)
(* without an error after every crash and every sequence of crashes,       *)
(* repairs and truncations: ErrAppendSegment never lets a segment be       *)
(* overwritten that a mount will ask for.  Two cases are left out.  After  *)
(* a gap: the space is counted from the replay position of the durable     *)
(* segment, but a mount that finds nothing behind that segment starts one  *)
(* record further back.  And when a crash lost a segment that ErrFlush     *)
(* acknowledged while its write was still out.                             *)
RecoveryWorks == ack.to >= N /\ ~gap /\ ~lost => phase # "failed"

(* A recovery that reports no error goes through every segment that was    *)
(* acknowledged, with all before it on the medium by then, and that nobody *)
(* truncated; gap or not, and also after a crash that lost others which    *)
(* ErrFlush acknowledged too early.                                        *)
NothingLost ==
    phase = "mounted" /\ Stop > mgr.durableMax => {log[p] : p \in ack.from..ack.to} \subseteq Recoverable

(* It goes through nothing else than the journal: a segment that an        *)
(* earlier repair discarded and the ring still holds is never taken for    *)
(* the one that was appended in its place.  Unless ErrFlush acknowledged   *)
(* a segment too early and a crash lost it.                                *)
NothingRevived == phase = "mounted" /\ ~lost => Recoverable \subseteq Range(log)

(* A journal that is flushed and truncated as far as it goes takes another *)
(* segment: the two reserved slots of ErrAppendSegment always leave room   *)
(* to record the truncation.  It takes a durable segment the manager has a *)
(* record of; ErrFlush right after a mount leaves it without one.          *)
NeverStuck ==
    /\ phase = "running"
    /\ jnl.append = jnl.durable
    /\ jnl.durable \in DOMAIN mgr.info
    => ErrAppendSegmentChecks(jnl.append + 1, jnl.durable, jnl.durable) = "Success"
=============================================================================
