------------------------ MODULE JournalCommitProofs ------------------------
(***************************************************************************)
(* What the journal takes for durable is on the medium, for any number of  *)
(* threads, any sizes of entries, segments and cache.                      *)
(***************************************************************************)
EXTENDS JournalCommit, WellFoundedInduction, TLAPS

Fields == {"err", "durable", "sealed", "append", "fill", "toSeal", "pending", "begun",
           "appender", "appendQ", "sealer", "nextSealer", "sealPending",
           "flusher", "nextFlusher", "durablePending", "waitSeal", "waitFlush"}

(* The positions people wait for are integers with a bound.                *)
Waits(W) ==
    /\ \A w \in W : w.spos \in Int
    /\ \E b \in Nat : \A w \in W : w.spos <= b

(* The parts of the journal the argument does not look into.               *)
Roles(k) ==
    /\ k = [f \in Fields |-> k[f]]
    /\ k.fill \in Int /\ k.sealPending \in Int
    /\ Waits(({k.sealer, k.nextSealer} \ {Nil}) \union k.waitSeal)

(* Every segment up to the newest one is to be sealed, being written, or   *)
(* done with; those to be sealed are the newest.                           *)
Segments ==
    /\ j.durable \in Nat /\ j.sealed \in Nat /\ j.append \in Nat
    /\ j.sealed <= j.append /\ j.append <= MaxPos
    /\ j.toSeal \subseteq 0..j.append /\ j.pending \subseteq 0..j.append
    /\ j.begun \subseteq j.pending
    /\ \A s \in 0..j.append : s \in j.toSeal \union j.pending \union written \union excused
    /\ \A s \in j.toSeal : j.sealed < s /\ \A p \in j.pending : p < s

ThreadFields == {"pc", "size", "cur", "covers"}

Shape ==
    /\ th = [t \in Threads |-> th[t]]
    /\ \A t \in Threads :
          /\ th[t] = [f \in ThreadFields |-> th[t][f]]
          /\ th[t].size \in Nat
          /\ th[t].covers \subseteq written

(* Everything sealed was written or is excused; a flush under way covers   *)
(* it.                                                                     *)
Covered ==
    /\ stable \subseteq written
    /\ written \subseteq 0..j.sealed
    /\ \A s \in 0..j.sealed : s \in written \union excused
    /\ \A t \in Threads : At(t, "flushing") =>
          \A s \in 0..j.sealed : s \in th[t].covers \union stable \union excused

CommitInv == Roles(j) /\ Segments /\ Shape /\ Covered /\ DurableIsStable

(* What the operators on roles leave alone.                                *)
Same(k, l) ==
    /\ Roles(l)
    /\ l.durable = k.durable /\ l.sealed = k.sealed /\ l.append = k.append
    /\ l.toSeal = k.toSeal /\ l.pending = k.pending /\ l.begun = k.begun
-----------------------------------------------------------------------------
(* A set of naturals that is not empty has a least element.                *)
LEMMA MinExists ==
  ASSUME NEW T, T \subseteq Nat, T # {}
  PROVE  Min(T) \in T /\ \A y \in T : Min(T) <= y
<1>1. \E x \in T : \A y \in T : ~ (<<y, x>> \in OpToRel(<, Nat))
  BY NatLessThanWellFounded, WFMin
<1>2. PICK x \in T : \A y \in T : ~ (<<y, x>> \in OpToRel(<, Nat))
  BY <1>1
<1>3. \A y \in T : ~(y < x)
  BY <1>2 DEF OpToRel
<1>4. \A y \in T : x <= y
  BY <1>3
<1> QED BY <1>4 DEF Min

(* A set of integers with a bound that is not empty has a greatest one.    *)
LEMMA MaxExists ==
  ASSUME NEW T, T \subseteq Int, T # {}, NEW b \in Int, \A x \in T : x <= b
  PROVE  Max(T) \in T /\ \A y \in T : Max(T) >= y
<1> DEFINE D == {b - x : x \in T}
<1>1. D \subseteq Nat /\ D # {}
  <2>1. \A x \in T : b - x \in Nat
    OBVIOUS
  <2>2. PICK x \in T : TRUE
    OBVIOUS
  <2>3. b - x \in D
    OBVIOUS
  <2> QED BY <2>1, <2>3
<1>2. Min(D) \in D /\ \A y \in D : Min(D) <= y
  BY <1>1, MinExists
<1>3. PICK x \in T : Min(D) = b - x
  BY <1>2
<1>4. ASSUME NEW y \in T PROVE x >= y
  <2>1. b - y \in D
    OBVIOUS
  <2>2. b - x <= b - y
    BY <1>2, <1>3, <2>1
  <2>3. x \in Int /\ y \in Int
    OBVIOUS
  <2> QED BY <2>2, <2>3
<1> QED BY <1>4 DEF Max

(* The greatest position people wait for is an integer.                    *)
LEMMA GreatestType ==
  ASSUME NEW W, Waits(W)
  PROVE  Greatest(W) \in Int /\ \A w \in W : w.spos <= Greatest(W)
<1> DEFINE T == {w.spos : w \in W} \union {0}
<1>1. PICK b \in Nat : \A w \in W : w.spos <= b
  BY DEF Waits
<1>2. T \subseteq Int /\ T # {} /\ \A x \in T : x <= b
  <2>1. \A w \in W : w.spos \in Int
    BY DEF Waits
  <2>2. 0 \in T
    OBVIOUS
  <2>3. ASSUME NEW x \in T PROVE x \in Int /\ x <= b
    <3>1. CASE x = 0
      BY <3>1
    <3>2. CASE x \in {w.spos : w \in W}
      BY <1>1, <2>1, <3>2
    <3> QED BY <3>1, <3>2
  <2> QED BY <2>2, <2>3
<1>3. Max(T) \in T /\ \A y \in T : Max(T) >= y
  <2> HIDE DEF T
  <2>1. b \in Int
    OBVIOUS
  <2> QED BY <1>2, <2>1, MaxExists
<1>4. Greatest(W) = Max(T)
  BY DEF Greatest
<1>5. \A w \in W : w.spos \in T
  OBVIOUS
<1> QED BY <1>2, <1>3, <1>4, <1>5

(* Another waiter leaves the positions bounded; so does taking some away.  *)
LEMMA WaitsGrow ==
  ASSUME NEW W, Waits(W), NEW V, NEW t, NEW spos \in Int,
         V \subseteq W \union {Waiter(t, spos)}
  PROVE  Waits(V)
<1>1. PICK b \in Nat : \A w \in W : w.spos <= b
  BY DEF Waits
<1>2. Waiter(t, spos).spos = spos
  BY DEF Waiter
<1>3. \A w \in V : w.spos \in Int
  BY <1>2 DEF Waits
<1>4. CASE spos <= b
  BY <1>1, <1>2, <1>3, <1>4 DEF Waits
<1>5. CASE spos > b
  <2>1. spos \in Nat /\ \A w \in V : w.spos <= spos
    BY <1>1, <1>2, <1>5 DEF Waits
  <2> QED BY <2>1, <1>3 DEF Waits
<1> QED BY <1>4, <1>5

(* So does letting waiters go.                                             *)
LEMMA WaitsShrink == ASSUME NEW W, Waits(W), NEW V, V \subseteq W PROVE Waits(V)
  BY DEF Waits
-----------------------------------------------------------------------------
(* The operators on roles.                                                 *)

(* PrepareToWaitForSeal registers a waiter and touches no segment.         *)
LEMMA SealWaitKeeps ==
  ASSUME NEW k, Roles(k), NEW t, NEW to \in Int, NEW for \in Int
  PROVE  Same(k, PrepareToWaitForSeal(k, t, to, for))
<1> DEFINE in == IF k.sealed < for THEN k.waitSeal \union {Waiter(t, for)} ELSE k.waitSeal
           w == [k EXCEPT !.waitSeal = in]
           W == ({k.sealer, k.nextSealer} \ {Nil}) \union k.waitSeal
<1>1. w = [f \in Fields |-> IF f = "waitSeal" THEN in ELSE k[f]]
  BY DEF Roles, Fields
<1>2. Waits(W \union {Waiter(t, for)})
  BY WaitsGrow DEF Roles
<1>3. Waits((W \union {Waiter(t, for)}) \union {Waiter(t, to)})
  BY <1>2, WaitsGrow
<1>4. Same(k, w)
  BY <1>1, <1>2, WaitsShrink DEF Same, Roles, Fields
<1>5. Same(k, [w EXCEPT !.sealer = Waiter(t, to), !.sealPending = to])
  <2> DEFINE l == [w EXCEPT !.sealer = Waiter(t, to), !.sealPending = to]
  <2>1. l = [f \in Fields |-> IF f = "waitSeal" THEN in ELSE IF f = "sealer" THEN Waiter(t, to)
                              ELSE IF f = "sealPending" THEN to ELSE k[f]]
    BY <1>1 DEF Fields
  <2>2. ({l.sealer, l.nextSealer} \ {Nil}) \union l.waitSeal
          \subseteq (W \union {Waiter(t, for)}) \union {Waiter(t, to)}
    BY <2>1 DEF Fields
  <2>3. Waits(({l.sealer, l.nextSealer} \ {Nil}) \union l.waitSeal)
    BY <1>3, <2>2, WaitsShrink
  <2> QED BY <2>1, <2>3 DEF Same, Roles, Fields
<1>6. Same(k, [w EXCEPT !.nextSealer = Waiter(t, to)])
  <2> DEFINE l == [w EXCEPT !.nextSealer = Waiter(t, to)]
  <2>1. l = [f \in Fields |-> IF f = "waitSeal" THEN in ELSE IF f = "nextSealer" THEN Waiter(t, to)
                              ELSE k[f]]
    BY <1>1 DEF Fields
  <2>2. ({l.sealer, l.nextSealer} \ {Nil}) \union l.waitSeal
          \subseteq (W \union {Waiter(t, for)}) \union {Waiter(t, to)}
    BY <2>1 DEF Fields
  <2>3. Waits(({l.sealer, l.nextSealer} \ {Nil}) \union l.waitSeal)
    BY <1>3, <2>2, WaitsShrink
  <2> QED BY <2>1, <2>3 DEF Same, Roles, Fields
<1>7. PrepareToWaitForSeal(k, t, to, for) \in
        {w, [w EXCEPT !.sealer = Waiter(t, to), !.sealPending = to], [w EXCEPT !.nextSealer = Waiter(t, to)]}
  BY DEF PrepareToWaitForSeal
<1> QED BY <1>4, <1>5, <1>6, <1>7

(* PrepareToReleaseNextSealer hands a role on and touches no segment.      *)
LEMMA NextSealerKeeps ==
  ASSUME NEW k, Roles(k)
  PROVE  Same(k, PrepareToReleaseNextSealer(k))
<1> DEFINE W == ({k.sealer, k.nextSealer} \ {Nil}) \union k.waitSeal
           l == [k EXCEPT !.sealer = k.nextSealer, !.nextSealer = Nil,
                          !.sealPending = sposWaitersForSealMax(k)]
<1>1. sposWaitersForSealMax(k) \in Int
  BY GreatestType DEF Roles, sposWaitersForSealMax
<1>2. l = [f \in Fields |-> IF f = "sealer" THEN k.nextSealer ELSE IF f = "nextSealer" THEN Nil
                            ELSE IF f = "sealPending" THEN sposWaitersForSealMax(k) ELSE k[f]]
  BY DEF Roles, Fields
<1>3. ({l.sealer, l.nextSealer} \ {Nil}) \union l.waitSeal \subseteq W
  BY <1>2 DEF Fields
<1>4. Waits(({l.sealer, l.nextSealer} \ {Nil}) \union l.waitSeal)
  BY <1>3, WaitsShrink DEF Roles
<1>5. Same(k, l)
  BY <1>1, <1>2, <1>4 DEF Same, Roles, Fields
<1>6. Same(k, k)
  BY DEF Same
<1> QED BY <1>5, <1>6 DEF PrepareToReleaseNextSealer

(* PrepareToWaitForFlush registers a waiter and touches no segment.        *)
LEMMA FlushWaitKeeps ==
  ASSUME NEW k, Roles(k), NEW t, NEW spos
  PROVE  Same(k, PrepareToWaitForFlush(k, t, spos))
<1> DEFINE me == Waiter(t, spos)
           in == IF k.durable < spos THEN k.waitFlush \union {me} ELSE k.waitFlush
           w == [k EXCEPT !.waitFlush = in]
           first == [w EXCEPT !.flusher = me, !.durablePending = spos]
           second == [w EXCEPT !.nextFlusher = me]
<1>1. w = [f \in Fields |-> IF f = "waitFlush" THEN in ELSE k[f]]
  BY DEF Roles, Fields
<1>2. first = [f \in Fields |-> IF f = "waitFlush" THEN in ELSE IF f = "flusher" THEN me
                                ELSE IF f = "durablePending" THEN spos ELSE k[f]]
  BY <1>1 DEF Fields
<1>3. second = [f \in Fields |-> IF f = "waitFlush" THEN in ELSE IF f = "nextFlusher" THEN me ELSE k[f]]
  BY <1>1 DEF Fields
<1>4. Same(k, w)
  BY <1>1 DEF Same, Roles, Fields
<1>5. Same(k, first)
  BY <1>2 DEF Same, Roles, Fields
<1>6. Same(k, second)
  BY <1>3 DEF Same, Roles, Fields
<1>7. PrepareToWaitForFlush(k, t, spos) \in {w, first, second}
  BY DEF PrepareToWaitForFlush
<1> QED BY <1>4, <1>5, <1>6, <1>7

(* PrepareToReleaseNextFlusher hands a role on and touches no segment.     *)
LEMMA NextFlusherKeeps ==
  ASSUME NEW k, Roles(k)
  PROVE  Same(k, PrepareToReleaseNextFlusher(k))
<1> DEFINE l == [k EXCEPT !.flusher = k.nextFlusher, !.nextFlusher = Nil,
                          !.durablePending = sposWaitersForFlushMax(k)]
<1>1. l = [f \in Fields |-> IF f = "flusher" THEN k.nextFlusher ELSE IF f = "nextFlusher" THEN Nil
                            ELSE IF f = "durablePending" THEN sposWaitersForFlushMax(k) ELSE k[f]]
  BY DEF Roles, Fields
<1>2. Same(k, l)
  BY <1>1 DEF Same, Roles, Fields
<1>3. Same(k, k)
  BY DEF Same
<1> QED BY <1>2, <1>3 DEF PrepareToReleaseNextFlusher

(* ReleaseAppender hands a role on and touches no segment.                 *)
LEMMA AppenderKeeps ==
  ASSUME NEW k, Roles(k)
  PROVE  Same(k, ReleaseAppender(k))
<1> DEFINE a == [k EXCEPT !.appender = Nil]
           b == [k EXCEPT !.appender = Head(k.appendQ), !.appendQ = Tail(k.appendQ)]
<1>1. a = [f \in Fields |-> IF f = "appender" THEN Nil ELSE k[f]]
  BY DEF Roles, Fields
<1>2. b = [f \in Fields |-> IF f = "appender" THEN Head(k.appendQ)
                            ELSE IF f = "appendQ" THEN Tail(k.appendQ) ELSE k[f]]
  BY DEF Roles, Fields
<1>3. Same(k, a)
  BY <1>1 DEF Same, Roles, Fields
<1>4. Same(k, b)
  BY <1>2 DEF Same, Roles, Fields
<1>5. Same(k, PrepareToReleaseNextSealer(a)) /\ Same(k, PrepareToReleaseNextSealer(b))
  BY <1>3, <1>4, NextSealerKeeps DEF Same
<1> QED BY <1>5 DEF ReleaseAppender

(* The rounded-up quotient is an integer.                                  *)
LEMMA CeilType == ASSUME NEW a \in Int, NEW b \in Nat \ {0} PROVE Ceil(a, b) \in Int
  BY DEF Ceil

(* It is a natural number if the dividend is.                              *)
LEMMA CeilNat == ASSUME NEW a \in Nat, NEW b \in Nat \ {0} PROVE Ceil(a, b) \in Nat
  BY DEF Ceil

(* PrepareToAppend registers a waiter and touches no segment.              *)
LEMMA AppendWaitKeeps ==
  ASSUME NEW k, Roles(k), k.append \in Nat, NEW t, NEW size \in Nat
  PROVE  Same(k, PrepareToAppend(k, t, size))
<1> DEFINE Q    == Ceil((IF k.toSeal = {} THEN 0 ELSE k.fill) + size, Capacity)
           back == k.append + Q - (Cache \div 2)
           full == k.append + Q - Cache
<1>1. (IF k.toSeal = {} THEN 0 ELSE k.fill) + size \in Int
  BY DEF Roles
<1>2. Q \in Int
  BY <1>1, CeilType, CommitAssumption
<1>3. back \in Int /\ full \in Int /\ k.append \in Int
  <2> HIDE DEF Q
  <2> QED BY <1>2, CommitAssumption
<1>4. (IF full < k.append THEN full ELSE k.append) \in Int
  <2> HIDE DEF full
  <2> QED BY <1>3
<1> QED
  <2> HIDE DEF back, full
  <2>1. Same(k, PrepareToWaitForSeal(k, t, back, IF full < k.append THEN full ELSE k.append))
    BY <1>3, <1>4, SealWaitKeeps
  <2> QED BY <2>1 DEF PrepareToAppend, back, full
-----------------------------------------------------------------------------
(* Appending adds segments at the end, all of them to be sealed.           *)
Grown(k, l) ==
    /\ Roles(l)
    /\ l.durable = k.durable /\ l.sealed = k.sealed /\ l.pending = k.pending /\ l.begun = k.begun
    /\ l.append \in Nat /\ k.append <= l.append /\ l.append <= MaxPos
    /\ l.toSeal = k.toSeal \union (k.append + 1)..l.append

(* The loop of ErrAppendEntry adds segments at the end, up to the end of   *)
(* the file.                                                               *)
LEMMA AppendGrows ==
  ASSUME NEW k, Roles(k), k.append \in Nat, k.append <= MaxPos, NEW size \in Nat \ {0}
  PROVE  Grown(k, AppendEntry(k, size))
<1> DEFINE room == IF k.toSeal = {} THEN 0 ELSE Capacity - k.fill
           more == IF size <= room THEN 0 ELSE Ceil(size - room, Capacity)
           last == k.append + more
           fill == IF more = 0 THEN k.fill + size ELSE size - room - ((more - 1) * Capacity)
           over == [k EXCEPT !.append = MaxPos, !.fill = Capacity,
                             !.toSeal = @ \union (k.append + 1)..MaxPos]
           fits == [k EXCEPT !.append = last, !.toSeal = @ \union (k.append + 1)..last, !.fill = fill]
<1>1. room \in Int
  BY CommitAssumption DEF Roles
<1>2. more \in Nat
  <2> HIDE DEF room
  <2>1. CASE size <= room
    BY <2>1
  <2>2. CASE ~(size <= room)
    <3>1. size - room \in Nat
      BY <1>1, <2>2
    <3> QED BY <2>2, <3>1, CeilNat, CommitAssumption
  <2> QED BY <2>1, <2>2
<1>3. fill \in Int
  <2> HIDE DEF room, more
  <2>1. (more - 1) * Capacity \in Int
    BY <1>2, CommitAssumption
  <2> QED BY <1>1, <1>2, <2>1 DEF Roles
<1>4. last \in Nat /\ k.append <= last
  <2> HIDE DEF more
  <2> QED BY <1>2
<1>5. over = [f \in Fields |-> IF f = "append" THEN MaxPos ELSE IF f = "fill" THEN Capacity
                 ELSE IF f = "toSeal" THEN k.toSeal \union (k.append + 1)..MaxPos ELSE k[f]]
  BY DEF Roles, Fields
<1>6. fits = [f \in Fields |-> IF f = "append" THEN last ELSE IF f = "fill" THEN fill
                 ELSE IF f = "toSeal" THEN k.toSeal \union (k.append + 1)..last ELSE k[f]]
  <2> HIDE DEF last, fill
  <2> QED BY DEF Roles, Fields
<1>7. Grown(k, over)
  BY <1>5, CommitAssumption DEF Grown, Roles, Fields
<1>8. ASSUME last <= MaxPos PROVE Grown(k, fits)
  <2> HIDE DEF last, fill
  <2> QED BY <1>3, <1>4, <1>6, <1>8 DEF Grown, Roles, Fields
<1>9. AppendEntry(k, size) = IF last > MaxPos THEN over ELSE fits
  BY DEF AppendEntry
<1>10. CASE last > MaxPos
  <2> HIDE DEF last, over, fits
  <2> QED BY <1>7, <1>9, <1>10
<1>11. CASE ~(last > MaxPos)
  <2> HIDE DEF last, over, fits
  <2>1. last <= MaxPos
    BY <1>4, <1>11, CommitAssumption
  <2> QED BY <1>8, <1>9, <1>11, <2>1
<1> QED BY <1>10, <1>11

(* Leaving the segments alone is the case in which nothing is added.       *)
LEMMA SameIsGrown ==
  ASSUME NEW k, NEW l, Same(k, l), k.append \in Nat, k.append <= MaxPos
  PROVE  Grown(k, l)
<1>1. (k.append + 1)..k.append = {}
  OBVIOUS
<1> QED BY <1>1 DEF Same, Grown
-----------------------------------------------------------------------------
(* Steps that seal and flush nothing.                                      *)

(* No thread begins a flush, and the flushes under way cover what they did.*)
NoNewFlush ==
    \A t \in Threads : At(t, "flushing")' => At(t, "flushing") /\ th'[t].covers = th[t].covers

(* Appending keeps the invariant as long as no flush begins.               *)
LEMMA GrownKeeps ==
  ASSUME CommitInv, Grown(j, j'), UNCHANGED <<written, stable, excused>>, Shape', NoNewFlush
  PROVE  CommitInv'
<1>1. Roles(j)'
  BY DEF Grown, Roles, Waits, Fields
<1>2. Segments'
  <2>1. j'.durable \in Nat /\ j'.sealed \in Nat /\ j'.append \in Nat
    BY DEF CommitInv, Segments, Grown
  <2>2. j'.sealed <= j'.append /\ j'.append <= MaxPos
    BY <2>1, CommitAssumption DEF CommitInv, Segments, Grown
  <2>3. j'.toSeal \subseteq 0..j'.append /\ j'.pending \subseteq 0..j'.append
    BY <2>1 DEF CommitInv, Segments, Grown
  <2>4. j'.begun \subseteq j'.pending
    BY DEF CommitInv, Segments, Grown
  <2>5. ASSUME NEW s \in 0..j'.append
        PROVE  s \in j'.toSeal \union j'.pending \union written' \union excused'
    <3>1. CASE s <= j.append
      <4>1. s \in 0..j.append
        BY <3>1, <2>5 DEF CommitInv, Segments
      <4> QED BY <4>1 DEF CommitInv, Segments, Grown
    <3>2. CASE ~(s <= j.append)
      <4>1. s \in (j.append + 1)..j'.append
        BY <3>2, <2>5 DEF CommitInv, Segments
      <4> QED BY <4>1 DEF Grown
    <3> QED BY <3>1, <3>2
  <2>6. ASSUME NEW s \in j'.toSeal
        PROVE  j'.sealed < s /\ \A p \in j'.pending : p < s
    <3>1. CASE s \in j.toSeal
      BY <3>1 DEF CommitInv, Segments, Grown
    <3>2. CASE s \in (j.append + 1)..j'.append
      <4>1. j'.sealed = j.sealed /\ j'.pending = j.pending /\ j.sealed <= j.append
        BY DEF CommitInv, Segments, Grown
      <4>2. \A p \in j.pending : p \in Nat /\ p <= j.append
        BY DEF CommitInv, Segments
      <4> QED BY <3>2, <4>1, <4>2 DEF CommitInv, Segments
    <3> QED BY <3>1, <3>2 DEF Grown
  <2> QED BY <2>1, <2>2, <2>3, <2>4, <2>5, <2>6 DEF Segments
<1>3. Covered'
  BY DEF CommitInv, Covered, Grown, NoNewFlush, At
<1>4. DurableIsStable'
  BY DEF CommitInv, DurableIsStable, Grown
<1> QED BY <1>1, <1>2, <1>3, <1>4 DEF CommitInv

(* A thread goes elsewhere, with a call of its own.                        *)
LEMMA GoesKeeps ==
  ASSUME Shape, NEW t \in Threads, NEW me, NEW pc, pc # "flushing",
         me = [f \in ThreadFields |-> me[f]], me.size \in Nat, me.covers = th[t].covers,
         Goes(t, me, pc), written' = written
  PROVE  Shape' /\ NoNewFlush
<1> DEFINE new == [me EXCEPT !.pc = pc, !.size = IF pc = "idle" THEN 0 ELSE @]
<1>1. new = [f \in ThreadFields |-> IF f = "pc" THEN pc
                ELSE IF f = "size" THEN (IF pc = "idle" THEN 0 ELSE me.size) ELSE me[f]]
  BY DEF ThreadFields
<1>2. th' = [u \in Threads |-> IF u = t THEN new ELSE th[u]]
  <2> HIDE DEF new
  <2>1. th' = [th EXCEPT ![t] = new]
    BY DEF Goes, new
  <2> QED BY <2>1 DEF Shape
<1>3. new.pc = pc /\ new.size \in Nat /\ new.covers = th[t].covers
      /\ new = [f \in ThreadFields |-> new[f]]
  BY <1>1 DEF ThreadFields
<1> HIDE DEF new
<1>4. Shape'
  BY <1>2, <1>3 DEF Shape
<1>5. NoNewFlush
  BY <1>2, <1>3 DEF NoNewFlush, At
<1> QED BY <1>4, <1>5

(* What a thread does when it waits for nothing to be sealed.              *)
LEMMA AfterSealKeeps ==
  ASSUME CommitInv, NEW k, Same(j, k), NEW t \in Threads, NEW me,
         me = [f \in ThreadFields |-> me[f]], me.size \in Nat, me.covers = th[t].covers,
         AfterSeal(k, t, me), UNCHANGED <<written, stable, excused>>
  PROVE  CommitInv'
<1>1. k.append \in Nat /\ k.append <= MaxPos /\ Roles(k)
  BY DEF CommitInv, Segments, Same
<1>2. CASE me.size > 0
  <2>1. j' = ReleaseAppender(IF k.err THEN k ELSE AppendEntry(k, me.size)) /\ Goes(t, me, "idle")
    BY <1>2 DEF AfterSeal
  <2>2. Shape' /\ NoNewFlush
    BY <2>1, GoesKeeps DEF CommitInv
  <2> DEFINE l == IF k.err THEN k ELSE AppendEntry(k, me.size)
  <2>3. Grown(k, l)
    <3>1. CASE k.err
      <4>1. Same(k, k)
        BY <1>1 DEF Same
      <4> QED BY <1>1, <3>1, <4>1, SameIsGrown
    <3>2. CASE ~k.err
      BY <1>1, <1>2, <3>2, AppendGrows
    <3> QED BY <3>1, <3>2
  <2> HIDE DEF l
  <2>4. Same(l, j')
    BY <2>1, <2>3, AppenderKeeps DEF Grown, l
  <2>5. Grown(j, j')
    BY <2>3, <2>4 DEF Grown, Same
  <2> QED BY <2>2, <2>5, GrownKeeps
<1>3. CASE ~(me.size > 0)
  <2>1. j' = k /\ Goes(t, me, IF WaitsForFlush(k, t) THEN "toFlush" ELSE "idle")
    BY <1>3 DEF AfterSeal
  <2> DEFINE pc == IF WaitsForFlush(k, t) THEN "toFlush" ELSE "idle"
  <2>2. pc # "flushing"
    OBVIOUS
  <2>3. Goes(t, me, pc)
    BY <2>1
  <2> HIDE DEF pc
  <2>4. Shape' /\ NoNewFlush
    BY <2>2, <2>3, GoesKeeps DEF CommitInv
  <2>5. Grown(j, j')
    BY <2>1, SameIsGrown DEF CommitInv, Segments
  <2> QED BY <2>4, <2>5, GrownKeeps
<1> QED BY <1>2, <1>3

(* A thread that waits for the sealer, or goes on at once.                 *)
LEMMA WaitForSealKeeps ==
  ASSUME CommitInv, NEW k, Same(j, k), NEW t \in Threads, NEW me,
         me = [f \in ThreadFields |-> me[f]], me.size \in Nat, me.covers = th[t].covers,
         WaitForSeal(k, t, me), UNCHANGED <<written, stable, excused>>
  PROVE  CommitInv'
<1>1. CASE WaitsForSeal(k, t)
  <2>1. j' = k /\ Goes(t, me, "toSeal")
    BY <1>1 DEF WaitForSeal
  <2>2. Shape' /\ NoNewFlush
    BY <2>1, GoesKeeps DEF CommitInv
  <2>3. Grown(j, j')
    BY <2>1, SameIsGrown DEF CommitInv, Segments
  <2> QED BY <2>2, <2>3, GrownKeeps
<1>2. CASE ~WaitsForSeal(k, t)
  BY <1>2, AfterSealKeeps DEF WaitForSeal
<1> QED BY <1>1, <1>2

(* The record of a call.                                                   *)
LEMMA CalledType ==
  ASSUME Shape, NEW t \in Threads, NEW size \in Nat
  PROVE  /\ Called(t, size) = [f \in ThreadFields |-> Called(t, size)[f]]
         /\ Called(t, size).size \in Nat
         /\ Called(t, size).covers = th[t].covers
<1>1. Called(t, size) = [f \in ThreadFields |-> IF f = "size" THEN size ELSE th[t][f]]
  BY DEF Called, Shape, ThreadFields
<1> QED BY <1>1 DEF ThreadFields

(* A call of ErrFlush.                                                     *)
LEMMA ErrFlushKeeps == ASSUME CommitInv, NEW t \in Threads, ErrFlush(t) PROVE CommitInv'
<1> DEFINE a == PrepareToWaitForSeal(j, t, j.append, j.append)
           b == PrepareToWaitForFlush(a, t, j.append)
<1>1. Same(j, a)
  BY SealWaitKeeps DEF CommitInv, Segments
<1> HIDE DEF a
<1>2. Same(a, b)
  BY <1>1, FlushWaitKeeps DEF Same
<1>3. Same(j, b)
  <2> HIDE DEF b
  <2> QED BY <1>1, <1>2 DEF Same
<1>4. WaitForSeal(b, t, Called(t, 0)) /\ UNCHANGED <<written, stable, excused>>
  BY DEF ErrFlush, history, a
<1> HIDE DEF b
<1>5. /\ Called(t, 0) = [f \in ThreadFields |-> Called(t, 0)[f]]
      /\ Called(t, 0).size \in Nat
      /\ Called(t, 0).covers = th[t].covers
  BY CalledType DEF CommitInv
<1> QED BY <1>3, <1>4, <1>5, WaitForSealKeeps

(* A call of ErrAppendEntry: its turn comes at once or it queues.          *)
LEMMA ErrAppendEntryKeeps ==
  ASSUME CommitInv, NEW t \in Threads, NEW size \in Sizes, ErrAppendEntry(t, size)
  PROVE  CommitInv'
<1>1. size \in Nat
  BY CommitAssumption
<1>2. /\ Called(t, size) = [f \in ThreadFields |-> Called(t, size)[f]]
      /\ Called(t, size).size \in Nat
      /\ Called(t, size).covers = th[t].covers
  BY <1>1, CalledType DEF CommitInv
<1>3. UNCHANGED <<written, stable, excused>>
  BY DEF ErrAppendEntry, history
<1>4. CASE j.appender = Nil
  <2> DEFINE a == [j EXCEPT !.appender = t]
             b == PrepareToAppend(a, t, size)
  <2>1. a = [f \in Fields |-> IF f = "appender" THEN t ELSE j[f]]
    BY DEF CommitInv, Roles, Fields
  <2>2. Same(j, a)
    BY <2>1 DEF CommitInv, Roles, Same, Fields
  <2> HIDE DEF a
  <2>3. Same(a, b)
    BY <1>1, <2>2, AppendWaitKeeps DEF Same, CommitInv, Segments
  <2>4. WaitForSeal(b, t, Called(t, size))
    BY <1>4 DEF ErrAppendEntry, a
  <2> HIDE DEF b
  <2>5. Same(j, b)
    BY <2>2, <2>3 DEF Same
  <2> QED BY <1>2, <1>3, <2>4, <2>5, WaitForSealKeeps
<1>5. CASE j.appender # Nil
  <2>1. j' = [j EXCEPT !.appendQ = Append(@, t)] /\ Goes(t, Called(t, size), "forAppend")
    BY <1>5 DEF ErrAppendEntry
  <2>2. Shape' /\ NoNewFlush
    BY <1>2, <1>3, <2>1, GoesKeeps DEF CommitInv
  <2>3. j' = [f \in Fields |-> IF f = "appendQ" THEN Append(j.appendQ, t) ELSE j[f]]
    BY <2>1 DEF CommitInv, Roles, Fields
  <2>4. Same(j, j')
    BY <2>3 DEF CommitInv, Roles, Same, Fields
  <2> QED BY <1>3, <2>2, <2>4, SameIsGrown, GrownKeeps DEF CommitInv, Segments
<1> QED BY <1>4, <1>5

(* The appender role reaches a thread that queued for it.                  *)
LEMMA AppendersTurnKeeps == ASSUME CommitInv, NEW t \in Threads, AppendersTurn(t) PROVE CommitInv'
<1> DEFINE b == PrepareToAppend(j, t, th[t].size)
<1>1. th[t] = [f \in ThreadFields |-> th[t][f]] /\ th[t].size \in Nat
  BY DEF CommitInv, Shape
<1>2. Same(j, b)
  BY <1>1, AppendWaitKeeps DEF CommitInv, Segments
<1>3. WaitForSeal(b, t, th[t]) /\ UNCHANGED <<written, stable, excused>>
  BY DEF AppendersTurn, history
<1> HIDE DEF b
<1> QED BY <1>1, <1>2, <1>3, WaitForSealKeeps

(* What a thread waited for is sealed.                                     *)
LEMMA SealWaitedKeeps == ASSUME CommitInv, NEW t \in Threads, SealWaited(t) PROVE CommitInv'
<1>1. th[t] = [f \in ThreadFields |-> th[t][f]] /\ th[t].size \in Nat
  BY DEF CommitInv, Shape
<1>2. Same(j, j)
  BY DEF CommitInv, Same
<1>3. AfterSeal(j, t, th[t]) /\ UNCHANGED <<written, stable, excused>>
  BY DEF SealWaited, history
<1> QED BY <1>1, <1>2, <1>3, AfterSealKeeps

(* The sealer gives its role up.                                           *)
LEMMA ReleaseSealerKeeps == ASSUME CommitInv, NEW t \in Threads, ReleaseSealer(t) PROVE CommitInv'
<1> DEFINE a == [j EXCEPT !.sealer = Nil]
           V == ({Nil, j.nextSealer} \ {Nil}) \union j.waitSeal
<1>1. a = [f \in Fields |-> IF f = "sealer" THEN Nil ELSE j[f]]
  BY DEF CommitInv, Roles, Fields
<1>2. Waits(V)
  <2>1. V \subseteq ({j.sealer, j.nextSealer} \ {Nil}) \union j.waitSeal
    OBVIOUS
  <2> HIDE DEF V
  <2> QED BY <2>1, WaitsShrink DEF CommitInv, Roles
<1>3. Same(j, a)
  BY <1>1, <1>2 DEF CommitInv, Roles, Same, Fields
<1> HIDE DEF a
<1>4. j' = PrepareToReleaseNextSealer(a) /\ Goes(t, th[t], "forSeal")
      /\ UNCHANGED <<written, stable, excused>>
  BY DEF ReleaseSealer, history, a
<1>5. Same(a, j')
  BY <1>3, <1>4, NextSealerKeeps DEF Same
<1>6. Same(j, j')
  BY <1>3, <1>5 DEF Same
<1>7. Shape' /\ NoNewFlush
  <2>1. th[t] = [f \in ThreadFields |-> th[t][f]] /\ th[t].size \in Nat
    BY DEF CommitInv, Shape
  <2> QED BY <1>4, <2>1, GoesKeeps DEF CommitInv
<1> QED BY <1>4, <1>6, <1>7, SameIsGrown, GrownKeeps DEF CommitInv, Segments

(* The flusher gives its role up.                                          *)
LEMMA ReleaseFlusherKeeps == ASSUME CommitInv, NEW t \in Threads, ReleaseFlusher(t) PROVE CommitInv'
<1> DEFINE a == [j EXCEPT !.flusher = Nil]
<1>1. a = [f \in Fields |-> IF f = "flusher" THEN Nil ELSE j[f]]
  BY DEF CommitInv, Roles, Fields
<1>2. Same(j, a)
  BY <1>1 DEF CommitInv, Roles, Same, Fields
<1> HIDE DEF a
<1>3. j' = PrepareToReleaseNextFlusher(a) /\ Goes(t, th[t], "forFlush")
      /\ UNCHANGED <<written, stable, excused>>
  BY DEF ReleaseFlusher, history, a
<1>4. Same(a, j')
  BY <1>2, <1>3, NextFlusherKeeps DEF Same
<1>5. Same(j, j')
  BY <1>2, <1>4 DEF Same
<1>6. Shape' /\ NoNewFlush
  <2>1. th[t] = [f \in ThreadFields |-> th[t][f]] /\ th[t].size \in Nat
    BY DEF CommitInv, Shape
  <2> QED BY <1>3, <2>1, GoesKeeps DEF CommitInv
<1> QED BY <1>3, <1>5, <1>6, SameIsGrown, GrownKeeps DEF CommitInv, Segments

(* What a thread waited for is durable.                                    *)
LEMMA FlushWaitedKeeps == ASSUME CommitInv, NEW t \in Threads, FlushWaited(t) PROVE CommitInv'
<1>1. j' = j /\ Goes(t, th[t], "idle") /\ UNCHANGED <<written, stable, excused>>
  BY DEF FlushWaited, history
<1>2. Same(j, j')
  BY <1>1 DEF CommitInv, Same
<1>3. Shape' /\ NoNewFlush
  <2>1. th[t] = [f \in ThreadFields |-> th[t][f]] /\ th[t].size \in Nat
    BY DEF CommitInv, Shape
  <2> QED BY <1>1, <2>1, GoesKeeps DEF CommitInv
<1> QED BY <1>1, <1>2, <1>3, SameIsGrown, GrownKeeps DEF CommitInv, Segments

(* A sealer moves along its list.                                          *)
LEMMA CurKeeps ==
  ASSUME Shape, NEW t \in Threads, NEW cur, NEW pc, pc # "flushing", written' = written,
         th' = [th EXCEPT ![t] = [th[t] EXCEPT !.pc = pc, !.cur = cur]]
  PROVE  Shape' /\ NoNewFlush
<1> DEFINE new == [th[t] EXCEPT !.pc = pc, !.cur = cur]
<1>1. new = [f \in ThreadFields |-> IF f = "pc" THEN pc ELSE IF f = "cur" THEN cur ELSE th[t][f]]
  BY DEF Shape, ThreadFields
<1>2. th' = [u \in Threads |-> IF u = t THEN new ELSE th[u]]
  <2> HIDE DEF new
  <2>1. th' = [th EXCEPT ![t] = new]
    BY DEF new
  <2> QED BY <2>1 DEF Shape
<1>3. new.pc = pc /\ new.size \in Nat /\ new.covers = th[t].covers
      /\ new = [f \in ThreadFields |-> new[f]]
  BY <1>1 DEF ThreadFields, Shape
<1> HIDE DEF new
<1>4. Shape'
  BY <1>2, <1>3 DEF Shape
<1>5. NoNewFlush
  BY <1>2, <1>3 DEF NoNewFlush, At
<1> QED BY <1>4, <1>5

(* The sealer takes the oldest segments: those left are newer than all     *)
(* it took.                                                                *)
LEMMA SealSegmentsKeeps == ASSUME CommitInv, NEW t \in Threads, SealSegments(t) PROVE CommitInv'
<1> DEFINE taken == {s \in j.toSeal : s <= j.sealPending}
           cur == Min(j'.pending \union {sposInvalid})
<1>1. /\ j' = [j EXCEPT !.toSeal = j.toSeal \ taken, !.pending = j.pending \union taken]
      /\ th' = [th EXCEPT ![t].pc = "sealing", ![t].cur = cur]
      /\ UNCHANGED <<written, stable, excused>>
  BY DEF SealSegments, history
<1>2. j' = [f \in Fields |-> IF f = "toSeal" THEN j.toSeal \ taken
               ELSE IF f = "pending" THEN j.pending \union taken ELSE j[f]]
  <2> HIDE DEF taken
  <2> QED BY <1>1 DEF CommitInv, Roles, Fields
<1>3. Shape' /\ NoNewFlush
  <2> HIDE DEF cur
  <2>1. th' = [th EXCEPT ![t] = [th[t] EXCEPT !.pc = "sealing", !.cur = cur]]
    BY <1>1 DEF CommitInv, Shape, ThreadFields
  <2> QED BY <1>1, <2>1, CurKeeps DEF CommitInv
<1>4. /\ j'.durable = j.durable /\ j'.sealed = j.sealed /\ j'.append = j.append /\ j'.begun = j.begun
      /\ j'.toSeal = j.toSeal \ taken /\ j'.pending = j.pending \union taken
  <2> HIDE DEF taken
  <2> QED BY <1>2 DEF Fields
<1>5. Roles(j)'
  <2> HIDE DEF taken
  <2>1. /\ j'.sealer = j.sealer /\ j'.nextSealer = j.nextSealer /\ j'.waitSeal = j.waitSeal
        /\ j'.fill = j.fill /\ j'.sealPending = j.sealPending /\ j' = [f \in Fields |-> j'[f]]
    BY <1>2 DEF Fields
  <2> QED BY <2>1 DEF CommitInv, Roles, Waits
<1>6. Segments'
  <2>1. \A s \in j'.toSeal : j'.sealed < s /\ \A p \in j'.pending : p < s
    <3> SUFFICES ASSUME NEW s \in j'.toSeal, NEW p \in j'.pending PROVE j'.sealed < s /\ p < s
      BY <1>4 DEF CommitInv, Segments
    <3>1. s \in j.toSeal /\ s \in Nat /\ ~(s <= j.sealPending) /\ j.sealed < s
      BY <1>4 DEF CommitInv, Segments
    <3>2. CASE p \in j.pending
      BY <1>4, <3>1, <3>2 DEF CommitInv, Segments
    <3>3. CASE p \in taken
      <4>1. p \in Nat /\ p <= j.sealPending /\ j.sealPending \in Int
        BY <3>3 DEF CommitInv, Segments, Roles
      <4> QED BY <1>4, <3>1, <4>1
    <3> QED BY <1>4, <3>2, <3>3
  <2>2. \A p \in j'.toSeal : j'.sealed < p
    BY <1>4 DEF CommitInv, Segments
  <2> QED BY <1>1, <1>4, <2>1, <2>2 DEF CommitInv, Segments
<1>7. Covered'
  BY <1>1, <1>3, <1>4 DEF CommitInv, Covered, NoNewFlush, At
<1>8. DurableIsStable'
  BY <1>1, <1>4 DEF CommitInv, DurableIsStable
<1> QED BY <1>3, <1>5, <1>6, <1>7, <1>8 DEF CommitInv

(* The sealer starts one write, or runs off its list.                      *)
LEMMA ErrBeginSealKeeps == ASSUME CommitInv, NEW t \in Threads, ErrBeginSeal(t) PROVE CommitInv'
<1> DEFINE cur == Min({s \in j.pending : s > th[t].cur} \union {sposInvalid})
           b == j.begun \union {th[t].cur}
<1>1. UNCHANGED <<written, stable, excused>>
  BY DEF ErrBeginSeal
<1>2. PICK c : th' = [th EXCEPT ![t].cur = c]
  BY DEF ErrBeginSeal
<1>3. Shape' /\ NoNewFlush
  <2>1. th' = [th EXCEPT ![t] = [th[t] EXCEPT !.pc = "sealing", !.cur = c]]
    <3>1. th[t].pc = "sealing"
      BY DEF ErrBeginSeal, At
    <3>2. [th[t] EXCEPT !.cur = c] = [th[t] EXCEPT !.pc = "sealing", !.cur = c]
      BY <3>1 DEF CommitInv, Shape, ThreadFields
    <3> QED BY <1>2, <3>2
  <2> QED BY <1>1, <2>1, CurKeeps DEF CommitInv
<1>4. CASE th[t].cur \in j.pending
  <2>1. j' = [j EXCEPT !.begun = b]
    BY <1>4 DEF ErrBeginSeal
  <2>2. j' = [f \in Fields |-> IF f = "begun" THEN b ELSE j[f]]
    <3> HIDE DEF b
    <3> QED BY <2>1 DEF CommitInv, Roles, Fields
  <2>3. /\ j'.durable = j.durable /\ j'.sealed = j.sealed /\ j'.append = j.append /\ j'.begun = b
        /\ j'.toSeal = j.toSeal /\ j'.pending = j.pending
    <3> HIDE DEF b
    <3> QED BY <2>2 DEF Fields
  <2>4. Roles(j)'
    <3> HIDE DEF b
    <3>1. /\ j'.sealer = j.sealer /\ j'.nextSealer = j.nextSealer /\ j'.waitSeal = j.waitSeal
          /\ j'.fill = j.fill /\ j'.sealPending = j.sealPending /\ j' = [f \in Fields |-> j'[f]]
      BY <2>2 DEF Fields
    <3> QED BY <3>1 DEF CommitInv, Roles, Waits
  <2>5. Segments'
    BY <1>1, <1>4, <2>3 DEF CommitInv, Segments
  <2>6. Covered'
    BY <1>1, <1>3, <2>3 DEF CommitInv, Covered, NoNewFlush, At
  <2>7. DurableIsStable'
    BY <1>1, <2>3 DEF CommitInv, DurableIsStable
  <2> QED BY <1>3, <2>4, <2>5, <2>6, <2>7 DEF CommitInv
<1>5. CASE th[t].cur \notin j.pending
  <2>1. j' = j
    BY <1>5 DEF ErrBeginSeal
  <2>2. Same(j, j')
    BY <2>1 DEF CommitInv, Same
  <2> QED BY <1>1, <1>3, <2>2, SameIsGrown, GrownKeeps DEF CommitInv, Segments
<1> QED BY <1>4, <1>5
-----------------------------------------------------------------------------
(* Flushes and completed writes.                                           *)

(* A thread's flush begins or ends: the thread covers C.                   *)
Turns(t, pc, C) ==
    /\ th' = [th EXCEPT ![t] = [th[t] EXCEPT !.pc = pc, !.covers = C]]
    /\ C \subseteq written /\ written' = written

Turned(t, pc, C) ==
    /\ th'[t].pc = pc /\ th'[t].covers = C
    /\ \A u \in Threads \ {t} : th'[u] = th[u]

(* Only that thread is changed.                                            *)
LEMMA TurnsKeeps ==
  ASSUME Shape, NEW t \in Threads, NEW pc, NEW C, Turns(t, pc, C)
  PROVE  Shape' /\ Turned(t, pc, C)
<1> USE DEF Turns
<1> DEFINE new == [th[t] EXCEPT !.pc = pc, !.covers = C]
<1>1. new = [f \in ThreadFields |-> IF f = "pc" THEN pc ELSE IF f = "covers" THEN C ELSE th[t][f]]
  BY DEF Shape, ThreadFields
<1>2. th' = [u \in Threads |-> IF u = t THEN new ELSE th[u]]
  <2> HIDE DEF new
  <2>1. th' = [th EXCEPT ![t] = new]
    BY DEF new
  <2> QED BY <2>1 DEF Shape
<1>3. new.pc = pc /\ new.size \in Nat /\ new.covers = C /\ new = [f \in ThreadFields |-> new[f]]
  BY <1>1 DEF ThreadFields, Shape
<1> HIDE DEF new
<1> QED BY <1>2, <1>3 DEF Shape, Turned

(* A flush begins: it covers all that was written, so all that is sealed   *)
(* and not excused.                                                        *)
LEMMA FlushSealedSegmentsKeeps ==
  ASSUME CommitInv, NEW t \in Threads, FlushSealedSegments(t) PROVE CommitInv'
<1>1. /\ UNCHANGED <<j, written, stable, excused>>
      /\ th' = [th EXCEPT ![t].pc = "flushing", ![t].covers = written \ stable]
  BY DEF FlushSealedSegments, history
<1>2. /\ Shape'
      /\ th'[t].covers = written \ stable
      /\ \A u \in Threads \ {t} : th'[u] = th[u]
  <2> DEFINE C == written \ stable
  <2>1. Turns(t, "flushing", C)
    BY <1>1 DEF CommitInv, Shape, ThreadFields, Turns
  <2> HIDE DEF C
  <2>2. Shape' /\ Turned(t, "flushing", C)
    BY <2>1, TurnsKeeps DEF CommitInv
  <2> QED BY <2>2 DEF C, Turned
<1>3. Roles(j)' /\ Segments' /\ DurableIsStable'
  BY <1>1 DEF CommitInv, Roles, Waits, Segments, DurableIsStable
<1>4. Covered'
  <2>1. ASSUME NEW u \in Threads, At(u, "flushing")', NEW s \in 0..j'.sealed
        PROVE  s \in th'[u].covers \union stable' \union excused'
    <3>1. CASE u = t
      BY <1>1, <1>2, <2>1, <3>1 DEF CommitInv, Covered
    <3>2. CASE u # t
      BY <1>1, <1>2, <2>1, <3>2 DEF CommitInv, Covered, At
    <3> QED BY <3>1, <3>2
  <2> QED BY <1>1, <2>1 DEF CommitInv, Covered
<1> QED BY <1>2, <1>3, <1>4 DEF CommitInv

(* A flush ends: what it covered is stable, and reaches up to              *)
(* m_sposSealed.                                                           *)
LEMMA FlushedKeeps ==
  ASSUME CommitInv, NEW t \in Threads, NEW ok \in BOOLEAN, Flushed(t, ok) PROVE CommitInv'
<1> DEFINE e == j.err \/ ~ok
           d == IF ok THEN j.sealed ELSE j.durable
           W == {w \in j.waitFlush : w.spos > j.durablePending}
<1>1. /\ At(t, "flushing")
      /\ j' = [j EXCEPT !.err = e, !.durable = d, !.waitFlush = W]
      /\ stable' = IF ok THEN stable \union th[t].covers ELSE stable
      /\ th' = [th EXCEPT ![t].pc = "flushed", ![t].covers = {}]
      /\ excused' = excused \ stable'
      /\ written' = written
  BY DEF Flushed
<1>2. j' = [f \in Fields |-> IF f = "err" THEN e ELSE IF f = "durable" THEN d
               ELSE IF f = "waitFlush" THEN W ELSE j[f]]
  <2> HIDE DEF e, d, W
  <2> QED BY <1>1 DEF CommitInv, Roles, Fields
<1>3. /\ j'.durable = d /\ j'.sealed = j.sealed /\ j'.append = j.append
      /\ j'.begun = j.begun /\ j'.toSeal = j.toSeal /\ j'.pending = j.pending
  <2> HIDE DEF e, d, W
  <2> QED BY <1>2 DEF Fields
<1>4. Roles(j)'
  <2> HIDE DEF e, d, W
  <2>1. /\ j'.sealer = j.sealer /\ j'.nextSealer = j.nextSealer /\ j'.waitSeal = j.waitSeal
        /\ j'.fill = j.fill /\ j'.sealPending = j.sealPending /\ j' = [f \in Fields |-> j'[f]]
    BY <1>2 DEF Fields
  <2> QED BY <2>1 DEF CommitInv, Roles, Waits
<1>5. /\ Shape'
      /\ th'[t].pc = "flushed"
      /\ \A u \in Threads \ {t} : th'[u] = th[u]
  <2>1. Turns(t, "flushed", {})
    BY <1>1 DEF CommitInv, Shape, ThreadFields, Turns
  <2>2. Shape' /\ Turned(t, "flushed", {})
    BY <2>1, TurnsKeeps DEF CommitInv
  <2> QED BY <2>2 DEF Turned
<1>6. stable' \subseteq written' /\ stable \subseteq stable'
  BY <1>1 DEF CommitInv, Covered, Shape
<1>7. d \in Nat
  BY DEF CommitInv, Segments
<1>8. Segments'
  BY <1>1, <1>3, <1>6, <1>7 DEF CommitInv, Segments
<1>9. Covered'
  <2>1. ASSUME NEW u \in Threads, At(u, "flushing")', NEW s \in 0..j'.sealed
        PROVE  s \in th'[u].covers \union stable' \union excused'
    <3>1. u # t
      BY <1>5, <2>1 DEF At
    <3> QED BY <1>1, <1>3, <1>5, <1>6, <2>1, <3>1 DEF CommitInv, Covered, At
  <2> QED BY <1>1, <1>3, <1>6, <2>1 DEF CommitInv, Covered
<1>10. DurableIsStable'
  <2>1. CASE ok
    BY <1>1, <1>3, <2>1 DEF CommitInv, Covered, DurableIsStable
  <2>2. CASE ~ok
    BY <1>1, <1>3, <2>2 DEF CommitInv, DurableIsStable
  <2> QED BY <2>1, <2>2
<1> QED BY <1>4, <1>5, <1>8, <1>9, <1>10 DEF CommitInv

(* A write completes: m_sposSealed moves over it and over what is          *)
(* excused, never over a segment still to be sealed.                       *)
LEMMA SealedKeeps ==
  ASSUME CommitInv, NEW s \in 2..MaxPos, NEW ok \in BOOLEAN, Sealed(s, ok) PROVE CommitInv'
<1> DEFINE to == IF j.toSeal = {} THEN s ELSE Min(j.toSeal) - 1
           sealed == IF to > j.sealed THEN to ELSE j.sealed
           pending == j.pending \ {s}
           b == j.begun \ {s}
           e == j.err \/ ~ok
           W == {w \in j.waitSeal : w.spos > sealed}
           a == [j EXCEPT !.pending = pending, !.begun = b, !.sealed = sealed, !.err = e, !.waitSeal = W]
<1>1. /\ s \in j.begun
      /\ j' = PrepareToReleaseNextFlusher(a)
      /\ written' = IF ok THEN written \union {s} ELSE written
      /\ excused' = excused \union {p \in pending : p <= sealed} \union Early(s, ok)
      /\ UNCHANGED <<th, stable>>
  BY DEF Sealed
<1>2. a = [f \in Fields |-> IF f = "pending" THEN pending ELSE IF f = "begun" THEN b
              ELSE IF f = "sealed" THEN sealed ELSE IF f = "err" THEN e
              ELSE IF f = "waitSeal" THEN W ELSE j[f]]
  <2> HIDE DEF pending, b, sealed, e, W
  <2> QED BY DEF CommitInv, Roles, Fields
<1>3. Roles(a)
  <2> DEFINE V == ({j.sealer, j.nextSealer} \ {Nil}) \union W
  <2>1. V \subseteq ({j.sealer, j.nextSealer} \ {Nil}) \union j.waitSeal
    <3> HIDE DEF sealed
    <3> QED OBVIOUS
  <2> HIDE DEF pending, b, sealed, e, W
  <2>2. Waits(V)
    <3> HIDE DEF V
    <3> QED BY <2>1, WaitsShrink DEF CommitInv, Roles
  <2> QED BY <1>2, <2>2 DEF CommitInv, Roles, Fields
<1>4. /\ Roles(j)'
      /\ j'.durable = j.durable /\ j'.sealed = sealed /\ j'.append = j.append
      /\ j'.begun = b /\ j'.toSeal = j.toSeal /\ j'.pending = pending
  <2> HIDE DEF pending, b, sealed, e, W
  <2>1. /\ a.durable = j.durable /\ a.sealed = sealed /\ a.append = j.append
        /\ a.begun = b /\ a.toSeal = j.toSeal /\ a.pending = pending
    BY <1>2 DEF Fields
  <2> HIDE DEF a
  <2>2. Same(a, j')
    BY <1>1, <1>3, NextFlusherKeeps
  <2>3. Roles(j')
    BY <2>2 DEF Same
  <2> QED BY <2>1, <2>2, <2>3 DEF Same, Roles, Waits
<1>5. /\ s \in j.pending /\ s \in Nat /\ s <= j.append
      /\ \A q \in j.toSeal : s < q
  BY <1>1 DEF CommitInv, Segments
(* What counts as sealed now: the write, and nothing that is to be sealed. *)
<1>6. /\ sealed \in Nat /\ j.sealed <= sealed /\ s <= sealed /\ sealed <= j.append
      /\ \A q \in j.toSeal : sealed < q
  <2>1. j.sealed \in Nat /\ j.append \in Nat /\ j.sealed <= j.append
        /\ j.toSeal \subseteq 0..j.append /\ \A q \in j.toSeal : j.sealed < q
    BY DEF CommitInv, Segments
  <2>2. CASE j.toSeal = {}
    BY <1>5, <2>1, <2>2
  <2>3. CASE j.toSeal # {}
    <3> DEFINE m == Min(j.toSeal)
    <3>1. m \in j.toSeal /\ \A y \in j.toSeal : m <= y
      <4>1. j.toSeal \subseteq Nat
        BY <2>1
      <4> QED BY <2>3, <4>1, MinExists
    <3> HIDE DEF m
    <3>2. m \in Nat /\ s < m /\ m <= j.append /\ j.sealed < m
      BY <1>5, <2>1, <3>1
    <3>3. to = m - 1
      BY <2>3 DEF m
    <3>4. to \in Nat /\ s <= to /\ to <= j.append /\ \A q \in j.toSeal : to < q
      BY <1>5, <2>1, <3>1, <3>2, <3>3
    <3> HIDE DEF to
    <3> QED BY <1>5, <2>1, <3>2, <3>4
  <2> QED BY <2>2, <2>3
<1> HIDE DEF to, sealed
<1>7. Shape'
  BY <1>1 DEF CommitInv, Shape
(* A segment passed over is excused; the write itself is, too, if it       *)
(* failed or a flush is under way.                                         *)
<1>8. ASSUME NEW q \in 0..sealed, q \notin excused' PROVE q \in written \/ (q = s /\ q \in written')
  <2>1. q \in 0..j.append /\ q \notin j.toSeal
    BY <1>6 DEF CommitInv, Segments
  <2>2. q \notin excused /\ (q \in pending => ~(q <= sealed))
    BY <1>1, <1>8
  <2>3. q \in j.pending \union written
    BY <2>1, <2>2 DEF CommitInv, Segments
  <2>4. CASE q = s
    BY <1>1, <1>8, <2>4 DEF Early
  <2>5. CASE q # s
    BY <1>6, <2>2, <2>3, <2>5
  <2> QED BY <2>4, <2>5
<1>9. Segments'
  <2>1. ASSUME NEW q \in 0..j.append
        PROVE  q \in j.toSeal \union pending \union written' \union excused'
    <3>1. CASE q <= sealed
      BY <1>1, <1>6, <1>8, <3>1
    <3>2. CASE ~(q <= sealed)
      <4>1. q # s
        BY <1>6, <3>2
      <4> QED BY <1>1, <2>1, <4>1 DEF CommitInv, Segments
    <3> QED BY <3>1, <3>2
  <2>2. b \subseteq pending /\ pending \subseteq j.pending
    BY DEF CommitInv, Segments
  <2> HIDE DEF b, pending
  <2> QED BY <1>4, <1>6, <2>1, <2>2 DEF CommitInv, Segments
<1>10. Covered'
  <2>1. written' \subseteq 0..sealed /\ stable' \subseteq written'
    BY <1>1, <1>5, <1>6 DEF CommitInv, Covered, Segments
  <2>2. \A q \in 0..sealed : q \in written' \union excused'
    BY <1>1, <1>8
  <2>3. ASSUME NEW u \in Threads, At(u, "flushing"), NEW q \in 0..sealed, q \notin excused'
        PROVE  q \in th[u].covers \union stable
    <3>1. s \in excused' /\ q \notin excused
      BY <1>1, <2>3 DEF Early
    <3>2. q \in written
      BY <1>8, <2>3, <3>1
    <3>3. q \in 0..j.sealed
      BY <3>2 DEF CommitInv, Covered
    <3> QED BY <2>3, <3>1, <3>3 DEF CommitInv, Covered
  <2> QED BY <1>1, <1>4, <2>1, <2>2, <2>3 DEF Covered, At
<1>11. DurableIsStable'
  BY <1>1, <1>4 DEF CommitInv, DurableIsStable
<1> QED BY <1>4, <1>7, <1>9, <1>10, <1>11 DEF CommitInv
-----------------------------------------------------------------------------
(* The invariant holds after ErrInit.                                      *)
LEMMA InitHolds == Init => CommitInv
<1> SUFFICES ASSUME Init PROVE CommitInv
  OBVIOUS
<1>1. PICK d \in {0, 1} : j = [err |-> FALSE, durable |-> d, sealed |-> 1, append |-> 1, fill |-> 0,
               toSeal |-> {}, pending |-> {}, begun |-> {},
               appender |-> Nil, appendQ |-> <<>>,
               sealer |-> Nil, nextSealer |-> Nil, sealPending |-> sposInvalid,
               flusher |-> Nil, nextFlusher |-> Nil, durablePending |-> sposInvalid,
               waitSeal |-> {}, waitFlush |-> {}]
  BY DEF Init
<1>2. Roles(j)
  <2>1. j = [f \in Fields |-> j[f]]
    BY <1>1 DEF Fields
  <2>2. j.fill \in Int /\ j.sealPending \in Int
    BY <1>1, CommitAssumption DEF sposInvalid
  <2>3. ({j.sealer, j.nextSealer} \ {Nil}) \union j.waitSeal = {}
    BY <1>1
  <2>4. Waits({})
    BY DEF Waits
  <2> QED BY <2>1, <2>2, <2>3, <2>4 DEF Roles
<1>3. /\ j.durable \in {0, 1} /\ j.sealed = 1 /\ j.append = 1
      /\ j.toSeal = {} /\ j.pending = {} /\ j.begun = {}
  BY <1>1
<1>4. written = {0, 1} /\ stable = {0, 1} /\ excused = {}
  BY DEF Init
<1>5. th = [t \in Threads |-> [pc |-> "idle", size |-> 0, cur |-> sposInvalid, covers |-> {}]]
  BY DEF Init
<1>6. Segments
  BY <1>3, <1>4, CommitAssumption DEF Segments
<1>7. Shape
  BY <1>5 DEF Shape, ThreadFields
<1>8. Covered
  BY <1>3, <1>4, <1>5 DEF Covered, At
<1>9. DurableIsStable
  BY <1>3, <1>4 DEF DurableIsStable
<1> QED BY <1>2, <1>6, <1>7, <1>8, <1>9 DEF CommitInv

(* Every step keeps it.                                                    *)
LEMMA NextKeeps == CommitInv /\ [Next]_vars => CommitInv'
<1> SUFFICES ASSUME CommitInv, [Next]_vars PROVE CommitInv'
  OBVIOUS
<1>1. ASSUME NEW t \in Threads, ErrFlush(t) PROVE CommitInv'
  BY <1>1, ErrFlushKeeps
<1>2. ASSUME NEW t \in Threads, NEW size \in Sizes, ErrAppendEntry(t, size) PROVE CommitInv'
  BY <1>2, ErrAppendEntryKeeps
<1>3. ASSUME NEW t \in Threads, Inner(t) PROVE CommitInv'
  <2>1. CASE AppendersTurn(t)
    BY <2>1, AppendersTurnKeeps
  <2>2. CASE SealSegments(t)
    BY <2>2, SealSegmentsKeeps
  <2>3. CASE ErrBeginSeal(t)
    BY <2>3, ErrBeginSealKeeps
  <2>4. CASE ReleaseSealer(t)
    BY <2>4, ReleaseSealerKeeps
  <2>5. CASE SealWaited(t)
    BY <2>5, SealWaitedKeeps
  <2>6. CASE FlushSealedSegments(t)
    BY <2>6, FlushSealedSegmentsKeeps
  <2>7. CASE \E ok \in BOOLEAN : Flushed(t, ok)
    BY <2>7, FlushedKeeps
  <2>8. CASE ReleaseFlusher(t)
    BY <2>8, ReleaseFlusherKeeps
  <2>9. CASE FlushWaited(t)
    BY <2>9, FlushWaitedKeeps
  <2> QED BY <1>3, <2>1, <2>2, <2>3, <2>4, <2>5, <2>6, <2>7, <2>8, <2>9 DEF Inner
<1>4. ASSUME NEW s \in 2..MaxPos, NEW ok \in BOOLEAN, Sealed(s, ok) PROVE CommitInv'
  BY <1>4, SealedKeeps
<1>5. CASE UNCHANGED vars
  BY <1>5 DEF vars, CommitInv, Roles, Waits, Segments, Shape, Covered, DurableIsStable, At
<1> QED BY <1>1, <1>2, <1>3, <1>4, <1>5 DEF Next

(* The invariant that the argument rests on: every segment up to           *)
(* m_sposSealed was written or is excused, every write that completed is   *)
(* at or below m_sposSealed, and a flush under way covers all that         *)
(* m_sposSealed will say when it ends.                                     *)
THEOREM CommitInvariant == Spec => []CommitInv
<1> QED BY InitHolds, NextKeeps, PTL DEF Spec

(* What the journal takes for durable is on the medium, whatever the       *)
(* threads, the sizes of entries and segments, the cache and the number of *)
(* calls, and whichever writes and flushes fail.                           *)
THEOREM DurableIsOnDisk == Spec => []DurableIsStable
<1>1. CommitInv => DurableIsStable
  BY DEF CommitInv
<1> QED BY <1>1, CommitInvariant, PTL
====
