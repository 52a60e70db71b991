------------------------------ MODULE GroupLock ------------------------------
(***************************************************************************)
(* CReaderWriterLock and CBinaryLock (sync.hxx, sync.cxx): two groups that *)
(* exclude one another.  Group 1 of the reader-writer lock are its writers *)
(* and its members exclude each other too.                                 *)
(*                                                                         *)
(* The control word counts, for each group, owners or waiters (c) and says *)
(* whether the group is quiesced (q): newcomers of a quiesced group wait.  *)
(* When a group is quiesced its owners leave the word and are counted in   *)
(* cOwner; the one that brings cOwner to 0 opens the lock for the other    *)
(* group.  Every exchange on the word, every addition to cOwner and every  *)
(* release of a semaphore is a step of its own.                            *)
(***************************************************************************)
EXTENDS Integers, FiniteSets

CONSTANTS Threads, Locks      \* Locks \subseteq {"rw", "binary"}

VARIABLES lock,      \* which of the two locks this is
          w,         \* the control word [c1, q1, c2, q2]
          cOwner,    \* m_cOwner, owners of the quiesced group
          sem,       \* permits of the two semaphores
          th         \* what every thread is doing

vars == <<lock, w, cOwner, sem, th>>

(* g: the group the thread is, or wants to be, in.  side: the group whose  *)
(* quiesced owners it is counting.  n: how much it still has to add or to  *)
(* release.  then: where it goes after that.                               *)
Out == [pc |-> "out", g |-> 0, side |-> 0, n |-> 0, then |-> "out"]

TypeOK ==
    /\ lock \in Locks
    /\ w \in [c1 : Nat, q1 : BOOLEAN, c2 : Nat, q2 : BOOLEAN]
    /\ cOwner \in Int
    /\ sem \in [{1, 2} -> Nat]
    /\ th \in [Threads -> [pc : {"out", "in", "count", "open", "recount", "wake", "acquire", "asleep"},
                           g : 0 .. 2, side : 0 .. 2, n : Int,
                           then : {"out", "acquire"}]]

Init ==
    /\ lock \in Locks
    /\ w = [c1 |-> 0, q1 |-> FALSE, c2 |-> 0, q2 |-> FALSE]
    /\ cOwner = 0
    /\ sem = [g \in {1, 2} |-> 0]
    /\ th = [t \in Threads |-> Out]
-----------------------------------------------------------------------------
(* Where a thread goes after its exchange.                                 *)

Inside(g) == [Out EXCEPT !.pc = "in", !.g = g]
Acquires(g) == [Out EXCEPT !.pc = "acquire", !.g = g]
(* ... by way of _UpdateQuiescedOwnerCountAs<side>( n ).                   *)
Counts(g, side, n, then) == [pc |-> "count", g |-> g, side |-> side, n |-> n, then |-> then]

(* Enter1 and EnterAsWriter quiesce group 2: its owners leave the word,    *)
(* its waiters (it was quiesced already) stay.                             *)
Quiesce2(x) == [x EXCEPT !.c1 = @ + 1, !.q2 = TRUE, !.c2 = IF x.q2 THEN @ ELSE 0]

(* Mutant: a writer does not see that it is quiesced. *)
EnterAsWriterUnseen(t) ==
    /\ lock = "rw" /\ th[t].pc = "out"
    /\ w' = Quiesce2(w)
    /\ th' = [th EXCEPT ![t] = IF w.c1 = 0 THEN Inside(1) ELSE Acquires(1)]
    /\ UNCHANGED <<lock, cOwner, sem>>

EnterAsWriter(t) ==
    /\ lock = "rw" /\ th[t].pc = "out"
    /\ w' = Quiesce2(w)
    /\ th' = [th EXCEPT ![t] = CASE w.c1 = 0 /\ ~w.q1 -> Inside(1)
                                 [] w.q1 /\ ~w.q2 -> Counts(1, 2, w.c2, "acquire")
                                 [] OTHER -> Acquires(1)]
    /\ UNCHANGED <<lock, cOwner, sem>>

Enter1(t) ==
    /\ lock = "binary" /\ th[t].pc = "out"
    /\ w' = Quiesce2(w)
    /\ th' = [th EXCEPT ![t] = CASE ~w.q1 -> Inside(1)
                                 [] w.q1 /\ ~w.q2 -> Counts(1, 2, w.c2, "acquire")
                                 [] OTHER -> Acquires(1)]
    /\ UNCHANGED <<lock, cOwner, sem>>

(* Mutant: a reader joins readers that a writer waits for. *)
EnterAsReaderJoins(t) ==
    /\ lock = "rw" /\ th[t].pc = "out"
    /\ IF w.q1 /\ w.q2 /\ w.c2 = 0 /\ cOwner > 0
       THEN /\ cOwner' = cOwner + 1
            /\ th' = [th EXCEPT ![t] = Inside(2)]
            /\ UNCHANGED w
       ELSE /\ w' = [w EXCEPT !.c2 = @ + 1, !.q1 = TRUE, !.c1 = IF w.q2 /\ ~w.q1 THEN @ - 1 ELSE @]
            /\ th' = [th EXCEPT ![t] = CASE ~w.q2 -> Inside(2)
                                         [] w.q2 /\ ~w.q1 -> Counts(2, 1, 1, "acquire")
                                         [] OTHER -> Acquires(2)]
            /\ UNCHANGED cOwner
    /\ UNCHANGED <<lock, sem>>

(* A reader that comes while writers own quiesces them; the one writer     *)
(* that owns leaves the word, the writers that wait stay.                  *)
EnterAsReader(t) ==
    /\ lock = "rw" /\ th[t].pc = "out"
    /\ w' = [w EXCEPT !.c2 = @ + 1, !.q1 = TRUE, !.c1 = IF w.q2 /\ ~w.q1 THEN @ - 1 ELSE @]
    /\ th' = [th EXCEPT ![t] = CASE ~w.q2 -> Inside(2)
                                 [] w.q2 /\ ~w.q1 -> Counts(2, 1, 1, "acquire")
                                 [] OTHER -> Acquires(2)]
    /\ UNCHANGED <<lock, cOwner, sem>>

Enter2(t) ==
    /\ lock = "binary" /\ th[t].pc = "out"
    /\ w' = [w EXCEPT !.c2 = @ + 1, !.q1 = TRUE, !.c1 = IF w.q1 THEN @ ELSE 0]
    /\ th' = [th EXCEPT ![t] = CASE ~w.q2 -> Inside(2)
                                 [] w.q2 /\ ~w.q1 -> Counts(2, 1, w.c1, "acquire")
                                 [] OTHER -> Acquires(2)]
    /\ UNCHANGED <<lock, cOwner, sem>>

(* The FTryEnter functions enter only where the others would not wait.     *)
FTryEnterAsWriter(t) ==
    /\ lock = "rw" /\ th[t].pc = "out"
    /\ ~w.q1 /\ w.c1 = 0
    /\ w' = Quiesce2(w)
    /\ th' = [th EXCEPT ![t] = Inside(1)]
    /\ UNCHANGED <<lock, cOwner, sem>>

FTryEnter1(t) ==
    /\ lock = "binary" /\ th[t].pc = "out"
    /\ ~w.q1
    /\ w' = Quiesce2(w)
    /\ th' = [th EXCEPT ![t] = Inside(1)]
    /\ UNCHANGED <<lock, cOwner, sem>>

FTryEnterAsReader(t) ==
    /\ lock = "rw" /\ th[t].pc = "out"
    /\ ~w.q2
    /\ w' = [w EXCEPT !.c2 = @ + 1, !.q1 = TRUE]
    /\ th' = [th EXCEPT ![t] = Inside(2)]
    /\ UNCHANGED <<lock, cOwner, sem>>

FTryEnter2(t) ==
    /\ lock = "binary" /\ th[t].pc = "out"
    /\ ~w.q2
    /\ w' = [w EXCEPT !.c2 = @ + 1, !.q1 = TRUE, !.c1 = IF w.q1 THEN @ ELSE 0]
    /\ th' = [th EXCEPT ![t] = Inside(2)]
    /\ UNCHANGED <<lock, cOwner, sem>>
-----------------------------------------------------------------------------
LastOut1(x) == [x EXCEPT !.c1 = @ - 1, !.q2 = (x.c1 > 1)]

LeaveAsWriter(t) ==
    /\ lock = "rw" /\ th[t].pc = "in" /\ th[t].g = 1
    /\ IF w.q1
       THEN /\ th' = [th EXCEPT ![t] = Counts(1, 1, -1, "out")]
            /\ UNCHANGED w
       ELSE /\ w' = LastOut1(w)
            /\ th' = [th EXCEPT ![t] = IF w.c1 > 1 THEN [Out EXCEPT !.pc = "wake", !.side = 2, !.n = 1]
                                                   ELSE Out]
    /\ UNCHANGED <<lock, cOwner, sem>>

Leave1(t) ==
    /\ lock = "binary" /\ th[t].pc = "in" /\ th[t].g = 1
    /\ IF w.q1
       THEN /\ th' = [th EXCEPT ![t] = Counts(1, 1, -1, "out")]
            /\ UNCHANGED w
       ELSE /\ w' = LastOut1(w)
            /\ th' = [th EXCEPT ![t] = Out]
    /\ UNCHANGED <<lock, cOwner, sem>>

(* Leaving group 2 is the same for both locks.                             *)
LeaveGroup2(t) ==
    /\ th[t].pc = "in" /\ th[t].g = 2
    /\ IF w.q2
       THEN /\ th' = [th EXCEPT ![t] = Counts(2, 2, -1, "out")]
            /\ UNCHANGED w
       ELSE /\ w' = [w EXCEPT !.c2 = @ - 1, !.q1 = (w.c2 > 1)]
            /\ th' = [th EXCEPT ![t] = Out]
    /\ UNCHANGED <<lock, cOwner, sem>>

LeaveAsReader(t) == lock = "rw" /\ LeaveGroup2(t)
Leave2(t) == lock = "binary" /\ LeaveGroup2(t)
-----------------------------------------------------------------------------
(* _UpdateQuiescedOwnerCountAsWriter, AsReader, AsGroup1 and AsGroup2.     *)

Resume(t) == IF th[t].then = "acquire" THEN Acquires(th[t].g) ELSE Out

CountOwners(t) ==
    /\ th[t].pc = "count"
    /\ cOwner' = cOwner + th[t].n
    /\ th' = [th EXCEPT ![t] = IF cOwner + th[t].n = 0
                               THEN [@ EXCEPT !.pc = "open", !.n = 0] ELSE Resume(t)]
    /\ UNCHANGED <<lock, w, sem>>

(* Mutant: the group let in is not quiesced for those who wait already. *)
OpenTo2Wide(t) ==
    /\ th[t].pc = "open" /\ th[t].side = 1
    /\ w' = [w EXCEPT !.q2 = FALSE]
    /\ th' = [th EXCEPT ![t].pc = "wake", ![t].n = w.c2]
    /\ UNCHANGED <<lock, cOwner, sem>>

(* The last owner of a quiesced group lets the other group in: all of it,  *)
(* or the first writer.  If members of its own group wait already, the     *)
(* group let in is quiesced at once and counted in cOwner.                 *)
OpenTo2(t) ==
    /\ th[t].pc = "open" /\ th[t].side = 1
    /\ w' = IF w.c1 = 0 THEN [w EXCEPT !.q2 = FALSE] ELSE [w EXCEPT !.c2 = 0]
    /\ th' = [th EXCEPT ![t].pc = IF w.c1 = 0 THEN "wake" ELSE "recount", ![t].n = w.c2]
    /\ UNCHANGED <<lock, cOwner, sem>>

OpenToWriter(t) ==
    /\ lock = "rw" /\ th[t].pc = "open" /\ th[t].side = 2
    /\ w' = IF w.c2 = 0 THEN [w EXCEPT !.q1 = FALSE] ELSE [w EXCEPT !.c1 = @ - 1]
    /\ th' = [th EXCEPT ![t].pc = IF w.c2 = 0 THEN "wake" ELSE "recount", ![t].n = 1]
    /\ UNCHANGED <<lock, cOwner, sem>>

OpenTo1(t) ==
    /\ lock = "binary" /\ th[t].pc = "open" /\ th[t].side = 2
    /\ w' = IF w.c2 = 0 THEN [w EXCEPT !.q1 = FALSE] ELSE [w EXCEPT !.c1 = 0]
    /\ th' = [th EXCEPT ![t].pc = IF w.c2 = 0 THEN "wake" ELSE "recount", ![t].n = w.c1]
    /\ UNCHANGED <<lock, cOwner, sem>>

Recount(t) ==
    /\ th[t].pc = "recount"
    /\ cOwner' = cOwner + th[t].n
    /\ th' = [th EXCEPT ![t].pc = "wake"]
    /\ UNCHANGED <<lock, w, sem>>

(* CSemaphore::Release on the semaphore of the group that is let in.       *)
WakeGroup(t) ==
    /\ th[t].pc = "wake"
    /\ sem' = [sem EXCEPT ![3 - th[t].side] = @ + th[t].n]
    /\ th' = [th EXCEPT ![t] = Resume(t)]
    /\ UNCHANGED <<lock, w, cOwner>>
-----------------------------------------------------------------------------
(* CSemaphore::Acquire, as HandOff promises it: a permit owed to a sleeper *)
(* is not for a newcomer.                                                  *)
Asleep(g) == {t \in Threads : th[t].pc = "asleep" /\ th[t].g = g}

AcquireSemaphore(t) ==
    LET g == th[t].g IN
    /\ th[t].pc = "acquire"
    /\ IF sem[g] > Cardinality(Asleep(g))
       THEN /\ sem' = [sem EXCEPT ![g] = @ - 1]
            /\ th' = [th EXCEPT ![t] = Inside(g)]
       ELSE /\ th' = [th EXCEPT ![t].pc = "asleep"]
            /\ UNCHANGED sem
    /\ UNCHANGED <<lock, w, cOwner>>

AwakeInside(t) ==
    LET g == th[t].g IN
    /\ th[t].pc = "asleep"
    /\ sem[g] > 0
    /\ sem' = [sem EXCEPT ![g] = @ - 1]
    /\ th' = [th EXCEPT ![t] = Inside(g)]
    /\ UNCHANGED <<lock, w, cOwner>>
-----------------------------------------------------------------------------
Enter(t) == EnterAsWriter(t) \/ Enter1(t) \/ EnterAsReader(t) \/ Enter2(t)
            \/ FTryEnterAsWriter(t) \/ FTryEnter1(t)
            \/ FTryEnterAsReader(t) \/ FTryEnter2(t)
Leave(t) == LeaveAsWriter(t) \/ Leave1(t) \/ LeaveAsReader(t) \/ Leave2(t)
Inner(t) == CountOwners(t) \/ OpenTo2(t) \/ OpenToWriter(t) \/ OpenTo1(t)
            \/ Recount(t) \/ WakeGroup(t) \/ AcquireSemaphore(t)

Next == \E t \in Threads : Enter(t) \/ Leave(t) \/ Inner(t) \/ AwakeInside(t)

(* Threads go on once inside a call and owners leave in the end; the       *)
(* kernel passes no sleeper over for ever.                                 *)
Fairness == \A t \in Threads : WF_vars(Leave(t) \/ Inner(t)) /\ SF_vars(AwakeInside(t))
Spec == Init /\ [][Next]_vars /\ Fairness
-----------------------------------------------------------------------------
Owners(g) == {t \in Threads : th[t].pc = "in" /\ th[t].g = g}

(* The two groups are never inside together, and there is one writer.      *)
Exclusion ==
    /\ Owners(1) = {} \/ Owners(2) = {}
    /\ lock = "rw" => Cardinality(Owners(1)) <= 1

(* Whoever asks to enter does get in, in spite of others that keep coming. *)
NobodyStarves ==
    \A t \in Threads : "acquire" \in {th[t].pc, th[t].then} ~> th[t].pc = "in"

(* The tables the code asserts every exchange on the word against.         *)
StateFromControlWord(x) ==
    LET index == (IF x.q2 THEN 8 ELSE 0) + (IF x.c2 > 0 THEN 4 ELSE 0)
                 + (IF x.q1 THEN 2 ELSE 0) + (IF x.c1 > 0 THEN 1 ELSE 0)
        states == [i \in {0, 6, 9, 11, 14, 15} |->
                     CASE i = 0 -> 0 [] i = 6 -> 1 [] i = 9 -> 2
                       [] i = 11 -> 3 [] i = 14 -> 4 [] i = 15 -> 5]
    IN  IF index \in DOMAIN states THEN states[index] ELSE -1

E1 == "enter1"
L1 == "leave1"
E2 == "enter2"
L2 == "leave2"

RwTransitions ==
    << << {}, {E2}, {E1}, {}, {}, {} >>,
       << {L2}, {E2, L2}, {}, {E1}, {}, {} >>,
       << {L1}, {}, {E1, L1}, {}, {E2}, {E2} >>,
       << {}, {}, {L2}, {E1, L2}, {}, {E2} >>,
       << {}, {L1}, {}, {}, {E2}, {E1} >>,
       << {}, {}, {}, {L1}, {L2}, {E1, E2, L2} >> >>

BinaryTransitions ==
    << << {}, {E2}, {E1}, {}, {}, {} >>,
       << {L2}, {E2, L2}, {}, {E1}, {}, {} >>,
       << {L1}, {}, {E1, L1}, {}, {E2}, {} >>,
       << {}, {}, {L2}, {E1, L2}, {}, {E2} >>,
       << {}, {L1}, {}, {}, {L1, E2}, {E1} >>,
       << {}, {}, {}, {L1}, {L2}, {E1, L1, E2, L2} >> >>

FValidStateTransition(a, b, tr) ==
    /\ StateFromControlWord(a) >= 0 /\ StateFromControlWord(b) >= 0
    /\ b.c2 - a.c2 \in -1 .. 1 \/ b.c2 = 0
    /\ b.c1 - a.c1 \in -1 .. 1 \/ (lock = "binary" /\ b.c1 = 0)
    /\ tr \in (IF lock = "rw" THEN RwTransitions ELSE BinaryTransitions)
                  [StateFromControlWord(a) + 1][StateFromControlWord(b) + 1]

Reason(t) ==
    CASE th[t].pc = "out"  -> IF th'[t].g = 1 THEN E1 ELSE E2
      [] th[t].pc = "in"   -> IF th[t].g = 1 THEN L1 ELSE L2
      [] th[t].pc = "open" -> IF th[t].side = 1 THEN L1 ELSE L2

(* Every change of the control word is one the asserted table allows.      *)
TransitionsValid ==
    [][w' # w => \E t \in Threads : th'[t] # th[t] /\ FValidStateTransition(w, w', Reason(t))]_vars
=============================================================================
