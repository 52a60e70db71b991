---------------------------- MODULE InitTermLock ----------------------------
(***************************************************************************)
(* CInitTermLock (sync.hxx): the first consumer of a component initialises *)
(* it, the last one terminates it, and whoever comes in between only       *)
(* counts itself.  The control word holds a reference count and the two    *)
(* flags "in progress"; consumers that find a flag sleep and look again.   *)
(*                                                                         *)
(* The statistics are kept as balances: inits less terms.  The destructor  *)
(* enforces that both are 0.                                               *)
(***************************************************************************)
EXTENDS Integers, FiniteSets

CONSTANT Threads

ASSUME FiniteThreads == IsFiniteSet(Threads)

VARIABLES refs,      \* the reference count of m_cwState
          flag,      \* which of its flags is set
          actual,    \* m_cActualInits - m_cActualTerms
          shared,    \* m_cRefCountInits - m_cRefCountTerms
          pc         \* what every thread is doing

vars == <<refs, flag, actual, shared, pc>>

Flags == {"none", "init", "term"}
Pcs == {"out", "initing", "inited", "counting", "in", "terming", "termed", "uncounting"}

TypeOK ==
    /\ refs \in Nat
    /\ flag \in Flags
    /\ actual \in Int
    /\ shared \in Int
    /\ pc \in [Threads -> Pcs]

Init ==
    /\ refs = 0
    /\ flag = "none"
    /\ actual = 0
    /\ shared = 0
    /\ pc = [t \in Threads |-> "out"]

Goes(t, from, to) == pc[t] = from /\ pc' = [pc EXCEPT ![t] = to]
-----------------------------------------------------------------------------
(* Mutant: the flags are not looked at. *)
ErrInitBeginAny(t) ==
    /\ Goes(t, "out", IF refs = 0 THEN "initing" ELSE "counting")
    /\ flag' = IF refs = 0 THEN "init" ELSE flag
    /\ refs' = refs + 1
    /\ UNCHANGED <<actual, shared>>

(* ErrInitBegin reads the word, sleeps while a flag is set, and exchanges  *)
(* it: errInitBegun for the first one, errSuccess for the others.          *)
ErrInitBegin(t) ==
    /\ flag = "none"
    /\ Goes(t, "out", IF refs = 0 THEN "initing" ELSE "counting")
    /\ flag' = IF refs = 0 THEN "init" ELSE flag
    /\ refs' = refs + 1
    /\ UNCHANGED <<actual, shared>>

(* AtomicIncrement( &m_cRefCountInits ), after the exchange.               *)
CountInit(t) ==
    /\ Goes(t, "counting", "in")
    /\ shared' = shared + 1
    /\ UNCHANGED <<refs, flag, actual>>

(* InitFinish( fSuccessfulInit ) counts, then resets the flag.             *)
InitFinish(t) ==
    /\ Goes(t, "initing", "inited")
    /\ actual' = actual + 1
    /\ UNCHANGED <<refs, flag, shared>>

InitFinished(t) ==
    /\ Goes(t, "inited", "in")
    /\ flag' = "none"
    /\ UNCHANGED <<refs, actual, shared>>

(* Mutant: a failed initialisation counts as one. *)
InitFailsCounted(t) ==
    /\ Goes(t, "initing", "out")
    /\ refs' = 0
    /\ flag' = "none"
    /\ actual' = actual + 1
    /\ UNCHANGED shared

(* InitFinish( fFailedInit ) puts the word back to 0.                      *)
InitFails(t) ==
    /\ Goes(t, "initing", "out")
    /\ refs' = 0
    /\ flag' = "none"
    /\ UNCHANGED <<actual, shared>>

(* Mutant: the last consumer keeps its reference. *)
ErrTermBeginKeepsRef(t) ==
    /\ flag = "none"
    /\ Goes(t, "in", IF refs = 1 THEN "terming" ELSE "uncounting")
    /\ flag' = IF refs = 1 THEN "term" ELSE flag
    /\ refs' = IF refs = 1 THEN refs ELSE refs - 1
    /\ UNCHANGED <<actual, shared>>

(* ErrTermBegin: the last consumer gives its reference up as it raises the *)
(* flag.                                                                   *)
ErrTermBegin(t) ==
    /\ flag = "none"
    /\ Goes(t, "in", IF refs = 1 THEN "terming" ELSE "uncounting")
    /\ flag' = IF refs = 1 THEN "term" ELSE flag
    /\ refs' = refs - 1
    /\ UNCHANGED <<actual, shared>>

CountTerm(t) ==
    /\ Goes(t, "uncounting", "out")
    /\ shared' = shared - 1
    /\ UNCHANGED <<refs, flag, actual>>

TermFinish(t) ==
    /\ Goes(t, "terming", "termed")
    /\ actual' = actual - 1
    /\ UNCHANGED <<refs, flag, shared>>

TermFinished(t) ==
    /\ Goes(t, "termed", "out")
    /\ flag' = "none"
    /\ UNCHANGED <<refs, actual, shared>>

Step(t) ==
    \/ ErrInitBegin(t) \/ CountInit(t) \/ InitFinish(t) \/ InitFinished(t) \/ InitFails(t)
    \/ ErrTermBegin(t) \/ CountTerm(t) \/ TermFinish(t) \/ TermFinished(t)

Next == \E t \in Threads : Step(t)

Spec == Init /\ [][Next]_vars
-----------------------------------------------------------------------------
Working == {t \in Threads : pc[t] \in {"initing", "inited", "terming", "termed"}}
Consumers == {t \in Threads : pc[t] \in {"counting", "in"}}

(* One thread at a time initialises or terminates, and nobody uses the     *)
(* component meanwhile, so ErrTermBegin never meets a flag ("Can this      *)
(* happen?  I don't think so" says its assertion).                         *)
OneAtWork ==
    /\ \A t, u \in Working : t = u
    /\ Working # {} => Consumers = {}
    /\ Working = {} => flag = "none"

(* Who has been let in is counted: nobody terminates what another thread   *)
(* is still using.                                                         *)
RefsExact == flag = "none" => refs = Cardinality(Consumers)

(* What the destructor enforces once the last consumer has gone.           *)
BalancedAtTheEnd == (\A t \in Threads : pc[t] = "out") => refs = 0 /\ actual = 0 /\ shared = 0
-----------------------------------------------------------------------------
(* The inductive strengthening: which thread a flag stands for, and how    *)
(* far the statistics lag behind the word.                                 *)
In(S) == {t \in Threads : pc[t] \in S}

FlagOwned ==
    /\ flag = "init" <=> In({"initing", "inited"}) # {}
    /\ flag = "term" <=> In({"terming", "termed"}) # {}

Accounts ==
    /\ refs = Cardinality(In({"initing", "inited", "counting", "in"}))
    /\ flag = "init" => refs = 1
    /\ flag = "term" => refs = 0
    /\ actual = Cardinality(In({"inited", "terming"})) + (IF flag = "none" /\ refs > 0 THEN 1 ELSE 0)
    /\ shared = (IF refs > 0 THEN refs - 1 ELSE 0)
                - Cardinality(In({"counting"})) + Cardinality(In({"uncounting"}))

IInv == TypeOK /\ OneAtWork /\ FlagOwned /\ Accounts
=============================================================================
