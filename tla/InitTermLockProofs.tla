------------------------- MODULE InitTermLockProofs -------------------------
(***************************************************************************)
(* CInitTermLock for any number of threads.                                *)
(***************************************************************************)
EXTENDS InitTermLock, FiniteSetTheorems, TLAPS

Count(S) == Cardinality(In(S))

(* The sets of thread states that the invariant counts.                    *)
Referring == {"initing", "inited", "counting", "in"}
Acting    == {"inited", "terming"}

(* The number of threads in a set of states is a natural number.           *)
LEMMA CountType ==
    ASSUME NEW S
    PROVE  IsFiniteSet(In(S)) /\ Count(S) \in Nat /\ (Count(S) = 0 <=> In(S) = {})
<1>1. In(S) \subseteq Threads
  BY DEF In
<1>2. IsFiniteSet(In(S))
  BY <1>1, FiniteThreads, FS_Subset
<1> QED
  BY <1>2, FS_CardinalityType, FS_EmptySet DEF Count

(* A step of one thread within a set of states, or outside it, leaves the  *)
(* number of threads there; one that enters adds one, one that leaves      *)
(* takes one.                                                              *)
LEMMA CountStays ==
    ASSUME NEW CONSTANT S, TypeOK, NEW t \in Threads, NEW from, NEW to, Goes(t, from, to),
           from \in S <=> to \in S
    PROVE  In(S)' = In(S) /\ Count(S)' = Count(S)
<1>1. In(S)' = In(S)
  BY DEF In, Goes, TypeOK
<1> QED
  BY <1>1 DEF Count

(* The thread enters the set.                                              *)
LEMMA CountGrows ==
    ASSUME NEW CONSTANT S, TypeOK, NEW t \in Threads, NEW from, NEW to, Goes(t, from, to),
           from \notin S, to \in S
    PROVE  In(S)' = In(S) \cup {t} /\ Count(S)' = Count(S) + 1
<1>1. In(S)' = In(S) \cup {t} /\ t \notin In(S)
  BY DEF In, Goes, TypeOK
<1> QED
  BY <1>1, CountType, FS_AddElement DEF Count

(* The thread leaves the set.                                              *)
LEMMA CountShrinks ==
    ASSUME NEW CONSTANT S, TypeOK, NEW t \in Threads, NEW from, NEW to, Goes(t, from, to),
           from \in S, to \notin S
    PROVE  In(S)' = In(S) \ {t} /\ Count(S)' = Count(S) - 1
<1>1. In(S)' = In(S) \ {t} /\ t \in In(S)
  BY DEF In, Goes, TypeOK
<1> QED
  BY <1>1, CountType, FS_RemoveElement DEF Count

(* Where the threads are in the states that matter.                        *)
Initing == {"initing", "inited"}
Terming == {"terming", "termed"}
Using   == {"counting", "in"}

Places ==
    /\ Working = In(Initing) \cup In(Terming)
    /\ Consumers = In(Using)
    /\ In(Referring) = In(Initing) \cup In(Using)

(* The sets of states relate as written above.                             *)
LEMMA PlacesHold == Places
BY DEF Places, Working, Consumers, In, Initing, Terming, Using, Referring

(* Init establishes the invariant.                                         *)
LEMMA InvInit == Init => IInv
<1> SUFFICES ASSUME Init PROVE IInv
  OBVIOUS
<1>1. TypeOK
  BY DEF Init, TypeOK, Flags, Pcs
<1>2. \A S \in SUBSET (Pcs \ {"out"}) : In(S) = {}
  BY DEF Init, In, Pcs
<1>3. /\ In(Initing) = {} /\ In(Terming) = {} /\ In(Using) = {} /\ In(Referring) = {}
      /\ In(Acting) = {} /\ In({"counting"}) = {} /\ In({"uncounting"}) = {}
  BY <1>2 DEF Initing, Terming, Using, Referring, Acting, Pcs
<1>4. OneAtWork /\ FlagOwned
  BY <1>3, PlacesHold DEF Places, Init, OneAtWork, FlagOwned, Initing, Terming
<1>5. Accounts
  BY <1>3, FS_EmptySet DEF Init, Accounts, Referring, Acting
<1> QED
  BY <1>1, <1>4, <1>5 DEF IInv

(* What the invariant says, place by place and in counts.                  *)
Quarters ==
    /\ flag = "init" <=> In(Initing) # {}
    /\ flag = "term" <=> In(Terming) # {}
    /\ \A t, u \in In(Initing) \cup In(Terming) : t = u
    /\ flag # "none" => In(Using) = {}

cReferring  == Count(Referring)
cActing     == Count(Acting)
cCounting   == Count({"counting"})
cUncounting == Count({"uncounting"})

(* The initialisation that stands, and the consumers besides the first.    *)
standing == IF flag = "none" /\ refs > 0 THEN 1 ELSE 0
others   == IF refs > 0 THEN refs - 1 ELSE 0

Sums ==
    /\ refs = cReferring
    /\ flag = "init" => refs = 1
    /\ flag = "term" => refs = 0
    /\ actual = cActing + standing
    /\ shared = others - cCounting + cUncounting

Ledger == Quarters /\ Sums

(* The invariant in this form is the one the runs check.                   *)
LEMMA LedgerIsInv == TypeOK => (IInv <=> Ledger)
<1> SUFFICES ASSUME TypeOK PROVE IInv <=> Ledger
  OBVIOUS
<1>1. FlagOwned /\ OneAtWork <=> Quarters
  BY PlacesHold DEF Places, FlagOwned, OneAtWork, Quarters, Initing, Terming, TypeOK, Flags
<1>2. Accounts <=> Sums
  BY DEF Accounts, Sums, standing, others, cReferring, cActing, cCounting, cUncounting, Count, Referring, Acting
<1> QED
  BY <1>1, <1>2 DEF IInv, Ledger

(* The counts are numbers, and 0 when nobody is there.                     *)
CountsTyped ==
    /\ cReferring \in Nat /\ (cReferring = 0 <=> In(Referring) = {})
    /\ cActing \in Nat /\ cCounting \in Nat /\ cUncounting \in Nat

(* So they are, by CountType.                                              *)
LEMMA CountsAreTyped == CountsTyped
BY CountType DEF CountsTyped, cReferring, cActing, cCounting, cUncounting

(* Every step keeps the invariant: one step of the proof per action, where *)
(* a begin is two, for the first or last consumer and for the others.      *)
LEMMA StepInv == ASSUME IInv, [Next]_vars PROVE IInv'
<1>0. TypeOK /\ Quarters /\ Sums
  BY LedgerIsInv DEF IInv, Ledger
<1>c. CountsTyped /\ CountsTyped' /\ Places /\ Places'
  BY CountsAreTyped, PlacesHold, PTL
<1>1. ASSUME NEW t \in Threads, ErrInitBegin(t), refs = 0 PROVE TypeOK' /\ Ledger'
  <2>1. /\ Goes(t, "out", "initing") /\ actual' = actual /\ shared' = shared
        /\ flag' = "init" /\ refs' = 1 /\ flag = "none"
    BY <1>0, <1>1 DEF ErrInitBegin, TypeOK
  <2>2. /\ In(Initing)' = In(Initing) \cup {t} /\ In(Terming)' = In(Terming)
        /\ In(Using)' = In(Using) /\ In(Referring)' = In(Referring) \cup {t}
    BY <1>0, <2>1, CountGrows, CountStays DEF Initing, Terming, Using, Referring
  <2>m. cReferring' = cReferring + 1 /\ cActing' = cActing
    BY <1>0, <2>1, CountGrows, CountStays DEF Referring, Acting, cReferring, cActing
  <2>n. cCounting' = cCounting /\ cUncounting' = cUncounting
    BY <1>0, <2>1, CountStays DEF cCounting, cUncounting
  <2>3. refs = 0 /\ refs \in Nat
    BY <1>0, <1>1, <1>c, <2>1 DEF CountsTyped, Places, TypeOK, Quarters, Sums, Goes, In, Initing, Terming, Using
  <2>4. TypeOK'
    BY <1>0, <2>1, <2>3 DEF TypeOK, Goes, Pcs, Flags
  <2>5. Quarters'
    BY <1>0, <1>c, <2>1, <2>2, <2>m, <2>n, <2>3 DEF CountsTyped, Places, Quarters, Sums
  <2>6. standing = 0 /\ standing' = 0 /\ others = 0 /\ others' = 0
    BY <2>1, <2>3, <1>1 DEF standing, others
  <2>7. Sums'
    BY <1>0, <1>c, <2>1, <2>m, <2>n, <2>3, <2>6 DEF CountsTyped, Sums
  <2> QED
    BY <2>4, <2>5, <2>7 DEF Ledger
<1>2. ASSUME NEW t \in Threads, ErrInitBegin(t), refs # 0 PROVE TypeOK' /\ Ledger'
  <2>1. /\ Goes(t, "out", "counting") /\ actual' = actual /\ shared' = shared
        /\ flag' = "none" /\ refs' = refs + 1 /\ flag = "none"
    BY <1>0, <1>2 DEF ErrInitBegin, TypeOK
  <2>2. /\ In(Initing)' = In(Initing) /\ In(Terming)' = In(Terming)
        /\ In(Using)' = In(Using) \cup {t} /\ In(Referring)' = In(Referring) \cup {t}
    BY <1>0, <2>1, CountGrows, CountStays DEF Initing, Terming, Using, Referring
  <2>m. cReferring' = cReferring + 1 /\ cActing' = cActing
    BY <1>0, <2>1, CountGrows, CountStays DEF Referring, Acting, cReferring, cActing
  <2>n. cCounting' = cCounting + 1 /\ cUncounting' = cUncounting
    BY <1>0, <2>1, CountGrows, CountStays DEF cCounting, cUncounting
  <2>3. refs \in Nat /\ refs > 0
    BY <1>0, <1>2, <1>c, <2>1 DEF CountsTyped, Places, TypeOK, Quarters, Sums, Goes, In, Initing, Terming, Using
  <2>4. TypeOK'
    BY <1>0, <2>1, <2>3 DEF TypeOK, Goes, Pcs, Flags
  <2>5. Quarters'
    BY <1>0, <1>c, <2>1, <2>2, <2>m, <2>n, <2>3 DEF CountsTyped, Places, Quarters, Sums
  <2>6. standing = 1 /\ standing' = 1 /\ others = refs - 1 /\ others' = refs
    BY <2>1, <2>3, <1>2 DEF standing, others
  <2>7. Sums'
    BY <1>0, <1>c, <2>1, <2>m, <2>n, <2>3, <2>6 DEF CountsTyped, Sums
  <2> QED
    BY <2>4, <2>5, <2>7 DEF Ledger
<1>3. ASSUME NEW t \in Threads, CountInit(t) PROVE TypeOK' /\ Ledger'
  <2>1. /\ Goes(t, "counting", "in") /\ actual' = actual /\ shared' = shared + 1
        /\ flag' = flag /\ refs' = refs
    BY <1>0, <1>3 DEF CountInit, TypeOK
  <2>2. /\ In(Initing)' = In(Initing) /\ In(Terming)' = In(Terming)
        /\ In(Using)' = In(Using) /\ In(Referring)' = In(Referring)
    BY <1>0, <2>1, CountStays DEF Initing, Terming, Using, Referring
  <2>m. cReferring' = cReferring /\ cActing' = cActing
    BY <1>0, <2>1, CountStays DEF Referring, Acting, cReferring, cActing
  <2>n. cCounting' = cCounting - 1 /\ cUncounting' = cUncounting
    BY <1>0, <2>1, CountShrinks, CountStays DEF cCounting, cUncounting
  <2>3. t \in In(Using) /\ refs \in Nat
    BY <1>0, <1>3, <1>c, <2>1 DEF CountsTyped, Places, TypeOK, Quarters, Sums, Goes, In, Initing, Terming, Using
  <2>4. TypeOK'
    BY <1>0, <2>1, <2>3 DEF TypeOK, Goes, Pcs, Flags
  <2>5. Quarters'
    BY <1>0, <1>c, <2>1, <2>2, <2>m, <2>n, <2>3 DEF CountsTyped, Places, Quarters, Sums
  <2>6. standing' = standing /\ others' = others /\ standing \in Int /\ others \in Int
    BY <2>1, <2>3 DEF standing, others
  <2>7. Sums'
    BY <1>0, <1>c, <2>1, <2>m, <2>n, <2>3, <2>6 DEF CountsTyped, Sums
  <2> QED
    BY <2>4, <2>5, <2>7 DEF Ledger
<1>4. ASSUME NEW t \in Threads, InitFinish(t) PROVE TypeOK' /\ Ledger'
  <2>1. /\ Goes(t, "initing", "inited") /\ actual' = actual + 1 /\ shared' = shared
        /\ flag' = flag /\ refs' = refs
    BY <1>0, <1>4 DEF InitFinish, TypeOK
  <2>2. /\ In(Initing)' = In(Initing) /\ In(Terming)' = In(Terming)
        /\ In(Using)' = In(Using) /\ In(Referring)' = In(Referring)
    BY <1>0, <2>1, CountStays DEF Initing, Terming, Using, Referring
  <2>m. cReferring' = cReferring /\ cActing' = cActing + 1
    BY <1>0, <2>1, CountGrows, CountStays DEF Referring, Acting, cReferring, cActing
  <2>n. cCounting' = cCounting /\ cUncounting' = cUncounting
    BY <1>0, <2>1, CountStays DEF cCounting, cUncounting
  <2>3. flag = "init" /\ t \in In(Initing) /\ refs = 1 /\ refs \in Nat
    BY <1>0, <1>4, <1>c, <2>1 DEF CountsTyped, Places, TypeOK, Quarters, Sums, Goes, In, Initing, Terming, Using
  <2>4. TypeOK'
    BY <1>0, <2>1, <2>3 DEF TypeOK, Goes, Pcs, Flags
  <2>5. Quarters'
    BY <1>0, <1>c, <2>1, <2>2, <2>m, <2>n, <2>3 DEF CountsTyped, Places, Quarters, Sums
  <2>6. standing = 0 /\ standing' = 0 /\ others = 0 /\ others' = 0
    BY <2>1, <2>3 DEF standing, others
  <2>7. Sums'
    BY <1>0, <1>c, <2>1, <2>m, <2>n, <2>3, <2>6 DEF CountsTyped, Sums
  <2> QED
    BY <2>4, <2>5, <2>7 DEF Ledger
<1>5. ASSUME NEW t \in Threads, InitFinished(t) PROVE TypeOK' /\ Ledger'
  <2>1. /\ Goes(t, "inited", "in") /\ actual' = actual /\ shared' = shared
        /\ flag' = "none" /\ refs' = refs
    BY <1>0, <1>5 DEF InitFinished, TypeOK
  <2>2. /\ In(Initing)' = In(Initing) \ {t} /\ In(Terming)' = In(Terming)
        /\ In(Using)' = In(Using) \cup {t} /\ In(Referring)' = In(Referring)
    BY <1>0, <2>1, CountGrows, CountShrinks, CountStays DEF Initing, Terming, Using, Referring
  <2>m. cReferring' = cReferring /\ cActing' = cActing - 1
    BY <1>0, <2>1, CountShrinks, CountStays DEF Referring, Acting, cReferring, cActing
  <2>n. cCounting' = cCounting /\ cUncounting' = cUncounting
    BY <1>0, <2>1, CountStays DEF cCounting, cUncounting
  <2>3. flag = "init" /\ t \in In(Initing) /\ refs = 1 /\ refs \in Nat
    BY <1>0, <1>5, <1>c, <2>1 DEF CountsTyped, Places, TypeOK, Quarters, Sums, Goes, In, Initing, Terming, Using
  <2>4. TypeOK'
    BY <1>0, <2>1, <2>3 DEF TypeOK, Goes, Pcs, Flags
  <2>5. Quarters'
    BY <1>0, <1>c, <2>1, <2>2, <2>m, <2>n, <2>3 DEF CountsTyped, Places, Quarters, Sums
  <2>6. standing = 0 /\ standing' = 1 /\ others = 0 /\ others' = 0
    BY <2>1, <2>3 DEF standing, others
  <2>7. Sums'
    BY <1>0, <1>c, <2>1, <2>m, <2>n, <2>3, <2>6 DEF CountsTyped, Sums
  <2> QED
    BY <2>4, <2>5, <2>7 DEF Ledger
<1>6. ASSUME NEW t \in Threads, InitFails(t) PROVE TypeOK' /\ Ledger'
  <2>1. /\ Goes(t, "initing", "out") /\ actual' = actual /\ shared' = shared
        /\ flag' = "none" /\ refs' = 0
    BY <1>0, <1>6 DEF InitFails, TypeOK
  <2>2. /\ In(Initing)' = In(Initing) \ {t} /\ In(Terming)' = In(Terming)
        /\ In(Using)' = In(Using) /\ In(Referring)' = In(Referring) \ {t}
    BY <1>0, <2>1, CountShrinks, CountStays DEF Initing, Terming, Using, Referring
  <2>m. cReferring' = cReferring - 1 /\ cActing' = cActing
    BY <1>0, <2>1, CountShrinks, CountStays DEF Referring, Acting, cReferring, cActing
  <2>n. cCounting' = cCounting /\ cUncounting' = cUncounting
    BY <1>0, <2>1, CountStays DEF cCounting, cUncounting
  <2>3. flag = "init" /\ t \in In(Initing) /\ refs = 1 /\ refs \in Nat
    BY <1>0, <1>6, <1>c, <2>1 DEF CountsTyped, Places, TypeOK, Quarters, Sums, Goes, In, Initing, Terming, Using
  <2>4. TypeOK'
    BY <1>0, <2>1, <2>3 DEF TypeOK, Goes, Pcs, Flags
  <2>5. Quarters'
    BY <1>0, <1>c, <2>1, <2>2, <2>m, <2>n, <2>3 DEF CountsTyped, Places, Quarters, Sums
  <2>6. standing = 0 /\ standing' = 0 /\ others = 0 /\ others' = 0
    BY <2>1, <2>3 DEF standing, others
  <2>7. Sums'
    BY <1>0, <1>c, <2>1, <2>m, <2>n, <2>3, <2>6 DEF CountsTyped, Sums
  <2> QED
    BY <2>4, <2>5, <2>7 DEF Ledger
<1>7. ASSUME NEW t \in Threads, ErrTermBegin(t), refs = 1 PROVE TypeOK' /\ Ledger'
  <2>1. /\ Goes(t, "in", "terming") /\ actual' = actual /\ shared' = shared
        /\ flag' = "term" /\ refs' = 0 /\ flag = "none"
    BY <1>0, <1>7 DEF ErrTermBegin, TypeOK
  <2>2. /\ In(Initing)' = In(Initing) /\ In(Terming)' = In(Terming) \cup {t}
        /\ In(Using)' = In(Using) \ {t} /\ In(Referring)' = In(Referring) \ {t}
    BY <1>0, <2>1, CountGrows, CountShrinks, CountStays DEF Initing, Terming, Using, Referring
  <2>m. cReferring' = cReferring - 1 /\ cActing' = cActing + 1
    BY <1>0, <2>1, CountGrows, CountShrinks DEF Referring, Acting, cReferring, cActing
  <2>n. cCounting' = cCounting /\ cUncounting' = cUncounting
    BY <1>0, <2>1, CountStays DEF cCounting, cUncounting
  <2>3. t \in In(Using) /\ refs = 1 /\ refs \in Nat
    BY <1>0, <1>7, <1>c, <2>1 DEF CountsTyped, Places, TypeOK, Quarters, Sums, Goes, In, Initing, Terming, Using
  <2>4. TypeOK'
    BY <1>0, <2>1, <2>3 DEF TypeOK, Goes, Pcs, Flags
  <2>5. Quarters'
    BY <1>0, <1>c, <2>1, <2>2, <2>m, <2>n, <2>3 DEF CountsTyped, Places, Quarters, Sums
  <2>6. standing = 1 /\ standing' = 0 /\ others = 0 /\ others' = 0
    BY <2>1, <2>3, <1>7 DEF standing, others
  <2>7. Sums'
    BY <1>0, <1>c, <2>1, <2>m, <2>n, <2>3, <2>6 DEF CountsTyped, Sums
  <2> QED
    BY <2>4, <2>5, <2>7 DEF Ledger
<1>8. ASSUME NEW t \in Threads, ErrTermBegin(t), refs # 1 PROVE TypeOK' /\ Ledger'
  <2>1. /\ Goes(t, "in", "uncounting") /\ actual' = actual /\ shared' = shared
        /\ flag' = "none" /\ refs' = refs - 1 /\ flag = "none"
    BY <1>0, <1>8 DEF ErrTermBegin, TypeOK
  <2>2. /\ In(Initing)' = In(Initing) /\ In(Terming)' = In(Terming)
        /\ In(Using)' = In(Using) \ {t} /\ In(Referring)' = In(Referring) \ {t}
    BY <1>0, <2>1, CountShrinks, CountStays DEF Initing, Terming, Using, Referring
  <2>m. cReferring' = cReferring - 1 /\ cActing' = cActing
    BY <1>0, <2>1, CountShrinks, CountStays DEF Referring, Acting, cReferring, cActing
  <2>n. cCounting' = cCounting /\ cUncounting' = cUncounting + 1
    BY <1>0, <2>1, CountGrows, CountStays DEF cCounting, cUncounting
  <2>3. t \in In(Using) /\ refs \in Nat /\ refs > 1
    BY <1>0, <1>8, <1>c, <2>1 DEF CountsTyped, Places, TypeOK, Quarters, Sums, Goes, In, Initing, Terming, Using
  <2>4. TypeOK'
    BY <1>0, <2>1, <2>3 DEF TypeOK, Goes, Pcs, Flags
  <2>5. Quarters'
    BY <1>0, <1>c, <2>1, <2>2, <2>m, <2>n, <2>3 DEF CountsTyped, Places, Quarters, Sums
  <2>6. standing = 1 /\ standing' = 1 /\ others = refs - 1 /\ others' = refs - 2
    BY <2>1, <2>3, <1>8 DEF standing, others
  <2>7. Sums'
    BY <1>0, <1>c, <2>1, <2>m, <2>n, <2>3, <2>6 DEF CountsTyped, Sums
  <2> QED
    BY <2>4, <2>5, <2>7 DEF Ledger
<1>9. ASSUME NEW t \in Threads, CountTerm(t) PROVE TypeOK' /\ Ledger'
  <2>1. /\ Goes(t, "uncounting", "out") /\ actual' = actual /\ shared' = shared - 1
        /\ flag' = flag /\ refs' = refs
    BY <1>0, <1>9 DEF CountTerm, TypeOK
  <2>2. /\ In(Initing)' = In(Initing) /\ In(Terming)' = In(Terming)
        /\ In(Using)' = In(Using) /\ In(Referring)' = In(Referring)
    BY <1>0, <2>1, CountStays DEF Initing, Terming, Using, Referring
  <2>m. cReferring' = cReferring /\ cActing' = cActing
    BY <1>0, <2>1, CountStays DEF Referring, Acting, cReferring, cActing
  <2>n. cCounting' = cCounting /\ cUncounting' = cUncounting - 1
    BY <1>0, <2>1, CountShrinks, CountStays DEF cCounting, cUncounting
  <2>3. refs \in Nat
    BY <1>0, <1>9, <1>c, <2>1 DEF CountsTyped, Places, TypeOK, Quarters, Sums, Goes, In, Initing, Terming, Using
  <2>4. TypeOK'
    BY <1>0, <2>1, <2>3 DEF TypeOK, Goes, Pcs, Flags
  <2>5. Quarters'
    BY <1>0, <1>c, <2>1, <2>2, <2>m, <2>n, <2>3 DEF CountsTyped, Places, Quarters, Sums
  <2>6. standing' = standing /\ others' = others /\ standing \in Int /\ others \in Int
    BY <2>1, <2>3 DEF standing, others
  <2>7. Sums'
    BY <1>0, <1>c, <2>1, <2>m, <2>n, <2>3, <2>6 DEF CountsTyped, Sums
  <2> QED
    BY <2>4, <2>5, <2>7 DEF Ledger
<1>10. ASSUME NEW t \in Threads, TermFinish(t) PROVE TypeOK' /\ Ledger'
  <2>1. /\ Goes(t, "terming", "termed") /\ actual' = actual - 1 /\ shared' = shared
        /\ flag' = flag /\ refs' = refs
    BY <1>0, <1>10 DEF TermFinish, TypeOK
  <2>2. /\ In(Initing)' = In(Initing) /\ In(Terming)' = In(Terming)
        /\ In(Using)' = In(Using) /\ In(Referring)' = In(Referring)
    BY <1>0, <2>1, CountStays DEF Initing, Terming, Using, Referring
  <2>m. cReferring' = cReferring /\ cActing' = cActing - 1
    BY <1>0, <2>1, CountShrinks, CountStays DEF Referring, Acting, cReferring, cActing
  <2>n. cCounting' = cCounting /\ cUncounting' = cUncounting
    BY <1>0, <2>1, CountStays DEF cCounting, cUncounting
  <2>3. flag = "term" /\ t \in In(Terming) /\ refs = 0 /\ refs \in Nat
    BY <1>0, <1>10, <1>c, <2>1 DEF CountsTyped, Places, TypeOK, Quarters, Sums, Goes, In, Initing, Terming, Using
  <2>4. TypeOK'
    BY <1>0, <2>1, <2>3 DEF TypeOK, Goes, Pcs, Flags
  <2>5. Quarters'
    BY <1>0, <1>c, <2>1, <2>2, <2>m, <2>n, <2>3 DEF CountsTyped, Places, Quarters, Sums
  <2>6. standing = 0 /\ standing' = 0 /\ others = 0 /\ others' = 0
    BY <2>1, <2>3 DEF standing, others
  <2>7. Sums'
    BY <1>0, <1>c, <2>1, <2>m, <2>n, <2>3, <2>6 DEF CountsTyped, Sums
  <2> QED
    BY <2>4, <2>5, <2>7 DEF Ledger
<1>11. ASSUME NEW t \in Threads, TermFinished(t) PROVE TypeOK' /\ Ledger'
  <2>1. /\ Goes(t, "termed", "out") /\ actual' = actual /\ shared' = shared
        /\ flag' = "none" /\ refs' = refs
    BY <1>0, <1>11 DEF TermFinished, TypeOK
  <2>2. /\ In(Initing)' = In(Initing) /\ In(Terming)' = In(Terming) \ {t}
        /\ In(Using)' = In(Using) /\ In(Referring)' = In(Referring)
    BY <1>0, <2>1, CountShrinks, CountStays DEF Initing, Terming, Using, Referring
  <2>m. cReferring' = cReferring /\ cActing' = cActing
    BY <1>0, <2>1, CountStays DEF Referring, Acting, cReferring, cActing
  <2>n. cCounting' = cCounting /\ cUncounting' = cUncounting
    BY <1>0, <2>1, CountStays DEF cCounting, cUncounting
  <2>3. flag = "term" /\ t \in In(Terming) /\ refs = 0 /\ refs \in Nat
    BY <1>0, <1>11, <1>c, <2>1 DEF CountsTyped, Places, TypeOK, Quarters, Sums, Goes, In, Initing, Terming, Using
  <2>4. TypeOK'
    BY <1>0, <2>1, <2>3 DEF TypeOK, Goes, Pcs, Flags
  <2>5. Quarters'
    BY <1>0, <1>c, <2>1, <2>2, <2>m, <2>n, <2>3 DEF CountsTyped, Places, Quarters, Sums
  <2>6. standing = 0 /\ standing' = 0 /\ others = 0 /\ others' = 0
    BY <2>1, <2>3 DEF standing, others
  <2>7. Sums'
    BY <1>0, <1>c, <2>1, <2>m, <2>n, <2>3, <2>6 DEF CountsTyped, Sums
  <2> QED
    BY <2>4, <2>5, <2>7 DEF Ledger
<1>20. ASSUME UNCHANGED vars PROVE TypeOK' /\ Ledger'
  <2>1. In(Initing)' = In(Initing) /\ In(Terming)' = In(Terming) /\ In(Using)' = In(Using)
    BY <1>20 DEF vars, In
  <2>2. /\ cReferring' = cReferring /\ cActing' = cActing
        /\ cCounting' = cCounting /\ cUncounting' = cUncounting
    BY <1>20 DEF vars, In, Count, cReferring, cActing, cCounting, cUncounting
  <2>3. TypeOK' /\ Quarters'
    BY <1>0, <1>20, <2>1 DEF vars, TypeOK, Quarters
  <2>4. standing' = standing /\ others' = others
    BY <1>20 DEF vars, standing, others
  <2>5. Sums'
    BY <1>0, <1>20, <2>2, <2>4 DEF vars, Sums
  <2> QED
    BY <2>3, <2>5 DEF Ledger
<1>21. ASSUME NEW t \in Threads, Step(t) PROVE TypeOK' /\ Ledger'
  BY <1>1, <1>2, <1>3, <1>4, <1>5, <1>6, <1>7, <1>8, <1>9, <1>10, <1>11, <1>21 DEF Step
<1>22. TypeOK' /\ Ledger'
  BY <1>20, <1>21 DEF Next
<1> QED
  BY <1>22, LedgerIsInv, PTL

(* The inductive invariant holds in every reachable state.                 *)
THEOREM InvHolds == Spec => []IInv
<1>1. Init => IInv
  BY InvInit
<1>2. IInv /\ [Next]_vars => IInv'
  BY StepInv
<1> QED
  BY <1>1, <1>2, PTL DEF Spec

(* One thread at a time initialises or terminates the component, nobody    *)
(* uses it meanwhile, and ErrTermBegin never finds a flag set.             *)
THEOREM OneThreadAtWork == Spec => []OneAtWork
<1>1. IInv => OneAtWork
  BY DEF IInv
<1> QED
  BY <1>1, InvHolds, PTL

(* The count in the control word is the number of consumers let in.        *)
THEOREM ReferencesAreExact == Spec => []RefsExact
<1>1. IInv => RefsExact
  <2> SUFFICES ASSUME IInv, flag = "none" PROVE refs = Cardinality(Consumers)
    BY DEF RefsExact
  <2>1. In(Initing) = {} /\ refs = Cardinality(In(Referring))
    BY DEF IInv, FlagOwned, Accounts, Initing, Referring
  <2> QED
    BY <2>1, PlacesHold DEF Places
<1> QED
  BY <1>1, InvHolds, PTL

(* When every consumer has gone the word and the balances are 0, as the    *)
(* destructor enforces.                                                    *)
THEOREM LeftBalanced == Spec => []BalancedAtTheEnd
<1>1. IInv => BalancedAtTheEnd
  <2> SUFFICES ASSUME IInv, \A t \in Threads : pc[t] = "out"
               PROVE  refs = 0 /\ actual = 0 /\ shared = 0
    BY DEF BalancedAtTheEnd
  <2>1. In(Referring) = {} /\ In(Acting) = {} /\ In({"counting"}) = {} /\ In({"uncounting"}) = {}
    BY DEF In, Referring, Acting
  <2>2. cReferring = 0 /\ cActing = 0 /\ cCounting = 0 /\ cUncounting = 0
    BY <2>1, FS_EmptySet DEF Count, cReferring, cActing, cCounting, cUncounting
  <2>3. Sums
    BY LedgerIsInv DEF IInv, Ledger
  <2> QED
    BY <2>2, <2>3 DEF Sums, standing, others
<1> QED
  BY <1>1, InvHolds, PTL
=============================================================================
