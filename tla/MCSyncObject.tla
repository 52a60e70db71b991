---------------------------- MODULE MCSyncObject ----------------------------
EXTENDS SyncObject, TLC
CONSTANTS t1, t2, t3, k1, k2, k3
MCThreads == {t1, t2, t3}
MCKsems == {k1, k2, k3}
MCObjects == {1, 2}

(* Three threads on one object, or two threads on two objects that share   *)
(* the pool.                                                               *)
MCSetups ==
    {[kind |-> <<a, "auto">>, users |-> <<MCThreads, {}>>] :
        a \in {"semaphore", "auto", "manual"}} \cup
    {[kind |-> <<a, "auto">>, users |-> <<MCThreads \ {t}, MCThreads \ {t}>>] :
        a \in {"semaphore", "manual"}, t \in MCThreads}
MCBatches == {1, 2}
Symmetry == Permutations(MCThreads)
=============================================================================
