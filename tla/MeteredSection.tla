--------------------------- MODULE MeteredSection ---------------------------
(***************************************************************************)
(* CMeteredSection (sync.hxx): threads pass through a section in one of    *)
(* two groups.  Partition makes the other group the current one and calls  *)
(* back when the last member of the old one has left.  The control word is *)
(* two halves, current and quiesced, each a count and a group.             *)
(*                                                                         *)
(* The callback and its key are fields, stored before the word is          *)
(* exchanged and read, by whoever completes the partition, after another   *)
(* exchange: its users start a partition only once the one before has      *)
(* called back.                                                            *)
(***************************************************************************)
EXTENDS Integers, FiniteSets

CONSTANTS Threads, MaxActive, Nil

VARIABLES half,      \* the control word: half[1] current, half[2] quiesced
          key,       \* m_dwPartitionCompleteKey
          open,      \* partitions begun that have not called back yet
          th         \* what every thread is doing

vars == <<half, key, open, th>>

Out == [pc |-> "out", g |-> 0, sync |-> FALSE]

TypeOK ==
    /\ half \in [{1, 2} -> [c : 0 .. MaxActive, g : {0, 1}]]
    /\ key \in Threads \cup {Nil}
    /\ open \subseteq Threads
    /\ th \in [Threads -> [pc : {"out", "in", "swap", "call", "wait"}, g : {0, 1}, sync : BOOLEAN]]

Init ==
    /\ half = [h \in {1, 2} |-> [c |-> 0, g |-> h - 1]]
    /\ key = Nil
    /\ open = {}
    /\ th = [t \in Threads |-> Out]
-----------------------------------------------------------------------------
(* groupTooManyActiveErr, and nothing changes, at the limit.               *)
GroupEnter(t) ==
    /\ th[t].pc = "out"
    /\ half[1].c + 1 <= MaxActive
    /\ half' = [half EXCEPT ![1].c = @ + 1]
    /\ th' = [th EXCEPT ![t] = [Out EXCEPT !.pc = "in", !.g = half[1].g]]
    /\ UNCHANGED <<key, open>>

(* Leave takes one from the half that is of its group.  The one that takes *)
(* the last from the quiesced half calls back.                             *)
Leave(t) ==
    LET h == IF half[1].g = th[t].g THEN 1 ELSE 2 IN
    /\ th[t].pc = "in"
    /\ half' = [half EXCEPT ![h].c = @ - 1]
    /\ th' = [th EXCEPT ![t] = IF h = 2 /\ half[2].c = 1 THEN [Out EXCEPT !.pc = "call"] ELSE Out]
    /\ UNCHANGED <<key, open>>
-----------------------------------------------------------------------------
(* Mutant: the next partition begins when the word allows it. *)
PartitionUnderTheWord(t) ==
    \E sync \in BOOLEAN :
    /\ th[t].pc = "out"
    /\ half[2].c = 0 /\ \A u \in Threads : th[u].pc # "swap"
    /\ open' = open \cup {t}
    /\ key' = t
    /\ th' = [th EXCEPT ![t] = [Out EXCEPT !.pc = "swap", !.sync = sync]]
    /\ UNCHANGED half

(* Partition, with a callback or (sync) with a signal of its own to wait   *)
(* on: the fields first, then the exchange.                                *)
Partition(t) ==
    \E sync \in BOOLEAN :
    /\ th[t].pc = "out"
    /\ open = {}
    /\ open' = {t}
    /\ key' = t
    /\ th' = [th EXCEPT ![t] = [Out EXCEPT !.pc = "swap", !.sync = sync]]
    /\ UNCHANGED half

PartitionSwaps(t) ==
    /\ th[t].pc = "swap"
    /\ half' = [half EXCEPT ![1] = half[2], ![2] = half[1]]
    /\ th' = [th EXCEPT ![t].pc = IF half[1].c = 0 THEN "call" ELSE IF th[t].sync THEN "wait" ELSE "out"]
    /\ UNCHANGED <<key, open>>

(* m_pfnPartitionComplete( m_dwPartitionCompleteKey ).                     *)
PartitionComplete(t) ==
    /\ th[t].pc = "call"
    /\ open' = open \ {key}
    /\ th' = [th EXCEPT ![t] = IF @.sync THEN [@ EXCEPT !.pc = "wait"] ELSE Out]
    /\ UNCHANGED <<half, key>>

(* asig.Wait() returns once _PartitionSyncComplete has set the signal.     *)
PartitionReturns(t) ==
    /\ th[t].pc = "wait"
    /\ t \notin open
    /\ th' = [th EXCEPT ![t] = Out]
    /\ UNCHANGED <<half, key, open>>

Goes(t) == Leave(t) \/ PartitionSwaps(t) \/ PartitionComplete(t) \/ PartitionReturns(t)
Next == \E t \in Threads : GroupEnter(t) \/ Partition(t) \/ Goes(t)

(* Whoever is in the section leaves it, and calls once begun go on.        *)
Fairness == \A t \in Threads : WF_vars(Goes(t))
Spec == Init /\ [][Next]_vars /\ Fairness
-----------------------------------------------------------------------------
Members(g) == {t \in Threads : th[t].pc = "in" /\ th[t].g = g}

(* Each half counts the threads of its group: no thread leaves a group it  *)
(* did not enter, however many partitions there were while it was inside.  *)
HalvesExact ==
    /\ half[1].g # half[2].g
    /\ \A h \in {1, 2} : half[h].c = Cardinality(Members(half[h].g))

(* A partition calls back when the last member of the old group is gone,   *)
(* and it is the pending partition that is called back.                    *)
CallsBackWhenGone ==
    \A t \in Threads : th[t].pc = "call" => Members(half[2].g) = {} /\ open = {key}

(* Every partition is called back in the end, while others keep entering.  *)
PartitionsComplete == \A t \in Threads : t \in open ~> t \notin open
=============================================================================
