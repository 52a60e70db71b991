------------------------------ MODULE HandOff ------------------------------
(***************************************************************************)
(* What the semaphores and signals of the synchronisation library promise: *)
(* a permit given while threads sleep is given TO the sleepers.  `spare`   *)
(* permits are free for the taking, `owed` permits belong to sleepers that *)
(* have not been scheduled yet, and no newcomer can take those.            *)
(***************************************************************************)
EXTENDS Integers, FiniteSets

CONSTANTS Threads,     \* the threads of the process
          Objects,     \* the semaphores and signals
          Batches      \* how many permits one release may give

VARIABLES type,        \* of every object: "semaphore", "auto" or "manual"
          spare,       \* permits (a signal that is set: 1) free for the taking
          owed,        \* permits handed to sleepers and not yet picked up
          sleepers     \* the threads waiting in the object

hvars == <<type, spare, owed, sleepers>>

Unserved(o) == Cardinality(sleepers[o]) - owed[o]

HTypeOK ==
    /\ type \in [Objects -> {"semaphore", "auto", "manual"}]
    /\ spare \in [Objects -> Nat]
    /\ owed \in [Objects -> Nat]
    /\ sleepers \in [Objects -> SUBSET Threads]

HInit ==
    /\ type \in [Objects -> {"semaphore", "auto", "manual"}]
    /\ spare = [o \in Objects |-> 0]
    /\ owed = [o \in Objects |-> 0]
    /\ sleepers = [o \in Objects |-> {}]

(* A wait that finds a permit; a manual-reset signal stays set.            *)
Pass(o) ==
    /\ spare[o] > 0
    /\ spare' = [spare EXCEPT ![o] = IF type[o] = "manual" THEN @ ELSE @ - 1]
    /\ UNCHANGED <<owed, sleepers>>

(* Nobody goes to sleep while a permit is free.                            *)
Sleep(o, t) ==
    /\ t \notin sleepers[o]
    /\ spare[o] = 0
    /\ sleepers' = [sleepers EXCEPT ![o] = @ \cup {t}]
    /\ UNCHANGED <<spare, owed>>

Wake(o, t) ==
    /\ t \in sleepers[o]
    /\ owed[o] > 0
    /\ owed' = [owed EXCEPT ![o] = @ - 1]
    /\ sleepers' = [sleepers EXCEPT ![o] = @ \ {t}]
    /\ UNCHANGED spare

(* A timeout is answered only when some sleeper is still without a permit. *)
GiveUp(o, t) ==
    /\ t \in sleepers[o]
    /\ Unserved(o) > 0
    /\ sleepers' = [sleepers EXCEPT ![o] = @ \ {t}]
    /\ UNCHANGED <<spare, owed>>

(* Permits go to the sleepers first; what is left over becomes free.       *)
Serve(o, served, left) ==
    /\ owed' = [owed EXCEPT ![o] = @ + served]
    /\ spare' = [spare EXCEPT ![o] = left]
    /\ UNCHANGED sleepers

Lesser(a, b) == IF a <= b THEN a ELSE b

Give(o, n) ==
    /\ type[o] = "semaphore"
    /\ LET served == Lesser(n, Unserved(o)) IN Serve(o, served, spare[o] + n - served)

GiveAll(o) == type[o] = "semaphore" /\ Serve(o, Unserved(o), spare[o])

(* Setting a signal serves one sleeper (auto reset) or all (manual reset). *)
Set(o) ==
    \/ type[o] = "auto" /\ Unserved(o) > 0 /\ Serve(o, 1, spare[o])
    \/ type[o] = "auto" /\ Unserved(o) = 0 /\ Serve(o, 0, 1)
    \/ type[o] = "manual" /\ Serve(o, Unserved(o), 1)

Reset(o) == type[o] # "semaphore" /\ spare[o] = 1 /\ Serve(o, 0, 0)

HNext ==
    /\ UNCHANGED type
    /\ \E o \in Objects :
          \/ Pass(o)
          \/ \E t \in Threads : Sleep(o, t) \/ Wake(o, t) \/ GiveUp(o, t)
          \/ \E n \in Batches : Give(o, n)
          \/ GiveAll(o) \/ Set(o) \/ Reset(o)

HSpec == HInit /\ [][HNext]_hvars
=============================================================================
