----------------------------- MODULE JobDelivery -----------------------------
(***************************************************************************)
(* Background jobs: the producers that enqueue them, BullMQ's at-least-    *)
(* once delivery to the worker processes, runOnce's claim of a key in the  *)
(* transaction of the effect, the message notification.job sends after     *)
(* that transaction, and the dead-letter queue.                            *)
(*                                                                         *)
(* BullMQ is external: a job is delivered under a lock to one worker; an   *)
(* acknowledgement or a failure counts only while the lock is held; a job  *)
(* whose lock has expired, because its worker died or was too slow, goes   *)
(* back to the queue.                                                      *)
(***************************************************************************)
EXTENDS Naturals, FiniteSets

CONSTANTS
    Jobs,            \* jobs the producers may enqueue
    Keys,            \* dedupe keys, `notif:<type>:<bookingId>`
    KeyOf,           \* the key of each job: a sweeper may queue one twice
    Workers,         \* job slots of the worker processes
    MaxTries,        \* attempts of defaultJobOptions
    MaxKills,        \* bound: worker processes killed
    MaxStalls,       \* bound: locks lost by a worker that is still running
    NoOne            \* the holder of no lock

ASSUME JobDeliveryAssumption ==
    /\ KeyOf \in [Jobs -> Keys]
    /\ NoOne \notin Workers
    /\ MaxTries \in Nat \ {0} /\ MaxKills \in Nat /\ MaxStalls \in Nat

VARIABLES
    queue,           \* where BullMQ has each job
    lock,            \* the worker that holds each job's lock
    tries,           \* attemptsMade
    worker,          \* what each worker is doing
    claimed,         \* idempotency_keys
    effects,         \* effects committed for each key
    sent,            \* messages handed to the provider for each key
    dead,            \* jobs copied to the dead-letter queue
    kills, stalls

vars == <<queue, lock, tries, worker, claimed, effects, sent, dead, kills, stalls>>

Resting == [at |-> "rest"]

Work == [at : {"claim", "send", "ack", "failed", "bury"}, job : Jobs]

TypeOK ==
    /\ queue \in [Jobs -> {"none", "lost", "waiting", "active", "completed", "failed"}]
    /\ lock \in [Jobs -> Workers \cup {NoOne}]
    /\ tries \in [Jobs -> 0 .. MaxTries]
    /\ worker \in [Workers -> {Resting} \cup Work]
    /\ claimed \subseteq Keys
    /\ effects \in [Keys -> Nat] /\ sent \in [Keys -> Nat]
    /\ dead \subseteq Jobs
    /\ kills \in 0 .. MaxKills /\ stalls \in 0 .. MaxStalls

Init ==
    /\ queue = [j \in Jobs |-> "none"]
    /\ lock = [j \in Jobs |-> NoOne]
    /\ tries = [j \in Jobs |-> 0]
    /\ worker = [w \in Workers |-> Resting]
    /\ claimed = {} /\ dead = {}
    /\ effects = [k \in Keys |-> 0] /\ sent = [k \in Keys |-> 0]
    /\ kills = 0 /\ stalls = 0
-----------------------------------------------------------------------------
UncheckedKey(k) == FALSE

(* The insert of the key violates its uniqueness.                          *)
AlreadyDone(k) == k \in claimed

(* A skipped delivery returns without sending.                             *)
AfterSkip == "ack"

AfterFailure(n) == IF n = MaxTries THEN "failed" ELSE "waiting"

At(w, stage) == worker[w].at = stage

Proceed(w, stage) == worker' = [worker EXCEPT ![w].at = stage]

Rest(w) == worker' = [worker EXCEPT ![w] = Resting]

Locked(w) == lock[worker[w].job] = w

Works(w, j) == worker[w] # Resting /\ worker[w].job = j
-----------------------------------------------------------------------------
(* producers.add: fire and forget.                                         *)
Enqueue(j) ==
    /\ queue[j] = "none"
    /\ \E outcome \in {"waiting", "lost"} : queue' = [queue EXCEPT ![j] = outcome]
    /\ UNCHANGED <<lock, tries, worker, claimed, effects, sent, dead, kills, stalls>>

Take(w, j) ==
    /\ worker[w] = Resting /\ queue[j] = "waiting"
    /\ queue' = [queue EXCEPT ![j] = "active"]
    /\ lock' = [lock EXCEPT ![j] = w]
    /\ worker' = [worker EXCEPT ![w] = [at |-> "claim", job |-> j]]
    /\ UNCHANGED <<tries, claimed, effects, sent, dead, kills, stalls>>

Committed(k) ==
    /\ claimed' = claimed \cup {k}
    /\ effects' = [effects EXCEPT ![k] = @ + 1]

(* runOnce: key and effect in one transaction.                             *)
RunOnce(w) ==
    LET k == KeyOf[worker[w].job] IN
    /\ At(w, "claim")
    /\ IF AlreadyDone(k) THEN Proceed(w, AfterSkip) /\ UNCHANGED <<claimed, effects>>
       ELSE Proceed(w, "send") /\ Committed(k)
    /\ UNCHANGED <<queue, lock, tries, sent, dead, kills, stalls>>

(* The transaction throws: it was rolled back, or its commit was not heard *)
(* of.                                                                     *)
RunFails(w) ==
    LET k == KeyOf[worker[w].job] IN
    /\ At(w, "claim") /\ Proceed(w, "failed")
    /\ \/ UNCHANGED <<claimed, effects>>
       \/ ~AlreadyDone(k) /\ Committed(k)
    /\ UNCHANGED <<queue, lock, tries, sent, dead, kills, stalls>>

(* The sends after the commit; one that fails is logged and swallowed.     *)
Send(w) ==
    LET k == KeyOf[worker[w].job] IN
    /\ At(w, "send") /\ Proceed(w, "ack")
    /\ sent' = [sent EXCEPT ![k] = @ + 1]
    /\ UNCHANGED <<queue, lock, tries, claimed, effects, dead, kills, stalls>>

Ack(w) ==
    /\ At(w, "ack") /\ Rest(w)
    /\ queue' = IF Locked(w) THEN [queue EXCEPT ![worker[w].job] = "completed"] ELSE queue
    /\ lock' = IF Locked(w) THEN [lock EXCEPT ![worker[w].job] = NoOne] ELSE lock
    /\ UNCHANGED <<tries, claimed, effects, sent, dead, kills, stalls>>

(* The handler threw: back to the queue while attempts are left.           *)
Failed(w) ==
    LET j == worker[w].job
        next == AfterFailure(tries[j] + 1)
    IN
    /\ At(w, "failed")
    /\ IF Locked(w)
       THEN /\ tries' = [tries EXCEPT ![j] = @ + 1]
            /\ queue' = [queue EXCEPT ![j] = next]
            /\ lock' = [lock EXCEPT ![j] = NoOne]
            /\ IF next = "failed" THEN Proceed(w, "bury") ELSE Rest(w)
       ELSE Rest(w) /\ UNCHANGED <<tries, queue, lock>>
    /\ UNCHANGED <<claimed, effects, sent, dead, kills, stalls>>

(* toDeadLetter; its own failure is only logged.                           *)
Bury(w) ==
    /\ At(w, "bury") /\ Rest(w)
    /\ dead' \in {dead, dead \cup {worker[w].job}}
    /\ UNCHANGED <<queue, lock, tries, claimed, effects, sent, kills, stalls>>

Kill(w) ==
    /\ worker[w] # Resting /\ kills < MaxKills
    /\ kills' = kills + 1
    /\ Rest(w)
    /\ UNCHANGED <<queue, lock, tries, claimed, effects, sent, dead, stalls>>

NeverRecover(j) == FALSE /\ UNCHANGED vars

(* The stalled-job check finds the lock of a dead worker expired.          *)
Recover(j) ==
    /\ queue[j] = "active" /\ ~Works(lock[j], j)
    /\ queue' = [queue EXCEPT ![j] = "waiting"]
    /\ lock' = [lock EXCEPT ![j] = NoOne]
    /\ UNCHANGED <<tries, worker, claimed, effects, sent, dead, kills, stalls>>

(* ... or of one that goes on working.                                     *)
Stall(j) ==
    /\ queue[j] = "active" /\ Works(lock[j], j) /\ stalls < MaxStalls
    /\ stalls' = stalls + 1
    /\ queue' = [queue EXCEPT ![j] = "waiting"]
    /\ lock' = [lock EXCEPT ![j] = NoOne]
    /\ UNCHANGED <<tries, worker, claimed, effects, sent, dead, kills>>

WorkerStep(w) == RunOnce(w) \/ RunFails(w) \/ Send(w) \/ Ack(w) \/ Failed(w) \/ Bury(w)

Next ==
    \/ \E j \in Jobs : Enqueue(j) \/ Recover(j) \/ Stall(j) \/ \E w \in Workers : Take(w, j)
    \/ \E w \in Workers : WorkerStep(w) \/ Kill(w)

(* A worker that is not killed goes on; an idle one takes what waits; the  *)
(* stalled-job check runs every so often.                                  *)
Fairness ==
    /\ \A w \in Workers : WF_vars(WorkerStep(w))
    /\ \A j \in Jobs : WF_vars(Recover(j)) /\ SF_vars(\E w \in Workers : Take(w, j))

Spec == Init /\ [][Next]_vars

FairSpec == Spec /\ Fairness
-----------------------------------------------------------------------------
(* However often a job is delivered, by workers that die or that run side  *)
(* by side after a lost lock, and however many jobs share its key, the     *)
(* effect is committed once (the header of runOnce).                       *)
EffectOnce == \A k \in Keys : effects[k] <= 1

(* The customer never gets the same message twice, and gets none whose     *)
(* record was rolled back: a skipped delivery sends nothing.               *)
NeverSentTwice == \A k \in Keys : sent[k] <= effects[k]

(* A job is done once and told once. *)
OnceEach == EffectOnce /\ NeverSentTwice

(* What the dead-letter queue holds has finally failed, with its attempts  *)
(* used up, so that an operator who replays it does not run beside it.     *)
DeadIsExhausted == \A j \in dead : queue[j] = "failed" /\ tries[j] = MaxTries

(* Every job that reached the queue is completed or finally fails,         *)
(* whatever happens to the workers that take it.                           *)
JobsEnd == \A j \in Jobs : queue[j] = "waiting" ~> queue[j] \in {"completed", "failed"}

(* A message whose record has been committed is sent some time: what the   *)
(* headers of notification.job and runOnce promise (at-least-once).        *)
(* Refuted by this model: the worker may die between the two               *)
(* (MCJobDelivery.cfg).                                                    *)
RecordedIsSent == \A k \in Keys : k \in claimed ~> sent[k] >= 1
=============================================================================
