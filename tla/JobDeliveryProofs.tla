------------------------- MODULE JobDeliveryProofs -------------------------
(***************************************************************************)
(* Theorems about JobDelivery and Notices, for any jobs, keys, workers and *)
(* attempts, and any users, bookings and devices; and about what comes     *)
(* before a booking, Maps, ServiceStates and Enquiries, for any riders,    *)
(* questions, states, editors, processes and sweepers.                     *)
(***************************************************************************)
EXTENDS Notices, Enquiries, DataTheorems, TLAPS

(* A lock is held on active jobs only, and a job whose attempts are used   *)
(* up has finally failed: it leaves that state no more.                    *)
QueueInv ==
    /\ \A j \in Jobs : lock[j] # NoOne => queue[j] = "active"
    /\ \A j \in Jobs : tries[j] = MaxTries => queue[j] = "failed"

(* The key table and the effects agree.                                    *)
KeyInv == \A k \in Keys : effects[k] = IF k \in claimed THEN 1 ELSE 0

(* A worker about to send is the only one for its key, the record is       *)
(* committed and nothing was sent before.                                  *)
SendInv ==
    /\ \A w \in Workers : At(w, "send") =>
          KeyOf[worker[w].job] \in claimed /\ sent[KeyOf[worker[w].job]] = 0
    /\ \A w, x \in Workers : At(w, "send") /\ At(x, "send") /\ w # x =>
          KeyOf[worker[w].job] # KeyOf[worker[x].job]
    /\ \A k \in Keys : sent[k] <= effects[k]

(* A worker about to copy a job to the dead-letter queue has seen it fail  *)
(* for good.                                                               *)
BuryInv ==
    \A w \in Workers : At(w, "bury") =>
        queue[worker[w].job] = "failed" /\ tries[worker[w].job] = MaxTries

IndInv == TypeOK /\ QueueInv /\ KeyInv /\ SendInv /\ BuryInv /\ DeadIsExhausted

USE JobDeliveryAssumption

(* A worker that is at work has a job and that job a key.                  *)
LEMMA AtWork ==
    ASSUME TypeOK, NEW w \in Workers, worker[w] # Resting
    PROVE  worker[w] \in Work /\ worker[w].job \in Jobs /\ KeyOf[worker[w].job] \in Keys
BY DEF TypeOK, Work

LEMMA AtRest ==
    ASSUME NEW w \in Workers, NEW s, At(w, s), s # "rest"
    PROVE  worker[w] # Resting
BY DEF At, Resting

(* A step of a worker to a later stage of the same job.                    *)
LEMMA ProceedsTyped ==
    ASSUME TypeOK, NEW w \in Workers, worker[w] # Resting,
           NEW s \in {"claim", "send", "ack", "failed", "bury"}, Proceed(w, s)
    PROVE  /\ worker' \in [Workers -> {Resting} \cup Work]
           /\ worker'[w].at = s /\ worker'[w].job = worker[w].job
           /\ \A x \in Workers \ {w} : worker'[x] = worker[x]
<1>1. worker[w] \in Work
  BY AtWork
<1>2. [worker[w] EXCEPT !.at = s] \in Work
  BY <1>1 DEF Work
<1>3. worker' = [worker EXCEPT ![w] = [worker[w] EXCEPT !.at = s]]
  BY DEF Proceed
<1>4. [worker[w] EXCEPT !.at = s].at = s /\ [worker[w] EXCEPT !.at = s].job = worker[w].job
  BY <1>1 DEF Work
<1> QED
  BY <1>2, <1>3, <1>4 DEF TypeOK

LEMMA Rests ==
    ASSUME TypeOK, NEW w \in Workers, Rest(w)
    PROVE  /\ worker' \in [Workers -> {Resting} \cup Work]
           /\ worker'[w].at = "rest"
           /\ \A x \in Workers \ {w} : worker'[x] = worker[x]
BY DEF TypeOK, Rest, Resting

LEMMA Initially == Init => IndInv
BY DEF Init, IndInv, TypeOK, QueueInv, KeyInv, SendInv, BuryInv, DeadIsExhausted, At, Resting

LEMMA EnqueueKeeps ==
    ASSUME IndInv, NEW j \in Jobs, Enqueue(j)
    PROVE  IndInv'
BY DEF Enqueue, IndInv, TypeOK, QueueInv, KeyInv, SendInv, BuryInv, DeadIsExhausted, At

LEMMA TakeKeeps ==
    ASSUME IndInv, NEW w \in Workers, NEW j \in Jobs, Take(w, j)
    PROVE  IndInv'
<1> DEFINE new == [at |-> "claim", job |-> j]
<1>1. new \in Work /\ worker' = [worker EXCEPT ![w] = new]
  BY DEF Take, Work
<1>2. worker'[w].at = "claim" /\ \A x \in Workers \ {w} : worker'[x] = worker[x]
  BY <1>1 DEF IndInv, TypeOK
<1>3. worker' \in [Workers -> {Resting} \cup Work]
  BY <1>1 DEF IndInv, TypeOK
<1>4. TypeOK'
  BY <1>3 DEF IndInv, TypeOK, Take
<1>5. QueueInv'
  BY DEF IndInv, TypeOK, QueueInv, Take
<1>6. KeyInv'
  BY DEF IndInv, KeyInv, Take
<1>7. SendInv'
  BY <1>2 DEF IndInv, SendInv, At, Take
<1>8. BuryInv' /\ DeadIsExhausted'
  BY <1>2 DEF IndInv, BuryInv, DeadIsExhausted, TypeOK, At, Take
<1> QED
  BY <1>4, <1>5, <1>6, <1>7, <1>8 DEF IndInv

(* The commit of a key not claimed before.                                 *)
LEMMA CommitKeeps ==
    ASSUME IndInv, NEW k \in Keys, ~AlreadyDone(k), Committed(k)
    PROVE  /\ claimed' \subseteq Keys /\ effects' \in [Keys -> Nat]
           /\ KeyInv'
           /\ k \in claimed' /\ claimed \subseteq claimed'
           /\ \A l \in Keys : effects[l] <= effects'[l]
           /\ sent[k] = 0
           /\ \A w \in Workers : At(w, "send") => KeyOf[worker[w].job] # k
BY DEF IndInv, TypeOK, KeyInv, SendInv, AlreadyDone, Committed

LEMMA RunOnceKeeps ==
    ASSUME IndInv, NEW w \in Workers, RunOnce(w)
    PROVE  IndInv'
<1> DEFINE k == KeyOf[worker[w].job]
<1>1. TypeOK /\ worker[w] # Resting
  BY AtRest DEF IndInv, RunOnce
<1>2. k \in Keys
  BY <1>1, AtWork
<1>3. QueueInv'
  BY DEF IndInv, QueueInv, RunOnce
<1>4. CASE AlreadyDone(k)
  <2>1. Proceed(w, "ack") /\ UNCHANGED <<claimed, effects>>
    BY <1>4 DEF RunOnce, AfterSkip
  <2>2. /\ worker' \in [Workers -> {Resting} \cup Work]
        /\ worker'[w].at = "ack" /\ \A x \in Workers \ {w} : worker'[x] = worker[x]
    BY <1>1, <2>1, ProceedsTyped
  <2>3. TypeOK' /\ KeyInv'
    BY <2>1, <2>2 DEF IndInv, TypeOK, KeyInv, RunOnce
  <2>4. SendInv' /\ BuryInv' /\ DeadIsExhausted'
    BY <2>1, <2>2 DEF IndInv, SendInv, BuryInv, DeadIsExhausted, At, RunOnce
  <2> QED
    BY <1>3, <2>3, <2>4 DEF IndInv
<1>5. CASE ~AlreadyDone(k)
  <2>1. Proceed(w, "send") /\ Committed(k)
    BY <1>5 DEF RunOnce
  <2>2. /\ worker' \in [Workers -> {Resting} \cup Work]
        /\ worker'[w].at = "send" /\ worker'[w].job = worker[w].job
        /\ \A x \in Workers \ {w} : worker'[x] = worker[x]
    BY <1>1, <2>1, ProceedsTyped
  <2>3. /\ claimed' \subseteq Keys /\ effects' \in [Keys -> Nat] /\ KeyInv'
        /\ k \in claimed' /\ claimed \subseteq claimed'
        /\ \A l \in Keys : effects[l] <= effects'[l]
        /\ sent[k] = 0
        /\ \A x \in Workers : At(x, "send") => KeyOf[worker[x].job] # k
    BY <1>2, <1>5, <2>1, CommitKeeps
  <2>4. TypeOK'
    BY <2>2, <2>3 DEF IndInv, TypeOK, RunOnce
  <2>5. SendInv'
    <3>1. sent' = sent
      BY DEF RunOnce
    <3>2. \A x \in Workers \ {w} : At(x, "send")' => At(x, "send") /\ worker'[x].job = worker[x].job
      BY <2>2 DEF At
    <3>3. \A l \in Keys : sent'[l] <= effects'[l]
      BY <2>3, <3>1 DEF IndInv, SendInv, TypeOK
    <3> QED
      BY <2>2, <2>3, <3>1, <3>2, <3>3 DEF IndInv, SendInv
  <2>6. BuryInv' /\ DeadIsExhausted'
    BY <2>2 DEF IndInv, BuryInv, DeadIsExhausted, At, RunOnce
  <2> QED
    BY <1>3, <2>3, <2>4, <2>5, <2>6 DEF IndInv
<1> QED
  BY <1>4, <1>5

LEMMA RunFailsKeeps ==
    ASSUME IndInv, NEW w \in Workers, RunFails(w)
    PROVE  IndInv'
<1> DEFINE k == KeyOf[worker[w].job]
<1>1. TypeOK /\ worker[w] # Resting /\ Proceed(w, "failed")
  BY AtRest DEF IndInv, RunFails
<1>2. k \in Keys
  BY <1>1, AtWork
<1>3. /\ worker' \in [Workers -> {Resting} \cup Work]
      /\ worker'[w].at = "failed" /\ \A x \in Workers \ {w} : worker'[x] = worker[x]
  BY <1>1, ProceedsTyped
<1>4. QueueInv' /\ BuryInv' /\ DeadIsExhausted'
  BY <1>3 DEF IndInv, QueueInv, BuryInv, DeadIsExhausted, At, RunFails
<1>5. CASE UNCHANGED <<claimed, effects>>
  BY <1>3, <1>4, <1>5 DEF IndInv, TypeOK, KeyInv, SendInv, At, RunFails
<1>6. CASE ~AlreadyDone(k) /\ Committed(k)
  <2>1. /\ claimed' \subseteq Keys /\ effects' \in [Keys -> Nat] /\ KeyInv'
        /\ claimed \subseteq claimed' /\ \A l \in Keys : effects[l] <= effects'[l]
    BY <1>2, <1>6, CommitKeeps
  <2>2. TypeOK'
    BY <1>3, <2>1 DEF IndInv, TypeOK, RunFails
  <2>3. SendInv'
    <3>1. \A l \in Keys : sent'[l] <= effects'[l]
      BY <2>1 DEF IndInv, SendInv, TypeOK, RunFails
    <3> QED
      BY <1>3, <2>1, <3>1 DEF IndInv, SendInv, At, RunFails
  <2> QED
    BY <1>4, <2>1, <2>2, <2>3 DEF IndInv
<1> QED
  BY <1>5, <1>6 DEF RunFails

LEMMA SendKeeps ==
    ASSUME IndInv, NEW w \in Workers, Send(w)
    PROVE  IndInv'
<1> DEFINE k == KeyOf[worker[w].job]
<1>1. TypeOK /\ worker[w] # Resting /\ Proceed(w, "ack")
  BY AtRest DEF IndInv, Send
<1>2. k \in Keys
  BY <1>1, AtWork
<1>3. /\ worker' \in [Workers -> {Resting} \cup Work]
      /\ worker'[w].at = "ack" /\ \A x \in Workers \ {w} : worker'[x] = worker[x]
  BY <1>1, ProceedsTyped
<1>4. TypeOK'
  <2>1. sent' = [sent EXCEPT ![k] = sent[k] + 1] /\ sent[k] + 1 \in Nat
    BY <1>1, <1>2 DEF Send, TypeOK
  <2>2. sent' \in [Keys -> Nat]
    BY <1>1, <2>1 DEF TypeOK
  <2> QED
    BY <1>1, <1>3, <2>2 DEF TypeOK, Send
<1>5. QueueInv' /\ KeyInv' /\ BuryInv' /\ DeadIsExhausted'
  BY <1>3 DEF IndInv, QueueInv, KeyInv, BuryInv, DeadIsExhausted, At, Send
<1>6. SendInv'
  <2>1. k \in claimed /\ sent[k] = 0 /\ effects[k] = 1
    BY <1>2 DEF IndInv, SendInv, KeyInv, Send
  <2>2. sent' = [sent EXCEPT ![k] = 1] /\ effects' = effects /\ claimed' = claimed
    BY <1>2, <2>1 DEF Send, IndInv, TypeOK
  <2>3. \A x \in Workers : At(x, "send")' =>
            At(x, "send") /\ worker'[x] = worker[x] /\ KeyOf[worker[x].job] # k
    BY <1>3 DEF IndInv, SendInv, At, Send
  <2>4. \A x \in Workers : At(x, "send") => KeyOf[worker[x].job] \in Keys
    BY <1>1, AtRest, AtWork
  <2>5. \A l \in Keys : sent'[l] <= effects'[l]
    BY <1>2, <2>1, <2>2 DEF IndInv, SendInv, TypeOK
  <2>6. \A l \in Keys \ {k} : sent'[l] = sent[l]
    BY <2>2 DEF IndInv, TypeOK
  <2> QED
    BY <2>2, <2>3, <2>4, <2>5, <2>6 DEF IndInv, SendInv
<1> QED
  BY <1>4, <1>5, <1>6 DEF IndInv

(* What the steps that end a delivery have in common: no worker comes to   *)
(* send, no key is touched.                                                *)
LEMMA EndOfDelivery ==
    ASSUME IndInv, NEW w \in Workers, \A x \in Workers \ {w} : worker'[x] = worker[x],
           worker'[w].at # "send", UNCHANGED <<claimed, effects, sent>>
    PROVE  KeyInv' /\ SendInv'
BY DEF IndInv, KeyInv, SendInv, At

LEMMA AckKeeps ==
    ASSUME IndInv, NEW w \in Workers, Ack(w)
    PROVE  IndInv'
<1> DEFINE j == worker[w].job
<1>1. TypeOK /\ worker[w] # Resting /\ Rest(w) /\ UNCHANGED <<claimed, effects, sent>>
  BY AtRest DEF IndInv, Ack
<1>2. j \in Jobs
  BY <1>1, AtWork
<1>3. /\ worker' \in [Workers -> {Resting} \cup Work]
      /\ worker'[w].at = "rest" /\ \A x \in Workers \ {w} : worker'[x] = worker[x]
  BY <1>1, Rests
<1>4. KeyInv' /\ SendInv'
  BY <1>1, <1>3, EndOfDelivery
<1>5. /\ queue' \in [Jobs -> {"none", "lost", "waiting", "active", "completed", "failed"}]
      /\ lock' \in [Jobs -> Workers \cup {NoOne}]
      /\ \A i \in Jobs : queue[i] = "failed" => queue'[i] = "failed"
      /\ \A i \in Jobs : lock'[i] # NoOne => queue'[i] = "active"
  BY <1>2 DEF IndInv, TypeOK, QueueInv, Ack, Locked
<1>6. TypeOK' /\ QueueInv'
  BY <1>3, <1>5 DEF IndInv, TypeOK, QueueInv, Ack
<1>7. BuryInv' /\ DeadIsExhausted'
  <2>1. \A x \in Workers : At(x, "bury")' => At(x, "bury") /\ worker'[x] = worker[x]
                                              /\ worker[x].job \in Jobs
    BY <1>1, <1>3, AtRest, AtWork DEF At
  <2> QED
    BY <1>5, <2>1 DEF IndInv, BuryInv, DeadIsExhausted, TypeOK, Ack
<1> QED
  BY <1>4, <1>6, <1>7 DEF IndInv

LEMMA FailedKeeps ==
    ASSUME IndInv, NEW w \in Workers, Failed(w)
    PROVE  IndInv'
<1> DEFINE j == worker[w].job
           next == AfterFailure(tries[j] + 1)
<1>1. TypeOK /\ worker[w] # Resting /\ UNCHANGED <<claimed, effects, sent, dead, kills, stalls>>
  BY AtRest DEF IndInv, Failed
<1>2. j \in Jobs
  BY <1>1, AtWork
<1>3. CASE ~Locked(w)
  <2>1. Rest(w) /\ UNCHANGED <<tries, queue, lock>>
    BY <1>3 DEF Failed
  <2>2. /\ worker' \in [Workers -> {Resting} \cup Work]
        /\ worker'[w].at = "rest" /\ \A x \in Workers \ {w} : worker'[x] = worker[x]
    BY <1>1, <2>1, Rests
  <2>3. KeyInv' /\ SendInv'
    BY <1>1, <2>2, EndOfDelivery
  <2> QED
    BY <1>1, <2>1, <2>2, <2>3 DEF IndInv, TypeOK, QueueInv, BuryInv, DeadIsExhausted, At
<1>4. CASE Locked(w)
  <2>1. /\ tries' = [tries EXCEPT ![j] = tries[j] + 1]
        /\ queue' = [queue EXCEPT ![j] = next]
        /\ lock' = [lock EXCEPT ![j] = NoOne]
    BY <1>4 DEF Failed
  <2>2. queue[j] = "active" /\ tries[j] \in 0 .. MaxTries /\ tries[j] # MaxTries
    BY <1>2, <1>4 DEF IndInv, TypeOK, QueueInv, Locked
  <2>3. /\ tries[j] + 1 \in 0 .. MaxTries
        /\ next \in {"waiting", "failed"} /\ (next = "failed" <=> tries[j] + 1 = MaxTries)
    BY <2>2 DEF AfterFailure
  <2>4. /\ tries' \in [Jobs -> 0 .. MaxTries] /\ lock' \in [Jobs -> Workers \cup {NoOne}]
        /\ queue' \in [Jobs -> {"none", "lost", "waiting", "active", "completed", "failed"}]
    BY <1>1, <1>2, <2>1, <2>3 DEF TypeOK
  <2>5. /\ tries'[j] = tries[j] + 1 /\ queue'[j] = next /\ lock'[j] = NoOne
        /\ \A i \in Jobs \ {j} : tries'[i] = tries[i] /\ queue'[i] = queue[i] /\ lock'[i] = lock[i]
    BY <1>1, <1>2, <2>1 DEF TypeOK
  <2>6. QueueInv'
    BY <2>3, <2>5 DEF IndInv, QueueInv
  <2>7. \A i \in Jobs : queue[i] = "failed" => i # j
    BY <2>2
  <2>8. DeadIsExhausted'
    BY <1>1, <2>5, <2>7 DEF IndInv, DeadIsExhausted, TypeOK
  <2>9. /\ worker' \in [Workers -> {Resting} \cup Work]
        /\ \A x \in Workers \ {w} : worker'[x] = worker[x]
        /\ \/ worker'[w].at = "bury" /\ worker'[w].job = j /\ next = "failed"
           \/ worker'[w].at = "rest"
    <3>1. CASE next = "failed"
      <4>1. Proceed(w, "bury")
        BY <1>4, <3>1 DEF Failed
      <4> QED
        BY <1>1, <3>1, <4>1, ProceedsTyped
    <3>2. CASE next # "failed"
      <4>1. Rest(w)
        BY <1>4, <3>2 DEF Failed
      <4> QED
        BY <1>1, <4>1, Rests
    <3> QED
      BY <3>1, <3>2
  <2>10. KeyInv' /\ SendInv'
    BY <1>1, <2>9, EndOfDelivery
  <2>11. BuryInv'
    <3>1. \A x \in Workers \ {w} : At(x, "bury")' => At(x, "bury") /\ worker'[x] = worker[x]
                                              /\ worker[x].job \in Jobs
      BY <1>1, <2>9, AtRest, AtWork DEF At
    <3>2. At(w, "bury")' => queue'[worker'[w].job] = "failed" /\ tries'[worker'[w].job] = MaxTries
      BY <2>3, <2>5, <2>9 DEF At
    <3> QED
      BY <2>5, <2>7, <3>1, <3>2 DEF IndInv, BuryInv
  <2>12. TypeOK'
    BY <1>1, <2>4, <2>9 DEF TypeOK
  <2> QED
    BY <2>6, <2>8, <2>10, <2>11, <2>12 DEF IndInv
<1> QED
  BY <1>3, <1>4

LEMMA BuryKeeps ==
    ASSUME IndInv, NEW w \in Workers, Bury(w)
    PROVE  IndInv'
<1>1. /\ TypeOK /\ worker[w] # Resting /\ Rest(w)
      /\ UNCHANGED <<queue, lock, tries, claimed, effects, sent, kills, stalls>>
  BY AtRest DEF IndInv, Bury
<1>2. worker[w].job \in Jobs
  BY <1>1, AtWork
<1>3. /\ worker' \in [Workers -> {Resting} \cup Work]
      /\ worker'[w].at = "rest" /\ \A x \in Workers \ {w} : worker'[x] = worker[x]
  BY <1>1, Rests
<1>4. KeyInv' /\ SendInv'
  BY <1>1, <1>3, EndOfDelivery
<1>5. TypeOK' /\ QueueInv'
  BY <1>1, <1>2, <1>3 DEF IndInv, TypeOK, QueueInv, Bury
<1>6. BuryInv' /\ DeadIsExhausted'
  BY <1>1, <1>3 DEF IndInv, BuryInv, DeadIsExhausted, At, Bury
<1> QED
  BY <1>4, <1>5, <1>6 DEF IndInv

LEMMA KillKeeps ==
    ASSUME IndInv, NEW w \in Workers, Kill(w)
    PROVE  IndInv'
<1>1. /\ TypeOK /\ Rest(w)
      /\ UNCHANGED <<queue, lock, tries, claimed, effects, sent, dead, stalls>>
  BY DEF IndInv, Kill
<1>2. /\ worker' \in [Workers -> {Resting} \cup Work]
      /\ worker'[w].at = "rest" /\ \A x \in Workers \ {w} : worker'[x] = worker[x]
  BY <1>1, Rests
<1>3. KeyInv' /\ SendInv'
  BY <1>1, <1>2, EndOfDelivery DEF IndInv
<1>4. TypeOK' /\ QueueInv'
  BY <1>1, <1>2 DEF IndInv, TypeOK, QueueInv, Kill
<1>5. BuryInv' /\ DeadIsExhausted'
  BY <1>1, <1>2 DEF IndInv, BuryInv, DeadIsExhausted, At
<1> QED
  BY <1>3, <1>4, <1>5 DEF IndInv

(* A job whose lock is found expired goes back to the queue.               *)
LEMMA RequeueKeeps ==
    ASSUME IndInv, NEW j \in Jobs, Recover(j) \/ Stall(j)
    PROVE  IndInv'
<1>1. /\ queue[j] = "active"
      /\ queue' = [queue EXCEPT ![j] = "waiting"] /\ lock' = [lock EXCEPT ![j] = NoOne]
      /\ UNCHANGED <<tries, worker, claimed, effects, sent, dead, kills>>
      /\ stalls' \in 0 .. MaxStalls
  BY DEF IndInv, TypeOK, Recover, Stall
<1>2. TypeOK' /\ QueueInv' /\ KeyInv' /\ SendInv' /\ DeadIsExhausted'
  BY <1>1 DEF IndInv, TypeOK, QueueInv, KeyInv, SendInv, DeadIsExhausted, At
<1>3. BuryInv'
  BY <1>1 DEF IndInv, TypeOK, BuryInv, At
<1> QED
  BY <1>2, <1>3 DEF IndInv

LEMMA StutterKeeps == IndInv /\ UNCHANGED vars => IndInv'
BY DEF vars, IndInv, TypeOK, QueueInv, KeyInv, SendInv, BuryInv, DeadIsExhausted, At

(* The strengthened invariant holds in every reachable state.              *)
THEOREM Inductive == Spec => []IndInv
<1>1. IndInv /\ [Next]_vars => IndInv'
  <2> SUFFICES ASSUME IndInv, [Next]_vars PROVE IndInv'
    OBVIOUS
  <2>1. CASE UNCHANGED vars
    BY <2>1, StutterKeeps
  <2>2. ASSUME NEW j \in Jobs, Enqueue(j) \/ Recover(j) \/ Stall(j) PROVE IndInv'
    BY <2>2, EnqueueKeeps, RequeueKeeps
  <2>3. ASSUME NEW j \in Jobs, NEW w \in Workers, Take(w, j) PROVE IndInv'
    BY <2>3, TakeKeeps
  <2>4. ASSUME NEW w \in Workers, WorkerStep(w) \/ Kill(w) PROVE IndInv'
    BY <2>4, RunOnceKeeps, RunFailsKeeps, SendKeeps, AckKeeps, FailedKeeps, BuryKeeps, KillKeeps
       DEF WorkerStep
  <2> QED
    BY <2>1, <2>2, <2>3, <2>4 DEF Next
<1> QED
  BY <1>1, Initially, PTL DEF Spec

(* Type correctness; in particular no job is tried more often than         *)
(* defaultJobOptions allows.                                               *)
THEOREM Typed == Spec => []TypeOK
<1>1. IndInv => TypeOK
  BY DEF IndInv
<1> QED
  BY <1>1, Inductive, PTL

(* runOnce's promise: whatever is delivered twice, killed or raced, one    *)
(* effect is committed for a key.                                          *)
THEOREM EffectHappensOnce == Spec => []EffectOnce
<1>1. IndInv => EffectOnce
  BY DEF IndInv, TypeOK, KeyInv, EffectOnce
<1> QED
  BY <1>1, Inductive, PTL

(* The customer is never sent a message twice, nor one without a record.   *)
THEOREM MessageNeverRepeated == Spec => []NeverSentTwice
<1>1. IndInv => NeverSentTwice
  BY DEF IndInv, SendInv, NeverSentTwice
<1> QED
  BY <1>1, Inductive, PTL

(* A job in the dead-letter queue is not tried any more.                   *)
THEOREM DeadLettersAreExhausted == Spec => []DeadIsExhausted
<1>1. IndInv => DeadIsExhausted
  BY DEF IndInv
<1> QED
  BY <1>1, Inductive, PTL

-----------------------------------------------------------------------------
(* The notices and the queue that carries them. *)

(* Only an admin's confirmation makes a trip remindable, and what is due,  *)
(* queued or heard of reminders is of such trips; the notice of that       *)
(* confirmation reaches no ear.                                            *)
NoticeInv ==
    /\ rides = [b \in Bookings |-> rides[b]] /\ stage = [n \in Notice |-> stage[n]]
    /\ \A b \in Bookings : rides[b] \in Remindable => b \in agreed
    /\ due \subseteq agreed \cap Bookings
    /\ \A n \in Notice :
          /\ n[1] = "TRIP_REMINDER" /\ stage[n] # "none" => n[2] \in agreed
          /\ n[1] = "BOOKING_CONFIRMED" => stage[n] # "deliver"
    /\ \A m \in heard :
          m[1][1] # "BOOKING_CONFIRMED" /\ (m[1][1] = "TRIP_REMINDER" => m[1][2] \in agreed)

LEMMA NoticeInitially == NoticeInit => NoticeInv
BY DEF NoticeInit, NoticeInv, Remindable, Notice

(* A notice that is queued is for a trip that may be reminded of. *)
LEMMA QueueKeeps ==
    ASSUME NoticeInv, NEW type, NEW b \in Bookings, Added(type, b),
           type = "TRIP_REMINDER" => b \in agreed', agreed \subseteq agreed'
    PROVE  /\ stage' = [n \in Notice |-> stage'[n]]
           /\ \A n \in Notice :
                 /\ n[1] = "TRIP_REMINDER" /\ stage'[n] # "none" => n[2] \in agreed'
                 /\ n[1] = "BOOKING_CONFIRMED" => stage'[n] # "deliver"
<1>1. CASE UNCHANGED stage
  BY <1>1 DEF NoticeInv
<1>2. CASE type \in NoticeTypes /\ stage' = [stage EXCEPT ![<<type, b>>] = "queued"]
  <2>1. \A n \in Notice : stage'[n] = IF n = <<type, b>> THEN "queued" ELSE stage[n]
    BY <1>2 DEF NoticeInv
  <2>2. stage' = [n \in Notice |-> stage'[n]]
    BY <1>2 DEF NoticeInv
  <2> QED
    BY <2>1, <2>2 DEF NoticeInv
<1> QED
  BY <1>1, <1>2 DEF Added, Queue

LEMMA DeskKeeps == ASSUME NoticeInv, Desk PROVE NoticeInv'
<1>1. ASSUME NEW b \in Bookings, Book(b) \/ Confirm(b) \/ Allocate(b) \/ EnRoute(b) \/ Cancel(b)
      PROVE  NoticeInv'
  <2>1. /\ agreed \subseteq agreed' /\ due' = due /\ heard' = heard
        /\ \/ \E type \in {"BOOKING_RECEIVED", "BOOKING_CONFIRMED", "DRIVER_ASSIGNED", "BOOKING_CANCELLED"} :
                 Added(type, b)
           \/ UNCHANGED stage
    BY <1>1 DEF Desk, Book, Confirm, Allocate, EnRoute, Cancel, sendVars
  <2> DEFINE Staged ==
        /\ stage' = [n \in Notice |-> stage'[n]]
        /\ \A n \in Notice :
              /\ n[1] = "TRIP_REMINDER" /\ stage'[n] # "none" => n[2] \in agreed'
              /\ n[1] = "BOOKING_CONFIRMED" => stage'[n] # "deliver"
  <2>2. Staged
    <3>1. CASE UNCHANGED stage
      BY <2>1, <3>1 DEF NoticeInv
    <3>2. ASSUME NEW type \in {"BOOKING_RECEIVED", "BOOKING_CONFIRMED", "DRIVER_ASSIGNED", "BOOKING_CANCELLED"},
                 Added(type, b)
          PROVE  Staged
      BY <2>1, <3>2, QueueKeeps
    <3> QED
      BY <2>1, <3>1, <3>2
  <2>3. rides' = [c \in Bookings |-> rides'[c]]
        /\ \A c \in Bookings : rides'[c] \in Remindable => c \in agreed'
    BY <1>1 DEF NoticeInv, Book, Confirm, Allocate, EnRoute, Cancel, Turn, Remindable
  <2> QED
    BY <2>1, <2>2, <2>3 DEF NoticeInv
<1>2. CASE SweepRead
  BY <1>2 DEF Desk, SweepRead, NoticeInv
<1>3. ASSUME NEW b \in Bookings, SweepQueue(b) PROVE NoticeInv'
  <2>1. /\ UNCHANGED <<rides, agreed, heard>> /\ due' \subseteq due /\ Added("TRIP_REMINDER", b)
        /\ b \in agreed'
    BY <1>3 DEF Desk, SweepQueue, NoticeInv
  <2>2. /\ stage' = [n \in Notice |-> stage'[n]]
        /\ \A n \in Notice :
              /\ n[1] = "TRIP_REMINDER" /\ stage'[n] # "none" => n[2] \in agreed'
              /\ n[1] = "BOOKING_CONFIRMED" => stage'[n] # "deliver"
    BY <2>1, QueueKeeps
  <2> QED
    BY <2>1, <2>2 DEF NoticeInv
<1> QED
  BY <1>1, <1>2, <1>3 DEF Desk

LEMMA HandleKeeps == ASSUME NoticeInv, Handle PROVE NoticeInv'
<1>1. PICK n \in Notice :
         Record(n) \/ SendText(n) \/ ReadDevices(n) \/ Push(n) \/ Mail(n) \/ Drop(n)
  BY DEF Handle
<1>2. UNCHANGED <<rides, due, agreed>>
  BY DEF Handle, deskVars
<1>3. stage[n] # "none"
  BY <1>1 DEF Record, SendText, ReadDevices, Push, Mail, Drop, Proceeds
<1>4. stage' = [k \in Notice |-> stage'[k]] /\ \A k \in Notice \ {n} : stage'[k] = stage[k]
  BY <1>1 DEF NoticeInv, Record, SendText, ReadDevices, Push, Mail, Drop, Proceeds
<1>5. n[1] = "BOOKING_CONFIRMED" => stage'[n] # "deliver" /\ heard' = heard
  <2> SUFFICES ASSUME n[1] = "BOOKING_CONFIRMED"
               PROVE  stage'[n] # "deliver" /\ heard' = heard
    OBVIOUS
  <2>1. ASSUME Reach(n, {}) PROVE heard' = heard
    BY <2>1 DEF Reach
  <2>2. CASE SendText(n)
    BY <2>1, <2>2 DEF SendText, Proceeds, Templates, SmsKind, NoticeInv
  <2>3. CASE Mail(n)
    BY <2>1, <2>3 DEF Mail, Proceeds, EmailTypes, NoticeInv
  <2>4. CASE ReadDevices(n)
    BY <2>4 DEF ReadDevices, Proceeds, PushTypes, NoticeInv
  <2>5. ~Push(n)
    BY DEF Push, Proceeds, NoticeInv
  <2>6. CASE Record(n) \/ Drop(n)
    BY <2>6 DEF Record, Drop, Proceeds, NoticeInv
  <2> QED
    BY <1>1, <2>2, <2>3, <2>4, <2>5, <2>6
<1>6. \A m \in heard' \ heard : m[1] = n
  <2>1. heard' = heard \/ \E ears : Reach(n, ears)
    BY <1>1 DEF Record, SendText, ReadDevices, Push, Mail, Drop
  <2>2. ASSUME NEW ears, Reach(n, ears), NEW m \in heard' \ heard PROVE m[1] = n
    <3>1. PICK told \in SUBSET ears : heard' = heard \cup ({n} \X told)
      BY <2>2 DEF Reach
    <3>2. m \in {n} \X told
      BY <2>2, <3>1
    <3> QED
      BY <3>2
  <2> QED
    BY <2>1, <2>2
<1>7. \A m \in heard' :
         m[1][1] # "BOOKING_CONFIRMED" /\ (m[1][1] = "TRIP_REMINDER" => m[1][2] \in agreed')
  BY <1>2, <1>3, <1>5, <1>6 DEF NoticeInv
<1>8. \A k \in Notice :
         /\ k[1] = "TRIP_REMINDER" /\ stage'[k] # "none" => k[2] \in agreed'
         /\ k[1] = "BOOKING_CONFIRMED" => stage'[k] # "deliver"
  BY <1>2, <1>3, <1>4, <1>5 DEF NoticeInv
<1> QED
  BY <1>2, <1>4, <1>7, <1>8 DEF NoticeInv

LEMMA NoticesInductive == NoticesSpec => []NoticeInv
<1>1. NothingSent => NoticeInv
  BY NoticeInitially DEF NothingSent
<1>2. NoticeInv /\ [ \/ Next /\ UNCHANGED noticeVars
                     \/ NoticesNext /\ UNCHANGED vars ]_AllVars => NoticeInv'
  <2> SUFFICES ASSUME NoticeInv, [ \/ Next /\ UNCHANGED noticeVars
                                   \/ NoticesNext /\ UNCHANGED vars ]_AllVars
               PROVE  NoticeInv'
    OBVIOUS
  <2>1. CASE UNCHANGED noticeVars
    BY <2>1 DEF noticeVars, deskVars, sendVars, NoticeInv
  <2>2. CASE Phones
    BY <2>2 DEF Phones, deskVars, sendVars, NoticeInv
  <2> QED
    BY <2>1, <2>2, DeskKeeps, HandleKeeps DEF AllVars, NoticesNext
<1> QED
  BY <1>1, <1>2, PTL DEF NoticesSpec

(* Whatever the type of a notice, the devices and the failures, a rider    *)
(* hears "confirmed" once through each ear and is reminded only of a trip  *)
(* an admin has agreed to run (notify.provider, sms.service,               *)
(* tripReminderSweeper).                                                   *)
THEOREM RidersToldTruly == NoticesSpec => []ToldTruly
<1>1. NoticeInv => ToldTruly
  <2> SUFFICES ASSUME NoticeInv PROVE ToldTruly
    OBVIOUS
  <2>1. ASSUME NEW b \in Bookings, NEW via,
               {<<"BOOKING_RECEIVED", b>>, <<"BOOKING_CONFIRMED", b>>} \X {via} \subseteq heard
        PROVE  FALSE
    <3> DEFINE m == << <<"BOOKING_CONFIRMED", b>>, via >>
    <3>1. m \in heard
      BY <2>1
    <3>2. m[1][1] = "BOOKING_CONFIRMED"
      OBVIOUS
    <3> QED
      BY <3>1, <3>2 DEF NoticeInv
  <2> QED
    BY <2>1 DEF NoticeInv, ToldTruly
<1> QED
  BY <1>1, NoticesInductive, PTL

(* The rows a user would be left with once the registrations under way     *)
(* have trimmed.                                                           *)
Spared(u) ==
    { d \in DevicesOf(u) : \A p \in Taps : taps[p].at = "trim" /\ taps[p].user = u => d.id \notin taps[p].ids }

(* A user of whom nothing failed and whose rows nobody is about to count   *)
(* is left with few enough; no two rows were seen last by one registration.*)
DeviceInv ==
    /\ NoticeTypeOK /\ IsFiniteSet(devices)
    /\ \A d \in devices : d.seen <= registered
    /\ \A d, e \in devices : d.seen = e.seen => d = e
    /\ \A u \in Users : \/ u \in untrimmed
                        \/ \E p \in Taps : taps[p].at = "count" /\ taps[p].user = u
                        \/ Cardinality(Spared(u)) <= MaxTokens

(* Of rows seen at different times, those with fewer than n seen later are *)
(* at most n.                                                              *)
LEMMA FewSeenLast ==
    ASSUME NEW S, IsFiniteSet(S), NEW n \in Nat,
           \A d \in S : d.seen \in Nat, \A d, e \in S : d.seen = e.seen => d = e
    PROVE  Cardinality({d \in S : Cardinality({e \in S : e.seen > d.seen}) < n}) <= n
<1> DEFINE Later(d) == {e \in S : e.seen > d.seen}
           K == {d \in S : Cardinality(Later(d)) < n}
           UpTo(d) == {e \in K : e.seen <= d.seen}
<1>1. /\ IsFiniteSet(K) /\ Cardinality(K) \in Nat /\ K \subseteq S
      /\ \A d \in K : Cardinality(Later(d)) < n
  BY FS_Subset, FS_CardinalityType
<1>2. \A d \in S : /\ IsFiniteSet(Later(d)) /\ Cardinality(Later(d)) \in Nat
                  /\ \A e \in S : e \in Later(d) <=> e.seen > d.seen
  BY FS_Subset, FS_CardinalityType
<1> SUFFICES Cardinality(K) <= n
  OBVIOUS
<1> HIDE DEF K, Later
<1>3. \A d \in K : UpTo(d) \subseteq K /\ \A e \in K : e \in UpTo(d) <=> e.seen <= d.seen
  OBVIOUS
<1> HIDE DEF UpTo
<1>4. CASE K = {}
  <2>1. Cardinality(K) = 0
    BY <1>4, FS_EmptySet
  <2> QED
    BY <2>1
<1>5. CASE K # {}
  <2> DEFINE T == {UpTo(d) : d \in K}
  <2>1. T \in SUBSET SUBSET K /\ T # {}
    BY <1>3, <1>5
  <2>2. \A d \in K : UpTo(d) \in T
    OBVIOUS
  <2>3. \A s \in T : \E d \in K : s = UpTo(d)
    OBVIOUS
  <2> HIDE DEF T
  <2>4. PICK s \in T : \A t \in T : t \subseteq s => t = s
    BY <1>1, <2>1, MinimalSubset
  <2>5. PICK d \in K : s = UpTo(d)
    BY <2>3
  <2>6. ASSUME NEW e \in K, e.seen < d.seen PROVE FALSE
    <3>1. e.seen \in Nat /\ d.seen \in Nat
      BY <1>1
    <3>2. ASSUME NEW x \in UpTo(e) PROVE x \in UpTo(d)
      <4>1. x \in K /\ x.seen \in Nat /\ x.seen <= e.seen
        BY <1>1, <1>3, <3>2
      <4> QED
        BY <1>3, <2>6, <3>1, <4>1
    <3>3. UpTo(e) = UpTo(d)
      BY <2>2, <2>4, <2>5, <3>2
    <3>4. d \in UpTo(d) /\ d \notin UpTo(e)
      BY <1>3, <2>6, <3>1
    <3> QED
      BY <3>3, <3>4
  <2>7. K \ {d} \subseteq Later(d)
    <3> SUFFICES ASSUME NEW e \in K, e # d PROVE e \in Later(d)
      OBVIOUS
    <3>1. e \in S /\ d \in S /\ e.seen \in Nat /\ d.seen \in Nat /\ e.seen # d.seen
      BY <1>1
    <3> QED
      BY <1>2, <2>6, <3>1
  <2>8. Cardinality(K \ {d}) <= Cardinality(Later(d)) /\ Cardinality(K \ {d}) = Cardinality(K) - 1
    BY <1>1, <1>2, <2>7, FS_Subset, FS_RemoveElement
  <2> QED
    BY <1>1, <1>2, <2>8
<1> QED
  BY <1>4, <1>5

(* What a user's rows are without those beyond the limit.                  *)
LEMMA SparedOfExcess ==
    ASSUME DeviceInv, NEW u \in Users
    PROVE  /\ IsFiniteSet(DevicesOf(u))
           /\ Cardinality({d \in DevicesOf(u) : d.id \notin Excess(u)}) <= MaxTokens
<1> DEFINE S == DevicesOf(u)
           Last == {d \in S : Cardinality({e \in S : e.seen > d.seen}) < MaxTokens}
           Left == {d \in S : d.id \notin Excess(u)}
<1>1. S \subseteq devices /\ IsFiniteSet(S) /\ MaxTokens \in Nat
  BY FS_Subset, NoticesAssumption DEF DeviceInv, DevicesOf
<1>2. \A d \in S : d.seen \in Nat
  BY <1>1 DEF DeviceInv, NoticeTypeOK, Device
<1>3. \A d, e \in S : d.seen = e.seen => d = e
  BY <1>1 DEF DeviceInv
<1>4. Cardinality(Last) <= MaxTokens /\ IsFiniteSet(Last) /\ Cardinality(Last) \in Nat
  BY <1>1, <1>2, <1>3, FewSeenLast, FS_Subset, FS_CardinalityType
<1>5. Left \subseteq Last
  <2> SUFFICES ASSUME NEW d \in Left PROVE d \in Last
    OBVIOUS
  <2>1. IsFiniteSet({e \in S : e.seen > d.seen})
    BY <1>1, FS_Subset
  <2>2. Cardinality({e \in S : e.seen > d.seen}) \in Nat
    BY <2>1, FS_CardinalityType
  <2>3. d \notin Beyond(u, MaxTokens)
    BY DEF Excess
  <2> QED
    BY <1>1, <2>2, <2>3 DEF Beyond
<1>6. Cardinality(Left) <= Cardinality(Last) /\ Cardinality(Left) \in Nat
  BY <1>4, <1>5, FS_Subset, FS_CardinalityType
<1> QED
  BY <1>1, <1>4, <1>6

(* Rows that are only deleted, with registrations that stay as they are.   *)
LEMMA DevicesFewer ==
    ASSUME DeviceInv, NoticeTypeOK', devices' \subseteq devices, UNCHANGED <<taps, registered, untrimmed>>
    PROVE  DeviceInv'
<1>1. IsFiniteSet(devices')
  BY FS_Subset DEF DeviceInv
<1>2. ASSUME NEW u \in Users, Cardinality(Spared(u)) <= MaxTokens
      PROVE  Cardinality(Spared(u)') <= MaxTokens
  <2>1. Spared(u)' \subseteq Spared(u) /\ Spared(u) \subseteq devices
    BY DEF Spared, DevicesOf
  <2>2. IsFiniteSet(Spared(u)) /\ Cardinality(Spared(u)) \in Nat
    BY <2>1, FS_Subset, FS_CardinalityType DEF DeviceInv
  <2>3. Cardinality(Spared(u)') <= Cardinality(Spared(u)) /\ Cardinality(Spared(u)') \in Nat
    BY <2>1, <2>2, FS_Subset, FS_CardinalityType
  <2> QED
    BY <1>2, <2>2, <2>3, NoticesAssumption
<1> QED
  BY <1>1, <1>2 DEF DeviceInv

LEMMA NoticesTyped ==
    ASSUME NoticeTypeOK, Desk \/ Handle
    PROVE  NoticeTypeOK' /\ devices' \subseteq devices /\ UNCHANGED <<taps, registered, untrimmed>>
<1>1. CASE Desk
  <2>1. ASSUME NEW b \in Bookings, Book(b) \/ Confirm(b) \/ Allocate(b) \/ EnRoute(b) \/ Cancel(b)
        PROVE  /\ rides' \in [Bookings -> {"NONE", "PENDING", "CONFIRMED", "ALLOCATED", "EN_ROUTE", "CANCELLED"}]
               /\ due' \subseteq Bookings /\ agreed' \subseteq Bookings
               /\ UNCHANGED stage \/ \E type : \E c \in Bookings : Queue(type, c)
    BY <2>1 DEF NoticeTypeOK, Book, Confirm, Allocate, EnRoute, Cancel, Turn, Added
  <2>2. ASSUME SweepRead \/ \E b \in Bookings : SweepQueue(b)
        PROVE  /\ UNCHANGED <<rides, agreed>> /\ due' \subseteq Bookings
               /\ UNCHANGED stage \/ \E type : \E c \in Bookings : Queue(type, c)
    BY <2>2 DEF NoticeTypeOK, SweepRead, SweepQueue, Added
  <2>3. ASSUME NEW type, NEW b \in Bookings, Queue(type, b)
        PROVE  stage' \in [Notice -> {"none", "queued", "text", "push", "deliver", "mail", "over"}]
    BY <2>3 DEF NoticeTypeOK, Queue, Notice
  <2>4. /\ rides' \in [Bookings -> {"NONE", "PENDING", "CONFIRMED", "ALLOCATED", "EN_ROUTE", "CANCELLED"}]
        /\ due' \subseteq Bookings /\ agreed' \subseteq Bookings
        /\ UNCHANGED stage \/ \E type : \E c \in Bookings : Queue(type, c)
    BY <1>1, <2>1, <2>2 DEF Desk, NoticeTypeOK
  <2>5. stage' \in [Notice -> {"none", "queued", "text", "push", "deliver", "mail", "over"}]
    BY <2>3, <2>4 DEF NoticeTypeOK
  <2>6. UNCHANGED <<addressed, heard, devices, taps, registered, untrimmed>>
    BY <1>1 DEF Desk, deviceVars
  <2> QED
    BY <2>4, <2>5, <2>6 DEF NoticeTypeOK
<1>2. CASE Handle
  <2>1. PICK n \in Notice : Record(n) \/ SendText(n) \/ ReadDevices(n) \/ Push(n) \/ Mail(n) \/ Drop(n)
    BY <1>2 DEF Handle
  <2>2. UNCHANGED <<rides, due, agreed, taps, registered, untrimmed>>
    BY <1>2 DEF Handle, deskVars
  <2>3. stage' \in [Notice -> {"none", "queued", "text", "push", "deliver", "mail", "over"}]
    BY <2>1 DEF NoticeTypeOK, Record, SendText, ReadDevices, Push, Mail, Drop, Proceeds
  <2>4. devices' \subseteq devices
    BY <2>1 DEF Record, SendText, ReadDevices, Push, Mail, Drop
  <2>5. addressed' \in [Notice -> SUBSET Tokens]
    <3>1. \A u : { d.token : d \in DevicesOf(u) } \subseteq Tokens
      BY DEF NoticeTypeOK, DevicesOf, Device
    <3>2. CASE ReadDevices(n)
      BY <3>1, <3>2 DEF NoticeTypeOK, ReadDevices
    <3>3. CASE ~ReadDevices(n)
      BY <2>1, <3>3 DEF NoticeTypeOK, Record, SendText, Push, Mail, Drop
    <3> QED
      BY <3>2, <3>3
  <2>6. heard' \subseteq Notice \X ({"text", "mail"} \cup Tokens)
    <3>1. ASSUME NEW ears \in SUBSET ({"text", "mail"} \cup Tokens), Reach(n, ears)
          PROVE  heard' \subseteq Notice \X ({"text", "mail"} \cup Tokens)
      BY <3>1 DEF Reach, NoticeTypeOK
    <3>2. addressed[n] \subseteq Tokens
      BY DEF NoticeTypeOK
    <3>3. CASE SendText(n) \/ Mail(n)
      BY <3>1, <3>3 DEF SendText, Mail
    <3>4. CASE Push(n)
      <4>1. PICK gone \in SUBSET addressed[n] : Reach(n, addressed[n] \ gone)
        BY <3>4 DEF Push
      <4> QED
        BY <3>1, <3>2, <4>1
    <3>5. CASE Record(n) \/ ReadDevices(n) \/ Drop(n)
      BY <3>5 DEF Record, ReadDevices, Drop, NoticeTypeOK
    <3> QED
      BY <2>1, <3>3, <3>4, <3>5
  <2> QED
    BY <2>2, <2>3, <2>4, <2>5, <2>6 DEF NoticeTypeOK
<1> QED
  BY <1>1, <1>2

(* What a slot may hold.                                                   *)
TapSet == {NoTap} \cup [at : {"count"}, user : Users]
             \cup [at : {"trim"}, user : Users, ids : SUBSET (1 .. MaxRegistrations)]

LEMMA TapIs ==
    ASSUME DeviceInv, NEW p \in Taps
    PROVE  /\ taps \in [Taps -> TapSet] /\ taps[p] \in TapSet
           /\ taps[p] = NoTap \/ taps[p].at \in {"count", "trim"}
           /\ taps[p] # NoTap => taps[p].user \in Users
           /\ NoTap.at = "idle"
<1>1. taps \in [Taps -> TapSet] /\ taps[p] \in TapSet
  BY DEF DeviceInv, NoticeTypeOK, TapSet
<1> QED
  BY <1>1 DEF TapSet, NoTap

LEMMA RegisterKeeps ==
    ASSUME DeviceInv, NEW p \in Taps, NEW u \in Users, NEW t \in Tokens, Register(p, u, t),
           UNCHANGED <<deskVars, sendVars>>
    PROVE  DeviceInv'
<1> DEFINE old == { d \in devices : d.token = t }
<1>0. /\ registered \in Nat /\ registered + 1 \in 1 .. MaxRegistrations /\ registered' = registered + 1
      /\ devices \subseteq Device /\ MaxRegistrations \in Nat /\ MaxTokens \in Nat /\ taps[p] = NoTap
      /\ UNCHANGED untrimmed /\ untrimmed \subseteq Users
  BY NoticesAssumption DEF Register, DeviceInv, NoticeTypeOK
<1>1. PICK id : /\ id \in IF old = {} THEN {registered'} ELSE { d.id : d \in old }
                /\ devices' = (devices \ old) \cup {[token |-> t, user |-> u, id |-> id, seen |-> registered']}
  BY DEF Register
<1> DEFINE row == [token |-> t, user |-> u, id |-> id, seen |-> registered']
<1>2. id \in 1 .. MaxRegistrations
  BY <1>0, <1>1 DEF Device
<1>3. row \in Device /\ row.seen = registered + 1 /\ row.user = u
  BY <1>0, <1>2 DEF Device
<1>4. devices' = (devices \ old) \cup {row}
  BY <1>1
<1> HIDE DEF row
<1>5. devices' \subseteq Device /\ IsFiniteSet(devices')
  <2>1. IsFiniteSet(devices \ old)
    BY FS_Subset DEF DeviceInv
  <2> QED
    BY <1>0, <1>3, <1>4, <2>1, FS_AddElement
<1>6. \A d \in devices' : d.seen <= registered'
  BY <1>0, <1>3, <1>4 DEF DeviceInv, Device
<1>7. \A d, e \in devices' : d.seen = e.seen => d = e
  BY <1>0, <1>3, <1>4 DEF DeviceInv, Device
<1> DEFINE tap == [at |-> "count", user |-> u]
<1>8. tap \in TapSet /\ tap.at = "count" /\ tap.user = u
  BY DEF TapSet
<1> HIDE DEF tap
<1>9. /\ taps' = [taps EXCEPT ![p] = tap] /\ taps' \in [Taps -> TapSet]
      /\ taps' = [q \in Taps |-> IF q = p THEN tap ELSE taps[q]]
  BY <1>8, TapIs DEF Register, tap
<1>10. NoticeTypeOK'
  BY <1>0, <1>5, <1>9 DEF DeviceInv, NoticeTypeOK, TapSet, deskVars, sendVars
<1>11. ASSUME NEW v \in Users, v # u, Cardinality(Spared(v)) <= MaxTokens
       PROVE  Cardinality(Spared(v)') <= MaxTokens
  <2>1. Spared(v)' \subseteq Spared(v)
    <3> SUFFICES ASSUME NEW d \in Spared(v)' PROVE d \in Spared(v)
      OBVIOUS
    <3>1. /\ d \in devices' /\ d.user = v
          /\ \A q \in Taps : taps'[q].at = "trim" /\ taps'[q].user = v => d.id \notin taps'[q].ids
      BY DEF Spared, DevicesOf
    <3>2. d \in devices
      BY <1>3, <1>4, <1>11, <3>1
    <3>3. \A q \in Taps : taps[q].at = "trim" => q # p /\ taps'[q] = taps[q]
      BY <1>0, <1>9, TapIs
    <3> QED
      BY <3>1, <3>2, <3>3 DEF Spared, DevicesOf
  <2>2. Spared(v) \subseteq devices
    BY DEF Spared, DevicesOf
  <2>3. IsFiniteSet(Spared(v)) /\ Cardinality(Spared(v)) \in Nat
    BY <2>2, FS_Subset, FS_CardinalityType DEF DeviceInv
  <2>4. Cardinality(Spared(v)') <= Cardinality(Spared(v)) /\ Cardinality(Spared(v)') \in Nat
    BY <2>1, <2>3, FS_Subset, FS_CardinalityType
  <2> QED
    BY <1>0, <1>11, <2>3, <2>4
<1>12. taps'[p].at = "count" /\ taps'[p].user = u
  BY <1>8, <1>9
<1>13. \A q \in Taps : taps[q].at = "count" => taps'[q] = taps[q]
  BY <1>0, <1>9, TapIs
<1>14. ASSUME NEW v \in Users
       PROVE  \/ v \in untrimmed'
              \/ \E q \in Taps : taps'[q].at = "count" /\ taps'[q].user = v
              \/ Cardinality(Spared(v)') <= MaxTokens
  <2>1. CASE v = u
    BY <1>12, <2>1
  <2>2. CASE v # u
    BY <1>0, <1>11, <1>13, <2>2 DEF DeviceInv
  <2> QED
    BY <2>1, <2>2
<1> QED
  BY <1>5, <1>6, <1>7, <1>10, <1>14 DEF DeviceInv

(* Rows beyond the limit are about to go, or there are none.               *)
LEMMA CountKeeps ==
    ASSUME DeviceInv, NEW p \in Taps, NEW u \in Users, taps[p].user = u, Count(p),
           UNCHANGED <<deskVars, sendVars>>
    PROVE  DeviceInv'
<1> DEFINE next == IF Excess(u) = {} THEN NoTap ELSE [at |-> "trim", user |-> u, ids |-> Excess(u)]
<1>0. /\ taps[p].at = "count" /\ UNCHANGED <<devices, registered>>
      /\ untrimmed' = untrimmed \ {u} /\ taps' = [taps EXCEPT ![p] = next]
      /\ NoTap.at = "idle" /\ MaxTokens \in Nat
  BY TapIs, NoticesAssumption DEF Count
<1>1. Excess(u) \subseteq 1 .. MaxRegistrations
  <2> SUFFICES ASSUME NEW d \in Beyond(u, MaxTokens) PROVE d.id \in 1 .. MaxRegistrations
    BY DEF Excess
  <2> QED
    BY DEF Beyond, DevicesOf, DeviceInv, NoticeTypeOK, Device
<1>2. next \in TapSet /\ next.at # "count"
  BY <1>0, <1>1 DEF TapSet
<1>3. \/ Excess(u) = {} /\ next.at = "idle"
      \/ next.at = "trim" /\ next.user = u /\ next.ids = Excess(u)
  BY <1>0
<1> HIDE DEF next
<1>4. /\ taps' \in [Taps -> TapSet] /\ taps' = [q \in Taps |-> IF q = p THEN next ELSE taps[q]]
  BY <1>0, <1>2, TapIs
<1>5. NoticeTypeOK'
  BY <1>0, <1>4 DEF DeviceInv, NoticeTypeOK, TapSet, deskVars, sendVars
<1>6. Cardinality(Spared(u)') <= MaxTokens
  <2> DEFINE Left == {d \in DevicesOf(u) : d.id \notin Excess(u)}
  <2>1. IsFiniteSet(DevicesOf(u)) /\ Cardinality(Left) <= MaxTokens
    BY <1>0, SparedOfExcess
  <2>2. IsFiniteSet(Left) /\ Cardinality(Left) \in Nat
    BY <2>1, FS_Subset, FS_CardinalityType
  <2>3. ASSUME NEW d \in { e \in devices : /\ e.user = u
                                           /\ \A q \in Taps : taps'[q].at = "trim" /\ taps'[q].user = u
                                                                => e.id \notin taps'[q].ids }
        PROVE  d \in Left
    BY <1>3, <1>4, <2>3 DEF DevicesOf
  <2>4. Spared(u)' \subseteq Left
    BY <1>0, <2>3 DEF Spared, DevicesOf
  <2> QED
    BY <1>0, <2>1, <2>2, <2>4, FS_Subset, FS_CardinalityType
<1>7. ASSUME NEW v \in Users, v # u, Cardinality(Spared(v)) <= MaxTokens
      PROVE  Cardinality(Spared(v)') <= MaxTokens
  <2>1. \A q \in Taps : taps'[q].at = "trim" /\ taps'[q].user = v <=> taps[q].at = "trim" /\ taps[q].user = v
    BY <1>0, <1>3, <1>4, <1>7
  <2>2. \A q \in Taps : taps[q].at = "trim" => taps'[q] = taps[q]
    BY <1>0, <1>4
  <2>3. Spared(v)' = Spared(v)
    BY <1>0, <2>1, <2>2 DEF Spared, DevicesOf
  <2> QED
    BY <1>7, <2>3
<1>8. \A q \in Taps : taps[q].at = "count" /\ taps[q].user # u => taps'[q] = taps[q]
  BY <1>4
<1>9. ASSUME NEW v \in Users
      PROVE  \/ v \in untrimmed'
             \/ \E q \in Taps : taps'[q].at = "count" /\ taps'[q].user = v
             \/ Cardinality(Spared(v)') <= MaxTokens
  <2>1. CASE v = u
    BY <1>6, <2>1
  <2>2. CASE v # u
    BY <1>0, <1>7, <1>8, <2>2 DEF DeviceInv
  <2> QED
    BY <2>1, <2>2
<1> QED
  BY <1>0, <1>5, <1>9 DEF DeviceInv

(* A slot is free again: its rows were deleted, or it failed.              *)
LEMMA TapEnds ==
    ASSUME DeviceInv, NEW p \in Taps, Trim(p) \/ GiveUp(p), UNCHANGED <<deskVars, sendVars>>
    PROVE  DeviceInv'
<1> DEFINE u == taps[p].user
<1>0. /\ taps[p] # NoTap /\ u \in Users /\ UNCHANGED registered /\ taps' = [taps EXCEPT ![p] = NoTap]
      /\ devices' \subseteq devices /\ untrimmed \subseteq untrimmed' /\ untrimmed' \subseteq Users
      /\ NoTap.at = "idle" /\ MaxTokens \in Nat /\ NoTap \in TapSet
      /\ \/ u \in untrimmed' /\ UNCHANGED devices
         \/ taps[p].at = "trim" /\ devices' = { d \in devices : d.id \notin taps[p].ids }
  BY TapIs, NoticesAssumption DEF Trim, GiveUp, DeviceInv, NoticeTypeOK, TapSet, NoTap
<1>1. /\ taps' \in [Taps -> TapSet] /\ taps' = [q \in Taps |-> IF q = p THEN NoTap ELSE taps[q]]
  BY <1>0, TapIs
<1>2. NoticeTypeOK'
  BY <1>0, <1>1 DEF DeviceInv, NoticeTypeOK, TapSet, deskVars, sendVars
<1>3. IsFiniteSet(devices')
  BY <1>0, FS_Subset DEF DeviceInv
<1>4. ASSUME NEW v \in Users, v \notin untrimmed', Cardinality(Spared(v)) <= MaxTokens
      PROVE  Cardinality(Spared(v)') <= MaxTokens
  <2>1. ASSUME NEW d \in devices', d.user = v,
               \A q \in Taps : taps'[q].at = "trim" /\ taps'[q].user = v => d.id \notin taps'[q].ids
        PROVE  \A q \in Taps : taps[q].at = "trim" /\ taps[q].user = v => d.id \notin taps[q].ids
    <3> SUFFICES ASSUME NEW q \in Taps, taps[q].at = "trim", taps[q].user = v
                 PROVE  d \notin devices' \/ d.id \notin taps[q].ids
      BY <2>1
    <3>1. CASE q # p
      BY <1>1, <2>1, <3>1
    <3>2. CASE q = p
      BY <1>0, <1>4, <2>1, <3>2
    <3> QED
      BY <3>1, <3>2
  <2>2. Spared(v)' \subseteq Spared(v) /\ Spared(v) \subseteq devices
    BY <1>0, <2>1 DEF Spared, DevicesOf
  <2>3. IsFiniteSet(Spared(v)) /\ Cardinality(Spared(v)) \in Nat
    BY <2>2, FS_Subset, FS_CardinalityType DEF DeviceInv
  <2>4. Cardinality(Spared(v)') <= Cardinality(Spared(v)) /\ Cardinality(Spared(v)') \in Nat
    BY <2>2, <2>3, FS_Subset, FS_CardinalityType
  <2> QED
    BY <1>0, <1>4, <2>3, <2>4
<1>5. ASSUME NEW v \in Users
      PROVE  \/ v \in untrimmed'
             \/ \E q \in Taps : taps'[q].at = "count" /\ taps'[q].user = v
             \/ Cardinality(Spared(v)') <= MaxTokens
  <2>1. ASSUME NEW q \in Taps, taps[q].at = "count", taps[q].user = v
        PROVE  v \in untrimmed' \/ (taps'[q].at = "count" /\ taps'[q].user = v)
    BY <1>0, <1>1, <2>1
  <2> QED
    BY <1>0, <1>4, <2>1 DEF DeviceInv
<1> QED
  BY <1>0, <1>2, <1>3, <1>5 DEF DeviceInv

LEMMA PhonesKeep == ASSUME DeviceInv, Phones PROVE DeviceInv'
<1>1. UNCHANGED <<deskVars, sendVars>>
  BY DEF Phones
<1>2. ASSUME NEW u \in Users, NEW t \in Tokens, Unregister(u, t) PROVE DeviceInv'
  <2>1. devices' \subseteq devices /\ UNCHANGED <<taps, registered, untrimmed>>
    BY <1>2 DEF Unregister
  <2>2. NoticeTypeOK'
    BY <1>1, <2>1 DEF DeviceInv, NoticeTypeOK, deskVars, sendVars
  <2> QED
    BY <2>1, <2>2, DevicesFewer
<1>3. ASSUME NEW p \in Taps, Count(p) PROVE DeviceInv'
  BY <1>1, <1>3, TapIs, CountKeeps DEF Count
<1> QED
  BY <1>1, <1>2, <1>3, RegisterKeeps, TapEnds DEF Phones

(* Whatever registers and signs out side by side, and whatever fails half- *)
(* way, the rows of the desk, the notices and the devices stay of their    *)
(* types and the rows that will stay few enough (push.service).            *)
THEOREM DevicesAreInvariant == NoticesSpec => []DeviceInv
<1>1. NothingSent => DeviceInv
  <2> SUFFICES ASSUME NoticeInit PROVE DeviceInv
    BY DEF NothingSent
  <2>1. NoticeTypeOK
    BY NoticesAssumption DEF NoticeInit, NoticeTypeOK
  <2>2. \A u \in Users : Spared(u) = {}
    BY DEF NoticeInit, Spared, DevicesOf
  <2> QED
    BY <2>1, <2>2, FS_EmptySet, NoticesAssumption DEF NoticeInit, DeviceInv
<1>2. DeviceInv /\ [ \/ Next /\ UNCHANGED noticeVars
                     \/ NoticesNext /\ UNCHANGED vars ]_AllVars => DeviceInv'
  <2> SUFFICES ASSUME DeviceInv, [ \/ Next /\ UNCHANGED noticeVars
                                   \/ NoticesNext /\ UNCHANGED vars ]_AllVars
               PROVE  DeviceInv'
    OBVIOUS
  <2>1. CASE UNCHANGED noticeVars
    <3>1. UNCHANGED <<devices, taps, registered, untrimmed>> /\ NoticeTypeOK'
      BY <2>1 DEF noticeVars, deskVars, sendVars, deviceVars, DeviceInv, NoticeTypeOK
    <3> QED
      BY <3>1, DevicesFewer
  <2>2. CASE Desk \/ Handle
    BY <2>2, NoticesTyped, DevicesFewer DEF DeviceInv
  <2> QED
    BY <2>1, <2>2, PhonesKeep DEF AllVars, NoticesNext
<1> QED
  BY <1>1, <1>2, PTL DEF NoticesSpec

(* No user keeps more device rows than the limit once nothing of theirs is *)
(* under way or failed, for any number of users, phones and registrations  *)
(* (registerToken).                                                        *)
THEOREM DevicesStayBounded == NoticesSpec => []DevicesBounded
<1>1. DeviceInv => DevicesBounded
  <2> SUFFICES ASSUME DeviceInv, NEW u \in Users, u \notin untrimmed,
                      \A p \in Taps : taps[p] # NoTap => taps[p].user # u
               PROVE  Cardinality(DevicesOf(u)) <= MaxTokens
    BY DEF DevicesBounded, DeviceInv
  <2>1. \A p \in Taps : taps[p].at \in {"count", "trim"} => taps[p].user # u
    BY TapIs
  <2>2. Spared(u) = DevicesOf(u)
    BY <2>1 DEF Spared
  <2> QED
    BY <2>1, <2>2 DEF DeviceInv
<1> QED
  BY <1>1, DevicesAreInvariant, PTL

(* The queue under the notices keeps its promise: one effect and one       *)
(* message for a key, whatever is delivered twice, killed or raced         *)
(* (runOnce, notification.job).                                            *)
THEOREM DoneOnceToldOnce == NoticesSpec => []OnceEach
<1>1. [ \/ Next /\ UNCHANGED noticeVars
        \/ NoticesNext /\ UNCHANGED vars ]_AllVars => [Next]_vars
  BY DEF AllVars
<1>2. NothingSent => Init
  BY DEF NothingSent
<1>3. NoticesSpec => Spec
  BY <1>1, <1>2, PTL DEF NoticesSpec, Spec
<1> QED
  BY <1>3, EffectHappensOnce, MessageNeverRepeated, PTL DEF OnceEach

-----------------------------------------------------------------------------
(* Before there is a booking.                                              *)

(* What is about to be kept is fit to be kept, and terminals are waited    *)
(* for while there are some.                                               *)
MapsInv ==
    /\ MapsTypeOK /\ ProbeIsOut
    /\ \A k \in Seekers : /\ seek[k].at = "keep" => Kept(seek[k].answer)
                          /\ seek[k].at = "terminals" => seek[k].left # 0

(* While the table is empty the built-in states are served, and whoever is *)
(* about to write the first row writes the others down with it; after that *)
(* what was opened and not closed has an active row, or is one that the    *)
(* seeding which wrote the first row left out.                             *)
Unwritten(s) == s \in unseeded \ Recorded
(* What an edit has read is still so. *)
Fits(e) ==
    /\ edits[e].do = "create" /\ Recorded = {} => edits[e].backfill = BuiltIn \ {edits[e].state}
    /\ edits[e].do = "deactivate" => edits[e].state \in Recorded
    /\ edits[e].do \in {"copy", "shut"} => towns[edits[e].town] # None
StatesInv ==
    /\ StatesTypeOK
    /\ \A s \in States : rows[s] = FALSE => s \in closed
    /\ Recorded = {} => opened \ closed \subseteq BuiltIn
    /\ Recorded # {} => \A s \in opened \ closed : s \in ActiveStates \/ Unwritten(s)
    /\ \A e \in Staff : Fits(e)

(* A form is of a row there is, and a rider is chased for it after it was  *)
(* claimed, once.                                                          *)
FunnelInv ==
    /\ \A t \in Tabs : form[t].do \in {"track", "book"} => form[t].row \in Rows \cup {0}
    /\ \A i \in Rows : pushed[i] = 0 \/ (attempts[i].notified /\ pushed[i] = 1)

EnquiriesInv ==
    /\ MapsInv /\ StatesInv /\ FunnelInv /\ EnquiriesTypeOK
    /\ \A k \in Riders : desk[k].do = "update" => desk[k].request \in DOMAIN requests

-----------------------------------------------------------------------------
(* The map. *)
Moved(k) == /\ seek' \in [Seekers -> Lookups \cup {Nowhere}]
            /\ \A j \in Seekers \ {k} : seek'[j] = seek[j]

LEMMA SeekWritten ==
    ASSUME MapsTypeOK, NEW k \in Seekers, NEW call \in Lookups \cup {Nowhere}, Move(k, call)
    PROVE  Moved(k) /\ seek'[k] = call
<1>1. seek \in [Seekers -> Lookups \cup {Nowhere}] /\ seek' = [seek EXCEPT ![k] = call]
  BY DEF MapsTypeOK, Move
<1> QED
  BY <1>1 DEF Moved

LEMMA SeekIs ==
    ASSUME MapsInv, NEW k \in Seekers, seek[k].at # "rest"
    PROVE  /\ seek[k] \in Lookups /\ seek[k].q \in Questions /\ seek[k].rest \in Seq(Questions)
           /\ seek[k].left \in 0..MaxTerminals /\ seek[k].answer \in Given \cup {None}
           /\ seek[k].fresh \in BOOLEAN
<1>1. seek[k] \in Lookups \cup {Nowhere}
  BY DEF MapsInv, MapsTypeOK
<1>2. seek[k] \in Lookups
  BY <1>1 DEF Nowhere
<1> QED
  BY <1>2 DEF Lookups

(* A step of one request: the probe is another's, or it has just begun, or *)
(* the breaker is not half open.                                           *)
LEMMA SeekStep ==
    ASSUME MapsInv, NEW k \in Seekers, Moved(k),
           breaker' \in [state : {"closed", "open", "half-open"}, failures : 0..Threshold],
           cooled' \in BOOLEAN,
           found' \in [Questions -> Measured \cup {None, "coordinates"}],
           locks' \in [Questions -> Seekers \cup {None}],
           seek'[k].at = "keep" => Kept(seek'[k].answer),
           seek'[k].at = "terminals" => seek'[k].left # 0,
           \/ breaker'.state # "half-open"
           \/ seek'[k].at \in {"sent", "terminals"}
           \/ breaker' = breaker /\ seek[k].at \notin {"sent", "terminals"}
    PROVE  MapsInv'
<1>1. /\ seek' \in [Seekers -> Lookups \cup {Nowhere}]
      /\ \A j \in Seekers \ {k} : seek'[j] = seek[j]
  BY DEF Moved
<1>2. MapsTypeOK'
  BY <1>1 DEF MapsTypeOK
<1>3. ProbeIsOut'
  BY <1>1 DEF MapsInv, ProbeIsOut
<1> QED
  BY <1>1, <1>2, <1>3 DEF MapsInv

Ats == {"look", "wait", "lock", "call", "sent", "terminals", "keep", "leave", "answered"}
LEMMA ToIs ==
    ASSUME NEW c \in Lookups, NEW at \in Ats
    PROVE  /\ [c EXCEPT !.at = at] \in Lookups /\ [c EXCEPT !.at = at].at = at
           /\ [c EXCEPT !.at = at].answer = c.answer /\ [c EXCEPT !.at = at].left = c.left
BY DEF Lookups, Ats

LEMMA ToMoves ==
    ASSUME MapsTypeOK, NEW k \in Seekers, seek[k] \in Lookups, NEW at \in Ats, To(k, at)
    PROVE  Moved(k) /\ seek'[k].at = at /\ seek'[k].answer = seek[k].answer
<1> DEFINE call == [seek[k] EXCEPT !.at = at]
<1>1. call \in Lookups /\ call.at = at /\ call.answer = seek[k].answer
  BY ToIs
<1>2. Move(k, call)
  BY DEF To
<1> HIDE DEF call
<1> QED
  BY <1>1, <1>2, SeekWritten

LEMMA WithMoves ==
    ASSUME MapsTypeOK, NEW k \in Seekers, seek[k] \in Lookups, NEW at \in Ats,
           NEW answer \in Given \cup {None}, With(k, at, answer)
    PROVE  Moved(k) /\ seek'[k].at = at /\ seek'[k].answer = answer
<1> DEFINE call == [seek[k] EXCEPT !.at = at, !.answer = answer]
<1>1. call \in Lookups /\ call.at = at /\ call.answer = answer
  BY DEF Lookups, Ats
<1>2. Move(k, call)
  BY DEF With
<1> HIDE DEF call
<1> QED
  BY <1>1, <1>2, SeekWritten

LEMMA LookingIs ==
    ASSUME NEW path \in Seq(Questions) \ {<<>>}, NEW fr \in BOOLEAN
    PROVE  Looking(path, fr) \in Lookups /\ Looking(path, fr).at \in {"call", "look"}
<1>1. Head(path) \in Questions /\ Tail(path) \in Seq(Questions) /\ 0 \in 0..MaxTerminals
  BY MapsAssumption
<1> QED
  BY <1>1 DEF Looking, Lookups

(* Steps before the call is sent, and after it has come back.              *)
LEMMA Around ==
    ASSUME MapsInv, NEW k \in Seekers,
           \/ Hit(k) \/ Miss(k) \/ AcquireLock(k) \/ StopWaiting(k) \/ Keep(k) \/ Leave(k) \/ Respond(k)
    PROVE  MapsInv'
<1> DEFINE c == seek[k]
<1>1. c.at \in {"look", "wait", "lock", "keep", "leave", "answered"} /\ UNCHANGED <<breaker, cooled>>
  BY DEF Hit, Miss, AcquireLock, StopWaiting, Keep, Leave, Respond, WaitIsOver
<1>2. /\ c \in Lookups /\ c.q \in Questions /\ c.rest \in Seq(Questions)
      /\ c.answer \in Given \cup {None} /\ c.fresh \in BOOLEAN
  BY <1>1, SeekIs
<1>3. /\ breaker \in [state : {"closed", "open", "half-open"}, failures : 0..Threshold]
      /\ cooled \in BOOLEAN /\ found \in [Questions -> Measured \cup {None, "coordinates"}]
      /\ locks \in [Questions -> Seekers \cup {None}]
  BY DEF MapsInv, MapsTypeOK
<1>4. found' \in [Questions -> Measured \cup {None, "coordinates"}]
  <2>1. CASE Keep(k)
    <3>1. c.answer \in Measured \cup {"coordinates"}
      BY <2>1 DEF Keep, MapsInv, Kept
    <3> QED
      BY <1>2, <1>3, <2>1, <3>1 DEF Keep
  <2>2. CASE UNCHANGED found
    BY <1>3, <2>2
  <2> QED
    BY <2>1, <2>2 DEF Hit, Miss, AcquireLock, StopWaiting, Leave, Respond
<1>5. locks' \in [Questions -> Seekers \cup {None}]
  BY <1>2, <1>3 DEF Hit, Miss, AcquireLock, StopWaiting, Keep, Leave, Respond
<1>6. Moved(k) /\ seek'[k].at \in {"look", "lock", "wait", "call", "leave", "answered", "rest"}
  <2> USE DEF Ats
  <2>a. MapsTypeOK
    BY DEF MapsInv
  <2>1. CASE Hit(k)
    <3>1. found[c.q] \in Given \cup {None} /\ With(k, "leave", found[c.q])
      BY <1>2, <1>3, <2>1 DEF Given, Hit
    <3> QED
      BY <1>2, <2>a, <3>1, WithMoves
  <2>2. CASE Miss(k)
    <3>1. To(k, "call") \/ To(k, "lock")
      BY <2>2 DEF Miss
    <3> QED
      BY <1>2, <2>a, <3>1, ToMoves
  <2>3. CASE AcquireLock(k)
    <3> DEFINE mine == [c EXCEPT !.at = "call", !.locked = TRUE]
    <3>1. mine \in Lookups /\ mine.at = "call"
      BY <1>2 DEF Lookups
    <3>2. To(k, "wait") \/ To(k, "call") \/ Move(k, mine)
      BY <2>3 DEF AcquireLock
    <3> HIDE DEF mine
    <3> QED
      BY <1>2, <2>a, <3>1, <3>2, ToMoves, SeekWritten
  <2>4. CASE StopWaiting(k)
    <3>1. To(k, "call")
      BY <2>4 DEF StopWaiting
    <3> QED
      BY <1>2, <2>a, <3>1, ToMoves
  <2>5. CASE Keep(k)
    <3>1. To(k, "leave")
      BY <2>5 DEF Keep
    <3> QED
      BY <1>2, <2>a, <3>1, ToMoves
  <2>6. CASE Leave(k)
    <3>1. CASE c.rest = <<>>
      <4>1. To(k, "answered")
        BY <2>6, <3>1 DEF Leave
      <4> QED
        BY <1>2, <2>a, <4>1, ToMoves
    <3>2. CASE c.rest # <<>>
      <4>1. Move(k, Looking(c.rest, c.fresh))
        BY <2>6, <3>2 DEF Leave
      <4>2. Looking(c.rest, c.fresh) \in Lookups /\ Looking(c.rest, c.fresh).at \in {"call", "look"}
        BY <1>2, <3>2, LookingIs
      <4> QED
        BY <2>a, <4>1, <4>2, SeekWritten
    <3> QED
      BY <3>1, <3>2
  <2>7. CASE Respond(k)
    <3>1. Move(k, Nowhere) /\ Nowhere.at = "rest"
      BY <2>7 DEF Respond, Nowhere
    <3> QED
      BY <2>a, <3>1, SeekWritten
  <2> QED
    BY <2>1, <2>2, <2>3, <2>4, <2>5, <2>6, <2>7
<1> QED
  BY <1>1, <1>3, <1>4, <1>5, <1>6, SeekStep

LEMMA Asked ==
    ASSUME MapsInv, NEW k \in Seekers, NEW path \in Seq(Questions) \ {<<>>}, NEW fr \in BOOLEAN,
           Ask(k, path, fr)
    PROVE  MapsInv'
<1>1. /\ Move(k, Looking(path, fr)) /\ seek[k].at = "rest"
      /\ UNCHANGED <<breaker, cooled, found, locks>>
  BY DEF Ask, Nowhere
<1>2. /\ breaker' \in [state : {"closed", "open", "half-open"}, failures : 0..Threshold]
      /\ cooled' \in BOOLEAN /\ found' \in [Questions -> Measured \cup {None, "coordinates"}]
      /\ locks' \in [Questions -> Seekers \cup {None}] /\ MapsTypeOK
  BY <1>1 DEF MapsInv, MapsTypeOK
<1>3. Moved(k) /\ seek'[k].at \in {"call", "look"}
  BY <1>1, <1>2, LookingIs, SeekWritten
<1> QED
  BY <1>1, <1>2, <1>3, SeekStep

(* What is answered without the provider.                                  *)
LEMMA FellBack ==
    ASSUME MapsTypeOK, NEW k \in Seekers, seek[k] \in Lookups, FallBack(k)
    PROVE  /\ Moved(k) /\ seek'[k].at \in {"keep", "leave"}
           /\ seek'[k].at = "keep" => Kept(seek'[k].answer)
<1> DEFINE answer == Fallback(seek[k].q.kind)
<1>1. answer \in Given
  BY DEF Fallback, Given, Measured
<1>2. \/ With(k, "keep", answer) /\ Kept(answer)
      \/ With(k, "leave", answer)
  BY DEF FallBack
<1> HIDE DEF answer
<1> QED
  BY <1>1, <1>2, WithMoves DEF Ats

(* A failure opens a breaker that was half open.                           *)
LEMMA CallFailed ==
    ASSUME MapsInv, OnFailure
    PROVE  /\ breaker' \in [state : {"closed", "open", "half-open"}, failures : 0..Threshold]
           /\ cooled' \in BOOLEAN /\ breaker'.state # "half-open"
<1>1. /\ breaker \in [state : {"closed", "open", "half-open"}, failures : 0..Threshold]
      /\ cooled \in BOOLEAN /\ Threshold \in Nat
  BY MapsAssumption DEF MapsInv, MapsTypeOK
<1> DEFINE n == IF breaker.failures < Threshold THEN breaker.failures + 1 ELSE Threshold
<1>2. n \in 0..Threshold
  BY <1>1
<1>3. \/ breaker' = [state |-> "open", failures |-> n] /\ cooled' = FALSE
      \/ breaker' = [breaker EXCEPT !.failures = n] /\ breaker.state # "half-open" /\ cooled' = cooled
  BY DEF OnFailure, Trips
<1> HIDE DEF n
<1>4. CASE breaker' = [state |-> "open", failures |-> n] /\ cooled' = FALSE
  BY <1>2, <1>4
<1>5. CASE breaker' = [breaker EXCEPT !.failures = n] /\ breaker.state # "half-open" /\ cooled' = cooled
  BY <1>1, <1>2, <1>5
<1> QED
  BY <1>3, <1>4, <1>5

LEMMA Succeeded ==
    ASSUME MapsInv, OnSuccess
    PROVE  /\ breaker' \in [state : {"closed", "open", "half-open"}, failures : 0..Threshold]
           /\ cooled' \in BOOLEAN /\ breaker'.state # "half-open"
BY MapsAssumption DEF OnSuccess, Closed, MapsInv, MapsTypeOK

LEMMA TerminalDone ==
    ASSUME MapsInv, NEW k \in Seekers, seek[k].at = "terminals", OneTerminal(k)
    PROVE  /\ Moved(k) /\ seek'[k].at \in {"keep", "terminals"}
           /\ seek'[k].at = "keep" => Kept(seek'[k].answer)
           /\ seek'[k].at = "terminals" => seek'[k].left # 0
<1> DEFINE c == seek[k]  fewer == [c EXCEPT !.left = @ - 1]
<1>1. c \in Lookups /\ c.left \in 0..MaxTerminals /\ c.left # 0 /\ MaxTerminals \in Nat /\ MapsTypeOK
  BY SeekIs, MapsAssumption DEF MapsInv
<1>2. CASE c.left = 1
  <2>1. With(k, "keep", "terminals") /\ Kept("terminals") /\ "terminals" \in Given
    BY <1>2 DEF OneTerminal, Kept, Measured, Given
  <2> QED
    BY <1>1, <2>1, WithMoves DEF Ats
<1>3. CASE c.left # 1
  <2>1. c.left - 1 \in 0..MaxTerminals /\ c.left - 1 # 0
    BY <1>1, <1>3
  <2>2. fewer \in Lookups /\ fewer.at = c.at /\ fewer.left = c.left - 1
    BY <1>1, <2>1 DEF Lookups
  <2>3. Move(k, fewer)
    BY <1>3 DEF OneTerminal
  <2> HIDE DEF fewer
  <2> QED
    BY <1>1, <2>1, <2>2, <2>3, SeekWritten
<1> QED
  BY <1>2, <1>3

(* The call and its end. *)
LEMMA CallSent ==
    ASSUME MapsInv, NEW k \in Seekers, CallProvider(k) PROVE MapsInv'
<1>1. seek[k] \in Lookups /\ UNCHANGED <<cooled, found, locks>> /\ seek[k].at = "call"
  BY SeekIs DEF CallProvider
<1>2. /\ breaker \in [state : {"closed", "open", "half-open"}, failures : 0..Threshold]
      /\ cooled' \in BOOLEAN /\ found' \in [Questions -> Measured \cup {None, "coordinates"}]
      /\ locks' \in [Questions -> Seekers \cup {None}] /\ MapsTypeOK
  BY <1>1 DEF MapsInv, MapsTypeOK
<1>3. CASE BreakerAllows
  <2>1. To(k, "sent") /\ breaker' \in {breaker, [breaker EXCEPT !.state = "half-open"]}
    BY <1>3 DEF CallProvider
  <2>2. breaker' \in [state : {"closed", "open", "half-open"}, failures : 0..Threshold]
    BY <1>2, <2>1
  <2>3. Moved(k) /\ seek'[k].at = "sent"
    BY <1>1, <1>2, <2>1, ToMoves DEF Ats
  <2> QED
    BY <1>2, <2>2, <2>3, SeekStep
<1>4. CASE ~BreakerAllows
  <2>1. FallBack(k) /\ breaker' = breaker
    BY <1>4 DEF CallProvider
  <2>2. /\ Moved(k) /\ seek'[k].at \in {"keep", "leave"}
        /\ seek'[k].at = "keep" => Kept(seek'[k].answer)
    BY <1>1, <1>2, <2>1, FellBack
  <2> QED
    BY <1>1, <1>2, <2>1, <2>2, SeekStep
<1> QED
  BY <1>3, <1>4

LEMMA CallEnds ==
    ASSUME MapsInv, NEW k \in Seekers,
           Answers(k) \/ Fails(k) \/ TerminalAnswers(k) \/ TerminalFails(k)
    PROVE  MapsInv'
<1>1. seek[k] \in Lookups /\ UNCHANGED <<found, locks>>
  BY SeekIs DEF Answers, Fails, TerminalAnswers, TerminalFails
<1>2. OnSuccess \/ OnFailure
  BY DEF Answers, Fails, TerminalAnswers, TerminalFails
<1>3. /\ breaker' \in [state : {"closed", "open", "half-open"}, failures : 0..Threshold]
      /\ cooled' \in BOOLEAN /\ breaker'.state # "half-open"
  BY <1>2, CallFailed, Succeeded
<1>4. /\ Moved(k)
      /\ seek'[k].at = "keep" => Kept(seek'[k].answer)
      /\ seek'[k].at = "terminals" => seek'[k].left # 0
  <2>a. MapsTypeOK
    BY DEF MapsInv
  <2>1. ASSUME NEW n \in 1..MaxTerminals, Move(k, [seek[k] EXCEPT !.at = "terminals", !.left = n])
        PROVE  Moved(k) /\ seek'[k].at = "terminals" /\ seek'[k].left # 0
    <3> DEFINE call == [seek[k] EXCEPT !.at = "terminals", !.left = n]
    <3>1. n \in 0..MaxTerminals /\ n # 0
      BY MapsAssumption
    <3>2. call \in Lookups /\ call.at = "terminals" /\ call.left = n
      BY <1>1, <3>1 DEF Lookups
    <3> HIDE DEF call
    <3>3. Move(k, call)
      BY <2>1 DEF call
    <3> QED
      BY <2>a, <3>1, <3>2, <3>3, SeekWritten
  <2>2. CASE Answers(k)
    <3>1. \/ \E answer \in {"nothing", "road", "list", "place"} : With(k, "keep", answer)
          \/ With(k, "leave", "estimate")
          \/ \E n \in 1..MaxTerminals : Move(k, [seek[k] EXCEPT !.at = "terminals", !.left = n])
      BY <2>2 DEF Answers, AirportsFound, Found, Implausible
    <3>2. ASSUME NEW answer \in {"nothing", "road", "list", "place"}, With(k, "keep", answer)
          PROVE  Moved(k) /\ seek'[k].at = "keep" /\ Kept(seek'[k].answer)
      <4>1. answer \in Given /\ Kept(answer)
        BY DEF Given, Kept, Measured
      <4> QED
        BY <1>1, <2>a, <3>2, <4>1, WithMoves DEF Ats
    <3>3. CASE With(k, "leave", "estimate")
      BY <1>1, <2>a, <3>3, WithMoves DEF Ats, Given
    <3> QED
      BY <2>1, <3>1, <3>2, <3>3
  <2>3. CASE Fails(k)
    BY <1>1, <2>3, <2>a, FellBack DEF Fails
  <2>4. CASE TerminalAnswers(k) \/ TerminalFails(k)
    BY <2>4, TerminalDone DEF TerminalAnswers, TerminalFails
  <2> QED
    BY <2>2, <2>3, <2>4
<1>5. /\ found' \in [Questions -> Measured \cup {None, "coordinates"}]
      /\ locks' \in [Questions -> Seekers \cup {None}]
  BY <1>1 DEF MapsInv, MapsTypeOK
<1> QED
  BY <1>3, <1>4, <1>5, SeekStep

(* The map under every step there is.                                      *)
MapsChange ==
    \/ \E k \in Seekers : \/ Seeking(k) \/ Respond(k)
                          \/ \E path \in Seq(Questions) \ {<<>>}, fr \in BOOLEAN : Ask(k, path, fr)
    \/ CoolDown \/ Restart \/ UNCHANGED mapVars

LEMMA MapsKeep == ASSUME MapsInv, MapsChange PROVE MapsInv'
<1>1. ASSUME NEW k \in Seekers, Seeking(k) PROVE MapsInv'
  BY <1>1, Around, CallSent, CallEnds DEF Seeking, TimesOut
<1>2. ASSUME NEW k \in Seekers, Respond(k) PROVE MapsInv'
  BY <1>2, Around
<1>3. ASSUME CoolDown \/ UNCHANGED mapVars PROVE MapsInv'
  BY <1>3 DEF CoolDown, mapVars, MapsInv, MapsTypeOK, ProbeIsOut
<1>4. ASSUME Restart PROVE MapsInv'
  <2>1. /\ seek' = [k \in Seekers |-> Nowhere] /\ breaker' = Closed /\ cooled' = FALSE
        /\ UNCHANGED <<found, locks>>
    BY <1>4 DEF Restart
  <2>2. MapsTypeOK'
    <3>1. Closed \in [state : {"closed", "open", "half-open"}, failures : 0..Threshold]
      BY MapsAssumption DEF Closed
    <3> QED
      BY <2>1, <3>1 DEF MapsInv, MapsTypeOK
  <2>3. \A k \in Seekers : seek'[k] = Nowhere
    BY <2>1
  <2> QED
    BY <2>1, <2>2, <2>3 DEF MapsInv, ProbeIsOut, Closed, Nowhere
<1> QED
  BY <1>1, <1>2, <1>3, <1>4, Asked DEF MapsChange

-----------------------------------------------------------------------------
(* The table of states and the table of cities.                            *)
Edit == StateEdit \cup CityEdit \cup {Quiet}

LEMMA EditIs ==
    ASSUME StatesTypeOK, NEW e \in Staff
    PROVE  /\ edits[e].do \in {"none", "create", "deactivate", "seed", "city", "copy", "shut"}
           /\ edits[e].do = "create" =>
                 /\ edits[e].host \in Hosts /\ edits[e].state \in States
                 /\ edits[e].active \in BOOLEAN /\ edits[e].backfill \subseteq BuiltIn
           /\ edits[e].do = "deactivate" => edits[e].host \in Hosts /\ edits[e].state \in States
           /\ edits[e].do = "seed" => edits[e].host \in Hosts /\ edits[e].left \subseteq BuiltIn
           /\ edits[e].do \in {"city", "copy"} =>
                 /\ edits[e].town \in Towns /\ edits[e].active \in BOOLEAN
                 /\ edits[e].from \in Towns \cup {None}
           /\ edits[e].do = "shut" => edits[e].town \in Towns
<1>1. edits[e] \in StateEdit \cup CityEdit \cup {Quiet}
  BY DEF StatesTypeOK
<1> QED
  BY <1>1 DEF StateEdit, CityEdit, Quiet

LEMMA Started ==
    ASSUME StatesTypeOK, NEW e \in Staff, NEW edit \in Edit, Start(e, edit)
    PROVE  /\ edits' \in [Staff -> StateEdit \cup CityEdit \cup {Quiet}] /\ edits'[e] = edit
           /\ \A d \in Staff \ {e} : edits'[d] = edits[d]
           /\ made' \in 0..MaxCalls /\ edits[e].do = "none"
<1>1. /\ edits \in [Staff -> Edit] /\ edits' = [edits EXCEPT ![e] = edit]
      /\ made \in 0..MaxCalls /\ made < MaxCalls /\ made' = made + 1 /\ edits[e] = Quiet
  BY DEF StatesTypeOK, Edit, Start
<1>2. made' \in 0..MaxCalls
  BY <1>1, StatesAssumption
<1>3. edits' \in [Staff -> Edit] /\ edits'[e] = edit /\ \A d \in Staff \ {e} : edits'[d] = edits[d]
  BY <1>1
<1> QED
  BY <1>1, <1>2, <1>3 DEF Edit, Quiet

LEMMA Finished ==
    ASSUME StatesTypeOK, NEW e \in Staff, Finish(e)
    PROVE  /\ edits' \in [Staff -> StateEdit \cup CityEdit \cup {Quiet}] /\ edits'[e].do = "none"
           /\ \A d \in Staff \ {e} : edits'[d] = edits[d]
           /\ made' \in 0..MaxCalls
<1>1. /\ edits \in [Staff -> Edit] /\ edits' = [edits EXCEPT ![e] = Quiet] /\ Quiet \in Edit
      /\ made' \in 0..MaxCalls
  BY DEF StatesTypeOK, Edit, Finish
<1>2. edits' \in [Staff -> Edit] /\ edits'[e] = Quiet /\ \A d \in Staff \ {e} : edits'[d] = edits[d]
  BY <1>1
<1> QED
  BY <1>1, <1>2 DEF Edit, Quiet

(* Steps that leave the table of states as it is.                          *)
LEMMA Aside ==
    ASSUME StatesInv, UNCHANGED <<rows, opened, closed, unseeded>>, StatesTypeOK',
           \A e \in Staff : Fits(e)'
    PROVE  StatesInv'
<1>1. Recorded' = Recorded /\ ActiveStates' = ActiveStates
  BY DEF Recorded, ActiveStates
<1>2. \A s : Unwritten(s) => Unwritten(s)'
  BY <1>1 DEF Unwritten
<1> QED
  BY <1>1, <1>2 DEF StatesInv

(* One edit changes, the others fit as they did.                           *)
LEMMA OthersFit ==
    ASSUME StatesInv, UNCHANGED rows, NEW e \in Staff, Fits(e)',
           \A d \in Staff \ {e} : edits'[d] = edits[d],
           \A c \in Towns : towns[c] # None => towns'[c] # None
    PROVE  \A d \in Staff : Fits(d)'
<1>1. Recorded' = Recorded
  BY DEF Recorded
<1>2. ASSUME NEW d \in Staff, d # e PROVE Fits(d)'
  <2>1. Fits(d) /\ edits'[d] = edits[d]
    BY <1>2 DEF StatesInv
  <2>2. edits[d].do \in {"copy", "shut"} => edits[d].town \in Towns
    BY EditIs DEF StatesInv
  <2> QED
    BY <1>1, <2>1, <2>2 DEF Fits
<1> QED
  BY <1>2

LEMMA Begins ==
    ASSUME StatesInv, NEW e \in Staff, NEW edit \in Edit, Start(e, edit),
           UNCHANGED <<rows, copy, fresh, opened, closed, towns, unseeded>>,
           edit.do = "create" /\ Recorded = {} => edit.backfill = BuiltIn \ {edit.state},
           edit.do = "deactivate" => edit.state \in Recorded,
           edit.do \in {"copy", "shut"} => towns[edit.town] # None
    PROVE  StatesInv'
<1>0. StatesTypeOK
  BY DEF StatesInv
<1>1. /\ edits' \in [Staff -> StateEdit \cup CityEdit \cup {Quiet}] /\ edits'[e] = edit
      /\ \A d \in Staff \ {e} : edits'[d] = edits[d]
      /\ made' \in 0..MaxCalls /\ edits[e].do = "none"
  BY <1>0, Started
<1>2. StatesTypeOK'
  BY <1>0, <1>1 DEF StatesTypeOK
<1>3. Fits(e)'
  BY <1>1 DEF Fits, Recorded
<1>4. \A d \in Staff : Fits(d)'
  BY <1>1, <1>3, OthersFit
<1> QED
  BY <1>2, <1>4, Aside

(* Edits begin. *)
LEMMA EditsBegin ==
    ASSUME StatesInv, NEW e \in Staff,
           \/ \E h \in Hosts, s \in States, active \in BOOLEAN : BeginCreate(e, h, s, active)
           \/ \E h \in Hosts, s \in States : BeginDeactivate(e, h, s)
           \/ \E h \in Hosts : BeginSeed(e, h)
           \/ \E c \in Towns, active \in BOOLEAN, from \in Towns \cup {None} : BeginCity(e, c, active, from)
           \/ \E c \in Towns : BeginDeactivateCity(e, c)
    PROVE  StatesInv'
<1>1. ASSUME NEW h \in Hosts, NEW s \in States, NEW active \in BOOLEAN, BeginCreate(e, h, s, active)
      PROVE  StatesInv'
  <2> DEFINE edit == [do |-> "create", host |-> h, state |-> s, active |-> active,
                      backfill |-> MaterialiseBuiltIns(s)]
  <2>1. MaterialiseBuiltIns(s) \subseteq BuiltIn /\ (Recorded = {} => MaterialiseBuiltIns(s) = BuiltIn \ {s})
    BY DEF MaterialiseBuiltIns
  <2>2. edit \in Edit
    BY <2>1 DEF Edit, StateEdit
  <2>3. edit.do = "create" /\ edit.backfill = MaterialiseBuiltIns(s) /\ edit.state = s
    OBVIOUS
  <2>4. Start(e, edit) /\ UNCHANGED <<rows, copy, fresh, opened, closed, towns, unseeded>>
    BY <1>1 DEF BeginCreate
  <2> HIDE DEF edit
  <2> QED
    BY <2>1, <2>2, <2>3, <2>4, Begins
<1>2. ASSUME NEW h \in Hosts, NEW s \in States, BeginDeactivate(e, h, s)
      PROVE  StatesInv'
  <2> DEFINE edit == [do |-> "deactivate", host |-> h, state |-> s]
  <2>1. edit \in Edit
    BY DEF Edit, StateEdit
  <2>2. edit.do = "deactivate" /\ edit.state = s
    OBVIOUS
  <2>3. Start(e, edit) /\ UNCHANGED <<rows, copy, fresh, opened, closed, towns, unseeded>> /\ s \in Recorded
    BY <1>2 DEF BeginDeactivate
  <2> HIDE DEF edit
  <2> QED
    BY <2>1, <2>2, <2>3, Begins
<1>3. ASSUME NEW h \in Hosts, BeginSeed(e, h)
      PROVE  StatesInv'
  <2> DEFINE edit == [do |-> "seed", host |-> h, left |-> BuiltIn, missing |-> None]
  <2>1. edit \in Edit
    BY DEF Edit, StateEdit
  <2>2. edit.do = "seed"
    OBVIOUS
  <2>3. Start(e, edit) /\ UNCHANGED <<rows, copy, fresh, opened, closed, towns, unseeded>>
    BY <1>3 DEF BeginSeed
  <2> HIDE DEF edit
  <2> QED
    BY <2>1, <2>2, <2>3, Begins
<1>4. ASSUME NEW c \in Towns, NEW active \in BOOLEAN, NEW from \in Towns \cup {None},
             BeginCity(e, c, active, from)
      PROVE  StatesInv'
  <2> DEFINE edit == [do |-> "city", town |-> c, active |-> active, from |-> from]
  <2>1. edit \in Edit
    BY DEF Edit, CityEdit
  <2>2. edit.do = "city"
    OBVIOUS
  <2>3. Start(e, edit) /\ UNCHANGED <<rows, copy, fresh, opened, closed, towns, unseeded>>
    BY <1>4 DEF BeginCity, untouched
  <2> HIDE DEF edit
  <2> QED
    BY <2>1, <2>2, <2>3, Begins
<1>5. ASSUME NEW c \in Towns, BeginDeactivateCity(e, c)
      PROVE  StatesInv'
  <2> DEFINE edit == [do |-> "shut", town |-> c]
  <2>1. edit \in Edit
    BY DEF Edit, CityEdit
  <2>2. edit.do = "shut" /\ edit.town = c
    OBVIOUS
  <2>3. /\ Start(e, edit) /\ UNCHANGED <<rows, copy, fresh, opened, closed, towns, unseeded>>
        /\ towns[c] # None
    BY <1>5 DEF BeginDeactivateCity, untouched
  <2> HIDE DEF edit
  <2> QED
    BY <2>1, <2>2, <2>3, Begins
<1> QED
  BY <1>1, <1>2, <1>3, <1>4, <1>5

(* What an edit of the table does to the rest.  A state that was recorded  *)
(* stays recorded, under its name or the one it is given.                  *)
LEMMA RowIs == ASSUME StatesTypeOK, NEW s \in States
               PROVE  rows[s] \in {TRUE, FALSE, None} /\ None \notin BOOLEAN
BY StatesAssumption DEF StatesTypeOK

LEMMA Invalidated ==
    ASSUME StatesTypeOK, NEW h \in Hosts, Invalidate(h)
    PROVE  fresh' \subseteq Hosts /\ copy' \in [Hosts -> (SUBSET States) \cup {None}]
<1>1. /\ copy \in [Hosts -> (SUBSET States) \cup {None}] /\ fresh \subseteq Hosts
      /\ copy' = [copy EXCEPT ![h] = None] /\ fresh' = fresh \ {h}
  BY DEF StatesTypeOK, Invalidate
<1> DEFINE C == (SUBSET States) \cup {None}
<1>2. None \in C /\ copy \in [Hosts -> C]
  BY <1>1
<1> HIDE DEF C
<1>3. copy' \in [Hosts -> C]
  BY <1>1, <1>2
<1> QED
  BY <1>1, <1>3 DEF C

(* Rows only come; what is opened has an active row, and what is not       *)
(* active was closed.                                                      *)
LEMMA Listed ==
    ASSUME StatesInv, StatesTypeOK', NEW s \in States, rows'[s] # None,
           \A t \in States \ {s} : rows[t] # None => rows'[t] = rows[t],
           \A t \in States \ {s} : rows'[t] # rows[t] => rows'[t] = TRUE,
           opened' \ {s} = opened \ {s}, closed' \ {s} = closed \ {s},
           rows'[s] = FALSE => s \in closed',
           s \in opened' \ closed' => rows'[s] = TRUE,
           \A t \in opened \ closed : \/ t = s \/ rows'[t] = TRUE
                                      \/ Unwritten(t)',
           \A d \in Staff : edits'[d].do \in {"copy", "shut"} => towns'[edits'[d].town] # None,
           \A d \in Staff : edits'[d].do = "deactivate" => edits[d] = edits'[d]
    PROVE  StatesInv'
<1>1. s \in Recorded' /\ Recorded \subseteq Recorded'
  BY DEF Recorded
<1>2. \A t \in States : rows'[t] = FALSE => t \in closed'
  <2> SUFFICES ASSUME NEW t \in States, rows'[t] = FALSE, t # s PROVE t \in closed'
    OBVIOUS
  <2>1. rows'[t] = rows[t] \/ rows'[t] = TRUE
    OBVIOUS
  <2>2. rows[t] = FALSE
    BY <2>1
  <2> QED
    BY <2>2 DEF StatesInv
<1>3. ASSUME NEW t \in opened' \ closed' PROVE t \in ActiveStates' \/ Unwritten(t)'
  <2>1. rows'[t] = TRUE \/ Unwritten(t)'
    OBVIOUS
  <2>2. t \in States
    BY DEF StatesTypeOK
  <2> QED
    BY <1>1, <2>1, <2>2, StatesAssumption DEF ActiveStates, Recorded
<1>4. ASSUME NEW d \in Staff PROVE Fits(d)'
  <2>1. Fits(d)
    BY DEF StatesInv
  <2> QED
    BY <1>1, <2>1 DEF Fits
<1> QED
  BY <1>1, <1>2, <1>3, <1>4 DEF StatesInv

LEMMA StillUnwritten ==
    ASSUME NEW t, Unwritten(t), rows'[t] = rows[t], UNCHANGED unseeded
    PROVE  Unwritten(t)'
BY DEF Unwritten, Recorded

LEMMA Created ==
    ASSUME StatesInv, NEW e \in Staff, Create(e) PROVE StatesInv'
<1> DEFINE c == edits[e]  s == edits[e].state
<1>0. /\ StatesTypeOK /\ c.do = "create" /\ Finish(e) /\ UNCHANGED <<towns, unseeded>>
      /\ c.host \in Hosts /\ s \in States /\ c.active \in BOOLEAN /\ c.backfill \subseteq BuiltIn
      /\ BuiltIn \subseteq States
  BY EditIs, StatesAssumption DEF StatesInv, Create
<1>1. /\ edits' \in [Staff -> StateEdit \cup CityEdit \cup {Quiet}] /\ edits'[e].do = "none"
      /\ \A d \in Staff \ {e} : edits'[d] = edits[d]
      /\ made' \in 0..MaxCalls
  BY <1>0, Finished
<1>2. CASE rows[s] # None
  <2>1. UNCHANGED <<rows, copy, fresh, opened, closed>>
    BY <1>2 DEF Create
  <2>2. StatesTypeOK' /\ Fits(e)'
    BY <1>0, <1>1, <2>1 DEF StatesTypeOK, Fits
  <2>3. \A d \in Staff : Fits(d)'
    BY <1>0, <1>1, <2>1, <2>2, OthersFit
  <2> QED
    BY <1>0, <2>1, <2>2, <2>3, Aside
<1>3. CASE rows[s] = None
  <2>1. /\ rows' = [t \in States |->
                       IF t = s THEN c.active
                       ELSE IF t \in c.backfill /\ rows[t] = None THEN TRUE ELSE rows[t]]
        /\ IF c.active THEN Open(s) ELSE Close(s)
        /\ Invalidate(c.host)
    BY <1>3 DEF Create
  <2>2. /\ rows'[s] = c.active
        /\ \A t \in States \ {s} : rows'[t] = IF t \in c.backfill /\ rows[t] = None THEN TRUE ELSE rows[t]
    BY <1>0, <2>1
  <2>3. rows' \in [States -> BOOLEAN \cup {None}]
    BY <1>0, <2>1 DEF StatesTypeOK
  <2>4. /\ opened' \subseteq States /\ closed' \subseteq States
        /\ opened' \ {s} = opened \ {s} /\ closed' \ {s} = closed \ {s}
        /\ c.active = FALSE => s \in closed'
        /\ s \in opened' \ closed' => c.active = TRUE
    <3>1. opened \subseteq States /\ closed \subseteq States
      BY <1>0 DEF StatesTypeOK
    <3>2. CASE c.active = TRUE
      <4>1. opened' = opened \cup {s} /\ closed' = closed \ {s}
        BY <2>1, <3>2 DEF Open
      <4> QED
        BY <1>0, <3>1, <3>2, <4>1
    <3>3. CASE c.active = FALSE
      <4>1. opened' = opened /\ closed' = closed \cup {s}
        BY <2>1, <3>3 DEF Close
      <4> QED
        BY <1>0, <3>1, <3>3, <4>1
    <3> QED
      BY <1>0, <3>2, <3>3
  <2>5. StatesTypeOK'
    BY <1>0, <1>1, <2>1, <2>3, <2>4, Invalidated DEF StatesTypeOK
  <2>6. rows'[s] # None
    BY <1>0, <2>2, StatesAssumption
  <2>7. ASSUME NEW t \in opened \ closed, t # s PROVE rows'[t] = TRUE \/ Unwritten(t)'
    <3>1. t \in States
      BY <1>0 DEF StatesTypeOK
    <3>2. CASE Recorded = {}
      <4>1. t \in BuiltIn /\ c.backfill = BuiltIn \ {s} /\ rows[t] = None
        BY <1>0, <3>1, <3>2 DEF StatesInv, Fits, Recorded
      <4> QED
        BY <2>2, <2>7, <3>1, <4>1
    <3>3. CASE Recorded # {}
      <4>1. t \in ActiveStates \/ Unwritten(t)
        BY <3>3 DEF StatesInv
      <4>2. CASE t \in ActiveStates
        BY <2>2, <2>7, <3>1, <4>2, RowIs, <1>0 DEF ActiveStates, Recorded
      <4>3. CASE Unwritten(t)
        <5>1. rows'[t] = TRUE \/ rows'[t] = rows[t]
          BY <2>2, <2>7, <3>1
        <5> QED
          BY <1>0, <4>3, <5>1, StillUnwritten
      <4> QED
        BY <4>1, <4>2, <4>3
    <3> QED
      BY <3>2, <3>3
  <2>8. \A d \in Staff : edits'[d].do \in {"copy", "shut"} => towns'[edits'[d].town] # None
    BY <1>0, <1>1 DEF StatesInv, Fits
  <2>9. \A d \in Staff : edits'[d].do = "deactivate" => edits[d] = edits'[d]
    BY <1>1
  <2>10. /\ \A t \in States \ {s} : rows[t] # None => rows'[t] = rows[t]
         /\ \A t \in States \ {s} : rows'[t] # rows[t] => rows'[t] = TRUE
    BY <2>2
  <2> HIDE DEF s, c
  <2> QED
    BY <1>0, <2>2, <2>4, <2>5, <2>6, <2>7, <2>8, <2>9, <2>10, Listed
<1> QED
  BY <1>2, <1>3

(* A row that is there is written.                                         *)
LEMMA Written ==
    ASSUME StatesInv, StatesTypeOK', NEW s \in Recorded, NEW active \in BOOLEAN,
           rows' = [rows EXCEPT ![s] = active],
           IF active THEN Open(s) ELSE Close(s),
           UNCHANGED unseeded,
           \A d \in Staff : edits'[d].do \in {"copy", "shut"} => towns'[edits'[d].town] # None,
           \A d \in Staff : edits'[d].do = "deactivate" => edits[d] = edits'[d]
    PROVE  StatesInv'
<1>1. StatesTypeOK /\ s \in States /\ rows[s] # None /\ Recorded # {} /\ None \notin BOOLEAN
  BY StatesAssumption DEF StatesInv, Recorded
<1>2. rows'[s] = active /\ \A t \in States \ {s} : rows'[t] = rows[t]
  BY <1>1 DEF StatesTypeOK
<1>3. /\ opened' \ {s} = opened \ {s} /\ closed' \ {s} = closed \ {s}
      /\ active = FALSE => s \in closed'
      /\ s \in opened' \ closed' => active = TRUE
  <2>1. CASE active = TRUE
    BY <2>1 DEF Open
  <2>2. CASE active = FALSE
    BY <2>2 DEF Close
  <2> QED
    BY <2>1, <2>2
<1>4. ASSUME NEW t \in opened \ closed PROVE t = s \/ rows'[t] = TRUE \/ Unwritten(t)'
  <2>1. t \in States /\ (t \in ActiveStates \/ Unwritten(t))
    BY <1>1 DEF StatesInv, StatesTypeOK
  <2> QED
    BY <1>1, <1>2, <2>1, RowIs, StillUnwritten DEF ActiveStates, Recorded
<1>5. rows'[s] # None
  BY <1>1, <1>2
<1> QED
  BY <1>1, <1>2, <1>3, <1>4, <1>5, Listed

LEMMA Updated ==
    ASSUME StatesInv, NEW h \in Hosts, NEW s \in States, NEW active \in BOOLEAN, Update(h, s, active)
    PROVE  StatesInv'
<1>1. /\ s \in Recorded /\ rows' = [rows EXCEPT ![s] = active]
      /\ IF active THEN Open(s) ELSE Close(s)
      /\ Invalidate(h) /\ made < MaxCalls /\ made' = made + 1 /\ UNCHANGED <<towns, edits, unseeded>>
  BY DEF Update
<1>2. StatesTypeOK
  BY DEF StatesInv
<1>3. rows' \in [States -> BOOLEAN \cup {None}] /\ made' \in 0..MaxCalls
      /\ opened' \subseteq States /\ closed' \subseteq States
  BY <1>1, <1>2, StatesAssumption DEF StatesTypeOK, Open, Close
<1>4. StatesTypeOK'
  BY <1>1, <1>2, <1>3, Invalidated DEF StatesTypeOK
<1>6. \A d \in Staff : edits'[d].do \in {"copy", "shut"} => towns'[edits'[d].town] # None
  BY <1>1 DEF StatesInv, Fits
<1>7. \A d \in Staff : edits'[d].do = "deactivate" => edits[d] = edits'[d]
  BY <1>1
<1> QED
  BY <1>1, <1>4, <1>6, <1>7, Written

LEMMA Deactivated ==
    ASSUME StatesInv, NEW e \in Staff, Deactivate(e) PROVE StatesInv'
<1> DEFINE s == edits[e].state  h == edits[e].host
<1>0. /\ StatesTypeOK /\ edits[e].do = "deactivate" /\ Finish(e) /\ UNCHANGED <<towns, unseeded>>
      /\ h \in Hosts /\ s \in States /\ s \in Recorded
      /\ rows' = [rows EXCEPT ![s] = FALSE] /\ Close(s) /\ Invalidate(h)
  BY EditIs DEF StatesInv, Fits, Deactivate
<1> HIDE DEF s, h
<1>1. /\ edits' \in [Staff -> StateEdit \cup CityEdit \cup {Quiet}] /\ edits'[e].do = "none"
      /\ \A d \in Staff \ {e} : edits'[d] = edits[d]
      /\ made' \in 0..MaxCalls
  BY <1>0, Finished
<1>2. rows' \in [States -> BOOLEAN \cup {None}] /\ opened' \subseteq States /\ closed' \subseteq States
  BY <1>0 DEF StatesTypeOK, Close
<1>3. StatesTypeOK'
  BY <1>0, <1>1, <1>2, Invalidated DEF StatesTypeOK
<1>5. \A d \in Staff : edits'[d].do \in {"copy", "shut"} => towns'[edits'[d].town] # None
  BY <1>0, <1>1 DEF StatesInv, Fits
<1>6. \A d \in Staff : edits'[d].do = "deactivate" => edits[d] = edits'[d]
  BY <1>1
<1> QED
  BY <1>0, <1>3, <1>5, <1>6, Written

(* A row takes another name: the old one is closed by it, and an edit that *)
(* was to deactivate it follows.                                           *)
LEMMA Renamed ==
    ASSUME StatesInv, NEW h \in Hosts, NEW s \in States, NEW t \in States, Rename(h, s, t)
    PROVE  StatesInv'
<1>0. /\ StatesTypeOK /\ rows[s] \in BOOLEAN /\ rows[t] = None /\ s # t /\ None \notin BOOLEAN
      /\ Recorded # {}
      /\ Invalidate(h) /\ made < MaxCalls /\ made' = made + 1 /\ UNCHANGED <<towns, unseeded>>
      /\ rows' = [rows EXCEPT ![t] = rows[s], ![s] = None]
      /\ edits' = [e \in Staff |-> IF edits[e].do = "deactivate" /\ edits[e].state = s
                                   THEN [edits[e] EXCEPT !.state = t] ELSE edits[e]]
      /\ opened' = (IF rows[s] THEN opened \cup {t} ELSE opened)
      /\ closed' = (IF rows[s] THEN (closed \cup {s}) \ {t} ELSE closed \cup {s, t})
  BY RowIs, StatesAssumption DEF StatesInv, Rename, Recorded
<1>1. /\ rows' \in [States -> BOOLEAN \cup {None}] /\ rows'[t] = rows[s] /\ rows'[s] = None
      /\ \A x \in States \ {s, t} : rows'[x] = rows[x]
  BY <1>0 DEF StatesTypeOK
<1>2. made' \in 0..MaxCalls /\ opened' \subseteq States /\ closed' \subseteq States
  BY <1>0, StatesAssumption DEF StatesTypeOK
<1>3. ASSUME NEW e \in Staff
      PROVE  /\ edits'[e] \in StateEdit \cup CityEdit \cup {Quiet}
             /\ \/ edits'[e] = edits[e] /\ ~(edits[e].do = "deactivate" /\ edits[e].state = s)
                \/ edits'[e].do = "deactivate" /\ edits'[e].state = t /\ edits[e].do = "deactivate"
  <2>1. edits[e] \in StateEdit \cup CityEdit \cup {Quiet}
    BY <1>0 DEF StatesTypeOK
  <2>2. CASE edits[e].do = "deactivate" /\ edits[e].state = s
    <3>1. edits[e] \in [do : {"deactivate"}, host : Hosts, state : States]
      BY <2>1, <2>2 DEF StateEdit, CityEdit, Quiet
    <3>2. edits'[e] = [edits[e] EXCEPT !.state = t]
      BY <1>0, <2>2
    <3>3. edits'[e] \in [do : {"deactivate"}, host : Hosts, state : States] /\ edits'[e].state = t
      BY <3>1, <3>2
    <3> QED
      BY <2>2, <3>3 DEF StateEdit
  <2>3. CASE ~(edits[e].do = "deactivate" /\ edits[e].state = s)
    BY <1>0, <2>1, <2>3
  <2> QED
    BY <2>2, <2>3
<1>4. StatesTypeOK'
  <2>1. edits' \in [Staff -> StateEdit \cup CityEdit \cup {Quiet}]
    BY <1>0, <1>3
  <2> QED
    BY <1>0, <1>1, <1>2, <2>1, Invalidated DEF StatesTypeOK
<1>5. \A x \in States : rows'[x] = FALSE => x \in closed'
  <2> SUFFICES ASSUME NEW x \in States, rows'[x] = FALSE PROVE x \in closed'
    OBVIOUS
  <2>1. x # s /\ (x # t => rows[x] = FALSE /\ x \in closed) /\ (x = t => rows[s] = FALSE)
    BY <1>0, <1>1 DEF StatesInv
  <2> QED
    BY <1>0, <2>1
<1>6. t \in Recorded' /\ \A x \in Recorded \ {s} : x \in Recorded'
  BY <1>0, <1>1 DEF Recorded
<1>7. ASSUME NEW x \in opened' \ closed' PROVE x \in ActiveStates' \/ Unwritten(x)'
  <2>1. x # s /\ (x = t => rows[s] = TRUE)
    BY <1>0
  <2>2. CASE x = t
    BY <1>1, <1>6, <2>1, <2>2 DEF ActiveStates
  <2>3. CASE x # t
    <3>1. x \in opened \ closed
      BY <1>0, <2>1, <2>3
    <3>2. x \in ActiveStates \/ Unwritten(x)
      BY <1>0, <3>1 DEF StatesInv
    <3>3. CASE x \in ActiveStates
      BY <1>1, <1>6, <2>1, <2>3, <3>3 DEF ActiveStates, Recorded
    <3>4. CASE Unwritten(x)
      <4>1. x \in States
        BY <1>0, <3>1 DEF StatesTypeOK
      <4> QED
        BY <1>0, <1>1, <2>1, <2>3, <3>4, <4>1, StillUnwritten
    <3> QED
      BY <3>2, <3>3, <3>4
  <2> QED
    BY <2>2, <2>3
<1>8. ASSUME NEW e \in Staff PROVE Fits(e)'
  <2>1. Fits(e) /\ Recorded' # {}
    BY <1>6 DEF StatesInv
  <2> QED
    BY <1>0, <1>3, <1>6, <2>1 DEF Fits
<1> QED
  BY <1>4, <1>5, <1>6, <1>7, <1>8 DEF StatesInv

(* The built-in ones, looked for and inserted one after another; an edit   *)
(* that ends, or is given up, before it has written.                       *)
LEMMA EditLeft ==
    ASSUME StatesInv, NEW e \in Staff, Finish(e), UNCHANGED <<rows, towns, opened, closed, unseeded>>,
           fresh' \subseteq Hosts, copy' \in [Hosts -> (SUBSET States) \cup {None}]
    PROVE  StatesInv'
<1>0. StatesTypeOK
  BY DEF StatesInv
<1>1. /\ edits' \in [Staff -> StateEdit \cup CityEdit \cup {Quiet}] /\ edits'[e].do = "none"
      /\ \A d \in Staff \ {e} : edits'[d] = edits[d]
      /\ made' \in 0..MaxCalls
  BY <1>0, Finished
<1>2. StatesTypeOK'
  BY <1>0, <1>1 DEF StatesTypeOK
<1>3. Fits(e)'
  BY <1>1 DEF Fits
<1>4. \A d \in Staff : Fits(d)'
  BY <1>1, <1>3, OthersFit
<1> QED
  BY <1>2, <1>4, Aside

LEMMA Abandoning ==
    ASSUME StatesInv, NEW e \in Staff, Abandon(e) \/ EndSeed(e) PROVE StatesInv'
<1>1. StatesTypeOK /\ fresh \subseteq Hosts /\ copy \in [Hosts -> (SUBSET States) \cup {None}]
  BY DEF StatesInv, StatesTypeOK
<1>2. CASE Abandon(e)
  BY <1>1, <1>2, EditLeft DEF Abandon
<1>3. CASE EndSeed(e)
  <2>1. edits[e].host \in Hosts
    BY <1>1, <1>3, EditIs DEF EndSeed
  <2> QED
    BY <1>1, <1>3, <2>1, Invalidated, EditLeft DEF EndSeed
<1> QED
  BY <1>2, <1>3

(* The edit of one who is seeding, when its record changes.                *)
SeedEdit == [do : {"seed"}, host : Hosts, left : SUBSET BuiltIn, missing : BuiltIn \cup {None}]

LEMMA SeedIs ==
    ASSUME StatesTypeOK, NEW e \in Staff, edits[e].do = "seed"
    PROVE  edits[e] \in SeedEdit
BY DEF StatesTypeOK, StateEdit, CityEdit, Quiet, SeedEdit

LEMMA SeedEdited ==
    ASSUME StatesTypeOK, NEW e \in Staff, NEW edit \in SeedEdit, edits' = [edits EXCEPT ![e] = edit]
    PROVE  /\ edits' \in [Staff -> StateEdit \cup CityEdit \cup {Quiet}] /\ edits'[e].do = "seed"
           /\ \A d \in Staff \ {e} : edits'[d] = edits[d]
<1>1. edits \in [Staff -> Edit] /\ edit \in Edit /\ edit.do = "seed"
  BY DEF StatesTypeOK, Edit, StateEdit, SeedEdit
<1>2. /\ edits' \in [Staff -> Edit] /\ edits'[e] = edit
      /\ \A d \in Staff \ {e} : edits'[d] = edits[d]
  BY <1>1
<1> QED
  BY <1>1, <1>2 DEF Edit

LEMMA DefaultFound ==
    ASSUME StatesInv, NEW e \in Staff, FindDefault(e) PROVE StatesInv'
<1>0. StatesTypeOK /\ edits[e].do = "seed" /\ edits[e] \in SeedEdit
  BY SeedIs DEF StatesInv, FindDefault
<1>1. PICK s \in edits[e].left :
         \/ edits' = [edits EXCEPT ![e].missing = s]
         \/ edits' = [edits EXCEPT ![e].left = @ \ {s}]
  BY DEF FindDefault
<1>2. PICK edit \in SeedEdit : edits' = [edits EXCEPT ![e] = edit]
  <2>1. /\ [edits[e] EXCEPT !.missing = s] \in SeedEdit
        /\ [edits[e] EXCEPT !.left = @ \ {s}] \in SeedEdit
    BY <1>0, <1>1 DEF SeedEdit
  <2> QED
    BY <1>1, <2>1
<1>3. /\ edits' \in [Staff -> StateEdit \cup CityEdit \cup {Quiet}] /\ edits'[e].do = "seed"
      /\ \A d \in Staff \ {e} : edits'[d] = edits[d]
  BY <1>0, <1>2, SeedEdited
<1>4. UNCHANGED <<rows, copy, fresh, towns, made, opened, closed, unseeded>>
  BY DEF FindDefault
<1>5. StatesTypeOK' /\ Fits(e)'
  BY <1>0, <1>3, <1>4 DEF StatesTypeOK, Fits
<1>6. \A d \in Staff : Fits(d)'
  BY <1>3, <1>4, <1>5, OthersFit
<1> QED
  BY <1>4, <1>5, <1>6, Aside

LEMMA DefaultCreated ==
    ASSUME StatesInv, NEW e \in Staff, CreateDefault(e) PROVE StatesInv'
<1> DEFINE s == edits[e].missing
           edit == [edits[e] EXCEPT !.left = @ \ {s}, !.missing = None]
<1>0. /\ StatesTypeOK /\ edits[e].do = "seed" /\ edits[e] \in SeedEdit /\ UNCHANGED <<copy, fresh, towns>>
      /\ s \in BuiltIn /\ s \in States /\ BuiltIn \subseteq States /\ None \notin BOOLEAN
      /\ fresh \subseteq Hosts /\ copy \in [Hosts -> (SUBSET States) \cup {None}]
      /\ rows \in [States -> BOOLEAN \cup {None}] /\ opened \subseteq States /\ closed \subseteq States
      /\ unseeded \subseteq BuiltIn
  BY SeedIs, StatesAssumption DEF StatesInv, StatesTypeOK, CreateDefault, SeedEdit
<1>1. CASE rows[s] # None
  BY <1>0, <1>1, EditLeft DEF CreateDefault
<1>2. CASE rows[s] = None
  <2>1. /\ rows' = [rows EXCEPT ![s] = TRUE] /\ opened' = opened \cup {s} /\ closed' = closed \ {s}
        /\ made' = made
        /\ edits' = [edits EXCEPT ![e].left = @ \ {s}, ![e].missing = None]
        /\ unseeded' = IF Recorded = {} THEN BuiltIn \ {s} ELSE unseeded
    BY <1>2 DEF CreateDefault, Open
  <2>2. edit \in SeedEdit
    BY <1>0 DEF SeedEdit
  <2>3. edits' = [edits EXCEPT ![e] = edit]
    BY <2>1
  <2> HIDE DEF edit
  <2>4. /\ edits' \in [Staff -> StateEdit \cup CityEdit \cup {Quiet}] /\ edits'[e].do = "seed"
        /\ \A d \in Staff \ {e} : edits'[d] = edits[d]
    BY <1>0, <2>2, <2>3, SeedEdited
  <2> HIDE DEF s
  <2>5. /\ rows' \in [States -> BOOLEAN \cup {None}] /\ rows'[s] = TRUE
        /\ \A t \in States \ {s} : rows'[t] = rows[t]
    BY <1>0, <2>1
  <2>6. StatesTypeOK'
    BY <1>0, <2>1, <2>4, <2>5 DEF StatesTypeOK
  <2>7. ASSUME NEW t \in opened \ closed, t # s PROVE rows'[t] = TRUE \/ Unwritten(t)'
    <3>1. t \in States /\ rows'[t] = rows[t]
      BY <1>0, <2>5, <2>7
    <3>2. CASE Recorded = {}
      <4>1. t \in BuiltIn /\ rows[t] = None
        BY <3>1, <3>2 DEF StatesInv, Recorded
      <4> QED
        BY <2>1, <2>7, <3>1, <3>2, <4>1 DEF Unwritten, Recorded
    <3>3. CASE Recorded # {} /\ t \in ActiveStates
      BY <1>0, <3>1, <3>3, RowIs DEF ActiveStates, Recorded
    <3>4. CASE Recorded # {} /\ Unwritten(t)
      BY <2>1, <3>1, <3>4, StillUnwritten
    <3> QED
      BY <3>2, <3>3, <3>4 DEF StatesInv
  <2>8. \A d \in Staff : edits'[d].do \in {"copy", "shut"} => towns'[edits'[d].town] # None
    BY <1>0, <2>4 DEF StatesInv, Fits
  <2>9. \A d \in Staff : edits'[d].do = "deactivate" => edits[d] = edits'[d]
    BY <2>4
  <2>10. /\ \A t \in States \ {s} : rows[t] # None => rows'[t] = rows[t]
         /\ \A t \in States \ {s} : rows'[t] # rows[t] => rows'[t] = TRUE
         /\ \A t \in opened \ closed : t = s \/ rows'[t] = TRUE \/ Unwritten(t)'
         /\ opened' \ {s} = opened \ {s} /\ closed' \ {s} = closed \ {s}
         /\ rows'[s] # None /\ rows'[s] # FALSE
    BY <1>0, <2>1, <2>5, <2>7
  <2> QED
    BY <1>0, <2>5, <2>6, <2>8, <2>9, <2>10, Listed
<1> QED
  BY <1>1, <1>2

(* Cities. *)
LEMMA TownIs ==
    ASSUME StatesTypeOK, NEW c \in Towns, towns[c] # None
    PROVE  towns[c] \in CityRow
BY DEF StatesTypeOK

LEMMA TownSet ==
    ASSUME StatesTypeOK, NEW c \in Towns, NEW row \in CityRow, SetTown(c, row)
    PROVE  /\ towns' \in [Towns -> CityRow \cup {None}]
           /\ \A d \in Towns : towns[d] # None => towns'[d] # None
           /\ towns'[c] # None
<1>1. towns \in [Towns -> CityRow \cup {None}] /\ towns' = [towns EXCEPT ![c] = row]
  BY DEF StatesTypeOK, SetTown
<1>2. None \notin CityRow
  BY StatesAssumption DEF CityRow
<1> QED
  BY <1>1, <1>2

LEMMA CityStep ==
    ASSUME StatesInv, NEW e \in Staff, UNCHANGED untouched,
           edits' \in [Staff -> StateEdit \cup CityEdit \cup {Quiet}], made' \in 0..MaxCalls,
           \A d \in Staff \ {e} : edits'[d] = edits[d],
           towns' \in [Towns -> CityRow \cup {None}],
           \A d \in Towns : towns[d] # None => towns'[d] # None,
           \/ edits'[e].do = "none"
           \/ edits'[e].do = "copy" /\ towns'[edits'[e].town] # None
    PROVE  StatesInv'
<1>1. StatesTypeOK' /\ UNCHANGED <<rows, opened, closed, unseeded>>
  BY DEF StatesInv, StatesTypeOK, untouched
<1>2. Fits(e)'
  BY DEF Fits
<1>3. \A d \in Staff : Fits(d)'
  BY <1>1, <1>2, OthersFit
<1> QED
  BY <1>1, <1>3, Aside

LEMMA CityCreated ==
    ASSUME StatesInv, NEW e \in Staff, CreateCity(e) PROVE StatesInv'
<1> DEFINE f == edits[e]
<1>0. /\ StatesTypeOK /\ f.do = "city" /\ UNCHANGED untouched
      /\ f.town \in Towns /\ f.active \in BOOLEAN /\ f.from \in Towns \cup {None}
      /\ edits \in [Staff -> StateEdit \cup CityEdit \cup {Quiet}] /\ made \in 0..MaxCalls
      /\ towns \in [Towns -> CityRow \cup {None}]
  BY EditIs DEF StatesInv, CreateCity, StatesTypeOK
<1>1. CASE Finish(e) /\ UNCHANGED towns
  BY <1>0, <1>1, Finished, CityStep
<1>2. ASSUME SetTown(f.town, City(f.active, FALSE))
      PROVE  /\ towns' \in [Towns -> CityRow \cup {None}] /\ towns'[f.town] # None
             /\ \A d \in Towns : towns[d] # None => towns'[d] # None
  <2>1. City(f.active, FALSE) \in CityRow
    BY <1>0 DEF City, CityRow
  <2> QED
    BY <1>0, <1>2, <2>1, TownSet
<1>3. CASE SetTown(f.town, City(f.active, FALSE)) /\ Finish(e)
  BY <1>0, <1>2, <1>3, Finished, CityStep
<1>4. CASE /\ SetTown(f.town, City(f.active, FALSE))
           /\ edits' = [edits EXCEPT ![e].do = "copy"] /\ UNCHANGED made
  <2>1. f \in [do : {"city", "copy"}, town : Towns, active : BOOLEAN, from : Towns \cup {None}]
    BY <1>0 DEF StateEdit, CityEdit, Quiet
  <2>2. /\ [f EXCEPT !.do = "copy"] \in [do : {"city", "copy"}, town : Towns, active : BOOLEAN, from : Towns \cup {None}]
        /\ [f EXCEPT !.do = "copy"].do = "copy" /\ [f EXCEPT !.do = "copy"].town = f.town
    BY <2>1
  <2>3. /\ edits' \in [Staff -> StateEdit \cup CityEdit \cup {Quiet}]
        /\ edits'[e] = [f EXCEPT !.do = "copy"]
        /\ \A d \in Staff \ {e} : edits'[d] = edits[d]
    BY <1>0, <1>4, <2>2 DEF CityEdit
  <2> QED
    BY <1>0, <1>2, <1>4, <2>2, <2>3, CityStep
<1> QED
  BY <1>1, <1>3, <1>4 DEF CreateCity

LEMMA CityWritten ==
    ASSUME StatesInv, NEW e \in Staff, CopyPricing(e) \/ DeactivateCity(e) PROVE StatesInv'
<1> DEFINE f == edits[e]
<1>0. /\ StatesTypeOK /\ f.do \in {"copy", "shut"} /\ UNCHANGED untouched /\ Finish(e)
      /\ f.town \in Towns /\ towns \in [Towns -> CityRow \cup {None}] /\ towns[f.town] # None
  BY EditIs DEF StatesInv, Fits, CopyPricing, DeactivateCity, StatesTypeOK
<1>1. towns[f.town] \in CityRow
  BY <1>0, TownIs
<1>2. /\ [towns[f.town] EXCEPT !.cards = TRUE] \in CityRow
      /\ [towns[f.town] EXCEPT !.active = FALSE] \in CityRow
  BY <1>1 DEF CityRow
<1>3. \/ UNCHANGED towns \/ SetTown(f.town, [towns[f.town] EXCEPT !.cards = TRUE])
      \/ SetTown(f.town, [towns[f.town] EXCEPT !.active = FALSE])
  BY DEF CopyPricing, DeactivateCity
<1>4. /\ towns' \in [Towns -> CityRow \cup {None}]
      /\ \A d \in Towns : towns[d] # None => towns'[d] # None
  BY <1>0, <1>2, <1>3, TownSet
<1> QED
  BY <1>0, <1>4, Finished, CityStep

LEMMA CityPriced ==
    ASSUME StatesInv, NEW c \in Towns, PriceCity(c) \/ \E active \in BOOLEAN : UpdateCity(c, active)
    PROVE  StatesInv'
<1>0. /\ StatesTypeOK /\ towns[c] # None /\ UNCHANGED <<untouched, edits>>
      /\ made < MaxCalls /\ made' = made + 1
  BY DEF StatesInv, PriceCity, UpdateCity
<1>1. towns[c] \in CityRow /\ made' \in 0..MaxCalls
  BY <1>0, TownIs, StatesAssumption DEF StatesTypeOK
<1>2. /\ [towns[c] EXCEPT !.cards = TRUE] \in CityRow
      /\ \A active \in BOOLEAN : [towns[c] EXCEPT !.active = active] \in CityRow
  BY <1>1 DEF CityRow
<1>3. /\ towns' \in [Towns -> CityRow \cup {None}]
      /\ \A d \in Towns : towns[d] # None => towns'[d] # None
  <2>1. CASE PriceCity(c)
    BY <1>0, <1>2, <2>1, TownSet DEF PriceCity
  <2>2. CASE \E active \in BOOLEAN : UpdateCity(c, active)
    BY <1>0, <1>2, <2>2, TownSet DEF UpdateCity
  <2> QED
    BY <2>1, <2>2
<1>4. StatesTypeOK' /\ UNCHANGED <<rows, opened, closed, unseeded>>
  BY <1>0, <1>1, <1>3 DEF StatesTypeOK, untouched
<1>5. ASSUME NEW d \in Staff PROVE Fits(d)' /\ edits'[d] = edits[d]
  <2>1. Fits(d) /\ edits'[d] = edits[d] /\ Recorded' = Recorded
    BY <1>0 DEF StatesInv, Recorded, untouched
  <2>2. edits[d].do \in {"copy", "shut"} => edits[d].town \in Towns
    BY <1>0, EditIs
  <2> QED
    BY <1>3, <2>1, <2>2 DEF Fits
<1> QED
  BY <1>4, <1>5, Aside

(* The copy of a process, and what riders begin.                           *)
LEMMA CopyKept ==
    ASSUME StatesInv, UNCHANGED boards, made' \in 0..MaxCalls,
           fresh' \subseteq Hosts, copy' \in [Hosts -> (SUBSET States) \cup {None}]
    PROVE  StatesInv'
<1>1. StatesTypeOK' /\ UNCHANGED <<rows, towns, edits, opened, closed, unseeded>>
  BY DEF StatesInv, StatesTypeOK, boards
<1>2. Recorded' = Recorded
  BY <1>1 DEF Recorded
<1>3. \A d \in Staff : Fits(d)'
  BY <1>1, <1>2 DEF StatesInv, Fits
<1> QED
  BY <1>1, <1>3, Aside

LEMMA Consulting ==
    ASSUME StatesInv, NEW view \in Consulted, Consult(view), Here \in Hosts
    PROVE  fresh' \subseteq Hosts /\ copy' \in [Hosts -> (SUBSET States) \cup {None}]
<1>0. /\ fresh \subseteq Hosts /\ copy \in [Hosts -> (SUBSET States) \cup {None}]
      /\ ActiveStates \in SUBSET States
  BY DEF StatesInv, StatesTypeOK, ActiveStates, Recorded
<1>1. CASE UNCHANGED <<copy, fresh>>
  BY <1>0, <1>1
<1>2. CASE copy' = [copy EXCEPT ![Here] = ActiveStates] /\ fresh' = fresh \cup {Here}
  BY <1>0, <1>2
<1>3. view.read => view.list = ActiveStates
  BY DEF Consulted
<1> QED
  BY <1>1, <1>2, <1>3 DEF Consult, Loaded

LEMMA StatesKeep ==
    ASSUME StatesInv, EditStates \/ EditCities \/ \E h \in Hosts : Ages(h)
    PROVE  StatesInv'
<1>1. CASE EditStates
  BY <1>1, EditsBegin, Updated, Renamed, Created, Deactivated, DefaultFound, DefaultCreated,
     Abandoning DEF EditStates
<1>2. CASE EditCities
  <2>1. ASSUME NEW e \in Staff, NEW c \in Towns, NEW active \in BOOLEAN,
               NEW from \in (Towns \ {c}) \cup {None}, BeginCity(e, c, active, from)
        PROVE  StatesInv'
    BY <2>1, EditsBegin
  <2>2. ASSUME NEW c \in Towns, ActivateCity(c) PROVE StatesInv'
    BY <2>2, CityPriced DEF ActivateCity
  <2> QED
    BY <1>2, <2>1, <2>2, EditsBegin, CityCreated, CityWritten, CityPriced DEF EditCities
<1>3. ASSUME NEW h \in Hosts, Ages(h) PROVE StatesInv'
  <2>1. /\ UNCHANGED boards /\ made' \in 0..MaxCalls /\ fresh' \subseteq Hosts
        /\ copy' \in [Hosts -> (SUBSET States) \cup {None}]
    BY <1>3 DEF Ages, boards, StatesInv, StatesTypeOK
  <2> QED
    BY <2>1, CopyKept
<1> QED
  BY <1>1, <1>2, <1>3

-----------------------------------------------------------------------------
(* Riders, requests and forms. *)
VisitOK == visit \in [Riders -> Visits \cup {Away}] /\ refused \subseteq Places
DeskOK ==
    /\ requests \in Seq(RequestRow) /\ Len(requests) <= MaxRequests
    /\ desk \in [Riders -> Change \cup {NoDesk}]
    /\ \A k \in Riders : desk[k].do = "update" => desk[k].request \in DOMAIN requests
FunnelOK ==
    /\ attempts \in Seq(AttemptRow) /\ form \in [Tabs -> Forms \cup {NoForm}]
    /\ sweep \in [Sweepers -> SUBSET Rows]
    /\ pushed \in Seq(Nat) /\ Len(pushed) = Len(attempts)
    /\ FunnelInv

LEMMA Parts == EnquiriesInv <=> MapsInv /\ StatesInv /\ VisitOK /\ DeskOK /\ FunnelOK
BY DEF EnquiriesInv, EnquiriesTypeOK, MapsInv, StatesInv, VisitOK, DeskOK, FunnelOK

LEMMA PartsHold ==
    ASSUME MapsInv', StatesInv', VisitOK', DeskOK', FunnelOK' PROVE EnquiriesInv'
BY DEF EnquiriesInv, EnquiriesTypeOK, MapsInv, StatesInv, VisitOK, DeskOK, FunnelOK

LEMMA PlaceIs ==
    ASSUME NEW p \in Places
    PROVE  /\ p.state \in States \cup {None} /\ p.named \in States \cup {None}
           /\ p.pinned => <<ReverseGeocode(p)>> \in Seq(Questions) \ {<<>>}
           /\ ~p.pinned => <<Geocode(p)>> \in Seq(Questions) \ {<<>>}
<1>1. /\ {p.state, p.named} \subseteq States \cup {None} /\ p.pinned \in BOOLEAN
      /\ (IF p.pinned THEN ReverseGeocode(p) ELSE Geocode(p)) \in Questions
  BY EnquiriesAssumption
<1>2. \A q \in Questions : <<q>> \in Seq(Questions) \ {<<>>}
  OBVIOUS
<1> QED
  BY <1>1, <1>2

LEMMA Visited ==
    ASSUME StatesInv, Visit PROVE made' \in 0..MaxCalls
BY StatesAssumption DEF StatesInv, StatesTypeOK, Visit

LEMMA Stepped ==
    ASSUME VisitOK, NEW k \in Riders, NEW call \in Visits \cup {Away}, Step(k, call)
    PROVE  visit' \in [Riders -> Visits \cup {Away}]
BY DEF VisitOK, Step

(* What becomes of a visit. *)
LEMMA VisitKeep ==
    ASSUME EnquiriesInv, NEW k \in Riders,
           \/ \E p \in Places : ResolveCoordinates(k, p) \/ ResolveAddress(k, p)
           \/ Located(k) \/ Judge(k)
    PROVE  VisitOK'
<1>0. VisitOK
  BY Parts
<1>1. ASSUME NEW p \in Places, ResolveCoordinates(k, p) \/ ResolveAddress(k, p) PROVE VisitOK'
  <2>1. /\ [at |-> "judge", place |-> p, state |-> p.named] \in Visits
        /\ [at |-> "located", place |-> p, state |-> None] \in Visits
    BY PlaceIs DEF Visits
  <2>2. \/ Step(k, [at |-> "judge", place |-> p, state |-> p.named])
        \/ Step(k, [at |-> "located", place |-> p, state |-> None])
    BY <1>1 DEF ResolveCoordinates, ResolveAddress
  <2>3. visit' \in [Riders -> Visits \cup {Away}]
    BY <1>0, <2>1, <2>2, Stepped
  <2>4. UNCHANGED refused
    BY <1>1 DEF ResolveCoordinates, ResolveAddress
  <2> QED
    BY <1>0, <2>3, <2>4 DEF VisitOK
<1>2. CASE Located(k)
  <2> DEFINE v == visit[k]  s == IF seek[k].answer = "place" THEN v.place.state ELSE None
             judge == [v EXCEPT !.at = "judge", !.state = s]
  <2>1. v \in Visits
    BY <1>0, <1>2 DEF VisitOK, Located, Away
  <2>2. v.place \in Places
    BY <2>1 DEF Visits
  <2>3. s \in States \cup {None}
    BY <2>2, PlaceIs
  <2>4. judge \in Visits
    <3> HIDE DEF s, v
    <3> QED
      BY <2>1, <2>3 DEF Visits
  <2>5. Step(k, Away) \/ Step(k, judge)
    BY <1>2 DEF Located
  <2> HIDE DEF judge
  <2>6. visit' \in [Riders -> Visits \cup {Away}]
    BY <1>0, <2>4, <2>5, Stepped
  <2> QED
    BY <1>0, <1>2, <2>6 DEF VisitOK, Located
<1>3. CASE Judge(k)
  <2>1. visit[k] \in Visits /\ Step(k, Away)
    BY <1>0, <1>3 DEF VisitOK, Judge, Away
  <2>2. visit[k].place \in Places
    BY <2>1 DEF Visits
  <2>3. refused' \in {refused, refused \cup {visit[k].place}}
    BY <1>3 DEF Judge
  <2> QED
    BY <1>0, <2>1, <2>2, <2>3, Stepped DEF VisitOK
<1> QED
  BY <1>1, <1>2, <1>3

(* Requests. *)
LEMMA RequestKept ==
    ASSUME EnquiriesInv, Requests PROVE DeskOK'
<1>0. /\ requests \in Seq(RequestRow) /\ Len(requests) <= MaxRequests /\ MaxRequests \in Nat
      /\ desk \in [Riders -> Change \cup {NoDesk}]
      /\ \A k \in Riders : desk[k].do = "update" => desk[k].request \in DOMAIN requests
  BY Parts, EnquiriesAssumption DEF DeskOK
<1>1. ASSUME NEW k \in Riders, NEW p \in Places, CreateRequest(k, p) PROVE DeskOK'
  <2>1. PICK outside_ \in BOOLEAN :
            requests' = Append(requests, [rider |-> k, status |-> "NEW", outside |-> outside_])
    BY <1>1 DEF CreateRequest
  <2> DEFINE row == [rider |-> k, status |-> "NEW", outside |-> outside_]
  <2>2. row \in RequestRow
    BY DEF RequestRow, Statuses, Riders
  <2>3. Len(requests) < MaxRequests /\ UNCHANGED desk
    BY <1>1 DEF CreateRequest
  <2> HIDE DEF row
  <2>4. requests' = Append(requests, row)
    BY <2>1 DEF row
  <2>5. /\ requests' \in Seq(RequestRow) /\ Len(requests') = Len(requests) + 1
        /\ DOMAIN requests' = DOMAIN requests \cup {Len(requests) + 1}
    BY <1>0, <2>2, <2>4, AppendFacts
  <2>6. Len(requests') <= MaxRequests
    BY <1>0, <2>3, <2>5
  <2> QED
    BY <1>0, <2>3, <2>5, <2>6 DEF DeskOK
<1>2. ASSUME NEW k \in Riders, NEW i \in DOMAIN requests, NEW status \in Statuses,
             BeginUpdateStatus(k, i, status)
      PROVE  DeskOK'
  <2> DEFINE change == [do |-> "update", request |-> i, status |-> status]
  <2>1. i \in 1..MaxRequests
    BY <1>0
  <2>2. change \in Change /\ change.request = i
    BY <2>1 DEF Change
  <2>3. desk' = [desk EXCEPT ![k] = change] /\ UNCHANGED requests
    BY <1>2 DEF BeginUpdateStatus
  <2> HIDE DEF change
  <2>4. desk' \in [Riders -> Change \cup {NoDesk}] /\ desk'[k] = change
        /\ \A j \in Riders \ {k} : desk'[j] = desk[j]
    BY <1>0, <2>2, <2>3
  <2> QED
    BY <1>0, <2>2, <2>3, <2>4 DEF DeskOK
<1>3. ASSUME NEW k \in Riders, UpdateStatus(k) PROVE DeskOK'
  <2> DEFINE i == desk[k].request  row == [requests[i] EXCEPT !.status = desk[k].status]
  <2>1. desk[k] \in Change /\ i \in DOMAIN requests
    BY <1>0, <1>3 DEF UpdateStatus, NoDesk
  <2>2. requests[i] \in RequestRow
    BY <1>0, <2>1, ElementOf
  <2>3. row \in RequestRow
    BY <2>1, <2>2 DEF Change, RequestRow
  <2>4. requests' = [requests EXCEPT ![i] = row] /\ desk' = [desk EXCEPT ![k] = NoDesk]
    BY <1>3 DEF UpdateStatus
  <2> HIDE DEF i, row
  <2>5. /\ requests' \in Seq(RequestRow) /\ Len(requests') = Len(requests)
        /\ DOMAIN requests' = DOMAIN requests
    BY <1>0, <2>3, <2>4, ExceptFacts
  <2>6. desk' \in [Riders -> Change \cup {NoDesk}] /\ desk'[k] = NoDesk
        /\ \A j \in Riders \ {k} : desk'[j] = desk[j]
    BY <1>0, <2>4
  <2> QED
    BY <1>0, <2>5, <2>6 DEF DeskOK, NoDesk
<1> QED
  BY <1>1, <1>2, <1>3 DEF Requests, BeginCancelMine, Statuses, Settled

(* Forms. *)
LEMMA LargestIn ==
    ASSUME NEW n \in Nat, NEW S \in SUBSET (1..n), S # {}
    PROVE  \E m \in S : \A j \in S : j <= m
<1> DEFINE U == 1..n  Above(m) == {x \in 1..n : x > m}  T == {Above(m) : m \in S}
<1>1. IsFiniteSet(U)
  BY FS_Interval
<1>2. T \in SUBSET SUBSET U /\ T # {}
  OBVIOUS
<1> HIDE DEF T, U
<1>3. PICK s \in T : \A t \in T : t \subseteq s => t = s
  BY <1>1, <1>2, MinimalSubset
<1>4. PICK m \in S : s = Above(m)
  BY <1>3 DEF T
<1>5. ASSUME NEW j \in S, j > m PROVE FALSE
  <2>1. Above(j) \in T
    BY DEF T
  <2>2. Above(j) \subseteq s
    BY <1>4, <1>5
  <2>3. Above(j) = s
    BY <1>3, <2>1, <2>2
  <2>4. j \in s /\ j \notin Above(j)
    BY <1>4, <1>5
  <2> QED
    BY <2>3, <2>4
<1> QED
  BY <1>5

LEMMA RowsAre ==
    ASSUME FunnelOK
    PROVE  /\ attempts \in Seq(AttemptRow) /\ Len(attempts) \in Nat /\ Rows = 1..Len(attempts)
           /\ pushed \in Seq(Nat) /\ DOMAIN pushed = Rows
           /\ \A i \in Rows : attempts[i] \in AttemptRow /\ pushed[i] \in Nat
BY DEF FunnelOK, Rows

LEMMA FormIs ==
    ASSUME FunnelOK, NEW t \in Tabs
    PROVE  /\ form[t] \in Forms \cup {NoForm}
           /\ form[t].do = "track" => form[t].pickup \in BOOLEAN /\ form[t].row \in Rows \cup {0}
           /\ form[t].do = "book" => form[t].row \in Rows
           /\ form[t].do # "none" => form[t].rider \in Riders
<1>1. form[t] \in Forms \cup {NoForm} /\ (form[t].do \in {"track", "book"} => form[t].row \in Rows \cup {0})
  BY DEF FunnelOK, FunnelInv
<1> QED
  BY <1>1 DEF Forms, NoForm

LEMMA Filled ==
    ASSUME FunnelOK, NEW t \in Tabs, NEW call \in Forms \cup {NoForm}, Fill(t, call)
    PROVE  /\ form' \in [Tabs -> Forms \cup {NoForm}] /\ form'[t] = call
           /\ \A j \in Tabs \ {t} : form'[j] = form[j]
BY DEF FunnelOK, Fill

(* The rows there are stay, and a row that was claimed stays claimed.      *)
LEMMA FunnelStep ==
    ASSUME FunnelOK, attempts' \in Seq(AttemptRow), pushed' \in Seq(Nat),
           Len(pushed') = Len(attempts'), Rows \subseteq Rows',
           \A i \in Rows' : pushed'[i] = 0 \/ (attempts'[i].notified /\ pushed'[i] = 1),
           form' \in [Tabs -> Forms \cup {NoForm}],
           sweep' \in [Sweepers -> SUBSET Rows'],
           \A t \in Tabs : \/ form'[t] = form[t]
                           \/ form'[t].do \in {"track", "book"} => form'[t].row \in Rows' \cup {0}
    PROVE  FunnelOK'
<1>1. ASSUME NEW t \in Tabs, form'[t].do \in {"track", "book"} PROVE form'[t].row \in Rows' \cup {0}
  BY <1>1 DEF FunnelOK, FunnelInv
<1> QED
  BY <1>1 DEF FunnelOK, FunnelInv

LEMMA RowAdded ==
    ASSUME FunnelOK, NEW k \in Riders, NEW pickup \in BOOLEAN,
           attempts' = Append(attempts, Attempt(k, pickup)), pushed' = Append(pushed, 0)
    PROVE  /\ attempts' \in Seq(AttemptRow) /\ pushed' \in Seq(Nat) /\ Len(pushed') = Len(attempts')
           /\ Rows \subseteq Rows' /\ Len(attempts) + 1 \in Rows'
           /\ \A i \in Rows' : pushed'[i] = 0 \/ (attempts'[i].notified /\ pushed'[i] = 1)
<1> DEFINE row == Attempt(k, pickup)
<1>1. row \in AttemptRow
  BY DEF Attempt, AttemptRow, Riders
<1> HIDE DEF row
<1>2. attempts' = Append(attempts, row)
  BY DEF row
<1>3. attempts \in Seq(AttemptRow) /\ pushed \in Seq(Nat) /\ Len(pushed) = Len(attempts)
      /\ DOMAIN pushed = Rows /\ 0 \in Nat
      /\ \A i \in Rows : pushed[i] = 0 \/ (attempts[i].notified /\ pushed[i] = 1)
  BY RowsAre DEF FunnelOK, FunnelInv
<1>4. /\ attempts' \in Seq(AttemptRow) /\ Len(attempts') = Len(attempts) + 1
      /\ Rows' = Rows \cup {Len(attempts) + 1}
      /\ \A i \in Rows : attempts'[i] = attempts[i]
  BY <1>1, <1>2, <1>3, AppendFacts DEF Rows
<1>5. /\ pushed' \in Seq(Nat) /\ Len(pushed') = Len(pushed) + 1
      /\ \A i \in Rows : pushed'[i] = pushed[i]
      /\ pushed'[Len(pushed) + 1] = 0
  BY <1>3, AppendFacts
<1> QED
  BY <1>3, <1>4, <1>5

(* The rows are written, none is claimed or pushed for.                    *)
LEMMA RowsWritten ==
    ASSUME FunnelOK, UNCHANGED <<pushed, sweep>>,
           attempts' \in Seq(AttemptRow), Len(attempts') = Len(attempts),
           \A i \in Rows : attempts[i].notified => attempts'[i].notified,
           form' \in [Tabs -> Forms \cup {NoForm}],
           \A t \in Tabs : form'[t] = form[t] \/ form'[t].do \in {"none", "close"}
    PROVE  FunnelOK'
<1>1. Rows' = Rows
  BY RowsAre DEF Rows
<1>2. pushed' \in Seq(Nat) /\ Len(pushed') = Len(attempts') /\ sweep' \in [Sweepers -> SUBSET Rows']
  BY <1>1 DEF FunnelOK
<1>3. \A i \in Rows' : pushed'[i] = 0 \/ (attempts'[i].notified /\ pushed'[i] = 1)
  BY <1>1 DEF FunnelOK, FunnelInv
<1> QED
  BY <1>1, <1>2, <1>3, FunnelStep

LEMMA RowWritten ==
    ASSUME FunnelOK, NEW i \in Rows, NEW row \in AttemptRow, attempts' = [attempts EXCEPT ![i] = row]
    PROVE  /\ attempts' \in Seq(AttemptRow) /\ Len(attempts') = Len(attempts) /\ Rows' = Rows
           /\ attempts'[i] = row /\ \A j \in Rows \ {i} : attempts'[j] = attempts[j]
<1>1. /\ attempts' \in Seq(AttemptRow) /\ Len(attempts') = Len(attempts) /\ Rows' = Rows
  BY RowsAre, ExceptFacts DEF Rows
<1>2. attempts'[i] = row /\ \A j \in Rows \ {i} : attempts'[j] = attempts[j]
  BY DEF Rows
<1> QED
  BY <1>1, <1>2

LEMMA Tracked ==
    ASSUME FunnelOK, NEW t \in Tabs,
           \/ \E k \in Riders, pickup \in BOOLEAN : BeginTrack(t, k, pickup)
           \/ Track(t) \/ \E k \in Riders : LogAttempt(t, k)
    PROVE  FunnelOK'
<1>0. /\ attempts \in Seq(AttemptRow) /\ pushed \in Seq(Nat) /\ Len(pushed) = Len(attempts)
      /\ sweep \in [Sweepers -> SUBSET Rows] /\ Rows = 1..Len(attempts) /\ Len(attempts) \in Nat
      /\ \A i \in Rows : pushed[i] = 0 \/ (attempts[i].notified /\ pushed[i] = 1)
  BY RowsAre DEF FunnelOK, FunnelInv
<1>1. ASSUME NEW k \in Riders, NEW pickup \in BOOLEAN, BeginTrack(t, k, pickup) PROVE FunnelOK'
  <2> DEFINE row == IF OpenOf(k) = {} THEN 0 ELSE CHOOSE i \in OpenOf(k) : \A j \in OpenOf(k) : j <= i
             call == [do |-> "track", rider |-> k, pickup |-> pickup, row |-> row]
  <2>1. row \in Rows \cup {0}
    <3>1. OpenOf(k) \subseteq 1..Len(attempts)
      BY <1>0 DEF OpenOf
    <3>2. CASE OpenOf(k) # {}
      <4>1. \E i \in OpenOf(k) : \A j \in OpenOf(k) : j <= i
        BY <1>0, <3>1, <3>2, LargestIn
      <4> QED
        BY <1>0, <3>1, <3>2, <4>1
    <3> QED
      BY <3>2
  <2>2. Fill(t, call) /\ UNCHANGED <<attempts, sweep, pushed>>
    BY <1>1 DEF BeginTrack
  <2> HIDE DEF row
  <2>3. call \in Forms /\ call.do = "track" /\ call.row = row
    BY <1>0, <2>1 DEF Forms
  <2> HIDE DEF call
  <2>4. /\ form' \in [Tabs -> Forms \cup {NoForm}] /\ form'[t] = call
        /\ \A j \in Tabs \ {t} : form'[j] = form[j]
    BY <2>2, <2>3, Filled
  <2>5. Rows' = Rows
    BY <2>2 DEF Rows
  <2> QED
    BY <1>0, <2>1, <2>2, <2>3, <2>4, <2>5, FunnelStep
<1>2. CASE Track(t)
  <2>1. /\ form[t].do = "track" /\ Fill(t, NoForm) /\ UNCHANGED sweep
        /\ form[t].pickup \in BOOLEAN /\ form[t].row \in Rows \cup {0} /\ form[t].rider \in Riders
    BY <1>2, FormIs DEF Track
  <2>2. /\ form' \in [Tabs -> Forms \cup {NoForm}] /\ form'[t] = NoForm
        /\ \A j \in Tabs \ {t} : form'[j] = form[j]
    BY <2>1, Filled
  <2>3. CASE form[t].row = 0
    <3>1. attempts' = Append(attempts, Attempt(form[t].rider, form[t].pickup)) /\ pushed' = Append(pushed, 0)
      BY <1>2, <2>3 DEF Track
    <3>2. /\ attempts' \in Seq(AttemptRow) /\ pushed' \in Seq(Nat) /\ Len(pushed') = Len(attempts')
          /\ Rows \subseteq Rows'
          /\ \A i \in Rows' : pushed'[i] = 0 \/ (attempts'[i].notified /\ pushed'[i] = 1)
      BY <2>1, <3>1, RowAdded
    <3>3. sweep' \in [Sweepers -> SUBSET Rows']
      BY <1>0, <2>1, <3>2
    <3> QED
      BY <2>2, <3>2, <3>3, FunnelStep DEF NoForm
  <2>4. CASE form[t].row # 0
    <3> DEFINE i == form[t].row  row == [attempts[i] EXCEPT !.pickup = @ \/ form[t].pickup]
    <3>1. i \in Rows /\ attempts[i] \in AttemptRow
      BY <2>1, <2>4, RowsAre
    <3>2. row \in AttemptRow /\ row.notified = attempts[i].notified
      BY <2>1, <3>1 DEF AttemptRow
    <3>3. attempts' = [attempts EXCEPT ![i] = row] /\ UNCHANGED pushed
      BY <1>2, <2>4 DEF Track
    <3> HIDE DEF row, i
    <3>4. /\ attempts' \in Seq(AttemptRow) /\ Len(attempts') = Len(attempts)
          /\ attempts'[i] = row /\ \A j \in Rows \ {i} : attempts'[j] = attempts[j]
      BY <3>1, <3>2, <3>3, RowWritten
    <3> QED
      BY <2>1, <2>2, <3>2, <3>3, <3>4, RowsWritten DEF NoForm
  <2> QED
    BY <2>3, <2>4
<1>3. ASSUME NEW k \in Riders, LogAttempt(t, k) PROVE FunnelOK'
  <2> DEFINE call == [do |-> "book", rider |-> k, row |-> Len(attempts) + 1]
  <2>1. /\ attempts' = Append(attempts, Attempt(k, TRUE)) /\ pushed' = Append(pushed, 0)
        /\ Fill(t, call) /\ UNCHANGED sweep
    BY <1>3 DEF LogAttempt
  <2>2. /\ attempts' \in Seq(AttemptRow) /\ pushed' \in Seq(Nat) /\ Len(pushed') = Len(attempts')
        /\ Rows \subseteq Rows' /\ Len(attempts) + 1 \in Rows'
        /\ \A i \in Rows' : pushed'[i] = 0 \/ (attempts'[i].notified /\ pushed'[i] = 1)
    BY <2>1, RowAdded
  <2>3. call \in Forms /\ call.row = Len(attempts) + 1
    BY <1>0 DEF Forms
  <2> HIDE DEF call
  <2>4. /\ form' \in [Tabs -> Forms \cup {NoForm}] /\ form'[t] = call
        /\ \A j \in Tabs \ {t} : form'[j] = form[j]
    BY <2>1, <2>3, Filled
  <2>5. sweep' \in [Sweepers -> SUBSET Rows']
    BY <1>0, <2>1, <2>2
  <2> QED
    BY <2>2, <2>3, <2>4, <2>5, FunnelStep
<1> QED
  BY <1>1, <1>2, <1>3

LEMMA SettledOrClosed ==
    ASSUME FunnelOK, NEW t \in Tabs, SettleAttempt(t) \/ CloseForBooking(t)
    PROVE  FunnelOK'
<1>0. attempts \in Seq(AttemptRow) /\ \A i \in Rows : attempts[i] \in AttemptRow
  BY RowsAre
<1>1. /\ UNCHANGED <<pushed, sweep>>
      /\ (form[t].do = "book" /\ Fill(t, [do |-> "close", rider |-> form[t].rider])) \/ Fill(t, NoForm)
  BY DEF SettleAttempt, CloseForBooking
<1>2. /\ form' \in [Tabs -> Forms \cup {NoForm}]
      /\ \A j \in Tabs : form'[j] = form[j] \/ form'[j].do \in {"none", "close"}
  <2>1. CASE Fill(t, NoForm)
    BY <2>1, Filled DEF NoForm
  <2>2. CASE form[t].do = "book" /\ Fill(t, [do |-> "close", rider |-> form[t].rider])
    <3>1. [do |-> "close", rider |-> form[t].rider] \in Forms
      BY <2>2, FormIs DEF Forms
    <3> QED
      BY <2>2, <3>1, Filled
  <2> QED
    BY <1>1, <2>1, <2>2
<1>3. CASE SettleAttempt(t)
  <2> DEFINE i == form[t].row
             won == [attempts[i] EXCEPT !.outcome = "COMPLETED", !.booked = TRUE]
             lost == [attempts[i] EXCEPT !.outcome = "FAILED"]
  <2>1. i \in Rows /\ attempts[i] \in AttemptRow /\ i \in DOMAIN attempts
    BY <1>0, <1>3, FormIs DEF SettleAttempt, Rows
  <2>2. /\ won \in AttemptRow /\ won.notified = attempts[i].notified
        /\ lost \in AttemptRow /\ lost.notified = attempts[i].notified
    BY <2>1 DEF AttemptRow
  <2>3. attempts' = [attempts EXCEPT ![i] = won] \/ attempts' = [attempts EXCEPT ![i] = lost]
    BY <1>3, <2>1 DEF SettleAttempt
  <2> HIDE DEF won, lost, i
  <2>4. /\ attempts' \in Seq(AttemptRow) /\ Len(attempts') = Len(attempts)
        /\ attempts'[i].notified = attempts[i].notified
        /\ \A j \in Rows \ {i} : attempts'[j] = attempts[j]
    BY <2>1, <2>2, <2>3, RowWritten
  <2>5. UNCHANGED <<pushed, sweep>>
    BY <1>3 DEF SettleAttempt
  <2> QED
    BY <1>2, <2>4, <2>5, RowsWritten
<1>4. CASE CloseForBooking(t)
  <2>1. /\ UNCHANGED <<pushed, sweep>>
        /\ attempts' = [i \in Rows |-> IF attempts[i].rider = form[t].rider /\ OpenRow(i)
                                       THEN [attempts[i] EXCEPT !.outcome = "COMPLETED"] ELSE attempts[i]]
    BY <1>4 DEF CloseForBooking
  <2>2. ASSUME NEW i \in Rows
        PROVE  attempts'[i] \in AttemptRow /\ attempts'[i].notified = attempts[i].notified
    <3>1. /\ [attempts[i] EXCEPT !.outcome = "COMPLETED"] \in AttemptRow
          /\ [attempts[i] EXCEPT !.outcome = "COMPLETED"].notified = attempts[i].notified
      BY <1>0 DEF AttemptRow
    <3>2. attempts'[i] \in {attempts[i], [attempts[i] EXCEPT !.outcome = "COMPLETED"]}
      BY <2>1
    <3> QED
      BY <1>0, <3>1, <3>2
  <2>3. Rows = 1..Len(attempts) /\ Len(attempts) \in Nat
    BY RowsAre
  <2>4. attempts' \in [1..Len(attempts) -> AttemptRow]
    <3>1. DOMAIN attempts' = 1..Len(attempts) /\ attempts' = [i \in 1..Len(attempts) |-> attempts'[i]]
      BY <2>1, <2>3
    <3> QED
      BY <2>2, <2>3, <3>1
  <2>5. attempts' \in Seq(AttemptRow) /\ Len(attempts') = Len(attempts)
    BY <2>3, <2>4
  <2> QED
    BY <1>2, <2>1, <2>2, <2>5, RowsWritten
<1> QED
  BY <1>3, <1>4

LEMMA SweptOrAged ==
    ASSUME FunnelOK,
           \/ \E i \in Rows : GrowOld(i)
           \/ \E w \in Sweepers : BeginSweep(w) \/ \E i \in Rows : SweepAbandoned(w, i)
    PROVE  FunnelOK'
<1>0. /\ attempts \in Seq(AttemptRow) /\ pushed \in Seq(Nat) /\ Len(pushed) = Len(attempts)
      /\ sweep \in [Sweepers -> SUBSET Rows] /\ Rows = 1..Len(attempts) /\ Len(attempts) \in Nat
      /\ form \in [Tabs -> Forms \cup {NoForm}] /\ DOMAIN pushed = Rows
      /\ \A i \in Rows : attempts[i] \in AttemptRow /\ i \in DOMAIN attempts
      /\ \A i \in Rows : pushed[i] = 0 \/ (attempts[i].notified /\ pushed[i] = 1)
  BY RowsAre DEF FunnelOK, FunnelInv
<1>1. ASSUME NEW i \in Rows, GrowOld(i) PROVE FunnelOK'
  <2> DEFINE row == [attempts[i] EXCEPT !.age = IF @ = "new" THEN "old" ELSE "past"]
  <2>0. attempts[i] \in AttemptRow
    BY <1>0
  <2>1. row \in AttemptRow /\ row.notified = attempts[i].notified
    BY <2>0 DEF AttemptRow
  <2>2. attempts' = [attempts EXCEPT ![i] = row] /\ UNCHANGED <<form, sweep, pushed>>
    BY <1>1 DEF GrowOld
  <2> HIDE DEF row
  <2>3. /\ attempts' \in Seq(AttemptRow) /\ Len(attempts') = Len(attempts)
        /\ attempts'[i] = row /\ \A j \in Rows \ {i} : attempts'[j] = attempts[j]
    BY <2>1, <2>2, RowWritten
  <2> QED
    BY <1>0, <2>1, <2>2, <2>3, RowsWritten
<1>2. ASSUME NEW w \in Sweepers, BeginSweep(w) PROVE FunnelOK'
  <2>1. /\ sweep' = [sweep EXCEPT ![w] = {i \in Rows : Abandoned(i)}]
        /\ UNCHANGED <<attempts, form, pushed>>
    BY <1>2 DEF BeginSweep
  <2>2. Rows' = Rows
    BY <2>1 DEF Rows
  <2>3. sweep' \in [Sweepers -> SUBSET Rows']
    BY <1>0, <2>1, <2>2
  <2> QED
    BY <1>0, <2>1, <2>2, <2>3, FunnelStep
<1>3. ASSUME NEW w \in Sweepers, NEW i \in Rows, SweepAbandoned(w, i) PROVE FunnelOK'
  <2>1. sweep' = [sweep EXCEPT ![w] = @ \ {i}] /\ UNCHANGED form
    BY <1>3 DEF SweepAbandoned
  <2>2. sweep' \in [Sweepers -> SUBSET Rows]
    BY <1>0, <2>1
  <2>3. CASE Claimed(i)
    <3> DEFINE row == [attempts[i] EXCEPT !.outcome = "ABANDONED", !.notified = TRUE]
    <3>0. attempts[i] \in AttemptRow
      BY <1>0
    <3>1. row \in AttemptRow /\ row.notified = TRUE
      BY <3>0 DEF AttemptRow
    <3>2. attempts' = [attempts EXCEPT ![i] = row]
      BY <1>0, <1>3, <2>3 DEF SweepAbandoned
    <3>3. PICK delivered \in {0, 1} : pushed' = [pushed EXCEPT ![i] = @ + delivered]
      BY <1>3, <2>3 DEF SweepAbandoned
    <3> HIDE DEF row
    <3>4. /\ attempts' \in Seq(AttemptRow) /\ Len(attempts') = Len(attempts) /\ Rows' = Rows
          /\ attempts'[i] = row /\ \A j \in Rows \ {i} : attempts'[j] = attempts[j]
      BY <3>1, <3>2, RowWritten
    <3>5. pushed[i] = 0
      BY <1>0, <2>3 DEF Claimed
    <3>6. pushed' = [pushed EXCEPT ![i] = delivered] /\ delivered \in Nat
      BY <1>0, <3>3, <3>5
    <3>7. /\ pushed' \in Seq(Nat) /\ Len(pushed') = Len(pushed) /\ pushed'[i] = delivered
          /\ \A j \in Rows \ {i} : pushed'[j] = pushed[j]
      BY <1>0, <3>6, ExceptFacts
    <3>8. \A j \in Rows' : pushed'[j] = 0 \/ (attempts'[j].notified /\ pushed'[j] = 1)
      BY <1>0, <3>1, <3>4, <3>7
    <3> QED
      BY <1>0, <2>1, <2>2, <3>4, <3>7, <3>8, FunnelStep
  <2>4. CASE ~Claimed(i)
    <3>1. UNCHANGED <<attempts, pushed>> /\ Rows' = Rows
      BY <1>3, <2>4 DEF SweepAbandoned, Rows
    <3> QED
      BY <1>0, <2>1, <2>2, <3>1, FunnelStep
  <2> QED
    BY <2>3, <2>4
<1> QED
  BY <1>1, <1>2, <1>3

LEMMA FunnelKeep == ASSUME FunnelOK, Funnel PROVE FunnelOK'
BY Tracked, SettledOrClosed, SweptOrAged DEF Funnel

-----------------------------------------------------------------------------
(* What each step is to the map, to the states and to the rest.            *)
AboutMaps ==
    \/ \E k \in Riders : \/ \E p \in Places : ResolveCoordinates(k, p) \/ ResolveAddress(k, p)
                         \/ \E path \in Paths, fr \in BOOLEAN : Lookup(k, path, fr)
                         \/ Advance(k) \/ LookupAnswered(k) \/ Located(k) \/ Judge(k)
    \/ CoolDown /\ UNCHANGED <<stateVars, enquiryVars>>
    \/ Crash
AboutStates ==
    (EditStates \/ EditCities \/ \E h \in Hosts : Ages(h)) /\ UNCHANGED <<mapVars, enquiryVars>>

LEMMA MapsUnder ==
    ASSUME AboutMaps PROVE MapsChange
<1>1. ASSUME NEW k \in Riders, NEW p \in Places, ResolveCoordinates(k, p) \/ ResolveAddress(k, p)
      PROVE  MapsChange
  <2>1. \/ UNCHANGED mapVars
        \/ p.pinned /\ Ask(k, <<ReverseGeocode(p)>>, FALSE)
        \/ ~p.pinned /\ Ask(k, <<Geocode(p)>>, FALSE)
    BY <1>1 DEF ResolveCoordinates, ResolveAddress
  <2> QED
    BY <2>1, PlaceIs DEF MapsChange, Riders
<1>2. ASSUME NEW k \in Riders, NEW path \in Paths, NEW fr \in BOOLEAN, Lookup(k, path, fr)
      PROVE  MapsChange
  <2>1. path \in Seq(Questions) \ {<<>>} /\ Ask(k, path, fr)
    BY <1>2, EnquiriesAssumption DEF Lookup
  <2> QED
    BY <2>1 DEF MapsChange, Riders
<1>3. ASSUME NEW k \in Riders, Advance(k) \/ LookupAnswered(k) \/ Located(k)
      PROVE  MapsChange
  BY <1>3 DEF MapsChange, Riders, Advance, LookupAnswered, Located
<1>4. ASSUME NEW k \in Riders, Judge(k)
      PROVE  MapsChange
  BY <1>4 DEF MapsChange, Judge
<1>5. ASSUME CoolDown \/ Crash
      PROVE  MapsChange
  BY <1>5 DEF MapsChange, Crash
<1> QED
  BY <1>1, <1>2, <1>3, <1>4, <1>5 DEF AboutMaps

(* A step that is not an edit leaves the tables as they are.               *)
LEMMA StatesAside ==
    ASSUME StatesInv, AboutMaps \/ Requests \/ Funnel PROVE StatesInv'
<1>0. /\ made \in 0..MaxCalls /\ fresh \subseteq Hosts /\ copy \in [Hosts -> (SUBSET States) \cup {None}]
      /\ Here \in Hosts
  BY EnquiriesAssumption DEF StatesInv, StatesTypeOK
<1>1. UNCHANGED boards /\ made' \in 0..MaxCalls
  <2>1. CASE AboutMaps
    <3>1. UNCHANGED boards /\ (UNCHANGED made \/ Visit)
      BY <2>1 DEF AboutMaps, ResolveCoordinates, ResolveAddress, Lookup, Advance, LookupAnswered,
                  Located, Judge, Crash, boards, listVars, stateVars
    <3> QED
      BY <1>0, <3>1, Visited
  <2>2. CASE Requests
    <3>1. UNCHANGED boards /\ (UNCHANGED made \/ Visit)
      BY <2>2 DEF Requests, CreateRequest, BeginCancelMine, BeginUpdateStatus, UpdateStatus,
                  boards, listVars, stateVars
    <3> QED
      BY <1>0, <3>1, Visited
  <2>3. CASE Funnel
    <3>1. UNCHANGED boards /\ (UNCHANGED made \/ Visit)
      BY <2>3 DEF Funnel, BeginTrack, Track, LogAttempt, SettleAttempt, CloseForBooking, GrowOld,
                  BeginSweep, SweepAbandoned, outside, listVars, boards
    <3> QED
      BY <1>0, <3>1, Visited
  <2> QED
    BY <2>1, <2>2, <2>3
<1>2. UNCHANGED <<copy, fresh>> \/ \E view \in Consulted : Consult(view)
  <2>1. CASE AboutMaps
    BY <2>1 DEF AboutMaps, ResolveCoordinates, ResolveAddress, Lookup, Advance, LookupAnswered,
                Located, Judge, Crash, listVars, stateVars
  <2>2. CASE Requests
    BY <2>2 DEF Requests, CreateRequest, BeginCancelMine, BeginUpdateStatus, UpdateStatus,
                listVars, stateVars
  <2>3. CASE Funnel
    BY <2>3 DEF Funnel, BeginTrack, Track, LogAttempt, SettleAttempt, CloseForBooking, GrowOld,
                BeginSweep, SweepAbandoned, outside, listVars
  <2> QED
    BY <2>1, <2>2, <2>3
<1>3. fresh' \subseteq Hosts /\ copy' \in [Hosts -> (SUBSET States) \cup {None}]
  BY <1>0, <1>2, Consulting
<1> QED
  BY <1>1, <1>3, CopyKept

LEMMA MapsStill == ASSUME MapsInv, UNCHANGED mapVars PROVE MapsInv'
BY MapsKeep DEF MapsChange
LEMMA StatesStill == ASSUME StatesInv, UNCHANGED stateVars PROVE StatesInv'
<1>1. /\ UNCHANGED boards /\ made' \in 0..MaxCalls /\ fresh' \subseteq Hosts
      /\ copy' \in [Hosts -> (SUBSET States) \cup {None}]
  BY DEF stateVars, boards, StatesInv, StatesTypeOK
<1> QED
  BY <1>1, CopyKept
LEMMA VisitStill == ASSUME VisitOK, UNCHANGED <<visit, refused>> PROVE VisitOK'
BY DEF VisitOK
LEMMA DeskStill == ASSUME DeskOK, UNCHANGED <<requests, desk>> PROVE DeskOK'
BY DEF DeskOK
LEMMA FunnelStill == ASSUME FunnelOK, UNCHANGED funnelVars PROVE FunnelOK'
BY DEF FunnelOK, FunnelInv, funnelVars, Rows

LEMMA EnquiriesStep ==
    ASSUME EnquiriesInv, [EnquiriesNext]_officeVars PROVE EnquiriesInv'
<1>0. MapsInv /\ StatesInv /\ VisitOK /\ DeskOK /\ FunnelOK
  BY Parts
<1>1. CASE AboutMaps
  <2>1. MapsInv' /\ StatesInv'
    BY <1>0, <1>1, MapsUnder, MapsKeep, StatesAside
  <2>2. UNCHANGED <<requests, desk>> /\ UNCHANGED funnelVars
    BY <1>1 DEF AboutMaps, ResolveCoordinates, ResolveAddress, Lookup, Advance, LookupAnswered,
                Located, Judge, Crash, enquiryVars, funnelVars
  <2>3. VisitOK'
    <3>1. ASSUME NEW k \in Riders,
                 \/ \E p \in Places : ResolveCoordinates(k, p) \/ ResolveAddress(k, p)
                 \/ Located(k) \/ Judge(k)
          PROVE  VisitOK'
      BY <3>1, VisitKeep
    <3>2. ASSUME UNCHANGED <<visit, refused>> PROVE VisitOK'
      BY <1>0, <3>2, VisitStill
    <3>3. ASSUME Crash PROVE VisitOK'
      BY <1>0, <3>3 DEF Crash, VisitOK
    <3> QED
      BY <1>1, <3>1, <3>2, <3>3 DEF AboutMaps, Lookup, Advance, LookupAnswered, enquiryVars
  <2> QED
    BY <1>0, <2>1, <2>2, <2>3, DeskStill, FunnelStill, PartsHold
<1>2. CASE AboutStates
  <2>1. /\ StatesInv' /\ UNCHANGED mapVars /\ UNCHANGED <<visit, refused>>
        /\ UNCHANGED <<requests, desk>> /\ UNCHANGED funnelVars
    BY <1>0, <1>2, StatesKeep DEF AboutStates, enquiryVars, funnelVars
  <2>2. MapsInv' /\ VisitOK' /\ DeskOK' /\ FunnelOK'
    BY <1>0, <2>1, MapsStill, VisitStill, DeskStill, FunnelStill
  <2> QED
    BY <2>1, <2>2, PartsHold
<1>3. CASE Requests
  <2>1. UNCHANGED mapVars /\ UNCHANGED <<visit, refused>> /\ UNCHANGED funnelVars
    BY <1>3 DEF Requests, CreateRequest, BeginCancelMine, BeginUpdateStatus, UpdateStatus
  <2>2. StatesInv' /\ MapsInv' /\ VisitOK' /\ DeskOK' /\ FunnelOK'
    BY <1>0, <1>3, <2>1, StatesAside, RequestKept, MapsStill, VisitStill, FunnelStill
  <2> QED
    BY <2>2, PartsHold
<1>4. CASE Funnel
  <2>1. UNCHANGED mapVars /\ UNCHANGED <<visit, refused>> /\ UNCHANGED <<requests, desk>>
    BY <1>4 DEF Funnel, BeginTrack, Track, LogAttempt, SettleAttempt, CloseForBooking, GrowOld,
                BeginSweep, SweepAbandoned, outside
  <2>2. StatesInv' /\ MapsInv' /\ VisitOK' /\ DeskOK' /\ FunnelOK'
    BY <1>0, <1>4, <2>1, StatesAside, FunnelKeep, MapsStill, VisitStill, DeskStill
  <2> QED
    BY <2>2, PartsHold
<1>5. CASE UNCHANGED officeVars
  <2>1. /\ UNCHANGED mapVars /\ UNCHANGED stateVars /\ UNCHANGED <<visit, refused>>
        /\ UNCHANGED <<requests, desk>> /\ UNCHANGED funnelVars
    BY <1>5 DEF officeVars, enquiryVars, funnelVars
  <2>2. StatesInv' /\ MapsInv' /\ VisitOK' /\ DeskOK' /\ FunnelOK'
    BY <1>0, <2>1, MapsStill, StatesStill, VisitStill, DeskStill, FunnelStill
  <2> QED
    BY <2>2, PartsHold
<1> QED
  BY <1>1, <1>2, <1>3, <1>4, <1>5 DEF EnquiriesNext, AboutMaps, AboutStates

LEMMA EnquiriesBegin == ASSUME EnquiriesInit PROVE EnquiriesInv
<1>1. MapsInv
  <2>1. /\ breaker = Closed /\ cooled = FALSE /\ found = [q \in Questions |-> None]
        /\ locks = [q \in Questions |-> None] /\ seek = [k \in Seekers |-> Nowhere]
        /\ Closed \in [state : {"closed", "open", "half-open"}, failures : 0..Threshold]
    BY MapsAssumption DEF EnquiriesInit, MapsInit, Closed
  <2>2. \A k \in Seekers : seek[k].at = "rest"
    BY <2>1 DEF Nowhere
  <2> QED
    BY <2>1, <2>2 DEF MapsInv, MapsTypeOK, ProbeIsOut, Closed
<1>2. StatesInv
  <2>1. /\ rows = [s \in States |-> None] /\ copy = [h \in Hosts |-> None] /\ fresh = {}
        /\ towns = [c \in Towns |-> None] /\ edits = [e \in Staff |-> Quiet] /\ made = 0
        /\ opened = BuiltIn /\ closed = {} /\ unseeded = {} /\ BuiltIn \subseteq States /\ MaxCalls \in Nat
        /\ None \notin BOOLEAN
    BY StatesAssumption DEF EnquiriesInit, StatesInit
  <2>2. StatesTypeOK
    BY <2>1 DEF StatesTypeOK
  <2>3. Recorded = {} /\ \A s \in States : rows[s] # FALSE
    BY <2>1 DEF Recorded
  <2>4. \A e \in Staff : Fits(e)
    BY <2>1 DEF Fits, Quiet
  <2> QED
    BY <2>1, <2>2, <2>3, <2>4 DEF StatesInv
<1>3. VisitOK
  BY DEF EnquiriesInit, VisitOK
<1>4. DeskOK
  BY EnquiriesAssumption DEF EnquiriesInit, DeskOK, NoDesk
<1>5. FunnelOK
  BY DEF EnquiriesInit, FunnelOK, FunnelInv, NoForm, Rows
<1> QED
  BY <1>1, <1>2, <1>3, <1>4, <1>5, Parts

(* The map's breaker, the states' edits and the forms keep to what they    *)
(* hold to, whatever riders, staff and sweepers do between one another's   *)
(* steps.                                                                  *)
THEOREM EnquiriesAreInvariant == EnquiriesSpec => []EnquiriesInv
<1> QED
  BY EnquiriesBegin, EnquiriesStep, PTL DEF EnquiriesSpec

(* A rider is chased for a form at most once, for any number of riders,    *)
(* sweepers and forms (funnel.sweepAbandoned).                             *)
THEOREM ChasesOnce == EnquiriesSpec => []ChasedOnce
<1>1. ASSUME EnquiriesInv PROVE ChasedOnce
  <2>1. FunnelOK
    BY <1>1, Parts
  <2>2. \A i \in Rows : pushed[i] \in {0, 1}
    BY <2>1 DEF FunnelOK, FunnelInv
  <2>3. \A i \in Rows : pushed[i] <= 1
    BY <2>2
  <2> QED
    BY <1>1, <2>3 DEF ChasedOnce, EnquiriesInv
<1> QED
  BY <1>1, EnquiriesAreInvariant, PTL

(* No edit of the list of states takes another state out of service, but   *)
(* for what the seeding that wrote the first row leaves out while it is    *)
(* under way, or for good if it stops, for any number of editors, edits    *)
(* that fail and processes (serviceState.service.js).                      *)
THEOREM OpenStays == EnquiriesSpec => []OpenStaysOpen
<1>1. ASSUME EnquiriesInv PROVE OpenStaysOpen
  <2>1. StatesInv
    BY <1>1 DEF EnquiriesInv
  <2>2. CASE Recorded = {}
    BY <2>1, <2>2 DEF StatesInv, OpenStaysOpen, Served, Allowed, ActiveStates
  <2>3. CASE Recorded # {}
    <3>1. (opened \ closed) \ (unseeded \ Recorded) \subseteq ActiveStates
      BY <2>1, <2>3 DEF StatesInv, Unwritten
    <3> QED
      BY <3>1 DEF OpenStaysOpen, Served, Allowed
  <2> QED
    BY <2>2, <2>3 DEF OpenStaysOpen
<1> QED
  BY <1>1, EnquiriesAreInvariant, PTL

(* A breaker that is half open has a call out that will decide it, for any *)
(* number of requests and any threshold (callProvider).                    *)
THEOREM ProbesAreOut == EnquiriesSpec => []ProbeIsOut
<1>1. ASSUME EnquiriesInv PROVE ProbeIsOut
  BY <1>1 DEF EnquiriesInv, MapsInv
<1> QED
  BY <1>1, EnquiriesAreInvariant, PTL

=============================================================================
