-------------------------- MODULE SyncJobsProofs --------------------------
(* What holds of the synchronisation queue for every number of workers,    *)
(* runs, crashes and for every batch size.                                 *)
EXTENDS SyncJobs, TLAPS

-----------------------------------------------------------------------------
(* A worker with a run in hand: what it locks, claims and executes is a    *)
(* run id.                                                                 *)
JobInv ==
    \A w \in Workers :
        pc[w] \in {"locked", "taken", "claimed", "executing"} => job[w] \in RunIds

(* A worker that has locked or claimed a run has a run id.                 *)
LEMMA JobNext == TypeOK /\ JobInv /\ [Next]_vars => JobInv'
<1> SUFFICES ASSUME TypeOK, JobInv, [Next]_vars PROVE JobInv'
  OBVIOUS
<1> USE DEF TypeOK, JobInv, Control, db, procs
<1>1. CASE UNCHANGED vars
  BY <1>1 DEF vars
<1>2. ASSUME NEW r \in RunIds, Request(r) \/ Age(r) PROVE JobInv'
  BY <1>2 DEF Request, EnqueueFeed, EnqueueUpload, EnqueueUrl, Enqueue,
              StoreSource, AbortRequest, Age
<1>3. ASSUME NEW w \in Workers, Reclaim(w) \/ EndPoll(w) PROVE JobInv'
  BY <1>3 DEF Reclaim, SelectStale, CommitReclaim, EndPoll
<1>4. ASSUME NEW w \in Workers, Lock(w) \/ Claim(w) PROVE JobInv'
  BY <1>4 DEF Lock, Claim, Pending
<1>5. ASSUME NEW w \in Workers, Process(w) PROVE JobInv'
  BY <1>5 DEF Process, Reload, Begin, Download, FinishOk, FinishFailed, Finish
<1>6. ASSUME NEW w \in Workers, Crash(w) \/ LoseConnection(w) \/ Restart(w)
      PROVE  JobInv'
  BY <1>6 DEF Crash, LoseConnection, Forget, Restart
<1>7. QED BY <1>1, <1>2, <1>3, <1>4, <1>5, <1>6 DEF Next, WorkerStep, Take

-----------------------------------------------------------------------------
(* Type correctness, action by action.                                     *)

(* The initial state has the types.                                        *)
LEMMA TypeInit == Init => TypeOK
BY SyncJobsAssumption DEF Init, TypeOK, Status, Reading, NoRow, File, Control

(* The handlers of the API keep the types.                                 *)
LEMMA TypeRequest ==
    ASSUME TypeOK, NEW r \in RunIds, Request(r)
    PROVE  TypeOK'
<1> USE DEF TypeOK, Status, Reading, File, Control, db, procs
<1>1. CASE EnqueueFeed(r) \/ EnqueueUpload(r) \/ EnqueueUrl(r)
  BY <1>1 DEF EnqueueFeed, EnqueueUpload, EnqueueUrl, Enqueue
<1>2. CASE StoreSource(r)
  BY <1>2 DEF StoreSource
<1>3. CASE AbortRequest(r)
  BY <1>3 DEF AbortRequest
<1>4. QED BY <1>1, <1>2, <1>3 DEF Request

(* The reclaim keeps the types.                                            *)
LEMMA TypeReclaim ==
    ASSUME TypeOK, NEW w \in Workers, Reclaim(w)
    PROVE  TypeOK'
<1> USE SyncJobsAssumption DEF TypeOK, Status, Reading, File, Control, db, procs
<1>1. CASE SelectStale(w)
  <2>1. StaleRuns \subseteq RunIds
    BY DEF StaleRuns
  <2>2. stale' \in [Workers -> SUBSET RunIds]
    BY <1>1, <2>1 DEF SelectStale
  <2>3. QED BY <1>1, <2>2 DEF SelectStale
<1>2. CASE CommitReclaim(w)
  BY <1>2 DEF CommitReclaim
<1>3. QED BY <1>1, <1>2 DEF Reclaim

(* The claims of a poll keep the types.                                    *)
LEMMA TypeClaim ==
    ASSUME TypeOK, NEW w \in Workers, Take(w)
    PROVE  TypeOK'
<1> USE SyncJobsAssumption DEF TypeOK, Status, Reading, File, Control, db, procs
<1>1. CASE EndPoll(w)
  BY <1>1 DEF EndPoll
<1>2. CASE Lock(w)
  BY <1>2 DEF Lock, MayClaim, Pending
<1>3. CASE Claim(w)
  BY <1>3 DEF Claim
<1>4. QED BY <1>1, <1>2, <1>3 DEF Take

(* The execution of a run keeps the types.                                 *)
LEMMA TypeProcess ==
    ASSUME TypeOK, JobInv, NEW w \in Workers, Process(w)
    PROVE  TypeOK'
<1> USE SyncJobsAssumption DEF TypeOK, Status, Reading, File, Control, db, procs
<1>1. CASE Begin(w)
  BY <1>1 DEF Begin, NoRow
<1>2. CASE Reload(w)
  <2>1. CASE /\ status[job[w]] \in {"pending", "running"}
             /\ row' = [row EXCEPT ![w] = [status |-> status[job[w]],
                                         owner |-> owner[job[w]]]]
    <3>1. job[w] \in RunIds
      BY <1>2 DEF Reload, JobInv
    <3>2. [status |-> status[job[w]], owner |-> owner[job[w]]] \in Reading
      BY <3>1
    <3>3. row' \in [Workers -> Reading]
      BY <2>1, <3>2
    <3>4. QED BY <1>2, <3>3 DEF Reload
  <2>2. CASE row' = row
    BY <1>2, <2>2 DEF Reload
  <2>3. QED BY <1>2, <2>1, <2>2 DEF Reload
<1>3. CASE Download(w)
  BY <1>3 DEF Download
<1>4. CASE FinishOk(w)
  BY <1>4 DEF FinishOk, Finish
<1>5. CASE FinishFailed(w)
  BY <1>5 DEF FinishFailed, Finish
<1>6. QED BY <1>1, <1>2, <1>3, <1>4, <1>5 DEF Process

(* Crashes, restarts and the passing of time keep the types.               *)
LEMMA TypeEnvironment ==
    ASSUME TypeOK,
           \/ \E w \in Workers : Crash(w) \/ LoseConnection(w) \/ Restart(w)
           \/ \E r \in RunIds : Age(r)
    PROVE  TypeOK'
<1> USE SyncJobsAssumption DEF TypeOK, Status, Reading, File, Control, db, procs
<1>1. ASSUME NEW w \in Workers, Crash(w) \/ LoseConnection(w)
      PROVE  TypeOK'
  BY <1>1 DEF Crash, LoseConnection, Forget, NoRow
<1>2. ASSUME NEW w \in Workers, Restart(w)
      PROVE  TypeOK'
  BY <1>2 DEF Restart
<1>3. ASSUME NEW r \in RunIds, Age(r)
      PROVE  TypeOK'
  BY <1>3 DEF Age
<1>4. QED BY <1>1, <1>2, <1>3

(* Every step keeps the types.                                             *)
LEMMA TypeNext == TypeOK /\ JobInv /\ [Next]_vars => TypeOK'
<1> SUFFICES ASSUME TypeOK, JobInv, [Next]_vars PROVE TypeOK'
  OBVIOUS
<1>1. CASE UNCHANGED vars
  BY <1>1 DEF vars, TypeOK
<1>2. CASE \E r \in RunIds : Request(r)
  BY <1>2, TypeRequest
<1>3. CASE \E w \in Workers : WorkerStep(w)
  BY <1>3, TypeReclaim, TypeClaim, TypeProcess DEF WorkerStep
<1>4. CASE \/ \E w \in Workers : Crash(w) \/ LoseConnection(w) \/ Restart(w)
           \/ \E r \in RunIds : Age(r)
  BY <1>4, TypeEnvironment
<1>5. QED BY <1>1, <1>2, <1>3, <1>4 DEF Next

(* In every reachable state the rows of sync_runs hold values the code     *)
(* writes and the workers refer to existing ids.                           *)
THEOREM TypeCorrect == Spec => []TypeOK
<1>1. Init => JobInv
  BY DEF Init, JobInv
<1>2. QED BY <1>1, TypeInit, TypeNext, JobNext, PTL DEF Spec

-----------------------------------------------------------------------------
(* The row lock of a claim: the run stays pending until the claim commits, *)
(* and no second worker gets the lock.                                     *)

LockInv ==
    /\ \A w \in Workers : pc[w] = "locked" => status[job[w]] = "pending"
    /\ \A v, w \in Workers :
          pc[v] = "locked" /\ pc[w] = "locked" /\ job[v] = job[w] => v = w

(* Nobody writes a locked row but the holder of the lock.                  *)
LEMMA LockNext == TypeOK /\ JobInv /\ LockInv /\ [Next]_vars => LockInv'
<1> SUFFICES ASSUME TypeOK, JobInv, LockInv, [Next]_vars PROVE LockInv'
  OBVIOUS
<1> USE DEF TypeOK, JobInv, LockInv, Locked, Control, db, procs
<1>1. CASE UNCHANGED vars
  BY <1>1 DEF vars
<1>2. ASSUME NEW r \in RunIds, Request(r) \/ Age(r) PROVE LockInv'
  BY <1>2 DEF Request, EnqueueFeed, EnqueueUpload, EnqueueUrl, Enqueue,
              StoreSource, AbortRequest, Age
<1>3. ASSUME NEW w \in Workers, Reclaim(w) \/ EndPoll(w) PROVE LockInv'
  BY <1>3 DEF Reclaim, SelectStale, CommitReclaim, EndPoll
<1>4. ASSUME NEW w \in Workers, Lock(w) PROVE LockInv'
  BY <1>4 DEF Lock, Pending
<1>5. ASSUME NEW w \in Workers, Claim(w) PROVE LockInv'
  BY <1>5 DEF Claim
<1>6. ASSUME NEW w \in Workers, Reload(w) \/ Download(w) PROVE LockInv'
  BY <1>6 DEF Reload, Download
<1>7. ASSUME NEW w \in Workers, Begin(w) PROVE LockInv'
  BY <1>7 DEF Begin
<1>8. ASSUME NEW w \in Workers, FinishOk(w) \/ FinishFailed(w) PROVE LockInv'
  BY <1>8 DEF FinishOk, FinishFailed, Finish
<1>9. ASSUME NEW w \in Workers, Crash(w) \/ LoseConnection(w) \/ Restart(w)
      PROVE  LockInv'
  BY <1>9 DEF Crash, LoseConnection, Forget, Restart
<1>10. QED BY <1>1, <1>2, <1>3, <1>4, <1>5, <1>6, <1>7, <1>8, <1>9
           DEF Next, WorkerStep, Take, Process

-----------------------------------------------------------------------------
(* The claim excludes: no assumption on the length of jobs, on crashes or  *)
(* on how reclaims interleave.  What the refresh read is part of it,       *)
(* because process_sync_run writes according to that reading.              *)

Holds(w, r) ==
    /\ status[r] = "running" /\ owner[r] = w
    /\ pc[w] = "claimed" => row[w] = [status |-> "running", owner |-> w]

FreshInv ==
    \A r \in RunIds, w \in Workers :
        Executes(w, r) /\ r \notin requeued => Holds(w, r)

(* A reclaim marks what it puts back, so it concerns no fresh run.         *)
LEMMA FreshReclaim ==
    ASSUME TypeOK, FreshInv, NEW v \in Workers, CommitReclaim(v)
    PROVE  FreshInv'
BY DEF FreshInv, Holds, Executes, CommitReclaim, TypeOK

(* A claim takes a pending run, which nobody executes if it is fresh.      *)
LEMMA FreshClaim ==
    ASSUME TypeOK, JobInv, LockInv, FreshInv, NEW v \in Workers, Claim(v)
    PROVE  FreshInv'
<1> USE DEF TypeOK
<1>1. job[v] \in RunIds /\ status[job[v]] = "pending"
  BY DEF Claim, JobInv, LockInv
<1>2. ASSUME NEW r \in RunIds, NEW w \in Workers, Executes(w, r)', r \notin requeued'
      PROVE  Holds(w, r)'
  <2>1. CASE w = v
    BY <1>1, <1>2, <2>1 DEF Claim, Executes, Holds
  <2>2. CASE w # v
    <3>1. Executes(w, r) /\ r \notin requeued
      BY <1>2, <2>2 DEF Claim, Executes
    <3>2. Holds(w, r) /\ r # job[v]
      BY <1>1, <3>1 DEF FreshInv, Holds
    <3>3. QED BY <2>2, <3>2 DEF Claim, Holds
  <2>3. QED BY <2>1, <2>2
<1>3. QED BY <1>2 DEF FreshInv

(* The refresh reads the lease of a fresh run as the claim left it, and    *)
(* the beginning of the execution then writes neither status nor owner.    *)
LEMMA FreshBegin ==
    ASSUME TypeOK, JobInv, FreshInv, NEW v \in Workers, Reload(v) \/ Begin(v)
    PROVE  FreshInv'
<1> USE SyncJobsAssumption DEF TypeOK
<1>1. CASE Reload(v)
  BY <1>1 DEF Reload, FreshInv, Holds, Executes, JobInv, db
<1>2. CASE Begin(v)
  <2> SUFFICES ASSUME NEW r \in RunIds, NEW w \in Workers,
                      Executes(w, r)', r \notin requeued'
               PROVE  Holds(w, r)'
    BY DEF FreshInv
  <2>1. Executes(w, r) /\ r \notin requeued
    BY <1>2 DEF Begin, Executes
  <2>2. Holds(w, r)
    BY <2>1 DEF FreshInv
  <2>3. CASE r = job[v]
    <3>1. Executes(v, r)
      BY <1>2, <2>3 DEF Begin, Executes
    <3>2. Holds(v, r) /\ v = w
      BY <2>1, <2>2, <3>1 DEF FreshInv, Holds
    <3>3. QED BY <1>2, <2>3, <3>2 DEF Begin, Holds, NoRow
  <2>4. CASE r # job[v]
    BY <1>2, <2>1, <2>2, <2>4 DEF Begin, Executes, Holds
  <2>5. QED BY <2>3, <2>4
<1>3. QED BY <1>1, <1>2

(* An executor that records an outcome disturbs no other fresh run.        *)
LEMMA FreshFinish ==
    ASSUME TypeOK, JobInv, FreshInv, NEW v \in Workers,
           FinishOk(v) \/ FinishFailed(v)
    PROVE  FreshInv'
<1> USE DEF TypeOK
<1> SUFFICES ASSUME NEW r \in RunIds, NEW w \in Workers,
                    Executes(w, r)', r \notin requeued'
             PROVE  Holds(w, r)'
  BY DEF FreshInv
<1>1. PICK outcome \in Finished : Finish(v, outcome) /\ pc[v] = "executing"
  BY DEF FinishOk, FinishFailed, Finished
<1>2. Executes(w, r) /\ r \notin requeued /\ w # v /\ Executes(v, job[v])
  BY <1>1 DEF Executes, Finish, JobInv
<1>3. Holds(w, r) /\ r # job[v]
  BY <1>2 DEF FreshInv, Holds, Executes
<1>4. QED BY <1>1, <1>2, <1>3 DEF Finish, Holds

(* Every step keeps the exclusion of fresh runs.                           *)
LEMMA FreshNext ==
    TypeOK /\ JobInv /\ LockInv /\ FreshInv /\ [Next]_vars => FreshInv'
<1> SUFFICES ASSUME TypeOK, JobInv, LockInv, FreshInv, [Next]_vars PROVE FreshInv'
  OBVIOUS
<1> USE DEF TypeOK, Control, db, procs
<1>1. CASE UNCHANGED vars
  BY <1>1 DEF vars, FreshInv, Holds, Executes
<1>2. ASSUME NEW q \in RunIds, Request(q) \/ Age(q) PROVE FreshInv'
  BY <1>2 DEF FreshInv, Holds, Executes, Request, EnqueueFeed, EnqueueUpload,
              EnqueueUrl, Enqueue, StoreSource, AbortRequest, Age
<1>3. ASSUME NEW v \in Workers, SelectStale(v) \/ EndPoll(v) \/ Lock(v)
      PROVE  FreshInv'
  BY <1>3 DEF FreshInv, Holds, Executes, SelectStale, EndPoll, Lock
<1>4. ASSUME NEW v \in Workers, Download(v) PROVE FreshInv'
  BY <1>4 DEF FreshInv, Holds, Executes, Download
<1>5. ASSUME NEW v \in Workers, Crash(v) \/ LoseConnection(v) \/ Restart(v)
      PROVE  FreshInv'
  BY <1>5 DEF FreshInv, Holds, Executes, Crash, LoseConnection, Forget, Restart
<1>6. QED BY <1>1, <1>2, <1>3, <1>4, <1>5,
             FreshReclaim, FreshClaim, FreshBegin, FreshFinish
          DEF Next, WorkerStep, Reclaim, Take, Process

(* A run that was never requeued is executed by at most one worker, the    *)
(* holder of its lease: FOR UPDATE SKIP LOCKED with the status update in   *)
(* one transaction is enough, for any number of workers.                   *)
THEOREM FreshRunsExclusive == Spec => []FreshRunExclusive
<1>1. Init => JobInv /\ LockInv /\ FreshInv
  BY DEF Init, JobInv, LockInv, FreshInv, Executes
<1>2. FreshInv => FreshRunExclusive
  BY DEF FreshInv, Holds, FreshRunExclusive
<1>3. QED BY <1>1, <1>2, TypeInit, TypeNext, JobNext, LockNext, FreshNext, PTL
          DEF Spec

-----------------------------------------------------------------------------
(* The reclaim in isolation: either no job outlasts the 24 hours and no    *)
(* two reclaims overlap, or there is only one worker, as in the Compose    *)
(* file.  Then a run a reclaim has selected is abandoned and stays so      *)
(* until the reclaim commits.                                              *)

Isolated ==
    \/ ~LongJobs /\ ~OverlappingReclaim
    \/ \E only \in Workers : Workers = {only}

LeaseInv ==
    \A r \in RunIds, w \in Workers :
        Executes(w, r) => Holds(w, r) /\ (~LongJobs => ~aged[r])

SelectionInv ==
    \A w \in Workers : pc[w] = "reclaim" =>
        \A r \in stale[w] : status[r] = "running" /\ ~Executed(r)

OneReclaim ==
    \A v, w \in Workers : pc[v] = "reclaim" /\ pc[w] = "reclaim" => v = w

IsolatedInv == JobInv /\ LockInv /\ LeaseInv /\ SelectionInv /\ OneReclaim

(* At most one worker is between the two steps of the reclaim.             *)
LEMMA OneReclaimNext ==
    ASSUME Isolated, TypeOK, OneReclaim, [Next]_vars
    PROVE  OneReclaim'
<1> USE DEF TypeOK, OneReclaim, Control, db, procs
<1>1. CASE UNCHANGED vars
  BY <1>1 DEF vars
<1>2. ASSUME NEW r \in RunIds, Request(r) \/ Age(r) PROVE OneReclaim'
  BY <1>2 DEF Request, EnqueueFeed, EnqueueUpload, EnqueueUrl, Enqueue,
              StoreSource, AbortRequest, Age
<1>3. ASSUME NEW w \in Workers, SelectStale(w) PROVE OneReclaim'
  BY <1>3 DEF SelectStale, Isolated
<1>4. ASSUME NEW w \in Workers, CommitReclaim(w) \/ Take(w)
      PROVE  OneReclaim'
  BY <1>4 DEF CommitReclaim, Take, EndPoll, Lock, Claim
<1>5. ASSUME NEW w \in Workers, Process(w) PROVE OneReclaim'
  BY <1>5 DEF Process, Reload, Begin, Download, FinishOk, FinishFailed, Finish
<1>6. ASSUME NEW w \in Workers, Crash(w) \/ LoseConnection(w) \/ Restart(w)
      PROVE  OneReclaim'
  BY <1>6 DEF Crash, LoseConnection, Forget, Restart
<1>7. QED BY <1>1, <1>2, <1>3, <1>4, <1>5, <1>6 DEF Next, WorkerStep, Reclaim

(* What the reclaim query returns is executed by nobody.                   *)
LEMMA SelectedAbandoned ==
    ASSUME Isolated, TypeOK, LeaseInv, NEW v \in Workers, SelectStale(v)
    PROVE  \A r \in StaleRuns : ~Executed(r)
<1>1. CASE ~LongJobs
  BY <1>1 DEF LeaseInv, Holds, Executed, StaleRuns, TypeOK
<1>2. CASE LongJobs
  BY <1>2 DEF Isolated, Executed, Executes, SelectStale
<1>3. QED BY <1>1, <1>2

(* The reclaim takes no lease from an executor.                            *)
LEMMA LeaseReclaim ==
    ASSUME Isolated, TypeOK, IsolatedInv, NEW v \in Workers, Reclaim(v)
    PROVE  LeaseInv' /\ SelectionInv'
<1> USE DEF TypeOK, IsolatedInv
<1>1. CASE SelectStale(v)
  <2>1. LeaseInv'
    BY <1>1 DEF SelectStale, LeaseInv, Holds, Executes, db
  <2>2. \A r \in RunIds : Executed(r)' <=> Executed(r)
    BY <1>1 DEF SelectStale, Executed, Executes, db
  <2>3. ASSUME NEW w \in Workers, pc'[w] = "reclaim", NEW r \in stale'[w]
        PROVE  (status[r] = "running" /\ ~Executed(r))'
    <3>1. r \in RunIds /\ status' = status
      BY <1>1, <2>3 DEF SelectStale, StaleRuns, db
    <3>2. CASE w = v
      <4>1. r \in StaleRuns
        BY <1>1, <2>3, <3>2 DEF SelectStale
      <4>2. QED BY <1>1, <2>2, <3>1, <4>1, SelectedAbandoned DEF StaleRuns
    <3>3. CASE w # v
      <4>1. pc[w] = "reclaim" /\ r \in stale[w]
        BY <1>1, <2>3, <3>3 DEF SelectStale
      <4>2. QED BY <2>2, <3>1, <4>1 DEF SelectionInv
    <3>4. QED BY <3>2, <3>3
  <2>4. QED BY <2>1, <2>3 DEF SelectionInv
<1>2. CASE CommitReclaim(v)
  <2>1. \A w \in Workers, r \in RunIds : Executes(w, r)' <=> Executes(w, r)
    BY <1>2 DEF CommitReclaim, Executes
  <2>2. \A r \in RunIds : Executed(r) => r \notin stale[v]
    BY <1>2 DEF CommitReclaim, SelectionInv
  <2>3. LeaseInv'
    BY <1>2, <2>1, <2>2 DEF CommitReclaim, LeaseInv, Holds, Executed, Executes
  <2>4. \A w \in Workers : pc'[w] # "reclaim"
    BY <1>2 DEF CommitReclaim, OneReclaim
  <2>5. QED BY <2>3, <2>4 DEF SelectionInv
<1>3. QED BY <1>1, <1>2 DEF Reclaim

(* A claim gives the lease to the one worker that executes.                *)
LEMMA LeaseClaim ==
    ASSUME TypeOK, IsolatedInv, NEW v \in Workers, Claim(v)
    PROVE  LeaseInv' /\ SelectionInv'
<1> USE DEF TypeOK, IsolatedInv
<1> DEFINE q == job[v]
<1>1. q \in RunIds /\ status[q] = "pending"
  BY DEF Claim, JobInv, LockInv
<1>2. /\ stale' = stale /\ pc' = [pc EXCEPT ![v] = "taken"]
      /\ row' = row /\ job' = job
      /\ status' = [status EXCEPT ![q] = "running"]
      /\ owner' = [owner EXCEPT ![q] = v]
      /\ aged' = [aged EXCEPT ![q] = FALSE]
  BY DEF Claim
<1> HIDE DEF q
<1>3. \A w \in Workers, r \in RunIds :
          Executes(w, r)' => (w = v /\ r = q) \/ (Executes(w, r) /\ r # q /\ w # v)
  BY <1>1, <1>2 DEF Executes, LeaseInv, Holds, q, Claim
<1>4. LeaseInv'
  BY <1>1, <1>2, <1>3 DEF LeaseInv, Holds
<1>5. ASSUME NEW w \in Workers, pc'[w] = "reclaim", NEW r \in stale'[w]
      PROVE  (status[r] = "running" /\ ~Executed(r))'
  <2>1. pc[w] = "reclaim" /\ r \in stale[w] /\ r \in RunIds
    BY <1>2, <1>5
  <2>2. status[r] = "running" /\ ~Executed(r) /\ r # q
    BY <1>1, <2>1 DEF SelectionInv
  <2>3. QED BY <1>2, <1>3, <2>1, <2>2 DEF Executed
<1>6. QED BY <1>4, <1>5 DEF SelectionInv

(* The refresh reads the lease as the claim left it, and the execution     *)
(* begins without touching it.                                             *)
LEMMA LeaseBegin ==
    ASSUME TypeOK, IsolatedInv, NEW v \in Workers, Reload(v) \/ Begin(v)
    PROVE  LeaseInv' /\ SelectionInv'
<1> USE SyncJobsAssumption DEF TypeOK, IsolatedInv
<1>1. job[v] \in RunIds /\ Executes(v, job[v]) /\ Holds(v, job[v])
  BY DEF JobInv, Executes, LeaseInv, Reload, Begin
<1>2. status' = status /\ owner' = owner /\ job' = job /\ stale' = stale
  BY <1>1 DEF Reload, Begin, Holds, db
<1>3. aged' = aged \/ aged' = [aged EXCEPT ![job[v]] = FALSE]
  BY DEF Reload, Begin, db
<1>4. \A w \in Workers : pc'[w] = "reclaim" => pc[w] = "reclaim"
  BY DEF Reload, Begin
<1>5. \A w \in Workers, r \in RunIds : Executes(w, r)' <=> Executes(w, r)
  BY <1>1, <1>2 DEF Reload, Begin, Executes, Holds
<1>6. \A w \in Workers, r \in RunIds : Executes(w, r) => Holds(w, r)'
  BY <1>1, <1>2 DEF Reload, Begin, Executes, Holds, LeaseInv
<1>7. LeaseInv'
  BY <1>1, <1>3, <1>5, <1>6 DEF LeaseInv
<1>8. QED BY <1>2, <1>4, <1>5, <1>7 DEF SelectionInv, Executed

(* Recording an outcome ends the execution and the lease together.         *)
LEMMA LeaseFinish ==
    ASSUME TypeOK, IsolatedInv, NEW v \in Workers, FinishOk(v) \/ FinishFailed(v)
    PROVE  LeaseInv' /\ SelectionInv'
<1> USE DEF TypeOK, IsolatedInv
<1>1. job[v] \in RunIds /\ Executes(v, job[v])
  BY DEF JobInv, Executes, FinishOk, FinishFailed
<1>2. PICK outcome \in Finished : Finish(v, outcome)
  BY DEF FinishOk, FinishFailed, Finished
<1>4. \A w \in Workers, r \in RunIds :
          Executes(w, r)' => Executes(w, r) /\ w # v /\ r # job[v]
  BY <1>1, <1>2 DEF Finish, Executes, LeaseInv, Holds
<1>5. LeaseInv'
  BY <1>2, <1>4 DEF Finish, LeaseInv, Holds
<1>6. ASSUME NEW w \in Workers, pc'[w] = "reclaim", NEW r \in stale'[w]
      PROVE  (status[r] = "running" /\ ~Executed(r))'
  <2>1. pc[w] = "reclaim" /\ r \in stale[w] /\ r \in RunIds
    BY <1>2, <1>6 DEF Finish
  <2>2. status[r] = "running" /\ ~Executed(r) /\ r # job[v]
    BY <1>1, <2>1 DEF SelectionInv, Executed
  <2>3. QED BY <1>2, <1>4, <2>1, <2>2 DEF Finish, Executed
<1>7. QED BY <1>5, <1>6 DEF SelectionInv

(* Steps that leave the executions alone, or end one without touching the  *)
(* rows.                                                                   *)
LEMMA LeaseKept ==
    ASSUME TypeOK, IsolatedInv,
           \/ UNCHANGED vars
           \/ \E r \in RunIds : Request(r) \/ Age(r)
           \/ \E v \in Workers : \/ EndPoll(v) \/ Lock(v) \/ Download(v)
                                 \/ Crash(v) \/ LoseConnection(v) \/ Restart(v)
    PROVE  LeaseInv' /\ SelectionInv'
<1> USE DEF TypeOK, IsolatedInv, Control, db, procs
<1>1. CASE UNCHANGED vars
  BY <1>1 DEF vars, LeaseInv, Holds, SelectionInv, Executed, Executes
<1>2. ASSUME NEW r \in RunIds, Request(r) PROVE LeaseInv' /\ SelectionInv'
  BY <1>2 DEF LeaseInv, Holds, SelectionInv, Executed, Executes, Request,
              EnqueueFeed, EnqueueUpload, EnqueueUrl, Enqueue, StoreSource, AbortRequest
<1>3. ASSUME NEW r \in RunIds, Age(r) PROVE LeaseInv' /\ SelectionInv'
  BY <1>3 DEF LeaseInv, Holds, SelectionInv, Executed, Executes, Age
<1>4. ASSUME NEW v \in Workers, EndPoll(v) \/ Lock(v) \/ Download(v)
      PROVE  LeaseInv' /\ SelectionInv'
  BY <1>4 DEF LeaseInv, Holds, SelectionInv, Executed, Executes, EndPoll,
              Lock, Download
<1>5. ASSUME NEW v \in Workers, Crash(v) \/ LoseConnection(v) \/ Restart(v)
      PROVE  LeaseInv' /\ SelectionInv'
  BY <1>5 DEF LeaseInv, Holds, SelectionInv, Executed, Executes,
              Crash, LoseConnection, Forget, Restart
<1>6. QED BY <1>1, <1>2, <1>3, <1>4, <1>5

(* Every step keeps the inductive invariant.                               *)
LEMMA IsolatedNext ==
    ASSUME Isolated
    PROVE  TypeOK /\ IsolatedInv /\ [Next]_vars => IsolatedInv'
<1> SUFFICES ASSUME TypeOK, IsolatedInv, [Next]_vars PROVE IsolatedInv'
  OBVIOUS
<1>1. JobInv' /\ LockInv' /\ OneReclaim'
  BY JobNext, LockNext, OneReclaimNext DEF IsolatedInv
<1>2. LeaseInv' /\ SelectionInv'
  <2>1. CASE \/ UNCHANGED vars
             \/ \E r \in RunIds : Request(r) \/ Age(r)
             \/ \E v \in Workers : \/ EndPoll(v) \/ Lock(v) \/ Download(v)
                                   \/ Crash(v) \/ LoseConnection(v) \/ Restart(v)
    BY <2>1, LeaseKept
  <2>2. CASE \E v \in Workers : Reclaim(v)
    BY <2>2, LeaseReclaim
  <2>3. CASE \E v \in Workers : Claim(v)
    BY <2>3, LeaseClaim
  <2>4. CASE \E v \in Workers : Reload(v) \/ Begin(v)
    BY <2>4, LeaseBegin
  <2>5. CASE \E v \in Workers : FinishOk(v) \/ FinishFailed(v)
    BY <2>5, LeaseFinish
  <2>6. QED BY <2>1, <2>2, <2>3, <2>4, <2>5 DEF Next, WorkerStep, Take, Process
<1>3. QED BY <1>1, <1>2 DEF IsolatedInv

(* The initial state satisfies the inductive invariant.                    *)
LEMMA IsolatedInit == Init => IsolatedInv
BY DEF Init, IsolatedInv, JobInv, LockInv, LeaseInv, SelectionInv, OneReclaim, Executes

(* With reclaims in isolation every execution holds the lease of its run,  *)
(* for any number of workers, runs and crashes.                            *)
THEOREM ExecutionExclusive ==
    ASSUME Isolated PROVE Spec => []ExclusiveExecution
<1>1. TypeOK /\ IsolatedInv /\ [Next]_vars => TypeOK' /\ IsolatedInv'
  BY TypeNext, IsolatedNext DEF IsolatedInv
<1>2. IsolatedInv => ExclusiveExecution
  BY DEF IsolatedInv, LeaseInv, Holds, ExclusiveExecution
<1>3. QED BY <1>1, <1>2, TypeInit, IsolatedInit, PTL DEF Spec

(* What a step may do to the status of one run.                            *)
LEMMA StatusStep ==
    ASSUME TypeOK, IsolatedInv, [Next]_vars, NEW r \in RunIds
    PROVE  /\ status[r] \in Finished => status'[r] = status[r]
           /\ status[r] = "running" /\ status'[r] = "pending" => ~Executed(r)
<1> USE DEF TypeOK, IsolatedInv, Finished, db, procs
<1>1. CASE UNCHANGED vars
  BY <1>1 DEF vars
<1>2. ASSUME NEW q \in RunIds, Request(q) \/ Age(q)
      PROVE  status[r] # "absent" => status'[r] = status[r]
  BY <1>2 DEF Request, EnqueueFeed, EnqueueUpload, EnqueueUrl, Enqueue,
              StoreSource, AbortRequest, Age
<1>3. ASSUME NEW v \in Workers,
             \/ SelectStale(v) \/ EndPoll(v) \/ Lock(v) \/ Reload(v) \/ Download(v)
             \/ Crash(v) \/ LoseConnection(v) \/ Restart(v)
      PROVE  status' = status
  BY <1>3 DEF SelectStale, EndPoll, Lock, Reload, Download, Crash,
              LoseConnection, Forget, Restart
<1>4. ASSUME NEW v \in Workers, CommitReclaim(v)
      PROVE  status'[r] # status[r] => status[r] = "running" /\ ~Executed(r)
  BY <1>4 DEF CommitReclaim, SelectionInv
<1>5. ASSUME NEW v \in Workers, Claim(v)
      PROVE  status'[r] # status[r] => status[r] = "pending"
  BY <1>5 DEF Claim, LockInv
<1>6. ASSUME NEW v \in Workers, Begin(v) \/ FinishOk(v) \/ FinishFailed(v)
      PROVE  status'[r] # status[r] => status[r] = "running" /\ status'[r] # "pending"
  <2>1. job[v] \in RunIds /\ status[job[v]] = "running"
    BY <1>6 DEF JobInv, LeaseInv, Holds, Executes, Begin, FinishOk, FinishFailed
  <2>2. QED BY <1>6, <2>1 DEF Begin, FinishOk, FinishFailed, Finish
<1>7. QED BY <1>1, <1>2, <1>3, <1>4, <1>5, <1>6
          DEF Next, WorkerStep, Reclaim, Take, Process

(* With reclaims in isolation the recorded outcome of a run is final.      *)
THEOREM OutcomeFinal == ASSUME Isolated PROVE Spec => FinishedForever
<1>1. TypeOK /\ IsolatedInv /\ [Next]_vars => TypeOK' /\ IsolatedInv'
  BY TypeNext, IsolatedNext DEF IsolatedInv
<1>2. TypeOK /\ IsolatedInv /\ [Next]_vars
      => [\A r \in RunIds : status[r] \in Finished => status'[r] = status[r]]_vars
  BY StatusStep
<1>3. QED BY <1>1, <1>2, TypeInit, IsolatedInit, PTL
          DEF Spec, FinishedForever

(* With reclaims in isolation only abandoned runs are put back.            *)
THEOREM ReclaimSafe == ASSUME Isolated PROVE Spec => ReclaimOnlyAbandoned
<1>1. TypeOK /\ IsolatedInv /\ [Next]_vars => TypeOK' /\ IsolatedInv'
  BY TypeNext, IsolatedNext DEF IsolatedInv
<1>2. TypeOK /\ IsolatedInv /\ [Next]_vars
      => [\A r \in RunIds : status[r] = "running" /\ status'[r] = "pending"
                              => ~Executed(r)]_vars
  BY StatusStep
<1>3. QED BY <1>1, <1>2, TypeInit, IsolatedInit, PTL
          DEF Spec, ReclaimOnlyAbandoned

-----------------------------------------------------------------------------
(* The refinement: with reclaims in isolation every step of the queue is a *)
(* step of JobQueue or leaves its variables alone.                         *)

(* Under the lease invariant the abstract executor is the real one.        *)
LEMMA ExecutorIs ==
    ASSUME LeaseInv, NEW r \in RunIds
    PROVE  /\ \A w \in Workers : Executes(w, r) => Executor(r) = w
           /\ ~Executed(r) => Executor(r) = Nobody
           /\ \A w \in Workers : Executor(r) = w => Executes(w, r)
BY SyncJobsAssumption DEF LeaseInv, Holds, Executor, Executed

(* The same in the state after a step.                                     *)
LEMMA ExecutorIsAfter ==
    ASSUME LeaseInv', NEW r \in RunIds
    PROVE  /\ \A w \in Workers : Executes(w, r)' => Executor(r)' = w
           /\ ~Executed(r)' => Executor(r)' = Nobody
BY SyncJobsAssumption DEF LeaseInv, Holds, Executor, Executed

(* Steps in which no execution begins or ends keep the abstract executors. *)
LEMMA ExecutorKept ==
    ASSUME LeaseInv, LeaseInv',
           \A w \in Workers, r \in RunIds : Executes(w, r)' <=> Executes(w, r)
    PROVE  [r \in RunIds |-> Executor(r)]' = [r \in RunIds |-> Executor(r)]
<1>1. ASSUME NEW r \in RunIds PROVE Executor(r)' = Executor(r)
  BY ExecutorIs, ExecutorIsAfter DEF Executed
<1>2. QED BY <1>1

(* Worker v's execution of q ends: only q's abstract executor changes.     *)
LEMMA ExecutorEnds ==
    ASSUME LeaseInv, LeaseInv', NEW v \in Workers, NEW q \in RunIds,
           Executes(v, q),
           \A w \in Workers, r \in RunIds :
               Executes(w, r)' <=> Executes(w, r) /\ w # v
    PROVE  /\ Executor(q) # Nobody
           /\ [r \in RunIds |-> Executor(r)]'
                = [[r \in RunIds |-> Executor(r)] EXCEPT ![q] = Nobody]
<1>1. Executor(q) = v /\ Executor(q)' = Nobody
  BY ExecutorIs, ExecutorIsAfter DEF Executed, LeaseInv, Holds
<1>2. ASSUME NEW r \in RunIds, r # q PROVE Executor(r)' = Executor(r)
  <2>1. \A w \in Workers : Executes(w, r)' <=> Executes(w, r)
    BY <1>2 DEF Executes
  <2>2. QED BY <2>1, ExecutorIs, ExecutorIsAfter DEF Executed
<1>3. QED BY <1>1, <1>2, SyncJobsAssumption

(* The initial state maps to an initial state of JobQueue.                 *)
LEMMA RefineInit == Init => Promised!Init
BY DEF Init, Promised!Init, Phase, Executor, Executed, Executes, Finished

(* Steps that neither begin nor end anything map to stutters: under the    *)
(* lease the refresh and the second stamp of a run change no status.       *)
Quiet(v) ==
    \/ SelectStale(v) \/ EndPoll(v) \/ Lock(v) \/ Reload(v) \/ Begin(v)
    \/ Download(v) \/ Restart(v)

LEMMA RefineQuiet ==
    ASSUME TypeOK, IsolatedInv, LeaseInv',
           \/ UNCHANGED vars
           \/ \E r \in RunIds : StoreSource(r) \/ AbortRequest(r) \/ Age(r)
           \/ \E v \in Workers : Quiet(v)
    PROVE  UNCHANGED Promised!vars
<1> USE DEF IsolatedInv
<1>1. /\ status' = status
      /\ \A w \in Workers, r \in RunIds : Executes(w, r)' <=> Executes(w, r)
  <2>1. ASSUME NEW v \in Workers, Reload(v) \/ Begin(v)
        PROVE  /\ status' = status
               /\ \A w \in Workers, r \in RunIds :
                      Executes(w, r)' <=> Executes(w, r)
    <3>1. job[v] \in RunIds /\ Executes(v, job[v])
      BY <2>1 DEF JobInv, Executes, Reload, Begin
    <3>2. Holds(v, job[v])
      BY <3>1 DEF LeaseInv
    <3>3. QED BY <2>1, <3>1, <3>2 DEF Reload, Begin, Executes, Holds, TypeOK, db
  <2>2. CASE \/ UNCHANGED vars
             \/ \E r \in RunIds : StoreSource(r) \/ AbortRequest(r) \/ Age(r)
    BY <2>2 DEF vars, Executes, StoreSource, AbortRequest, Age, procs
  <2>3. ASSUME NEW v \in Workers,
               SelectStale(v) \/ EndPoll(v) \/ Lock(v) \/ Download(v) \/ Restart(v)
        PROVE  /\ status' = status
               /\ \A w \in Workers, r \in RunIds :
                      Executes(w, r)' <=> Executes(w, r)
    BY <2>3 DEF TypeOK, Executes, SelectStale, EndPoll, Lock, MayClaim, Download,
                Restart, db, procs
  <2>4. QED BY <2>1, <2>2, <2>3 DEF Quiet
<1>2. [r \in RunIds |-> Executor(r)]' = [r \in RunIds |-> Executor(r)]
  BY <1>1, ExecutorKept
<1>3. [r \in RunIds |-> Phase(r)]' = [r \in RunIds |-> Phase(r)]
  BY <1>1 DEF Phase
<1>4. QED BY <1>2, <1>3 DEF Promised!vars

(* An enqueue maps to Submit.                                              *)
LEMMA RefineSubmit ==
    ASSUME TypeOK, LeaseInv, LeaseInv', NEW q \in RunIds,
           EnqueueFeed(q) \/ EnqueueUpload(q) \/ EnqueueUrl(q)
    PROVE  Promised!Submit(q)
<1>1. /\ status[q] = "absent"
      /\ status' = [status EXCEPT ![q] = "pending"]
      /\ \A w \in Workers, r \in RunIds : Executes(w, r)' <=> Executes(w, r)
  BY DEF EnqueueFeed, EnqueueUpload, EnqueueUrl, Enqueue, Executes, procs
<1>2. [r \in RunIds |-> Executor(r)]' = [r \in RunIds |-> Executor(r)]
  BY <1>1, ExecutorKept
<1>3. [r \in RunIds |-> Phase(r)]'
        = [[r \in RunIds |-> Phase(r)] EXCEPT ![q] = "queued"]
  BY <1>1 DEF Phase, TypeOK
<1>4. [r \in RunIds |-> Phase(r)][q] = "absent"
  BY <1>1 DEF Phase
<1>5. QED BY <1>2, <1>3, <1>4 DEF Promised!Submit

(* A committed reclaim maps to Requeue.                                    *)
LEMMA RefineRequeue ==
    ASSUME TypeOK, IsolatedInv, LeaseInv', NEW v \in Workers, CommitReclaim(v)
    PROVE  Promised!Requeue(stale[v])
<1>1. \A r \in stale[v] : r \in RunIds /\ status[r] = "running" /\ ~Executed(r)
  BY DEF TypeOK, IsolatedInv, SelectionInv, CommitReclaim
<1>2. \A w \in Workers, r \in RunIds : Executes(w, r)' <=> Executes(w, r)
  BY DEF TypeOK, CommitReclaim, Executes
<1>3. [r \in RunIds |-> Executor(r)]' = [r \in RunIds |-> Executor(r)]
  BY <1>2, ExecutorKept DEF IsolatedInv
<1>4. [r \in RunIds |-> Phase(r)]'
        = [r \in RunIds |-> IF r \in stale[v] THEN "queued"
                            ELSE [q \in RunIds |-> Phase(q)][r]]
  BY DEF CommitReclaim, Phase, TypeOK
<1>5. \A r \in stale[v] : Phase(r) = "active" /\ Executor(r) = Nobody
  BY <1>1, ExecutorIs DEF Phase, IsolatedInv
<1>6. QED BY <1>1, <1>3, <1>4, <1>5 DEF Promised!Requeue

(* A claim maps to Start.                                                  *)
LEMMA RefineStart ==
    ASSUME TypeOK, IsolatedInv, LeaseInv', NEW v \in Workers, Claim(v)
    PROVE  \E q \in RunIds : Promised!Start(q, v)
<1> USE DEF IsolatedInv
<1>1. PICK q \in RunIds : /\ status[q] = "pending" /\ job[v] = q
                          /\ status' = [status EXCEPT ![q] = "running"]
                          /\ job' = job
  BY DEF Claim, JobInv, LockInv
<1>2. pc[v] = "locked" /\ pc' = [pc EXCEPT ![v] = "taken"]
  BY DEF Claim
<1>3. \A w \in Workers, r \in RunIds :
          Executes(w, r)' <=> (w = v /\ r = q) \/ Executes(w, r)
  BY <1>1, <1>2 DEF Executes, TypeOK
<1>4. ~Executed(q)
  BY <1>1 DEF Executed, LeaseInv, Holds
<1>5. Executor(q)' = v
  BY <1>3, ExecutorIsAfter
<1>6. ASSUME NEW r \in RunIds, r # q PROVE Executor(r)' = Executor(r)
  BY <1>3, <1>6, ExecutorIs, ExecutorIsAfter DEF Executed
<1>7. \A r \in RunIds : Executor(r) # v
  BY <1>2, ExecutorIs DEF Executes
<1>8. [r \in RunIds |-> Phase(r)]'
        = [[r \in RunIds |-> Phase(r)] EXCEPT ![q] = "active"]
  BY <1>1 DEF Phase, TypeOK
<1>9. [r \in RunIds |-> Executor(r)]'
        = [[r \in RunIds |-> Executor(r)] EXCEPT ![q] = v]
  BY <1>5, <1>6
<1>10. [r \in RunIds |-> Phase(r)][q] = "queued"
  BY <1>1 DEF Phase
<1>11. QED BY <1>7, <1>8, <1>9, <1>10 DEF Promised!Start, Promised!Idle

(* A recorded outcome maps to Finish.                                      *)
LEMMA RefineFinish ==
    ASSUME TypeOK, IsolatedInv, LeaseInv', NEW v \in Workers,
           FinishOk(v) \/ FinishFailed(v)
    PROVE  Promised!Finish(job[v])
<1> USE DEF IsolatedInv
<1>1. job[v] \in RunIds /\ Executes(v, job[v])
  BY DEF JobInv, Executes, FinishOk, FinishFailed
<1>2. PICK outcome \in Finished : Finish(v, outcome)
  BY DEF FinishOk, FinishFailed, Finished
<1>3. \A w \in Workers, r \in RunIds :
          Executes(w, r)' <=> Executes(w, r) /\ w # v
  BY <1>1, <1>2 DEF Finish, Executes, TypeOK
<1>4. [r \in RunIds |-> Phase(r)]'
        = [[r \in RunIds |-> Phase(r)] EXCEPT ![job[v]] = "done"]
  BY <1>1, <1>2 DEF Finish, Phase, Finished, TypeOK
<1>5. QED BY <1>1, <1>3, <1>4, ExecutorEnds DEF Promised!Finish

(* A crash of an executor maps to Abandon.                                 *)
LEMMA RefineCrash ==
    ASSUME TypeOK, IsolatedInv, LeaseInv', NEW v \in Workers,
           Crash(v) \/ LoseConnection(v)
    PROVE  [Promised!Next]_Promised!vars
<1> USE DEF IsolatedInv
<1>1. /\ status' = status
      /\ \A w \in Workers, r \in RunIds :
             Executes(w, r)' <=> Executes(w, r) /\ w # v
  BY DEF Crash, LoseConnection, Forget, Executes, TypeOK, db
<1>2. [r \in RunIds |-> Phase(r)]' = [r \in RunIds |-> Phase(r)]
  BY <1>1 DEF Phase
<1>3. CASE \E q \in RunIds : Executes(v, q)
  <2>1. PICK q \in RunIds : Executes(v, q)
    BY <1>3
  <2>2. Promised!Abandon(q)
    BY <1>1, <1>2, <2>1, ExecutorEnds DEF Promised!Abandon
  <2>3. QED BY <2>2 DEF Promised!Next
<1>4. CASE \A q \in RunIds : ~Executes(v, q)
  <2>1. \A w \in Workers, r \in RunIds : Executes(w, r)' <=> Executes(w, r)
    BY <1>1, <1>4
  <2>2. [r \in RunIds |-> Executor(r)]' = [r \in RunIds |-> Executor(r)]
    BY <2>1, ExecutorKept
  <2>3. QED BY <1>2, <2>2 DEF Promised!vars
<1>5. QED BY <1>3, <1>4

(* Every step maps to a step of JobQueue or a stutter.                     *)
LEMMA RefineNext ==
    ASSUME TypeOK, IsolatedInv, LeaseInv', [Next]_vars
    PROVE  [Promised!Next]_Promised!vars
<1>1. CASE \/ UNCHANGED vars
           \/ \E r \in RunIds : StoreSource(r) \/ AbortRequest(r) \/ Age(r)
           \/ \E v \in Workers : Quiet(v)
  BY <1>1, RefineQuiet
<1>2. ASSUME NEW q \in RunIds, EnqueueFeed(q) \/ EnqueueUpload(q) \/ EnqueueUrl(q)
      PROVE  Promised!Next
  BY <1>2, RefineSubmit DEF Promised!Next, IsolatedInv
<1>3. ASSUME NEW v \in Workers, CommitReclaim(v)
      PROVE  Promised!Next
  <2>1. stale[v] \in SUBSET RunIds
    BY DEF TypeOK
  <2>2. QED BY <1>3, <2>1, RefineRequeue DEF Promised!Next
<1>4. ASSUME NEW v \in Workers, Claim(v) PROVE Promised!Next
  BY <1>4, RefineStart DEF Promised!Next
<1>5. ASSUME NEW v \in Workers, FinishOk(v) \/ FinishFailed(v)
      PROVE  Promised!Next
  <2>1. job[v] \in RunIds
    BY <1>5 DEF IsolatedInv, JobInv, FinishOk, FinishFailed
  <2>2. QED BY <1>5, <2>1, RefineFinish DEF Promised!Next
<1>6. ASSUME NEW v \in Workers, Crash(v) \/ LoseConnection(v)
      PROVE  [Promised!Next]_Promised!vars
  BY <1>6, RefineCrash
<1>7. QED BY <1>1, <1>2, <1>3, <1>4, <1>5, <1>6
          DEF Next, Request, WorkerStep, Reclaim, Take, Process, Quiet

(* With reclaims in isolation the queue implements JobQueue.               *)
THEOREM QueueImplemented == ASSUME Isolated PROVE Spec => ImplementsJobQueue
<1>1. TypeOK /\ IsolatedInv /\ [Next]_vars => TypeOK' /\ IsolatedInv'
  BY TypeNext, IsolatedNext DEF IsolatedInv
<1>2. IsolatedInv' => LeaseInv'
  BY DEF IsolatedInv
<1>3. TypeOK /\ IsolatedInv /\ LeaseInv' /\ [Next]_vars
      => [Promised!Next]_Promised!vars
  BY RefineNext
<1>4. QED BY <1>1, <1>2, <1>3, TypeInit, IsolatedInit, RefineInit, PTL
          DEF Spec, ImplementsJobQueue, Promised!Spec
=============================================================================
