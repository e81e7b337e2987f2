------------------------------ MODULE SyncJobs ------------------------------
(***************************************************************************)
(* The synchronisation queue: the rows of sync_runs, the API handlers that *)
(* insert them, and the worker processes that claim, execute, finish and   *)
(* reclaim them (services/sync_jobs.py, worker.py, the sync handlers of    *)
(* api/database_routes.py and api/epss_routes.py).                         *)
(*                                                                         *)
(* A transaction that reads and later writes is two actions, with the row  *)
(* lock of the claim held in between; any other is one, together with the  *)
(* control steps around it that touch only the process's own memory.       *)
(***************************************************************************)
EXTENDS Integers, FiniteSets

CONSTANTS
    Workers,             \* worker processes (containers of the worker service)
    Nobody,              \* lease_owner IS NULL
    MaxRuns,             \* bound: ids the sequence of sync_runs hands out
    Batch,               \* 5 in the code: reclaim LIMIT and claims per poll
    LongJobs,            \* may a run be executed for more than 24 hours?
    OverlappingReclaim,  \* may two workers be inside the reclaim at once?
    MaxCrashes           \* bound: worker crashes and lost connections

ASSUME SyncJobsAssumption ==
    /\ Nobody \notin Workers
    /\ MaxRuns \in Nat
    /\ Batch \in Nat \ {0}
    /\ MaxCrashes \in Nat
    /\ LongJobs \in BOOLEAN
    /\ OverlappingReclaim \in BOOLEAN

VARIABLES
    status,   \* sync_runs.status; "absent" while the id is not inserted
    owner,    \* sync_runs.lease_owner
    aged,     \* started_at < now - 24h
    requeued, \* history: the runs a reclaim has put back
    source,   \* sync_runs.source: "bdu", or "feed" for nvd, kev and epss
    file,     \* the request's progress and the SourceFile row of a BDU run
    pc,       \* where each worker is in process_pending_once
    job,      \* the run id a worker has locked or claimed, 0 for none
    row,      \* the columns of its run as a worker has read them
    stale,    \* the ids a worker's reclaim query returned
    left,     \* claims left in this poll
    crashes   \* crashes so far

db == <<status, owner, aged, requeued, source, file>>
procs == <<pc, job, row, stale, left>>
vars == <<status, owner, aged, requeued, source, file,
          pc, job, row, stale, left, crashes>>

RunIds == 1..MaxRuns
Status == {"absent", "pending", "running", "success", "failed"}
Finished == {"success", "failed"}
File == {"none", "receiving", "queuing", "aborted", "url", "stored"}
Control ==
    {"down", "poll", "reclaim", "claim", "locked", "taken", "claimed", "executing"}
Reading == [status : Status, owner : Workers \cup {Nobody}]
NoRow == [status |-> "absent", owner |-> Nobody]

(* FOR UPDATE: a worker holds the row lock of run r until its claim        *)
(* commits; other writers of the row wait, other claims skip it.           *)
Locked(r) == \E w \in Workers : pc[w] = "locked" /\ job[w] = r

(* Mistakes the properties must notice: the claim query takes rows that    *)
(* are not pending; the reclaim query forgets the age, or takes only rows  *)
(* without a lease.                                                        *)
PendingOrFailed ==
    {r \in RunIds : status[r] \in {"pending", "failed"} /\ ~Locked(r)}
PendingOrRunning ==
    {r \in RunIds : status[r] \in {"pending", "running"} /\ ~Locked(r)}
StaleAnyAge == {r \in RunIds : status[r] = "running"}
StaleUnleased ==
    {r \in RunIds : status[r] = "running" /\ aged[r] /\ owner[r] = Nobody}

Pending == {r \in RunIds : status[r] = "pending" /\ ~Locked(r)}
StaleRuns == {r \in RunIds : status[r] = "running" /\ aged[r]}

(* Worker w has claimed run r and has not yet left process_sync_run.       *)
Executes(w, r) == pc[w] \in {"taken", "claimed", "executing"} /\ job[w] = r
Executed(r) == \E w \in Workers : Executes(w, r)

(* ORDER BY id ASC ... LIMIT 1 and ... LIMIT 5.                            *)
IsLowest(r, ids) == r \in ids /\ \A q \in ids : r <= q
IsFirstBatch(some, ids) ==
    /\ some \subseteq ids
    /\ \A r \in some, q \in ids \ some : r < q
    /\ \/ Cardinality(some) = Batch
       \/ some = ids /\ Cardinality(some) < Batch

Init ==
    /\ status = [r \in RunIds |-> "absent"]
    /\ owner = [r \in RunIds |-> Nobody]
    /\ aged = [r \in RunIds |-> FALSE]
    /\ requeued = {}
    /\ source = [r \in RunIds |-> "feed"]
    /\ file = [r \in RunIds |-> "none"]
    /\ pc = [w \in Workers |-> "poll"]
    /\ job = [w \in Workers |-> 0]
    /\ row = [w \in Workers |-> NoRow]
    /\ stale = [w \in Workers |-> {}]
    /\ left = [w \in Workers |-> 0]
    /\ crashes = 0

-----------------------------------------------------------------------------
(* The API side.  An id is any one not in use: concurrent requests commit  *)
(* their sequence values in any order.                                     *)

Enqueue(r, src, progress) ==
    /\ status[r] = "absent"
    /\ status' = [status EXCEPT ![r] = "pending"]
    /\ source' = [source EXCEPT ![r] = src]
    /\ file' = [file EXCEPT ![r] = progress]
    /\ UNCHANGED <<owner, aged, requeued, procs, crashes>>

(* POST /sync/nvd, /sync/kev, /epss/sync.                                  *)
EnqueueFeed(r) == Enqueue(r, "feed", "none")

(* POST /bdu/upload commits the run, then writes the body to disk.         *)
EnqueueUpload(r) == Enqueue(r, "bdu", "receiving")

(* POST /sync/bdu-url commits the run, then inserts the SourceFile row.    *)
EnqueueUrl(r) == Enqueue(r, "bdu", "queuing")

(* The body is on disk (or the URL noted): the SourceFile row is committed *)
(* and the handler answers that the worker will import it.                 *)
StoreSource(r) ==
    /\ file[r] \in {"receiving", "queuing"}
    /\ file' = [file EXCEPT ![r] = IF @ = "receiving" THEN "stored" ELSE "url"]
    /\ UNCHANGED <<status, owner, aged, requeued, source, procs, crashes>>

(* The body exceeds the limit, the disk write fails, or the API process    *)
(* dies: the file is unlinked, the committed run stays.                    *)
AbortRequest(r) ==
    /\ file[r] \in {"receiving", "queuing"}
    /\ file' = [file EXCEPT ![r] = "aborted"]
    /\ UNCHANGED <<status, owner, aged, requeued, source, procs, crashes>>

-----------------------------------------------------------------------------
(* The worker side.                                                        *)

(* The reclaim query: it locks nothing, and what it returned is acted on   *)
(* later.  With nothing stale the poll goes on to its claims.              *)
SelectStale(w) ==
    /\ pc[w] = "poll"
    /\ \/ /\ StaleRuns = {}
          /\ pc' = [pc EXCEPT ![w] = "claim"]
          /\ left' = [left EXCEPT ![w] = Batch]
          /\ UNCHANGED stale
       \/ /\ StaleRuns # {}
          /\ OverlappingReclaim \/ \A v \in Workers : pc[v] # "reclaim"
          /\ \E some \in SUBSET StaleRuns :
                /\ IsFirstBatch(some, StaleRuns)
                /\ stale' = [stale EXCEPT ![w] = some]
          /\ pc' = [pc EXCEPT ![w] = "reclaim"]
          /\ UNCHANGED left
    /\ UNCHANGED <<db, job, row, crashes>>

(* The flush writes the rows by primary key, whatever they hold by now;    *)
(* it waits for a row that a claim has locked.                             *)
CommitReclaim(w) ==
    /\ pc[w] = "reclaim"
    /\ \A r \in stale[w] : ~Locked(r)
    /\ status' = [r \in RunIds |-> IF r \in stale[w] THEN "pending" ELSE status[r]]
    /\ requeued' = requeued \cup stale[w]
    /\ owner' = [r \in RunIds |-> IF r \in stale[w] THEN Nobody ELSE owner[r]]
    /\ pc' = [pc EXCEPT ![w] = "claim"]
    /\ left' = [left EXCEPT ![w] = Batch]
    /\ stale' = [stale EXCEPT ![w] = {}]
    /\ UNCHANGED <<aged, source, file, job, row, crashes>>

(* Nothing pending that is not locked, or the claims of this poll are used *)
(* up.                                                                     *)
EndPoll(w) ==
    /\ pc[w] = "claim"
    /\ left[w] = 0 \/ Pending = {}
    /\ pc' = [pc EXCEPT ![w] = "poll"]
    /\ left' = [left EXCEPT ![w] = 0]
    /\ UNCHANGED <<db, job, row, stale, crashes>>

MayClaim(w) == pc[w] = "claim" /\ left[w] > 0

(* SELECT ... FOR UPDATE SKIP LOCKED.                                      *)
Lock(w) ==
    /\ MayClaim(w)
    /\ \E r \in Pending :
          /\ IsLowest(r, Pending)
          /\ job' = [job EXCEPT ![w] = r]
    /\ pc' = [pc EXCEPT ![w] = "locked"]
    /\ left' = [left EXCEPT ![w] = @ - 1]
    /\ UNCHANGED <<db, row, stale, crashes>>

(* The commit of the claim: the row is running, and its lock is free.      *)
Claim(w) ==
    /\ pc[w] = "locked"
    /\ status' = [status EXCEPT ![job[w]] = "running"]
    /\ owner' = [owner EXCEPT ![job[w]] = w]
    /\ aged' = [aged EXCEPT ![job[w]] = FALSE]
    /\ pc' = [pc EXCEPT ![w] = "taken"]
    /\ UNCHANGED <<requeued, source, file, job, row, stale, left, crashes>>

(* The refresh after the claim, in a transaction of its own; what it reads *)
(* is what process_sync_run finds.  A run that is finished by now is left. *)
Reload(w) ==
    /\ pc[w] = "taken"
    /\ \/ /\ status[job[w]] \in {"pending", "running"}
          /\ row' = [row EXCEPT ![w] = [status |-> status[job[w]],
                                       owner |-> owner[job[w]]]]
          /\ pc' = [pc EXCEPT ![w] = "claimed"]
          /\ UNCHANGED job
       \/ /\ status[job[w]] \notin {"pending", "running"}
          /\ job' = [job EXCEPT ![w] = 0]
          /\ pc' = [pc EXCEPT ![w] = "claim"]
          /\ UNCHANGED row
    /\ UNCHANGED <<db, stale, left, crashes>>

(* process_sync_run stamps started_at again; of status and lease_owner it  *)
(* writes what differs from the reading.                                   *)
Begin(w) ==
    /\ pc[w] = "claimed"
    /\ ~Locked(job[w])
    /\ status' = [status EXCEPT ![job[w]] =
                     IF row[w].status = "running" THEN @ ELSE "running"]
    /\ owner' = [owner EXCEPT ![job[w]] = IF row[w].owner = Nobody THEN w ELSE @]
    /\ aged' = [aged EXCEPT ![job[w]] = FALSE]
    /\ row' = [row EXCEPT ![w] = NoRow]
    /\ pc' = [pc EXCEPT ![w] = "executing"]
    /\ UNCHANGED <<requeued, source, file, job, stale, left, crashes>>

(* The end of process_sync_run: the outcome is written to the row by       *)
(* primary key, and the worker goes on to its next claim.                  *)
Finish(w, outcome) ==
    /\ ~Locked(job[w])
    /\ status' = [status EXCEPT ![job[w]] = outcome]
    /\ owner' = [owner EXCEPT ![job[w]] = Nobody]
    /\ job' = [job EXCEPT ![w] = 0]
    /\ pc' = [pc EXCEPT ![w] = "claim"]
    /\ UNCHANGED <<aged, requeued, source, file, row, stale, left, crashes>>

HasSource(r) == source[r] = "bdu" => file[r] \in {"url", "stored"}

(* A URL source is fetched and the row is pointed at the file.             *)
Download(w) ==
    /\ pc[w] = "executing"
    /\ file[job[w]] = "url"
    /\ file' = [file EXCEPT ![job[w]] = "stored"]
    /\ UNCHANGED <<status, owner, aged, requeued, source, procs, crashes>>

FinishOk(w) ==
    /\ pc[w] = "executing"
    /\ HasSource(job[w]) /\ file[job[w]] # "url"
    /\ Finish(w, "success")

(* The work raised, "BDU source file missing" included: rollback, re-read, *)
(* record the failure.                                                     *)
FinishFailed(w) == pc[w] = "executing" /\ Finish(w, "failed")

-----------------------------------------------------------------------------
(* The environment.                                                        *)

Forget(w, next) ==
    /\ crashes < MaxCrashes
    /\ crashes' = crashes + 1
    /\ pc' = [pc EXCEPT ![w] = next]
    /\ job' = [job EXCEPT ![w] = 0]
    /\ row' = [row EXCEPT ![w] = NoRow]
    /\ stale' = [stale EXCEPT ![w] = {}]
    /\ left' = [left EXCEPT ![w] = 0]
    /\ UNCHANGED db

(* The process dies; what it had not committed is rolled back.             *)
Crash(w) == pc[w] # "down" /\ Forget(w, "down")

(* The database fails under a transaction, the one recording a failure     *)
(* included: main() catches the exception and polls again.                 *)
LoseConnection(w) == pc[w] \notin {"down", "poll"} /\ Forget(w, "poll")

(* restart: unless-stopped.                                                *)
Restart(w) ==
    /\ pc[w] = "down"
    /\ pc' = [pc EXCEPT ![w] = "poll"]
    /\ UNCHANGED <<db, job, row, stale, left, crashes>>

(* 24 hours pass since started_at.                                         *)
Age(r) ==
    /\ status[r] = "running"
    /\ ~aged[r]
    /\ LongJobs \/ ~Executed(r)
    /\ aged' = [aged EXCEPT ![r] = TRUE]
    /\ UNCHANGED <<status, owner, requeued, source, file, procs, crashes>>

-----------------------------------------------------------------------------
Request(r) ==
    \/ EnqueueFeed(r) \/ EnqueueUpload(r) \/ EnqueueUrl(r)
    \/ StoreSource(r) \/ AbortRequest(r)

Reclaim(w) == SelectStale(w) \/ CommitReclaim(w)
Take(w) == EndPoll(w) \/ Lock(w) \/ Claim(w)
Process(w) ==
    Reload(w) \/ Begin(w) \/ Download(w) \/ FinishOk(w) \/ FinishFailed(w)
WorkerStep(w) == Reclaim(w) \/ Take(w) \/ Process(w)

Next ==
    \/ \E r \in RunIds : Request(r) \/ Age(r)
    \/ \E w \in Workers :
          WorkerStep(w) \/ Crash(w) \/ LoseConnection(w) \/ Restart(w)

Spec == Init /\ [][Next]_vars

(* Worker processes are scheduled, a dead container is restarted, and time *)
(* passes.  Nothing is assumed of the clients and of the crashes.          *)
FairSpec ==
    /\ Spec
    /\ \A w \in Workers : WF_vars(WorkerStep(w)) /\ WF_vars(Restart(w))
    /\ \A r \in RunIds : WF_vars(Age(r))

-----------------------------------------------------------------------------
(* Every variable has its type: the columns hold the values the code       *)
(* writes, and a worker's memory refers to runs that can exist.            *)
TypeOK ==
    /\ status \in [RunIds -> Status]
    /\ owner \in [RunIds -> Workers \cup {Nobody}]
    /\ aged \in [RunIds -> BOOLEAN]
    /\ requeued \in SUBSET RunIds
    /\ source \in [RunIds -> {"feed", "bdu"}]
    /\ file \in [RunIds -> File]
    /\ pc \in [Workers -> Control]
    /\ job \in [Workers -> RunIds \cup {0}]
    /\ row \in [Workers -> Reading]
    /\ stale \in [Workers -> SUBSET RunIds]
    /\ left \in [Workers -> 0..Batch]
    /\ crashes \in 0..MaxCrashes

(* The claim alone, however long jobs run and however reclaims race: a run *)
(* that no reclaim has put back is executed by at most one worker, the one *)
(* whose lease the row shows, and its row says "running" all the while     *)
(* (_claim_one_pending, process_sync_run).                                 *)
FreshRunExclusive ==
    \A r \in RunIds \ requeued, w \in Workers :
        Executes(w, r) => status[r] = "running" /\ owner[r] = w

(* Every execution holds the lease: the row of a run that a worker is      *)
(* executing says "running" and names that worker, so no second worker     *)
(* executes it.  The reclaim keeps this only when it never takes a run     *)
(* that is alive.                                                          *)
ExclusiveExecution ==
    \A r \in RunIds, w \in Workers :
        Executes(w, r) => status[r] = "running" /\ owner[r] = w

(* An outcome is recorded once: neither a late reclaim nor a second        *)
(* executor takes a finished run back or turns its outcome around.         *)
FinishedForever ==
    [][\A r \in RunIds : status[r] \in Finished => status'[r] = status[r]]_vars

(* "Reclaim jobs stuck in running after crash": a run goes back to pending *)
(* only when no worker is executing it.                                    *)
ReclaimOnlyAbandoned ==
    [][\A r \in RunIds :
          status[r] = "running" /\ status'[r] = "pending" => ~Executed(r)]_vars

(* Every run that was enqueued is finished in the end, through crashes,    *)
(* restarts and reclaims, and stays finished.                              *)
EventuallyFinished ==
    \A r \in RunIds :
        status[r] # "absent" ~> [](status[r] \in Finished)

Phase(r) ==
    IF status[r] = "absent" THEN "absent"
    ELSE IF status[r] = "pending" THEN "queued"
    ELSE IF status[r] = "running" THEN "active"
    ELSE "done"

Executor(r) ==
    IF Executed(r) THEN CHOOSE w \in Workers : Executes(w, r) ELSE Nobody

Promised == INSTANCE JobQueue WITH
    Jobs <- RunIds,
    phase <- [r \in RunIds |-> Phase(r)],
    executor <- [r \in RunIds |-> Executor(r)]

(* The queue implements JobQueue: one executor at a time, a requeue only   *)
(* of jobs nobody executes, done is done.                                  *)
ImplementsJobQueue == Promised!Spec
=============================================================================
