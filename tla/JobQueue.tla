------------------------------ MODULE JobQueue ------------------------------
(***************************************************************************)
(* What the sync queue promises the operator who presses "synchronise": a  *)
(* job that was submitted is executed by one worker at a time, goes back   *)
(* to the queue only when nobody executes it any more, and once it is done *)
(* it stays done.  SyncJobs is the detailed specification that implements  *)
(* this one when stale runs are reclaimed in isolation.                    *)
(***************************************************************************)
CONSTANTS Jobs, Workers, Nobody

VARIABLES phase,     \* absent -> queued <-> active -> done
          executor   \* the worker executing the job, or Nobody

vars == <<phase, executor>>

Init ==
    /\ phase = [j \in Jobs |-> "absent"]
    /\ executor = [j \in Jobs |-> Nobody]

Idle(w) == \A j \in Jobs : executor[j] # w

Submit(j) ==
    /\ phase[j] = "absent"
    /\ phase' = [phase EXCEPT ![j] = "queued"]
    /\ UNCHANGED executor

Start(j, w) ==
    /\ phase[j] = "queued"
    /\ Idle(w)
    /\ phase' = [phase EXCEPT ![j] = "active"]
    /\ executor' = [executor EXCEPT ![j] = w]

Finish(j) ==
    /\ executor[j] # Nobody
    /\ phase' = [phase EXCEPT ![j] = "done"]
    /\ executor' = [executor EXCEPT ![j] = Nobody]

(* The executor dies, or gives the job up without recording an outcome.    *)
Abandon(j) ==
    /\ executor[j] # Nobody
    /\ executor' = [executor EXCEPT ![j] = Nobody]
    /\ UNCHANGED phase

(* Jobs whose executor is gone are put back, several in one transaction.   *)
Requeue(some) ==
    /\ \A j \in some : phase[j] = "active" /\ executor[j] = Nobody
    /\ phase' = [j \in Jobs |-> IF j \in some THEN "queued" ELSE phase[j]]
    /\ UNCHANGED executor

Next ==
    \/ \E j \in Jobs : Submit(j) \/ Finish(j) \/ Abandon(j)
    \/ \E j \in Jobs, w \in Workers : Start(j, w)
    \/ \E some \in SUBSET Jobs : Requeue(some)

Spec == Init /\ [][Next]_vars
=============================================================================
