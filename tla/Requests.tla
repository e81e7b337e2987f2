------------------------------ MODULE Requests ------------------------------
(***************************************************************************)
(* What the handlers of the API have in common: one process, a pool of     *)
(* threads, each request in a database session of its own (db.py).  A      *)
(* handler reads rows without locking them and commits later what it made  *)
(* of them.                                                                *)
(***************************************************************************)
CONSTANTS
    Handlers,   \* requests that can be in flight at once
    Null        \* a column that is NULL

VARIABLE request   \* what each handler has read and not yet committed

Idle == [op |-> "idle"]
AllIdle == [h \in Handlers |-> Idle]

Free(h) == request[h] = Idle
Doing(h, op) == request[h].op = op
Goto(h, r) == request' = [request EXCEPT ![h] = r]
Finish(h) == Goto(h, Idle)
=============================================================================
