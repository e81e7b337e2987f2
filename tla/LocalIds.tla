------------------------------ MODULE LocalIds ------------------------------
(***************************************************************************)
(* Ids of local vulnerabilities, PREFIX-YYYY-NNNN                          *)
(* (services/local_vulns.py).  The last number of a series, a prefix and a *)
(* year, is kept in a row that is locked until the vulnerability that got  *)
(* the number is committed with it.                                        *)
(***************************************************************************)
EXTENDS Requests, Naturals

CONSTANTS
    Series,
    MaxNumber   \* bound: vulnerabilities committed in a series

ASSUME IdsAssumption == Null \notin Handlers /\ MaxNumber \in Nat

VARIABLES
    last,     \* last_number as committed; no row is 0 in an unborn series
    born,     \* series with a committed row
    holder,   \* the handler that has the row locked, or inserted it
    issued    \* ids of committed local_vulns rows

idsVars == <<request, last, born, holder, issued>>

IdsInit ==
    /\ request = AllIdle
    /\ last = [s \in Series |-> 0]
    /\ born = {}
    /\ holder = [s \in Series |-> Null]
    /\ issued = {}

(* Mistake: the row is read without FOR UPDATE.                            *)
DrawUnlocked(h, s) ==
    /\ Free(h) /\ s \in born
    /\ Goto(h, [op |-> "number", s |-> s, n |-> last[s] + 1])
    /\ UNCHANGED <<last, born, holder, issued>>

(* SELECT ... FOR UPDATE waits for the row and then reads its last form. *)
DrawNumber(h, s) ==
    /\ Free(h) /\ s \in born
    /\ holder[s] = Null
    /\ holder' = [holder EXCEPT ![s] = h]
    /\ Goto(h, [op |-> "number", s |-> s, n |-> last[s] + 1])
    /\ UNCHANGED <<last, born, issued>>

FindNoSeries(h, s) ==
    /\ Free(h) /\ s \notin born
    /\ Goto(h, [op |-> "first", s |-> s])
    /\ UNCHANGED <<last, born, holder, issued>>

(* The insert waits for one of the same key; (prefix, year) is unique.     *)
InsertSeries(h) ==
    /\ Doing(h, "first")
    /\ LET s == request[h].s IN
          /\ holder[s] = Null
          /\ IF s \in born
             THEN Finish(h) /\ UNCHANGED holder
             ELSE /\ holder' = [holder EXCEPT ![s] = h]
                  /\ Goto(h, [op |-> "number", s |-> s, n |-> 1])
    /\ UNCHANGED <<last, born, issued>>

Released(h) == [s \in Series |-> IF holder[s] = h THEN Null ELSE holder[s]]

(* One commit: the counter and the vulnerability that bears the number.    *)
CommitVuln(h) ==
    /\ Doing(h, "number") /\ request[h].n <= MaxNumber
    /\ LET r == request[h] IN
          /\ last' = [last EXCEPT ![r.s] = r.n]
          /\ born' = born \cup {r.s}
          /\ issued' = issued \cup {<<r.s, r.n>>}
    /\ holder' = Released(h)
    /\ Finish(h)

Rollback(h) ==
    /\ ~Free(h)
    /\ holder' = Released(h)
    /\ Finish(h)
    /\ UNCHANGED <<last, born, issued>>

IdsNext ==
    \E h \in Handlers :
        \/ InsertSeries(h) \/ CommitVuln(h) \/ Rollback(h)
        \/ \E s \in Series : DrawNumber(h, s) \/ FindNoSeries(h, s)

IdsSpec == IdsInit /\ [][IdsNext]_idsVars

-----------------------------------------------------------------------------
(* The numbers of a series are used without gap or repetition: the ids     *)
(* issued are 1 up to the counter, whatever was rolled back, and a number  *)
(* in hand is the next one, in no other hand.                              *)
IdsInOrder ==
    /\ \A s \in Series : {n \in 1..MaxNumber : <<s, n>> \in issued} = 1..last[s]
    /\ \A h \in Handlers : Doing(h, "number") =>
          /\ request[h].n = last[request[h].s] + 1
          /\ \A g \in Handlers \ {h} :
                Doing(g, "number") => request[g].s # request[h].s
=============================================================================
