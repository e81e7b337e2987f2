-------------------------------- MODULE Xdb ---------------------------------
(***************************************************************************)
(* Imports of exploit links (services/xdb.py, api/xdb_routes.py): every    *)
(* record is looked up by its xdb_id and inserted or overwritten, and the  *)
(* file is committed as a whole.  Records without an id are skipped and    *)
(* left out.                                                               *)
(***************************************************************************)
EXTENDS Requests, Naturals, Sequences, Functions

CONSTANTS
    Exploits,   \* xdb_id
    Contents,   \* what a record may say of the exploit
    MaxFile     \* bound: records in a file

VARIABLES
    exploit,   \* content of the row, Null without one
    wanted,    \* what the last accepted file with the id said
    crossed    \* were ever two imports under way at once?

xdbVars == <<request, exploit, wanted, crossed>>

File == UNION {[1..n -> Exploits \X Contents] : n \in 1..MaxFile}

XdbInit ==
    /\ request = AllIdle
    /\ exploit = [e \in Exploits |-> Null]
    /\ wanted = [e \in Exploits |-> Null]
    /\ crossed = FALSE

StartImport(h, file) ==
    /\ Free(h)
    /\ Goto(h, [op |-> "import", left |-> file, seen |-> <<>>, put |-> <<>>, twice |-> FALSE])
    /\ crossed' = (crossed \/ \E g \in Handlers \ {h} : ~Free(g))
    /\ UNCHANGED <<exploit, wanted>>

With(f, e, v) == [x \in DOMAIN f \cup {e} |-> IF x = e THEN v ELSE f[x]]

(* A new record is not flushed, so that the look-up misses one with the    *)
(* same id; an existing row is the same object at each look-up.            *)
ReadRecord(h) ==
    /\ Doing(h, "import") /\ request[h].left # <<>>
    /\ LET r == request[h]
           e == Head(r.left)[1]
           again == e \in DOMAIN r.seen IN
       Goto(h, [r EXCEPT !.left = Tail(@),
                         !.put = With(@, e, Head(r.left)[2]),
                         !.seen = IF again THEN @ ELSE With(@, e, exploit[e]),
                         !.twice = @ \/ (again /\ r.seen[e] = Null)])
    /\ UNCHANGED <<exploit, wanted, crossed>>

(* xdb_id is unique: a second insert fails the whole import.               *)
Refused(r) == r.twice \/ \E e \in DOMAIN r.seen : r.seen[e] = Null /\ exploit[e] # Null

(* Mistake: an exploit that is known already keeps its row.                *)
CommitNewOnly(h) ==
    /\ Doing(h, "import") /\ request[h].left = <<>>
    /\ LET r == request[h] IN
       IF Refused(r) THEN UNCHANGED <<exploit, wanted>>
       ELSE /\ exploit' = [e \in Exploits |->
                  IF e \in DOMAIN r.put /\ r.seen[e] = Null THEN r.put[e] ELSE exploit[e]]
            /\ wanted' = [e \in Exploits |->
                  IF e \in DOMAIN r.put THEN r.put[e] ELSE wanted[e]]
    /\ Finish(h)
    /\ UNCHANGED crossed

(* Columns that equal what was read are not written.                       *)
CommitImport(h) ==
    /\ Doing(h, "import") /\ request[h].left = <<>>
    /\ LET r == request[h] IN
       IF Refused(r) THEN UNCHANGED <<exploit, wanted>>
       ELSE /\ exploit' = [e \in Exploits |->
                  IF e \in DOMAIN r.put /\ r.seen[e] # r.put[e] THEN r.put[e] ELSE exploit[e]]
            /\ wanted' = [e \in Exploits |->
                  IF e \in DOMAIN r.put THEN r.put[e] ELSE wanted[e]]
    /\ Finish(h)
    /\ UNCHANGED crossed

(* The request fails before the commit, or the process dies.               *)
AbortImport(h) ==
    /\ ~Free(h)
    /\ Finish(h)
    /\ UNCHANGED <<exploit, wanted, crossed>>

XdbNext ==
    \E h \in Handlers :
        \/ ReadRecord(h) \/ CommitImport(h) \/ AbortImport(h)
        \/ \E file \in File : StartImport(h, file)

XdbSpec == XdbInit /\ [][XdbNext]_xdbVars

-----------------------------------------------------------------------------
(* Each exploit says what the last record of the last accepted file with   *)
(* its id said: no refused or interrupted import leaves a trace, and no    *)
(* accepted one is partial, unless two imports were under way at once.     *)
LastFileWins == ~crossed => exploit = wanted
=============================================================================
