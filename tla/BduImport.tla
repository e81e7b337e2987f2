----------------------------- MODULE BduImport -----------------------------
(***************************************************************************)
(* upsert_bdu_records (services/bdu_import.py): every record of a BDU file *)
(* is written, its links to CVEs are replaced, CVEs the catalogue lacks    *)
(* get a stub, and every Batch records the transaction is committed.  An   *)
(* exception rolls the whole batch back, is noted against the record, and  *)
(* the loop goes on.  Importers are the worker processes that execute BDU  *)
(* runs, at READ COMMITTED: a transaction sees what others committed, and  *)
(* waits for the row of a key that another has written and not committed.  *)
(***************************************************************************)
EXTENDS Integers, Sequences, FiniteSets

CONSTANTS
    Importers,
    Bdus,      \* BDU ids
    Cves,      \* CVE ids
    Files,     \* parsed files: sequences of [id, cves], cves sorted
    Batch,     \* 500 in the code
    MaxFaults  \* bound: statements that fail for reasons outside the model

Record == [id : Bdus, cves : Seq(Cves)]

ASSUME BduImportAssumption ==
    /\ Bdus \cap Cves = {}
    /\ \A f \in Files : f \in Seq(Record)
    /\ Batch \in Nat \ {0}
    /\ MaxFaults \in Nat

VARIABLES
    row,    \* bdu_records: the <<importer, position>> that wrote it, <<>> if none
    cves,   \* ids in the table cves
    links,  \* cve_bdu_links, each with the import that wrote it
    kept,   \* positions of each file that were committed
    file,   \* the records of each run
    pos, pc, count, known, seen, todo, errors,  \* the loop's locals
    tx,     \* what the open transaction has written
    faults

db == <<row, cves, links, kept>>
loop == <<pos, pc, count, known, seen, todo, errors>>
vars == <<db, file, loop, tx, faults>>

NoTx == [rows |-> {}, stubs |-> {}, dels |-> {}, adds |-> {}, done |-> {}]

Init ==
    /\ row = [b \in Bdus |-> <<>>]
    /\ cves \in SUBSET Cves
    /\ links = {}
    /\ kept = [i \in Importers |-> {}]
    /\ file \in [Importers -> Files]
    /\ pos = [i \in Importers |-> 1]
    /\ pc = [i \in Importers |-> "lookup"]
    /\ count = [i \in Importers |-> 0]
    /\ known = [i \in Importers |-> FALSE]
    /\ seen = [i \in Importers |-> {}]
    /\ todo = [i \in Importers |-> {}]
    /\ errors = [i \in Importers |-> {}]
    /\ tx = [i \in Importers |-> NoTx]
    /\ faults = 0

Elems(s) == {s[k] : k \in DOMAIN s}
Rec(i) == file[i][pos[i]]
AtEnd(i) == pos[i] > Len(file[i])
LinksOf(i, p) == {[cve |-> c, bdu |-> file[i][p].id, by |-> <<i, p>>] : c \in Elems(file[i][p].cves)}
Goto(i, next) == pc' = [pc EXCEPT ![i] = next]

(* The CVEs of the record that still need a stub, by their place in it;    *)
(* the stub of the first one is inserted next.                             *)
Pending(i) == {Rec(i).cves[k] : k \in todo[i]}
First(i) == CHOOSE k \in todo[i] : \A m \in todo[i] : k <= m
NextStub(i) == Rec(i).cves[First(i)]

-----------------------------------------------------------------------------
(* Keys that a transaction wrote, and the key the next statement writes.   *)
Held(i) == tx[i].rows \cup tx[i].stubs

Wanted(i) ==
    IF pc[i] = "flush" THEN {Rec(i).id}
    ELSE IF pc[i] = "stubs" /\ todo[i] # {} THEN {NextStub(i)} ELSE {}

WaitsFor(i, j) == i # j /\ Wanted(i) \cap Held(j) # {}
Waits(i) == \E j \in Importers : WaitsFor(i, j)

(* The key was inserted by another transaction after it was looked up.     *)
Conflict(i) ==
    \/ pc[i] = "flush" /\ ~known[i] /\ row[Rec(i).id] # <<>>
    \/ pc[i] = "stubs" /\ todo[i] # {} /\ NextStub(i) \in cves

(* A link to a CVE that is not there.                                      *)
Dangling(i) ==
    pc[i] = "stubs" /\ todo[i] = {} /\ ~(Elems(Rec(i).cves) \subseteq cves \cup tx[i].stubs)

-----------------------------------------------------------------------------
Lookup(i) ==
    /\ pc[i] = "lookup" /\ ~AtEnd(i)
    /\ known' = [known EXCEPT ![i] = row[Rec(i).id] # <<>> \/ Rec(i).id \in tx[i].rows]
    /\ count' = [count EXCEPT ![i] = @ + 1]
    /\ Goto(i, "flush")
    /\ UNCHANGED <<db, file, pos, seen, todo, errors, tx, faults>>

(* Mistake: the links are replaced before the row is written.              *)
SkipFlush(i) ==
    /\ pc[i] = "flush" /\ ~Conflict(i)
    /\ Goto(i, "relink")
    /\ UNCHANGED <<db, file, pos, count, known, seen, todo, errors, tx, faults>>

(* The row is written first and locks the record until the commit.         *)
FlushRow(i) ==
    /\ pc[i] = "flush" /\ ~Waits(i) /\ ~Conflict(i)
    /\ tx' = [tx EXCEPT ![i].rows = @ \cup {Rec(i).id}]
    /\ Goto(i, "relink")
    /\ UNCHANGED <<db, file, pos, count, known, seen, todo, errors, faults>>

(* The links of the record are deleted; CVEs not yet seen are looked up.   *)
Relink(i) ==
    /\ pc[i] = "relink"
    /\ LET b == Rec(i).id
           missing(c) == c \notin seen[i] \cup cves \cup tx[i].stubs IN
          /\ tx' = [tx EXCEPT ![i].dels = @ \cup {l \in links : l.bdu = b},
                              ![i].adds = {l \in @ : l.bdu # b}]
          /\ todo' = [todo EXCEPT ![i] = {k \in DOMAIN Rec(i).cves : missing(Rec(i).cves[k])}]
          /\ seen' = [seen EXCEPT ![i] = @ \cup Elems(Rec(i).cves)]
    /\ Goto(i, "stubs")
    /\ UNCHANGED <<db, file, pos, count, known, errors, faults>>

InsertStub(i) ==
    /\ pc[i] = "stubs" /\ todo[i] # {} /\ ~Waits(i) /\ ~Conflict(i)
    /\ tx' = [tx EXCEPT ![i].stubs = @ \cup {NextStub(i)}]
    /\ todo' = [todo EXCEPT ![i] = @ \ {First(i)}]
    /\ UNCHANGED <<db, file, pos, pc, count, known, seen, errors, faults>>

(* Mistake: only the last commit of the import is made.                    *)
NeverFull(i) == count[i] < 0

BatchFull(i) == count[i] % Batch = 0

AddLinks(i) ==
    /\ pc[i] = "stubs" /\ todo[i] = {} /\ ~Dangling(i)
    /\ tx' = [tx EXCEPT ![i].adds = @ \cup LinksOf(i, pos[i]), ![i].done = @ \cup {pos[i]}]
    /\ Goto(i, IF BatchFull(i) THEN "commit" ELSE "lookup")
    /\ pos' = [pos EXCEPT ![i] = IF BatchFull(i) THEN @ ELSE @ + 1]
    /\ UNCHANGED <<db, file, count, known, seen, todo, errors, faults>>

Written(i, b) == {p \in tx[i].done : file[i][p].id = b}
Latest(S) == CHOOSE p \in S : \A q \in S : q <= p

(* Mistake: the deletion of the old links is not in the transaction.       *)
CommitKeepsLinks(i) ==
    /\ row' = [b \in Bdus |-> IF Written(i, b) = {} THEN row[b] ELSE <<i, Latest(Written(i, b))>>]
    /\ cves' = cves \cup tx[i].stubs
    /\ links' = links \cup tx[i].adds
    /\ kept' = [kept EXCEPT ![i] = @ \cup tx[i].done]
    /\ tx' = [tx EXCEPT ![i] = NoTx]

Commit(i) ==
    /\ row' = [b \in Bdus |-> IF Written(i, b) = {} THEN row[b] ELSE <<i, Latest(Written(i, b))>>]
    /\ cves' = cves \cup tx[i].stubs
    /\ links' = (links \ tx[i].dels) \cup tx[i].adds
    /\ kept' = [kept EXCEPT ![i] = @ \cup tx[i].done]
    /\ tx' = [tx EXCEPT ![i] = NoTx]

CommitBatch(i) ==
    /\ pc[i] = "commit"
    /\ Commit(i)
    /\ seen' = [seen EXCEPT ![i] = {}]
    /\ pos' = [pos EXCEPT ![i] = @ + 1]
    /\ Goto(i, "lookup")
    /\ UNCHANGED <<file, count, known, todo, errors, faults>>

CommitLast(i) ==
    /\ pc[i] = "lookup" /\ AtEnd(i)
    /\ Commit(i)
    /\ Goto(i, "done")
    /\ UNCHANGED <<file, pos, count, known, seen, todo, errors, faults>>

(* Mistake: the stub cache survives the rollback.                          *)
RollbackKeepSeen(i) ==
    /\ tx' = [tx EXCEPT ![i] = NoTx]
    /\ errors' = [errors EXCEPT ![i] = @ \cup {pos[i]}]
    /\ todo' = [todo EXCEPT ![i] = {}]
    /\ pos' = [pos EXCEPT ![i] = @ + 1]
    /\ Goto(i, IF AtEnd(i) THEN "failed" ELSE "lookup")
    /\ UNCHANGED <<db, file, count, known, seen>>

(* Mistake: the record that failed is taken back and tried again.          *)
RollbackRetry(i) ==
    /\ tx' = [tx EXCEPT ![i] = NoTx]
    /\ seen' = [seen EXCEPT ![i] = {}]
    /\ errors' = [errors EXCEPT ![i] = @ \cup {pos[i]}]
    /\ todo' = [todo EXCEPT ![i] = {}]
    /\ count' = [count EXCEPT ![i] = @ - 1]
    /\ Goto(i, "lookup")
    /\ UNCHANGED <<db, file, pos, known>>

(* The except branch: the open batch is lost, the loop goes on; a failure  *)
(* of the last commit is raised to the run.                                *)
Rollback(i) ==
    /\ tx' = [tx EXCEPT ![i] = NoTx]
    /\ seen' = [seen EXCEPT ![i] = {}]
    /\ errors' = [errors EXCEPT ![i] = @ \cup {pos[i]}]
    /\ todo' = [todo EXCEPT ![i] = {}]
    /\ pos' = [pos EXCEPT ![i] = @ + 1]
    /\ Goto(i, IF AtEnd(i) THEN "failed" ELSE "lookup")
    /\ UNCHANGED <<db, file, count, known>>

Reject(i) == ~Waits(i) /\ (Conflict(i) \/ Dangling(i)) /\ Rollback(i) /\ UNCHANGED faults

(* Transactions that wait for each other: the database fails one of them.  *)
Victim(i) ==
    /\ \E S \in SUBSET Importers : i \in S /\ \A j \in S : \E k \in S : WaitsFor(j, k)
    /\ Rollback(i)
    /\ UNCHANGED faults

Active(i) == pc[i] \notin {"done", "failed", "dead"}

(* A value the column does not take, a lost connection.                    *)
Fault(i) == Active(i) /\ faults < MaxFaults /\ Rollback(i) /\ faults' = faults + 1

(* The worker dies; its transaction is rolled back.                        *)
Die(i) ==
    /\ Active(i) /\ faults < MaxFaults
    /\ tx' = [tx EXCEPT ![i] = NoTx]
    /\ Goto(i, "dead")
    /\ faults' = faults + 1
    /\ UNCHANGED <<db, file, pos, count, known, seen, todo, errors>>

(* An NVD page with that CVE is committed.                                 *)
NvdInsert(c) ==
    /\ c \notin cves /\ \A i \in Importers : c \notin tx[i].stubs
    /\ cves' = cves \cup {c}
    /\ UNCHANGED <<row, links, kept, file, loop, tx, faults>>

Step(i) ==
    \/ Lookup(i) \/ FlushRow(i) \/ Relink(i) \/ InsertStub(i) \/ AddLinks(i)
    \/ CommitBatch(i) \/ CommitLast(i) \/ Reject(i) \/ Victim(i)

Next ==
    \/ \E i \in Importers : Step(i) \/ Fault(i) \/ Die(i)
    \/ \E c \in Cves : NvdInsert(c)

Spec == Init /\ [][Next]_vars

(* Worker processes are scheduled, and the database detects deadlocks.     *)
FairSpec == Spec /\ \A i \in Importers : WF_vars(Step(i))

-----------------------------------------------------------------------------
Link == [cve : Cves, bdu : Bdus, by : Importers \X (Nat \ {0})]

(* Every variable has its type, and no step of the loop reads past the     *)
(* records of its file.                                                    *)
TypeOK ==
    /\ \A b \in Bdus : row[b] = <<>> \/ row[b] \in Importers \X (Nat \ {0})
    /\ cves \subseteq Cves
    /\ links \subseteq Link
    /\ \A i \in Importers :
          /\ file[i] \in Files
          /\ pos[i] \in 1..(Len(file[i]) + 2)
          /\ kept[i] \cup tx[i].done \subseteq DOMAIN file[i]
          /\ pc[i] \in {"flush", "relink", "stubs", "commit"} => ~AtEnd(i)
          /\ tx[i].rows \subseteq Bdus /\ tx[i].stubs \subseteq Cves
          /\ tx[i].dels \cup tx[i].adds \subseteq Link

(* The cache of stubs never outlives the transaction that inserted them:   *)
(* what _ensure_cve_stub skips is in the catalogue or about to be, so no   *)
(* link refers to a CVE that is missing.                                   *)
SeenStubsExist ==
    \A i \in Importers : Active(i) =>
        seen[i] \subseteq cves \cup tx[i].stubs \cup Pending(i)

(* Whatever imports overlap, fail and deadlock: the link table holds, for  *)
(* each record, exactly the links of the import that wrote it last.        *)
LinksOfLastImport ==
    \A b \in Bdus :
        {l \in links : l.bdu = b} =
            IF row[b] = <<>> THEN {} ELSE LinksOf(row[b][1], row[b][2])

(* A batch holds one transaction's records: what an error takes with it is *)
(* less than Batch records before it, and everything else that the loop    *)
(* has passed is committed or in the open batch.                           *)
LossBounded ==
    \A i \in Importers : pc[i] # "dead" =>
        \A p \in 1..(pos[i] - 1) :
            \/ p \in kept[i] \cup tx[i].done \cup errors[i]
            \/ \E q \in errors[i] : p < q /\ q < p + Batch

(* Imports that wait for each other's rows do not wait for ever: every     *)
(* import ends.                                                            *)
ImportsEnd == <>(\A i \in Importers : ~Active(i))

Store == INSTANCE RecordStore WITH
    source <- file,
    entry <- row,
    linked <- [b \in Bdus |-> {l.cve : l \in {k \in links : k.bdu = b}}],
    catalogue <- cves,
    taken <- kept

(* Whatever imports overlap, wait, fail and die, a reader sees whole       *)
(* batches only, in the order of each file, every record with its own      *)
(* links and every link with its CVE.                                      *)
ImplementsRecordStore == Store!Spec
=============================================================================
