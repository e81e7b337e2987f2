-------------------------- MODULE BduImportProofs --------------------------
(***************************************************************************)
(* Proofs about BduImport for any number of importers, any files, any size *)
(* of a batch and any number of faults.                                    *)
(***************************************************************************)
EXTENDS BduImport, WellFoundedInduction, TLAPS

(* The remainder grows by one with the number, or is zero.                 *)
LEMMA UniqueRemainder ==
    ASSUME NEW B \in Nat \ {0}, NEW q \in Int, NEW t \in Int,
           NEW r \in 0..(B - 1), NEW s \in 0..(B - 1), B * q + r = B * t + s
    PROVE  r = s
<1>1. B * (q - t) = s - r
  OBVIOUS
<1>2. CASE q > t
  <2>1. PICK d \in Nat : q - t = d + 1
    BY <1>2
  <2>2. B * (d + 1) = B * d + B /\ B * d >= 0
    OBVIOUS
  <2> QED
    BY <1>1, <2>1, <2>2
<1>3. CASE q < t
  <2>1. PICK d \in Nat : t - q = d + 1
    BY <1>3
  <2>2. B * (d + 1) = B * d + B /\ B * d >= 0
    OBVIOUS
  <2>3. B * (q - t) = -(B * (d + 1))
    BY <2>1
  <2> QED
    BY <1>1, <2>3, <2>2
<1>4. CASE q = t
  BY <1>4
<1> QED
  BY <1>2, <1>3, <1>4

(* A remainder is below the divisor, and grows by one or wraps to zero.    *)
LEMMA Remainders ==
    ASSUME NEW n \in Nat \ {0}, NEW B \in Nat \ {0}
    PROVE  /\ n % B \in 0..(B - 1) /\ (n - 1) % B \in 0..(B - 1)
           /\ n % B # 0 => n % B = ((n - 1) % B) + 1
<1> DEFINE q == n \div B
           r == n % B
           t == (n - 1) \div B
           s == (n - 1) % B
<1>1. n = B * q + r /\ r \in 0..(B - 1) /\ q \in Int
  OBVIOUS
<1>2. n - 1 = B * t + s /\ s \in 0..(B - 1) /\ t \in Int
  OBVIOUS
<1> HIDE DEF q, r, t, s
<1>3. ASSUME r # 0 PROVE r = s + 1
  <2>1. r - 1 \in 0..(B - 1)
    BY <1>1, <1>3
  <2>2. B * q \in Int /\ B * t \in Int
    BY <1>1, <1>2
  <2>3. B * q + (r - 1) = B * t + s
    BY <1>1, <1>2, <2>2
  <2>4. r - 1 = s
    BY <1>1, <1>2, <2>1, <2>3, UniqueRemainder
  <2> QED
    BY <1>1, <1>2, <2>4
<1> QED
  BY <1>1, <1>2, <1>3 DEF r, s

(* A well-founded order has a minimal element in every nonempty set.       *)
LEMMA Minimal ==
    ASSUME NEW R, NEW T \in SUBSET Nat, T # {}, IsWellFoundedOn(R, Nat)
    PROVE  \E x \in T : \A y \in T : ~(<<y, x>> \in R)
<1>1. IsWellFoundedOn(R, Nat) /\ T \subseteq Nat /\ T # {}
  OBVIOUS
<1> QED
  BY <1>1, WFMin

(* A nonempty set of numbers has a least element.                          *)
LEMMA Least ==
    ASSUME NEW T \in SUBSET Nat, T # {}
    PROVE  \E x \in T : \A y \in T : x <= y
<1>1. \A x, y \in Nat : x < y => <<x, y>> \in OpToRel(<, Nat)
  BY DEF OpToRel
<1>2. IsWellFoundedOn(OpToRel(<, Nat), Nat)
  BY NatLessThanWellFounded
<1>3. PICK x \in T : \A y \in T : ~(<<y, x>> \in OpToRel(<, Nat))
  BY <1>2, Minimal, Zenon
<1>4. \A y \in T : x \in Nat /\ y \in Nat /\ ~(y < x)
  BY <1>1, <1>3, Zenon
<1>5. \A y \in T : x <= y
  BY <1>4
<1> QED
  BY <1>5

-----------------------------------------------------------------------------
(* What each importer keeps to itself.                                     *)
Tx == [rows : SUBSET Bdus, stubs : SUBSET Cves, dels : SUBSET Link, adds : SUBSET Link,
       done : SUBSET Nat]

Typed ==
    /\ row \in [Bdus -> {<<>>} \cup (Importers \X (Nat \ {0}))]
    /\ cves \in SUBSET Cves
    /\ links \in SUBSET Link
    /\ kept \in [Importers -> SUBSET Nat]
    /\ file \in [Importers -> Files]
    /\ pos \in [Importers -> Nat \ {0}]
    /\ pc \in [Importers -> {"lookup", "flush", "relink", "stubs", "commit",
                             "done", "failed", "dead"}]
    /\ count \in [Importers -> Nat]
    /\ known \in [Importers -> BOOLEAN]
    /\ seen \in [Importers -> SUBSET Cves]
    /\ todo \in [Importers -> SUBSET Nat]
    /\ errors \in [Importers -> SUBSET Nat]
    /\ tx \in [Importers -> Tx]

InRecord(i) == pc[i] \in {"flush", "relink", "stubs", "commit"}
PastFlush(i) == pc[i] \in {"relink", "stubs", "commit"}

(* Where the loop stands in its file.                                      *)
Place(i) ==
    /\ pos[i] <= Len(file[i]) + 2
    /\ pc[i] # "failed" => pos[i] <= Len(file[i]) + 1
    /\ InRecord(i) => pos[i] <= Len(file[i]) /\ count[i] # 0
    /\ kept[i] \cup tx[i].done \subseteq 1..Len(file[i])
    /\ pc[i] # "dead" => IF pc[i] = "stubs" THEN todo[i] \subseteq DOMAIN Rec(i).cves ELSE todo[i] = {}
    /\ \A p \in tx[i].done : p < pos[i] \/ (pc[i] = "commit" /\ p = pos[i])
    /\ pc[i] = "commit" => pos[i] \in tx[i].done

(* The stub cache, and what it is filled with.                             *)
Cached(i) ==
    Active(i) => /\ seen[i] \subseteq cves \cup tx[i].stubs \cup Pending(i)
                 /\ pc[i] = "stubs" => Elems(Rec(i).cves) \subseteq seen[i]

(* The records of the open batch are close to the one the loop stands at.  *)
Near(i) ==
    pc[i] # "dead" =>
        \A p \in tx[i].done :
            pos[i] - p <= IF InRecord(i) THEN (count[i] - 1) % Batch ELSE count[i] % Batch

Passed(i) ==
    pc[i] # "dead" =>
        \A p \in 1..(pos[i] - 1) :
            \/ p \in kept[i] \cup tx[i].done \cup errors[i]
            \/ \E q \in errors[i] : p < q /\ q < p + Batch

(* The open transaction: which rows it has written and locked, and what it *)
(* does to the links of a record it has written or is about to.            *)
Rewritten(i, b) == Written(i, b) # {} \/ (pc[i] = "stubs" /\ Rec(i).id = b)

Writes(i) ==
    /\ PastFlush(i) => Rec(i).id \in tx[i].rows
    /\ \A b \in Bdus :
          /\ Written(i, b) # {} => b \in tx[i].rows /\ Latest(Written(i, b)) \in Written(i, b)
          /\ {l \in tx[i].adds : l.bdu = b} =
                IF Written(i, b) = {} \/ (pc[i] = "stubs" /\ Rec(i).id = b) THEN {}
                ELSE LinksOf(i, Latest(Written(i, b)))
    /\ \A l \in tx[i].dels : Rewritten(i, l.bdu)
    /\ \A l \in tx[i].adds : l.cve \in cves \cup tx[i].stubs

Clears(i) == \A l \in links : Rewritten(i, l.bdu) => l \in tx[i].dels

Own(i) == Place(i) /\ Cached(i) /\ Near(i) /\ Passed(i) /\ Writes(i) /\ Clears(i)

(* Who has written a row holds it until the commit.                        *)
RowsApart == \A i, j \in Importers : i # j => tx[i].rows \cap tx[j].rows = {}

LinksExist == \A l \in links : l.cve \in cves

BduInv ==
    /\ Typed /\ RowsApart /\ LinksOfLastImport /\ LinksExist
    /\ \A i \in Importers : Own(i)

(* The record the loop stands at.                                          *)
LEMMA RecType ==
    ASSUME Typed, NEW i \in Importers, NEW p \in 1..Len(file[i])
    PROVE  /\ Len(file[i]) \in Nat /\ DOMAIN file[i] = 1..Len(file[i]) /\ p \in Nat \ {0}
           /\ file[i][p].id \in Bdus
           /\ DOMAIN file[i][p].cves \in SUBSET Nat
           /\ \A k \in DOMAIN file[i][p].cves : file[i][p].cves[k] \in Cves
           /\ Elems(file[i][p].cves) \in SUBSET Cves
           /\ LinksOf(i, p) \in SUBSET Link
           /\ \A l \in LinksOf(i, p) : l.bdu = file[i][p].id /\ l.cve \in Elems(file[i][p].cves)
<1>1. file[i] \in Seq(Record)
  BY BduImportAssumption DEF Typed
<1>2. file[i][p] \in Record /\ Len(file[i]) \in Nat /\ DOMAIN file[i] = 1..Len(file[i])
  BY <1>1
<1>3. file[i][p].id \in Bdus /\ file[i][p].cves \in Seq(Cves)
  BY <1>2 DEF Record
<1>4. /\ DOMAIN file[i][p].cves \in SUBSET Nat
      /\ \A k \in DOMAIN file[i][p].cves : file[i][p].cves[k] \in Cves
  BY <1>3
<1>5. Elems(file[i][p].cves) \in SUBSET Cves
  BY <1>4 DEF Elems
<1>6. \A l \in LinksOf(i, p) : \E c \in Elems(file[i][p].cves) :
         l = [cve |-> c, bdu |-> file[i][p].id, by |-> <<i, p>>]
  BY DEF LinksOf
<1>7. LinksOf(i, p) \in SUBSET Link
  BY <1>2, <1>3, <1>5, <1>6 DEF Link
<1> QED
  BY <1>2, <1>3, <1>4, <1>5, <1>6, <1>7

(* A file is a sequence, and the loop's position in it a number.           *)
LEMMA FileType ==
    ASSUME Typed, NEW i \in Importers
    PROVE  Len(file[i]) \in Nat /\ DOMAIN file[i] = 1..Len(file[i]) /\ pos[i] \in Nat \ {0}
<1>1. file[i] \in Seq(Record)
  BY BduImportAssumption DEF Typed
<1> QED
  BY <1>1 DEF Typed

(* The stub that comes next is one of those that are due.                  *)
LEMMA FirstDue ==
    ASSUME Typed, NEW i \in Importers, todo[i] # {}
    PROVE  First(i) \in todo[i]
<1>1. todo[i] \in SUBSET Nat
  BY DEF Typed
<1>2. \E k \in todo[i] : \A m \in todo[i] : k <= m
  BY <1>1, Least
<1> QED
  BY <1>2 DEF First

(* What importer j holds is unchanged: what it relies on still holds.      *)
SameLocals(j) ==
    /\ pos'[j] = pos[j] /\ pc'[j] = pc[j] /\ count'[j] = count[j]
    /\ seen'[j] = seen[j] /\ todo'[j] = todo[j] /\ errors'[j] = errors[j]
    /\ tx'[j] = tx[j] /\ kept'[j] = kept[j]

(* An importer whose locals a step leaves alone keeps what it relies on.   *)
LEMMA KeepOwn ==
    ASSUME NEW j \in Importers, Own(j), SameLocals(j), file' = file, cves \subseteq cves',
           \A l \in links' : Rewritten(j, l.bdu) => l \in links
    PROVE  Own(j)'
<1>1. /\ Rec(j)' = Rec(j) /\ Pending(j)' = Pending(j) /\ Active(j)' = Active(j)
      /\ InRecord(j)' = InRecord(j) /\ PastFlush(j)' = PastFlush(j)
  BY DEF SameLocals, Rec, Pending, Active, InRecord, PastFlush
<1>2. /\ \A b : Written(j, b)' = Written(j, b) /\ Rewritten(j, b)' = Rewritten(j, b)
      /\ \A p : LinksOf(j, p)' = LinksOf(j, p)
  BY DEF SameLocals, Written, Rewritten, LinksOf, Rec
<1>3. Place(j)'
  BY <1>1 DEF Own, Place, SameLocals
<1>4. Cached(j)'
  BY <1>1 DEF Own, Cached, SameLocals
<1>5. Near(j)' /\ Passed(j)'
  BY <1>1 DEF Own, Near, Passed, SameLocals
<1>6. Writes(j)'
  BY <1>1, <1>2 DEF Own, Writes, SameLocals
<1>7. Clears(j)'
  BY <1>2 DEF Own, Clears, SameLocals
<1> QED
  BY <1>3, <1>4, <1>5, <1>6, <1>7 DEF Own

(* A step of importer i that commits nothing.                              *)
LEMMA OwnStep ==
    ASSUME BduInv, Typed', NEW i \in Importers, Own(i)',
           UNCHANGED <<db, file>>,
           \A j \in Importers \ {i} : SameLocals(j) /\ tx'[i].rows \cap tx[j].rows = {}
    PROVE  BduInv'
<1>1. \A j \in Importers : Own(j)'
  <2> SUFFICES ASSUME NEW j \in Importers \ {i} PROVE Own(j)'
    OBVIOUS
  <2>1. Own(j) /\ SameLocals(j) /\ file' = file /\ cves' = cves /\ links' = links
    BY DEF BduInv, db
  <2> QED
    BY <2>1, KeepOwn
<1>2. RowsApart'
  BY DEF BduInv, RowsApart, SameLocals
<1>3. LinksOfLastImport' /\ LinksExist'
  <2>1. \A j, p : LinksOf(j, p)' = LinksOf(j, p)
    BY DEF LinksOf, db
  <2> QED
    BY <2>1 DEF BduInv, LinksOfLastImport, LinksExist, db
<1> QED
  BY <1>1, <1>2, <1>3 DEF BduInv

-----------------------------------------------------------------------------
(* The steps of the loop, one lemma for each.                              *)
(* Whether the row is there is looked up; the record counts from now on.   *)
LEMMA LookupInv ==
    ASSUME BduInv, NEW i \in Importers, Lookup(i)
    PROVE  BduInv'
<1>1. Typed /\ Own(i)
  BY DEF BduInv
<1>2. Typed'
  BY <1>1 DEF Typed, Lookup, Goto, db
<1>3. /\ pc[i] = "lookup" /\ pc'[i] = "flush" /\ count'[i] = count[i] + 1 /\ count[i] \in Nat
      /\ pos[i] \in Nat /\ pos[i] <= Len(file[i])
      /\ UNCHANGED <<db, file, pos, seen, todo, errors, tx>>
  BY <1>1, FileType DEF Typed, Own, Place, Lookup, Goto, AtEnd
<1>4. \A j \in Importers \ {i} : SameLocals(j) /\ tx'[i].rows \cap tx[j].rows = {}
  BY <1>1 DEF Typed, Lookup, Goto, SameLocals, db, BduInv, RowsApart
<1>5. /\ Rec(i)' = Rec(i) /\ Pending(i)' = Pending(i)
      /\ \A b : Written(i, b)' = Written(i, b) /\ Rewritten(i, b)' = Rewritten(i, b)
      /\ \A p : LinksOf(i, p)' = LinksOf(i, p)
  BY <1>3 DEF Rec, Pending, Written, Rewritten, LinksOf
<1>6. Place(i)'
  BY <1>1, <1>3, <1>5 DEF Own, Place, InRecord, db
<1>7. Cached(i)'
  BY <1>1, <1>3, <1>5 DEF Own, Cached, Active, db
<1>8. Near(i)' /\ Passed(i)'
  BY <1>1, <1>3 DEF Own, Near, Passed, InRecord, db
<1>9. Writes(i)' /\ Clears(i)'
  BY <1>1, <1>3, <1>5 DEF Own, Writes, Clears, PastFlush, db
<1> QED
  BY <1>2, <1>3, <1>4, <1>6, <1>7, <1>8, <1>9, OwnStep DEF Own

(* The row is written: nobody else holds it.                               *)
LEMMA FlushInv ==
    ASSUME BduInv, NEW i \in Importers, FlushRow(i)
    PROVE  BduInv'
<1>1. Typed /\ Own(i)
  BY DEF BduInv
<1>2. /\ pc[i] = "flush" /\ pc'[i] = "relink"
      /\ pos[i] \in 1..Len(file[i]) /\ count[i] \in Nat
      /\ UNCHANGED <<db, file, pos, count, seen, todo, errors>>
  BY <1>1, FileType DEF Typed, Own, Place, InRecord, FlushRow, Goto
<1>3. Rec(i).id \in Bdus
  BY <1>1, <1>2, RecType DEF Rec
<1>4. tx' = [tx EXCEPT ![i].rows = @ \cup {Rec(i).id}]
  BY DEF FlushRow
<1>5. tx' \in [Importers -> Tx]
  <2>1. [tx[i] EXCEPT !.rows = @ \cup {Rec(i).id}] \in Tx
    BY <1>1, <1>3 DEF Typed, Tx
  <2> QED
    BY <1>1, <1>4, <2>1 DEF Typed
<1>6. Typed'
  BY <1>1, <1>5 DEF Typed, FlushRow, Goto, db
<1>7. /\ tx'[i].rows = tx[i].rows \cup {Rec(i).id}
      /\ tx'[i].stubs = tx[i].stubs /\ tx'[i].dels = tx[i].dels
      /\ tx'[i].adds = tx[i].adds /\ tx'[i].done = tx[i].done
  BY <1>1, <1>4 DEF Typed, Tx
<1>8. \A j \in Importers \ {i} : SameLocals(j) /\ tx'[i].rows \cap tx[j].rows = {}
  <2> SUFFICES ASSUME NEW j \in Importers \ {i}
               PROVE  SameLocals(j) /\ tx'[i].rows \cap tx[j].rows = {}
    OBVIOUS
  <2>1. SameLocals(j)
    BY <1>1, <1>2, <1>4 DEF Typed, FlushRow, Goto, SameLocals, db
  <2>2. Rec(i).id \notin tx[j].rows
    BY <1>2 DEF FlushRow, Waits, WaitsFor, Wanted, Held
  <2> QED
    BY <1>7, <2>1, <2>2 DEF BduInv, RowsApart
<1>9. /\ Rec(i)' = Rec(i) /\ Pending(i)' = Pending(i)
      /\ \A b : Written(i, b)' = Written(i, b) /\ Rewritten(i, b)' = Rewritten(i, b)
      /\ \A p : LinksOf(i, p)' = LinksOf(i, p)
  BY <1>2, <1>7 DEF Rec, Pending, Written, Rewritten, LinksOf
<1>10. Place(i)'
  BY <1>1, <1>2, <1>7, <1>9 DEF Own, Place, InRecord, db
<1>11. Cached(i)'
  BY <1>1, <1>2, <1>7, <1>9 DEF Own, Cached, Active, db
<1>12. Near(i)' /\ Passed(i)'
  BY <1>1, <1>2, <1>7 DEF Own, Near, Passed, InRecord, db
<1>13. Writes(i)' /\ Clears(i)'
  BY <1>1, <1>2, <1>7, <1>9 DEF Own, Writes, Clears, PastFlush, db
<1> QED
  BY <1>2, <1>6, <1>8, <1>10, <1>11, <1>12, <1>13, OwnStep DEF Own

(* The links are deleted and the CVEs without a stub noted.                *)
LEMMA RelinkInv ==
    ASSUME BduInv, NEW i \in Importers, Relink(i), NEW b, b = Rec(i).id
    PROVE  BduInv'
<1>1. Typed /\ Own(i)
  BY DEF BduInv
<1>2. /\ pc[i] = "relink" /\ pc'[i] = "stubs" /\ pos[i] \in 1..Len(file[i])
      /\ UNCHANGED <<db, file, pos, count, errors>>
  BY <1>1, FileType DEF Typed, Own, Place, InRecord, Relink, Goto
<1>3. /\ b \in Bdus /\ DOMAIN Rec(i).cves \in SUBSET Nat /\ Elems(Rec(i).cves) \in SUBSET Cves
      /\ \A c \in Elems(Rec(i).cves) : \E k \in DOMAIN Rec(i).cves : c = Rec(i).cves[k]
  BY <1>1, <1>2, RecType DEF Rec, Elems
<1>4. /\ tx' = [tx EXCEPT ![i].dels = @ \cup {l \in links : l.bdu = b},
                          ![i].adds = {l \in @ : l.bdu # b}]
      /\ todo' = [todo EXCEPT ![i] = {k \in DOMAIN Rec(i).cves :
             Rec(i).cves[k] \notin seen[i] \cup cves \cup tx[i].stubs}]
      /\ seen' = [seen EXCEPT ![i] = @ \cup Elems(Rec(i).cves)]
  BY DEF Relink
<1>5. /\ tx'[i].rows = tx[i].rows /\ tx'[i].stubs = tx[i].stubs /\ tx'[i].done = tx[i].done
      /\ tx'[i].dels = tx[i].dels \cup {l \in links : l.bdu = b}
      /\ tx'[i].adds = {l \in tx[i].adds : l.bdu # b}
      /\ tx' \in [Importers -> Tx]
      /\ \A j \in Importers \ {i} : tx'[j] = tx[j]
  <2> DEFINE r == [tx[i] EXCEPT !.dels = @ \cup {l \in links : l.bdu = b},
                                !.adds = {l \in @ : l.bdu # b}]
  <2>1. tx[i] \in Tx /\ links \in SUBSET Link
    BY <1>1 DEF Typed
  <2>2. /\ r \in Tx /\ r.rows = tx[i].rows /\ r.stubs = tx[i].stubs /\ r.done = tx[i].done
        /\ r.dels = tx[i].dels \cup {l \in links : l.bdu = b}
        /\ r.adds = {l \in tx[i].adds : l.bdu # b}
    BY <2>1 DEF Tx
  <2>3. tx' = [tx EXCEPT ![i] = r]
    BY <1>4
  <2> HIDE DEF r
  <2> QED
    BY <1>1, <2>2, <2>3 DEF Typed
<1>6. /\ todo'[i] = {k \in DOMAIN Rec(i).cves :
             Rec(i).cves[k] \notin seen[i] \cup cves \cup tx[i].stubs}
      /\ seen'[i] = seen[i] \cup Elems(Rec(i).cves)
  BY <1>1, <1>4 DEF Typed
<1>7. Typed'
  <2>1. todo' \in [Importers -> SUBSET Nat] /\ seen' \in [Importers -> SUBSET Cves]
    BY <1>1, <1>3, <1>4 DEF Typed
  <2> QED
    BY <1>1, <1>5, <2>1 DEF Typed, Relink, Goto, db
<1>8. \A j \in Importers \ {i} : SameLocals(j) /\ tx'[i].rows \cap tx[j].rows = {}
  BY <1>1, <1>2, <1>4, <1>5 DEF Typed, Relink, Goto, SameLocals, db, BduInv, RowsApart
<1>9. /\ Rec(i)' = Rec(i)
      /\ \A a : Written(i, a)' = Written(i, a)
      /\ \A p : LinksOf(i, p)' = LinksOf(i, p)
  BY <1>2, <1>5 DEF Rec, Written, LinksOf
<1>10. Place(i)'
  BY <1>1, <1>2, <1>5, <1>6, <1>9 DEF Own, Place, InRecord, db
<1>11. Cached(i)'
  <2>1. todo[i] = {} /\ seen[i] \subseteq cves \cup tx[i].stubs
    BY <1>1, <1>2 DEF Own, Place, Cached, Active, Pending
  <2>2. \A c \in Elems(Rec(i).cves) \ (cves \cup tx[i].stubs) : c \in Pending(i)'
    BY <1>3, <1>6, <1>9, <2>1 DEF Pending
  <2>3. seen'[i] \subseteq cves' \cup tx'[i].stubs \cup Pending(i)'
    BY <1>2, <1>5, <1>6, <2>1, <2>2 DEF db
  <2> QED
    BY <1>6, <1>9, <2>3 DEF Cached
<1>12. Near(i)' /\ Passed(i)'
  BY <1>1, <1>2, <1>5 DEF Own, Near, Passed, InRecord, db
<1>13. Writes(i)'
  <2>1. Rec(i).id \in tx'[i].rows
    BY <1>1, <1>2, <1>5, <1>9 DEF Own, Writes, PastFlush
  <2>2. ASSUME NEW a \in Bdus
        PROVE  /\ Written(i, a) # {} => a \in tx'[i].rows /\ Latest(Written(i, a)) \in Written(i, a)
               /\ {l \in tx'[i].adds : l.bdu = a} =
                     IF Written(i, a) = {} \/ (pc'[i] = "stubs" /\ Rec(i).id = a) THEN {}
                     ELSE LinksOf(i, Latest(Written(i, a)))
    BY <1>1, <1>2, <1>5, <1>9 DEF Own, Writes
  <2>3. \A l \in tx'[i].dels : Rewritten(i, l.bdu)'
    BY <1>1, <1>2, <1>5, <1>9 DEF Own, Writes, Rewritten
  <2>4. \A l \in tx'[i].adds : l.cve \in cves' \cup tx'[i].stubs
    BY <1>1, <1>2, <1>5 DEF Own, Writes, db
  <2> QED
    BY <1>9, <2>1, <2>2, <2>3, <2>4 DEF Writes
<1>14. Clears(i)'
  BY <1>1, <1>2, <1>5, <1>9 DEF Own, Clears, Rewritten, db
<1> QED
  BY <1>2, <1>7, <1>8, <1>10, <1>11, <1>12, <1>13, <1>14, OwnStep DEF Own

(* One stub is inserted.                                                   *)
LEMMA StubInv ==
    ASSUME BduInv, NEW i \in Importers, InsertStub(i), NEW c, c = NextStub(i)
    PROVE  BduInv'
<1>1. Typed /\ Own(i)
  BY DEF BduInv
<1>2. /\ pc[i] = "stubs" /\ pos[i] \in 1..Len(file[i]) /\ todo[i] # {}
      /\ UNCHANGED <<db, file, pos, pc, count, seen, errors>>
  BY <1>1, FileType DEF Typed, Own, Place, InRecord, InsertStub
<1>3. First(i) \in todo[i] /\ todo[i] \subseteq DOMAIN Rec(i).cves /\ c = Rec(i).cves[First(i)]
  BY <1>1, <1>2, FirstDue DEF Own, Place, NextStub
<1>4. c \in Cves
  BY <1>1, <1>2, <1>3, RecType DEF Rec
<1>5. /\ tx' = [tx EXCEPT ![i].stubs = @ \cup {c}]
      /\ todo' = [todo EXCEPT ![i] = @ \ {First(i)}]
  BY DEF InsertStub
<1>6. /\ tx'[i].rows = tx[i].rows /\ tx'[i].stubs = tx[i].stubs \cup {c}
      /\ tx'[i].done = tx[i].done /\ tx'[i].dels = tx[i].dels /\ tx'[i].adds = tx[i].adds
      /\ tx' \in [Importers -> Tx]
      /\ \A j \in Importers \ {i} : tx'[j] = tx[j]
  <2>1. [tx[i] EXCEPT !.stubs = @ \cup {c}] \in Tx
    BY <1>1, <1>4 DEF Typed, Tx
  <2>2. tx' \in [Importers -> Tx]
    BY <1>1, <1>5, <2>1 DEF Typed
  <2> QED
    BY <1>1, <1>5, <2>2 DEF Typed, Tx
<1>7. todo'[i] = todo[i] \ {First(i)} /\ todo' \in [Importers -> SUBSET Nat]
  BY <1>1, <1>5 DEF Typed
<1>8. Typed'
  BY <1>1, <1>6, <1>7 DEF Typed, InsertStub, db
<1>9. \A j \in Importers \ {i} : SameLocals(j) /\ tx'[i].rows \cap tx[j].rows = {}
  BY <1>1, <1>2, <1>5, <1>6 DEF Typed, SameLocals, db, BduInv, RowsApart
<1>10. /\ Rec(i)' = Rec(i)
       /\ \A b : Written(i, b)' = Written(i, b) /\ Rewritten(i, b)' = Rewritten(i, b)
       /\ \A p : LinksOf(i, p)' = LinksOf(i, p)
  BY <1>2, <1>6 DEF Rec, Written, Rewritten, LinksOf
<1>11. Place(i)'
  BY <1>1, <1>2, <1>3, <1>6, <1>7, <1>10 DEF Own, Place, InRecord, db
<1>12. Cached(i)'
  <2>1. \A x \in Pending(i) : x = c \/ x \in Pending(i)'
    BY <1>3, <1>7, <1>10 DEF Pending
  <2> QED
    BY <1>1, <1>2, <1>6, <1>10, <2>1 DEF Own, Cached, Active, db
<1>13. Near(i)' /\ Passed(i)'
  BY <1>1, <1>2, <1>6 DEF Own, Near, Passed, InRecord, db
<1>14. Writes(i)' /\ Clears(i)'
  BY <1>1, <1>2, <1>6, <1>10 DEF Own, Writes, Clears, PastFlush, db
<1> QED
  BY <1>2, <1>8, <1>9, <1>11, <1>12, <1>13, <1>14, OwnStep DEF Own

(* The links are added: this position is the last that names the record.   *)
LEMMA AddInv ==
    ASSUME BduInv, NEW i \in Importers, AddLinks(i), NEW b, b = Rec(i).id, NEW p, p = pos[i]
    PROVE  BduInv'
<1>1. Typed /\ Own(i)
  BY DEF BduInv
<1>2. /\ pc[i] = "stubs" /\ p \in 1..Len(file[i]) /\ p \in Nat \ {0} /\ todo[i] = {}
      /\ count[i] \in Nat \ {0} /\ Elems(Rec(i).cves) \subseteq cves \cup tx[i].stubs
      /\ UNCHANGED <<db, file, count, seen, todo, errors>>
  BY <1>1, FileType DEF Typed, Own, Place, InRecord, AddLinks, Dangling
<1>3. /\ b \in Bdus /\ b = file[i][p].id /\ LinksOf(i, p) \in SUBSET Link
      /\ \A l \in LinksOf(i, p) : l.bdu = b /\ l.cve \in cves \cup tx[i].stubs
  BY <1>1, <1>2, RecType DEF Rec
<1>4. /\ tx'[i].rows = tx[i].rows /\ tx'[i].stubs = tx[i].stubs /\ tx'[i].dels = tx[i].dels
      /\ tx'[i].adds = tx[i].adds \cup LinksOf(i, p)
      /\ tx'[i].done = tx[i].done \cup {p}
      /\ tx' \in [Importers -> Tx]
      /\ \A j \in Importers \ {i} : tx'[j] = tx[j]
  <2> DEFINE r == [tx[i] EXCEPT !.adds = @ \cup LinksOf(i, p), !.done = @ \cup {p}]
  <2>1. tx[i] \in Tx
    BY <1>1 DEF Typed
  <2>2. /\ r \in Tx /\ r.rows = tx[i].rows /\ r.stubs = tx[i].stubs /\ r.dels = tx[i].dels
        /\ r.adds = tx[i].adds \cup LinksOf(i, p) /\ r.done = tx[i].done \cup {p}
    BY <1>2, <1>3, <2>1 DEF Tx
  <2>3. tx' = [tx EXCEPT ![i] = r]
    BY DEF AddLinks
  <2> HIDE DEF r
  <2> QED
    BY <1>1, <2>2, <2>3 DEF Typed
<1>5. /\ pos' = [pos EXCEPT ![i] = IF BatchFull(i) THEN @ ELSE @ + 1]
      /\ pc' = [pc EXCEPT ![i] = IF BatchFull(i) THEN "commit" ELSE "lookup"]
      /\ BatchFull(i) <=> count[i] % Batch = 0
  BY DEF AddLinks, Goto, BatchFull
<1>6. \/ pc'[i] = "commit" /\ pos'[i] = p
      \/ pc'[i] = "lookup" /\ pos'[i] = p + 1 /\ count[i] % Batch # 0
  BY <1>1, <1>2, <1>5 DEF Typed
<1>7. Typed'
  BY <1>1, <1>2, <1>4, <1>5 DEF Typed, AddLinks, db
<1>8. \A j \in Importers \ {i} : SameLocals(j) /\ tx'[i].rows \cap tx[j].rows = {}
  BY <1>1, <1>2, <1>4, <1>5 DEF Typed, SameLocals, db, BduInv, RowsApart
<1>9. \A q \in tx[i].done : q \in Nat /\ q < p
  BY <1>1, <1>2 DEF Own, Place, Typed, Tx
<1>10. /\ Written(i, b)' = Written(i, b) \cup {p}
       /\ \A a : a # b => Written(i, a)' = Written(i, a)
       /\ \A q : LinksOf(i, q)' = LinksOf(i, q)
  BY <1>2, <1>3, <1>4 DEF Written, LinksOf
<1>11. Latest(Written(i, b) \cup {p}) = p
  <2>1. \A q \in Written(i, b) : q \in Nat /\ q < p
    BY <1>9 DEF Written
  <2> QED
    BY <1>2, <2>1 DEF Latest
<1>12. Place(i)'
  <2>1. Len(file[i]) \in Nat
    BY <1>1, FileType
  <2>2. kept[i] \cup tx'[i].done \subseteq 1..Len(file[i])
    BY <1>1, <1>2, <1>4 DEF Own, Place
  <2>3. \A q \in tx'[i].done : q < pos'[i] \/ (pc'[i] = "commit" /\ q = pos'[i])
    BY <1>2, <1>4, <1>6, <1>9
  <2> QED
    BY <1>1, <1>2, <1>4, <1>6, <2>1, <2>2, <2>3 DEF Place, InRecord, db
<1>13. Cached(i)'
  BY <1>1, <1>2, <1>4, <1>6 DEF Own, Cached, Active, Pending, db
<1>14. Near(i)'
  <2>1. \A q \in tx[i].done : p - q <= (count[i] - 1) % Batch
    BY <1>1, <1>2 DEF Own, Near, InRecord
  <2>2. /\ count[i] % Batch \in 0..(Batch - 1) /\ (count[i] - 1) % Batch \in 0..(Batch - 1)
        /\ count[i] % Batch # 0 => count[i] % Batch = ((count[i] - 1) % Batch) + 1
    BY <1>2, BduImportAssumption, Remainders
  <2> SUFFICES ASSUME NEW q \in tx'[i].done
               PROVE  pos'[i] - q <= IF pc'[i] = "commit" THEN (count[i] - 1) % Batch
                                     ELSE count[i] % Batch
    BY <1>2, <1>6 DEF Near, InRecord
  <2>3. (q \in tx[i].done /\ q \in Nat) \/ q = p
    BY <1>4, <1>9
  <2> DEFINE m == count[i] % Batch
             n == (count[i] - 1) % Batch
  <2>4. m \in Nat /\ n \in Nat /\ (m # 0 => m = n + 1) /\ (q = p \/ (q \in Nat /\ p - q <= n))
        /\ (pc'[i] = "commit" \/ (pc'[i] = "lookup" /\ m # 0))
    BY <1>6, <2>1, <2>2, <2>3, BduImportAssumption
  <2> HIDE DEF m, n
  <2>5. pos'[i] - q <= IF pc'[i] = "commit" THEN n ELSE m
    BY <1>2, <1>6, <2>4
  <2> QED
    BY <2>5 DEF m, n
<1>15. Passed(i)'
  <2>1. pc'[i] # "dead" /\ pos'[i] \in Nat
    BY <1>2, <1>6
  <2>2. \A q \in 1..(pos'[i] - 1) : q = p \/ q \in 1..(p - 1)
    BY <1>2, <1>6
  <2> QED
    BY <1>1, <1>2, <1>4, <2>1, <2>2 DEF Own, Passed, db
<1>16. Writes(i)'
  <2>1. b \in tx[i].rows
    BY <1>1, <1>2 DEF Own, Writes, PastFlush
  <2>2. PastFlush(i)' => Rec(i)'.id \in tx'[i].rows
    BY <1>2, <1>3, <1>4, <1>6, <2>1 DEF PastFlush, Rec
  <2>3. ASSUME NEW a \in Bdus
        PROVE  /\ Written(i, a)' # {} => a \in tx'[i].rows /\ Latest(Written(i, a))' \in Written(i, a)'
               /\ {l \in tx'[i].adds : l.bdu = a} =
                     IF Written(i, a)' = {} THEN {} ELSE LinksOf(i, Latest(Written(i, a)))'
    <3>1. CASE a = b
      <4>1. {l \in tx[i].adds : l.bdu = b} = {}
        BY <1>1, <1>2, <1>3 DEF Own, Writes
      <4>2. {l \in tx'[i].adds : l.bdu = b} = LinksOf(i, p)
        BY <1>3, <1>4, <4>1
      <4> QED
        BY <1>4, <1>10, <1>11, <2>1, <3>1, <4>2
    <3>2. CASE a # b
      <4>1. {l \in tx'[i].adds : l.bdu = a} = {l \in tx[i].adds : l.bdu = a}
        BY <1>3, <1>4, <3>2
      <4> QED
        BY <1>1, <1>4, <1>10, <3>2, <4>1 DEF Own, Writes
    <3> QED
      BY <3>1, <3>2
  <2>4. \A l \in tx'[i].dels : Rewritten(i, l.bdu)'
    BY <1>1, <1>4, <1>10 DEF Own, Writes, Rewritten
  <2>5. \A l \in tx'[i].adds : l.cve \in cves' \cup tx'[i].stubs
    BY <1>1, <1>2, <1>3, <1>4 DEF Own, Writes, db
  <2> QED
    BY <1>6, <2>2, <2>3, <2>4, <2>5 DEF Writes
<1>17. Clears(i)'
  <2>1. \A a : Rewritten(i, a)' => Rewritten(i, a)
    BY <1>2, <1>6, <1>10 DEF Rewritten
  <2> QED
    BY <1>1, <1>2, <1>4, <2>1 DEF Own, Clears, db
<1> QED
  BY <1>2, <1>7, <1>8, <1>12, <1>13, <1>14, <1>15, <1>16, <1>17, OwnStep DEF Own

(* With an empty transaction nothing is held and nothing is replaced.      *)
LEMMA Empty ==
    ASSUME NEW i \in Importers, tx'[i] = NoTx, ~PastFlush(i)'
    PROVE  Near(i)' /\ Writes(i)' /\ Clears(i)' /\ tx'[i].done = {} /\ tx'[i].rows = {}
<1>1. /\ tx'[i].done = {} /\ tx'[i].rows = {} /\ tx'[i].stubs = {}
      /\ tx'[i].adds = {} /\ tx'[i].dels = {}
  BY DEF NoTx
<1>2. \A b : Written(i, b)' = {} /\ ~Rewritten(i, b)'
  BY <1>1 DEF Written, Rewritten, PastFlush
<1> QED
  BY <1>1, <1>2 DEF Near, Writes, Clears

(* The batch is lost: its records are close to the one that failed.        *)
LEMMA RollbackInv ==
    ASSUME BduInv, NEW i \in Importers, Rollback(i), Active(i), NEW p, p = pos[i]
    PROVE  BduInv'
<1>1. Typed /\ Own(i) /\ Len(file[i]) \in Nat /\ p \in Nat \ {0} /\ count[i] \in Nat
  BY FileType DEF BduInv, Typed
<1>2. /\ pos'[i] = p + 1 /\ errors'[i] = errors[i] \cup {p} /\ tx'[i] = NoTx
      /\ seen'[i] = {} /\ todo'[i] = {}
      /\ pc'[i] = IF p > Len(file[i]) THEN "failed" ELSE "lookup"
      /\ UNCHANGED <<db, file, count>>
  BY <1>1 DEF Rollback, Typed, Goto, AtEnd
<1>3. tx' \in [Importers -> Tx]
  BY <1>1 DEF Rollback, Typed, Tx, NoTx
<1>4. Typed'
  BY <1>1, <1>3 DEF Typed, Rollback, Goto, db
<1>5. ~PastFlush(i)' /\ ~InRecord(i)'
  BY <1>2 DEF PastFlush, InRecord
<1>6. Near(i)' /\ Writes(i)' /\ Clears(i)' /\ tx'[i].done = {} /\ tx'[i].rows = {}
  BY <1>2, <1>5, Empty
<1>7. \A j \in Importers \ {i} : SameLocals(j) /\ tx'[i].rows \cap tx[j].rows = {}
  BY <1>1, <1>6 DEF Rollback, Typed, Goto, SameLocals, db
<1>8. Place(i)'
  BY <1>1, <1>2, <1>5, <1>6 DEF Own, Place, Active, db
<1>9. Cached(i)'
  BY <1>2 DEF Cached, Active
<1>10. \A q \in tx[i].done : q < p => p < q + Batch
  <2>1. \A q \in tx[i].done : q \in Nat
    BY <1>1 DEF Typed, Tx
  <2>2. count[i] % Batch < Batch /\ (InRecord(i) => (count[i] - 1) % Batch < Batch)
    <3>1. InRecord(i) => count[i] # 0
      BY <1>1 DEF Own, Place
    <3>2. InRecord(i) => (count[i] - 1) % Batch \in 0..(Batch - 1)
      BY <1>1, <3>1, BduImportAssumption
    <3>3. count[i] % Batch \in 0..(Batch - 1)
      BY <1>1, BduImportAssumption
    <3> QED
      BY <3>2, <3>3, BduImportAssumption
  <2> DEFINE m == IF InRecord(i) THEN (count[i] - 1) % Batch ELSE count[i] % Batch
  <2>3. \A q \in tx[i].done : p - q <= m
    BY <1>1 DEF Own, Near, Active
  <2>4. m \in Nat /\ m < Batch
    <3>1. InRecord(i) => count[i] # 0
      BY <1>1 DEF Own, Place
    <3> QED
      BY <1>1, <2>2, <3>1, BduImportAssumption
  <2> HIDE DEF m
  <2> QED
    BY <1>1, <2>1, <2>3, <2>4, BduImportAssumption
<1>11. Passed(i)'
  <2> SUFFICES ASSUME NEW q \in 1..p
               PROVE  \/ q \in kept[i] \cup errors'[i]
                      \/ \E e \in errors'[i] : q < e /\ e < q + Batch
    BY <1>1, <1>2, <1>6 DEF Passed, db
  <2>1. CASE q = p
    BY <1>2, <2>1
  <2>2. CASE q # p
    <3>1. q \in 1..(p - 1) /\ q < p
      BY <1>1, <2>2
    <3>2. \/ q \in kept[i] \cup tx[i].done \cup errors[i]
          \/ \E e \in errors[i] : q < e /\ e < q + Batch
      BY <1>1, <3>1 DEF Own, Passed, Active
    <3> QED
      BY <1>2, <1>10, <3>1, <3>2
  <2> QED
    BY <2>1, <2>2
<1> QED
  BY <1>2, <1>4, <1>6, <1>7, <1>8, <1>9, <1>11, OwnStep DEF Own

(* A worker dies: nothing it wrote is left.                                *)
LEMMA DieInv ==
    ASSUME BduInv, NEW i \in Importers, Die(i)
    PROVE  BduInv'
<1>1. Typed /\ Own(i)
  BY DEF BduInv
<1>2. pc'[i] = "dead" /\ tx'[i] = NoTx /\ UNCHANGED <<db, file, pos, count, seen, todo, errors>>
  BY <1>1 DEF Die, Typed, Goto
<1>3. tx' \in [Importers -> Tx]
  BY <1>1 DEF Die, Typed, Tx, NoTx
<1>4. Typed'
  BY <1>1, <1>3 DEF Typed, Die, Goto, db
<1>5. Near(i)' /\ Writes(i)' /\ Clears(i)' /\ tx'[i].done = {} /\ tx'[i].rows = {}
  BY <1>2, Empty DEF PastFlush
<1>6. \A j \in Importers \ {i} : SameLocals(j) /\ tx'[i].rows \cap tx[j].rows = {}
  BY <1>1, <1>5 DEF Die, Typed, Goto, SameLocals, db
<1>7. Place(i)'
  BY <1>1, <1>2, <1>5 DEF Own, Place, InRecord, Die, Active, db
<1>8. Cached(i)' /\ Passed(i)'
  BY <1>2 DEF Cached, Passed, Active
<1> QED
  BY <1>2, <1>4, <1>5, <1>6, <1>7, <1>8, OwnStep DEF Own

(* The commit: the links of each record it wrote are replaced by those of  *)
(* the last position that named it; nobody else had written those records. *)
LEMMA CommitInv ==
    ASSUME BduInv, NEW i \in Importers, Commit(i), pc[i] \in {"commit", "lookup"},
           Typed', Own(i)', file' = file, \A j \in Importers \ {i} : SameLocals(j)
    PROVE  BduInv'
<1>1. Typed /\ Own(i)
  BY DEF BduInv
<1>2. /\ row' = [b \in Bdus |-> IF Written(i, b) = {} THEN row[b] ELSE <<i, Latest(Written(i, b))>>]
      /\ cves' = cves \cup tx[i].stubs
      /\ links' = (links \ tx[i].dels) \cup tx[i].adds
  BY DEF Commit
<1>3. \A b : Rewritten(i, b) <=> Written(i, b) # {}
  BY DEF Rewritten
<1>4. tx[i].adds \in SUBSET Link /\ tx[i].dels \in SUBSET Link
  BY <1>1 DEF Typed, Tx
<1>5. \A l \in tx[i].adds : l.bdu \in Bdus /\ Written(i, l.bdu) # {} /\ l.bdu \in tx[i].rows
  <2> SUFFICES ASSUME NEW l \in tx[i].adds
               PROVE  l.bdu \in Bdus /\ Written(i, l.bdu) # {} /\ l.bdu \in tx[i].rows
    OBVIOUS
  <2>1. l.bdu \in Bdus
    BY <1>4 DEF Link
  <2>2. l \in {k \in tx[i].adds : k.bdu = l.bdu}
    OBVIOUS
  <2> QED
    BY <1>1, <2>1, <2>2 DEF Own, Writes
<1>6. \A j \in Importers : Own(j)'
  <2> SUFFICES ASSUME NEW j \in Importers \ {i} PROVE Own(j)'
    OBVIOUS
  <2>1. Own(j)
    BY DEF BduInv
  <2>2. \A b \in Bdus : Rewritten(j, b) => b \in tx[j].rows
    BY <2>1 DEF Own, Writes, Rewritten, PastFlush
  <2>3. \A l \in links' : Rewritten(j, l.bdu) => l \in links
    BY <1>2, <1>5, <2>2 DEF BduInv, RowsApart
  <2> QED
    BY <1>2, <2>1, <2>3, KeepOwn
<1>7. RowsApart'
  <2>1. tx'[i].rows = {}
    BY <1>1 DEF Commit, Typed, NoTx
  <2> QED
    BY <2>1 DEF BduInv, RowsApart, SameLocals
<1>8. LinksExist'
  BY <1>1, <1>2 DEF BduInv, LinksExist, Own, Writes
<1>9. LinksOfLastImport'
  <2> SUFFICES ASSUME NEW b \in Bdus
               PROVE  {l \in links' : l.bdu = b} =
                         IF row'[b] = <<>> THEN {} ELSE LinksOf(row'[b][1], row'[b][2])
    BY DEF LinksOfLastImport, LinksOf
  <2>1. {l \in links : l.bdu = b} = IF row[b] = <<>> THEN {} ELSE LinksOf(row[b][1], row[b][2])
    BY DEF BduInv, LinksOfLastImport
  <2>2. CASE Written(i, b) = {}
    <3>1. \A l \in tx[i].dels \cup tx[i].adds : l.bdu # b
      BY <1>1, <1>3, <1>5, <2>2 DEF Own, Writes
    <3>2. {l \in links' : l.bdu = b} = {l \in links : l.bdu = b} /\ row'[b] = row[b]
      BY <1>2, <2>2, <3>1
    <3> QED
      BY <2>1, <3>2
  <2>3. CASE Written(i, b) # {}
    <3>1. \A l \in links : l.bdu = b => l \in tx[i].dels
      BY <1>1, <1>3, <2>3 DEF Own, Clears
    <3>2. {l \in tx[i].adds : l.bdu = b} = LinksOf(i, Latest(Written(i, b)))
      BY <1>1, <2>3 DEF Own, Writes
    <3>3. {l \in links' : l.bdu = b} = LinksOf(i, Latest(Written(i, b)))
      BY <1>2, <3>1, <3>2
    <3>4. row'[b] = <<i, Latest(Written(i, b))>> /\ row'[b] # <<>>
      BY <1>2, <2>3
    <3>5. row'[b][1] = i /\ row'[b][2] = Latest(Written(i, b))
      BY <3>4
    <3> QED
      BY <3>3, <3>4, <3>5
  <2> QED
    BY <2>2, <2>3
<1> QED
  BY <1>6, <1>7, <1>8, <1>9 DEF BduInv

(* Both commits of the loop.                                               *)
LEMMA CommitsInv ==
    ASSUME BduInv, NEW i \in Importers, CommitBatch(i) \/ CommitLast(i)
    PROVE  BduInv'
<1>1. Typed /\ Own(i) /\ Len(file[i]) \in Nat /\ pos[i] \in Nat \ {0}
  BY FileType DEF BduInv
<1>2. /\ Commit(i) /\ UNCHANGED <<file, count, todo, errors>>
      /\ \/ pc[i] = "commit" /\ pc'[i] = "lookup" /\ pos'[i] = pos[i] + 1 /\ seen'[i] = {}
         \/ pc[i] = "lookup" /\ pc'[i] = "done" /\ pos'[i] = pos[i]
  BY <1>1 DEF CommitBatch, CommitLast, Typed, Goto
<1>3. /\ pos' \in [Importers -> Nat \ {0}] /\ seen' \in [Importers -> SUBSET Cves]
      /\ pc' \in [Importers -> {"lookup", "flush", "relink", "stubs", "commit",
                                "done", "failed", "dead"}]
      /\ UNCHANGED known
      /\ \A j \in Importers \ {i} : pos'[j] = pos[j] /\ seen'[j] = seen[j] /\ pc'[j] = pc[j]
  <2>1. CASE CommitBatch(i)
    BY <1>1, <2>1 DEF CommitBatch, Typed, Goto
  <2>2. CASE CommitLast(i)
    BY <1>1, <2>2 DEF CommitLast, Typed, Goto
  <2> QED
    BY <2>1, <2>2
<1>4. tx[i] \in Tx /\ tx[i].done \subseteq 1..Len(file[i])
  BY <1>1 DEF Typed, Own, Place
<1>5. Typed'
  <2>1. row' \in [Bdus -> {<<>>} \cup (Importers \X (Nat \ {0}))]
    <3>1. \A b \in Bdus : Written(i, b) # {} => Latest(Written(i, b)) \in Nat \ {0}
      <4>1. \A b \in Bdus : Written(i, b) # {} => Latest(Written(i, b)) \in Written(i, b)
        BY <1>1 DEF Own, Writes
      <4>2. \A b : Written(i, b) \subseteq tx[i].done
        BY DEF Written
      <4>3. tx[i].done \subseteq Nat \ {0}
        BY <1>1, <1>4
      <4> QED
        BY <4>1, <4>2, <4>3
    <3> QED
      BY <1>1, <1>2, <3>1 DEF Commit, Typed
  <2>2. cves' \in SUBSET Cves /\ links' \in SUBSET Link
    BY <1>1, <1>2, <1>4 DEF Commit, Typed, Tx
  <2>3. kept' \in [Importers -> SUBSET Nat] /\ tx' \in [Importers -> Tx]
    BY <1>1, <1>2, <1>4 DEF Commit, Typed, Tx, NoTx
  <2> QED
    BY <1>1, <1>2, <1>3, <2>1, <2>2, <2>3 DEF Typed
<1>6. \A j \in Importers \ {i} : SameLocals(j)
  BY <1>1, <1>2, <1>3 DEF Commit, Typed, SameLocals
<1>7. tx'[i] = NoTx /\ kept'[i] = kept[i] \cup tx[i].done
  BY <1>1, <1>2 DEF Commit, Typed
<1>8. ~PastFlush(i)' /\ ~InRecord(i)'
  BY <1>2 DEF PastFlush, InRecord
<1>9. Near(i)' /\ Writes(i)' /\ Clears(i)' /\ tx'[i].done = {} /\ tx'[i].rows = {}
  BY <1>7, <1>8, Empty
<1>10. Place(i)'
  BY <1>1, <1>2, <1>7, <1>8, <1>9 DEF Own, Place, InRecord
<1>11. Cached(i)'
  BY <1>2 DEF Cached, Active
<1>12. Passed(i)'
  <2>1. pc[i] = "commit" => pos[i] \in tx[i].done
    BY <1>1 DEF Own, Place
  <2>2. \A q \in 1..(pos'[i] - 1) : q \in 1..(pos[i] - 1) \/ (pc[i] = "commit" /\ q = pos[i])
    BY <1>1, <1>2
  <2> QED
    BY <1>1, <1>2, <1>7, <1>9, <2>1, <2>2 DEF Own, Passed
<1> QED
  BY <1>2, <1>5, <1>6, <1>9, <1>10, <1>11, <1>12, CommitInv DEF Own

(* An NVD page adds a CVE: nothing that was there is gone.                 *)
LEMMA NvdInv ==
    ASSUME BduInv, NEW c \in Cves, NvdInsert(c)
    PROVE  BduInv'
<1>1. cves' = cves \cup {c} /\ UNCHANGED <<row, links, kept, file, loop, tx>>
  BY DEF NvdInsert
<1>2. Typed'
  BY <1>1 DEF BduInv, Typed, loop
<1>3. \A j \in Importers : Own(j)'
  <2> SUFFICES ASSUME NEW j \in Importers PROVE Own(j)'
    OBVIOUS
  <2>1. SameLocals(j)
    BY <1>1 DEF SameLocals, loop
  <2> QED
    BY <1>1, <2>1, KeepOwn DEF BduInv
<1>4. RowsApart' /\ LinksExist'
  BY <1>1 DEF BduInv, RowsApart, LinksExist
<1>5. LinksOfLastImport'
  BY <1>1 DEF BduInv, LinksOfLastImport, LinksOf
<1> QED
  BY <1>2, <1>3, <1>4, <1>5 DEF BduInv

-----------------------------------------------------------------------------
(* No import has begun.                                                    *)
LEMMA InitInv == Init => BduInv
<1> SUFFICES ASSUME Init PROVE BduInv
  OBVIOUS
<1>1. Typed
  BY DEF Init, Typed, NoTx, Tx
<1>2. \A i \in Importers : Own(i)
  <2> SUFFICES ASSUME NEW i \in Importers PROVE Own(i)
    OBVIOUS
  <2>1. /\ tx[i].done = {} /\ tx[i].rows = {} /\ tx[i].stubs = {}
        /\ tx[i].adds = {} /\ tx[i].dels = {}
    BY DEF Init, NoTx
  <2>2. \A b : Written(i, b) = {} /\ ~Rewritten(i, b)
    BY <2>1 DEF Init, Written, Rewritten
  <2>3. Place(i)
    BY <1>1, <2>1, FileType DEF Init, Place, InRecord
  <2>4. Cached(i) /\ Near(i) /\ Passed(i)
    BY <2>1 DEF Init, Cached, Near, Passed
  <2>5. Writes(i) /\ Clears(i)
    BY <2>1, <2>2 DEF Init, Writes, Clears, PastFlush
  <2> QED
    BY <2>3, <2>4, <2>5 DEF Own
<1>3. RowsApart /\ LinksExist /\ LinksOfLastImport
  BY DEF Init, RowsApart, LinksExist, LinksOfLastImport, NoTx
<1> QED
  BY <1>1, <1>2, <1>3 DEF BduInv

(* Every step keeps the invariant.                                         *)
LEMMA NextInv == BduInv /\ [Next]_vars => BduInv'
<1> SUFFICES ASSUME BduInv, [Next]_vars PROVE BduInv'
  OBVIOUS
<1>1. CASE UNCHANGED vars
  <2>1. UNCHANGED <<db, file, loop, tx>>
    BY <1>1 DEF vars
  <2>2. Typed' /\ RowsApart' /\ LinksExist'
    BY <2>1 DEF BduInv, Typed, RowsApart, LinksExist, db, loop
  <2>3. LinksOfLastImport'
    BY <2>1 DEF BduInv, LinksOfLastImport, LinksOf, db
  <2>4. ASSUME NEW j \in Importers PROVE Own(j)'
    <3>1. SameLocals(j) /\ file' = file /\ cves' = cves /\ links' = links /\ Own(j)
      BY <2>1 DEF SameLocals, db, loop, BduInv
    <3> QED
      BY <3>1, KeepOwn
  <2> QED
    BY <2>2, <2>3, <2>4 DEF BduInv
<1>2. ASSUME NEW i \in Importers, Rollback(i), Active(i) PROVE BduInv'
  BY <1>2, RollbackInv
<1>3. ASSUME NEW i \in Importers, Step(i) PROVE BduInv'
  <2>1. CASE Lookup(i)
    BY <2>1, LookupInv
  <2>2. CASE FlushRow(i)
    BY <2>2, FlushInv
  <2>3. CASE Relink(i)
    BY <2>3, RelinkInv
  <2>4. CASE InsertStub(i)
    BY <2>4, StubInv
  <2>5. CASE AddLinks(i)
    BY <2>5, AddInv
  <2>6. CASE CommitBatch(i) \/ CommitLast(i)
    BY <2>6, CommitsInv
  <2>7. CASE Reject(i)
    BY <1>2, <2>7 DEF Reject, Conflict, Dangling, Active
  <2>8. CASE Victim(i)
    <3>1. PICK k \in Importers : WaitsFor(i, k)
      BY <2>8 DEF Victim
    <3>2. Active(i)
      BY <3>1 DEF WaitsFor, Wanted, Active
    <3> QED
      BY <1>2, <2>8, <3>2 DEF Victim
  <2> QED
    BY <1>3, <2>1, <2>2, <2>3, <2>4, <2>5, <2>6, <2>7, <2>8 DEF Step
<1>4. ASSUME NEW i \in Importers, Fault(i) \/ Die(i) PROVE BduInv'
  BY <1>2, <1>4, DieInv DEF Fault
<1>5. ASSUME NEW c \in Cves, NvdInsert(c) PROVE BduInv'
  BY <1>5, NvdInv
<1> QED
  BY <1>1, <1>3, <1>4, <1>5 DEF Next

(* The invariant holds in every state.                                     *)
LEMMA Invariant == Spec => []BduInv
  BY InitInv, NextInv, PTL DEF Spec

-----------------------------------------------------------------------------
(* The invariant gives the types.                                          *)
LEMMA InvGivesType == BduInv => TypeOK
<1> SUFFICES ASSUME BduInv PROVE TypeOK
  OBVIOUS
<1>1. Typed
  BY DEF BduInv
<1>2. \A b \in Bdus : row[b] = <<>> \/ row[b] \in Importers \X (Nat \ {0})
  BY <1>1 DEF Typed
<1>3. ASSUME NEW i \in Importers
      PROVE  /\ file[i] \in Files /\ pos[i] \in 1..(Len(file[i]) + 2)
             /\ kept[i] \cup tx[i].done \subseteq DOMAIN file[i]
             /\ pc[i] \in {"flush", "relink", "stubs", "commit"} => ~AtEnd(i)
             /\ tx[i].rows \subseteq Bdus /\ tx[i].stubs \subseteq Cves
             /\ tx[i].dels \cup tx[i].adds \subseteq Link
  <2>1. Place(i) /\ tx[i] \in Tx /\ file[i] \in Files
    BY <1>1 DEF BduInv, Own, Typed
  <2>2. Len(file[i]) \in Nat /\ DOMAIN file[i] = 1..Len(file[i]) /\ pos[i] \in Nat \ {0}
    BY <1>1, FileType
  <2> QED
    BY <2>1, <2>2 DEF Place, InRecord, AtEnd, Tx
<1> QED
  BY <1>1, <1>2, <1>3 DEF Typed, TypeOK

(* Every variable keeps its type, and no import reads past its file.       *)
THEOREM TypeCorrect == Spec => []TypeOK
  BY Invariant, InvGivesType, PTL

(* The invariant gives the soundness of the stub cache.                    *)
LEMMA InvGivesSeen == BduInv => SeenStubsExist
  BY DEF BduInv, Own, Cached, SeenStubsExist

(* What the stub cache says is there is there, or about to be: no cache    *)
(* entry outlives the transaction that inserted the stub.                  *)
THEOREM StubCacheSound == Spec => []SeenStubsExist
  BY Invariant, InvGivesSeen, PTL

(* The invariant gives the links.                                          *)
LEMMA InvGivesLinks == BduInv => LinksOfLastImport
  BY DEF BduInv

(* Whatever imports overlap, fail, deadlock and die: each record has       *)
(* exactly the links of the import that wrote it last.                     *)
THEOREM LinksAreOfLastImport == Spec => []LinksOfLastImport
  BY Invariant, InvGivesLinks, PTL

(* The invariant bounds the loss.                                          *)
LEMMA InvGivesLoss == BduInv => LossBounded
  BY DEF BduInv, Own, Passed, LossBounded

(* An error takes less than Batch records before it along, at any size of  *)
(* the batch: everything else the loop has passed is in or about to be.    *)
THEOREM LossIsBounded == Spec => []LossBounded
  BY Invariant, InvGivesLoss, PTL

(* A link never comes before its CVE: no statement of the import fails on  *)
(* the foreign key, and every link there is names a CVE that is there.     *)
LinkedCvesExist == LinksExist /\ \A i \in Importers : ~Dangling(i)

(* With no stub due, every CVE of the record is there.                     *)
LEMMA InvGivesExist == BduInv => LinkedCvesExist
<1> SUFFICES ASSUME BduInv, NEW i \in Importers PROVE ~Dangling(i)
  BY DEF BduInv, LinkedCvesExist
<1>1. Cached(i) /\ (pc[i] = "stubs" => Active(i))
  BY DEF BduInv, Own, Active
<1>2. todo[i] = {} => Pending(i) = {}
  BY DEF Pending
<1> QED
  BY <1>1, <1>2 DEF Cached, Dangling

(* Whatever happens, no link refers to a CVE that is missing.              *)
THEOREM LinksComeAfterCves == Spec => []LinkedCvesExist
  BY Invariant, InvGivesExist, PTL

-----------------------------------------------------------------------------
(* The refinement: a commit is a step of RecordStore, and everything else  *)
(* leaves what a reader sees alone.                                        *)

(* Positions are committed in the order of the file.                       *)
Ahead(i) ==
    /\ \A q \in kept[i] : q < pos[i]
    /\ \A q \in kept[i], p \in tx[i].done : q < p

AllAhead == \A i \in Importers : Ahead(i)

(* What a step does to the positions of an importer.                       *)
Holds(j) == kept'[j] = kept[j] /\ pos'[j] = pos[j] /\ tx'[j].done = tx[j].done
Forgets(j) == kept'[j] = kept[j] /\ pos'[j] \in {pos[j], pos[j] + 1} /\ tx'[j].done = {}
Adds(j) ==
    /\ kept'[j] = kept[j] /\ pos'[j] \in {pos[j], pos[j] + 1}
    /\ tx'[j].done = tx[j].done \cup {pos[j]}
Keeps(j) ==
    /\ kept'[j] = kept[j] \cup tx[j].done /\ tx'[j].done = {}
    /\ IF pc[j] = "commit" THEN pos'[j] = pos[j] + 1 ELSE pos'[j] = pos[j]

(* Each of them keeps the order.                                           *)
LEMMA AheadAfter ==
    ASSUME Typed, NEW j \in Importers, Place(j), Ahead(j),
           Holds(j) \/ Forgets(j) \/ Adds(j) \/ Keeps(j)
    PROVE  Ahead(j)'
<1>1. pos[j] \in Nat /\ kept[j] \subseteq Nat /\ tx[j].done \subseteq Nat
  BY DEF Typed, Tx
<1>2. CASE Holds(j)
  BY <1>2 DEF Holds, Ahead
<1>3. CASE Forgets(j)
  BY <1>1, <1>3 DEF Forgets, Ahead
<1>4. CASE Adds(j)
  BY <1>1, <1>4 DEF Adds, Ahead
<1>5. CASE Keeps(j)
  <2>1. \A p \in tx[j].done : p < pos[j] \/ (pc[j] = "commit" /\ p = pos[j])
    BY DEF Place
  <2> QED
    BY <1>1, <1>5, <2>1 DEF Keeps, Ahead
<1> QED BY <1>2, <1>3, <1>4, <1>5

(* Every step does one of them.                                            *)
LEMMA NextAhead ==
    ASSUME BduInv, AllAhead, [Next]_vars
    PROVE  AllAhead'
<1>1. Typed /\ \A j \in Importers : Place(j) /\ Ahead(j)
  BY DEF BduInv, Own, AllAhead
<1>2. SUFFICES ASSUME NEW j \in Importers
               PROVE  Holds(j) \/ Forgets(j) \/ Adds(j) \/ Keeps(j)
  BY <1>1, AheadAfter DEF AllAhead
<1>3. CASE UNCHANGED <<kept, pos, tx>>
  BY <1>3 DEF Holds
<1>4. ASSUME NEW i \in Importers, Lookup(i) PROVE UNCHANGED <<kept, pos, tx>>
  BY <1>4 DEF Lookup, db
<1>5. ASSUME NEW i \in Importers, FlushRow(i) \/ Relink(i) \/ InsertStub(i) PROVE Holds(j)
  <2>1. kept' = kept /\ pos' = pos
    BY <1>5 DEF FlushRow, Relink, InsertStub, db
  <2>2. tx'[j].done = tx[j].done
    <3>1. tx[j] \in Tx /\ tx[i] \in Tx
      BY <1>1 DEF Typed
    <3>2. CASE FlushRow(i)
      BY <1>1, <3>1, <3>2 DEF FlushRow, Typed, Tx
    <3>3. CASE Relink(i)
      BY <1>1, <3>1, <3>3 DEF Relink, Typed, Tx
    <3>4. CASE InsertStub(i)
      BY <1>1, <3>1, <3>4 DEF InsertStub, Typed, Tx
    <3> QED BY <1>5, <3>2, <3>3, <3>4
  <2> QED BY <2>1, <2>2 DEF Holds
<1>6. ASSUME NEW i \in Importers, AddLinks(i) PROVE Holds(j) \/ Adds(j)
  <2>1. kept' = kept /\ (j # i => pos'[j] = pos[j]) /\ pos'[i] \in {pos[i], pos[i] + 1}
    BY <1>1, <1>6 DEF AddLinks, db, Typed
  <2>2. (j # i => tx'[j] = tx[j]) /\ tx'[i].done = tx[i].done \cup {pos[i]}
    BY <1>1, <1>6 DEF AddLinks, Typed, Tx
  <2> QED BY <2>1, <2>2 DEF Holds, Adds
<1>7. ASSUME NEW i \in Importers, CommitBatch(i) \/ CommitLast(i) PROVE Holds(j) \/ Keeps(j)
  <2>1. /\ j # i => kept'[j] = kept[j] /\ tx'[j] = tx[j]
        /\ kept'[i] = kept[i] \cup tx[i].done /\ tx'[i].done = {}
    BY <1>1, <1>7 DEF CommitBatch, CommitLast, Commit, NoTx, Typed
  <2>2. /\ j # i => pos'[j] = pos[j]
        /\ IF pc[i] = "commit" THEN pos'[i] = pos[i] + 1 ELSE pos'[i] = pos[i]
    BY <1>1, <1>7 DEF CommitBatch, CommitLast, Typed
  <2> QED BY <2>1, <2>2 DEF Holds, Keeps
<1>8. ASSUME NEW i \in Importers, Rollback(i) PROVE Holds(j) \/ Forgets(j)
  BY <1>1, <1>8 DEF Rollback, db, NoTx, Typed, Holds, Forgets
<1>9. ASSUME NEW i \in Importers, Die(i) PROVE Holds(j) \/ Forgets(j)
  BY <1>1, <1>9 DEF Die, db, NoTx, Typed, Holds, Forgets
<1>10. ASSUME NEW c \in Cves, NvdInsert(c) PROVE UNCHANGED <<kept, pos, tx>>
  BY <1>10 DEF NvdInsert, loop
<1>11. UNCHANGED vars => UNCHANGED <<kept, pos, tx>>
  BY DEF vars, db, loop
<1> QED BY <1>3, <1>4, <1>5, <1>6, <1>7, <1>8, <1>9, <1>10, <1>11
       DEF Next, Step, Reject, Victim, Fault

(* No import has taken anything.                                           *)
LEMMA StoreInit == Init => Store!Init /\ AllAhead
BY DEF Init, Store!Init, AllAhead, Ahead, NoTx

(* The CVEs a reader sees beside a record.                                 *)
Beside(b) == {l.cve : l \in {k \in links : k.bdu = b}}

(* They are those its entry lists.                                         *)
LEMMA BesideIsListed ==
    ASSUME LinksOfLastImport, NEW b \in Bdus
    PROVE  Beside(b) = IF row[b] = <<>> THEN {} ELSE Store!Listed(row[b][1], row[b][2])
<1>1. {k \in links : k.bdu = b} = IF row[b] = <<>> THEN {} ELSE LinksOf(row[b][1], row[b][2])
  BY DEF LinksOfLastImport
<1>2. CASE row[b] = <<>>
  BY <1>1, <1>2 DEF Beside
<1>3. CASE row[b] # <<>>
  <2>1. PICK i, p : i = row[b][1] /\ p = row[b][2]
    OBVIOUS
  <2>2. Beside(b) = {l.cve : l \in LinksOf(i, p)}
    BY <1>1, <1>3, <2>1 DEF Beside
  <2>3. ASSUME NEW c \in Elems(file[i][p].cves) PROVE c \in Beside(b)
    <3> DEFINE l == [cve |-> c, bdu |-> file[i][p].id, by |-> <<i, p>>]
    <3>1. l \in LinksOf(i, p) /\ l.cve = c
      BY DEF LinksOf
    <3> QED BY <3>1, <2>2
  <2>4. \A l \in LinksOf(i, p) : l.cve \in Elems(file[i][p].cves)
    BY DEF LinksOf
  <2>5. Beside(b) = Elems(file[i][p].cves)
    BY <2>2, <2>3, <2>4
  <2> QED BY <1>3, <2>1, <2>5 DEF Store!Listed, Elems
<1> QED BY <1>2, <1>3

(* The same in the state after a step.                                     *)
LEMMA BesideAfter ==
    ASSUME LinksOfLastImport', NEW b \in Bdus, file' = file
    PROVE  Beside(b)' = IF row'[b] = <<>> THEN {} ELSE Store!Listed(row'[b][1], row'[b][2])
<1>1. {k \in links' : k.bdu = b} = IF row'[b] = <<>> THEN {} ELSE LinksOf(row'[b][1], row'[b][2])
  BY DEF LinksOfLastImport, LinksOf
<1>2. CASE row'[b] = <<>>
  BY <1>1, <1>2 DEF Beside
<1>3. CASE row'[b] # <<>>
  <2>1. PICK i, p : i = row'[b][1] /\ p = row'[b][2]
    OBVIOUS
  <2>2. Beside(b)' = {l.cve : l \in LinksOf(i, p)}
    BY <1>1, <1>3, <2>1 DEF Beside
  <2>3. ASSUME NEW c \in Elems(file[i][p].cves) PROVE c \in Beside(b)'
    <3> DEFINE l == [cve |-> c, bdu |-> file[i][p].id, by |-> <<i, p>>]
    <3>1. l \in LinksOf(i, p) /\ l.cve = c
      BY DEF LinksOf
    <3> QED BY <3>1, <2>2
  <2>4. \A l \in LinksOf(i, p) : l.cve \in Elems(file[i][p].cves)
    BY DEF LinksOf
  <2>5. Beside(b)' = Elems(file[i][p].cves)
    BY <2>2, <2>3, <2>4
  <2> QED BY <1>3, <2>1, <2>5 DEF Store!Listed, Elems
<1> QED BY <1>2, <1>3

(* Links and CVEs that are left alone, or only grow, make no step.         *)
LEMMA StoreComplete ==
    ASSUME BduInv', cves' \in SUBSET Cves, cves \subseteq cves'
    PROVE  Store!Complete
<1>1. ASSUME NEW b \in Bdus PROVE Beside(b)' \subseteq cves'
  BY DEF BduInv, LinksExist, Beside
<1> QED BY <1>1 DEF Store!Complete, Beside

(* The records of an open batch are near each other and after those taken. *)
LEMMA StoreInOrder ==
    ASSUME BduInv, AllAhead, NEW i \in Importers, pc[i] \in {"commit", "lookup"},
           tx[i].done # {}
    PROVE  Store!InOrder(i, tx[i].done)
<1>1. /\ Typed /\ Near(i) /\ Place(i)
      /\ tx[i].done \subseteq Nat /\ pos[i] \in Nat /\ count[i] \in Nat
  BY DEF BduInv, Own, Typed, Tx
<1>2. \A p \in tx[i].done : \A q \in kept[i] : q < p
  BY DEF AllAhead, Ahead
<1>3. PICK m \in Nat : m < Batch /\ \A p \in tx[i].done : pos[i] - p <= m
  <2>1. CASE InRecord(i)
    <3>1. count[i] # 0
      BY <1>1, <2>1 DEF Place
    <3>2. (count[i] - 1) % Batch \in 0..(Batch - 1)
      BY <1>1, <3>1, BduImportAssumption
    <3> QED BY <1>1, <2>1, <3>2, BduImportAssumption DEF Near, InRecord
  <2>2. CASE ~InRecord(i)
    <3>1. count[i] % Batch \in 0..(Batch - 1)
      BY <1>1, BduImportAssumption
    <3> QED BY <1>1, <2>2, <3>1, BduImportAssumption DEF Near
  <2> QED BY <2>1, <2>2
<1>4. \A p \in tx[i].done : p <= pos[i]
  BY <1>1 DEF Place
<1>5. \A p, q \in tx[i].done : p < q + Batch
  BY <1>1, <1>3, <1>4, BduImportAssumption
<1> QED BY <1>2, <1>5 DEF Store!InOrder

(* A commit with records takes them, all at once.                          *)
LEMMA StoreTake ==
    ASSUME BduInv, BduInv', AllAhead, NEW i \in Importers, pc[i] \in {"commit", "lookup"},
           Commit(i), file' = file, NEW some, some = tx[i].done, some # {}
    PROVE  Store!Take(i, some)
<1>1. Store!InOrder(i, some)
  BY StoreInOrder DEF Store!InOrder
<1>2. \A b : Store!About(b, i, some) = Written(i, b)
  BY DEF Store!About, Written
<1>3. row' = [b \in Bdus |-> IF Written(i, b) = {} THEN row[b] ELSE <<i, Latest(Written(i, b))>>]
  BY DEF Commit
<1>4. \A b : Store!Latest(Written(i, b)) = Latest(Written(i, b))
  BY DEF Store!Latest, Latest
<1>5. ASSUME NEW b \in Bdus
      PROVE  Beside(b)' = IF Written(i, b) = {} THEN Beside(b)
                          ELSE Store!Listed(i, Latest(Written(i, b)))
  <2>1. Beside(b)' = IF row'[b] = <<>> THEN {} ELSE Store!Listed(row'[b][1], row'[b][2])
    BY BesideAfter DEF BduInv
  <2>2. CASE Written(i, b) = {}
    <3>1. row'[b] = row[b]
      BY <1>3, <2>2
    <3> QED BY <2>1, <2>2, <3>1, BesideIsListed DEF BduInv
  <2>3. CASE Written(i, b) # {}
    <3>1. row'[b] = <<i, Latest(Written(i, b))>> /\ row'[b] # <<>>
      BY <1>3, <2>3
    <3>2. row'[b][1] = i /\ row'[b][2] = Latest(Written(i, b))
      BY <3>1
    <3> QED BY <2>1, <2>3, <3>1, <3>2
  <2> QED BY <2>2, <2>3
<1>6. kept' = [kept EXCEPT ![i] = @ \cup some]
  BY DEF Commit
<1>7. row' = [b \in Bdus |-> IF Store!About(b, i, some) = {} THEN row[b]
                             ELSE <<i, Store!Latest(Store!About(b, i, some))>>]
  BY <1>2, <1>3, <1>4
<1>8. [b \in Bdus |-> Beside(b)]' =
         [b \in Bdus |-> IF Store!About(b, i, some) = {} THEN [a \in Bdus |-> Beside(a)][b]
                         ELSE Store!Listed(i, Store!Latest(Store!About(b, i, some)))]
  BY <1>2, <1>4, <1>5
<1> QED BY <1>1, <1>6, <1>7, <1>8 DEF Store!Take, Beside

(* A commit maps to a step of RecordStore.                                 *)
LEMMA StoreCommit ==
    ASSUME BduInv, BduInv', AllAhead, NEW i \in Importers, CommitBatch(i) \/ CommitLast(i)
    PROVE  Store!Next
<1>1. Commit(i) /\ file' = file /\ pc[i] \in {"commit", "lookup"}
  BY DEF CommitBatch, CommitLast
<1>2. cves' \in SUBSET Cves /\ cves \subseteq cves'
  BY <1>1 DEF Commit, BduInv, Typed
<1>3. Store!Complete
  BY <1>2, StoreComplete
<1>4. CASE tx[i].done # {}
  <2>1. PICK some \in SUBSET DOMAIN file[i] : some = tx[i].done
    BY FileType DEF BduInv, Own, Place
  <2>2. Store!Take(i, some)
    BY <1>1, <1>4, <2>1, StoreTake
  <2> QED BY <1>1, <1>3, <2>2 DEF Store!Next
<1>5. CASE tx[i].done = {}
  <2>1. \A b : Written(i, b) = {}
    BY <1>5 DEF Written
  <2>2. row' = row /\ kept' = kept
    BY <1>1, <1>5, <2>1 DEF Commit, BduInv, Typed
  <2>3. \A b \in Bdus : Beside(b)' = Beside(b)
    BY <1>1, <2>2, BesideIsListed, BesideAfter DEF BduInv
  <2>4. [b \in Bdus |-> Beside(b)]' = [b \in Bdus |-> Beside(b)]
    BY <2>3
  <2> QED BY <1>1, <1>3, <2>2, <2>4 DEF Store!Next, Beside
<1> QED BY <1>4, <1>5

(* Every step maps to a step of RecordStore or to a stutter.               *)
LEMMA StoreNext ==
    ASSUME BduInv, BduInv', AllAhead, [Next]_vars
    PROVE  [Store!Next]_Store!vars
<1>1. CASE UNCHANGED <<db, file>>
  BY <1>1 DEF Store!vars, db
<1>2. ASSUME NEW i \in Importers, CommitBatch(i) \/ CommitLast(i)
      PROVE  Store!Next
  BY <1>2, StoreCommit
<1>3. ASSUME NEW c \in Cves, NvdInsert(c) PROVE Store!Next
  <2>1. cves' = cves \cup {c} /\ UNCHANGED <<row, links, kept, file>>
    BY <1>3 DEF NvdInsert
  <2>2. Store!Complete
    BY <2>1, StoreComplete DEF BduInv, Typed
  <2> QED BY <2>1, <2>2 DEF Store!Next
<1>4. ASSUME NEW i \in Importers,
             \/ Lookup(i) \/ FlushRow(i) \/ Relink(i) \/ InsertStub(i) \/ AddLinks(i)
             \/ Rollback(i) \/ Die(i)
      PROVE  UNCHANGED <<db, file>>
  BY <1>4 DEF Lookup, FlushRow, Relink, InsertStub, AddLinks, Rollback, Die
<1> QED BY <1>1, <1>2, <1>3, <1>4 DEF Next, Step, Reject, Victim, Fault, vars

(* Any number of overlapping, waiting, failing and dying imports together  *)
(* implement RecordStore.                                                  *)
THEOREM StoreImplemented == Spec => ImplementsRecordStore
<1>1. BduInv /\ AllAhead /\ [Next]_vars => AllAhead'
  BY NextAhead
<1>2. BduInv /\ BduInv' /\ AllAhead /\ [Next]_vars => [Store!Next]_Store!vars
  BY StoreNext
<1> QED BY <1>1, <1>2, InitInv, NextInv, StoreInit, PTL
        DEF Spec, ImplementsRecordStore, Store!Spec
=============================================================================
