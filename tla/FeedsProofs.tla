---------------------------- MODULE FeedsProofs -----------------------------
(***************************************************************************)
(* Proofs about what the feeds write, for any number of jobs and requests  *)
(* at once: KEV flags beside NVD pages (Catalogue), EPSS scores (Epss) and *)
(* imports of exploit links (Xdb).                                         *)
(***************************************************************************)
EXTENDS Epss, Xdb, FiniteSetTheorems, SequenceTheorems, TLAPS

(* A handler that goes on with r leaves the others alone.                  *)
LEMMA OneMoves ==
    ASSUME NEW h \in Handlers, NEW r, Goto(h, r), request = [g \in Handlers |-> request[g]]
    PROVE  /\ request' = [g \in Handlers |-> request'[g]]
           /\ request'[h] = r
           /\ \A g \in Handlers \ {h} : request'[g] = request[g]
  BY DEF Goto

-----------------------------------------------------------------------------
(* The list of known exploited vulnerabilities.  The strengthening: a KEV  *)
(* run in flight will flag what was in the catalogue when it began, of the *)
(* items it has read.                                                      *)
KevRun == {"op", "left", "done", "inserts", "flags", "clash", "fallback", "known"}

Collecting(r) ==
    /\ r = [f \in KevRun |-> r[f]]
    /\ r.known \subseteq cves /\ r.done \cap r.known \subseteq r.flags

CatalogueInv ==
    /\ request = [h \in Handlers |-> request[h]]
    /\ ListedFlagged
    /\ \A h \in Handlers : Doing(h, "kev") => Collecting(request[h])

(* A handler goes on with r, and rows are only added.                      *)
LEMMA CatalogueGrows ==
    ASSUME CatalogueInv, NEW h \in Handlers, NEW r, Goto(h, r),
           r.op = "kev" => Collecting(r)', cves \subseteq cves', ListedFlagged'
    PROVE  CatalogueInv'
<1>1. /\ request' = [g \in Handlers |-> request'[g]]
      /\ request'[h] = r
      /\ \A g \in Handlers \ {h} : request'[g] = request[g]
  BY OneMoves DEF CatalogueInv
<1>2. ASSUME NEW g \in Handlers, Doing(g, "kev")' PROVE Collecting(request[g])'
  BY <1>1, <1>2 DEF CatalogueInv, Doing, Collecting
<1> QED
  BY <1>1, <1>2 DEF CatalogueInv

LEMMA InitCatalogue == CatalogueInit => CatalogueInv
  BY DEF CatalogueInit, CatalogueInv, ListedFlagged, AllIdle, Idle, Doing

(* An item is read: it is flagged if it is in the catalogue.               *)
LEMMA ReadItemInv ==
    ASSUME CatalogueInv, NEW h \in Handlers, NEW c \in Cves, ReadItem(h, c)
    PROVE  CatalogueInv'
<1> PICK r : r = [request[h] EXCEPT !.left = @ \ {c}, !.done = @ \cup {c},
                     !.inserts = IF c \in kev THEN @ ELSE @ \cup {c},
                     !.flags = IF c \in cves THEN @ \cup {c} ELSE @,
                     !.clash = @ \/ c \in request[h].inserts]
  OBVIOUS
<1>1. Goto(h, r) /\ Collecting(request[h]) /\ UNCHANGED <<cves, flagged, kev, listed>>
  BY DEF ReadItem, CatalogueInv
<1>2. /\ r = [f \in KevRun |-> r[f]]
      /\ r.known = request[h].known /\ r.done = request[h].done \cup {c}
      /\ r.flags = IF c \in cves THEN request[h].flags \cup {c} ELSE request[h].flags
  BY <1>1 DEF Collecting, KevRun
<1>3. Collecting(r)'
  <2>1. /\ request[h].known \subseteq cves
        /\ request[h].done \cap request[h].known \subseteq request[h].flags
    BY <1>1 DEF Collecting
  <2>2. r.known \subseteq cves'
    BY <1>1, <1>2, <2>1
  <2>3. ASSUME NEW x \in r.done, x \in r.known PROVE x \in r.flags
    <3>1. CASE x = c
      BY <1>2, <2>1, <2>3, <3>1
    <3>2. CASE x # c
      BY <1>2, <2>1, <2>3, <3>2
    <3> QED
      BY <3>1, <3>2
  <2>4. r.done \cap r.known \subseteq r.flags
    BY <2>3
  <2> QED
    BY <1>2, <2>2, <2>4 DEF Collecting
<1> QED
  BY <1>1, <1>3, CatalogueGrows DEF CatalogueInv, ListedFlagged

(* An item that is no object: the sample is read instead.                  *)
LEMMA MalformedInv ==
    ASSUME CatalogueInv, NEW h \in Handlers, MalformedItem(h)
    PROVE  CatalogueInv'
<1> PICK r : r = [request[h] EXCEPT !.left = Sample, !.fallback = TRUE]
  OBVIOUS
<1>1. Goto(h, r) /\ Collecting(request[h]) /\ UNCHANGED <<cves, flagged, kev, listed>>
  BY DEF MalformedItem, CatalogueInv
<1>2. /\ r = [f \in KevRun |-> r[f]]
      /\ r.known = request[h].known /\ r.done = request[h].done /\ r.flags = request[h].flags
  BY <1>1 DEF Collecting, KevRun
<1>3. Collecting(r)'
  BY <1>1, <1>2 DEF Collecting
<1> QED
  BY <1>1, <1>3, CatalogueGrows DEF CatalogueInv, ListedFlagged

LEMMA StartKevInv ==
    ASSUME CatalogueInv, NEW h \in Handlers, NEW feed \in SUBSET Cves, StartKev(h, feed)
    PROVE  CatalogueInv'
<1> PICK r : r = [op |-> "kev", left |-> feed, done |-> {}, inserts |-> {}, flags |-> {},
                  clash |-> FALSE, fallback |-> feed = Sample, known |-> cves]
  OBVIOUS
<1>1. Goto(h, r) /\ UNCHANGED <<cves, flagged, kev, listed>>
  BY DEF StartKev
<1>2. r = [f \in KevRun |-> r[f]] /\ r.known = cves /\ r.done = {} /\ r.flags = {}
  BY DEF KevRun
<1>3. Collecting(r)'
  BY <1>1, <1>2 DEF Collecting
<1> QED
  BY <1>1, <1>3, CatalogueGrows DEF CatalogueInv, ListedFlagged

LEMMA CommitKevInv ==
    ASSUME CatalogueInv, NEW h \in Handlers, CommitKev(h)
    PROVE  CatalogueInv'
<1>1. Goto(h, Idle) /\ Idle.op # "kev" /\ cves' = cves /\ Collecting(request[h])
  BY DEF CommitKev, Finish, Idle, CatalogueInv
<1>2. ListedFlagged'
  BY <1>1 DEF CommitKev, CatalogueInv, ListedFlagged, Collecting
<1> QED
  BY <1>1, <1>2, CatalogueGrows

LEMMA StepCatalogue == CatalogueInv /\ [CatalogueNext]_catalogueVars => CatalogueInv'
<1> SUFFICES ASSUME CatalogueInv, [CatalogueNext]_catalogueVars PROVE CatalogueInv'
  OBVIOUS
<1>1. ASSUME NEW h \in Handlers, NEW c \in Cves, ReadPage(h, c) PROVE CatalogueInv'
  BY <1>1, CatalogueGrows DEF ReadPage, CatalogueInv, ListedFlagged
<1>2. ASSUME NEW h \in Handlers, CommitPage(h) PROVE CatalogueInv'
  BY <1>2, CatalogueGrows DEF CommitPage, Finish, Idle, CatalogueInv, ListedFlagged
<1>3. ASSUME NEW h \in Handlers, EndJob(h) PROVE CatalogueInv'
  BY <1>3, CatalogueGrows DEF EndJob, Finish, Idle, CatalogueInv, ListedFlagged
<1>4. CASE UNCHANGED catalogueVars
  BY <1>4 DEF catalogueVars, CatalogueInv, ListedFlagged, Doing, Collecting
<1> QED
  BY <1>1, <1>2, <1>3, <1>4, ReadItemInv, MalformedInv, StartKevInv, CommitKevInv
     DEF CatalogueNext

(* A CVE of the catalogue that a committed list named is flagged for good, *)
(* whatever pages and lists are under way: a page writes no flag, and a    *)
(* list takes none back.                                                   *)
THEOREM ListedAreFlagged == CatalogueSpec => []ListedFlagged
<1>1. CatalogueInv => ListedFlagged
  BY DEF CatalogueInv
<1> QED
  BY <1>1, InitCatalogue, StepCatalogue, PTL DEF CatalogueSpec

-----------------------------------------------------------------------------
(* Imports of exploit links.  While no two imports met, the only one in    *)
(* flight has read the rows as they are.                                   *)
Import == {"op", "left", "seen", "put", "twice"}

Reading(r) ==
    /\ r = [f \in Import |-> r[f]]
    /\ DOMAIN r.put = DOMAIN r.seen
    /\ \A e \in DOMAIN r.seen : r.seen[e] = exploit[e]

XdbInv ==
    /\ request = [h \in Handlers |-> request[h]]
    /\ exploit = [e \in Exploits |-> exploit[e]]
    /\ wanted = [e \in Exploits |-> wanted[e]]
    /\ ~crossed => /\ exploit = wanted
                   /\ \A g, h \in Handlers : ~Free(g) /\ ~Free(h) => g = h
                   /\ \A h \in Handlers : ~Free(h) => Reading(request[h])

LEMMA InitXdb == XdbInit => XdbInv
  BY DEF XdbInit, XdbInv, AllIdle, Free

(* The import of h goes on with r, the rows stay.                          *)
LEMMA ImportReads ==
    ASSUME XdbInv, NEW h \in Handlers, NEW r, Goto(h, r), UNCHANGED <<exploit, wanted>>,
           ~crossed' => /\ ~crossed
                        /\ \A g \in Handlers \ {h} : Free(g)
                        /\ r # Idle => Reading(r)
    PROVE  XdbInv'
<1>1. /\ request' = [g \in Handlers |-> request'[g]]
      /\ request'[h] = r
      /\ \A g \in Handlers \ {h} : request'[g] = request[g]
  BY OneMoves DEF XdbInv
<1>2. CASE crossed'
  BY <1>1, <1>2 DEF XdbInv
<1>3. CASE ~crossed'
  <2>1. \A g \in Handlers : ~Free(g)' => g = h
    BY <1>1, <1>3 DEF Free
  <2>2. ~Free(h)' => Reading(request[h])'
    BY <1>1, <1>3 DEF Free, Reading
  <2> QED
    BY <1>1, <1>3, <2>1, <2>2 DEF XdbInv
<1> QED
  BY <1>2, <1>3

LEMMA StartImportInv ==
    ASSUME XdbInv, NEW h \in Handlers, NEW file \in File, StartImport(h, file)
    PROVE  XdbInv'
<1> PICK r : r = [op |-> "import", left |-> file, seen |-> <<>>, put |-> <<>>,
                  twice |-> FALSE]
  OBVIOUS
<1>1. r = [f \in Import |-> r[f]] /\ r.put = <<>> /\ r.seen = <<>>
  BY DEF Import
<1>2. DOMAIN r.seen = {} /\ DOMAIN r.put = {}
  BY <1>1
<1>3. Reading(r)
  BY <1>1, <1>2 DEF Reading
<1> QED
  BY <1>3, ImportReads DEF StartImport

LEMMA ReadRecordInv ==
    ASSUME XdbInv, NEW h \in Handlers, ReadRecord(h)
    PROVE  XdbInv'
<1> DEFINE q == request[h]
           e == Head(q.left)[1]
           again == e \in DOMAIN q.seen
<1> PICK r : r = [q EXCEPT !.left = Tail(@),
                           !.put = With(@, e, Head(q.left)[2]),
                           !.seen = IF again THEN @ ELSE With(@, e, exploit[e]),
                           !.twice = @ \/ (again /\ q.seen[e] = Null)]
  OBVIOUS
<1>1. /\ Goto(h, r) /\ ~Free(h)
      /\ UNCHANGED <<exploit, wanted, crossed>>
  BY DEF ReadRecord, Doing, Free, Idle
<1>2. ASSUME ~crossed PROVE Reading(r)
  <2>1. Reading(q)
    BY <1>1, <1>2 DEF XdbInv
  <2>2. /\ r = [f \in Import |-> r[f]]
        /\ r.put = With(q.put, e, Head(q.left)[2])
        /\ r.seen = IF again THEN q.seen ELSE With(q.seen, e, exploit[e])
    BY <2>1 DEF Reading, Import
  <2> HIDE DEF q, e
  <2>3. DOMAIN r.put = DOMAIN q.put \cup {e}
    BY <2>2 DEF With
  <2>4. /\ DOMAIN r.seen = DOMAIN q.seen \cup {e}
        /\ \A x \in DOMAIN r.seen : r.seen[x] = exploit[x]
    BY <2>1, <2>2 DEF With, Reading
  <2> QED
    BY <2>1, <2>2, <2>3, <2>4 DEF Reading
<1>3. ~crossed => \A g \in Handlers \ {h} : Free(g)
  BY <1>1 DEF XdbInv
<1> QED
  BY <1>1, <1>2, <1>3, ImportReads

(* The rows that are not written are those that say it already.            *)
LEMMA CommitImportInv ==
    ASSUME XdbInv, NEW h \in Handlers, CommitImport(h)
    PROVE  XdbInv'
<1> DEFINE r == request[h]
<1>1. Goto(h, Idle) /\ ~Free(h) /\ crossed' = crossed
  BY DEF CommitImport, Finish, Doing, Free, Idle
<1>2. ~crossed => \A g \in Handlers \ {h} : Free(g)
  BY <1>1 DEF XdbInv
<1>3. CASE Refused(r)
  BY <1>1, <1>2, <1>3, ImportReads DEF CommitImport
<1>4. CASE ~Refused(r)
  <2>1. /\ exploit' = [e \in Exploits |->
               IF e \in DOMAIN r.put /\ r.seen[e] # r.put[e] THEN r.put[e] ELSE exploit[e]]
        /\ wanted' = [e \in Exploits |->
               IF e \in DOMAIN r.put THEN r.put[e] ELSE wanted[e]]
    BY <1>4 DEF CommitImport
  <2>2. /\ request' = [g \in Handlers |-> request'[g]]
        /\ request'[h] = Idle
        /\ \A g \in Handlers \ {h} : request'[g] = request[g]
    BY <1>1, OneMoves DEF XdbInv
  <2>3. ASSUME ~crossed PROVE exploit' = wanted'
    <3>1. Reading(r) /\ exploit = wanted
      BY <1>1, <2>3 DEF XdbInv
    <3>2. \A e \in Exploits : exploit'[e] = wanted'[e]
      BY <2>1, <3>1 DEF Reading
    <3> QED
      BY <2>1, <3>2
  <2>4. ~crossed => \A g \in Handlers : Free(g)'
    BY <1>2, <2>2 DEF Free
  <2> QED
    BY <1>1, <2>1, <2>2, <2>3, <2>4 DEF XdbInv
<1> QED
  BY <1>3, <1>4

LEMMA StepXdb == XdbInv /\ [XdbNext]_xdbVars => XdbInv'
<1> SUFFICES ASSUME XdbInv, [XdbNext]_xdbVars PROVE XdbInv'
  OBVIOUS
<1>1. ASSUME NEW h \in Handlers, AbortImport(h) PROVE XdbInv'
  <2>1. Goto(h, Idle) /\ ~Free(h) /\ UNCHANGED <<exploit, wanted, crossed>>
    BY <1>1 DEF AbortImport, Finish
  <2>2. ~crossed => \A g \in Handlers \ {h} : Free(g)
    BY <2>1 DEF XdbInv
  <2> QED
    BY <2>1, <2>2, ImportReads
<1>2. CASE UNCHANGED xdbVars
  BY <1>2 DEF xdbVars, XdbInv, Free, Reading
<1> QED
  BY <1>1, <1>2, StartImportInv, ReadRecordInv, CommitImportInv DEF XdbNext

(* Each exploit says what the last accepted file said of it, for files of  *)
(* any length, unless two imports were ever under way at once.             *)
THEOREM LastFileIsKept == XdbSpec => []LastFileWins
<1>1. XdbInv => LastFileWins
  BY DEF XdbInv, LastFileWins
<1> QED
  BY <1>1, InitXdb, StepXdb, PTL DEF XdbSpec

-----------------------------------------------------------------------------
(* EPSS scores.  While no two syncs met and only one kind of feed was used *)
(* the table and what a sync adds to it are in order, no later than its    *)
(* day, but for the CVEs in ex; with the mock alone each other CVE that    *)
(* has a score has the old one too, so that no old score comes after a     *)
(* newer one.                                                              *)
Row == [cve : Cves, day : Nat]

Mixed == "mock" \in feeds /\ "live" \in feeds

Syncing(h) == Doing(h, "mock") \/ Doing(h, "live")

InOrder(s, ex) ==
    \A i, j \in DOMAIN s :
        i < j /\ s[i].cve = s[j].cve /\ s[i].cve \notin ex => s[i].day < s[j].day

UpTo(s, day) == \A i \in DOMAIN s : s[i].day <= day

Has(s, c) == \E j \in DOMAIN s : s[j] = [cve |-> c, day |-> Generation0]

Grounded(s, ex) == \A i \in DOMAIN s : s[i].cve \notin ex => Has(s, s[i].cve)

NoneOf(s, c, day) == \A i \in DOMAIN s : s[i].cve = c => s[i].day # day

Earlier(s, c, day) == \A i \in DOMAIN s : s[i].cve = c => s[i].day < day

More(s, x) == s \o <<x>>

(* The table s with its newest day and the kinds of feed that were used.    *)
Table(s, ex, day, kinds) ==
    /\ s \in Seq(Row) /\ InOrder(s, ex) /\ UpTo(s, day)
    /\ "live" \notin kinds => Grounded(s, ex)

MockFields == {"op", "day", "gen", "left", "adds", "missed"}
LiveFields == {"op", "day", "adds", "batch"}

Whole(r) ==
    /\ r.op = "mock" => r = [f \in MockFields |-> r[f]]
    /\ r.op = "live" => r = [f \in LiveFields |-> r[f]]

(* In the first loop only old rows were added, in the second every CVE has *)
(* its old row or was missed; neither added a row for a CVE still to come. *)
LoopInv(r) ==
    /\ r.gen \in {Generation0, r.day}
    /\ r.left \subseteq Sample
    /\ \A i \in DOMAIN r.adds : r.adds[i].cve \in r.left => r.adds[i].day # r.gen
    /\ r.gen = Generation0 => \A i \in DOMAIN r.adds : r.adds[i].day = Generation0
    /\ \A c \in Sample : \/ r.gen = Generation0 /\ c \in r.left
                         \/ c \in r.missed \/ Has(scores \o r.adds, c)

Prepared(r) ==
    /\ r.day \in Nat /\ 1 <= r.day /\ r.day <= today
    /\ r.adds \in Seq(Row)
    /\ Table(scores \o r.adds, askew, r.day, feeds)
    /\ r.op = "mock" => LoopInv(r)

Ordered ==
    /\ Table(scores, askew, today, feeds)
    /\ \A g, h \in Handlers : Syncing(g) /\ Syncing(h) => g = h
    /\ \A h \in Handlers : Syncing(h) => Prepared(request[h])

EpssInv ==
    /\ request = [h \in Handlers |-> request[h]]
    /\ today \in Nat \ {0}
    /\ feeds \subseteq {"mock", "live"}
    /\ \A h \in Handlers : /\ Whole(request[h])
                           /\ Doing(h, "mock") => "mock" \in feeds
                           /\ Doing(h, "live") => "live" \in feeds
    /\ ~overlapped /\ ~Mixed => Ordered

(* A row at the end of a sequence.                                         *)
LEMMA OneMore ==
    ASSUME NEW s \in Seq(Row), NEW x \in Row, NEW t, t = s \o <<x>>
    PROVE  /\ t \in Seq(Row) /\ Len(s) \in Nat
           /\ DOMAIN s = 1..Len(s) /\ DOMAIN t = 1..(Len(s) + 1)
           /\ \A i \in DOMAIN s : t[i] = s[i]
           /\ t[Len(s) + 1] = x
<1>1. <<x>> \in Seq(Row) /\ Len(<<x>>) = 1 /\ <<x>>[1] = x
  OBVIOUS
<1>2. /\ t \in Seq(Row) /\ Len(t) = Len(s) + 1
      /\ \A i \in 1..Len(s) + Len(<<x>>) :
            t[i] = IF i <= Len(s) THEN s[i] ELSE <<x>>[i - Len(s)]
  BY <1>1, ConcatProperties
<1>3. /\ Len(s) \in Nat /\ DOMAIN s = 1..Len(s) /\ DOMAIN t = 1..(Len(s) + 1)
  BY <1>2
<1>4. \A i \in DOMAIN s : t[i] = s[i]
  BY <1>1, <1>2, <1>3
<1>5. t[Len(s) + 1] = x
  <2>1. Len(s) + 1 \in 1..Len(s) + Len(<<x>>) /\ ~(Len(s) + 1 <= Len(s))
        /\ Len(s) + 1 - Len(s) = 1
    BY <1>1, <1>3
  <2> QED
    BY <1>1, <1>2, <2>1
<1> QED
  BY <1>2, <1>3, <1>4, <1>5

(* A row later than every row of its CVE, or of a CVE in ex, keeps the     *)
(* order; one whose CVE has its old row, or an old row, keeps the ground.  *)
LEMMA TableGrows ==
    ASSUME NEW s, NEW ex, NEW day \in Nat, NEW kinds, Table(s, ex, day, kinds),
           NEW x \in Row, x.day <= day, NEW ey, ex \subseteq ey,
           x.cve \in ey \/ Earlier(s, x.cve, x.day),
           "live" \notin kinds => x.cve \in ey \/ x.day = Generation0 \/ Has(s, x.cve)
    PROVE  /\ Table(More(s, x), ey, day, kinds)
           /\ \A c : Has(s, c) => Has(More(s, x), c)
           /\ x.day = Generation0 => Has(More(s, x), x.cve)
<1>0. PICK n, t : n = Len(s) /\ t = More(s, x)
  OBVIOUS
<1>1. /\ t \in Seq(Row) /\ n \in Nat /\ DOMAIN s = 1..n /\ DOMAIN t = 1..(n + 1)
      /\ \A i \in DOMAIN s : t[i] = s[i]
      /\ t[n + 1] = x
  BY <1>0, OneMore DEF Table, More
<1>2. \A i \in DOMAIN t : i \in DOMAIN s \/ i = n + 1
  BY <1>1
<1>3. InOrder(t, ey)
  <2> SUFFICES ASSUME NEW i \in DOMAIN t, NEW j \in DOMAIN t, i < j,
                      t[i].cve = t[j].cve, t[i].cve \notin ey
               PROVE  t[i].day < t[j].day
    BY DEF InOrder
  <2>1. i \in DOMAIN s
    BY <1>1
  <2>2. CASE j \in DOMAIN s
    BY <1>1, <2>1, <2>2 DEF InOrder, Table
  <2>3. CASE j = n + 1
    BY <1>1, <2>1, <2>3 DEF Earlier
  <2> QED
    BY <1>2, <2>2, <2>3
<1>4. UpTo(t, day)
  BY <1>1, <1>2 DEF UpTo, Table
<1>5. \A c : Has(s, c) => Has(t, c)
  BY <1>1 DEF Has
<1>6. x = [cve |-> x.cve, day |-> x.day]
  BY DEF Row
<1>7. x.day = Generation0 => Has(t, x.cve)
  BY <1>1, <1>6 DEF Has
<1>8. ASSUME "live" \notin kinds PROVE Grounded(t, ey)
  BY <1>1, <1>2, <1>5, <1>7, <1>8 DEF Grounded, Table
<1> QED
  BY <1>0, <1>1, <1>3, <1>4, <1>5, <1>7, <1>8 DEF Table

(* Rows that are no later than one day are no later than the next, and a   *)
(* table in order is so with more CVEs left out.                           *)
LEMMA TableLater ==
    ASSUME NEW s, NEW ex, NEW ey, NEW day \in Nat, NEW later \in Nat, NEW kinds,
           day <= later, ex \subseteq ey, Table(s, ex, day, kinds)
    PROVE  Table(s, ey, later, kinds)
<1>1. \A i \in DOMAIN s : s[i] \in Row
  BY DEF Table
<1>2. \A i \in DOMAIN s : s[i].day \in Nat /\ s[i].day <= day
  BY <1>1 DEF Row, UpTo, Table
<1>3. UpTo(s, later)
  BY <1>2 DEF UpTo
<1> QED
  BY <1>3 DEF Table, InOrder, Grounded

(* A handler goes on with r.                                               *)
LEMMA SyncMoves ==
    ASSUME EpssInv, NEW h \in Handlers, NEW r, Goto(h, r), Whole(r),
           today' \in Nat \ {0},
           feeds' \subseteq {"mock", "live"}, feeds \subseteq feeds',
           r.op \in {"mock", "live"} => r.op \in feeds',
           ~overlapped' /\ ~Mixed' =>
              /\ Table(scores, askew, today, feeds)'
              /\ r.op \in {"mock", "live"} => Prepared(r)'
              /\ \/ \A g \in Handlers \ {h} : ~Syncing(g)
                 \/ /\ r.op \notin {"mock", "live"} /\ Ordered
                    /\ UNCHANGED <<scores, today, feeds, askew>>
    PROVE  EpssInv'
<1>1. /\ request' = [g \in Handlers |-> request'[g]]
      /\ request'[h] = r
      /\ \A g \in Handlers \ {h} : request'[g] = request[g]
  BY OneMoves DEF EpssInv
<1>2. /\ Syncing(h)' <=> r.op \in {"mock", "live"}
      /\ \A g \in Handlers \ {h} : Syncing(g)' <=> Syncing(g)
  BY <1>1 DEF Syncing, Doing
<1>3. \A g \in Handlers : /\ Whole(request[g])'
                          /\ Doing(g, "mock")' => "mock" \in feeds'
                          /\ Doing(g, "live")' => "live" \in feeds'
  BY <1>1 DEF EpssInv, Doing, Whole
<1>5. ASSUME ~overlapped', ~Mixed' PROVE Ordered'
  <2>1. CASE \A g \in Handlers \ {h} : ~Syncing(g)
    <3>1. \A g \in Handlers : Syncing(g)' => g = h
      BY <1>2, <2>1
    <3>2. Syncing(h)' => Prepared(request[h])'
      BY <1>1, <1>2, <1>5 DEF Prepared, LoopInv
    <3> QED
      BY <1>5, <3>1, <3>2 DEF Ordered
  <2>2. CASE r.op \notin {"mock", "live"} /\ Ordered /\ UNCHANGED <<scores, today, feeds, askew>>
    <3>1. \A g \in Handlers : Syncing(g)' => g # h /\ Syncing(g) /\ request'[g] = request[g]
      BY <1>1, <1>2, <2>2
    <3>2. ASSUME NEW g \in Handlers, Syncing(g)' PROVE Prepared(request[g])'
      <4>1. Prepared(request[g]) /\ request'[g] = request[g]
        BY <2>2, <3>1, <3>2 DEF Ordered
      <4> QED
        BY <2>2, <4>1 DEF Prepared, LoopInv
    <3>3. \A f, g \in Handlers : Syncing(f)' /\ Syncing(g)' => f = g
      BY <2>2, <3>1 DEF Ordered
    <3> QED
      BY <1>5, <3>2, <3>3 DEF Ordered
  <2> QED
    BY <1>5, <2>1, <2>2
<1> QED
  BY <1>1, <1>3, <1>5 DEF EpssInv

LEMMA InitEpss == CatalogueInit /\ EpssInit => EpssInv
<1> SUFFICES ASSUME CatalogueInit, EpssInit PROVE EpssInv
  OBVIOUS
<1>1. /\ request = [h \in Handlers |-> Idle]
      /\ scores = <<>> /\ today = 1 /\ feeds = {}
  BY DEF CatalogueInit, EpssInit, AllIdle
<1>2. \A h \in Handlers : ~Doing(h, "mock") /\ ~Doing(h, "live") /\ Whole(request[h])
  BY <1>1 DEF Doing, Idle, Whole
<1>4. DOMAIN scores = {} /\ scores \in Seq(Row)
  BY <1>1
<1>5. Ordered
  BY <1>2, <1>4 DEF Ordered, Table, InOrder, UpTo, Grounded, Syncing
<1> QED
  BY <1>1, <1>2, <1>5 DEF EpssInv

(* Others are not syncing beside h.                                        *)
LEMMA AloneWith ==
    ASSUME EpssInv, NEW h \in Handlers, Syncing(h), ~overlapped, ~Mixed
    PROVE  /\ Ordered /\ Prepared(request[h])
           /\ \A g \in Handlers \ {h} : ~Syncing(g)
  BY DEF EpssInv, Ordered

(* A sync begins with nothing to add.                                      *)
LEMMA StartInv ==
    ASSUME EpssInv, NEW h \in Handlers, NEW kind \in {"mock", "live"}, StartSync(h, kind),
           NEW r, Goto(h, r), r.op = kind, r.day = today, r.adds = <<>>, Whole(r),
           kind = "mock" => r.gen = Generation0 /\ r.left = Sample,
           UNCHANGED <<scores, today>>
    PROVE  EpssInv'
<1>1. /\ feeds' = feeds \cup {kind} /\ askew' = askew
      /\ overlapped' = (overlapped \/ \E g \in Handlers \ {h} : request[g].op \in {"mock", "live"})
  BY DEF StartSync
<1>2. today \in Nat \ {0} /\ feeds \subseteq {"mock", "live"}
  BY DEF EpssInv
<1>3. ASSUME ~overlapped', ~Mixed'
      PROVE  /\ Table(scores, askew, today, feeds)'
             /\ Prepared(r)'
             /\ \A g \in Handlers \ {h} : ~Syncing(g)
  <2>1. ~Mixed /\ ("live" \notin feeds' => "live" \notin feeds)
    BY <1>1, <1>3 DEF Mixed
  <2>2. ~overlapped /\ \A g \in Handlers \ {h} : request[g].op \notin {"mock", "live"}
    BY <1>1, <1>3
  <2>3. Ordered
    BY <2>1, <2>2 DEF EpssInv
  <2>4. Table(scores, askew, today, feeds) /\ scores \in Seq(Row)
    BY <2>3 DEF Ordered, Table
  <2>5. Table(scores, askew, today, feeds')
    BY <2>1, <2>4 DEF Table
  <2>6. scores \o <<>> = scores /\ <<>> \in Seq(Row) /\ DOMAIN r.adds = {}
    BY <2>4, ConcatEmptySeq
  <2>7. (r.op = "mock" => LoopInv(r)')
    BY <2>6, CatalogueAssumption DEF LoopInv
  <2>8. Prepared(r)'
    BY <1>1, <1>2, <2>5, <2>6, <2>7 DEF Prepared
  <2>9. \A g \in Handlers \ {h} : ~Syncing(g)
    BY <2>2 DEF Syncing, Doing
  <2> QED
    BY <1>1, <2>5, <2>8, <2>9
<1> QED
  BY <1>1, <1>2, <1>3, SyncMoves

(* What was prepared becomes the table.                                    *)
LEMMA CommitSyncInv ==
    ASSUME EpssInv, NEW h \in Handlers, Syncing(h), Finish(h),
           scores' = scores \o request[h].adds,
           UNCHANGED <<cves, today, history>>
    PROVE  EpssInv'
<1>1. Goto(h, Idle) /\ Idle.op \notin {"mock", "live"} /\ Whole(Idle)
  BY DEF Finish, Idle, Whole
<1>2. /\ today \in Nat \ {0} /\ feeds \subseteq {"mock", "live"}
      /\ UNCHANGED <<feeds, overlapped, askew, today>>
  BY DEF EpssInv, history
<1>3. ASSUME ~overlapped', ~Mixed'
      PROVE  /\ Table(scores, askew, today, feeds)'
             /\ \A g \in Handlers \ {h} : ~Syncing(g)
  <2>1. ~overlapped /\ ~Mixed
    BY <1>2, <1>3 DEF Mixed
  <2>2. Prepared(request[h]) /\ \A g \in Handlers \ {h} : ~Syncing(g)
    BY <2>1, AloneWith
  <2>3. PICK s, day, kinds : /\ s = scores' /\ day = request[h].day
                             /\ kinds = feeds
    OBVIOUS
  <2>4. Table(s, askew, day, kinds) /\ day \in Nat /\ day <= today
    BY <2>2, <2>3 DEF Prepared
  <2>5. Table(s, askew, today, kinds)
    BY <1>2, <2>4, TableLater
  <2> QED
    BY <1>2, <2>2, <2>3, <2>5
<1> QED
  BY <1>1, <1>2, <1>3, SyncMoves

(* A live sync that gives way to the mock has used both.                   *)
LEMMA FallBackInv ==
    ASSUME EpssInv, NEW h \in Handlers, FallBack(h)
    PROVE  EpssInv'
<1> PICK r : r = MockSync(request[h].adds)
  OBVIOUS
<1>1. /\ Goto(h, r) /\ UNCHANGED <<scores, today>>
      /\ feeds' = feeds \cup {"mock"} /\ "live" \in feeds
  BY DEF FallBack, EpssInv
<1>2. today \in Nat \ {0} /\ feeds \subseteq {"mock", "live"}
  BY DEF EpssInv
<1>3. Mixed' /\ r.op = "mock" /\ Whole(r)
  BY <1>1 DEF Mixed, MockSync, Whole, MockFields
<1> QED
  BY <1>1, <1>2, <1>3, SyncMoves

(* A row added to what is to be added comes last.                          *)
LEMMA JoinsLast ==
    ASSUME NEW s \in Seq(Row), NEW adds \in Seq(Row), NEW x \in Row
    PROVE  /\ More(adds, x) \in Seq(Row)
           /\ s \o More(adds, x) = More(s \o adds, x)
<1>1. <<x>> \in Seq(Row)
  OBVIOUS
<1> QED
  BY <1>1, ConcatAssociative, ConcatProperties DEF More

(* One row after the other: a row of s o t is one of s or one of t.        *)
LEMMA RowOf ==
    ASSUME NEW s \in Seq(Row), NEW t \in Seq(Row)
    PROVE  /\ s \o t \in Seq(Row)
           /\ \A i \in DOMAIN s : i \in DOMAIN (s \o t) /\ (s \o t)[i] = s[i]
           /\ \A j \in DOMAIN t : \E i \in DOMAIN (s \o t) : (s \o t)[i] = t[j]
           /\ \A i \in DOMAIN (s \o t) :
                 \/ i \in DOMAIN s /\ (s \o t)[i] = s[i]
                 \/ /\ i \notin DOMAIN s /\ i - Len(s) \in DOMAIN t
                    /\ (s \o t)[i] = t[i - Len(s)]
<1> PICK c : c = s \o t
  OBVIOUS
<1>1. /\ c \in Seq(Row) /\ Len(c) = Len(s) + Len(t)
      /\ \A i \in 1..Len(s) + Len(t) : c[i] = IF i <= Len(s) THEN s[i] ELSE t[i - Len(s)]
  BY ConcatProperties
<1>2. /\ DOMAIN c = 1..Len(s) + Len(t) /\ DOMAIN s = 1..Len(s) /\ DOMAIN t = 1..Len(t)
      /\ Len(s) \in Nat /\ Len(t) \in Nat
  BY <1>1
<1>3. \A i \in DOMAIN s : i \in DOMAIN c /\ c[i] = s[i]
  BY <1>1, <1>2
<1>4. ASSUME NEW j \in DOMAIN t PROVE \E i \in DOMAIN c : c[i] = t[j]
  <2>1. j + Len(s) \in 1..Len(s) + Len(t) /\ ~(j + Len(s) <= Len(s)) /\ j + Len(s) - Len(s) = j
    BY <1>2
  <2> QED
    BY <1>1, <1>2, <2>1
<1>5. ASSUME NEW i \in DOMAIN c
      PROVE  \/ i \in DOMAIN s /\ c[i] = s[i]
             \/ i \notin DOMAIN s /\ i - Len(s) \in DOMAIN t /\ c[i] = t[i - Len(s)]
  <2>1. CASE i <= Len(s)
    BY <1>1, <1>2, <2>1
  <2>2. CASE ~(i <= Len(s))
    BY <1>1, <1>2, <2>2
  <2> QED
    BY <2>1, <2>2
<1> QED
  BY <1>1, <1>3, <1>4, <1>5

(* A row of c and a day is neither in the table nor among the rows to add. *)
LEMMA NotYet ==
    ASSUME scores \in Seq(Row), NEW adds \in Seq(Row), NEW c, NEW day,
           ~Scored(c, day), NoneOf(adds, c, day)
    PROVE  NoneOf(scores \o adds, c, day)
<1>0. PICK all : all = scores \o adds
  OBVIOUS
<1> SUFFICES ASSUME NEW i \in DOMAIN all, all[i].cve = c, all[i].day = day PROVE FALSE
  BY <1>0 DEF NoneOf
<1>1. \/ i \in DOMAIN scores /\ all[i] = scores[i]
      \/ i - Len(scores) \in DOMAIN adds /\ all[i] = adds[i - Len(scores)]
  BY <1>0, RowOf
<1>2. CASE i \in DOMAIN scores /\ all[i] = scores[i]
  <2>1. scores[i] \in Row
    BY <1>2
  <2>2. scores[i] = [cve |-> c, day |-> day]
    BY <1>2, <2>1 DEF Row
  <2> QED
    BY <1>2, <2>2 DEF Scored
<1>3. CASE i - Len(scores) \in DOMAIN adds /\ all[i] = adds[i - Len(scores)]
  BY <1>3 DEF NoneOf
<1> QED
  BY <1>1, <1>2, <1>3

(* Then every row of c that is no later than the day is earlier.           *)
LEMMA AllEarlier ==
    ASSUME NEW all \in Seq(Row), NEW c, NEW day \in Nat, UpTo(all, day),
           NoneOf(all, c, day)
    PROVE  Earlier(all, c, day)
<1> SUFFICES ASSUME NEW i \in DOMAIN all, all[i].cve = c PROVE all[i].day < day
  BY DEF Earlier
<1>1. all[i] \in Row
  OBVIOUS
<1>2. all[i].day \in Nat /\ all[i].day <= day /\ all[i].day # day
  BY <1>1 DEF Row, UpTo, NoneOf
<1> QED
  BY <1>2

(* The row of a CVE and a day joins a table that has none of that day: it  *)
(* is the newest, or old and the first of its CVE.                         *)
LEMMA RowJoins ==
    ASSUME NEW all, NEW ex, NEW ey, ex \subseteq ey, NEW day \in Nat,
           NEW kinds, Table(all, ex, day, kinds),
           NEW x \in Row, x.day <= day,
           x.day = day \/ (x.day = Generation0 /\ "live" \notin kinds),
           x.cve \in ey \/ NoneOf(all, x.cve, x.day),
           "live" \notin kinds => x.cve \in ey \/ x.day = Generation0 \/ Has(all, x.cve)
    PROVE  /\ Table(More(all, x), ey, day, kinds)
           /\ \A d : Has(all, d) => Has(More(all, x), d)
           /\ x.day = Generation0 => Has(More(all, x), x.cve)
<1>1. all \in Seq(Row) /\ UpTo(all, day)
  BY DEF Table
<1>2. ASSUME x.cve \notin ey PROVE Earlier(all, x.cve, x.day)
  <2>1. CASE x.day = day
    BY <1>1, <1>2, <2>1, AllEarlier
  <2>2. CASE x.day = Generation0 /\ "live" \notin kinds
    <3>1. ~Has(all, x.cve)
      BY <1>2, <2>2 DEF Has, NoneOf
    <3>2. \A i \in DOMAIN all : all[i].cve # x.cve
      BY <1>2, <2>2, <3>1 DEF Table, Grounded
    <3> QED
      BY <3>2 DEF Earlier
  <2> QED
    BY <2>1, <2>2
<1> QED
  BY <1>2, TableGrows

(* What a loop owes, after a CVE whose row it did not add ...              *)
LEMMA LoopPasses ==
    ASSUME NEW q, LoopInv(q), scores \in Seq(Row), q.adds \in Seq(Row),
           NEW c \in Cves, NEW missed, q.missed \subseteq missed,
           q.gen = Generation0 => c \in missed \/ Scored(c, q.gen),
           NEW r, r.day = q.day, r.gen = q.gen, r.left = q.left \ {c},
           r.adds = q.adds, r.missed = missed
    PROVE  LoopInv(r)
<1>1. ASSUME Scored(c, Generation0) PROVE Has(scores \o q.adds, c)
  <2> PICK all : all = scores \o q.adds
    OBVIOUS
  <2>1. \A i \in DOMAIN scores : i \in DOMAIN all /\ all[i] = scores[i]
    BY RowOf
  <2> QED
    BY <1>1, <2>1 DEF Scored, Has
<1>2. q.gen = Generation0 => c \in missed \/ Has(scores \o q.adds, c)
  BY <1>1
<1> QED
  BY <1>2 DEF LoopInv

(* ... and after one whose row it added.                                   *)
LEMMA LoopAdds ==
    ASSUME NEW q, LoopInv(q), q.adds \in Seq(Row),
           NEW c \in Cves, NEW x \in Row, x.cve = c, x.day = q.gen,
           NEW r, r.day = q.day, r.gen = q.gen, r.left = q.left \ {c},
           r.adds = More(q.adds, x), q.missed \subseteq r.missed,
           \A d : Has(scores \o q.adds, d) => Has(scores \o r.adds, d),
           q.gen = Generation0 => Has(scores \o r.adds, c)
    PROVE  LoopInv(r)
<1> PICK prep, adds, gen : prep = q.adds /\ adds = r.adds /\ gen = q.gen
  OBVIOUS
<1>1. /\ DOMAIN prep = 1..Len(prep) /\ DOMAIN adds = 1..(Len(prep) + 1)
      /\ Len(prep) \in Nat
      /\ \A i \in DOMAIN prep : adds[i] = prep[i]
      /\ adds[Len(prep) + 1] = x
  BY OneMore DEF More
<1>2. \A i \in DOMAIN adds : (i \in DOMAIN prep /\ adds[i] = prep[i]) \/ adds[i] = x
  BY <1>1
<1>3. \A i \in DOMAIN adds : adds[i].cve \in r.left => adds[i].day # gen
  BY <1>2 DEF LoopInv
<1>4. gen = Generation0 => \A i \in DOMAIN adds : adds[i].day = Generation0
  BY <1>2 DEF LoopInv
<1> QED
  BY <1>3, <1>4 DEF LoopInv

(* A CVE of a loop of the mock.                                            *)
LEMMA MockRowInv ==
    ASSUME EpssInv, NEW h \in Handlers, NEW c \in Cves, MockRow(h, c)
    PROVE  EpssInv'
<1>0. PICK q, adds, missed, r :
          /\ q = request[h]
          /\ adds = q.adds \o RowsFor(c, q.gen)
          /\ missed = IF q.gen = Generation0 /\ c \notin cves
                      THEN q.missed \cup {c} ELSE q.missed
          /\ r = [q EXCEPT !.left = @ \ {c}, !.adds = adds, !.missed = missed]
  OBVIOUS
<1>1. /\ Goto(h, r) /\ q.op = "mock" /\ Syncing(h) /\ c \in q.left
      /\ askew' = IF q.gen # Generation0 /\ c \in cves \cap q.missed
                  THEN askew \cup {c} ELSE askew
      /\ UNCHANGED <<scores, today, feeds, overlapped>>
  BY <1>0 DEF MockRow, Doing, Syncing
<1>2. /\ today \in Nat \ {0} /\ feeds \subseteq {"mock", "live"} /\ "mock" \in feeds
      /\ Whole(q)
  BY <1>0, <1>1 DEF EpssInv, Doing
<1>3. /\ r.op = "mock" /\ r.day = q.day /\ r.gen = q.gen /\ r.left = q.left \ {c}
      /\ r.adds = adds /\ r.missed = missed /\ Whole(r)
  BY <1>0, <1>1, <1>2 DEF Whole, MockFields
<1>4. ASSUME ~overlapped, ~Mixed
      PROVE  /\ Table(scores, askew, today, feeds)'
             /\ Prepared(r)'
             /\ \A g \in Handlers \ {h} : ~Syncing(g)
  <2>1. Ordered /\ Prepared(q) /\ \A g \in Handlers \ {h} : ~Syncing(g)
    BY <1>0, <1>1, <1>4, AloneWith
  <2>2. PICK day, gen, prep, all, ey :
           /\ day = q.day /\ gen = q.gen /\ prep = q.adds
           /\ all = scores \o prep /\ ey = askew'
    OBVIOUS
  <2>10. "live" \notin feeds
    BY <1>2, <1>4 DEF Mixed
  <2>3. /\ day \in Nat /\ 1 <= day /\ day <= today /\ prep \in Seq(Row)
        /\ Table(all, askew, day, feeds) /\ LoopInv(q)
        /\ scores \in Seq(Row) /\ Table(scores, askew, today, feeds)
    BY <1>1, <2>1, <2>2, <2>10 DEF Prepared, Ordered, Table
  <2>4. /\ gen \in Nat /\ gen <= day /\ (gen = Generation0 \/ gen = day) /\ c \in Sample
    BY <1>1, <2>2, <2>3 DEF LoopInv, Generation0
  <2>5. askew \subseteq ey /\ q.missed \subseteq missed
    BY <1>0, <1>1, <2>2
  <2>6. Table(scores, ey, today, feeds) /\ Table(all, ey, day, feeds)
    <3>1. today \in Nat /\ today <= today /\ day <= day
      BY <1>2, <2>3
    <3> QED
      BY <2>3, <2>5, <3>1, TableLater
  <2>7. /\ ~Scored(c, gen) /\ c \in cves => RowsFor(c, gen) = <<[cve |-> c, day |-> gen]>>
        /\ Scored(c, gen) \/ c \notin cves => RowsFor(c, gen) = <<>>
    BY DEF RowsFor
  <2>8. CASE c \notin cves \/ Scored(c, gen)
    <3>1. adds = prep
      BY <1>0, <2>2, <2>3, <2>7, <2>8, ConcatEmptySeq
    <3>2. q.gen = Generation0 => c \in missed \/ Scored(c, q.gen)
      BY <1>0, <2>2, <2>8
    <3>3. r.adds = q.adds /\ q.adds \in Seq(Row)
      BY <1>3, <2>2, <2>3, <3>1
    <3>4. LoopInv(r)
      BY <1>3, <2>3, <2>5, <3>2, <3>3, LoopPasses
    <3>5. LoopInv(r)'
      BY <1>1, <3>4 DEF LoopInv
    <3> QED
      BY <1>1, <1>3, <2>1, <2>2, <2>3, <2>6, <2>10, <3>1, <3>5 DEF Prepared
  <2>9. CASE c \in cves /\ ~Scored(c, gen)
    <3>1. PICK x \in Row : x = [cve |-> c, day |-> gen]
      BY <2>4 DEF Row
    <3>2. /\ x.cve = c /\ x.day = gen /\ adds = More(prep, x)
          /\ prep \in Seq(Row) /\ scores \in Seq(Row)
      BY <1>0, <2>2, <2>3, <2>7, <2>9, <3>1 DEF More
    <3>3. adds \in Seq(Row) /\ scores \o adds = More(all, x)
      BY <2>2, <3>2, JoinsLast
    <3>4. NoneOf(all, c, gen)
      <4>1. NoneOf(prep, c, gen)
        BY <1>1, <2>2, <2>3 DEF LoopInv, NoneOf
      <4>2. ~Scored(c, gen) /\ all = scores \o prep
        BY <2>2, <2>9
      <4> QED
        BY <3>2, <4>1, <4>2, NotYet
    <3>5. c \in ey \/ gen = Generation0 \/ Has(all, c)
      BY <1>1, <2>2, <2>3, <2>4, <2>9 DEF LoopInv
    <3>6. /\ Table(More(all, x), ey, day, feeds)
          /\ \A d : Has(all, d) => Has(More(all, x), d)
          /\ gen = Generation0 => Has(More(all, x), c)
      <4>1. askew \subseteq ey /\ day \in Nat /\ Table(all, askew, day, feeds)
            /\ x.day <= day
        BY <2>3, <2>4, <2>5, <3>2
      <4>2. x.day = day \/ (x.day = Generation0 /\ "live" \notin feeds)
        BY <2>4, <2>10, <3>2
      <4>3. NoneOf(all, x.cve, x.day)
        BY <3>2, <3>4
      <4>4. "live" \notin feeds => x.cve \in ey \/ x.day = Generation0 \/ Has(all, x.cve)
        BY <3>2, <3>5
      <4>5. /\ Table(More(all, x), ey, day, feeds)
            /\ \A d : Has(all, d) => Has(More(all, x), d)
            /\ x.day = Generation0 => Has(More(all, x), x.cve)
        BY <4>1, <4>2, <4>3, <4>4, RowJoins
      <4> QED
        BY <3>2, <4>5
    <3>7. /\ q.adds \in Seq(Row) /\ x.day = q.gen /\ r.adds = More(q.adds, x)
          /\ q.missed \subseteq r.missed
          /\ \A d : Has(scores \o q.adds, d) => Has(scores \o r.adds, d)
          /\ q.gen = Generation0 => Has(scores \o r.adds, c)
      BY <1>3, <2>2, <2>3, <2>5, <3>2, <3>3, <3>6
    <3>8. LoopInv(r)
      BY <1>3, <2>3, <3>2, <3>7, LoopAdds
    <3>9. LoopInv(r)'
      BY <1>1, <3>8 DEF LoopInv
    <3>10. /\ Table(scores \o r.adds, ey, r.day, feeds) /\ r.adds \in Seq(Row)
           /\ r.day \in Nat /\ 1 <= r.day /\ r.day <= today
      BY <1>3, <2>2, <2>3, <3>3, <3>6
    <3> QED
      BY <1>1, <2>1, <2>2, <2>6, <3>9, <3>10 DEF Prepared
  <2> QED
    BY <2>8, <2>9
<1>5. ~overlapped' /\ ~Mixed' => ~overlapped /\ ~Mixed
  BY <1>1 DEF Mixed
<1>6. /\ today' \in Nat \ {0} /\ feeds' \subseteq {"mock", "live"} /\ feeds \subseteq feeds'
      /\ r.op \in feeds'
  BY <1>1, <1>2, <1>3
<1> QED
  BY <1>1, <1>3, <1>4, <1>5, <1>6, SyncMoves

(* The second loop begins: what was added so far is old.                   *)
LEMMA SecondLoopInv ==
    ASSUME EpssInv, NEW h \in Handlers, SecondLoop(h)
    PROVE  EpssInv'
<1> PICK q : q = request[h]
  OBVIOUS
<1> PICK r : r = [q EXCEPT !.gen = q.day, !.left = Sample]
  OBVIOUS
<1>1. /\ Goto(h, r) /\ q.op = "mock" /\ Syncing(h) /\ q.left = {} /\ q.gen = Generation0
      /\ UNCHANGED <<scores, today, feeds, overlapped, askew>>
  BY DEF SecondLoop, Doing, Syncing, history
<1>2. /\ today \in Nat \ {0} /\ feeds \subseteq {"mock", "live"} /\ "mock" \in feeds
      /\ Whole(q)
  BY <1>1 DEF EpssInv, Doing
<1>3. /\ r.op = "mock" /\ r.day = q.day /\ r.gen = q.day /\ r.left = Sample
      /\ r.adds = q.adds /\ r.missed = q.missed /\ Whole(r)
  BY <1>1, <1>2 DEF Whole, MockFields
<1>4. ASSUME ~overlapped, ~Mixed
      PROVE  /\ Table(scores, askew, today, feeds)'
             /\ Prepared(r)'
             /\ \A g \in Handlers \ {h} : ~Syncing(g)
  <2>1. Ordered /\ Prepared(q) /\ \A g \in Handlers \ {h} : ~Syncing(g)
    BY <1>1, <1>4, AloneWith
  <2>2. q.day # Generation0 /\ LoopInv(q)
    BY <1>1, <2>1 DEF Prepared, Generation0
  <2>3. LoopInv(r)
    BY <1>1, <1>3, <2>2 DEF LoopInv
  <2>4. Prepared(r)
    BY <1>3, <2>1, <2>3 DEF Prepared
  <2>5. Prepared(r)'
    BY <1>1, <2>4 DEF Prepared, LoopInv
  <2> QED
    BY <1>1, <2>1, <2>5 DEF Ordered
<1>5. ~overlapped' /\ ~Mixed' => ~overlapped /\ ~Mixed
  BY <1>1 DEF Mixed
<1>6. /\ today' \in Nat \ {0} /\ feeds' \subseteq {"mock", "live"} /\ feeds \subseteq feeds'
      /\ r.op \in feeds'
  BY <1>1, <1>2, <1>3
<1> QED
  BY <1>1, <1>3, <1>4, <1>5, <1>6, SyncMoves

(* A row of the feed: a CVE that comes twice in a batch is askew.          *)
LEMMA ScoreRowInv ==
    ASSUME EpssInv, NEW h \in Handlers, NEW c \in Cves, ScoreRow(h, c)
    PROVE  EpssInv'
<1>0. PICK q, adds, full, r :
          /\ q = request[h]
          /\ adds = q.adds \o RowsFor(c, q.day)
          /\ full = (q.batch + 1 = Batch)
          /\ r = [q EXCEPT !.batch = IF full THEN 0 ELSE @ + 1,
                           !.adds = IF full THEN <<>> ELSE adds]
  OBVIOUS
<1>1. /\ Goto(h, r) /\ q.op = "live" /\ Syncing(h)
      /\ scores' = IF full THEN scores \o adds ELSE scores
      /\ askew' = IF \E i \in DOMAIN q.adds : q.adds[i].cve = c
                  THEN askew \cup {c} ELSE askew
      /\ UNCHANGED <<today, feeds, overlapped>>
  BY <1>0 DEF ScoreRow, Doing, Syncing
<1>2. /\ today \in Nat \ {0} /\ feeds \subseteq {"mock", "live"} /\ "live" \in feeds
      /\ Whole(q)
  BY <1>0, <1>1 DEF EpssInv, Doing
<1>3. /\ r.op = "live" /\ r.day = q.day /\ r.adds = (IF full THEN <<>> ELSE adds)
      /\ Whole(r)
  BY <1>0, <1>1, <1>2 DEF Whole, LiveFields
<1>4. ASSUME ~overlapped, ~Mixed
      PROVE  /\ Table(scores, askew, today, feeds)'
             /\ Prepared(r)'
             /\ \A g \in Handlers \ {h} : ~Syncing(g)
  <2>1. Ordered /\ Prepared(q) /\ \A g \in Handlers \ {h} : ~Syncing(g)
    BY <1>0, <1>1, <1>4, AloneWith
  <2>2. PICK day, prep, all, ey, t :
           /\ day = q.day /\ prep = q.adds /\ all = scores \o prep
           /\ ey = askew' /\ t = scores \o adds
    OBVIOUS
  <2>3. /\ day \in Nat /\ 1 <= day /\ day <= today /\ prep \in Seq(Row)
        /\ Table(all, askew, day, feeds)
        /\ scores \in Seq(Row) /\ Table(scores, askew, today, feeds)
    BY <1>1, <2>1, <2>2 DEF Prepared, Ordered, Table
  <2>4. askew \subseteq ey
    BY <1>1, <2>2
  <2>5. Table(scores, ey, today, feeds) /\ Table(all, ey, day, feeds)
    <3>1. today \in Nat /\ today <= today /\ day <= day
      BY <1>2, <2>3
    <3> QED
      BY <2>3, <2>4, <3>1, TableLater
  <2>6. Table(t, ey, day, feeds) /\ adds \in Seq(Row)
    <3>1. /\ ~Scored(c, day) /\ c \in cves => RowsFor(c, day) = <<[cve |-> c, day |-> day]>>
          /\ Scored(c, day) \/ c \notin cves => RowsFor(c, day) = <<>>
      BY DEF RowsFor
    <3>2. CASE c \notin cves \/ Scored(c, day)
      <4>1. adds = prep
        BY <1>0, <2>2, <2>3, <3>1, <3>2, ConcatEmptySeq
      <4> QED
        BY <2>2, <2>3, <2>5, <4>1
    <3>3. CASE c \in cves /\ ~Scored(c, day)
      <4>1. PICK x \in Row : x = [cve |-> c, day |-> day]
        BY <2>3 DEF Row
      <4>2. /\ x.cve = c /\ x.day = day /\ adds = More(prep, x)
            /\ prep \in Seq(Row) /\ scores \in Seq(Row)
        BY <1>0, <2>2, <2>3, <3>1, <3>3, <4>1 DEF More
      <4>3. t = More(all, x) /\ adds \in Seq(Row)
        BY <2>2, <4>2, JoinsLast
      <4>4. c \in ey \/ NoneOf(all, c, day)
        <5>1. CASE \E i \in DOMAIN prep : prep[i].cve = c
          BY <1>1, <2>2, <5>1
        <5>2. CASE ~\E i \in DOMAIN prep : prep[i].cve = c
          <6>1. NoneOf(prep, c, day)
            BY <5>2 DEF NoneOf
          <6>2. ~Scored(c, day) /\ all = scores \o prep
            BY <2>2, <3>3
          <6> QED
            BY <4>2, <6>1, <6>2, NotYet
        <5> QED
          BY <5>1, <5>2
      <4>5. /\ Table(all, askew, day, feeds) /\ askew \subseteq ey
            /\ day \in Nat /\ x.day = day /\ x.day <= day /\ "live" \in feeds
        BY <1>2, <2>3, <2>4, <4>2
      <4>7. x.cve \in ey \/ NoneOf(all, x.cve, x.day)
        BY <4>2, <4>4
      <4>6. Table(More(all, x), ey, day, feeds)
        BY <4>5, <4>7, RowJoins
      <4> QED
        BY <4>3, <4>6
    <3> QED
      BY <3>2, <3>3
  <2>7. CASE full
    <3>1. Table(t, ey, today, feeds) /\ t \in Seq(Row)
      BY <1>2, <2>3, <2>6, TableLater DEF Table
    <3>2. t \o <<>> = t /\ <<>> \in Seq(Row)
      BY <3>1, ConcatEmptySeq
    <3>3. scores' = t /\ r.adds = <<>>
      BY <1>1, <1>3, <2>2, <2>7
    <3> QED
      BY <1>1, <1>2, <1>3, <2>1, <2>2, <2>3, <2>6, <3>1, <3>2, <3>3 DEF Prepared
  <2>8. CASE ~full
    <3>1. scores' = scores /\ r.adds = adds
      BY <1>1, <1>3, <2>8
    <3> QED
      BY <1>1, <1>2, <1>3, <2>1, <2>2, <2>3, <2>5, <2>6, <3>1 DEF Prepared
  <2> QED
    BY <2>7, <2>8
<1>5. ~overlapped' /\ ~Mixed' => ~overlapped /\ ~Mixed
  BY <1>1 DEF Mixed
<1>6. /\ today' \in Nat \ {0} /\ feeds' \subseteq {"mock", "live"} /\ feeds \subseteq feeds'
      /\ r.op \in feeds'
  BY <1>1, <1>2, <1>3
<1> QED
  BY <1>1, <1>3, <1>4, <1>5, <1>6, SyncMoves

(* A page of NVD writes its row, a job ends: no score changes.             *)
LEMMA PageInv ==
    ASSUME EpssInv, NEW h \in Handlers, NEW r, Goto(h, r), r.op \notin {"mock", "live"},
           UNCHANGED <<scores, today, history>>
    PROVE  EpssInv'
<1>1. /\ today \in Nat \ {0} /\ feeds \subseteq {"mock", "live"} /\ Whole(r)
      /\ UNCHANGED <<feeds, overlapped, askew>>
  BY DEF EpssInv, Whole, history
<1>2. ASSUME ~overlapped', ~Mixed' PROVE Ordered
  BY <1>1, <1>2 DEF EpssInv, Mixed
<1> QED
  BY <1>1, <1>2, SyncMoves DEF Ordered

(* Nothing changes, but for a day that passes.                             *)
LEMMA LaterInv ==
    ASSUME EpssInv, UNCHANGED <<request, scores, history>>,
           today' = today \/ today' = today + 1
    PROVE  EpssInv'
<1>1. UNCHANGED <<request, scores, feeds, overlapped, askew>>
  BY DEF history
<1>2. today \in Nat /\ today' \in Nat \ {0} /\ today <= today'
  BY DEF EpssInv
<1>3. ASSUME Ordered PROVE Ordered'
  <2> PICK now, kinds : now = today' /\ kinds = feeds
    OBVIOUS
  <2>1. Table(scores, askew, now, kinds)
    BY <1>2, <1>3, TableLater DEF Ordered
  <2>2. ASSUME NEW h \in Handlers, Syncing(h)' PROVE Prepared(request[h])'
    <3>1. Prepared(request[h])
      BY <1>1, <1>3, <2>2 DEF Ordered, Syncing, Doing
    <3> QED
      BY <1>1, <1>2, <3>1 DEF Prepared, LoopInv
  <2>3. \A g, h \in Handlers : Syncing(g)' /\ Syncing(h)' => g = h
    BY <1>1, <1>3 DEF Ordered, Syncing, Doing
  <2> QED
    BY <1>1, <2>1, <2>2, <2>3 DEF Ordered
<1> QED
  BY <1>1, <1>2, <1>3 DEF EpssInv, Doing, Whole, Mixed

LEMMA StepEpss == EpssInv /\ [EpssNext]_epssVars => EpssInv'
<1> SUFFICES ASSUME EpssInv, [EpssNext]_epssVars PROVE EpssInv'
  OBVIOUS
<1>1. ASSUME NEW h \in Handlers, StartMock(h) PROVE EpssInv'
  <2> PICK r : r = MockSync(<<>>)
    OBVIOUS
  <2>1. /\ StartSync(h, "mock") /\ Goto(h, r) /\ UNCHANGED <<scores, today>>
        /\ r.op = "mock" /\ r.day = today /\ r.adds = <<>> /\ Whole(r)
        /\ r.gen = Generation0 /\ r.left = Sample
    BY <1>1 DEF StartMock, MockSync, Whole, MockFields
  <2> QED
    BY <2>1, StartInv
<1>2. ASSUME NEW h \in Handlers, StartLive(h) PROVE EpssInv'
  <2> PICK r : r = [op |-> "live", day |-> today, adds |-> <<>>, batch |-> 0]
    OBVIOUS
  <2>1. /\ StartSync(h, "live") /\ Goto(h, r) /\ UNCHANGED <<scores, today>>
        /\ r.op = "live" /\ r.day = today /\ r.adds = <<>> /\ Whole(r)
    BY <1>2 DEF StartLive, Whole, LiveFields
  <2> QED
    BY <2>1, StartInv
<1>3. ASSUME NEW h \in Handlers, CommitMock(h) PROVE EpssInv'
  BY <1>3, CommitSyncInv DEF CommitMock, Syncing
<1>4. ASSUME NEW h \in Handlers, CommitLive(h) PROVE EpssInv'
  BY <1>4, CommitSyncInv DEF CommitLive, Syncing
<1>5. ASSUME NEW h \in Handlers, CommitPage(h), UNCHANGED <<scores, today, history>>
      PROVE  EpssInv'
  <2>1. Goto(h, Idle) \/ Goto(h, [op |-> "nvd"])
    BY <1>5 DEF CommitPage, Finish
  <2>2. Idle.op \notin {"mock", "live"} /\ [op |-> "nvd"].op \notin {"mock", "live"}
    BY DEF Idle
  <2> QED
    BY <1>5, <2>1, <2>2, PageInv
<1>6. ASSUME NEW h \in Handlers, EndJob(h), UNCHANGED <<scores, today, history>>
      PROVE  EpssInv'
  <2>1. Goto(h, Idle) /\ Idle.op \notin {"mock", "live"}
    BY <1>6 DEF EndJob, Finish, Idle
  <2> QED
    BY <1>6, <2>1, PageInv
<1>7. ASSUME NEW h \in Handlers, NEW c \in Cves, ReadPage(h, c),
             UNCHANGED <<scores, today, history>>
      PROVE  EpssInv'
  <2>1. PICK r : r = [op |-> "page", cve |-> c, new |-> c \notin cves, flag |-> c \in flagged]
    OBVIOUS
  <2>2. Goto(h, r) /\ r.op \notin {"mock", "live"}
    BY <1>7, <2>1 DEF ReadPage
  <2> QED
    BY <1>7, <2>2, PageInv
<1>8. CASE UNCHANGED epssVars \/ Midnight
  <2>1. /\ UNCHANGED <<request, scores, history>>
        /\ today' = today \/ today' = today + 1
    BY <1>8 DEF epssVars, catalogueVars, Midnight
  <2> QED
    BY <2>1, LaterInv
<1>9. CASE EpssNext
  BY <1>1, <1>2, <1>3, <1>4, <1>5, <1>6, <1>7, <1>8, <1>9,
     MockRowInv, SecondLoopInv, FallBackInv, ScoreRowInv DEF EpssNext
<1> QED
  BY <1>8, <1>9

(* The current score of a CVE is its newest and the one before it an older *)
(* one: rows of a CVE are in the order of their days, for any number of    *)
(* rows, pages and days, unless syncs met, the kinds of feed were mixed,   *)
(* or a sync found the CVE in one loop and not in the other, or twice in   *)
(* one batch.                                                              *)
THEOREM ScoresStayInOrder == EpssSpec => []ScoresInOrder
<1>1. EpssInv => ScoresInOrder
  <2> SUFFICES ASSUME EpssInv, ~overlapped, Cardinality(feeds) <= 1
               PROVE  InOrder(scores, askew)
    BY DEF ScoresInOrder, InOrder
  <2>1. ~Mixed
    <3> SUFFICES ASSUME Mixed PROVE FALSE
      OBVIOUS
    <3>1. feeds = {"mock"} \cup {"live"} /\ "live" \notin {"mock"}
      BY DEF EpssInv, Mixed
    <3>2. IsFiniteSet({"mock"}) /\ Cardinality({"mock"}) = 1
      BY FS_Singleton
    <3>3. Cardinality(feeds) = 2
      BY <3>1, <3>2, FS_AddElement
    <3> QED
      BY <3>3
  <2> QED
    BY <2>1 DEF EpssInv, Ordered, Table
<1> QED
  BY <1>1, InitEpss, StepEpss, PTL DEF EpssSpec
=============================================================================
