------------------------------- MODULE Search -------------------------------
(***************************************************************************)
(* Paging through the result of a search (services/search.py): CVEs, then  *)
(* BDU records, then local vulnerabilities, cut into pages.  A page counts *)
(* the rows first and fetches them afterwards.  Rows that do not match the *)
(* text, the severity or the dates are left out.                           *)
(***************************************************************************)
EXTENDS Naturals, Sequences, FiniteSets, SequencesExt

CONSTANTS
    CveIds,      \* numbers, in the order of the ids
    Shapes,      \* what a CVE row may look like: kev, day, linked, epss
    MaxOthers,   \* bound: BDU records, and local vulnerabilities, are 1..MaxOthers
    PageSizes

ASSUME SearchAssumption ==
    /\ CveIds \subseteq Nat /\ IsFiniteSet(CveIds) /\ MaxOthers \in Nat
    /\ Shapes \subseteq [kev : 0..1, day : Nat, linked : BOOLEAN, epss : Nat]
    /\ PageSizes \subseteq Nat \ {0}

VARIABLES
    cve,       \* rows of the table: shape by id; day and epss 0 stand for NULL
    others,    \* standalone BDU records and local vulnerabilities, newest first
    asked,     \* the parameters of the search
    page,      \* the page being read
    counted,   \* what the page has counted, <<>> before
    shown,     \* rows of the pages read so far
    changed    \* history: has the result changed since the first page?

searchVars == <<cve, others, asked, page, counted, shown, changed>>

(* Records in an order, each once.                                         *)
Lines ==
    {s \in UNION {[1..n -> 1..MaxOthers] : n \in 0..MaxOthers} : IsInjective(s)}

SearchInit ==
    /\ \E ids \in SUBSET CveIds : cve \in [ids -> Shapes]
    /\ others \in [bdu : Lines, local : Lines]
    /\ asked \in [kevOnly : BOOLEAN, hasBdu : BOOLEAN, size : PageSizes,
                  sort : {"published", "id", "epss"}]
    /\ page = 1 /\ counted = <<>> /\ shown = <<>> /\ changed = FALSE

(* Greater first, place by place.                                          *)
Precedes(a, b) == \E i \in DOMAIN a : a[i] > b[i] /\ \A j \in 1..(i - 1) : a[j] = b[j]

SortKey(c) ==
    IF asked.sort = "epss" THEN <<cve[c].day, c>> ELSE <<cve[c].kev, cve[c].day, c>>

Ordered(a, b) == IF asked.sort = "id" THEN a < b ELSE Precedes(SortKey(a), SortKey(b))

(* The elements of a set, each before those it comes before.               *)
Arranged(S, Before(_, _)) ==
    CHOOSE f \in [1..Cardinality(S) -> S] :
        \A i, j \in 1..Cardinality(S) : i < j => Before(f[i], f[j])

(* The CVEs that are found.                                                *)
Matching ==
    {c \in DOMAIN cve : /\ asked.kevOnly => cve[c].kev = 1
                        /\ asked.hasBdu => cve[c].linked}

CveBlock ==
    LET ids == Arranged(Matching, Ordered)
    IN  [i \in DOMAIN ids |-> <<"cve", ids[i]>>]

(* Neither is filtered by the flags: it is asked for or not.               *)
Others(kind) == [i \in DOMAIN others[kind] |-> <<kind, others[kind][i]>>]
BduBlock == IF asked.kevOnly THEN <<>> ELSE Others("bdu")
LocalBlock == IF asked.kevOnly \/ asked.hasBdu THEN <<>> ELSE Others("local")
Blocks == <<CveBlock, BduBlock, LocalBlock>>

Count ==
    /\ counted = <<>>
    /\ counted' = <<Len(CveBlock), Len(BduBlock), Len(LocalBlock)>>
    /\ UNCHANGED <<cve, others, asked, page, shown, changed>>

Smaller(a, b) == IF a < b THEN a ELSE b

(* Mistake: the next block is entered at the offset of the one before.     *)
TakeSkipping(w, block, total) ==
    IF w.need > 0 /\ w.offset < total
    THEN LET rows == SubSeq(block, w.offset + 1,
                            Smaller(w.offset + Smaller(w.need, total - w.offset), Len(block)))
         IN  [rows |-> w.rows \o rows, need |-> w.need - Len(rows), offset |-> w.offset]
    ELSE [w EXCEPT !.offset = IF @ > total THEN @ - total ELSE 0]

(* What a page takes from the next block, given what it still needs.       *)
Take(w, block, total) ==
    IF w.need > 0 /\ w.offset < total
    THEN LET rows == SubSeq(block, w.offset + 1,
                            Smaller(w.offset + Smaller(w.need, total - w.offset), Len(block)))
         IN  [rows |-> w.rows \o rows, need |-> w.need - Len(rows), offset |-> 0]
    ELSE [w EXCEPT !.offset = IF @ > total THEN @ - total ELSE 0]

(* With sort=epss the CVEs of a page are sorted anew, by their score.      *)
ByScore(rows) ==
    LET Score(i) == cve[rows[i][2]].epss
        Higher(i, j) == Precedes(<<Score(i), j>>, <<Score(j), i>>)
        order == Arranged(DOMAIN rows, Higher)
    IN  [i \in DOMAIN rows |-> rows[order[i]]]

Fetch ==
    /\ counted # <<>>
    /\ LET start == [rows |-> <<>>, need |-> asked.size, offset |-> (page - 1) * asked.size]
           cves == Take(start, CveBlock, counted[1])
           hits == IF asked.sort = "epss" THEN [cves EXCEPT !.rows = ByScore(@)] ELSE cves
           window == Take(Take(hits, BduBlock, counted[2]), LocalBlock, counted[3])
       IN  shown' = shown \o window.rows
    /\ page' = page + 1
    /\ counted' = <<>>
    /\ UNCHANGED <<cve, others, asked, changed>>

(* The reader goes on while the total says that there is more.             *)
Total == Len(CveBlock) + Len(BduBlock) + Len(LocalBlock)
More == (page - 1) * asked.size < Total

(* A CVE is added or rewritten: by a page of NVD (its day), a KEV list, a  *)
(* stub or links of a BDU import, or a score.                              *)
WriteCve ==
    /\ \E c \in CveIds, s \in Shapes :
          cve' = [x \in DOMAIN cve \cup {c} |-> IF x = c THEN s ELSE cve[x]]
    /\ UNCHANGED others

(* A BDU record is imported, for the first time or again: its updated_at   *)
(* gives it a new place, links to CVEs take it out of the list.  Another   *)
(* import may have been earlier with its clock and later with its commit.  *)
WriteBdu ==
    /\ \E r \in 1..MaxOthers, s \in Lines :
          Remove(s, r) = Remove(others.bdu, r) /\ others' = [others EXCEPT !.bdu = s]
    /\ UNCHANGED cve

AddLocal ==
    /\ \E r \in 1..MaxOthers \ ToSet(others.local), s \in Lines :
          Remove(s, r) = others.local /\ others' = [others EXCEPT !.local = s]
    /\ UNCHANGED cve

(* Writes that leave the result as it is do not count: rows that were not  *)
(* asked for, and rows rewritten in their place.                           *)
Write ==
    /\ WriteCve \/ WriteBdu \/ AddLocal
    /\ UNCHANGED <<asked, page, counted, shown>>
    /\ changed' = (changed \/ ((page > 1 \/ counted # <<>>) /\ Blocks' # Blocks))

SearchNext == (More /\ (Count \/ Fetch)) \/ Write

SearchSpec == SearchInit /\ [][SearchNext]_searchVars

-----------------------------------------------------------------------------
(* The pages read one after the other are the result, each row once and    *)
(* none missing: CVEs in their order, then BDU records, then local         *)
(* vulnerabilities, unless a write changed the result in between, by a row *)
(* that came, left or moved; what else is written meanwhile does no harm.  *)
(* With sort=epss the order holds within a page only.                      *)
PagesMakeResult ==
    ~changed /\ ~More =>
        LET result == CveBlock \o BduBlock \o LocalBlock IN
        IF asked.sort = "epss"
        THEN ToSet(shown) = ToSet(result) /\ Len(shown) = Len(result)
        ELSE shown = result
=============================================================================
