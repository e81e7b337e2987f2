---------------------------- MODULE MCCatalogue ----------------------------
(* Model checking the vulnerability catalogue, one part in each behaviour: *)
(* KEV beside NVD pages, EPSS beside NVD pages, imports of exploits; and   *)
(* what is read of it, CVEQL queries and the pages of a search.            *)
EXTENDS Epss, Xdb, Cveql, Search, TLC

VARIABLE part

feedVars == <<epssVars, xdbVars>>

vars == <<feedVars, cveqlVars, searchVars, part>>

SomeShapes ==
    {[kev |-> 0, day |-> 2, linked |-> TRUE, epss |-> 1],
     [kev |-> 1, day |-> 1, linked |-> FALSE, epss |-> 2],
     [kev |-> 1, day |-> 0, linked |-> TRUE, epss |-> 0]}

(* Of the tables that are searched all contents are tried in the part that *)
(* searches them, and one in the others.                                   *)
NothingSearched ==
    /\ cve = <<>> /\ others = [bdu |-> <<>>, local |-> <<>>]
    /\ asked.sort = "id" /\ ~asked.kevOnly /\ ~asked.hasBdu
    /\ \A n \in PageSizes : asked.size <= n

Init ==
    /\ part \in {"kev", "epss", "xdb", "cveql", "search"}
    /\ CatalogueInit /\ EpssInit /\ XdbInit /\ CveqlInit /\ SearchInit
    /\ part # "search" => NothingSearched

Feeds ==
    /\ \/ part = "epss" /\ EpssNext
       \/ part # "epss" /\ UNCHANGED <<scores, today, history>>
    /\ \/ part = "kev" /\ CatalogueNext
       \/ part = "xdb" /\ UNCHANGED <<cves, flagged, kev, listed>>
       \/ part = "epss"
    /\ \/ part = "xdb" /\ XdbNext
       \/ part # "xdb" /\ UNCHANGED <<exploit, wanted, crossed>>

Next ==
    /\ UNCHANGED part
    /\ \/ part \in {"kev", "epss", "xdb"} /\ Feeds /\ UNCHANGED <<cveqlVars, searchVars>>
       \/ part = "cveql" /\ CveqlNext /\ UNCHANGED <<feedVars, searchVars>>
       \/ part = "search" /\ SearchNext /\ UNCHANGED <<feedVars, cveqlVars>>

Spec == Init /\ [][Next]_vars

(* Behaviours are followed to the first overlap of two EPSS syncs, after   *)
(* which ScoresInOrder promises nothing, and to the first change of the    *)
(* result of a search, after which PagesMakeResult promises nothing.       *)
StillPromised == ~overlapped /\ ~changed
=============================================================================
