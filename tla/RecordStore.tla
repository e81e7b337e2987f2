---------------------------- MODULE RecordStore ----------------------------
(***************************************************************************)
(* What importing a BDU file promises those who read the catalogue: the    *)
(* records of a file are taken in their order, some at a time, and those   *)
(* taken together show at once, each with its own links and no others, and *)
(* with the CVEs it is linked to.  Nothing else changes a record or its    *)
(* links, and no CVE is lost.  BduImport is the detailed specification     *)
(* that implements this one, with any number of imports at work.           *)
(***************************************************************************)
EXTENDS Naturals

CONSTANTS Importers, Bdus, Cves, Files, Batch

VARIABLES
    source,     \* the file of each import
    entry,      \* the <<importer, position>> a record shows, <<>> if there is none
    linked,     \* the CVEs each record is linked to
    catalogue,  \* the CVEs there are
    taken       \* the positions of each file that were taken

vars == <<source, entry, linked, catalogue, taken>>

Init ==
    /\ source \in [Importers -> Files]
    /\ entry = [b \in Bdus |-> <<>>]
    /\ linked = [b \in Bdus |-> {}]
    /\ catalogue \in SUBSET Cves
    /\ taken = [i \in Importers |-> {}]

(* Where some of the records of a file say something of b, and the last    *)
(* word on it.                                                             *)
About(b, i, some) == {p \in some : source[i][p].id = b}
Latest(S) == CHOOSE p \in S : \A q \in S : q <= p
Listed(i, p) == {source[i][p].cves[k] : k \in DOMAIN source[i][p].cves}

(* Records between two commits, none of them behind one taken before.      *)
InOrder(i, some) ==
    /\ some # {}
    /\ \A p \in some : \A q \in taken[i] : q < p
    /\ \A p, q \in some : p < q + Batch

Take(i, some) ==
    /\ InOrder(i, some)
    /\ entry' = [b \in Bdus |->
          IF About(b, i, some) = {} THEN entry[b] ELSE <<i, Latest(About(b, i, some))>>]
    /\ linked' = [b \in Bdus |->
          IF About(b, i, some) = {} THEN linked[b] ELSE Listed(i, Latest(About(b, i, some)))]
    /\ taken' = [taken EXCEPT ![i] = @ \cup some]

(* The catalogue grows, and has every CVE a record is linked to.           *)
Complete ==
    /\ catalogue' \in SUBSET Cves /\ catalogue \subseteq catalogue'
    /\ \A b \in Bdus : linked'[b] \subseteq catalogue'

Next ==
    /\ \/ \E i \in Importers : \E some \in SUBSET DOMAIN source[i] : Take(i, some)
       \/ UNCHANGED <<entry, linked, taken>>
    /\ Complete
    /\ UNCHANGED source

Spec == Init /\ [][Next]_vars
=============================================================================
