----------------------------- MODULE Catalogue ------------------------------
(***************************************************************************)
(* The CVE catalogue beside the list of known exploited vulnerabilities    *)
(* (services/nvd_sync.py, services/kev_sync.py): an NVD job writes CVE rows *)
(* page by page and ends with a KEV run; a KEV run stores the list and     *)
(* flags the CVEs it finds, all in one commit.  Handlers are the jobs that *)
(* workers execute, and the seed.  Rows of either table are never deleted. *)
(***************************************************************************)
EXTENDS Requests, FiniteSets

CONSTANTS
    Cves,
    Sample   \* ids on the list that is used when the feed cannot be had

ASSUME CatalogueAssumption == Sample \subseteq Cves

VARIABLES
    cves,      \* ids in the table cves
    flagged,   \* those with is_cisa_kev
    kev,       \* ids in cisa_kev
    listed     \* ids that a committed KEV run listed and could flag

catalogueVars == <<request, cves, flagged, kev, listed>>

CatalogueInit ==
    /\ request = AllIdle
    /\ cves = {} /\ flagged = {} /\ kev = {} /\ listed = {}

(* upsert_cve_from_nvd_item, _ensure_cve_stub: one CVE stands for a page.  *)
ReadPage(h, c) ==
    /\ Free(h) \/ Doing(h, "nvd")
    /\ Goto(h, [op |-> "page", cve |-> c, new |-> c \notin cves, flag |-> c \in flagged])
    /\ UNCHANGED <<cves, flagged, kev, listed>>

(* Mistake: the preserved flag is written as it was read.                  *)
CommitPageWhole(h) ==
    /\ Doing(h, "page")
    /\ LET r == request[h] IN
          /\ cves' = cves \cup {r.cve}
          /\ flagged' = IF r.flag THEN flagged ELSE flagged \ {r.cve}
    /\ Goto(h, [op |-> "nvd"])
    /\ UNCHANGED <<kev, listed>>

(* A new row is not flagged; a second insert of the id fails the job; of a *)
(* row that was there the flag, set to what it was, is not written.        *)
CommitPage(h) ==
    /\ Doing(h, "page")
    /\ LET r == request[h] IN
       IF r.new /\ r.cve \in cves
       THEN Finish(h) /\ UNCHANGED cves
       ELSE cves' = cves \cup {r.cve} /\ Goto(h, [op |-> "nvd"])
    /\ UNCHANGED <<flagged, kev, listed>>

(* A KEV job, or the end of an NVD job; without the feed the sample is     *)
(* used.                                                                   *)
StartKev(h, feed) ==
    /\ Free(h) \/ Doing(h, "nvd")
    /\ Goto(h, [op |-> "kev", left |-> feed, done |-> {}, inserts |-> {}, flags |-> {},
                clash |-> FALSE, fallback |-> feed = Sample, known |-> cves])
    /\ UNCHANGED <<cves, flagged, kev, listed>>

(* Both rows are looked up; nothing is flushed before the commit, so an id *)
(* that comes again is inserted again.                                     *)
ReadItem(h, c) ==
    /\ Doing(h, "kev") /\ c \in request[h].left
    /\ LET r == request[h] IN
       Goto(h, [r EXCEPT !.left = @ \ {c}, !.done = @ \cup {c},
                         !.inserts = IF c \in kev THEN @ ELSE @ \cup {c},
                         !.flags = IF c \in cves THEN @ \cup {c} ELSE @,
                         !.clash = @ \/ c \in r.inserts])
    /\ UNCHANGED <<cves, flagged, kev, listed>>

(* An item that is no object: the sample follows in the same session, with *)
(* what was prepared so far.                                               *)
MalformedItem(h) ==
    /\ Doing(h, "kev") /\ ~request[h].fallback
    /\ Goto(h, [request[h] EXCEPT !.left = Sample, !.fallback = TRUE])
    /\ UNCHANGED <<cves, flagged, kev, listed>>

(* A second insert of an id fails the run: the session that the fallback   *)
(* would use waits for a rollback.                                         *)
CommitKev(h) ==
    /\ Doing(h, "kev") /\ request[h].left = {}
    /\ LET r == request[h] IN
       IF r.clash \/ r.inserts \cap kev # {}
       THEN UNCHANGED <<flagged, kev, listed>>
       ELSE /\ kev' = kev \cup r.inserts
            /\ flagged' = flagged \cup r.flags
            /\ listed' = listed \cup (r.done \cap r.known)
    /\ Finish(h)
    /\ UNCHANGED cves

(* The worker dies, or the job ends without success.                       *)
EndJob(h) ==
    /\ ~Free(h)
    /\ Finish(h)
    /\ UNCHANGED <<cves, flagged, kev, listed>>

CatalogueNext ==
    \E h \in Handlers :
        \/ CommitPage(h) \/ MalformedItem(h) \/ CommitKev(h) \/ EndJob(h)
        \/ \E c \in Cves : ReadPage(h, c) \/ ReadItem(h, c)
        \/ \E feed \in SUBSET Cves : StartKev(h, feed)

CatalogueSpec == CatalogueInit /\ [][CatalogueNext]_catalogueVars

-----------------------------------------------------------------------------
(* A CVE that was in the catalogue when a KEV run began, and on the list   *)
(* it committed, is flagged from then on, whatever pages and other runs    *)
(* are under way.  One that came later waits for the next run.             *)
ListedFlagged == listed \subseteq flagged
=============================================================================
