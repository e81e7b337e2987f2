-------------------------------- MODULE Epss --------------------------------
(***************************************************************************)
(* EPSS scores (services/epss_sync.py, services/epss_service.py).  A score *)
(* row belongs to a CVE and a day, and a sync looks for the row of today   *)
(* before it inserts one; the readers take the row with the greatest id of *)
(* a CVE for the current score and the one before it for the previous.     *)
(* The score itself is left out: it is overwritten in place.  Nothing is   *)
(* flushed before a commit, so a look-up sees committed rows only.         *)
(***************************************************************************)
EXTENDS Catalogue, Naturals, Sequences

CONSTANTS
    MaxDay,   \* bound: days that pass
    Batch     \* rows between two commits: 2000 in the code

ASSUME EpssAssumption == MaxDay \in Nat \ {0} /\ Batch \in Nat \ {0}

VARIABLES
    scores,      \* rows of epss_scores in the order of their ids
    today,
    feeds,       \* history: kinds of feed that were ever used
    overlapped,  \* history: were ever two syncs under way at once?
    askew        \* history: CVEs of which a single sync wrote unordered rows:
                 \* missing in the first loop of the mock and there in the
                 \* second, or twice in a batch of the feed

history == <<feeds, overlapped, askew>>
epssVars == <<catalogueVars, scores, today, history>>

Generation0 == 0   \* the "previous generation" of the mock, 2024-01-01

EpssInit ==
    /\ scores = <<>> /\ today = 1
    /\ feeds = {} /\ overlapped = FALSE /\ askew = {}

Scored(c, day) == \E i \in DOMAIN scores : scores[i] = [cve |-> c, day |-> day]

(* Mistake: a row that is there is not looked for.                         *)
UncheckedRows(c, day) == IF c \in cves THEN <<[cve |-> c, day |-> day]>> ELSE <<>>

(* What a look-up of a CVE and of its row of a day adds to the session.    *)
RowsFor(c, day) ==
    IF c \in cves /\ ~Scored(c, day) THEN <<[cve |-> c, day |-> day]>> ELSE <<>>

StartSync(h, kind) ==
    /\ Free(h)
    /\ feeds' = feeds \cup {kind}
    /\ overlapped' = (overlapped \/ \E g \in Handlers \ {h} : request[g].op \in {"mock", "live"})
    /\ UNCHANGED askew

(* seed_mock_epss goes over its CVEs twice: gen is the generation of the   *)
(* loop, missed (history) the CVEs that the first loop did not find.       *)
MockSync(adds) ==
    [op |-> "mock", day |-> today, gen |-> Generation0, left |-> Sample,
     adds |-> adds, missed |-> {}]

StartMock(h) ==
    /\ StartSync(h, "mock")
    /\ Goto(h, MockSync(<<>>))
    /\ UNCHANGED <<cves, flagged, kev, listed, scores, today>>

(* A CVE of a loop, looked up when its turn comes.                         *)
MockRow(h, c) ==
    /\ Doing(h, "mock") /\ c \in request[h].left
    /\ LET r == request[h]
           first == r.gen = Generation0 IN
       /\ Goto(h, [r EXCEPT !.left = @ \ {c},
                            !.adds = @ \o RowsFor(c, r.gen),
                            !.missed = IF first /\ c \notin cves THEN @ \cup {c} ELSE @])
       /\ askew' = IF ~first /\ c \in cves \cap r.missed THEN askew \cup {c} ELSE askew
    /\ UNCHANGED <<cves, flagged, kev, listed, scores, today, feeds, overlapped>>

SecondLoop(h) ==
    /\ Doing(h, "mock") /\ request[h].left = {} /\ request[h].gen = Generation0
    /\ Goto(h, [request[h] EXCEPT !.gen = request[h].day, !.left = Sample])
    /\ UNCHANGED <<cves, flagged, kev, listed, scores, today, history>>

CommitMock(h) ==
    /\ Doing(h, "mock") /\ request[h].left = {} /\ request[h].gen # Generation0
    /\ scores' = scores \o request[h].adds
    /\ Finish(h)
    /\ UNCHANGED <<cves, flagged, kev, listed, today, history>>

StartLive(h) ==
    /\ StartSync(h, "live")
    /\ Goto(h, [op |-> "live", day |-> today, adds |-> <<>>, batch |-> 0])
    /\ UNCHANGED <<cves, flagged, kev, listed, scores, today>>

(* A row of the feed that names a known CVE, as often as the feed does;    *)
(* every Batch of them are committed.                                      *)
ScoreRow(h, c) ==
    /\ Doing(h, "live") /\ c \in cves
    /\ LET r == request[h]
           adds == r.adds \o RowsFor(c, r.day)
           full == r.batch + 1 = Batch IN
       /\ scores' = IF full THEN scores \o adds ELSE scores
       /\ Goto(h, [r EXCEPT !.batch = IF full THEN 0 ELSE @ + 1,
                            !.adds = IF full THEN <<>> ELSE adds])
       /\ askew' = IF \E i \in DOMAIN r.adds : r.adds[i].cve = c
                   THEN askew \cup {c} ELSE askew
    /\ UNCHANGED <<cves, flagged, kev, listed, today, feeds, overlapped>>

(* The end of the feed.                                                    *)
CommitLive(h) ==
    /\ Doing(h, "live")
    /\ scores' = scores \o request[h].adds
    /\ Finish(h)
    /\ UNCHANGED <<cves, flagged, kev, listed, today, history>>

(* The download fails, or a line cannot be read: mock scores follow in the *)
(* same session.                                                           *)
FallBack(h) ==
    /\ Doing(h, "live")
    /\ feeds' = feeds \cup {"mock"}
    /\ Goto(h, MockSync(request[h].adds))
    /\ UNCHANGED <<cves, flagged, kev, listed, scores, today, overlapped, askew>>

Midnight ==
    /\ today < MaxDay
    /\ today' = today + 1
    /\ UNCHANGED <<catalogueVars, scores, history>>

EpssNext ==
    \/ Midnight
    \/ \E h \in Handlers :
          \/ StartMock(h) \/ SecondLoop(h) \/ CommitMock(h)
          \/ StartLive(h) \/ CommitLive(h) \/ FallBack(h)
          \/ \E c \in Cves : MockRow(h, c) \/ ScoreRow(h, c)
          \/ /\ CommitPage(h) \/ EndJob(h) \/ \E c \in Cves : ReadPage(h, c)
             /\ UNCHANGED <<scores, today, history>>

EpssSpec == CatalogueInit /\ EpssInit /\ [][EpssNext]_epssVars

-----------------------------------------------------------------------------
(* The rows of a CVE follow each other by day, one for each: the greatest  *)
(* id is the newest score and the one before it an older one, whatever     *)
(* pages the catalogue gains and days pass meanwhile.  So it is unless two *)
(* syncs were under way at once, the two kinds of feed were mixed (a mock  *)
(* run after a live one inserts its old generation last), or one sync      *)
(* found the CVE in one loop and not in the other, or twice in a batch.    *)
ScoresInOrder ==
    ~overlapped /\ Cardinality(feeds) <= 1 =>
        \A i, j \in DOMAIN scores :
            i < j /\ scores[i].cve = scores[j].cve /\ scores[i].cve \notin askew
                => scores[i].day < scores[j].day

(* "Insert a previous generation then current scores": with the mock alone *)
(* the old generation of a CVE never comes after a newer row, which the    *)
(* readers would then take for the older one (seed_mock_epss).             *)
PreviousGenerationFirst ==
    ~overlapped /\ feeds \subseteq {"mock"} =>
        \A i, j \in DOMAIN scores :
            i < j /\ scores[i].cve = scores[j].cve => scores[j].day # Generation0
=============================================================================
