----------------------------- MODULE NvdMirror -----------------------------
(***************************************************************************)
(* The NVD mirror: run_nvd_sync (services/nvd_sync.py) pulls the catalogue *)
(* page by page and keeps its checkpoint in three system settings, each    *)
(* written by a transaction of its own; _nvd_should_resume                 *)
(* (services/sync_jobs.py) decides whether the next run continues from the *)
(* checkpoint.  A worker here is one that executes an NVD run in API mode; *)
(* the queue that hands out runs is SyncJobs.  A page stands for           *)
(* results_per_page records, so start indices count pages.                 *)
(***************************************************************************)
EXTENDS Integers

CONSTANTS
    Workers,
    FirstPages,   \* pages the catalogue has from the beginning
    MaxPages,     \* bound: pages it may grow to
    PageLimit,    \* vbx_nvd_max_pages, 0 for no limit
    EmptyPages    \* may NVD answer a page of the catalogue with no records?

ASSUME NvdMirrorAssumption ==
    /\ FirstPages \in Nat \ {0}
    /\ MaxPages \in Nat
    /\ FirstPages <= MaxPages
    /\ PageLimit \in Nat
    /\ EmptyPages \in BOOLEAN

VARIABLES
    catalog,   \* pages the NVD has now
    mirrored,  \* pages whose records are committed to cve_records
    cursor,    \* setting nvd_mirror_cursor
    total,     \* setting nvd_mirror_total
    complete,  \* setting nvd_mirror_complete
    pc,        \* where each worker is in run_nvd_sync
    start,     \* start_index
    seen,      \* total_results
    pages,     \* pages_ok and pages_done
    ending,    \* the loop condition: the last page was the end
    outcome    \* how the worker's last run ended

nvd == <<catalog>>
settings == <<cursor, total, complete>>
run == <<pc, start, seen, pages, ending>>
vars == <<catalog, mirrored, cursor, total, complete,
          pc, start, seen, pages, ending, outcome>>

Control ==
    {"idle", "asked", "resume", "reset", "fetch", "cursor", "total", "rewind", "mark", "done"}
Outcome == {"none", "success", "failed"}

Init ==
    /\ catalog = FirstPages
    /\ mirrored = {}
    /\ cursor = 0
    /\ total = 0
    /\ complete = FALSE
    /\ pc = [w \in Workers |-> "idle"]
    /\ start = [w \in Workers |-> 0]
    /\ seen = [w \in Workers |-> 0]
    /\ pages = [w \in Workers |-> 0]
    /\ ending = [w \in Workers |-> FALSE]
    /\ outcome = [w \in Workers |-> "none"]

Goto(w, next) == pc' = [pc EXCEPT ![w] = next]

(* Bound: a run resumed past the end and killed before its rewind leaves   *)
(* the cursor one page further each time; beyond this bound no run begins  *)
(* and none is killed until the cursor is rewound.                         *)
WithinBound ==
    /\ cursor <= MaxPages + 1
    /\ \A w \in Workers : start[w] <= MaxPages + 1

(* A run begins with the first read of _nvd_should_resume, the cursor.     *)
Begin(w) ==
    /\ pc[w] = "idle"
    /\ WithinBound
    /\ start' = [start EXCEPT ![w] = cursor]
    /\ Goto(w, "asked")
    /\ outcome' = [outcome EXCEPT ![w] = "none"]
    /\ UNCHANGED <<nvd, mirrored, settings, seen, pages, ending>>

(* Mistake: every run starts over.                                         *)
NeverResume(w) == FALSE

(* Its answer, once it has read the complete flag too.                     *)
ShouldResume(w) == start[w] > 0 /\ ~complete

Decide(w) ==
    /\ pc[w] = "asked"
    /\ start' = [start EXCEPT ![w] = IF ShouldResume(w) THEN @ ELSE 0]
    /\ Goto(w, IF ShouldResume(w) THEN "resume" ELSE "reset")
    /\ UNCHANGED <<nvd, mirrored, settings, seen, pages, ending, outcome>>

(* A run that resumes reads the cursor again, which another run may have   *)
(* moved; a full run writes it back to 0.                                  *)
Resume(w) ==
    /\ pc[w] = "resume"
    /\ start' = [start EXCEPT ![w] = cursor]
    /\ Goto(w, "fetch")
    /\ UNCHANGED <<nvd, mirrored, settings, seen, pages, ending, outcome>>

ResetCursor(w) ==
    /\ pc[w] = "reset"
    /\ cursor' = 0
    /\ Goto(w, "fetch")
    /\ UNCHANGED <<nvd, mirrored, total, complete, start, seen, pages, ending, outcome>>

AtLimit(w) == PageLimit # 0 /\ pages[w] >= PageLimit

(* A page is answered and its records are upserted and committed.  Past    *)
(* the end of the catalogue the answer has no records.                     *)
FetchPage(w) ==
    /\ pc[w] = "fetch"
    /\ ~AtLimit(w)
    /\ \E empty \in BOOLEAN :
          /\ start[w] >= catalog => empty
          /\ empty /\ start[w] < catalog => EmptyPages
          /\ mirrored' = IF empty THEN mirrored ELSE mirrored \cup {start[w]}
          /\ seen' = [seen EXCEPT ![w] = catalog]
          /\ ending' = [ending EXCEPT ![w] = empty \/ start[w] + 1 >= catalog]
    /\ Goto(w, "cursor")
    /\ UNCHANGED <<nvd, settings, start, pages, outcome>>

(* The page after the one just committed becomes the checkpoint.           *)
SaveCursor(w) ==
    /\ pc[w] = "cursor"
    /\ start' = [start EXCEPT ![w] = @ + 1]
    /\ pages' = [pages EXCEPT ![w] = @ + 1]
    /\ cursor' = start[w] + 1
    /\ Goto(w, "total")
    /\ UNCHANGED <<nvd, mirrored, total, complete, seen, ending, outcome>>

(* Mistake: the end is declared at every page.                             *)
SaveTotalAndStop(w) ==
    /\ pc[w] = "total"
    /\ total' = seen[w]
    /\ Goto(w, "rewind")
    /\ UNCHANGED <<nvd, mirrored, cursor, complete, start, seen, pages, ending, outcome>>

(* The catalogue size is saved; at its end the cursor is rewound and the   *)
(* mirror marked complete, else the next page is fetched.                  *)
SaveTotal(w) ==
    /\ pc[w] = "total"
    /\ total' = seen[w]
    /\ Goto(w, IF ending[w] THEN "rewind" ELSE "fetch")
    /\ UNCHANGED <<nvd, mirrored, cursor, complete, start, seen, pages, ending, outcome>>

RewindCursor(w) ==
    /\ pc[w] = "rewind"
    /\ cursor' = 0
    /\ Goto(w, "mark")
    /\ UNCHANGED <<nvd, mirrored, total, complete, start, seen, pages, ending, outcome>>

MarkComplete(w) ==
    /\ pc[w] = "mark"
    /\ complete' = TRUE
    /\ Goto(w, "done")
    /\ UNCHANGED <<nvd, mirrored, cursor, total, start, seen, pages, ending, outcome>>

(* Mistake: a page that could not be fetched is skipped by the checkpoint. *)
SkipFailedPage(w) ==
    /\ pc[w] = "fetch"
    /\ cursor' = start[w] + 1
    /\ Goto(w, "done")
    /\ UNCHANGED <<nvd, mirrored, total, complete, start, seen, pages, ending, outcome>>

(* Five attempts failed, or the page limit is reached: the loop ends.      *)
StopEarly(w) ==
    /\ pc[w] = "fetch"
    /\ Goto(w, "done")
    /\ UNCHANGED <<nvd, mirrored, settings, start, seen, pages, ending, outcome>>

(* Mistake: off by one, the last page is taken as read.                    *)
AlmostCovered(w) == seen[w] # 0 /\ start[w] + 1 >= seen[w]

(* stats["complete"], and process_sync_run's verdict on it.                *)
Covered(w) == seen[w] # 0 /\ start[w] >= seen[w]

(* A run ends, and its variables with it.                                  *)
End(w, verdict) ==
    /\ outcome' = [outcome EXCEPT ![w] = verdict]
    /\ Goto(w, "idle")
    /\ start' = [start EXCEPT ![w] = 0]
    /\ seen' = [seen EXCEPT ![w] = 0]
    /\ pages' = [pages EXCEPT ![w] = 0]
    /\ ending' = [ending EXCEPT ![w] = FALSE]
    /\ UNCHANGED <<nvd, mirrored, settings>>

(* The KEV list that is fetched after the loop may fail a covered run too. *)
Conclude(w) ==
    /\ pc[w] = "done"
    /\ \/ Covered(w) /\ End(w, "success")
       \/ End(w, "failed")

(* The worker dies or the database fails: its run ends where it is.        *)
Abort(w) ==
    /\ pc[w] \notin {"idle", "done"}
    /\ WithinBound
    /\ End(w, "failed")

(* The NVD publishes another page.                                         *)
Publish ==
    /\ catalog < MaxPages
    /\ catalog' = catalog + 1
    /\ UNCHANGED <<mirrored, settings, run, outcome>>

(* The steps of a run that is under way.                                   *)
Step(w) ==
    \/ Decide(w) \/ Resume(w) \/ ResetCursor(w)
    \/ FetchPage(w) \/ SaveCursor(w) \/ SaveTotal(w)
    \/ RewindCursor(w) \/ MarkComplete(w)
    \/ StopEarly(w) \/ Conclude(w)

Next == Publish \/ \E w \in Workers : Begin(w) \/ Step(w) \/ Abort(w)

Spec == Init /\ [][Next]_vars

(* The worker's thread goes on with the run it has begun.  Nothing starts  *)
(* the next run by itself: an administrator does.                          *)
FairSpec == Spec /\ \A w \in Workers : WF_vars(Step(w))

-----------------------------------------------------------------------------
(* Every variable has its type.                                            *)
TypeOK ==
    /\ catalog \in FirstPages..MaxPages
    /\ mirrored \subseteq 0..MaxPages
    /\ cursor \in Nat
    /\ total \in 0..MaxPages
    /\ complete \in BOOLEAN
    /\ pc \in [Workers -> Control]
    /\ start \in [Workers -> Nat]
    /\ seen \in [Workers -> 0..MaxPages]
    /\ pages \in [Workers -> Nat]
    /\ ending \in [Workers -> BOOLEAN]
    /\ outcome \in [Workers -> Outcome]

(* The pages of the catalogue below n that were there from the beginning.  *)
Below(n) == {p \in 0..(FirstPages - 1) : p < n}
FirstCatalogue == 0..(FirstPages - 1)

(* The checkpoint never claims too much: whatever crashes, and however     *)
(* many runs share the cursor, every page below it is in the database, so  *)
(* a resumed run skips nothing.                                            *)
CheckpointSound == Below(cursor) \subseteq mirrored

(* nvd_mirror_complete is set only when the catalogue is mirrored: "pull   *)
(* CVE pages from NVD 2.0 API until the catalog is mirrored".              *)
CompleteSound == complete => FirstCatalogue \subseteq mirrored

(* When a run ends in success every page that was in the catalogue from    *)
(* the beginning is mirrored, also after one that was resumed and read     *)
(* only the end.                                                           *)
SuccessSound ==
    \A w \in Workers : outcome[w] = "success" => FirstCatalogue \subseteq mirrored

(* The checkpoint turns repeated failures into progress: as long as runs,  *)
(* one after the other, go on saving pages, the mirror is completed,       *)
(* however few pages each of them saves before it fails, and whatever was  *)
(* killed before.                                                          *)
PagesKeepComing == []<><<\E w \in Workers : SaveCursor(w)>>_vars
KillsEnd == <>[][\A w \in Workers : ~Abort(w)]_vars
MirrorCompletes == PagesKeepComing /\ KillsEnd => <>complete
=============================================================================
