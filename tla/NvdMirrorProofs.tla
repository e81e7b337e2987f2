-------------------------- MODULE NvdMirrorProofs --------------------------
(* The soundness of the NVD checkpoint for every size of the catalogue and *)
(* any number of runs that share the cursor, provided NVD answers a page   *)
(* of the catalogue with its records.                                      *)
EXTENDS NvdMirror, TLAPS

(* The initial state has the types.                                        *)
LEMMA TypeInit == Init => TypeOK
<1> SUFFICES ASSUME Init PROVE TypeOK
  OBVIOUS
<1>1. catalog \in FirstPages..MaxPages /\ total \in 0..MaxPages
  BY NvdMirrorAssumption DEF Init
<1>2. seen \in [Workers -> 0..MaxPages] /\ outcome \in [Workers -> Outcome]
  BY NvdMirrorAssumption DEF Init, Outcome
<1>3. pc \in [Workers -> Control] /\ ending \in [Workers -> BOOLEAN]
  BY DEF Init, Control
<1>4. start \in [Workers -> Nat] /\ pages \in [Workers -> Nat] /\ cursor \in Nat
  BY DEF Init
<1>5. mirrored \subseteq 0..MaxPages /\ complete \in BOOLEAN
  BY DEF Init
<1>6. QED BY <1>1, <1>2, <1>3, <1>4, <1>5 DEF TypeOK

(* Every step keeps the types.                                             *)
LEMMA TypeNext == TypeOK /\ [Next]_vars => TypeOK'
<1> SUFFICES ASSUME TypeOK, [Next]_vars PROVE TypeOK'
  OBVIOUS
<1> USE NvdMirrorAssumption
    DEF TypeOK, Control, Outcome, Goto, nvd, settings, run
<1>1. CASE UNCHANGED vars
  BY <1>1 DEF vars
<1>2. CASE Publish
  BY <1>2 DEF Publish
<1>3. ASSUME NEW w \in Workers, Begin(w) PROVE TypeOK'
  <2>1. start' \in [Workers -> Nat] /\ outcome' \in [Workers -> Outcome]
    BY <1>3 DEF Begin
  <2>2. pc' \in [Workers -> Control]
    BY <1>3 DEF Begin
  <2>3. QED BY <1>3, <2>1, <2>2 DEF Begin
<1>12. ASSUME NEW w \in Workers, Decide(w) \/ Resume(w) PROVE TypeOK'
  <2>1. start' \in [Workers -> Nat] /\ pc' \in [Workers -> Control]
    BY <1>12 DEF Decide, Resume
  <2>2. QED BY <1>12, <2>1 DEF Decide, Resume
<1>4. ASSUME NEW w \in Workers, FetchPage(w) PROVE TypeOK'
  <2>1. mirrored' \subseteq 0..MaxPages
    <3>1. PICK empty \in BOOLEAN :
              /\ start[w] >= catalog => empty
              /\ mirrored' = IF empty THEN mirrored ELSE mirrored \cup {start[w]}
      BY <1>4, Zenon DEF FetchPage
    <3>2. ~(start[w] >= catalog) => start[w] \in 0..MaxPages
      OBVIOUS
    <3>3. QED BY <3>1, <3>2
  <2>2. seen' \in [Workers -> 0..MaxPages]
    BY <1>4 DEF FetchPage
  <2>3. pc' \in [Workers -> Control]
    BY <1>4 DEF FetchPage
  <2>4. PICK last \in BOOLEAN : ending' = [ending EXCEPT ![w] = last]
    BY <1>4, Zenon DEF FetchPage
  <2>5. QED BY <1>4, <2>1, <2>2, <2>3, <2>4 DEF FetchPage
<1>5. ASSUME NEW w \in Workers, SaveCursor(w) PROVE TypeOK'
  BY <1>5 DEF SaveCursor
<1>6. ASSUME NEW w \in Workers, SaveTotal(w) PROVE TypeOK'
  <2>1. pc' \in [Workers -> Control] /\ total' \in 0..MaxPages
    BY <1>6 DEF SaveTotal
  <2>2. QED BY <1>6, <2>1 DEF SaveTotal
<1>7. ASSUME NEW w \in Workers, RewindCursor(w) \/ MarkComplete(w) PROVE TypeOK'
  <2>1. CASE RewindCursor(w)
    <3>1. pc' \in [Workers -> Control] /\ cursor' \in Nat
      BY <2>1 DEF RewindCursor
    <3>2. QED BY <2>1, <3>1 DEF RewindCursor
  <2>2. CASE MarkComplete(w)
    <3>1. pc' \in [Workers -> Control] /\ complete' \in BOOLEAN
      BY <2>2 DEF MarkComplete
    <3>2. QED BY <2>2, <3>1 DEF MarkComplete
  <2>3. QED BY <1>7, <2>1, <2>2
<1>8. ASSUME NEW w \in Workers, ResetCursor(w) \/ StopEarly(w) PROVE TypeOK'
  <2>1. pc' \in [Workers -> Control] /\ cursor' \in Nat
    BY <1>8 DEF ResetCursor, StopEarly
  <2>2. QED BY <1>8, <2>1 DEF ResetCursor, StopEarly
<1>9. ASSUME NEW w \in Workers, Conclude(w) \/ Abort(w) PROVE TypeOK'
  <2>1. PICK verdict \in Outcome : End(w, verdict)
    BY <1>9, Zenon DEF Conclude, Abort, Outcome
  <2>2. outcome' \in [Workers -> Outcome] /\ pc' \in [Workers -> Control]
    BY <2>1 DEF End
  <2>3. start' \in [Workers -> Nat] /\ pages' \in [Workers -> Nat]
    BY <2>1 DEF End
  <2>4. seen' \in [Workers -> 0..MaxPages] /\ ending' \in [Workers -> BOOLEAN]
    BY <2>1 DEF End
  <2>5. QED BY <2>1, <2>2, <2>3, <2>4 DEF End
<1>11. QED
  BY <1>1, <1>2, <1>3, <1>4, <1>5, <1>6, <1>7, <1>8, <1>9, <1>12 DEF Next, Step

(* The settings and the runs in progress hold values of their types.       *)
THEOREM TypeCorrect == Spec => []TypeOK
<1>1. QED BY TypeInit, TypeNext, PTL DEF Spec

-----------------------------------------------------------------------------
(* What a run in progress knows: the pages below its start index are in    *)
(* the database (the one at the index too, between its commit and the next *)
(* cursor), and if it says the end is reached it has passed the whole of   *)
(* the first catalogue.                                                    *)

Reached(w) == IF pc[w] = "cursor" THEN start[w] + 1 ELSE start[w]

RunSound ==
    \A w \in Workers :
        /\ pc[w] # "idle" => Below(Reached(w)) \subseteq mirrored
        /\ pc[w] \in {"cursor", "total"} /\ ending[w] => Reached(w) >= FirstPages
        /\ pc[w] \in {"rewind", "mark"} => Reached(w) >= FirstPages
        /\ seen[w] = 0 \/ seen[w] >= FirstPages

MirrorInv == CheckpointSound /\ CompleteSound /\ SuccessSound /\ RunSound

(* Below the size of the catalogue lies the whole first catalogue.         *)
LEMMA WholeCatalogue ==
    ASSUME NEW n \in Nat, n >= FirstPages
    PROVE  Below(n) = FirstCatalogue
BY NvdMirrorAssumption DEF Below, FirstCatalogue

(* The pages below n + 1 are those below n, and n.                         *)
LEMMA BelowNext ==
    ASSUME NEW n \in Nat
    PROVE  Below(n + 1) \subseteq Below(n) \cup {n}
BY NvdMirrorAssumption DEF Below

(* The empty mirror is sound.                                              *)
LEMMA MirrorInit == Init => MirrorInv
BY NvdMirrorAssumption
DEF Init, MirrorInv, CheckpointSound, CompleteSound, SuccessSound, RunSound,
    Below, Reached

(* A page fetched is a page mirrored, or lies past the end.                *)
LEMMA FetchSound ==
    ASSUME ~EmptyPages, TypeOK, MirrorInv, NEW v \in Workers, FetchPage(v)
    PROVE  MirrorInv'
<1> USE NvdMirrorAssumption DEF TypeOK
<1>1. PICK empty \in BOOLEAN :
          /\ start[v] >= catalog => empty
          /\ empty /\ start[v] < catalog => EmptyPages
          /\ mirrored' = IF empty THEN mirrored ELSE mirrored \cup {start[v]}
          /\ seen' = [seen EXCEPT ![v] = catalog]
          /\ ending' = [ending EXCEPT ![v] = empty \/ start[v] + 1 >= catalog]
  BY DEF FetchPage
<1>2. /\ pc[v] = "fetch" /\ pc' = [pc EXCEPT ![v] = "cursor"]
      /\ UNCHANGED <<cursor, complete, start, outcome>>
  BY DEF FetchPage, Goto, settings
<1>3. mirrored \subseteq mirrored'
  BY <1>1
<1>4. CheckpointSound' /\ CompleteSound' /\ SuccessSound'
  BY <1>2, <1>3
  DEF MirrorInv, CheckpointSound, CompleteSound, SuccessSound, Below, FirstCatalogue
<1>5. Below(start[v] + 1) \subseteq mirrored'
  <2>1. Below(start[v]) \subseteq mirrored
    BY <1>2 DEF MirrorInv, RunSound, Reached
  <2>2. CASE empty
    <3>1. Below(start[v] + 1) = Below(start[v])
      BY <1>1, <2>2, WholeCatalogue
    <3>2. QED BY <1>3, <2>1, <3>1
  <2>3. CASE ~empty
    BY <1>1, <2>1, <2>3, BelowNext
  <2>4. QED BY <2>2, <2>3
<1>6. ending'[v] => start[v] + 1 >= FirstPages
  BY <1>1
<1>7. RunSound'
  <2> SUFFICES ASSUME NEW w \in Workers
               PROVE  (/\ pc[w] # "idle" => Below(Reached(w)) \subseteq mirrored
                       /\ pc[w] \in {"cursor", "total"} /\ ending[w]
                             => Reached(w) >= FirstPages
                       /\ pc[w] \in {"rewind", "mark"} => Reached(w) >= FirstPages
                       /\ seen[w] = 0 \/ seen[w] >= FirstPages)'
    BY DEF RunSound
  <2>1. CASE w = v
    BY <1>1, <1>2, <1>5, <1>6, <2>1 DEF Reached, Below
  <2>2. CASE w # v
    BY <1>1, <1>2, <1>3, <2>2 DEF MirrorInv, RunSound, Reached, Below
  <2>3. QED BY <2>1, <2>2
<1>8. QED BY <1>4, <1>7 DEF MirrorInv

(* The checkpoint moves past a page that is mirrored.                      *)
LEMMA SaveCursorSound ==
    ASSUME TypeOK, MirrorInv, NEW v \in Workers, SaveCursor(v)
    PROVE  MirrorInv'
<1> USE NvdMirrorAssumption DEF TypeOK
<1>1. /\ pc[v] = "cursor" /\ pc' = [pc EXCEPT ![v] = "total"]
      /\ start' = [start EXCEPT ![v] = @ + 1] /\ cursor' = start[v] + 1
      /\ UNCHANGED <<mirrored, complete, seen, ending, outcome>>
  BY DEF SaveCursor, Goto
<1>2. Below(start[v] + 1) \subseteq mirrored
  BY <1>1 DEF MirrorInv, RunSound, Reached
<1>3. CheckpointSound' /\ CompleteSound' /\ SuccessSound'
  BY <1>1, <1>2
  DEF MirrorInv, CheckpointSound, CompleteSound, SuccessSound, Below, FirstCatalogue
<1>4. RunSound'
  BY <1>1 DEF MirrorInv, RunSound, Reached, Below
<1>5. QED BY <1>3, <1>4 DEF MirrorInv

(* The flag goes up at the end of the catalogue.                           *)
LEMMA MarkSound ==
    ASSUME TypeOK, MirrorInv, NEW v \in Workers, MarkComplete(v)
    PROVE  MirrorInv'
<1> USE NvdMirrorAssumption DEF TypeOK
<1>1. FirstCatalogue \subseteq mirrored
  BY WholeCatalogue DEF MarkComplete, MirrorInv, RunSound, Reached
<1>2. QED
  BY <1>1
  DEF MarkComplete, Goto, MirrorInv, CheckpointSound, CompleteSound,
      SuccessSound, RunSound, Reached, Below, FirstCatalogue

(* A run ends, in success only if it covered the catalogue.                *)
LEMMA EndSound ==
    ASSUME TypeOK, MirrorInv, NEW v \in Workers, Conclude(v) \/ Abort(v)
    PROVE  MirrorInv'
<1> USE NvdMirrorAssumption DEF TypeOK
<1>1. PICK verdict \in Outcome :
          End(v, verdict) /\ (verdict = "success" => pc[v] = "done" /\ Covered(v))
  BY Zenon DEF Conclude, Abort, Outcome
<1>2. verdict = "success" => FirstCatalogue \subseteq mirrored
  <2> SUFFICES ASSUME verdict = "success" PROVE FirstCatalogue \subseteq mirrored
    OBVIOUS
  <2>1. Below(start[v]) \subseteq mirrored
    BY <1>1 DEF MirrorInv, RunSound, Reached
  <2>2. start[v] >= FirstPages
    BY <1>1 DEF Covered, MirrorInv, RunSound
  <2>3. QED BY <2>1, <2>2, WholeCatalogue
<1>3. /\ outcome' = [outcome EXCEPT ![v] = verdict]
      /\ pc' = [pc EXCEPT ![v] = "idle"]
      /\ start' = [start EXCEPT ![v] = 0]
      /\ seen' = [seen EXCEPT ![v] = 0]
      /\ ending' = [ending EXCEPT ![v] = FALSE]
      /\ UNCHANGED <<mirrored, cursor, complete>>
  BY <1>1 DEF End, Goto, settings
<1>4. CheckpointSound' /\ CompleteSound' /\ SuccessSound'
  BY <1>2, <1>3
  DEF MirrorInv, CheckpointSound, CompleteSound, SuccessSound, Below, FirstCatalogue
<1>5. RunSound'
  BY <1>3 DEF MirrorInv, RunSound, Reached, Below
<1>6. QED BY <1>4, <1>5 DEF MirrorInv

(* The steps that touch neither the pages nor what a run has reached: they *)
(* may only put the cursor back to 0 or to where it was.                   *)
LEMMA OtherSound ==
    ASSUME TypeOK, MirrorInv,
           \/ UNCHANGED vars \/ Publish
           \/ \E v \in Workers : \/ ResetCursor(v) \/ SaveTotal(v)
                                 \/ RewindCursor(v) \/ StopEarly(v)
    PROVE  MirrorInv'
<1> USE NvdMirrorAssumption DEF TypeOK, Goto, settings, run
<1>1. /\ mirrored' = mirrored /\ complete' = complete
      /\ cursor' = cursor \/ cursor' = 0
      /\ start' = start /\ seen' = seen /\ ending' = ending
  BY DEF vars, Publish, ResetCursor, SaveTotal, RewindCursor, StopEarly
<1>2. ASSUME NEW w \in Workers
      PROVE  outcome'[w] = outcome[w]
  BY DEF vars, Publish, ResetCursor, SaveTotal, RewindCursor, StopEarly
<1>3. CheckpointSound' /\ CompleteSound' /\ SuccessSound'
  BY <1>1, <1>2
  DEF MirrorInv, CheckpointSound, CompleteSound, SuccessSound, Below, FirstCatalogue
<1>4. ASSUME NEW w \in Workers
      PROVE  \/ pc'[w] = pc[w]
             \/ pc[w] \in {"reset", "fetch"} /\ pc'[w] \in {"fetch", "done"}
             \/ pc[w] = "total" /\ pc'[w] = "fetch"
             \/ pc[w] = "total" /\ ending[w] /\ pc'[w] = "rewind"
             \/ pc[w] = "rewind" /\ pc'[w] = "mark"
  BY DEF vars, Publish, ResetCursor, SaveTotal, RewindCursor, StopEarly
<1>5. RunSound'
  BY <1>1, <1>4 DEF MirrorInv, RunSound, Reached, Below
<1>6. QED BY <1>3, <1>5 DEF MirrorInv

(* A run begins at a position that is sound, and stays at one until it has *)
(* decided: the cursor is sound at each of the reads.                      *)
LEMMA BeginSound ==
    ASSUME TypeOK, MirrorInv, NEW v \in Workers, Begin(v)
    PROVE  MirrorInv'
<1> USE NvdMirrorAssumption DEF TypeOK
<1>1. /\ start' = [start EXCEPT ![v] = cursor]
      /\ pc' = [pc EXCEPT ![v] = "asked"]
      /\ outcome' = [outcome EXCEPT ![v] = "none"]
      /\ UNCHANGED <<mirrored, cursor, complete, seen, ending>>
  BY DEF Begin, Goto, settings
<1>2. Below(start'[v]) \subseteq mirrored
  BY <1>1 DEF MirrorInv, CheckpointSound
<1>3. CheckpointSound' /\ CompleteSound' /\ SuccessSound'
  BY <1>1
  DEF MirrorInv, CheckpointSound, CompleteSound, SuccessSound, Below, FirstCatalogue
<1>4. RunSound'
  BY <1>1, <1>2 DEF MirrorInv, RunSound, Reached, Below
<1>5. QED BY <1>3, <1>4 DEF MirrorInv

LEMMA DecideSound ==
    ASSUME TypeOK, MirrorInv, NEW v \in Workers, Decide(v) \/ Resume(v)
    PROVE  MirrorInv'
<1> USE NvdMirrorAssumption DEF TypeOK
<1>1. /\ \E n \in {start[v], 0, cursor} : start' = [start EXCEPT ![v] = n]
      /\ \E next \in {"resume", "reset", "fetch"} : pc' = [pc EXCEPT ![v] = next]
      /\ pc[v] # "idle"
      /\ UNCHANGED <<mirrored, cursor, complete, seen, ending, outcome>>
  BY DEF Decide, Resume, Goto, settings
<1>2. Below(start[v]) \subseteq mirrored \/ pc[v] = "cursor"
  BY <1>1 DEF MirrorInv, RunSound, Reached
<1>3. pc[v] \in {"asked", "resume"}
  BY DEF Decide, Resume
<1>4. Below(start'[v]) \subseteq mirrored
  <2>1. Below(0) = {}
    BY DEF Below
  <2>2. Below(cursor) \subseteq mirrored
    BY DEF MirrorInv, CheckpointSound
  <2>3. start'[v] \in {start[v], 0, cursor}
    BY <1>1
  <2>4. QED BY <1>2, <1>3, <2>1, <2>2, <2>3
<1>5. CheckpointSound' /\ CompleteSound' /\ SuccessSound'
  BY <1>1
  DEF MirrorInv, CheckpointSound, CompleteSound, SuccessSound, Below, FirstCatalogue
<1>6. RunSound'
  BY <1>1, <1>4 DEF MirrorInv, RunSound, Reached, Below
<1>7. QED BY <1>5, <1>6 DEF MirrorInv

(* Every step keeps the inductive invariant.                               *)
LEMMA MirrorNext ==
    ASSUME ~EmptyPages
    PROVE  TypeOK /\ MirrorInv /\ [Next]_vars => MirrorInv'
<1> SUFFICES ASSUME TypeOK, MirrorInv, [Next]_vars PROVE MirrorInv'
  OBVIOUS
<1>1. CASE \/ UNCHANGED vars \/ Publish
           \/ \E v \in Workers : \/ ResetCursor(v) \/ SaveTotal(v)
                                 \/ RewindCursor(v) \/ StopEarly(v)
  BY <1>1, OtherSound
<1>2. CASE \E v \in Workers : Begin(v) \/ Decide(v) \/ Resume(v)
  BY <1>2, BeginSound, DecideSound
<1>3. CASE \E v \in Workers : FetchPage(v)
  BY <1>3, FetchSound
<1>4. CASE \E v \in Workers : SaveCursor(v)
  BY <1>4, SaveCursorSound
<1>5. CASE \E v \in Workers : MarkComplete(v) \/ Conclude(v) \/ Abort(v)
  BY <1>5, MarkSound, EndSound
<1>6. QED BY <1>1, <1>2, <1>3, <1>4, <1>5 DEF Next, Step

(* The inductive invariant holds throughout.                               *)
LEMMA MirrorCorrect == ASSUME ~EmptyPages PROVE Spec => []MirrorInv
<1>1. TypeOK /\ MirrorInv /\ [Next]_vars => MirrorInv'
  BY MirrorNext
<1>2. QED BY <1>1, TypeInit, TypeNext, MirrorInit, PTL DEF Spec

(* Every page below the saved cursor is in the database, whatever crashes  *)
(* and however many runs write the cursor.                                 *)
THEOREM CheckpointNeverSkips ==
    ASSUME ~EmptyPages PROVE Spec => []CheckpointSound
<1>1. MirrorInv => CheckpointSound
  BY DEF MirrorInv
<1>2. QED BY <1>1, MirrorCorrect, PTL

(* The complete flag is set only over a mirrored catalogue.                *)
THEOREM CompleteFlagTrue ==
    ASSUME ~EmptyPages PROVE Spec => []CompleteSound
<1>1. MirrorInv => CompleteSound
  BY DEF MirrorInv
<1>2. QED BY <1>1, MirrorCorrect, PTL

(* After a successful run, resumed or not, what was in the catalogue from  *)
(* the beginning is mirrored.                                              *)
THEOREM SuccessCoversCatalogue ==
    ASSUME ~EmptyPages PROVE Spec => []SuccessSound
<1>1. MirrorInv => SuccessSound
  BY DEF MirrorInv
<1>2. QED BY <1>1, MirrorCorrect, PTL
=============================================================================
