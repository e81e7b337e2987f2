--------------------------- MODULE FirstUseProofs ---------------------------
(***************************************************************************)
(* Proofs about the rows of the API that are looked up and then created or *)
(* changed: local ids, dashboard layouts, settings forms, the devices of a *)
(* login, the groups of users and the counters of the rate limit, each for *)
(* any number of requests at once.                                         *)
(* The parts share no rows; each has its own specification and its own     *)
(* invariant.                                                              *)
(***************************************************************************)
EXTENDS Layouts, LocalIds, RateLimit, Settings, Sessions, Groups, FiniteSetTheorems,
        WellFoundedInduction, TLAPS

-----------------------------------------------------------------------------
(* Local ids.  The strengthening of IdsInOrder: who has a number in hand   *)
(* holds the lock of its series (InHand).                                  *)

IdRequest ==
    {Idle} \cup [op : {"number"}, s : Series, n : Nat] \cup [op : {"first"}, s : Series]

IdsTypes ==
    /\ request \in [Handlers -> IdRequest]
    /\ last \in [Series -> Nat]
    /\ holder \in [Series -> Handlers \cup {Null}]

Used(s) == {n \in 1..MaxNumber : <<s, n>> \in issued}
Counted == \A s \in Series : last[s] <= MaxNumber /\ Used(s) = 1..last[s]
Unborn == \A s \in Series \ born : last[s] = 0
InHand ==
    \A h \in Handlers : Doing(h, "number") =>
        holder[request[h].s] = h /\ request[h].n = last[request[h].s] + 1

IdsInv == IdsTypes /\ Counted /\ Unborn /\ InHand

(* What a request is doing tells its fields.                               *)
LEMMA IdFields ==
    ASSUME NEW h \in Handlers, request \in [Handlers -> IdRequest]
    PROVE  /\ Doing(h, "number") => request[h].s \in Series /\ request[h].n \in Nat
           /\ Doing(h, "first") => request[h].s \in Series
           /\ Free(h) => ~Doing(h, "number")
  BY DEF Doing, Free, Idle, IdRequest

(* A request that goes on with r leaves the others alone.                  *)
LEMMA OneIdMoves ==
    ASSUME NEW h \in Handlers, NEW r \in IdRequest, Goto(h, r),
           request \in [Handlers -> IdRequest]
    PROVE  /\ request' \in [Handlers -> IdRequest]
           /\ request'[h] = r
           /\ \A g \in Handlers \ {h} : request'[g] = request[g]
  BY DEF Goto

LEMMA InitIds == IdsInit => IdsInv
<1> SUFFICES ASSUME IdsInit PROVE IdsInv
  OBVIOUS
<1>1. IdsTypes
  BY DEF IdsInit, AllIdle, IdsTypes, IdRequest
<1>2. Counted
  BY IdsAssumption DEF IdsInit, Counted, Used
<1>3. Unborn
  BY DEF IdsInit, Unborn
<1>4. InHand
  BY DEF IdsInit, AllIdle, Idle, InHand, Doing
<1> QED
  BY <1>1, <1>2, <1>3, <1>4 DEF IdsInv

(* A number is drawn, or the series inserted: h gets the lock and the next *)
(* number, and nobody had the lock.                                        *)
LEMMA DrawIds ==
    ASSUME IdsInv, NEW h \in Handlers, NEW s \in Series, holder[s] = Null,
           holder' = [holder EXCEPT ![s] = h],
           Goto(h, [op |-> "number", s |-> s, n |-> last[s] + 1]),
           UNCHANGED <<last, born, issued>>
    PROVE  IdsInv'
<1> DEFINE r == [op |-> "number", s |-> s, n |-> last[s] + 1]
<1>1. r \in IdRequest
  BY DEF IdsInv, IdsTypes, IdRequest
<1>2. /\ request' \in [Handlers -> IdRequest]
      /\ request'[h] = r
      /\ \A g \in Handlers \ {h} : request'[g] = request[g]
  BY <1>1, OneIdMoves DEF IdsInv, IdsTypes
<1>3. IdsTypes'
  BY <1>2 DEF IdsInv, IdsTypes
<1>4. Counted' /\ Unborn'
  BY DEF IdsInv, Counted, Unborn, Used
<1>5. InHand'
  <2> SUFFICES ASSUME NEW g \in Handlers, Doing(g, "number")'
               PROVE  (holder[request[g].s] = g /\ request[g].n = last[request[g].s] + 1)'
    BY DEF InHand
  <2>1. CASE g = h
    BY <1>2, <2>1 DEF IdsInv, IdsTypes
  <2>2. CASE g # h
    <3>1. Doing(g, "number") /\ request'[g] = request[g]
      BY <1>2, <2>2 DEF Doing
    <3>2. holder[request[g].s] = g /\ request[g].n = last[request[g].s] + 1
      BY <3>1 DEF IdsInv, InHand
    <3>3. request[g].s \in Series /\ request[g].s # s
      BY <3>1, <3>2, IdFields, IdsAssumption DEF IdsInv, IdsTypes
    <3> QED
      BY <3>1, <3>2, <3>3 DEF IdsInv, IdsTypes
  <2> QED
    BY <2>1, <2>2
<1> QED
  BY <1>3, <1>4, <1>5 DEF IdsInv

(* A request ends and gives its locks back; counters and ids stay.         *)
LEMMA RollbackIds ==
    ASSUME IdsInv, NEW h \in Handlers, Rollback(h)
    PROVE  IdsInv'
<1> USE DEF Rollback, Finish
<1>1. /\ request' \in [Handlers -> IdRequest]
      /\ request'[h] = Idle
      /\ \A g \in Handlers \ {h} : request'[g] = request[g]
  BY OneIdMoves DEF IdsInv, IdsTypes, IdRequest
<1>2. IdsTypes'
  BY <1>1 DEF IdsInv, IdsTypes, Released
<1>3. Counted' /\ Unborn'
  BY DEF IdsInv, Counted, Unborn, Used
<1>4. InHand'
  <2> SUFFICES ASSUME NEW g \in Handlers, Doing(g, "number")'
               PROVE  (holder[request[g].s] = g /\ request[g].n = last[request[g].s] + 1)'
    BY DEF InHand
  <2>1. g # h /\ Doing(g, "number") /\ request'[g] = request[g]
    BY <1>1 DEF Doing, Idle
  <2>2. holder[request[g].s] = g /\ request[g].s \in Series
    BY <2>1, IdFields DEF IdsInv, InHand, IdsTypes
  <2> QED
    BY <2>1, <2>2 DEF IdsInv, InHand, IdsTypes, Released
<1> QED
  BY <1>2, <1>3, <1>4 DEF IdsInv

(* The counter and the id of the number in hand are committed together.    *)
LEMMA CommitIds ==
    ASSUME IdsInv, NEW h \in Handlers, CommitVuln(h)
    PROVE  IdsInv'
<1> DEFINE s == request[h].s
<1> DEFINE n == request[h].n
<1>1. /\ Doing(h, "number") /\ s \in Series /\ n \in Nat /\ n <= MaxNumber
      /\ holder[s] = h /\ n = last[s] + 1
  BY IdFields DEF CommitVuln, IdsInv, IdsTypes, InHand
<1>2. /\ last' = [last EXCEPT ![s] = n]
      /\ born' = born \cup {s}
      /\ issued' = issued \cup {<<s, n>>}
      /\ holder' = Released(h)
  BY DEF CommitVuln
<1>3. /\ request' \in [Handlers -> IdRequest]
      /\ request'[h] = Idle
      /\ \A g \in Handlers \ {h} : request'[g] = request[g]
  BY OneIdMoves DEF CommitVuln, Finish, IdsInv, IdsTypes, IdRequest
<1>4. IdsTypes'
  BY <1>1, <1>2, <1>3 DEF IdsInv, IdsTypes, Released
<1>5. Counted'
  <2> SUFFICES ASSUME NEW t \in Series
               PROVE  last'[t] <= MaxNumber /\ Used(t)' = 1..last'[t]
    BY DEF Counted
  <2>1. last[t] \in Nat /\ last[t] <= MaxNumber /\ Used(t) = 1..last[t]
    BY DEF IdsInv, Counted, IdsTypes
  <2>2. CASE t = s
    <3>1. last'[t] = n
      BY <1>1, <1>2, <2>2 DEF IdsInv, IdsTypes
    <3>2. Used(t)' = Used(t) \cup {n}
      <4>1. \A m \in 1..MaxNumber : <<t, m>> \in issued' <=> <<t, m>> \in issued \/ m = n
        BY <1>2, <2>2
      <4>2. n \in 1..MaxNumber
        BY <1>1, <2>1, <2>2
      <4> QED
        BY <4>1, <4>2 DEF Used
    <3> QED
      BY <1>1, <2>1, <2>2, <3>1, <3>2
  <2>3. CASE t # s
    <3>1. last'[t] = last[t]
      BY <1>2, <2>3 DEF IdsInv, IdsTypes
    <3>2. Used(t)' = Used(t)
      BY <1>2, <2>3 DEF Used
    <3> QED
      BY <2>1, <3>1, <3>2
  <2> QED
    BY <2>2, <2>3
<1>6. Unborn'
  BY <1>2 DEF IdsInv, Unborn, IdsTypes
<1>7. InHand'
  <2> SUFFICES ASSUME NEW g \in Handlers, Doing(g, "number")'
               PROVE  (holder[request[g].s] = g /\ request[g].n = last[request[g].s] + 1)'
    BY DEF InHand
  <2>1. g # h /\ Doing(g, "number") /\ request'[g] = request[g]
    BY <1>3 DEF Doing, Idle
  <2>2. /\ holder[request[g].s] = g /\ request[g].n = last[request[g].s] + 1
        /\ request[g].s \in Series
    BY <2>1, IdFields DEF IdsInv, InHand, IdsTypes
  <2>3. request[g].s # s
    BY <1>1, <2>1, <2>2
  <2> QED
    BY <1>2, <2>1, <2>2, <2>3 DEF IdsInv, IdsTypes, Released
<1> QED
  BY <1>4, <1>5, <1>6, <1>7 DEF IdsInv

(* A request finds no series, or its insert meets one: no lock is taken.   *)
LEMMA NoLockIds ==
    ASSUME IdsInv, NEW h \in Handlers, NEW r \in IdRequest, r.op # "number", Goto(h, r),
           UNCHANGED <<last, born, holder, issued>>
    PROVE  IdsInv'
<1>1. /\ request' \in [Handlers -> IdRequest]
      /\ request'[h] = r
      /\ \A g \in Handlers \ {h} : request'[g] = request[g]
  BY OneIdMoves DEF IdsInv, IdsTypes
<1>2. IdsTypes'
  BY <1>1 DEF IdsInv, IdsTypes
<1>3. Counted' /\ Unborn'
  BY DEF IdsInv, Counted, Unborn, Used
<1>4. InHand'
  BY <1>1 DEF IdsInv, InHand, Doing
<1> QED
  BY <1>2, <1>3, <1>4 DEF IdsInv

LEMMA StepIds == IdsInv /\ [IdsNext]_idsVars => IdsInv'
<1> SUFFICES ASSUME IdsInv, [IdsNext]_idsVars PROVE IdsInv'
  OBVIOUS
<1>1. ASSUME NEW h \in Handlers, NEW s \in Series, DrawNumber(h, s) PROVE IdsInv'
  BY <1>1, DrawIds DEF DrawNumber
<1>2. ASSUME NEW h \in Handlers, NEW s \in Series, FindNoSeries(h, s) PROVE IdsInv'
  BY <1>2, NoLockIds DEF FindNoSeries, IdRequest
<1>3. ASSUME NEW h \in Handlers, InsertSeries(h) PROVE IdsInv'
  <2> DEFINE s == request[h].s
  <2>1. s \in Series /\ holder[s] = Null
    BY <1>3, IdFields DEF InsertSeries, IdsInv, IdsTypes
  <2>2. CASE s \in born
    BY <1>3, <2>2, NoLockIds DEF InsertSeries, Finish, IdRequest, Idle
  <2>3. CASE s \notin born
    <3>1. last[s] + 1 = 1
      BY <2>1, <2>3 DEF IdsInv, Unborn
    <3> QED
      BY <1>3, <2>1, <2>3, <3>1, DrawIds DEF InsertSeries
  <2> QED
    BY <2>2, <2>3
<1>4. ASSUME NEW h \in Handlers, CommitVuln(h) PROVE IdsInv'
  BY <1>4, CommitIds
<1>5. ASSUME NEW h \in Handlers, Rollback(h) PROVE IdsInv'
  BY <1>5, RollbackIds
<1>6. CASE UNCHANGED idsVars
  BY <1>6 DEF idsVars, IdsInv, IdsTypes, Counted, Unborn, Used, InHand, Doing
<1> QED
  BY <1>1, <1>2, <1>3, <1>4, <1>5, <1>6 DEF IdsNext

(* The ids of local vulnerabilities have neither gaps nor duplicates, for  *)
(* any number of requests, series and rollbacks: the row lock of           *)
(* next_local_id is held until the commit of create_local_vuln.            *)
THEOREM NumbersInOrder == IdsSpec => []IdsInOrder
<1>1. IdsInv => IdsInOrder
  <2> SUFFICES ASSUME IdsInv PROVE IdsInOrder
    OBVIOUS
  <2>1. \A s \in Series : {n \in 1..MaxNumber : <<s, n>> \in issued} = 1..last[s]
    BY DEF IdsInv, Counted, Used
  <2>2. ASSUME NEW h \in Handlers, NEW g \in Handlers \ {h},
               Doing(h, "number"), Doing(g, "number")
        PROVE  request[g].s # request[h].s
    BY <2>2 DEF IdsInv, InHand
  <2> QED
    BY <2>1, <2>2 DEF IdsInOrder, IdsInv, InHand
<1> QED
  BY <1>1, InitIds, StepIds, PTL DEF IdsSpec

-----------------------------------------------------------------------------
(* Dashboard layouts.  ActiveVisible is inductive once the requests name   *)
(* users and layouts.                                                      *)

LayoutRequest ==
    {Idle} \cup [op : {"ensure"}, missing : SUBSET Presets]
    \cup [op : {"create"}, u : Owners, suffix : Nat]
    \cup [op : {"activate"}, u : Owners, id : LayoutIds \cup {Classic},
          seen : LayoutIds \cup {Classic, NoRow, Null}]
    \cup [op : {"delete"}, u : Owners, id : LayoutIds, clear : BOOLEAN]

LayoutTypes ==
    /\ request \in [Handlers -> LayoutRequest]
    /\ layout \in [LayoutIds -> [owner : Owners \cup {Null}, suffix : Nat]]
    /\ active \in [Owners -> LayoutIds \cup {Classic, NoRow, Null}]

LayoutsInv == LayoutTypes /\ ActiveVisible

(* What a request is doing tells its fields.                               *)
LEMMA LayoutFields ==
    ASSUME NEW h \in Handlers, request \in [Handlers -> LayoutRequest]
    PROVE  /\ Doing(h, "create") => request[h].u \in Owners /\ request[h].suffix \in Nat
           /\ Doing(h, "activate") =>
                 request[h].u \in Owners /\ request[h].id \in LayoutIds \cup {Classic}
           /\ Doing(h, "delete") => request[h].u \in Owners /\ request[h].id \in LayoutIds
  BY DEF Doing, Idle, LayoutRequest

LEMMA LayoutGoto ==
    ASSUME NEW h \in Handlers, NEW r \in LayoutRequest, Goto(h, r),
           request \in [Handlers -> LayoutRequest]
    PROVE  request' \in [Handlers -> LayoutRequest]
  BY DEF Goto

LEMMA LayoutFinish ==
    ASSUME NEW h \in Handlers, Finish(h), request \in [Handlers -> LayoutRequest]
    PROVE  request' \in [Handlers -> LayoutRequest]
  BY LayoutGoto DEF Finish, LayoutRequest

LEMMA InitLayouts == LayoutsInit => LayoutsInv
  BY DEF LayoutsInit, LayoutsInv, LayoutTypes, ActiveVisible, AllIdle, LayoutRequest, Unused

(* Steps that leave the layouts and the choices alone.                     *)
LEMMA ReadLayouts ==
    ASSUME LayoutsInv, request' \in [Handlers -> LayoutRequest], UNCHANGED <<layout, active>>
    PROVE  LayoutsInv'
  BY DEF LayoutsInv, LayoutTypes, ActiveVisible, Visible, OwnedBy

(* A free id gets an owner: nobody had it active.                          *)
LEMMA CreateLayouts ==
    ASSUME LayoutsInv, NEW h \in Handlers, NEW l \in LayoutIds, CommitLayout(h, l)
    PROVE  LayoutsInv'
<1> DEFINE r == request[h]
<1>1. r.u \in Owners /\ r.suffix \in Nat
  BY LayoutFields DEF CommitLayout, LayoutsInv, LayoutTypes
<1>2. /\ layout' = [layout EXCEPT ![l] = [owner |-> r.u, suffix |-> r.suffix]]
      /\ layout[l].owner = Null
      /\ active' = active
  BY DEF CommitLayout, Unused
<1>3. request' \in [Handlers -> LayoutRequest]
  BY <1>1, LayoutGoto DEF CommitLayout, LayoutsInv, LayoutTypes, LayoutRequest
<1>4. LayoutTypes'
  BY <1>1, <1>2, <1>3 DEF LayoutsInv, LayoutTypes
<1>5. ActiveVisible'
  <2> SUFFICES ASSUME NEW u \in Owners, active'[u] \notin {NoRow, Null}
               PROVE  Visible(u, active[u])'
    BY DEF ActiveVisible
  <2>1. active[u] = Classic \/ (active[u] \in LayoutIds /\ layout[active[u]].owner = u)
    BY <1>2 DEF LayoutsInv, ActiveVisible, Visible, OwnedBy
  <2>2. active[u] \in LayoutIds /\ layout[active[u]].owner = u => active[u] # l
    BY <1>2, LayoutsAssumption
  <2> QED
    BY <1>2, <2>1, <2>2 DEF Visible, OwnedBy, LayoutsInv, LayoutTypes
<1> QED
  BY <1>4, <1>5 DEF LayoutsInv

(* The foreign key sees the layout at the commit.                          *)
LEMMA ActivateLayouts ==
    ASSUME LayoutsInv, NEW h \in Handlers, CommitActive(h)
    PROVE  LayoutsInv'
<1> DEFINE r == request[h]
<1> DEFINE refused == ~Visible(r.u, r.id) \/ (r.seen = NoRow /\ active[r.u] # NoRow)
<1>1. r.u \in Owners /\ r.id \in LayoutIds \cup {Classic}
  BY LayoutFields DEF CommitActive, LayoutsInv, LayoutTypes
<1>2. /\ active' = [active EXCEPT ![r.u] = IF refused \/ r.seen = r.id THEN @ ELSE r.id]
      /\ layout' = layout
  BY DEF CommitActive
<1>3. request' \in [Handlers -> LayoutRequest]
  BY LayoutFinish DEF CommitActive, LayoutsInv, LayoutTypes
<1>4. LayoutTypes'
  BY <1>1, <1>2, <1>3 DEF LayoutsInv, LayoutTypes
<1>5. ActiveVisible'
  <2> SUFFICES ASSUME NEW u \in Owners, active'[u] \notin {NoRow, Null}
               PROVE  Visible(u, active'[u])
    BY <1>2 DEF ActiveVisible, Visible, OwnedBy
  <2>1. CASE active'[u] = active[u]
    BY <2>1 DEF LayoutsInv, ActiveVisible
  <2>2. CASE active'[u] # active[u]
    BY <1>1, <1>2, <2>2 DEF LayoutsInv, LayoutTypes
  <2> QED
    BY <2>1, <2>2
<1> QED
  BY <1>4, <1>5 DEF LayoutsInv

(* ON DELETE SET NULL clears every choice of the layout.                   *)
LEMMA DeleteLayouts ==
    ASSUME LayoutsInv, NEW h \in Handlers, CommitDelete(h)
    PROVE  LayoutsInv'
<1> DEFINE r == request[h]
<1>1. r.u \in Owners /\ r.id \in LayoutIds
  BY LayoutFields DEF CommitDelete, LayoutsInv, LayoutTypes
<1>2. /\ layout' = [layout EXCEPT ![r.id] = Unused]
      /\ active' = [u \in Owners |->
            IF active[u] = r.id \/ (u = r.u /\ r.clear) THEN Null ELSE active[u]]
  BY DEF CommitDelete
<1>3. request' \in [Handlers -> LayoutRequest]
  BY LayoutFinish DEF CommitDelete, LayoutsInv, LayoutTypes
<1>4. LayoutTypes'
  BY <1>1, <1>2, <1>3 DEF LayoutsInv, LayoutTypes, Unused
<1>5. ActiveVisible'
  <2> SUFFICES ASSUME NEW u \in Owners, active'[u] \notin {NoRow, Null}
               PROVE  Visible(u, active[u])'
    BY DEF ActiveVisible
  <2>1. active'[u] = active[u] /\ active[u] # r.id
    BY <1>2
  <2>2. active[u] = Classic \/ (active[u] \in LayoutIds /\ layout[active[u]].owner = u)
    BY <2>1 DEF LayoutsInv, ActiveVisible, Visible, OwnedBy
  <2> QED
    BY <1>2, <2>1, <2>2 DEF Visible, OwnedBy, LayoutsInv, LayoutTypes
<1> QED
  BY <1>4, <1>5 DEF LayoutsInv

LEMMA StepLayouts == LayoutsInv /\ [LayoutsNext]_layoutsVars => LayoutsInv'
<1> SUFFICES ASSUME LayoutsInv, [LayoutsNext]_layoutsVars PROVE LayoutsInv'
  OBVIOUS
<1>1. CASE Boot \/ Stop
  <2>1. request' \in [Handlers -> LayoutRequest] /\ UNCHANGED <<layout, active>>
    BY <1>1 DEF Boot, Stop, AllIdle, LayoutRequest, LayoutsInv, LayoutTypes
  <2> QED
    BY <2>1, ReadLayouts
<1>2. ASSUME NEW h \in Handlers, EnsurePresets(h) \/ CommitPresets(h) PROVE LayoutsInv'
  <2>1. Missing \in SUBSET Presets
    BY DEF Missing
  <2>2. request' \in [Handlers -> LayoutRequest] /\ UNCHANGED <<layout, active>>
    BY <1>2, <2>1, LayoutGoto, LayoutFinish
       DEF EnsurePresets, CommitPresets, LayoutRequest, LayoutsInv, LayoutTypes
  <2> QED
    BY <2>2, ReadLayouts
<1>3. ASSUME NEW h \in Handlers, NEW u \in Owners, CreateLayout(h, u) PROVE LayoutsInv'
  <2>1. PICK n \in 1..(Cardinality(LayoutIds) + 1) :
           Goto(h, [op |-> "create", u |-> u, suffix |-> n])
    BY <1>3 DEF CreateLayout
  <2>2. n \in Nat
    OBVIOUS
  <2>3. request' \in [Handlers -> LayoutRequest]
    BY <2>1, <2>2, LayoutGoto DEF LayoutRequest, LayoutsInv, LayoutTypes
  <2> QED
    BY <1>3, <2>3, ReadLayouts DEF CreateLayout
<1>4. ASSUME NEW h \in Handlers, NEW u \in Owners, NEW l \in LayoutIds \cup {Classic},
             SetActive(h, u, l)
      PROVE  LayoutsInv'
  <2>1. request' \in [Handlers -> LayoutRequest]
    BY <1>4, LayoutGoto DEF SetActive, LayoutRequest, LayoutsInv, LayoutTypes
  <2> QED
    BY <1>4, <2>1, ReadLayouts DEF SetActive
<1>5. ASSUME NEW h \in Handlers, NEW u \in Owners, NEW l \in LayoutIds, DeleteLayout(h, u, l)
      PROVE  LayoutsInv'
  <2>1. (active[u] = l) \in BOOLEAN
    OBVIOUS
  <2>2. request' \in [Handlers -> LayoutRequest]
    BY <1>5, <2>1, LayoutGoto DEF DeleteLayout, LayoutRequest, LayoutsInv, LayoutTypes
  <2> QED
    BY <1>5, <2>2, ReadLayouts DEF DeleteLayout
<1>6. ASSUME NEW h \in Handlers, NEW l \in LayoutIds, CommitLayout(h, l) PROVE LayoutsInv'
  BY <1>6, CreateLayouts
<1>7. ASSUME NEW h \in Handlers, CommitActive(h) PROVE LayoutsInv'
  BY <1>7, ActivateLayouts
<1>8. ASSUME NEW h \in Handlers, CommitDelete(h) PROVE LayoutsInv'
  BY <1>8, DeleteLayouts
<1>9. CASE UNCHANGED layoutsVars
  BY <1>9, ReadLayouts DEF layoutsVars, LayoutsInv, LayoutTypes
<1> QED
  BY <1>1, <1>2, <1>3, <1>4, <1>5, <1>6, <1>7, <1>8, <1>9 DEF LayoutsNext

(* Whatever choices, creations and deletions overlap, the active layout is *)
(* a system layout or one the user owns: the foreign key of                *)
(* user_dashboard_prefs closes the window between the check and the write. *)
THEOREM ActiveIsVisible == LayoutsSpec => []ActiveVisible
<1>1. LayoutsInv => ActiveVisible
  BY DEF LayoutsInv
<1> QED
  BY <1>1, InitLayouts, StepLayouts, PTL DEF LayoutsSpec

-----------------------------------------------------------------------------
(* System presets.  PresetsUnique rests on what requests have seen: after  *)
(* a seed none finds a preset missing, and none survives the stop of the   *)
(* process, so that none is in flight when the next seed runs.             *)
PresetsInv ==
    /\ request = [h \in Handlers |-> request[h]]
    /\ preset \in [Presets -> Nat]
    /\ PresetsUnique
    /\ ~up => \A h \in Handlers : Free(h)
    /\ seeded => \A h \in Handlers : Doing(h, "ensure") => request[h].missing = {}

(* A handler that goes on with r leaves the others alone.                  *)
LEMMA OneMoves ==
    ASSUME NEW h \in Handlers, NEW r, Goto(h, r), request = [g \in Handlers |-> request[g]]
    PROVE  /\ request' = [g \in Handlers |-> request'[g]]
           /\ request'[h] = r
           /\ \A g \in Handlers \ {h} : request'[g] = request[g]
  BY DEF Goto

LEMMA InitPresets == LayoutsInit => PresetsInv
  BY DEF LayoutsInit, PresetsInv, PresetsUnique, AllIdle, Free, Doing, Idle

(* Handlers that leave the presets alone and look for none.                *)
LEMMA OtherPresets ==
    ASSUME PresetsInv, up, NEW h \in Handlers, NEW r, Goto(h, r),
           r.op = "ensure" /\ seeded => r.missing = {}, UNCHANGED <<up, seeded, preset>>
    PROVE  PresetsInv'
<1>1. /\ request' = [g \in Handlers |-> request'[g]]
      /\ request'[h] = r
      /\ \A g \in Handlers \ {h} : request'[g] = request[g]
  BY OneMoves DEF PresetsInv
<1>2. seeded' => \A g \in Handlers : Doing(g, "ensure")' => request'[g].missing = {}
  BY <1>1 DEF PresetsInv, Doing
<1> QED
  BY <1>1, <1>2 DEF PresetsInv, PresetsUnique

(* A seed inserts what is missing, and afterwards nothing is.              *)
LEMMA BootPresets ==
    ASSUME PresetsInv, Boot PROVE PresetsInv'
<1>1. /\ ~up /\ up' /\ UNCHANGED request
      /\ \A h \in Handlers : Free(h)
  BY DEF Boot, PresetsInv
<1>2. \A h \in Handlers : ~Doing(h, "ensure")'
  BY <1>1 DEF Free, Doing, Idle
<1>3. CASE UNCHANGED <<preset, seeded>>
  BY <1>1, <1>2, <1>3 DEF PresetsInv, PresetsUnique
<1>4. CASE ~Ambiguous /\ preset' = With(Missing) /\ seeded'
  <2>1. \A s \in Presets : preset[s] \in Nat /\ ~(preset[s] > 1)
    BY <1>4 DEF Ambiguous, PresetsInv
  <2>2. \A s \in Presets : preset'[s] = IF preset[s] = 0 THEN preset[s] + 1 ELSE preset[s]
    BY <1>4 DEF With, Missing
  <2>3. \A s \in Presets : preset'[s] = 1
    BY <2>1, <2>2
  <2>4. preset' \in [Presets -> Nat]
    BY <1>4, <2>3 DEF With
  <2> QED
    BY <1>1, <1>2, <2>3, <2>4 DEF PresetsInv, PresetsUnique
<1> QED
  BY <1>3, <1>4 DEF Boot

(* Presets that were missing when a request looked are inserted: none once *)
(* there was a seed.                                                       *)
LEMMA EnsurePresetsInv ==
    ASSUME PresetsInv, up, NEW h \in Handlers, CommitPresets(h) PROVE PresetsInv'
<1> DEFINE missing == request[h].missing
<1>1. /\ request' = [g \in Handlers |-> request'[g]]
      /\ request'[h] = Idle
      /\ \A g \in Handlers \ {h} : request'[g] = request[g]
  BY OneMoves DEF PresetsInv, CommitPresets, Finish
<1>2. /\ preset' = With(missing) /\ UNCHANGED <<up, seeded>>
      /\ seeded => missing = {}
  BY DEF CommitPresets, PresetsInv
<1>3. \A s \in Presets : preset'[s] = IF s \in missing THEN preset[s] + 1 ELSE preset[s]
  BY <1>2 DEF With
<1>4. preset' \in [Presets -> Nat]
  BY <1>2, <1>3 DEF With, PresetsInv
<1>5. PresetsUnique'
  BY <1>2, <1>3 DEF PresetsInv, PresetsUnique
<1>6. seeded' => \A g \in Handlers : Doing(g, "ensure")' => request'[g].missing = {}
  BY <1>1, <1>2 DEF PresetsInv, Doing, Idle
<1> QED
  BY <1>1, <1>2, <1>4, <1>5, <1>6 DEF PresetsInv

LEMMA StepPresets == PresetsInv /\ [LayoutsNext]_layoutsVars => PresetsInv'
<1> SUFFICES ASSUME PresetsInv, [LayoutsNext]_layoutsVars PROVE PresetsInv'
  OBVIOUS
<1>1. CASE Boot
  BY <1>1, BootPresets
<1>2. CASE Stop
  BY <1>2 DEF Stop, PresetsInv, PresetsUnique, AllIdle, Free, Doing, Idle
<1>3. ASSUME up, NEW h \in Handlers, EnsurePresets(h) PROVE PresetsInv'
  <2>1. seeded => Missing = {}
    BY DEF PresetsInv, PresetsUnique, Missing
  <2> QED
    BY <1>3, <2>1, OtherPresets DEF EnsurePresets
<1>4. ASSUME up, NEW h \in Handlers, CommitPresets(h) PROVE PresetsInv'
  BY <1>4, EnsurePresetsInv
<1>5. ASSUME up, NEW h \in Handlers, NEW u \in Owners, CreateLayout(h, u) PROVE PresetsInv'
  <2>1. PICK n \in 1..(Cardinality(LayoutIds) + 1) :
           Goto(h, [op |-> "create", u |-> u, suffix |-> n])
    BY <1>5 DEF CreateLayout
  <2> QED
    BY <1>5, <2>1, OtherPresets DEF CreateLayout
<1>6. ASSUME up, NEW h \in Handlers, NEW u \in Owners, NEW l \in LayoutIds \cup {Classic},
             SetActive(h, u, l)
      PROVE  PresetsInv'
  BY <1>6, OtherPresets DEF SetActive
<1>7. ASSUME up, NEW h \in Handlers, NEW u \in Owners, NEW l \in LayoutIds,
             DeleteLayout(h, u, l)
      PROVE  PresetsInv'
  BY <1>7, OtherPresets DEF DeleteLayout
<1>8. ASSUME up, NEW h \in Handlers, NEW l \in LayoutIds, CommitLayout(h, l)
      PROVE  PresetsInv'
  BY <1>8, OtherPresets DEF CommitLayout
<1>9. ASSUME up, NEW h \in Handlers, CommitActive(h) PROVE PresetsInv'
  BY <1>9, OtherPresets DEF CommitActive, Finish, Idle
<1>10. ASSUME up, NEW h \in Handlers, CommitDelete(h) PROVE PresetsInv'
  BY <1>10, OtherPresets DEF CommitDelete, Finish, Idle
<1>11. CASE UNCHANGED layoutsVars
  BY <1>11 DEF layoutsVars, PresetsInv, PresetsUnique, Free, Doing
<1> QED
  BY <1>1, <1>2, <1>3, <1>4, <1>5, <1>6, <1>7, <1>8, <1>9, <1>10, <1>11 DEF LayoutsNext

(* Once a seed has run through, every preset exists exactly once, whatever *)
(* first requests, restarts and failed seeds follow.                       *)
THEOREM PresetsStayUnique == LayoutsSpec => []PresetsUnique
<1>1. PresetsInv => PresetsUnique
  BY DEF PresetsInv
<1> QED
  BY <1>1, InitPresets, StepPresets, PTL DEF LayoutsSpec

-----------------------------------------------------------------------------
(* Devices of a login.  A device that never had two logins in flight has   *)
(* one login at most (Single), and this one's reading is current.          *)
Login == {Idle} \cup [op : {"track", "announce"}, d : Devices, new : BOOLEAN]

On(h, d) == ~Free(h) /\ request[h].d = d

Single(d) ==
    /\ \A g, h \in Handlers : On(g, d) /\ On(h, d) => g = h
    /\ announced[d] <= sessions[d] /\ sessions[d] <= 1
    /\ \A h \in Handlers : On(h, d) /\ request[h].new =>
          /\ announced[d] = 0
          /\ Doing(h, "track") => sessions[d] = 0
          /\ Doing(h, "announce") => sessions[d] = 1

SessionTypes ==
    /\ request \in [Handlers -> Login]
    /\ sessions \in [Devices -> Nat] /\ announced \in [Devices -> Nat]

SessionsInv == SessionTypes /\ \A d \in Devices \ met : Single(d)

LEMMA InitSessions == SessionsInit => SessionsInv
  BY DEF SessionsInit, SessionsInv, SessionTypes, Single, On, AllIdle, Login, Free

(* A login looks for its device.                                           *)
LEMMA FindSessions ==
    ASSUME SessionsInv, NEW h \in Handlers, NEW d \in Devices, FindDevice(h, d)
    PROVE  SessionsInv'
<1> DEFINE r == [op |-> "track", d |-> d, new |-> sessions[d] = 0]
<1>1. Goto(h, r) /\ Free(h) /\ UNCHANGED <<sessions, announced>>
  BY DEF FindDevice
<1>2. r \in Login /\ r # Idle
  <2>1. (sessions[d] = 0) \in BOOLEAN
    OBVIOUS
  <2> QED
    BY <2>1 DEF Login, Idle
<1>3. /\ request'[h] = r /\ request' \in [Handlers -> Login]
      /\ \A g \in Handlers \ {h} : request'[g] = request[g]
  BY <1>1, <1>2 DEF Goto, SessionsInv, SessionTypes
<1>4. ASSUME NEW e \in Devices \ met' PROVE Single(e)'
  <2>1. e \notin met /\ (e = d => \A g \in Handlers \ {h} : ~On(g, d))
    BY <1>4 DEF FindDevice, On
  <2>2. Single(e)
    BY <2>1 DEF SessionsInv
  <2>3. \A g \in Handlers \ {h} : On(g, e)' <=> On(g, e)
    BY <1>3 DEF On, Free
  <2>4. On(h, e)' <=> e = d
    BY <1>2, <1>3 DEF On, Free
  <2>5. announced[e] \in Nat /\ sessions[e] \in Nat
    BY DEF SessionsInv, SessionTypes
  <2>6. \A g, f \in Handlers : On(g, e)' /\ On(f, e)' => g = f
    BY <2>1, <2>2, <2>3, <2>4 DEF Single
  <2>7. ASSUME NEW g \in Handlers, On(g, e)', request'[g].new
        PROVE  /\ announced[e] = 0
               /\ Doing(g, "track")' => sessions[e] = 0
               /\ Doing(g, "announce")' => sessions[e] = 1
    <3>1. CASE g = h
      <4>1. e = d /\ request'[h].op = "track"
        BY <1>3, <2>4, <2>7, <3>1
      <4>2. r.new = (sessions[d] = 0) /\ request'[h].new = r.new /\ request'[h].new
        BY <1>3, <2>7, <3>1, Zenon
      <4>3. sessions[d] = 0
        BY <4>2, Zenon
      <4>4. announced[e] = 0
        BY <2>2, <2>5, <4>1, <4>3 DEF Single
      <4> QED
        BY <3>1, <4>1, <4>3, <4>4 DEF Doing
    <3>2. CASE g # h
      BY <1>3, <2>2, <2>3, <2>7, <3>2 DEF Single, Doing
    <3> QED
      BY <3>1, <3>2
  <2>8. announced'[e] <= sessions'[e] /\ sessions'[e] <= 1
    BY <1>1, <2>2 DEF Single
  <2>9. \A g \in Handlers : On(g, e)' /\ request'[g].new =>
           /\ announced'[e] = 0
           /\ Doing(g, "track")' => sessions'[e] = 0
           /\ Doing(g, "announce")' => sessions'[e] = 1
    BY <1>1, <2>7
  <2> HIDE DEF r
  <2> QED
    BY <2>6, <2>8, <2>9 DEF Single
<1> QED
  BY <1>1, <1>3, <1>4 DEF SessionsInv, SessionTypes

(* A login ends, or is lost.                                               *)
LEMMA LoseSessions ==
    ASSUME SessionsInv, NEW h \in Handlers, Lose(h)
    PROVE  SessionsInv'
<1>1. /\ request'[h] = Idle /\ request' \in [Handlers -> Login]
      /\ \A g \in Handlers \ {h} : request'[g] = request[g]
  BY DEF Lose, Finish, Goto, SessionsInv, SessionTypes, Login
<1>2. UNCHANGED <<sessions, announced, met>>
  BY DEF Lose
<1>3. ASSUME NEW e \in Devices \ met PROVE Single(e)'
  <2>1. \A g \in Handlers : On(g, e)' => On(g, e) /\ request'[g] = request[g]
    BY <1>1 DEF On, Free
  <2> QED
    BY <1>2, <2>1 DEF SessionsInv, Single, Doing
<1> QED
  BY <1>1, <1>2, <1>3 DEF SessionsInv, SessionTypes

(* The row is inserted if there was none: then nobody else's was.          *)
LEMMA TrackSessions ==
    ASSUME SessionsInv, NEW h \in Handlers, TrackLogin(h)
    PROVE  SessionsInv'
<1> DEFINE d == request[h].d
<1>1. /\ Doing(h, "track") /\ ~Free(h) /\ d \in Devices /\ request[h].new \in BOOLEAN
      /\ UNCHANGED <<announced, met>>
  BY DEF TrackLogin, SessionsInv, SessionTypes, Login, Doing, Free, Idle
<1>2. sessions' = [sessions EXCEPT ![d] = IF request[h].new THEN @ + 1 ELSE @]
  BY DEF TrackLogin
<1>3. [request[h] EXCEPT !.op = "announce"] \in Login
  BY <1>1 DEF SessionsInv, SessionTypes, Login, Idle, Free
<1>4. /\ request' \in [Handlers -> Login]
      /\ request'[h] = [request[h] EXCEPT !.op = "announce"]
      /\ \A g \in Handlers \ {h} : request'[g] = request[g]
  BY <1>3 DEF TrackLogin, Goto, SessionsInv, SessionTypes
<1>5. /\ request'[h].d = d /\ request'[h].new = request[h].new
      /\ request'[h].op = "announce" /\ request'[h] # Idle
  BY <1>1, <1>4 DEF SessionsInv, SessionTypes, Login, Idle, Free
<1>6. sessions' \in [Devices -> Nat]
  BY <1>1, <1>2 DEF SessionsInv, SessionTypes
<1>7. ASSUME NEW e \in Devices \ met PROVE Single(e)'
  <2>1. Single(e)
    BY DEF SessionsInv
  <2>2. \A g \in Handlers : On(g, e)' <=> On(g, e)
    BY <1>1, <1>4, <1>5 DEF On, Free
  <2>3. announced[e] \in Nat /\ sessions[e] \in Nat
    BY DEF SessionsInv, SessionTypes
  <2>4. \A g, f \in Handlers : On(g, e)' /\ On(f, e)' => g = f
    BY <2>1, <2>2 DEF Single
  <2>5. CASE e # d
    <3>1. sessions'[e] = sessions[e]
      BY <1>1, <1>2, <2>5 DEF SessionsInv, SessionTypes
    <3>2. \A g \in Handlers : On(g, e) => request'[g] = request[g]
      BY <1>4, <2>5 DEF On
    <3> QED
      BY <1>1, <2>1, <2>2, <3>1, <3>2 DEF Single, Doing
  <2>6. CASE e = d
    <3>1. On(h, e) /\ \A g \in Handlers : On(g, e) => g = h
      BY <1>1, <2>1, <2>6 DEF On, Single
    <3>2. CASE request[h].new
      <4>1. announced[e] = 0 /\ sessions[e] = 0 /\ sessions'[e] = 1
        BY <1>1, <1>2, <2>1, <2>6, <3>1, <3>2 DEF Single, SessionsInv, SessionTypes
      <4> QED
        BY <1>1, <1>5, <2>2, <2>4, <3>1, <4>1 DEF Single, Doing
    <3>3. CASE ~request[h].new
      <4>1. sessions'[e] = sessions[e]
        BY <1>1, <1>2, <2>6, <3>3 DEF SessionsInv, SessionTypes
      <4>2. \A g \in Handlers : On(g, e)' => ~request'[g].new
        BY <1>5, <2>2, <3>1, <3>3
      <4> QED
        BY <1>1, <2>1, <2>4, <4>1, <4>2 DEF Single
    <3> QED
      BY <3>2, <3>3
  <2> QED
    BY <2>5, <2>6
<1> QED
  BY <1>1, <1>4, <1>6, <1>7 DEF SessionsInv, SessionTypes

(* A device is announced by the login that inserted its row.               *)
LEMMA AnnounceSessions ==
    ASSUME SessionsInv, NEW h \in Handlers, Announce(h)
    PROVE  SessionsInv'
<1> DEFINE d == request[h].d
<1>1. /\ Doing(h, "announce") /\ ~Free(h) /\ d \in Devices /\ request[h].new \in BOOLEAN
      /\ UNCHANGED <<sessions, met>>
  BY DEF Announce, SessionsInv, SessionTypes, Login, Doing, Free, Idle
<1>2. announced' = [announced EXCEPT ![d] = IF request[h].new THEN @ + 1 ELSE @]
  BY DEF Announce
<1>3. /\ request'[h] = Idle /\ request' \in [Handlers -> Login]
      /\ \A g \in Handlers \ {h} : request'[g] = request[g]
  BY DEF Announce, Finish, Goto, SessionsInv, SessionTypes, Login
<1>4. announced' \in [Devices -> Nat]
  BY <1>1, <1>2 DEF SessionsInv, SessionTypes
<1>5. ASSUME NEW e \in Devices \ met PROVE Single(e)'
  <2>1. Single(e)
    BY DEF SessionsInv
  <2>2. \A g \in Handlers : On(g, e)' => g # h /\ On(g, e) /\ request'[g] = request[g]
    BY <1>3 DEF On, Free
  <2>3. CASE e # d
    <3>1. announced'[e] = announced[e]
      BY <1>1, <1>2, <2>3 DEF SessionsInv, SessionTypes
    <3> QED
      BY <1>1, <2>1, <2>2, <3>1 DEF Single, Doing
  <2>4. CASE e = d
    <3>1. On(h, e)
      BY <1>1, <2>4 DEF On
    <3>2. \A g \in Handlers : ~On(g, e)'
      BY <2>1, <2>2, <3>1 DEF Single
    <3>3. announced'[e] <= sessions[e]
      <4>1. CASE request[h].new
        BY <1>1, <1>2, <2>1, <2>4, <3>1, <4>1 DEF Single, SessionsInv, SessionTypes
      <4>2. CASE ~request[h].new
        BY <1>1, <1>2, <2>1, <2>4, <4>2 DEF Single, SessionsInv, SessionTypes
      <4> QED
        BY <4>1, <4>2
    <3> QED
      BY <1>1, <2>1, <3>2, <3>3 DEF Single
  <2> QED
    BY <2>3, <2>4
<1> QED
  BY <1>1, <1>3, <1>4, <1>5 DEF SessionsInv, SessionTypes

LEMMA StepSessions == SessionsInv /\ [SessionsNext]_sessionsVars => SessionsInv'
<1> SUFFICES ASSUME SessionsInv, [SessionsNext]_sessionsVars PROVE SessionsInv'
  OBVIOUS
<1>1. CASE UNCHANGED sessionsVars
  BY <1>1 DEF sessionsVars, SessionsInv, SessionTypes, Single, On, Free, Doing
<1> QED
  BY <1>1, FindSessions, TrackSessions, AnnounceSessions, LoseSessions DEF SessionsNext

(* One row and one announcement for each device that never had two logins  *)
(* in flight at once, for any number of devices and logins.                *)
THEOREM DevicesAreNewOnce == SessionsSpec => []NewDeviceOnce
<1>1. SessionsInv => NewDeviceOnce
  BY DEF SessionsInv, Single, NewDeviceOnce
<1> QED
  BY <1>1, InitSessions, StepSessions, PTL DEF SessionsSpec

-----------------------------------------------------------------------------
(* Settings forms.  A key that is not lost is in the hands of at most one  *)
(* save, the last that named it (Kept), which has read what the key holds  *)
(* once it has come to it.                                                 *)
Kept(f) ==
    /\ \A g, h \in Handlers : f \in Left(g) /\ f \in Left(h) => g = h
    /\ \A h \in Handlers : f \in Left(h) =>
          /\ request[h].version = wanted[f]
          /\ f = First(request[h].left) => request[h].seen = setting[f]
    /\ (\A h \in Handlers : f \notin Left(h)) => setting[f] = wanted[f]

SettingsInv ==
    /\ request = [h \in Handlers |-> request[h]]
    /\ setting = [f \in Fields |-> setting[f]]
    /\ \A h \in Handlers :
          \/ Free(h)
          \/ Doing(h, "save") /\ request[h].left \in SUBSET Fields /\ request[h].left # {}
    /\ \A f \in Fields \ lost : Kept(f)

(* A well-founded order has a minimal element in every nonempty set.       *)
LEMMA Minimal ==
    ASSUME NEW R, NEW T \in SUBSET Nat, T # {}, IsWellFoundedOn(R, Nat)
    PROVE  \E x \in T : \A y \in T : ~(<<y, x>> \in R)
<1>1. IsWellFoundedOn(R, Nat) /\ T \subseteq Nat /\ T # {}
  OBVIOUS
<1> QED
  BY <1>1, WFMin

(* The first of some keys in the order of the form is one of them.         *)
LEMMA FirstIsLeft ==
    ASSUME NEW left \in SUBSET Fields, left # {}
    PROVE  First(left) \in left
<1> DEFINE T == {i \in DOMAIN Form : Form[i] \in left}
<1>1. T \in SUBSET Nat /\ T # {}
  BY FormAssumption DEF Fields
<1>2. \A x, y \in Nat : x < y => <<x, y>> \in OpToRel(<, Nat)
  BY DEF OpToRel
<1>3. IsWellFoundedOn(OpToRel(<, Nat), Nat)
  BY NatLessThanWellFounded
<1>4. PICK i \in T : \A j \in T : ~(<<j, i>> \in OpToRel(<, Nat))
  <2> HIDE DEF T
  <2> QED
    BY <1>1, <1>3, Minimal, Zenon
<1>5. \A j \in DOMAIN Form : j < i => Form[j] \notin left
  <2> SUFFICES ASSUME NEW j \in DOMAIN Form, j < i, Form[j] \in left PROVE FALSE
    OBVIOUS
  <2>1. j \in T /\ j \in Nat /\ i \in Nat
    BY <1>1, <1>4
  <2> QED
    BY <1>2, <1>4, <2>1
<1> QED
  BY <1>4, <1>5 DEF First

LEMMA InitSettings == SettingsInit => SettingsInv
  BY DEF SettingsInit, SettingsInv, Kept, Left, AllIdle, Idle, Free, Doing

(* A save begins: the keys it names that nobody else carries are its own.  *)
LEMMA SaveSettings ==
    ASSUME SettingsInv, NEW h \in Handlers, NEW v \in Versions,
           NEW sent \in SUBSET Fields, Save(h, v, sent)
    PROVE  SettingsInv'
<1>1. /\ request' = [g \in Handlers |-> request'[g]]
      /\ request'[h] = At(v, sent)
      /\ \A g \in Handlers \ {h} : request'[g] = request[g]
      /\ setting' = setting /\ Free(h)
      /\ wanted' = [f \in Fields |-> IF f \in sent THEN v ELSE wanted[f]]
      /\ lost' = (lost \ sent) \cup (sent \cap UNION {Left(g) : g \in Handlers \ {h}})
  BY OneMoves DEF Save, SettingsInv
<1>2. \A g \in Handlers \ {h} : Left(g)' = Left(g)
  BY <1>1 DEF Left, Doing
<1>3. Left(h) = {}
  BY <1>1 DEF Left, Doing, Free, Idle
<1>4. IF sent = {} THEN Free(h)'
      ELSE /\ request'[h] = [op |-> "save", version |-> v, left |-> sent,
                             seen |-> setting[First(sent)]]
           /\ Doing(h, "save")'
  BY <1>1 DEF At, Free, Doing
<1>5. Left(h)' = sent
  BY <1>4 DEF Left, Doing, Free, Idle
<1>6. \A g \in Handlers :
        \/ Free(g)'
        \/ Doing(g, "save")' /\ request'[g].left \in SUBSET Fields /\ request'[g].left # {}
  <2> SUFFICES ASSUME NEW g \in Handlers
               PROVE  \/ Free(g)'
                      \/ /\ Doing(g, "save")'
                         /\ request'[g].left \in SUBSET Fields /\ request'[g].left # {}
    OBVIOUS
  <2>1. CASE g = h
    BY <1>4, <2>1
  <2>2. CASE g # h
    BY <1>1, <2>2 DEF SettingsInv, Free, Doing
  <2> QED
    BY <2>1, <2>2
<1>7. ASSUME NEW f \in Fields \ lost' PROVE Kept(f)'
  <2>1. CASE f \in sent
    <3>1. \A g \in Handlers \ {h} : f \notin Left(g)'
      BY <1>1, <1>2, <1>7, <2>1
    <3>2. f \in Left(h)' /\ sent # {}
      BY <1>5, <2>1
    <3>3. request'[h].version = v /\ request'[h].left = sent
          /\ request'[h].seen = setting[First(sent)]
      BY <1>4, <3>2
    <3>4. wanted'[f] = v
      BY <1>1, <2>1
    <3> QED
      BY <1>1, <3>1, <3>2, <3>3, <3>4 DEF Kept
  <2>2. CASE f \notin sent
    <3>1. Kept(f)
      BY <1>1, <1>7, <2>2 DEF SettingsInv
    <3>2. f \notin Left(h) /\ f \notin Left(h)' /\ wanted'[f] = wanted[f]
      BY <1>1, <1>3, <1>5, <2>2
    <3> QED
      BY <1>1, <1>2, <3>1, <3>2 DEF Kept
  <2> QED
    BY <2>1, <2>2
<1> QED
  BY <1>1, <1>6, <1>7 DEF SettingsInv

(* A key is committed, or refused with everything behind it.               *)
LEMMA FieldSettings ==
    ASSUME SettingsInv, NEW h \in Handlers, CommitField(h)
    PROVE  SettingsInv'
<1> DEFINE r == request[h]
           f == First(r.left)
           rest == r.left \ {f}
           refused == r.seen = Null /\ setting[f] # Null
<1>1. /\ Doing(h, "save") /\ wanted' = wanted
      /\ r.left \in SUBSET Fields /\ r.left # {}
      /\ Left(h) = r.left
  BY DEF CommitField, SettingsInv, Doing, Free, Idle, Left
<1>2. f \in r.left
  BY <1>1, FirstIsLeft
<1>3. CASE refused
  <2>1. /\ request' = [g \in Handlers |-> request'[g]]
        /\ request'[h] = Idle
        /\ \A g \in Handlers \ {h} : request'[g] = request[g]
        /\ setting' = setting /\ lost' = lost \cup r.left
    BY <1>3, OneMoves DEF CommitField, Finish, SettingsInv
  <2>2. /\ \A g \in Handlers \ {h} : Left(g)' = Left(g)
        /\ Left(h)' = {}
    BY <2>1 DEF Left, Doing, Idle
  <2>3. ASSUME NEW k \in Fields \ lost' PROVE Kept(k)'
    <3>1. Kept(k) /\ k \notin Left(h)
      BY <1>1, <2>1, <2>3 DEF SettingsInv
    <3> QED
      BY <1>1, <2>1, <2>2, <3>1 DEF Kept
  <2> QED
    BY <2>1, <2>3 DEF SettingsInv, Free, Doing
<1>4. CASE ~refused
  <2>1. /\ request' = [g \in Handlers |-> request'[g]]
        /\ request'[h] = At(r.version, rest)
        /\ \A g \in Handlers \ {h} : request'[g] = request[g]
    <3>1. Goto(h, At(r.version, rest))
      BY <1>4 DEF CommitField
    <3> QED
      BY <3>1, OneMoves DEF SettingsInv
  <2>2. /\ setting' = [setting EXCEPT ![f] = IF r.seen = r.version THEN @ ELSE r.version]
        /\ lost' = lost
    BY <1>4 DEF CommitField
  <2>3. IF rest = {} THEN Free(h)'
        ELSE /\ request'[h] = [op |-> "save", version |-> r.version, left |-> rest,
                               seen |-> setting[First(rest)]]
             /\ Doing(h, "save")'
    BY <2>1 DEF At, Free, Doing
  <2>4. Left(h)' = rest /\ \A g \in Handlers \ {h} : Left(g)' = Left(g)
    <3>1. Left(h)' = rest
      BY <2>3 DEF Left, Doing, Free, Idle
    <3> QED
      BY <2>1, <3>1 DEF Left, Doing
  <2>5. rest # {} => First(rest) \in rest /\ First(rest) # f /\ First(rest) \in Fields
    BY <1>1, FirstIsLeft
  <2>6. setting' = [k \in Fields |-> setting'[k]] /\ \A k \in Fields : k # f => setting'[k] = setting[k]
    BY <2>2 DEF SettingsInv
  <2>7. \A g \in Handlers :
          \/ Free(g)'
          \/ Doing(g, "save")' /\ request'[g].left \in SUBSET Fields /\ request'[g].left # {}
    <3> SUFFICES ASSUME NEW g \in Handlers
                 PROVE  \/ Free(g)'
                        \/ /\ Doing(g, "save")'
                           /\ request'[g].left \in SUBSET Fields /\ request'[g].left # {}
      OBVIOUS
    <3>1. CASE g = h
      BY <1>1, <2>3, <3>1
    <3>2. CASE g # h
      BY <2>1, <3>2 DEF SettingsInv, Free, Doing
    <3> QED
      BY <3>1, <3>2
  <2>8. ASSUME NEW k \in Fields \ lost' PROVE Kept(k)'
    <3>1. Kept(k)
      BY <2>2, <2>8 DEF SettingsInv
    <3>2. CASE k \notin r.left
      <4>1. k # f /\ k \notin Left(h) /\ k \notin Left(h)' /\ setting'[k] = setting[k]
        BY <1>1, <1>2, <2>4, <2>6, <3>2
      <4> HIDE DEF f, r, rest, refused
      <4> QED
        BY <1>1, <2>1, <2>4, <3>1, <4>1 DEF Kept
    <3>3. CASE k = f
      <4>1. /\ \A g \in Handlers \ {h} : f \notin Left(g)
            /\ r.version = wanted[f] /\ r.seen = setting[f]
        BY <1>1, <1>2, <3>1, <3>3 DEF Kept
      <4>2. setting'[f] = wanted[f] /\ \A g \in Handlers : f \notin Left(g)'
        BY <1>1, <1>2, <2>2, <2>4, <4>1 DEF SettingsInv
      <4> HIDE DEF f, r, rest, refused
      <4> QED
        BY <1>1, <3>3, <4>2 DEF Kept
    <3>4. CASE k \in rest
      <4>1. /\ \A g \in Handlers \ {h} : k \notin Left(g)'
            /\ r.version = wanted[k]
        BY <1>1, <2>4, <3>1, <3>4 DEF Kept
      <4>2. /\ request'[h].version = r.version /\ request'[h].left = rest
            /\ request'[h].seen = setting[First(rest)]
        BY <2>3, <3>4
      <4>3. k = First(rest) => request'[h].seen = setting'[k]
        BY <2>5, <2>6, <3>4, <4>2
      <4>4. k \in Left(h)'
        BY <2>4, <3>4
      <4> HIDE DEF f, r, rest, refused
      <4> QED
        BY <1>1, <4>1, <4>2, <4>3, <4>4 DEF Kept
    <3> QED
      BY <3>2, <3>3, <3>4
  <2> QED
    BY <2>1, <2>6, <2>7, <2>8 DEF SettingsInv
<1> QED
  BY <1>3, <1>4

LEMMA StepSettings == SettingsInv /\ [SettingsNext]_settingsVars => SettingsInv'
<1> SUFFICES ASSUME SettingsInv, [SettingsNext]_settingsVars PROVE SettingsInv'
  OBVIOUS
<1>1. ASSUME NEW h \in Handlers, Break(h) PROVE SettingsInv'
  <2>1. /\ request' = [g \in Handlers |-> request'[g]]
        /\ request'[h] = Idle
        /\ \A g \in Handlers \ {h} : request'[g] = request[g]
        /\ setting' = setting /\ wanted' = wanted /\ lost' = lost \cup Left(h)
    BY <1>1, OneMoves DEF Break, Finish, SettingsInv
  <2>2. /\ \A g \in Handlers \ {h} : Left(g)' = Left(g)
        /\ Left(h)' = {}
    BY <2>1 DEF Left, Doing, Idle
  <2>3. ASSUME NEW k \in Fields \ lost' PROVE Kept(k)'
    <3>1. Kept(k) /\ k \notin Left(h)
      BY <2>1, <2>3 DEF SettingsInv
    <3> QED
      BY <2>1, <2>2, <3>1 DEF Kept
  <2> QED
    BY <2>1, <2>3 DEF SettingsInv, Free, Doing
<1>2. CASE UNCHANGED settingsVars
  BY <1>2 DEF settingsVars, SettingsInv, Kept, Left, Free, Doing
<1> QED
  BY <1>1, <1>2, SaveSettings, FieldSettings DEF SettingsNext

(* A key of a settings form holds what the last save that named it         *)
(* carried, whatever forms there are and however many saves of other keys  *)
(* were in flight or broke off: set_setting leaves nothing to a later one. *)
THEOREM FieldsStayAsSaved == SettingsSpec => []FieldsAsSaved
<1>1. SettingsInv => FieldsAsSaved
  BY DEF SettingsInv, Kept, FieldsAsSaved
<1> QED
  BY <1>1, InitSettings, StepSettings, PTL DEF SettingsSpec

-----------------------------------------------------------------------------
(* Groups, for every set of requests, users, groups and directory entries. *)
(* GroupsAsChosen first.  The strengthening: an update in flight whose     *)
(* user has no other finds the membership as it read it, but for groups    *)
(* deleted since (Fresh), and ids are never used again (Ids).              *)
Handed == 1..inserted

(* What the provers need of the types.                                     *)
Types ==
    /\ request = [h \in Handlers |-> request[h]]
    /\ \A h \in Handlers :
          /\ Doing(h, "create") => request[h].row \in Row
          /\ Doing(h, "members") =>
                /\ request[h].u \in Members
                /\ request[h].selection \subseteq Handed /\ request[h].seen \subseteq Handed
    /\ group \in [GroupIds -> Row \cup {Null}]
    /\ inserted \in Nat
    /\ member \in [Members -> SUBSET Nat]
    /\ chosen \in [Members -> SUBSET Nat]

Ids ==
    /\ Existing \subseteq Handed
    /\ \A u \in Members : member[u] \subseteq Handed /\ chosen[u] \subseteq Handed

Updates(h, u) == Doing(h, "members") /\ request[h].u = u

Fresh ==
    \A u \in Members \ crossed : \A h \in Handlers : Updates(h, u) =>
        /\ member[u] = request[h].seen \cap Existing
        /\ \A g \in Handlers : Updates(g, u) => g = h

GroupsInv == Types /\ Ids /\ Fresh /\ GroupsAsChosen

LEMMA InitInv == GroupsInit => GroupsInv
<1> SUFFICES ASSUME GroupsInit PROVE GroupsInv
  OBVIOUS
<1>1. \A h \in Handlers : ~Doing(h, "create") /\ ~Doing(h, "members")
  BY DEF GroupsInit, AllIdle, Idle, Doing
<1>2. Existing = {}
  BY DEF GroupsInit, Existing
<1>3. Types
  BY <1>1, GroupsAssumption DEF GroupsInit, AllIdle, Types, GroupIds
<1>4. Ids
  BY <1>2 DEF GroupsInit, Ids
<1>5. Fresh
  BY <1>1 DEF Fresh, Updates
<1>6. GroupsAsChosen
  BY <1>2 DEF GroupsInit, GroupsAsChosen
<1> QED
  BY <1>3, <1>4, <1>5, <1>6 DEF GroupsInv

(* A request that goes on with r leaves the others alone.                  *)
LEMMA OnlyOneMoves ==
    ASSUME NEW h \in Handlers, NEW r, Goto(h, r),
           request = [g \in Handlers |-> request[g]]
    PROVE  /\ request' = [g \in Handlers |-> request'[g]]
           /\ request'[h] = r
           /\ \A g \in Handlers \ {h} : request'[g] = request[g]
  BY DEF Goto

(* A request that ends, or goes on without an update, while groups come:   *)
(* every id that was handed out keeps its row or its absence.              *)
LEMMA GrowInv ==
    ASSUME GroupsInv, NEW h \in Handlers, NEW r, Goto(h, r),
           r.op # "members", r.op = "create" => r.row \in Row,
           group' \in [GroupIds -> Row \cup {Null}],
           inserted' \in Nat, inserted <= inserted',
           Existing' \subseteq Handed', Existing' \cap Handed = Existing,
           UNCHANGED <<member, chosen, crossed>>
    PROVE  GroupsInv'
<1>1. /\ request' = [g \in Handlers |-> request'[g]]
      /\ request'[h] = r
      /\ \A g \in Handlers \ {h} : request'[g] = request[g]
  BY OnlyOneMoves DEF GroupsInv, Types
<1>2. Handed \subseteq Handed'
  BY DEF Handed, GroupsInv, Types
<1>3. Types'
  <2>1. \A g \in Handlers :
           /\ Doing(g, "create")' => request'[g].row \in Row
           /\ Doing(g, "members")' =>
                 /\ request'[g].u \in Members
                 /\ request'[g].selection \subseteq Handed'
                 /\ request'[g].seen \subseteq Handed'
    BY <1>1, <1>2 DEF GroupsInv, Types, Doing
  <2> QED
    BY <1>1, <2>1 DEF GroupsInv, Types
<1>4. Ids'
  BY <1>2 DEF GroupsInv, Ids
<1>5. Fresh'
  <2> SUFFICES ASSUME NEW u \in Members \ crossed, NEW g \in Handlers, Updates(g, u)'
               PROVE  /\ member[u] = request'[g].seen \cap Existing'
                      /\ \A f \in Handlers : Updates(f, u)' => f = g
    BY DEF Fresh
  <2>1. \A f \in Handlers : Updates(f, u)' => f # h /\ Updates(f, u) /\ request'[f] = request[f]
    BY <1>1 DEF Updates, Doing
  <2>2. /\ member[u] = request[g].seen \cap Existing
        /\ request[g].seen \subseteq Handed
        /\ \A f \in Handlers : Updates(f, u) => f = g
    BY <2>1 DEF GroupsInv, Fresh, Types, Updates
  <2> QED
    BY <2>1, <2>2
<1>6. GroupsAsChosen'
  BY DEF GroupsInv, Ids, GroupsAsChosen
<1> QED
  BY <1>3, <1>4, <1>5, <1>6 DEF GroupsInv

(* An administrator's form is read: no row changes.                        *)
LEMMA ReadInv ==
    ASSUME GroupsInv, NEW h \in Handlers, NEW r, Goto(h, r),
           r.op # "members", r.op = "create" => r.row \in Row,
           UNCHANGED <<group, inserted, member, chosen, crossed>>
    PROVE  GroupsInv'
<1>1. /\ Existing' = Existing /\ Handed' = Handed
      /\ Existing \subseteq Handed
  BY DEF Existing, Handed, GroupsInv, Ids
<1> QED
  BY <1>1, GrowInv DEF GroupsInv, Types

LEMMA CreateInv ==
    ASSUME GroupsInv, NEW h \in Handlers, CommitGroup(h)
    PROVE  GroupsInv'
<1>1. /\ request[h].row \in Row /\ inserted \in Nat /\ inserted + 1 \in GroupIds
      /\ group' = [group EXCEPT ![inserted + 1] = request[h].row]
      /\ inserted' = inserted + 1
  BY GroupsAssumption DEF CommitGroup, GroupsInv, Types, GroupIds
<1>2. group' \in [GroupIds -> Row \cup {Null}]
  BY <1>1 DEF GroupsInv, Types
<1>3. \A g \in GroupIds : g # inserted + 1 => group'[g] = group[g]
  BY <1>1 DEF GroupsInv, Types
<1>4. Existing \subseteq 1..inserted
  BY DEF GroupsInv, Ids, Handed
<1>5. Existing' \subseteq Handed' /\ Existing' \cap Handed = Existing
  BY <1>1, <1>3, <1>4 DEF Existing, Handed, GroupIds
<1> QED
  BY <1>1, <1>2, <1>5, GrowInv DEF CommitGroup, Finish, Idle

LEMMA SyncInv ==
    ASSUME GroupsInv, NEW h \in Handlers, CommitSync(h)
    PROVE  GroupsInv'
<1> DEFINE r == request[h]
<1> DEFINE kept == DOMAIN r.seen \cap Existing
<1>1. PICK want \in [DOMAIN r.seen -> Entries], n \in 0..(MaxGroups - inserted) :
         \E at \in [1..n -> Unmatched(r.pick)] :
            /\ inserted' = inserted + n
            /\ group' = [g \in GroupIds |->
                  IF g \in kept THEN Merged(group[g], r.seen[g], want[g])
                  ELSE IF g \in (inserted + 1)..(inserted + n) THEN Directory[at[g - inserted]]
                  ELSE group[g]]
  BY DEF CommitSync
<1>2. PICK at \in [1..n -> Unmatched(r.pick)] :
         group' = [g \in GroupIds |->
            IF g \in kept THEN Merged(group[g], r.seen[g], want[g])
            ELSE IF g \in (inserted + 1)..(inserted + n) THEN Directory[at[g - inserted]]
            ELSE group[g]]
  BY <1>1
<1>3. /\ inserted \in Nat /\ inserted' \in Nat /\ inserted <= inserted'
      /\ inserted' = inserted + n /\ n \in Nat /\ inserted' <= MaxGroups
  BY <1>1, GroupsAssumption DEF GroupsInv, Types
<1>4. \A g \in kept : group'[g] \in Row
  <2> SUFFICES ASSUME NEW g \in kept PROVE group'[g] \in Row
    OBVIOUS
  <2>1. group[g] \in Row /\ want[g] \in Row /\ g \in GroupIds
    BY GroupsAssumption DEF Existing, GroupsInv, Types
  <2>2. Merged(group[g], r.seen[g], want[g]) \in Row
    BY <2>1 DEF Merged, Row
  <2> QED
    BY <1>2, <2>1, <2>2
<1>5. ASSUME NEW g \in (GroupIds \ kept) \cap ((inserted + 1)..(inserted + n))
      PROVE  group'[g] \in Row
  <2>1. g - inserted \in 1..n
    BY <1>3
  <2>2. Directory[at[g - inserted]] \in Entries
    BY <2>1 DEF Unmatched, Entries
  <2> QED
    BY <1>2, <2>2, GroupsAssumption
<1>6. \A g \in GroupIds \ (kept \cup ((inserted + 1)..(inserted + n))) : group'[g] = group[g]
  BY <1>2
<1>7. group' \in [GroupIds -> Row \cup {Null}]
  BY <1>2, <1>4, <1>5, <1>6 DEF GroupsInv, Types
<1>8. Existing \subseteq 1..inserted /\ kept \subseteq Existing
  BY DEF GroupsInv, Ids, Handed
<1>9. Existing' \subseteq Handed' /\ Existing' \cap Handed = Existing
  <2>1. ASSUME NEW g \in Existing' PROVE g \in Handed'
    BY <1>3, <1>6, <1>8, <2>1 DEF Existing, Handed
  <2>2. ASSUME NEW g \in Existing', g \in Handed PROVE g \in Existing
    BY <1>3, <1>6, <1>8, <2>2 DEF Existing, Handed
  <2>3. ASSUME NEW g \in Existing PROVE g \in Existing' /\ g \in Handed
    <3>1. CASE g \in kept
      BY <1>4, <1>8, <3>1, GroupsAssumption DEF Existing, Handed
    <3>2. CASE g \notin kept
      BY <1>3, <1>6, <1>8, <3>2 DEF Existing, Handed
    <3> QED
      BY <3>1, <3>2
  <2> QED
    BY <2>1, <2>2, <2>3
<1> QED
  BY <1>3, <1>7, <1>9, GrowInv DEF CommitSync, Finish, Idle

(* The cascade takes the group out of every membership.                    *)
LEMMA DeleteInv ==
    ASSUME GroupsInv, NEW h \in Handlers, CommitDeleteGroup(h)
    PROVE  GroupsInv'
<1> DEFINE g == request[h].g
<1>1. /\ group' = [group EXCEPT ![g] = Null]
      /\ member' = [u \in Members |-> member[u] \ {g}]
      /\ UNCHANGED <<inserted, chosen, crossed>>
  BY DEF CommitDeleteGroup
<1>2. /\ request' = [f \in Handlers |-> request'[f]]
      /\ request'[h] = Idle
      /\ \A f \in Handlers \ {h} : request'[f] = request[f]
  BY OnlyOneMoves DEF CommitDeleteGroup, Finish, GroupsInv, Types
<1>3. Existing' = Existing \ {g} /\ Handed' = Handed
  BY <1>1 DEF Existing, Handed, GroupsInv, Types
<1>4. \A f \in Handlers :
         (Doing(f, "members")' \/ Doing(f, "create")') => f # h /\ request'[f] = request[f]
  BY <1>2 DEF Doing, Idle
<1>5. Types'
  <2>1. \A f \in Handlers :
           /\ Doing(f, "create")' => request'[f].row \in Row
           /\ Doing(f, "members")' =>
                 /\ request'[f].u \in Members
                 /\ request'[f].selection \subseteq Handed'
                 /\ request'[f].seen \subseteq Handed'
    BY <1>3, <1>4 DEF GroupsInv, Types, Doing
  <2>2. group' \in [GroupIds -> Row \cup {Null}]
    BY <1>1 DEF GroupsInv, Types
  <2> QED
    BY <1>1, <1>2, <2>1, <2>2 DEF GroupsInv, Types
<1>6. Ids'
  BY <1>1, <1>3 DEF GroupsInv, Ids
<1>7. Fresh'
  <2> SUFFICES ASSUME NEW u \in Members \ crossed, NEW f \in Handlers, Updates(f, u)'
               PROVE  /\ member'[u] = request'[f].seen \cap Existing'
                      /\ \A e \in Handlers : Updates(e, u)' => e = f
    BY <1>1 DEF Fresh
  <2>1. \A e \in Handlers : Updates(e, u)' => Updates(e, u) /\ request'[e] = request[e]
    BY <1>4 DEF Updates, Doing
  <2>2. /\ member[u] = request[f].seen \cap Existing
        /\ \A e \in Handlers : Updates(e, u) => e = f
    BY <2>1 DEF GroupsInv, Fresh
  <2> QED
    BY <1>1, <1>3, <2>1, <2>2
<1>8. GroupsAsChosen'
  BY <1>1, <1>3 DEF GroupsInv, GroupsAsChosen
<1> QED
  BY <1>5, <1>6, <1>7, <1>8 DEF GroupsInv

(* An update is read: if the user has another one in flight both are       *)
(* crossed from now on.                                                    *)
LEMMA SelectInv ==
    ASSUME GroupsInv, NEW h \in Handlers, NEW u \in Members, NEW selection \in SUBSET Existing,
           SetGroups(h, u, selection)
    PROVE  GroupsInv'
<1> DEFINE r == [op |-> "members", u |-> u, selection |-> selection, seen |-> member[u]]
<1>1. /\ request' = [g \in Handlers |-> request'[g]]
      /\ request'[h] = r
      /\ \A g \in Handlers \ {h} : request'[g] = request[g]
  BY OnlyOneMoves DEF SetGroups, GroupsInv, Types
<1>2. /\ UNCHANGED <<group, inserted, member, chosen>>
      /\ Existing' = Existing /\ Handed' = Handed
  BY DEF SetGroups, Existing, Handed
<1>3. selection \subseteq Handed /\ member[u] \subseteq Handed
  BY DEF GroupsInv, Ids
<1>4. Types'
  <2>1. \A g \in Handlers :
           /\ Doing(g, "create")' => request'[g].row \in Row
           /\ Doing(g, "members")' =>
                 /\ request'[g].u \in Members
                 /\ request'[g].selection \subseteq Handed'
                 /\ request'[g].seen \subseteq Handed'
    BY <1>1, <1>2, <1>3 DEF GroupsInv, Types, Doing
  <2> QED
    BY <1>1, <1>2, <2>1 DEF GroupsInv, Types
<1>5. Ids'
  BY <1>2 DEF GroupsInv, Ids
<1>6. crossed \subseteq crossed'
  BY DEF SetGroups
<1>7. Fresh'
  <2> SUFFICES ASSUME NEW v \in Members \ crossed', NEW g \in Handlers, Updates(g, v)'
               PROVE  /\ member[v] = request'[g].seen \cap Existing
                      /\ \A f \in Handlers : Updates(f, v)' => f = g
    BY <1>2 DEF Fresh
  <2>1. v \in Members \ crossed
    BY <1>6
  <2>2. CASE v = u
    <3>1. \A f \in Handlers : ~Updates(f, u)
      BY <2>2 DEF SetGroups, Updates
    <3>2. \A f \in Handlers : Updates(f, u)' => f = h
      BY <1>1, <3>1 DEF Updates, Doing
    <3>3. member[u] \subseteq Existing
      BY <2>1, <2>2 DEF GroupsInv, GroupsAsChosen
    <3> QED
      BY <1>1, <2>2, <3>2, <3>3
  <2>3. CASE v # u
    <3>1. \A f \in Handlers : Updates(f, v)' => Updates(f, v) /\ request'[f] = request[f]
      BY <1>1, <2>3 DEF Updates, Doing
    <3> QED
      BY <2>1, <3>1 DEF GroupsInv, Fresh
  <2> QED
    BY <2>2, <2>3
<1>8. GroupsAsChosen'
  BY <1>2, <1>6 DEF GroupsInv, GroupsAsChosen
<1> QED
  BY <1>4, <1>5, <1>7, <1>8 DEF GroupsInv

(* The differences to a fresh reading add up to the selection.             *)
LEMMA MembersInv ==
    ASSUME GroupsInv, NEW h \in Handlers, CommitMembers(h)
    PROVE  GroupsInv'
<1> DEFINE r == request[h]
<1> DEFINE added == r.selection \ r.seen
<1>1. /\ Doing(h, "members") /\ r.u \in Members
      /\ r.selection \subseteq Handed /\ r.seen \subseteq Handed
  BY DEF CommitMembers, GroupsInv, Types
<1>2. /\ added \subseteq Existing
      /\ member' = [member EXCEPT ![r.u] = (@ \ (r.seen \ r.selection)) \cup added]
      /\ chosen' = [chosen EXCEPT ![r.u] = r.selection]
      /\ UNCHANGED <<group, inserted, crossed>>
  BY DEF CommitMembers
<1>3. Existing' = Existing /\ Handed' = Handed
  BY <1>2 DEF Existing, Handed
<1>4. /\ request' = [f \in Handlers |-> request'[f]]
      /\ request'[h] = Idle
      /\ \A f \in Handlers \ {h} : request'[f] = request[f]
  BY OnlyOneMoves DEF CommitMembers, Finish, GroupsInv, Types
<1>5. \A f \in Handlers :
         (Doing(f, "members")' \/ Doing(f, "create")') => f # h /\ request'[f] = request[f]
  BY <1>4 DEF Doing, Idle
<1>6. r.selection \subseteq Nat /\ added \subseteq Nat
  BY <1>1 DEF Handed
<1>7. /\ \A u \in Members \ {r.u} : member'[u] = member[u] /\ chosen'[u] = chosen[u]
      /\ member'[r.u] = (member[r.u] \ (r.seen \ r.selection)) \cup added
      /\ chosen'[r.u] = r.selection
  BY <1>1, <1>2 DEF GroupsInv, Types
<1>8. Types'
  <2>1. \A f \in Handlers :
           /\ Doing(f, "create")' => request'[f].row \in Row
           /\ Doing(f, "members")' =>
                 /\ request'[f].u \in Members
                 /\ request'[f].selection \subseteq Handed'
                 /\ request'[f].seen \subseteq Handed'
    BY <1>3, <1>5 DEF GroupsInv, Types, Doing
  <2>2. chosen' \in [Members -> SUBSET Nat]
    BY <1>1, <1>2, <1>6 DEF GroupsInv, Types
  <2>3. member' \in [Members -> SUBSET Nat]
    BY <1>1, <1>2, <1>6 DEF GroupsInv, Types
  <2> QED
    BY <1>2, <1>4, <2>1, <2>2, <2>3 DEF GroupsInv, Types
<1>9. Ids'
  <2>1. ASSUME NEW u \in Members PROVE member'[u] \subseteq Handed /\ chosen'[u] \subseteq Handed
    BY <1>1, <1>7 DEF GroupsInv, Ids
  <2> QED
    BY <1>3, <2>1 DEF GroupsInv, Ids
<1>10. Fresh'
  <2> SUFFICES ASSUME NEW u \in Members \ crossed, NEW f \in Handlers, Updates(f, u)'
               PROVE  /\ member'[u] = request'[f].seen \cap Existing
                      /\ \A e \in Handlers : Updates(e, u)' => e = f
    BY <1>2, <1>3 DEF Fresh
  <2>1. \A e \in Handlers : Updates(e, u)' =>
           e # h /\ Updates(e, u) /\ request'[e] = request[e]
    BY <1>5 DEF Updates, Doing
  <2>2. /\ member[u] = request[f].seen \cap Existing
        /\ \A e \in Handlers : Updates(e, u) => e = f
    BY <2>1 DEF GroupsInv, Fresh
  <2>3. u # r.u
    BY <1>1, <2>1, <2>2 DEF Updates
  <2> QED
    BY <1>7, <2>1, <2>2, <2>3
<1>11. GroupsAsChosen'
  <2> SUFFICES ASSUME NEW u \in Members \ crossed
               PROVE  member'[u] = chosen'[u] \cap Existing
    BY <1>2, <1>3 DEF GroupsAsChosen
  <2>1. CASE u = r.u
    <3>1. member[u] = r.seen \cap Existing
      BY <1>1, <2>1 DEF GroupsInv, Fresh, Updates
    <3> QED
      BY <1>2, <1>7, <2>1, <3>1
  <2>2. CASE u # r.u
    BY <1>7, <2>2 DEF GroupsInv, GroupsAsChosen
  <2> QED
    BY <2>1, <2>2
<1> QED
  BY <1>8, <1>9, <1>10, <1>11 DEF GroupsInv

LEMMA StepInv == GroupsInv /\ [GroupsNext]_groupsVars => GroupsInv'
<1> SUFFICES ASSUME GroupsInv, [GroupsNext]_groupsVars PROVE GroupsInv'
  OBVIOUS
<1>1. ASSUME NEW h \in Handlers, NEW name \in Names,
             NEW ext \in {e.ext : e \in Entries} \cup {Null}, CreateGroup(h, name, ext)
      PROVE  GroupsInv'
  <2>1. [name |-> name, ext |-> ext] \in Row
    BY DEF Row
  <2> QED
    BY <1>1, <2>1, ReadInv DEF CreateGroup
<1>2. ASSUME NEW h \in Handlers, NEW g \in GroupIds, DeleteGroup(h, g) PROVE GroupsInv'
  BY <1>2, ReadInv DEF DeleteGroup
<1>3. ASSUME NEW h \in Handlers, NEW planned \in SUBSET Entries, SyncGroups(h, planned)
      PROVE  GroupsInv'
  <2>1. PICK pick \in [planned -> GroupIds \cup {0}] :
           Goto(h, [op |-> "sync", pick |-> pick,
                    seen |-> [g \in {pick[e] : e \in planned} \ {0} |-> group[g]]])
    BY <1>3 DEF SyncGroups
  <2> QED
    BY <1>3, <2>1, ReadInv DEF SyncGroups
<1>4. ASSUME NEW h \in Handlers, Refuse(h) PROVE GroupsInv'
  BY <1>4, ReadInv DEF Refuse, Finish, Idle
<1>5. CASE UNCHANGED groupsVars
  <2>1. Existing' = Existing /\ Handed' = Handed
    BY <1>5 DEF groupsVars, Existing, Handed
  <2> QED
    BY <1>5, <2>1
       DEF groupsVars, GroupsInv, Types, Ids, Fresh, GroupsAsChosen, Updates, Doing
<1> QED
  BY <1>1, <1>2, <1>3, <1>4, <1>5, CreateInv, SyncInv, DeleteInv, SelectInv, MembersInv
     DEF GroupsNext

(* A user is in the groups of the last selection that still exist, however *)
(* many requests, deletions and directory syncs there are, as long as no   *)
(* two updates of the user are in flight at once.                          *)
THEOREM MembershipAsChosen == GroupsSpec => []GroupsAsChosen
<1>1. GroupsInv => GroupsAsChosen
  BY DEF GroupsInv
<1> QED
  BY <1>1, InitInv, StepInv, PTL DEF GroupsSpec

-----------------------------------------------------------------------------
(* ListedKept for every set of requests, groups and directory.  The        *)
(* strengthening: what a sync in flight has read of a group matches the    *)
(* entry it is meant for, and the group is since as it was read or already *)
(* as the entry (Plan); while nobody mixed two entries, no row does.       *)
(* What sync_ldap_groups looks for: the name or the external id of entry.*)
Like(row, e) == row.name = e.name \/ row.ext = e.ext

(* No row has the name of one entry and the external id of another.        *)
Pure(row) == \A a, b \in Entries : row.name = a.name /\ row.ext = b.ext => a = b

(* What a sync has read, beside the groups as they are now.              *)
Plan(r) ==
    /\ DOMAIN r.pick \subseteq Entries
    /\ DOMAIN r.seen = {r.pick[e] : e \in DOMAIN r.pick} \ {0}
    /\ \A e \in DOMAIN r.pick : LET g == r.pick[e] IN g # 0 =>
          /\ g \in Handed /\ r.seen[g] \in Row
          /\ ~mixed => Like(r.seen[g], e) /\ Pure(r.seen[g])
          /\ ~mixed /\ g \in Existing => group[g] \in {r.seen[g], e}

Planned == \A h \in Handlers : Doing(h, "sync") => Plan(request[h])

ListedInv ==
    /\ Planned
    /\ ListedKept
    /\ ~mixed => \A g \in Existing : Pure(group[g])

(* A row that mixes no entries matches one of them at most.                *)
LEMMA LikeOne ==
    ASSUME NEW row, Pure(row), NEW a \in Entries, NEW b \in Entries,
           Like(row, a), Like(row, b)
    PROVE  a = b
  BY GroupsAssumption DEF Like, Pure

(* An entry mixes nothing.                                                 *)
LEMMA EntryPure ==
    ASSUME NEW e \in Entries PROVE Pure(e)
  BY GroupsAssumption DEF Pure

LEMMA InitListed == GroupsInit => ListedInv
<1> SUFFICES ASSUME GroupsInit PROVE ListedInv
  OBVIOUS
<1>1. \A h \in Handlers : ~Doing(h, "sync")
  BY DEF GroupsInit, AllIdle, Idle, Doing
<1>2. Existing = {} /\ listed = {}
  BY DEF GroupsInit, Existing
<1> QED
  BY <1>1, <1>2 DEF ListedInv, Planned, ListedKept

(* The group a sync found for an entry still matches it.                   *)
LEMMA StillLike ==
    ASSUME NEW r, Plan(r), NEW e \in DOMAIN r.pick, r.pick[e] # 0, r.pick[e] \in Existing,
           ~mixed
    PROVE  Like(group[r.pick[e]], e)
  BY DEF Plan, Like

(* Rows come, go, or become the entry they match: other plans still hold.  *)
LEMMA RowsChange ==
    ASSUME GroupsInv, ListedInv, NEW h \in Handlers, NEW r, Goto(h, r),
           r.op = "sync" => Plan(r)', Handed \subseteq Handed', mixed => mixed',
           ~mixed' => \A g \in Existing' :
              \/ g \notin Handed /\ Pure(group'[g])
              \/ /\ g \in Existing
                 /\ group'[g] = group[g] \/ group'[g] \in {e \in Entries : Like(group[g], e)},
           ~mixed' => \A e \in Entries : e.name \in listed' =>
              \/ \E g \in Existing' : group'[g] = e
              \/ e.name \in listed /\ \A g \in Existing : group[g] = e => g \in Existing'
    PROVE  ListedInv'
<1>1. /\ request'[h] = r
      /\ \A g \in Handlers \ {h} : request'[g] = request[g]
  BY OnlyOneMoves DEF GroupsInv, Types
<1>2. Existing \subseteq Handed
  BY DEF GroupsInv, Ids
<1>3. ~mixed' => ~mixed /\ \A g \in Existing : Pure(group[g])
  BY DEF ListedInv
<1>4. Planned'
  <2> SUFFICES ASSUME NEW f \in Handlers, Doing(f, "sync")' PROVE Plan(request[f])'
    BY DEF Planned
  <2>1. CASE f = h
    BY <1>1, <2>1 DEF Doing
  <2>2. CASE f # h
    <3> DEFINE q == request[f]
    <3>1. request'[f] = q /\ Plan(q)
      BY <1>1, <2>2 DEF ListedInv, Planned, Doing
    <3> HIDE DEF q
    <3>2. ASSUME NEW e \in DOMAIN q.pick, NEW g, g = q.pick[e], g # 0
          PROVE  /\ g \in Handed' /\ q.seen[g] \in Row
                 /\ ~mixed' => Like(q.seen[g], e) /\ Pure(q.seen[g])
                 /\ ~mixed' /\ g \in Existing' => group'[g] \in {q.seen[g], e}
      <4>1. /\ g \in Handed /\ q.seen[g] \in Row /\ e \in Entries
            /\ ~mixed => Like(q.seen[g], e) /\ Pure(q.seen[g])
            /\ ~mixed /\ g \in Existing => group[g] \in {q.seen[g], e}
        BY <3>1, <3>2 DEF Plan
      <4>2. ASSUME ~mixed', g \in Existing' PROVE group'[g] \in {q.seen[g], e}
        <5>1. g \in Existing /\ Like(group[g], e) /\ Pure(group[g])
          BY <1>3, <3>1, <3>2, <4>1, <4>2, StillLike
        <5>2. CASE group'[g] = group[g]
          BY <1>3, <4>1, <4>2, <5>1, <5>2
        <5>3. CASE group'[g] \in {b \in Entries : Like(group[g], b)}
          BY <4>1, <5>1, <5>3, LikeOne
        <5> QED
          BY <4>1, <4>2, <5>2, <5>3
      <4> QED
        BY <1>3, <4>1, <4>2
    <3>3. DOMAIN q.pick \subseteq Entries /\ DOMAIN q.seen = {q.pick[e] : e \in DOMAIN q.pick} \ {0}
      BY <3>1 DEF Plan
    <3>4. request[f]' = q
      BY <3>1
    <3> QED
      BY <3>2, <3>3, <3>4 DEF Plan
  <2> QED
    BY <2>1, <2>2
<1>5. ListedKept'
  <2> SUFFICES ASSUME ~mixed', NEW e \in Entries, e.name \in listed'
               PROVE  \E g \in Existing' : group'[g] = e
    BY DEF ListedKept
  <2>1. CASE e.name \in listed /\ \A g \in Existing : group[g] = e => g \in Existing'
    <3>1. PICK g \in Existing : group[g] = e
      BY <1>3, <2>1 DEF ListedInv, ListedKept
    <3>2. g \in Existing' /\ g \in Handed /\ Pure(group[g]) /\ Like(group[g], e)
      BY <1>2, <1>3, <2>1, <3>1 DEF Like
    <3>3. CASE group'[g] = group[g]
      BY <3>1, <3>2, <3>3
    <3>4. CASE group'[g] \in {b \in Entries : Like(group[g], b)}
      BY <3>2, <3>4, LikeOne
    <3> QED
      BY <3>2, <3>3, <3>4
  <2> QED
    BY <2>1
<1>6. ASSUME ~mixed', NEW g \in Existing' PROVE Pure(group'[g])
  BY <1>3, <1>6, EntryPure
<1> QED
  BY <1>4, <1>5, <1>6 DEF ListedInv, Pure

(* A step that leaves the groups alone, and reads none for a sync.         *)
LEMMA RowsStay ==
    ASSUME GroupsInv, ListedInv, NEW h \in Handlers, NEW r, Goto(h, r), r.op # "sync",
           UNCHANGED <<group, inserted, listed, mixed>>
    PROVE  ListedInv'
<1>1. Existing' = Existing /\ Handed' = Handed
  BY DEF Existing, Handed
<1>2. Existing \subseteq Handed
  BY DEF GroupsInv, Ids
<1> QED
  BY <1>1, <1>2, RowsChange DEF ListedInv, ListedKept

(* A sync reads the groups it finds for its entries.                       *)
LEMMA SyncReads ==
    ASSUME GroupsInv, ListedInv, NEW h \in Handlers, NEW planned \in (SUBSET Entries) \ {{}},
           SyncGroups(h, planned)
    PROVE  ListedInv'
<1>1. PICK pick \in [planned -> GroupIds \cup {0}] :
         /\ \A e \in planned : IF Matches(e) = {} THEN pick[e] = 0 ELSE pick[e] \in Matches(e)
         /\ Goto(h, [op |-> "sync", pick |-> pick,
                     seen |-> [g \in {pick[e] : e \in planned} \ {0} |-> group[g]]])
  BY DEF SyncGroups
<1> PICK seen : seen = [g \in {pick[e] : e \in planned} \ {0} |-> group[g]]
  OBVIOUS
<1> PICK r : r = [op |-> "sync", pick |-> pick, seen |-> seen]
  OBVIOUS
<1>2. UNCHANGED <<group, inserted, listed, mixed>>
  BY DEF SyncGroups
<1>3. Existing' = Existing /\ Handed' = Handed /\ Existing \subseteq Handed
  BY <1>2 DEF Existing, Handed, GroupsInv, Ids
<1>4. ASSUME NEW e \in planned, pick[e] # 0
      PROVE  /\ pick[e] \in Existing /\ pick[e] \in Handed
             /\ seen[pick[e]] = group[pick[e]] /\ group[pick[e]] \in Row
             /\ Like(group[pick[e]], e)
             /\ ~mixed => Pure(group[pick[e]])
  <2>1. pick[e] \in Matches(e)
    BY <1>1, <1>4
  <2>2. pick[e] \in Existing /\ Like(group[pick[e]], e)
    BY <2>1 DEF Matches, Like
  <2>3. seen[pick[e]] = group[pick[e]]
    BY <1>4
  <2>4. group[pick[e]] \in Row
    BY <2>2 DEF GroupsInv, Types, Existing
  <2> QED
    BY <1>3, <2>2, <2>3, <2>4 DEF ListedInv
<1>5. Plan(r)'
  <2>1. r.pick = pick /\ r.seen = seen /\ DOMAIN pick = planned
    OBVIOUS
  <2>2. DOMAIN seen = {pick[e] : e \in planned} \ {0}
    OBVIOUS
  <2> QED
    BY <1>2, <1>3, <1>4, <2>1, <2>2 DEF Plan
<1>6. Goto(h, r)
  BY <1>1
<1>7. /\ \A g \in Existing' : g \in Existing /\ group'[g] = group[g]
      /\ \A e \in Entries : e.name \in listed' => e.name \in listed
      /\ \A g \in Existing : g \in Existing'
      /\ mixed' = mixed
  BY <1>2, <1>3
<1> QED
  BY <1>3, <1>5, <1>6, <1>7, RowsChange

LEMMA CreateListed ==
    ASSUME GroupsInv, ListedInv, NEW h \in Handlers, CommitGroup(h)
    PROVE  ListedInv'
<1> DEFINE row == request[h].row
           new == inserted + 1
<1>1. /\ Goto(h, Idle) /\ row \in Row /\ inserted \in Nat /\ new \in GroupIds
      /\ group' = [group EXCEPT ![new] = row] /\ inserted' = new /\ listed' = listed
      /\ mixed' = (mixed \/ \E a, b \in Entries : a # b /\ a.name = row.name /\ b.ext = row.ext)
  BY GroupsAssumption DEF CommitGroup, Finish, GroupsInv, Types, GroupIds
<1>2. Existing \subseteq Handed /\ Handed \subseteq Handed' /\ new \notin Handed
  BY <1>1 DEF GroupsInv, Ids, Handed
<1>3. \A g \in GroupIds : group'[g] = IF g = new THEN row ELSE group[g]
  BY <1>1 DEF GroupsInv, Types
<1>4. \A g \in Existing' : g # new => g \in Existing /\ group'[g] = group[g]
  BY <1>3 DEF Existing
<1>5. \A g \in Existing : g \in Existing' /\ group'[g] = group[g]
  BY <1>2, <1>3 DEF Existing
<1>6. ~mixed' => ~mixed /\ Pure(row)
  BY <1>1 DEF Pure
<1>7. Idle.op # "sync"
  BY DEF Idle
<1> HIDE DEF row, new
<1>8. ~mixed' => \A g \in Existing' :
         \/ g \notin Handed /\ Pure(group'[g])
         \/ g \in Existing /\ group'[g] = group[g]
  BY <1>2, <1>3, <1>4, <1>6 DEF Existing
<1> QED
  BY <1>1, <1>2, <1>5, <1>6, <1>7, <1>8, RowsChange DEF ListedInv, ListedKept

LEMMA DeleteListed ==
    ASSUME GroupsInv, ListedInv, NEW h \in Handlers, CommitDeleteGroup(h)
    PROVE  ListedInv'
<1> DEFINE d == request[h].g
<1>1. /\ Goto(h, Idle) /\ group' = [group EXCEPT ![d] = Null]
      /\ listed' = IF d \in Existing THEN listed \ {group[d].name} ELSE listed
      /\ UNCHANGED <<inserted, mixed>>
  BY DEF CommitDeleteGroup, Finish
<1>2. /\ Handed' = Handed /\ Idle.op # "sync"
      /\ \A g \in Existing' : g \in Existing /\ group'[g] = group[g]
      /\ \A g \in Existing : g # d => g \in Existing' /\ group'[g] = group[g]
  BY <1>1 DEF Handed, Existing, Idle, GroupsInv, Types
<1>3. ASSUME NEW e \in Entries, e.name \in listed'
      PROVE  e.name \in listed /\ \A g \in Existing : group[g] = e => g \in Existing'
  BY <1>1, <1>2, <1>3
<1> HIDE DEF d
<1> QED
  BY <1>1, <1>2, <1>3, RowsChange

(* The groups found become their entries, the missing ones are inserted.   *)
LEMMA SyncListed ==
    ASSUME GroupsInv, ListedInv, NEW h \in Handlers, CommitSync(h)
    PROVE  ListedInv'
<1> DEFINE r == request[h]
           kept == DOMAIN r.seen \cap Existing
<1>a. PICK want \in [DOMAIN r.seen -> Entries], n \in 0..(MaxGroups - inserted) :
         \E at \in [1..n -> Unmatched(r.pick)] :
            /\ \A g \in DOMAIN r.seen : EndsAs(r.pick, g, want[g])
            /\ \A i \in Unmatched(r.pick) : \E k \in 1..n : at[k] = i
            /\ inserted' = inserted + n
            /\ group' = [g \in GroupIds |->
                  IF g \in kept THEN Merged(group[g], r.seen[g], want[g])
                  ELSE IF g \in (inserted + 1)..(inserted + n) THEN Directory[at[g - inserted]]
                  ELSE group[g]]
            /\ listed' = listed \cup
                  {e.name : e \in {e \in DOMAIN r.pick : r.pick[e] \in kept \cup {0}}}
  BY DEF CommitSync
<1>1. PICK at \in [1..n -> Unmatched(r.pick)] :
         /\ \A g \in DOMAIN r.seen : EndsAs(r.pick, g, want[g])
         /\ \A i \in Unmatched(r.pick) : \E k \in 1..n : at[k] = i
         /\ inserted' = inserted + n
         /\ group' = [g \in GroupIds |->
               IF g \in kept THEN Merged(group[g], r.seen[g], want[g])
               ELSE IF g \in (inserted + 1)..(inserted + n) THEN Directory[at[g - inserted]]
               ELSE group[g]]
         /\ listed' = listed \cup
               {e.name : e \in {e \in DOMAIN r.pick : r.pick[e] \in kept \cup {0}}}
  BY <1>a
<1>2. Goto(h, Idle) /\ mixed' = mixed /\ Idle.op # "sync" /\ Plan(r)
  BY DEF CommitSync, Finish, Idle, ListedInv, Planned
<1>3. /\ inserted \in Nat /\ inserted' \in Nat /\ inserted <= inserted' /\ n \in Nat
      /\ inserted' <= MaxGroups /\ MaxGroups \in Nat
  BY <1>a, <1>1, GroupsAssumption DEF GroupsInv, Types
<1>4. Existing \subseteq Handed /\ Existing \subseteq GroupIds /\ Handed \subseteq Handed'
  BY <1>3 DEF Existing, GroupsInv, Ids, Handed
<1> HIDE DEF r
(* A group found becomes the entry that found it.                          *)
<1>5. ASSUME ~mixed, NEW g \in kept
      PROVE  /\ want[g] \in DOMAIN r.pick /\ r.pick[want[g]] = g /\ want[g] \in Entries
             /\ group'[g] = want[g] /\ Like(group[g], want[g]) /\ Pure(group[g])
  <2> DEFINE e == want[g]
  <2>1. e \in DOMAIN r.pick /\ r.pick[e] = g /\ e \in Entries
    BY <1>1 DEF EndsAs
  <2>2. g # 0 /\ g \in GroupIds
    BY DEF Existing, GroupIds
  <2>3. /\ Like(r.seen[g], e) /\ Pure(r.seen[g]) /\ group[g] \in {r.seen[g], e}
        /\ r.seen[g] \in Row
    BY <1>2, <1>5, <2>1, <2>2 DEF Plan
  <2>4. group[g] \in Row /\ e \in Row
    BY <2>1, GroupsAssumption DEF GroupsInv, Types, Existing
  <2>5. Merged(group[g], r.seen[g], e) = e
    BY <2>3, <2>4 DEF Merged, Row
  <2>6. group'[g] = Merged(group[g], r.seen[g], e)
    BY <1>1, <2>2
  <2> QED
    BY <1>5, <2>1, <2>3, <2>5, <2>6 DEF ListedInv, Like
(* Everything else that is there was there, or is new.                     *)
<1>6. \A g \in GroupIds \ kept :
         IF g \in (inserted + 1)..(inserted + n)
         THEN group'[g] = Directory[at[g - inserted]]
         ELSE group'[g] = group[g]
  BY <1>1
<1>7. \A k \in 1..n : at[k] \in DOMAIN Directory /\ Directory[at[k]] \in Entries
  BY <1>1 DEF Unmatched, Entries
<1>8. \A g \in Handed : g \notin (inserted + 1)..(inserted + n)
  BY <1>3 DEF Handed
<1>9. ASSUME ~mixed, NEW g \in Existing
      PROVE  /\ g \in Existing'
             /\ group'[g] = group[g] \/ group'[g] \in {e \in Entries : Like(group[g], e)}
  <2>1. CASE g \in kept
    BY <1>4, <1>5, <1>9, <2>1, GroupsAssumption DEF Existing
  <2>2. CASE g \notin kept
    BY <1>4, <1>6, <1>8, <2>2 DEF Existing
  <2> QED
    BY <2>1, <2>2
<1>10. ASSUME ~mixed, NEW g \in Existing', g \notin Existing
       PROVE  g \notin Handed /\ Pure(group'[g])
  <2>1. g \in GroupIds \ kept /\ group[g] = Null /\ group'[g] # Null
    BY <1>10 DEF Existing
  <2>2. g \in (inserted + 1)..(inserted + n)
    BY <1>6, <2>1
  <2>3. g - inserted \in 1..n
    BY <1>3, <2>2
  <2>4. group'[g] \in Entries
    BY <1>6, <1>7, <2>1, <2>2, <2>3
  <2> QED
    BY <1>8, <2>2, <2>4, EntryPure
(* Each entry of the sync has its row, unless the row was deleted.         *)
<1>11. ASSUME ~mixed, NEW e \in Entries, e.name \in listed'
       PROVE  \/ \E g \in Existing' : group'[g] = e
              \/ e.name \in listed
  <2> SUFFICES ASSUME e.name \notin listed
               PROVE  \E g \in Existing' : group'[g] = e
    OBVIOUS
  <2>1. PICK b \in DOMAIN r.pick : b.name = e.name /\ r.pick[b] \in kept \cup {0}
    BY <1>1, <1>11
  <2>2. b = e /\ e \in DOMAIN r.pick
    BY <1>2, <2>1, GroupsAssumption DEF Plan
  <2>3. CASE r.pick[e] \in kept
    <3> DEFINE g == r.pick[e]
    <3>1. g # 0 /\ g \in Existing
      BY <2>3 DEF Existing, GroupIds
    <3>2. Like(group[g], e)
      BY <1>2, <1>11, <2>2, <3>1, StillLike
    <3>3. want[g] = e
      BY <1>5, <1>11, <2>3, <3>2, LikeOne
    <3> QED
      BY <1>5, <1>9, <1>11, <2>3, <3>1, <3>3
  <2>4. CASE r.pick[e] = 0
    <3>1. PICK i \in DOMAIN Directory : Directory[i] = e
      BY DEF Entries
    <3>2. i \in Unmatched(r.pick)
      BY <2>2, <2>4, <3>1 DEF Unmatched
    <3>3. PICK k \in 1..n : at[k] = i
      BY <1>1, <3>2
    <3> DEFINE g == inserted + k
    <3>4. /\ g \in (inserted + 1)..(inserted + n) /\ g - inserted = k
          /\ g \in GroupIds
      BY <1>1, <1>3 DEF GroupIds
    <3>5. g \notin kept
      BY <1>4, <1>8, <3>4
    <3>6. group'[g] = e
      BY <1>6, <3>1, <3>3, <3>4, <3>5
    <3> QED
      BY <3>4, <3>6, GroupsAssumption DEF Existing
  <2> QED
    BY <2>1, <2>2, <2>3, <2>4
<1> QED
  BY <1>2, <1>4, <1>9, <1>10, <1>11, RowsChange

LEMMA StepListed == GroupsInv /\ ListedInv /\ [GroupsNext]_groupsVars => ListedInv'
<1> SUFFICES ASSUME GroupsInv, ListedInv, [GroupsNext]_groupsVars PROVE ListedInv'
  OBVIOUS
<1>1. ASSUME NEW h \in Handlers, NEW name \in Names,
             NEW ext \in {e.ext : e \in Entries} \cup {Null}, CreateGroup(h, name, ext)
      PROVE  ListedInv'
  BY <1>1, RowsStay DEF CreateGroup
<1>2. ASSUME NEW h \in Handlers, NEW g \in GroupIds, DeleteGroup(h, g) PROVE ListedInv'
  BY <1>2, RowsStay DEF DeleteGroup
<1>3. ASSUME NEW h \in Handlers, NEW u \in Members, NEW selection \in SUBSET Existing,
             SetGroups(h, u, selection)
      PROVE  ListedInv'
  BY <1>3, RowsStay DEF SetGroups
<1>4. ASSUME NEW h \in Handlers, CommitMembers(h) PROVE ListedInv'
  BY <1>4, RowsStay DEF CommitMembers, Finish, Idle
<1>5. ASSUME NEW h \in Handlers, Refuse(h) PROVE ListedInv'
  BY <1>5, RowsStay DEF Refuse, Finish, Idle
<1>6. CASE UNCHANGED groupsVars
  BY <1>6 DEF groupsVars, ListedInv, ListedKept, Planned, Plan, Doing, Handed, Existing
<1> QED
  BY <1>1, <1>2, <1>3, <1>4, <1>5, <1>6, SyncReads, CreateListed, DeleteListed, SyncListed
     DEF GroupsNext

(* A group the directory sync has found keeps the name and external id of  *)
(* its entry until it is deleted, whatever syncs, creations and deletions  *)
(* overlap, while nobody makes a group out of two entries.                 *)
THEOREM ListedGroupsKept == GroupsSpec => []ListedKept
<1>1. ListedInv => ListedKept
  BY DEF ListedInv
<1> QED
  BY <1>1, InitInv, StepInv, InitListed, StepListed, PTL DEF GroupsSpec

-----------------------------------------------------------------------------
(* The rate limit.  A request that is counted within the limit is not let  *)
(* through yet: it counts among Admitted.                                  *)

RateRequest == {Idle} \cup [op : {"hit", "counted"}, count : Nat \ {0}]

RateTypes ==
    /\ request \in [Handlers -> RateRequest]
    /\ hits \in Nat /\ passed \in Nat /\ failed \in Nat

Admitted == {h \in Handlers : (Doing(h, "hit") \/ Doing(h, "counted")) /\ request[h].count <= Limit}

WithinLimit == IF hits < Limit THEN hits ELSE Limit

(* The requests of the window before that were still in flight when it     *)
(* ended are at most as many as there are handlers.                        *)
Carried ==
    passed + Cardinality(Admitted) <= Cardinality(Handlers) + WithinLimit + failed

(* A handler goes on with r.                                               *)
LEMMA RateGoes ==
    ASSUME RateTypes, NEW h \in Handlers, NEW r \in RateRequest, Goto(h, r)
    PROVE  /\ request' \in [Handlers -> RateRequest] /\ request'[h] = r
           /\ \A g \in Handlers \ {h} : request'[g] = request[g]
  BY DEF RateTypes, Goto

(* What a request is doing tells its fields.                               *)
LEMMA RateFields ==
    ASSUME RateTypes, NEW h \in Handlers
    PROVE  /\ Doing(h, "hit") \/ Doing(h, "counted") => request[h].count \in Nat \ {0}
           /\ Free(h) => ~Doing(h, "hit") /\ ~Doing(h, "counted")
  BY DEF RateTypes, RateRequest, Doing, Free, Idle

(* At first nothing is counted.                                            *)
LEMMA RateInitInv == RateInit => RateTypes /\ KeyExpires
  BY DEF RateInit, RateTypes, RateRequest, AllIdle, KeyExpires

(* Types are kept, and a counter without an expiry keeps its creator.      *)
LEMMA RateStepInv ==
    RateTypes /\ KeyExpires /\ [RateNext]_rateVars => RateTypes' /\ KeyExpires'
<1> SUFFICES ASSUME RateTypes, KeyExpires, [RateNext]_rateVars PROVE RateTypes' /\ KeyExpires'
  OBVIOUS
<1>idle. Idle \in RateRequest
  BY DEF RateRequest
<1>1. ASSUME NEW h \in Handlers, Hit(h) PROVE RateTypes' /\ KeyExpires'
  <2> DEFINE r == [op |-> "hit", count |-> hits + 1]
  <2>1. Goto(h, r) /\ hits' = hits + 1 /\ UNCHANGED <<expires, passed, failed, faults>> /\ Free(h)
    BY <1>1 DEF Hit
  <2>2. r \in RateRequest /\ r.op = "hit" /\ r.count = hits + 1
    BY DEF RateTypes, RateRequest
  <2> HIDE DEF r
  <2>3. /\ request' \in [Handlers -> RateRequest] /\ request'[h] = r
        /\ \A g \in Handlers \ {h} : request'[g] = request[g]
    BY <2>1, <2>2, RateGoes
  <2>4. RateTypes'
    BY <2>1, <2>3 DEF RateTypes
  <2>5. KeyExpires'
    <3>1. CASE hits = 0
      BY <2>2, <2>3, <3>1 DEF KeyExpires, Doing, StartsWindow
    <3>2. CASE hits # 0
      <4>1. hits > 0
        BY <3>2 DEF RateTypes
      <4>2. \A g \in Handlers : Doing(g, "hit") => g # h
        BY <2>1, RateFields
      <4> QED
        BY <2>1, <2>3, <4>1, <4>2 DEF KeyExpires, Doing, StartsWindow
    <3> QED
      BY <3>1, <3>2
  <2> QED
    BY <2>4, <2>5
<1>2. ASSUME NEW h \in Handlers, SetExpiry(h) PROVE RateTypes' /\ KeyExpires'
  <2> DEFINE r == [op |-> "counted", count |-> request[h].count]
  <2>1. Goto(h, r) /\ UNCHANGED <<hits, passed, failed, faults>> /\ expires' = (hits > 0)
    BY <1>2 DEF SetExpiry
  <2>2. r \in RateRequest
    BY <1>2, RateFields DEF SetExpiry, RateRequest
  <2> HIDE DEF r
  <2>3. RateTypes'
    BY <2>1, <2>2, RateGoes DEF RateTypes
  <2> QED
    BY <2>1, <2>3 DEF KeyExpires
<1>3. ASSUME NEW h \in Handlers, Decide(h) PROVE RateTypes' /\ KeyExpires'
  <2>1. Goto(h, Idle) /\ UNCHANGED <<hits, expires, failed, faults>>
    BY <1>3 DEF Decide, Finish
  <2>2. passed' \in Nat
    BY <1>3 DEF Decide, RateTypes
  <2>3. ~(Doing(h, "hit") /\ StartsWindow(request[h].count))
    BY <1>3 DEF Decide, Ready, Doing
  <2>4. RateTypes'
    BY <1>idle, <2>1, <2>2, RateGoes DEF RateTypes
  <2> QED
    BY <1>idle, <2>1, <2>3, <2>4, RateGoes DEF KeyExpires, Doing
<1>4. ASSUME NEW h \in Handlers, IncrFails(h) PROVE RateTypes' /\ KeyExpires'
  <2>1. RateTypes'
    BY <1>4 DEF IncrFails, RateTypes
  <2>2. \/ UNCHANGED <<request, hits, expires, faults>>
        \/ hits # 0 /\ UNCHANGED <<request, expires>> /\ (faults => faults')
        \/ faults'
    BY <1>4 DEF IncrFails
  <2>3. hits # 0 => hits > 0
    BY DEF RateTypes
  <2> QED
    BY <2>1, <2>2, <2>3 DEF KeyExpires, Doing
<1>7. ASSUME NEW h \in Handlers, ExpireFails(h) PROVE RateTypes' /\ KeyExpires'
  <2>1. RateTypes'
    BY <1>idle, <1>7, RateGoes DEF ExpireFails, Finish, RateTypes
  <2> QED
    BY <1>7, <2>1 DEF ExpireFails, KeyExpires
<1>8. CASE Restart
  <2>1. RateTypes'
    BY <1>idle, <1>8 DEF Restart, AllIdle, RateTypes
  <2> QED
    BY <1>8, <2>1 DEF Restart, KeyExpires
<1>5. CASE WindowEnds
  BY <1>5 DEF WindowEnds, RateTypes, KeyExpires
<1>6. CASE UNCHANGED rateVars
  BY <1>6 DEF rateVars, RateTypes, KeyExpires, Doing
<1> QED
  BY <1>1, <1>2, <1>3, <1>4, <1>5, <1>6, <1>7, <1>8 DEF RateNext

(* Unless EXPIRE failed, the answer of the creating INCR was lost or the   *)
(* process died between the two, every window ends: a counter that has no  *)
(* expiry is one whose creator is still about to give it one, whatever     *)
(* other requests, failures and windows come in between.                   *)
THEOREM EveryKeyExpires == RateSpec => []KeyExpires
  BY RateInitInv, RateStepInv, PTL DEF RateSpec

(* Handler h joins or leaves those admitted; the others stay.              *)
LEMMA AdmittedMoves ==
    ASSUME IsFiniteSet(Handlers), RateTypes, NEW h \in Handlers, NEW r \in RateRequest, Goto(h, r)
    PROVE  /\ IsFiniteSet(Admitted) /\ IsFiniteSet(Admitted')
           /\ Cardinality(Admitted) \in Nat /\ Cardinality(Admitted') \in Nat
           /\ Admitted' \ {h} = Admitted \ {h}
           /\ h \in Admitted' <=> r.op \in {"hit", "counted"} /\ r.count <= Limit
           /\ Cardinality(Admitted') = Cardinality(Admitted)
                + (IF h \in Admitted' THEN 1 ELSE 0) - (IF h \in Admitted THEN 1 ELSE 0)
<1>1. /\ request'[h] = r
      /\ \A g \in Handlers \ {h} : request'[g] = request[g]
  BY RateGoes
<1>2. IsFiniteSet(Admitted) /\ IsFiniteSet(Admitted')
  <2>1. Admitted \subseteq Handlers /\ Admitted' \subseteq Handlers
    BY DEF Admitted
  <2> QED
    BY <2>1, FS_Subset
<1>3. Cardinality(Admitted) \in Nat /\ Cardinality(Admitted') \in Nat
  BY <1>2, FS_CardinalityType
<1>4. Admitted' \ {h} = Admitted \ {h}
  BY <1>1 DEF Admitted, Doing
<1>5. h \in Admitted' <=> r.op \in {"hit", "counted"} /\ r.count <= Limit
  BY <1>1 DEF Admitted, Doing
<1>6. \A S : IsFiniteSet(S) =>
         Cardinality(S) = Cardinality(S \ {h}) + (IF h \in S THEN 1 ELSE 0)
  <2> SUFFICES ASSUME NEW S, IsFiniteSet(S)
               PROVE  Cardinality(S) = Cardinality(S \ {h}) + (IF h \in S THEN 1 ELSE 0)
    OBVIOUS
  <2>1. Cardinality(S) \in Nat
    BY FS_CardinalityType
  <2>2. CASE h \in S
    <3>1. Cardinality(S \ {h}) = Cardinality(S) - 1
      BY <2>2, FS_RemoveElement, Zenon
    <3> QED
      BY <2>1, <2>2, <3>1
  <2>3. CASE h \notin S
    <3>1. S \ {h} = S
      BY <2>3
    <3> QED
      BY <2>1, <2>3, <3>1
  <2> QED
    BY <2>2, <2>3
<1>7. Cardinality(Admitted \ {h}) \in Nat
  BY <1>2, FS_RemoveElement, FS_Subset, FS_CardinalityType
<1> QED
  BY <1>2, <1>3, <1>4, <1>5, <1>6, <1>7

(* Nobody is admitted at first.                                            *)
LEMMA RateInitCarried == IsFiniteSet(Handlers) /\ RateInit => Carried
<1> SUFFICES ASSUME IsFiniteSet(Handlers), RateInit PROVE Carried
  OBVIOUS
<1>1. Admitted = {}
  BY DEF RateInit, AllIdle, Idle, Admitted, Doing
<1>2. Cardinality(Handlers) \in Nat /\ Cardinality(Admitted) = 0
  BY <1>1, FS_CardinalityType, FS_EmptySet
<1> QED
  BY <1>2, RateAssumption DEF Carried, WithinLimit, RateInit

(* A request that is admitted is counted within the limit of its window,   *)
(* and is let through once.                                                *)
LEMMA RateStepCarried ==
    IsFiniteSet(Handlers) /\ RateTypes /\ Carried /\ [RateNext]_rateVars => Carried'
<1> SUFFICES ASSUME IsFiniteSet(Handlers), RateTypes, Carried, [RateNext]_rateVars PROVE Carried'
  OBVIOUS
<1>idle. Idle \in RateRequest /\ Idle.op = "idle"
  BY DEF RateRequest, Idle
<1>card. Cardinality(Handlers) \in Nat
  BY FS_CardinalityType
<1>nat. hits \in Nat /\ passed \in Nat /\ failed \in Nat /\ Limit \in Nat
  BY RateAssumption DEF RateTypes
<1>1. ASSUME NEW h \in Handlers, Hit(h) PROVE Carried'
  <2> DEFINE r == [op |-> "hit", count |-> hits + 1]
  <2>1. Goto(h, r) /\ hits' = hits + 1 /\ passed' = passed /\ failed' = failed /\ Free(h)
    BY <1>1 DEF Hit
  <2>2. r \in RateRequest /\ r.count = hits + 1
    BY DEF RateTypes, RateRequest
  <2>3. h \notin Admitted
    BY <2>1, RateFields DEF Admitted
  <2> HIDE DEF r
  <2> QED
    BY <1>card, <1>nat, <2>1, <2>2, <2>3, AdmittedMoves DEF Carried, WithinLimit
<1>2. ASSUME NEW h \in Handlers, SetExpiry(h) PROVE Carried'
  <2> DEFINE r == [op |-> "counted", count |-> request[h].count]
  <2>1. Goto(h, r) /\ UNCHANGED <<hits, passed, failed>> /\ Doing(h, "hit")
    BY <1>2 DEF SetExpiry
  <2>2. r \in RateRequest /\ r.count = request[h].count
    BY <2>1, RateFields DEF RateRequest
  <2> HIDE DEF r
  <2>3. h \in Admitted' => h \in Admitted
    BY <2>1, <2>2, AdmittedMoves DEF Admitted
  <2> QED
    BY <1>card, <1>nat, <2>1, <2>2, <2>3, AdmittedMoves DEF Carried, WithinLimit
<1>3. ASSUME NEW h \in Handlers, Decide(h) PROVE Carried'
  <2>1. Goto(h, Idle) /\ hits' = hits /\ failed' = failed
    BY <1>3 DEF Decide, Finish
  <2>2. passed' = IF request[h].count > Limit THEN passed ELSE passed + 1
    BY <1>3 DEF Decide
  <2>3. (Doing(h, "hit") \/ Doing(h, "counted")) /\ request[h].count \in Nat
    BY <1>3, RateFields DEF Decide, Ready
  <2>4. h \in Admitted <=> ~(request[h].count > Limit)
    BY <1>nat, <2>3 DEF Admitted
  <2>5. h \notin Admitted'
    BY <1>idle, <2>1, AdmittedMoves
  <2> QED
    BY <1>card, <1>nat, <1>idle, <2>1, <2>2, <2>4, <2>5, AdmittedMoves DEF Carried, WithinLimit
<1>some. Cardinality(Admitted) \in Nat /\ Cardinality(Admitted) <= Cardinality(Handlers)
  <2>1. Admitted \subseteq Handlers
    BY DEF Admitted
  <2> QED
    BY <2>1, FS_Subset, FS_CardinalityType
<1>4. ASSUME NEW h \in Handlers, IncrFails(h) PROVE Carried'
  <2>1. /\ Admitted' = Admitted /\ hits' \in {hits, hits + 1}
        /\ passed' = passed + 1 /\ failed' = failed + 1
    BY <1>4 DEF IncrFails, Admitted, Doing
  <2>2. Cardinality(Admitted') = Cardinality(Admitted)
    BY <2>1
  <2> HIDE DEF Admitted
  <2> QED
    BY <1>card, <1>nat, <1>some, <2>1, <2>2 DEF Carried, WithinLimit
<1>7. ASSUME NEW h \in Handlers, ExpireFails(h) PROVE Carried'
  <2>1. Goto(h, Idle) /\ hits' = hits /\ passed' = passed + 1 /\ failed' = failed + 1
    BY <1>7 DEF ExpireFails, Finish
  <2>2. h \notin Admitted'
    BY <1>idle, <2>1, AdmittedMoves
  <2> QED
    BY <1>card, <1>nat, <1>idle, <2>1, <2>2, AdmittedMoves DEF Carried, WithinLimit
<1>8. CASE Restart
  <2>1. Admitted' = {} /\ UNCHANGED <<hits, passed, failed>>
    BY <1>8 DEF Restart, AllIdle, Idle, Admitted, Doing
  <2>2. Cardinality(Admitted') = 0
    BY <2>1, FS_EmptySet
  <2> QED
    BY <1>card, <1>nat, <1>some, <2>1, <2>2 DEF Carried, WithinLimit
<1>5. CASE WindowEnds
  <2>1. Admitted' = Admitted /\ passed' = 0 /\ failed' = 0 /\ hits' = 0
    BY <1>5 DEF WindowEnds, Admitted, Doing
  <2>2. Admitted \subseteq Handlers
    BY DEF Admitted
  <2>3. Cardinality(Admitted) \in Nat /\ Cardinality(Admitted) <= Cardinality(Handlers)
    BY <2>2, FS_Subset, FS_CardinalityType
  <2> QED
    BY <1>card, <1>nat, <2>1, <2>3 DEF Carried, WithinLimit
<1>6. CASE UNCHANGED rateVars
  <2>1. Admitted' = Admitted
    BY <1>6 DEF rateVars, Admitted, Doing
  <2> QED
    BY <1>6, <2>1 DEF rateVars, Carried, WithinLimit
<1> QED
  BY <1>1, <1>2, <1>3, <1>4, <1>5, <1>6, <1>7, <1>8 DEF RateNext

(* A window lets through at most the limit, those for which Redis failed,  *)
(* and as many requests as can be in flight when the window before ends.   *)
THEOREM WindowIsBounded == IsFiniteSet(Handlers) /\ RateSpec => []PassedBounded
<1> SUFFICES ASSUME IsFiniteSet(Handlers) PROVE RateSpec => []PassedBounded
  OBVIOUS
<1> DEFINE Inv == RateTypes /\ KeyExpires /\ Carried
<1>1. Inv => PassedBounded
  <2> SUFFICES ASSUME RateTypes, Carried PROVE PassedBounded
    OBVIOUS
  <2>1. Admitted \subseteq Handlers
    BY DEF Admitted
  <2>2. Cardinality(Handlers) \in Nat /\ Cardinality(Admitted) \in Nat
    BY <2>1, FS_Subset, FS_CardinalityType
  <2> QED
    BY <2>2, RateAssumption DEF Carried, WithinLimit, PassedBounded, RateTypes
<1>2. RateInit => Inv
  BY RateInitInv, RateInitCarried
<1>3. Inv /\ [RateNext]_rateVars => Inv'
  BY RateStepInv, RateStepCarried
<1> QED
  BY <1>1, <1>2, <1>3, PTL DEF RateSpec
=============================================================================
