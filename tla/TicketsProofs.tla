--------------------------- MODULE TicketsProofs ---------------------------
(***************************************************************************)
(* Proofs about Tickets.  Sound and RoutingKept hold whatever overlaps;    *)
(* Isolated adds that a ticket has one request at a time, and the group is *)
(* deleted while none is on a ticket of its, so that what a handler read   *)
(* is still true when it commits.                                          *)
(***************************************************************************)
EXTENDS Tickets, SequenceTheorems, TLAPS

(* The type of a request by its kind.                                      *)
LEMMA RequestShape ==
    ASSUME NEW r \in Request
    PROVE  /\ r.op \in {"idle", "audit", "comment", "status", "assign", "create"}
           /\ r.op = "idle" <=> r = Idle
           /\ r # Idle => r.t \in TicketIds
           /\ r.op = "status" => r.seen \in Ticket /\ r.to \in STATUSES
           /\ r.op = "assign" => r.seen \in Ticket /\ r.who \in Assignee /\ r.grp \in BOOLEAN
           /\ r.op = "create" => /\ r.vuln \in Vulns /\ r.who \in Assignee
                                 /\ r.grp \in BOOLEAN /\ r.duplicate \in BOOLEAN
BY DEF Request, Idle

(* What a request in flight guarantees, whatever else is in flight.        *)
CreateSound(u) ==
    request[u].op = "create" =>
        /\ Absent(request[u].t)
        /\ \A w \in Users \ {u} : request[w] # Idle => request[w].t # request[u].t

StatusSound(u) ==
    request[u].op = "status" =>
        /\ ~Absent(request[u].t)
        /\ request[u].seen.status \in STATUSES
        /\ request[u].to \in TRANSITIONS[request[u].seen.status]
        /\ request[u].seen.status = "closed" => u \in Managers

AssignSound(u) == request[u].op = "assign" => ~Absent(request[u].t)

RequestsSound == \A u \in Users : CreateSound(u) /\ StatusSound(u) /\ AssignSound(u)

Sound == TypeOK /\ RequestsSound /\ StatusIsLastEvent /\ EventsLegal

(* A system without tickets and requests is sound.                        *)
LEMMA InitSound == Init => Sound
<1> SUFFICES ASSUME Init PROVE Sound OBVIOUS
<1> USE TicketsAssumption DEF Init
<1>1. ticket \in [TicketIds -> Ticket]
  BY DEF Ticket, Assignee
<1>2. TypeOK
  <2>1. Idle \in Request
    BY DEF Request
  <2>2. request \in [Users -> Request]
    BY <2>1
  <2>3. history \in [TicketIds -> Seq(Event)]
    OBVIOUS
  <2>4. routed \in [TicketIds -> Assignee \X BOOLEAN]
    BY DEF Assignee
  <2>5. gone \in BOOLEAN /\ crossed \subseteq TicketIds
    OBVIOUS
  <2> QED BY <1>1, <2>2, <2>3, <2>4, <2>5 DEF TypeOK
<1>3. RequestsSound
  BY DEF RequestsSound, CreateSound, StatusSound, AssignSound, Idle
<1>4. StatusIsLastEvent /\ EventsLegal
  BY DEF StatusIsLastEvent, EventsLegal, Absent
<1> QED BY <1>2, <1>3, <1>4 DEF Sound

(* A step that only replaces the request of u by one that is sound keeps   *)
(* the rest.                                                               *)
LEMMA RequestStep ==
    ASSUME Sound, NEW u \in Users, NEW r \in Request,
           request' = [request EXCEPT ![u] = r],
           UNCHANGED <<ticket, history, routed, warned, gone>>, crossed' \subseteq TicketIds,
           audit' \in [TicketIds -> Nat],
           r # Idle => (r.t = request[u].t /\ request[u] # Idle) \/ ~Absent(r.t) \/ Untouched(r.t),
           CreateSound(u)', StatusSound(u)', AssignSound(u)'
    PROVE  Sound'
<1> USE DEF Sound
<1>1. request \in [Users -> Request]
  BY DEF TypeOK
<1>2. TypeOK'
  BY <1>1 DEF TypeOK
<1>3. RequestsSound'
  <2> SUFFICES ASSUME NEW w \in Users, w # u
               PROVE  CreateSound(w)' /\ StatusSound(w)' /\ AssignSound(w)'
    BY DEF RequestsSound
  <2>1. request'[w] = request[w] /\ request'[u] = r
    BY <1>1
  <2>2. StatusSound(w)' /\ AssignSound(w)'
    BY <2>1 DEF RequestsSound, StatusSound, AssignSound, Absent
  <2>3. CASE request[w].op = "create"
    <3>1. Absent(request[w].t) /\ \A v \in Users \ {w} : request[v] # Idle => request[v].t # request[w].t
      BY <2>3 DEF RequestsSound, CreateSound
    <3>2. request[w] # Idle
      BY <2>3 DEF Idle
    <3>3. r # Idle => r.t # request[w].t
      BY <3>1, <3>2 DEF Untouched
    <3>4. \A v \in Users \ {w} : request'[v] # Idle => request'[v].t # request[w].t
      BY <3>1, <3>3, <1>1
    <3> QED BY <3>1, <3>4, <2>1, <2>2 DEF CreateSound, Absent
  <2>4. CASE request[w].op # "create"
    BY <2>1, <2>2, <2>4 DEF CreateSound
  <2> QED BY <2>3, <2>4
<1>4. StatusIsLastEvent' /\ EventsLegal'
  BY DEF StatusIsLastEvent, EventsLegal, Absent
<1> QED BY <1>2, <1>3, <1>4

(* Every step keeps the invariant, one case for each action.               *)
LEMMA NextSound == Sound /\ [Next]_vars => Sound'
<1> SUFFICES ASSUME Sound, [Next]_vars PROVE Sound'
  OBVIOUS
<1> USE TicketsAssumption
<1>t. TypeOK /\ RequestsSound
  BY DEF Sound
<1>1. CASE UNCHANGED vars
  BY <1>1 DEF vars, Sound, TypeOK, RequestsSound, CreateSound, StatusSound, AssignSound,
       StatusIsLastEvent, EventsLegal, Absent
<1>2. ASSUME NEW u \in Users, NEW t \in TicketIds, NEW to \in STATUSES, ReadForStatus(u, t, to)
      PROVE  Sound'
  <2> DEFINE r == [op |-> "status", t |-> t, seen |-> ticket[t], to |-> to]
  <2>1. r \in Request /\ ticket[t].status \in STATUSES
    BY <1>2, <1>t DEF ReadForStatus, TypeOK, Request, Ticket, Absent
  <2>2. request' = [request EXCEPT ![u] = r] /\ UNCHANGED <<ticket, history, routed, warned, audit, gone>>
        /\ crossed' \subseteq TicketIds
    BY <1>2, <1>t DEF ReadForStatus, Read, TypeOK
  <2>3. request'[u] = r
    BY <2>2, <1>t DEF TypeOK
  <2>4. CreateSound(u)' /\ StatusSound(u)' /\ AssignSound(u)'
    BY <1>2, <2>1, <2>2, <2>3 DEF ReadForStatus, MayMove, CreateSound, StatusSound, AssignSound, Absent
  <2>5. ~Absent(r.t)
    BY <1>2 DEF ReadForStatus
  <2> HIDE DEF r
  <2> QED BY <2>1, <2>2, <2>4, <2>5, <1>t, RequestStep DEF TypeOK
<1>3. ASSUME NEW u \in Users, NEW t \in TicketIds, NEW who \in Assignee, NEW grp \in BOOLEAN,
             ReadForAssign(u, t, who, grp)
      PROVE  Sound'
  <2> DEFINE r == [op |-> "assign", t |-> t, seen |-> ticket[t], who |-> who, grp |-> grp]
  <2>1. r \in Request
    BY <1>3, <1>t DEF TypeOK, Request
  <2>2. request' = [request EXCEPT ![u] = r] /\ UNCHANGED <<ticket, history, routed, warned, audit, gone>>
        /\ ~Absent(t) /\ crossed' \subseteq TicketIds
    BY <1>3, <1>t DEF ReadForAssign, Read, TypeOK
  <2>3. request'[u] = r
    BY <2>2, <1>t DEF TypeOK
  <2>4. CreateSound(u)' /\ StatusSound(u)' /\ AssignSound(u)'
    BY <2>1, <2>2, <2>3 DEF CreateSound, StatusSound, AssignSound, Absent
  <2>5. ~Absent(r.t)
    BY <2>2
  <2> HIDE DEF r
  <2> QED BY <2>1, <2>2, <2>4, <2>5, <1>t, RequestStep DEF TypeOK
<1>4. ASSUME NEW u \in Users, NEW t \in TicketIds, ReadForComment(u, t)
      PROVE  Sound'
  <2> DEFINE r == [op |-> "comment", t |-> t]
  <2>1. r \in Request
    BY DEF Request
  <2>2. request' = [request EXCEPT ![u] = r] /\ UNCHANGED <<ticket, history, routed, warned, audit, gone>>
        /\ ~Absent(t) /\ crossed' \subseteq TicketIds
    BY <1>4, <1>t DEF ReadForComment, Read, TypeOK
  <2>3. request'[u] = r
    BY <2>2, <1>t DEF TypeOK
  <2>4. CreateSound(u)' /\ StatusSound(u)' /\ AssignSound(u)'
    BY <2>3 DEF CreateSound, StatusSound, AssignSound
  <2>5. ~Absent(r.t)
    BY <2>2
  <2> HIDE DEF r
  <2> QED BY <2>1, <2>2, <2>4, <2>5, <1>t, RequestStep DEF TypeOK
<1>5. ASSUME NEW u \in Users, NEW t \in TicketIds, NEW v \in Vulns, NEW who \in Assignee,
             NEW grp \in BOOLEAN, ReadForCreate(u, t, v, who, grp)
      PROVE  Sound'
  <2> DEFINE r == [op |-> "create", t |-> t, vuln |-> v, who |-> who, grp |-> grp,
                   duplicate |-> DuplicateOf(v)]
  <2>1. r \in Request
    BY DEF Request, DuplicateOf
  <2>2. /\ request' = [request EXCEPT ![u] = r] /\ UNCHANGED <<ticket, history, routed, warned, audit, gone>>
        /\ Absent(t) /\ Untouched(t) /\ crossed' \subseteq TicketIds
    BY <1>5, <1>t DEF ReadForCreate, TypeOK
  <2>3. request'[u] = r /\ \A w \in Users \ {u} : request'[w] = request[w]
    BY <2>2, <1>t DEF TypeOK
  <2>4. CreateSound(u)' /\ StatusSound(u)' /\ AssignSound(u)'
    BY <2>2, <2>3 DEF CreateSound, StatusSound, AssignSound, Absent, Untouched
  <2>5. Untouched(r.t)
    BY <2>2
  <2> HIDE DEF r
  <2> QED BY <2>1, <2>2, <2>4, <2>5, <1>t, RequestStep DEF TypeOK
<1>6. ASSUME NEW u \in Users, CommitCreate(u) PROVE Sound'
  <2> DEFINE r == request[u]
  <2>1. r \in Request /\ r.op = "create" /\ r # Idle /\ r.t \in TicketIds
    BY <1>6, <1>t, RequestShape DEF CommitCreate, TypeOK, Idle
  <2>2. /\ ticket' = [ticket EXCEPT ![r.t] = [status |-> "new", creator |-> u, assignee |-> r.who,
                                             group |-> r.grp, vuln |-> r.vuln]]
        /\ routed' = [routed EXCEPT ![r.t] = <<r.who, r.grp>>]
        /\ warned' = [warned EXCEPT ![r.t] = r.duplicate]
        /\ request' = [request EXCEPT ![u] = Idle]
        /\ UNCHANGED <<history, audit, gone, crossed>>
    BY <1>6 DEF CommitCreate
  <2>3. r.who \in Assignee /\ r.grp \in BOOLEAN /\ r.vuln \in Vulns /\ r.duplicate \in BOOLEAN
    BY <2>1, RequestShape
  <2>4. Absent(r.t) /\ \A w \in Users \ {u} : request[w] # Idle => request[w].t # r.t
    BY <2>1, <1>t DEF RequestsSound, CreateSound
  <2>5. /\ request'[u] = Idle
        /\ \A w \in Users \ {u} : request'[w] = request[w]
        /\ \A t \in TicketIds \ {r.t} : ticket'[t] = ticket[t]
        /\ ticket'[r.t].status = "new"
    BY <2>1, <2>2, <1>t DEF TypeOK
  <2> HIDE DEF r
  <2>6. ticket' \in [TicketIds -> Ticket]
    BY <2>1, <2>2, <2>3, <1>t DEF TypeOK, Ticket, STATUSES, Assignee
  <2>7. TypeOK'
    BY <2>1, <2>2, <2>3, <2>6, <1>t DEF TypeOK, Request
  <2>8. RequestsSound'
    <3> SUFFICES ASSUME NEW w \in Users
                 PROVE  CreateSound(w)' /\ StatusSound(w)' /\ AssignSound(w)'
      BY DEF RequestsSound
    <3>1. CASE request'[w] = Idle
      BY <3>1 DEF Idle, CreateSound, StatusSound, AssignSound
    <3>2. CASE request'[w] # Idle
      <4>1. w # u /\ request'[w] = request[w] /\ request[w].t \in TicketIds \ {r.t}
        BY <3>2, <2>4, <2>5, <1>t, RequestShape DEF TypeOK
      <4>2. ticket'[request[w].t] = ticket[request[w].t]
        BY <4>1, <2>5
      <4>3. StatusSound(w)' /\ AssignSound(w)'
        BY <4>1, <4>2, <1>t DEF RequestsSound, StatusSound, AssignSound, Absent
      <4>4. CreateSound(w)'
        BY <4>1, <4>2, <2>5, <1>t DEF RequestsSound, CreateSound, Absent
      <4> QED BY <4>3, <4>4
    <3> QED BY <3>1, <3>2
  <2>9. StatusIsLastEvent'
    <3>1. history[r.t] = <<>>
      <4> SUFFICES ASSUME history[r.t] # <<>> PROVE FALSE
        OBVIOUS
      <4>1. Last(history[r.t]) \in Event
        BY <2>1, <1>t DEF TypeOK, Last
      <4>2. Last(history[r.t]).to = "absent"
        BY <2>1, <2>4 DEF Sound, StatusIsLastEvent, Absent
      <4> QED BY <4>1, <4>2 DEF Event, STATUSES
    <3>2. \A t \in TicketIds \ {r.t} : Absent(t)' <=> Absent(t)
      BY <2>5 DEF Absent
    <3>3. history' = history
      BY <2>2
    <3> SUFFICES ASSUME NEW t \in TicketIds
                 PROVE  ticket'[t].status = IF history'[t] # <<>> THEN Last(history'[t]).to
                                            ELSE IF Absent(t)' THEN "absent" ELSE "new"
      BY DEF StatusIsLastEvent
    <3>4. CASE t = r.t
      BY <3>1, <3>3, <3>4, <2>5 DEF Absent
    <3>5. CASE t # r.t
      BY <3>2, <3>3, <3>5, <2>5 DEF Sound, StatusIsLastEvent
    <3> QED BY <3>4, <3>5
  <2>10. EventsLegal'
    BY <2>2 DEF Sound, EventsLegal
  <2> QED BY <2>7, <2>8, <2>9, <2>10 DEF Sound
<1>7. ASSUME NEW u \in Users, CommitStatus(u) PROVE Sound'
  <2> DEFINE r == request[u]
  <2> DEFINE e == [from |-> r.seen.status, to |-> r.to, by |-> u]
  <2> DEFINE a == [op |-> "audit", t |-> r.t]
  <2>1. r \in Request /\ r.op = "status" /\ r # Idle /\ r.t \in TicketIds /\ r.to \in STATUSES
    BY <1>7, <1>t, RequestShape DEF CommitStatus, TypeOK, Idle
  <2>2. /\ ticket' = [ticket EXCEPT ![r.t].status = r.to]
        /\ history' = [history EXCEPT ![r.t] = Append(@, e)]
        /\ request' = [request EXCEPT ![u] = a]
        /\ UNCHANGED <<routed, warned, audit, gone, crossed>>
    BY <1>7 DEF CommitStatus
  <2>3. /\ ~Absent(r.t) /\ r.seen.status \in STATUSES /\ r.to \in TRANSITIONS[r.seen.status]
        /\ r.seen.status = "closed" => u \in Managers
    BY <2>1, <1>t DEF RequestsSound, StatusSound
  <2>4. a \in Request /\ e \in Event
    BY <2>1, <2>3 DEF Request, Event
  <2>5. /\ request'[u] = a
        /\ \A w \in Users \ {u} : request'[w] = request[w]
        /\ \A t \in TicketIds \ {r.t} : ticket'[t] = ticket[t] /\ history'[t] = history[t]
        /\ ticket'[r.t].status = r.to
        /\ history'[r.t] = Append(history[r.t], e)
    BY <2>1, <2>2, <1>t DEF TypeOK, Ticket
  <2>e. e.from = r.seen.status /\ e.to = r.to /\ e.by = u /\ a.op = "audit" /\ a.t = r.t
    OBVIOUS
  <2>h. history[r.t] \in Seq(Event)
    BY <2>1, <1>t DEF TypeOK
  <2> HIDE DEF r, e, a
  <2>6. ticket' \in [TicketIds -> Ticket]
    BY <2>1, <2>2, <1>t DEF TypeOK, Ticket
  <2>7. TypeOK'
    BY <2>1, <2>2, <2>4, <2>6, <1>t DEF TypeOK
  <2>8. RequestsSound'
    <3> SUFFICES ASSUME NEW w \in Users
                 PROVE  CreateSound(w)' /\ StatusSound(w)' /\ AssignSound(w)'
      BY DEF RequestsSound
    <3>1. CASE w = u
      BY <3>1, <2>5, <2>e DEF CreateSound, StatusSound, AssignSound
    <3>2. CASE w # u
      <4>1. request'[w] = request[w] /\ (request[w] # Idle => request[w].t \in TicketIds)
        BY <3>2, <2>5, <1>t, RequestShape DEF TypeOK
      <4>2. \A t \in TicketIds : Absent(t)' <=> Absent(t)
        BY <2>1, <2>3, <2>5 DEF Absent, STATUSES
      <4>3. request[w].op # "idle" => request[w] # Idle
        BY DEF Idle
      <4>4. StatusSound(w)' /\ AssignSound(w)'
        BY <4>1, <4>2, <4>3, <1>t DEF RequestsSound, StatusSound, AssignSound
      <4>5. CASE request[w].op = "create"
        <5>1. Absent(request[w].t) /\ \A v \in Users \ {w} : request[v] # Idle => request[v].t # request[w].t
          BY <4>5, <1>t DEF RequestsSound, CreateSound
        <5>2. r.t # request[w].t
          BY <5>1, <2>3
        <5> QED BY <5>1, <5>2, <4>1, <4>2, <4>3, <4>4, <4>5, <2>5, <2>e DEF CreateSound
      <4>6. CASE request[w].op # "create"
        BY <4>1, <4>4, <4>6 DEF CreateSound
      <4> QED BY <4>4, <4>5, <4>6
    <3> QED BY <3>1, <3>2
  <2>9. StatusIsLastEvent'
    <3>1. history'[r.t] # <<>> /\ Last(history'[r.t]) = e
      BY <2>5, <2>h, <2>4 DEF Last
    <3>2. \A t \in TicketIds \ {r.t} : Absent(t)' <=> Absent(t)
      BY <2>5 DEF Absent
    <3> SUFFICES ASSUME NEW t \in TicketIds
                 PROVE  ticket'[t].status = IF history'[t] # <<>> THEN Last(history'[t]).to
                                            ELSE IF Absent(t)' THEN "absent" ELSE "new"
      BY DEF StatusIsLastEvent
    <3>3. CASE t = r.t
      BY <3>1, <3>3, <2>5, <2>e
    <3>4. CASE t # r.t
      BY <3>2, <3>4, <2>5 DEF Sound, StatusIsLastEvent
    <3> QED BY <3>3, <3>4
  <2>10. EventsLegal'
    <3> SUFFICES ASSUME NEW t \in TicketIds, NEW i \in DOMAIN history'[t]
                 PROVE  /\ history'[t][i].to \in TRANSITIONS[history'[t][i].from]
                        /\ history'[t][i].from = "closed" => history'[t][i].by \in Managers
      BY DEF EventsLegal
    <3>1. CASE t # r.t
      BY <3>1, <2>5 DEF Sound, EventsLegal
    <3>2. CASE t = r.t /\ i \in DOMAIN history[t]
      <4>1. history'[t][i] = history[t][i]
        BY <3>2, <2>5, <2>h, <2>4
      <4> QED BY <3>2, <4>1 DEF Sound, EventsLegal
    <3>3. CASE t = r.t /\ i \notin DOMAIN history[t]
      <4>1. history'[t][i] = e
        BY <3>3, <2>5, <2>h, <2>4
      <4> QED BY <4>1, <2>e, <2>3
    <3> QED BY <3>1, <3>2, <3>3
  <2> QED BY <2>7, <2>8, <2>9, <2>10 DEF Sound
<1>8. ASSUME NEW u \in Users, CommitAssign(u) PROVE Sound'
  <2> DEFINE r == request[u]
  <2>1. r \in Request /\ r.op = "assign" /\ r # Idle /\ r.t \in TicketIds
        /\ r.who \in Assignee /\ r.grp \in BOOLEAN
    BY <1>8, <1>t, RequestShape DEF CommitAssign, TypeOK, Idle
  <2>2. /\ ticket' = [ticket EXCEPT
              ![r.t].assignee = IF r.who = r.seen.assignee THEN @ ELSE r.who,
              ![r.t].group = IF r.grp = r.seen.group THEN @ ELSE r.grp]
        /\ routed' = [routed EXCEPT ![r.t] = <<r.who, r.grp>>]
        /\ request' = [request EXCEPT ![u] = Idle]
        /\ UNCHANGED <<history, warned, audit, gone, crossed>>
    BY <1>8 DEF CommitAssign
  <2>5. request'[u] = Idle /\ \A w \in Users \ {u} : request'[w] = request[w]
    BY <2>2, <1>t DEF TypeOK
  <2> HIDE DEF r
  <2>6. ticket' \in [TicketIds -> Ticket] /\ \A t \in TicketIds : ticket'[t].status = ticket[t].status
    <3> DEFINE who == IF r.who = r.seen.assignee THEN ticket[r.t].assignee ELSE r.who
    <3> DEFINE grp == IF r.grp = r.seen.group THEN ticket[r.t].group ELSE r.grp
    <3>1. ticket[r.t] \in Ticket
      BY <2>1, <1>t DEF TypeOK
    <3>2. who \in Assignee /\ grp \in BOOLEAN
      BY <2>1, <3>1 DEF Ticket
    <3>3. ticket' = [ticket EXCEPT ![r.t] = [@ EXCEPT !.assignee = who, !.group = grp]]
      BY <2>1, <2>2, <3>1, <1>t DEF TypeOK, Ticket
    <3> HIDE DEF who, grp
    <3> QED BY <2>1, <3>1, <3>2, <3>3, <1>t DEF TypeOK, Ticket
  <2>7. TypeOK'
    BY <2>1, <2>2, <2>6, <1>t DEF TypeOK, Request
  <2>8. RequestsSound'
    <3> SUFFICES ASSUME NEW w \in Users
                 PROVE  CreateSound(w)' /\ StatusSound(w)' /\ AssignSound(w)'
      BY DEF RequestsSound
    <3>1. CASE request'[w] = Idle
      BY <3>1 DEF Idle, CreateSound, StatusSound, AssignSound
    <3>2. CASE request'[w] # Idle
      <4>1. request'[w] = request[w] /\ request[w].t \in TicketIds
        BY <3>2, <2>5, <1>t, RequestShape DEF TypeOK
      <4> QED BY <4>1, <2>5, <2>6, <1>t DEF RequestsSound, CreateSound, StatusSound, AssignSound, Absent
    <3> QED BY <3>1, <3>2
  <2>9. StatusIsLastEvent' /\ EventsLegal'
    BY <2>2, <2>6 DEF Sound, StatusIsLastEvent, EventsLegal, Absent
  <2> QED BY <2>7, <2>8, <2>9 DEF Sound
<1>9. ASSUME NEW u \in Users, CommitComment(u) \/ WriteAudit(u) \/ Drop(u) PROVE Sound'
  <2>1. Idle \in Request
    BY DEF Request
  <2>2. request' = [request EXCEPT ![u] = Idle] /\ UNCHANGED <<ticket, history, routed, warned, gone>>
        /\ crossed' \subseteq TicketIds
    BY <1>9, <1>t DEF CommitComment, WriteAudit, Drop, TypeOK
  <2>3. audit' \in [TicketIds -> Nat]
    <3>1. CASE WriteAudit(u)
      <4>1. request[u].t \in TicketIds
        BY <3>1, <1>t, RequestShape DEF WriteAudit, TypeOK, Idle
      <4> QED BY <3>1, <4>1, <1>t DEF WriteAudit, TypeOK
    <3> QED BY <3>1, <1>9, <1>t DEF CommitComment, Drop, TypeOK
  <2>4. CreateSound(u)' /\ StatusSound(u)' /\ AssignSound(u)'
    BY <2>2, <1>t DEF TypeOK, CreateSound, StatusSound, AssignSound, Idle
  <2> QED BY <2>1, <2>2, <2>3, <2>4, RequestStep
<1>10. CASE DeleteGroup
  <2>1. ticket' \in [TicketIds -> Ticket] /\ \A t \in TicketIds : ticket'[t].status = ticket[t].status
    <3>1. \A t \in TicketIds : ticket[t] \in Ticket /\ ticket'[t] = [ticket[t] EXCEPT !.group = FALSE]
      BY <1>10, <1>t DEF DeleteGroup, TypeOK
    <3>2. \A k \in Ticket : [k EXCEPT !.group = FALSE] \in Ticket
                          /\ [k EXCEPT !.group = FALSE].status = k.status
      BY DEF Ticket
    <3> QED BY <3>1, <3>2, <1>10 DEF DeleteGroup
  <2>2. TypeOK'
    BY <2>1, <1>10, <1>t DEF DeleteGroup, TypeOK
  <2>3. RequestsSound'
    <3> SUFFICES ASSUME NEW w \in Users
                 PROVE  CreateSound(w)' /\ StatusSound(w)' /\ AssignSound(w)'
      BY DEF RequestsSound
    <3>1. request' = request /\ (request[w] # Idle => request[w].t \in TicketIds)
      BY <1>10, <1>t, RequestShape DEF DeleteGroup, TypeOK
    <3>2. request[w].op # "idle" => request[w] # Idle
      BY DEF Idle
    <3> QED BY <3>1, <3>2, <2>1, <1>t DEF RequestsSound, CreateSound, StatusSound, AssignSound, Absent
  <2>4. StatusIsLastEvent' /\ EventsLegal'
    BY <2>1, <1>10 DEF DeleteGroup, Sound, StatusIsLastEvent, EventsLegal, Absent
  <2> QED BY <2>2, <2>3, <2>4 DEF Sound
<1> QED BY <1>1, <1>2, <1>3, <1>4, <1>5, <1>6, <1>7, <1>8, <1>9, <1>10 DEF Next, Step

(* Type correctness, the agreement of row and timeline and the legality of *)
(* its events, whatever requests overlap.                                  *)
THEOREM TypeCorrect == Spec => []TypeOK
<1>1. Init => Sound BY InitSound
<1>2. Sound /\ [Next]_vars => Sound' BY NextSound
<1>3. Sound => TypeOK BY DEF Sound
<1> QED BY <1>1, <1>2, <1>3, PTL DEF Spec

(* The row always shows the status its last event announces.               *)
THEOREM TimelineEndsInStatus == Spec => []StatusIsLastEvent
<1>1. Init => Sound BY InitSound
<1>2. Sound /\ [Next]_vars => Sound' BY NextSound
<1>3. Sound => StatusIsLastEvent BY DEF Sound
<1> QED BY <1>1, <1>2, <1>3, PTL DEF Spec

(* Every event of every timeline is an edge of TRANSITIONS.                *)
THEOREM EventsAreLegal == Spec => []EventsLegal
<1>1. Init => Sound BY InitSound
<1>2. Sound /\ [Next]_vars => Sound' BY NextSound
<1>3. Sound => EventsLegal BY DEF Sound
<1> QED BY <1>1, <1>2, <1>3, PTL DEF Spec

-----------------------------------------------------------------------------
(* Routing, whatever requests overlap.                                     *)

(* One assignment at a time on a ticket not crossed: what it read is still *)
(* the row, less a group deleted since.                                    *)
SoleAssign(u) ==
    request[u].op = "assign" /\ request[u].t \notin crossed =>
        /\ request[u].seen.assignee = ticket[request[u].t].assignee
        /\ ticket[request[u].t].group <=> request[u].seen.group /\ ~gone
        /\ \A w \in Users \ {u} :
              ~(request[w].op = "assign" /\ request[w].t = request[u].t)

GoneFromAll == gone => \A t \in TicketIds : ~ticket[t].group

RoutingKept ==
    /\ Sound /\ GoneFromAll /\ AssignmentRecorded
    /\ \A u \in Users : SoleAssign(u)

(* A system without tickets and requests is routed as recorded.            *)
LEMMA InitRouting == Init => RoutingKept
<1> SUFFICES ASSUME Init PROVE RoutingKept
  OBVIOUS
<1>1. Sound
  BY InitSound
<1>2. GoneFromAll /\ \A u \in Users : SoleAssign(u)
  BY DEF Init, GoneFromAll, SoleAssign, Idle
<1>3. AssignmentRecorded
  <2>1. PICK v \in Vulns : ticket = [t \in TicketIds |->
          [status |-> "absent", creator |-> Nobody, assignee |-> Nobody, group |-> FALSE, vuln |-> v]]
    BY DEF Init
  <2> QED BY <2>1 DEF Init, AssignmentRecorded
<1> QED BY <1>1, <1>2, <1>3 DEF RoutingKept

(* A step that changes no routing and starts no assignment keeps all.      *)
LEMMA RoutingAlone ==
    ASSUME RoutingKept, Sound', UNCHANGED <<routed, gone, crossed>>,
           \A t \in TicketIds : /\ ticket'[t].assignee = ticket[t].assignee
                               /\ ticket'[t].group = ticket[t].group,
           \A u \in Users : request'[u] = request[u] \/ request'[u].op # "assign"
    PROVE  RoutingKept'
<1>1. GoneFromAll' /\ AssignmentRecorded'
  BY DEF RoutingKept, GoneFromAll, AssignmentRecorded
<1>2. ASSUME NEW u \in Users PROVE SoleAssign(u)'
  <2> SUFFICES ASSUME request'[u].op = "assign" PROVE SoleAssign(u)'
    BY DEF SoleAssign
  <2>1. request'[u] = request[u]
    OBVIOUS
  <2>2. request[u].t \in TicketIds
    BY <2>1, RequestShape DEF RoutingKept, Sound, TypeOK, Idle
  <2>3. SoleAssign(u)
    BY DEF RoutingKept
  <2> QED BY <2>1, <2>2, <2>3 DEF SoleAssign
<1> QED BY <1>1, <1>2 DEF RoutingKept

(* An assignment that begins on a ticket not crossed reads a row that is   *)
(* as recorded, and is the only one on it.                                 *)
LEMMA RoutingRead ==
    ASSUME RoutingKept, Sound', NEW u \in Users, NEW t \in TicketIds, NEW who \in Assignee,
           NEW grp \in BOOLEAN, ReadForAssign(u, t, who, grp)
    PROVE  RoutingKept'
<1> DEFINE r == [op |-> "assign", t |-> t, seen |-> ticket[t], who |-> who, grp |-> grp]
<1>t. TypeOK /\ request \in [Users -> Request]
  BY DEF RoutingKept, Sound, TypeOK
<1>1. /\ request' = [request EXCEPT ![u] = r]
      /\ UNCHANGED <<ticket, history, routed, warned, audit, gone>>
      /\ crossed' = IF Assigning(t) THEN crossed \cup {t} ELSE crossed
      /\ request[u] = Idle
  BY DEF ReadForAssign, Read
<1>2. request'[u] = r /\ \A w \in Users \ {u} : request'[w] = request[w]
  BY <1>1, <1>t
<1>3. r.op = "assign" /\ r.t = t /\ r.seen = ticket[t]
  OBVIOUS
<1> HIDE DEF r
<1>4. GoneFromAll' /\ AssignmentRecorded'
  BY <1>1 DEF RoutingKept, GoneFromAll, AssignmentRecorded
<1>5. SoleAssign(u)'
  <2> SUFFICES ASSUME t \notin crossed' PROVE SoleAssign(u)'
    BY <1>2, <1>3 DEF SoleAssign
  <2>1. \A w \in Users \ {u} : ~(request[w].op = "assign" /\ request[w].t = t)
    BY <1>1 DEF Assigning
  <2>2. ticket[t].group <=> ticket[t].group /\ ~gone
    BY DEF RoutingKept, GoneFromAll
  <2> QED BY <2>1, <2>2, <1>1, <1>2, <1>3 DEF SoleAssign
<1>6. ASSUME NEW w \in Users, w # u PROVE SoleAssign(w)'
  <2> SUFFICES ASSUME request[w].op = "assign", request[w].t \notin crossed'
               PROVE  SoleAssign(w)'
    BY <1>2, <1>6 DEF SoleAssign
  <2>1. request[w].t \notin crossed /\ request[w].t # t
    BY <1>1, <1>6 DEF Assigning
  <2>2. SoleAssign(w)
    BY DEF RoutingKept
  <2> QED BY <2>1, <2>2, <1>1, <1>2, <1>3, <1>6 DEF SoleAssign
<1> QED BY <1>4, <1>5, <1>6 DEF RoutingKept

(* A ticket that is created is routed as its event says; no assignment is  *)
(* in flight on it.                                                        *)
LEMMA RoutingCreate ==
    ASSUME RoutingKept, Sound', NEW u \in Users, CommitCreate(u)
    PROVE  RoutingKept'
<1> DEFINE r == request[u]
<1>t. TypeOK
  BY DEF RoutingKept, Sound
<1>1. r \in Request /\ r.op = "create" /\ r # Idle /\ r.t \in TicketIds
  BY <1>t, RequestShape DEF CommitCreate, TypeOK, Idle
<1>2. /\ ticket' = [ticket EXCEPT ![r.t] = [status |-> "new", creator |-> u, assignee |-> r.who,
                                           group |-> r.grp, vuln |-> r.vuln]]
      /\ routed' = [routed EXCEPT ![r.t] = <<r.who, r.grp>>]
      /\ request' = [request EXCEPT ![u] = Idle]
      /\ UNCHANGED <<gone, crossed>>
      /\ r.grp => ~gone
  BY DEF CommitCreate
<1>3. Absent(r.t) /\ \A w \in Users \ {u} : request[w] # Idle => request[w].t # r.t
  BY <1>1 DEF RoutingKept, Sound, RequestsSound, CreateSound
<1>4. /\ \A t \in TicketIds \ {r.t} : ticket'[t] = ticket[t] /\ routed'[t] = routed[t]
      /\ ticket'[r.t].assignee = r.who /\ ticket'[r.t].group = r.grp
      /\ routed'[r.t] = <<r.who, r.grp>>
      /\ request'[u] = Idle /\ \A w \in Users \ {u} : request'[w] = request[w]
  BY <1>1, <1>2, <1>t DEF TypeOK
<1> HIDE DEF r
<1>5. GoneFromAll'
  BY <1>2, <1>4 DEF RoutingKept, GoneFromAll
<1>6. AssignmentRecorded'
  <2> SUFFICES ASSUME NEW t \in TicketIds \ crossed
               PROVE  /\ ticket'[t].assignee = routed'[t][1]
                      /\ ticket'[t].group <=> routed'[t][2] /\ ~gone'
    BY <1>2 DEF AssignmentRecorded
  <2>1. CASE t = r.t
    BY <2>1, <1>2, <1>4
  <2>2. CASE t # r.t
    BY <2>2, <1>2, <1>4 DEF RoutingKept, AssignmentRecorded
  <2> QED BY <2>1, <2>2
<1>7. ASSUME NEW w \in Users PROVE SoleAssign(w)'
  <2> SUFFICES ASSUME request'[w].op = "assign" PROVE SoleAssign(w)'
    BY DEF SoleAssign
  <2>1. w # u /\ request'[w] = request[w] /\ request[w] # Idle
    BY <1>4 DEF Idle
  <2>2. request[w].t \in TicketIds \ {r.t}
    BY <2>1, <1>3, <1>t, RequestShape DEF TypeOK
  <2>3. SoleAssign(w)
    BY DEF RoutingKept
  <2>4. \A v \in Users : request'[v].op = "assign" => request'[v] = request[v]
    BY <1>4 DEF Idle
  <2> QED BY <2>1, <2>2, <2>3, <2>4, <1>2, <1>4 DEF SoleAssign
<1> QED BY <1>5, <1>6, <1>7 DEF RoutingKept

(* An assignment that was alone writes what its event says; one that was   *)
(* not is on a crossed ticket.                                             *)
LEMMA RoutingCommit ==
    ASSUME RoutingKept, Sound', NEW u \in Users, CommitAssign(u)
    PROVE  RoutingKept'
<1> DEFINE r == request[u]
<1> DEFINE who == IF r.who = r.seen.assignee THEN ticket[r.t].assignee ELSE r.who
<1> DEFINE grp == IF r.grp = r.seen.group THEN ticket[r.t].group ELSE r.grp
<1>t. TypeOK
  BY DEF RoutingKept, Sound
<1>1. /\ r \in Request /\ r.op = "assign" /\ r # Idle /\ r.t \in TicketIds
      /\ r.grp \in BOOLEAN /\ r.seen \in Ticket
  BY <1>t, RequestShape DEF CommitAssign, TypeOK, Idle
<1>2. /\ ticket' = [ticket EXCEPT ![r.t].assignee = who, ![r.t].group = grp]
      /\ routed' = [routed EXCEPT ![r.t] = <<r.who, r.grp>>]
      /\ request' = [request EXCEPT ![u] = Idle]
      /\ UNCHANGED <<gone, crossed>>
      /\ r.grp /\ ~r.seen.group => ~gone
  BY <1>1, <1>t DEF CommitAssign, TypeOK, Ticket
<1>3. ticket[r.t] \in Ticket
  BY <1>1, <1>t DEF TypeOK
<1>4. SoleAssign(u) /\ (gone => ~ticket[r.t].group)
  BY <1>1 DEF RoutingKept, GoneFromAll
<1>5. r.t \notin crossed =>
         /\ who = r.who
         /\ grp <=> r.grp /\ ~gone
  <2> SUFFICES ASSUME r.t \notin crossed
               PROVE  who = r.who /\ (grp <=> r.grp /\ ~gone)
    OBVIOUS
  <2>1. /\ r.seen.assignee = ticket[r.t].assignee
        /\ ticket[r.t].group <=> r.seen.group /\ ~gone
    BY <1>1, <1>4 DEF SoleAssign
  <2>2. r.seen.group \in BOOLEAN /\ ticket[r.t].group \in BOOLEAN
    BY <1>1, <1>3 DEF Ticket
  <2> HIDE DEF r
  <2>3. CASE r.grp = r.seen.group
    BY <2>1, <2>3
  <2>4. CASE r.grp # r.seen.group
    BY <2>1, <2>2, <2>4, <1>1, <1>2
  <2> QED BY <2>1, <2>3, <2>4
<1>6. gone => ~grp
  <2>1. r.seen.group \in BOOLEAN
    BY <1>1 DEF Ticket
  <2> HIDE DEF r
  <2>2. CASE r.grp = r.seen.group
    BY <2>2, <1>4
  <2>3. CASE r.grp # r.seen.group
    BY <2>1, <2>3, <1>1, <1>2
  <2> QED BY <2>2, <2>3
<1> HIDE DEF r, who, grp
<1>7. /\ \A t \in TicketIds \ {r.t} : ticket'[t] = ticket[t] /\ routed'[t] = routed[t]
      /\ ticket'[r.t].assignee = who /\ ticket'[r.t].group = grp
      /\ routed'[r.t] = <<r.who, r.grp>>
      /\ request'[u] = Idle /\ \A w \in Users \ {u} : request'[w] = request[w]
  BY <1>1, <1>2, <1>3, <1>t DEF TypeOK, Ticket
<1>8. GoneFromAll'
  BY <1>2, <1>6, <1>7 DEF RoutingKept, GoneFromAll
<1>9. AssignmentRecorded'
  <2> SUFFICES ASSUME NEW t \in TicketIds \ crossed
               PROVE  /\ ticket'[t].assignee = routed'[t][1]
                      /\ ticket'[t].group <=> routed'[t][2] /\ ~gone'
    BY <1>2 DEF AssignmentRecorded
  <2>1. CASE t = r.t
    BY <2>1, <1>2, <1>5, <1>7
  <2>2. CASE t # r.t
    BY <2>2, <1>2, <1>7 DEF RoutingKept, AssignmentRecorded
  <2> QED BY <2>1, <2>2
<1>10. ASSUME NEW w \in Users PROVE SoleAssign(w)'
  <2> SUFFICES ASSUME request'[w].op = "assign", request'[w].t \notin crossed
               PROVE  SoleAssign(w)'
    BY <1>2 DEF SoleAssign
  <2>1. w # u /\ request'[w] = request[w] /\ request[w] # Idle
    BY <1>7 DEF Idle
  <2>2. SoleAssign(w)
    BY DEF RoutingKept
  <2>3. request[u].op = "assign" /\ request[u].t = r.t
    BY <1>1 DEF r
  <2>4. request[w].t \in TicketIds \ {r.t}
    BY <2>1, <2>2, <2>3, <1>t, RequestShape DEF TypeOK, SoleAssign
  <2>5. \A v \in Users : request'[v].op = "assign" => request'[v] = request[v]
    BY <1>7 DEF Idle
  <2> QED BY <2>1, <2>2, <2>4, <2>5, <1>2, <1>7 DEF SoleAssign
<1> QED BY <1>8, <1>9, <1>10 DEF RoutingKept

(* The deletion of the group clears every row, and what is recorded counts *)
(* the group no more.                                                      *)
LEMMA RoutingDelete ==
    ASSUME RoutingKept, Sound', DeleteGroup
    PROVE  RoutingKept'
<1>t. TypeOK
  BY DEF RoutingKept, Sound
<1>1. /\ gone' /\ UNCHANGED <<routed, crossed, request>>
      /\ \A t \in TicketIds : ticket'[t] = [ticket[t] EXCEPT !.group = FALSE]
  BY DEF DeleteGroup
<1>2. \A k \in Ticket : /\ [k EXCEPT !.group = FALSE].assignee = k.assignee
                        /\ ~[k EXCEPT !.group = FALSE].group
  BY DEF Ticket
<1>3. ASSUME NEW t \in TicketIds
      PROVE  ticket'[t].assignee = ticket[t].assignee /\ ~ticket'[t].group
  <2>1. ticket[t] \in Ticket
    BY <1>t DEF TypeOK
  <2>2. ticket'[t] = [ticket[t] EXCEPT !.group = FALSE]
    BY <1>1
  <2> QED BY <2>1, <2>2, <1>2
<1>4. GoneFromAll' /\ AssignmentRecorded'
  BY <1>1, <1>3 DEF RoutingKept, GoneFromAll, AssignmentRecorded
<1>5. ASSUME NEW w \in Users PROVE SoleAssign(w)'
  <2> SUFFICES ASSUME request[w].op = "assign" PROVE SoleAssign(w)'
    BY <1>1 DEF SoleAssign
  <2>1. request[w].t \in TicketIds
    BY <1>t, RequestShape DEF TypeOK, Idle
  <2>2. SoleAssign(w)
    BY DEF RoutingKept
  <2> QED BY <2>1, <2>2, <1>1, <1>3 DEF SoleAssign
<1> QED BY <1>4, <1>5 DEF RoutingKept

(* Every step keeps the routing as recorded.                               *)
LEMMA NextRouting == RoutingKept /\ [Next]_vars => RoutingKept'
<1> SUFFICES ASSUME RoutingKept, [Next]_vars PROVE RoutingKept'
  OBVIOUS
<1>t. TypeOK /\ Sound
  BY DEF RoutingKept, Sound
<1>n. Sound'
  BY <1>t, NextSound
<1>1. CASE UNCHANGED vars
  BY <1>1, <1>n, RoutingAlone DEF vars
<1>2. CASE DeleteGroup
  BY <1>2, <1>n, RoutingDelete
<1>3. ASSUME NEW u \in Users, Step(u) PROVE RoutingKept'
  <2>1. ASSUME NEW t \in TicketIds, NEW who \in Assignee, NEW grp \in BOOLEAN,
               ReadForAssign(u, t, who, grp)
        PROVE  RoutingKept'
    BY <2>1, <1>n, RoutingRead
  <2>2. CASE CommitCreate(u)
    BY <2>2, <1>n, RoutingCreate
  <2>3. CASE CommitAssign(u)
    BY <2>3, <1>n, RoutingCommit
  <2>4. CASE CommitStatus(u)
    <3>1. request[u].t \in TicketIds
      BY <2>4, <1>t, RequestShape DEF CommitStatus, TypeOK, Idle
    <3>2. \A t \in TicketIds : /\ ticket'[t].assignee = ticket[t].assignee
                               /\ ticket'[t].group = ticket[t].group
      BY <2>4, <3>1, <1>t DEF CommitStatus, TypeOK, Ticket
    <3>3. \A w \in Users : request'[w] = request[w] \/ request'[w].op # "assign"
      BY <2>4, <1>t DEF CommitStatus, TypeOK
    <3>4. UNCHANGED <<routed, gone, crossed>>
      BY <2>4 DEF CommitStatus
    <3> QED BY <3>2, <3>3, <3>4, <1>n, RoutingAlone
  <2>5. CASE \/ \E t \in TicketIds :
                   \/ \E to \in STATUSES : ReadForStatus(u, t, to)
                   \/ \E v \in Vulns, who \in Assignee, grp \in BOOLEAN :
                         ReadForCreate(u, t, v, who, grp)
                   \/ ReadForComment(u, t)
             \/ CommitComment(u) \/ WriteAudit(u) \/ Drop(u)
    <3>1. UNCHANGED <<ticket, routed, gone, crossed>>
      BY <2>5 DEF ReadForStatus, ReadForCreate, ReadForComment, Read, CommitComment, WriteAudit, Drop
    <3>2. \A w \in Users : request'[w] = request[w] \/ request'[w].op # "assign"
      BY <2>5, <1>t DEF ReadForStatus, ReadForCreate, ReadForComment, Read, CommitComment,
         WriteAudit, Drop, TypeOK, Idle
    <3> QED BY <3>1, <3>2, <1>n, RoutingAlone
  <2> QED BY <1>3, <2>1, <2>2, <2>3, <2>4, <2>5 DEF Step
<1> QED BY <1>1, <1>2, <1>3 DEF Next

(* Whatever overlaps, an unfinished request, a death or the deletion of    *)
(* the group: a ticket that never had two assignments at once is routed as *)
(* its last assign event says, less a group that is gone.                  *)
THEOREM RoutingIsRecorded == Spec => []AssignmentRecorded
<1>1. Init => RoutingKept BY InitRouting
<1>2. RoutingKept /\ [Next]_vars => RoutingKept' BY NextRouting
<1>3. RoutingKept => AssignmentRecorded BY DEF RoutingKept
<1> QED BY <1>1, <1>2, <1>3, PTL DEF Spec

-----------------------------------------------------------------------------
(* One request per ticket at a time.                                       *)

Alone ==
    \A u, w \in Users :
        u # w /\ request[u] # Idle /\ request[w] # Idle => request[u].t # request[w].t

(* What the handler of u read, and was allowed, is still so.               *)
Current(u) ==
    /\ request[u].op \in {"status", "assign"} => request[u].seen = ticket[request[u].t]
    /\ request[u].op = "status" => MayMove(u, ticket[request[u].t], request[u].to)

Isolated ==
    /\ Sound /\ Alone
    /\ \A u \in Users : Current(u)
    /\ HistoryIsPath

(* A step of u leaves the requests of the others and their tickets alone.  *)
LEMMA OthersUntouched ==
    ASSUME ~Overlap, Sound, Alone, NEW u \in Users, Step(u),
           NEW w \in Users, w # u
    PROVE  /\ request'[w] = request[w]
           /\ request[w] # Idle => ticket'[request[w].t] = ticket[request[w].t]
           /\ request[w] # Idle /\ request'[u] # Idle => request'[u].t # request[w].t
<1>t. TypeOK
  BY DEF Sound
<1>s. /\ request[w] # Idle => request[w].t \in TicketIds
      /\ request[u] # Idle => request[u].t \in TicketIds
  BY <1>t, RequestShape DEF TypeOK
<1>1. ASSUME NEW t \in TicketIds, NEW to \in STATUSES, ReadForStatus(u, t, to)
      PROVE  /\ request' = [request EXCEPT ![u] = request'[u]] /\ request'[u].t = t
             /\ ticket' = ticket /\ Untouched(t)
  BY <1>1, <1>t DEF ReadForStatus, Read, TypeOK
<1>2. ASSUME NEW t \in TicketIds, NEW who \in Assignee, NEW grp \in BOOLEAN,
             ReadForAssign(u, t, who, grp)
      PROVE  /\ request' = [request EXCEPT ![u] = request'[u]] /\ request'[u].t = t
             /\ ticket' = ticket /\ Untouched(t)
  BY <1>2, <1>t DEF ReadForAssign, Read, TypeOK
<1>3. ASSUME NEW t \in TicketIds, NEW v \in Vulns, NEW who \in Assignee, NEW grp \in BOOLEAN,
             ReadForCreate(u, t, v, who, grp)
      PROVE  /\ request' = [request EXCEPT ![u] = request'[u]] /\ request'[u].t = t
             /\ ticket' = ticket /\ Untouched(t)
  BY <1>3, <1>t DEF ReadForCreate, TypeOK
<1>4. ASSUME NEW t \in TicketIds, ReadForComment(u, t)
      PROVE  /\ request' = [request EXCEPT ![u] = request'[u]] /\ request'[u].t = t
             /\ ticket' = ticket /\ Untouched(t)
  BY <1>4, <1>t DEF ReadForComment, Read, TypeOK
<1>5. ASSUME NEW t \in TicketIds,
             /\ request' = [request EXCEPT ![u] = request'[u]] /\ request'[u].t = t
             /\ ticket' = ticket /\ Untouched(t)
      PROVE  /\ request'[w] = request[w]
             /\ request[w] # Idle => ticket'[request[w].t] = ticket[request[w].t]
             /\ request[w] # Idle /\ request'[u] # Idle => request'[u].t # request[w].t
  BY <1>5, <1>t DEF Untouched, TypeOK
<1>6. ASSUME \/ CommitCreate(u) \/ CommitStatus(u) \/ CommitAssign(u) \/ CommitComment(u)
             \/ WriteAudit(u) \/ Drop(u)
      PROVE  /\ request'[w] = request[w]
             /\ request[w] # Idle => ticket'[request[w].t] = ticket[request[w].t]
             /\ request[w] # Idle /\ request'[u] # Idle => request'[u].t # request[w].t
  <2>1. request[u] # Idle
    BY <1>6 DEF CommitCreate, CommitStatus, CommitAssign, CommitComment, WriteAudit, Drop, Idle
  <2>2. request[w] # Idle => request[u].t # request[w].t
    BY <2>1 DEF Alone
  <2>3. /\ request' = [request EXCEPT ![u] = request'[u]]
        /\ request'[u] # Idle => request'[u].t = request[u].t
    BY <1>6, <1>t DEF CommitCreate, CommitStatus, CommitAssign, CommitComment, WriteAudit, Drop, TypeOK
  <2>4. \A t \in TicketIds \ {request[u].t} : ticket'[t] = ticket[t]
    BY <1>6, <1>t, <1>s, <2>1
       DEF CommitCreate, CommitStatus, CommitAssign, CommitComment, WriteAudit, Drop, TypeOK
  <2> QED BY <2>2, <2>3, <2>4, <1>s, <1>t DEF TypeOK
<1> QED BY <1>1, <1>2, <1>3, <1>4, <1>5, <1>6 DEF Step

(* A system without tickets and requests is isolated.                      *)
LEMMA InitIsolated == Init => Isolated
<1> SUFFICES ASSUME Init PROVE Isolated
  OBVIOUS
<1>1. Sound
  BY InitSound
<1>2. Alone /\ \A u \in Users : Current(u)
  BY DEF Init, Alone, Current, Idle
<1>3. HistoryIsPath
  BY DEF Init, HistoryIsPath
<1> QED BY <1>1, <1>2, <1>3 DEF Isolated

(* When each ticket has one request at a time, what a handler read is      *)
(* still true when it commits, so its event continues the timeline.        *)
LEMMA NextIsolated == ~Overlap /\ Isolated /\ [Next]_vars => Isolated'
<1> SUFFICES ASSUME ~Overlap, Isolated, [Next]_vars PROVE Isolated'
  OBVIOUS
<1>t. TypeOK /\ Sound /\ Alone /\ HistoryIsPath
  BY DEF Isolated, Sound
<1>n. Sound'
  BY <1>t, NextSound
<1>1. CASE UNCHANGED vars
  BY <1>1, <1>n DEF vars, Isolated, Alone, Current, MayMove, can_view_ticket, HistoryIsPath
<1>2. ASSUME NEW u \in Users, Step(u) PROVE Isolated'
  <2>o. ASSUME NEW w \in Users, w # u
        PROVE  /\ request'[w] = request[w]
               /\ request[w] # Idle => ticket'[request[w].t] = ticket[request[w].t]
               /\ request[w] # Idle /\ request'[u] # Idle => request'[u].t # request[w].t
    BY <1>2, <1>t, <2>o, OthersUntouched
  <2>1. Alone'
    <3> SUFFICES ASSUME NEW x \in Users, NEW w \in Users, x # w, request'[x] # Idle, request'[w] # Idle
                 PROVE  request'[x].t # request'[w].t
      BY DEF Alone
    <3>1. CASE x = u
      BY <3>1, <2>o
    <3>2. CASE w = u
      BY <3>2, <2>o
    <3>3. CASE x # u /\ w # u
      BY <3>3, <2>o, <1>t DEF Alone
    <3> QED BY <3>1, <3>2, <3>3
  <2>2. ASSUME NEW w \in Users PROVE Current(w)'
    <3>1. CASE w # u
      <4>1. request[w].op \in {"status", "assign"} => request[w] # Idle
        BY DEF Idle
      <4> QED BY <3>1, <4>1, <2>o DEF Isolated, Current, MayMove, can_view_ticket
    <3>2. CASE w = u
      <4>1. ASSUME NEW t \in TicketIds, NEW to \in STATUSES, ReadForStatus(u, t, to)
            PROVE  Current(u)'
        BY <4>1, <1>t DEF ReadForStatus, Read, Current, MayMove, can_view_ticket, TypeOK
      <4>2. ASSUME NEW t \in TicketIds, NEW who \in Assignee, NEW grp \in BOOLEAN,
                   ReadForAssign(u, t, who, grp)
            PROVE  Current(u)'
        BY <4>2, <1>t DEF ReadForAssign, Read, Current, TypeOK
      <4>3. ASSUME \/ \E t \in TicketIds :
                         \/ \E v \in Vulns, who \in Assignee, grp \in BOOLEAN :
                               ReadForCreate(u, t, v, who, grp)
                         \/ ReadForComment(u, t)
                   \/ CommitCreate(u) \/ CommitStatus(u) \/ CommitAssign(u) \/ CommitComment(u)
                   \/ WriteAudit(u) \/ Drop(u)
            PROVE  Current(u)'
        <5>1. request'[u].op \notin {"status", "assign"}
          BY <4>3, <1>t DEF ReadForCreate, ReadForComment, Read, CommitCreate, CommitStatus,
             CommitAssign, CommitComment, WriteAudit, Drop, TypeOK, Idle
        <5> QED BY <5>1 DEF Current
      <4> QED BY <3>2, <4>1, <4>2, <4>3, <1>2 DEF Step
    <3> QED BY <3>1, <3>2
  <2>3. HistoryIsPath'
    <3>1. CASE CommitStatus(u)
      <4> DEFINE t0 == request[u].t
      <4> DEFINE e == [from |-> request[u].seen.status, to |-> request[u].to, by |-> u]
      <4>1. t0 \in TicketIds /\ history[t0] \in Seq(Event) /\ request[u].op = "status"
        BY <3>1, <1>t, RequestShape DEF CommitStatus, TypeOK, Idle
      <4>2. /\ history' = [history EXCEPT ![t0] = Append(@, e)]
            /\ e.from = ticket[t0].status /\ ~Absent(t0)
        BY <3>1, <4>1 DEF CommitStatus, Isolated, Current, Sound, RequestsSound, StatusSound
      <4>3. /\ \A t \in TicketIds \ {t0} : history'[t] = history[t]
            /\ history'[t0] = Append(history[t0], e)
        BY <4>1, <4>2, <1>t DEF TypeOK
      <4>4. e.from = IF history[t0] = <<>> THEN "new" ELSE history[t0][Len(history[t0])].to
        BY <4>1, <4>2, <1>t DEF Sound, StatusIsLastEvent, Last
      <4> HIDE DEF e, t0
      <4>5. \A i \in DOMAIN history'[t0] :
               history'[t0][i].from = IF i = 1 THEN "new" ELSE history'[t0][i - 1].to
        <5> SUFFICES ASSUME NEW i \in 1..(Len(history[t0]) + 1)
                     PROVE  history'[t0][i].from = IF i = 1 THEN "new" ELSE history'[t0][i - 1].to
          BY <4>1, <4>3
        <5>1. CASE i <= Len(history[t0])
          BY <5>1, <4>1, <4>3, <1>t DEF HistoryIsPath
        <5>2. CASE i = Len(history[t0]) + 1
          BY <5>2, <4>1, <4>3, <4>4
        <5> QED BY <5>1, <5>2, <4>1
      <4> SUFFICES ASSUME NEW t \in TicketIds, NEW i \in DOMAIN history'[t]
                   PROVE  history'[t][i].from = IF i = 1 THEN "new" ELSE history'[t][i - 1].to
        BY DEF HistoryIsPath
      <4>6. CASE t = t0
        BY <4>5, <4>6
      <4>7. CASE t # t0
        BY <4>3, <4>7, <1>t DEF HistoryIsPath
      <4> QED BY <4>6, <4>7
    <3>2. CASE ~CommitStatus(u)
      <4>1. history' = history
        BY <3>2, <1>2 DEF Step, ReadForStatus, ReadForAssign, ReadForComment, ReadForCreate, Read,
           CommitCreate, CommitAssign, CommitComment, WriteAudit, Drop
      <4> QED BY <4>1, <1>t DEF HistoryIsPath
    <3> QED BY <3>1, <3>2
  <2> QED BY <1>n, <2>1, <2>2, <2>3 DEF Isolated
<1>3. CASE DeleteGroup
  <2>1. request' = request /\ history' = history
    BY <1>3 DEF DeleteGroup
  <2>2. ASSUME NEW w \in Users, request[w].op \in {"status", "assign"}
        PROVE  ticket'[request[w].t] = ticket[request[w].t]
    <3>1. request[w] # Idle /\ request[w].t \in TicketIds
      BY <2>2, <1>t, RequestShape DEF TypeOK, Idle
    <3>2. ~ticket[request[w].t].group
      BY <3>1, <1>3 DEF DeleteGroup, Untouched
    <3>3. ticket[request[w].t] \in Ticket
      BY <3>1, <1>t DEF TypeOK
    <3>4. ticket'[request[w].t] = [ticket[request[w].t] EXCEPT !.group = FALSE]
      BY <3>1, <1>3 DEF DeleteGroup
    <3> HIDE <1>3
    <3> QED BY <3>2, <3>3, <3>4 DEF Ticket
  <2>3. ASSUME NEW w \in Users PROVE Current(w)'
    BY <2>1, <2>2 DEF Isolated, Current, MayMove, can_view_ticket
  <2>4. Alone' /\ HistoryIsPath'
    BY <2>1, <1>t DEF Alone, HistoryIsPath
  <2> QED BY <1>n, <2>3, <2>4 DEF Isolated
<1> QED BY <1>1, <1>2, <1>3 DEF Next

(* One request per ticket at a time: each event starts where the one       *)
(* before it ended.                                                        *)
THEOREM TimelineIsPath == ~Overlap /\ Spec => []HistoryIsPath
<1> SUFFICES ASSUME ~Overlap PROVE Spec => []HistoryIsPath
  OBVIOUS
<1>1. Init => Isolated BY InitIsolated
<1>2. Isolated /\ [Next]_vars => Isolated' BY NextIsolated
<1>3. Isolated => HistoryIsPath BY DEF Isolated
<1> QED BY <1>1, <1>2, <1>3, PTL DEF Spec

(* A closed ticket is reopened by a manager only, if each ticket has one   *)
(* request at a time.                                                      *)
THEOREM ReopenedByManager == ~Overlap /\ Spec => ReopenManageOnly
<1> SUFFICES ASSUME ~Overlap PROVE Spec => ReopenManageOnly
  OBVIOUS
<1>1. Init => Isolated BY InitIsolated
<1>2. Isolated /\ [Next]_vars => Isolated' BY NextIsolated
<1>3. Isolated /\ [Next]_vars =>
        [\A t \in TicketIds : ticket[t].status = "closed" /\ ticket'[t].status # "closed"
            => Last(history'[t]).by \in Managers]_vars
  <2>d. Isolated /\ DeleteGroup => \A t \in TicketIds : ticket'[t].status = ticket[t].status
    BY DEF DeleteGroup, Isolated, Sound, TypeOK, Ticket
  <2> SUFFICES ASSUME Isolated, NEW u \in Users, Step(u), NEW t \in TicketIds,
                      ticket[t].status = "closed", ticket'[t].status # "closed"
               PROVE  Last(history'[t]).by \in Managers
    BY <2>d DEF Next, vars
  <2>t. TypeOK
    BY DEF Isolated, Sound
  <2>1. ~CommitCreate(u)
    BY <2>t, RequestShape
       DEF CommitCreate, Isolated, Sound, RequestsSound, CreateSound, Absent, TypeOK, Idle
  <2>2. ~CommitAssign(u)
    <3> SUFFICES ASSUME CommitAssign(u) PROVE FALSE
      OBVIOUS
    <3>1. ticket'[t].status = ticket[t].status
      <4>1. ticket[t] \in Ticket
        BY <2>t DEF TypeOK
      <4>2. CASE t = request[u].t
        <5> DEFINE who == IF request[u].who = request[u].seen.assignee
                          THEN ticket[t].assignee ELSE request[u].who
        <5> DEFINE grp == IF request[u].grp = request[u].seen.group
                          THEN ticket[t].group ELSE request[u].grp
        <5>1. ticket'[t] = [ticket[t] EXCEPT !.assignee = who, !.group = grp]
          BY <4>1, <4>2, <2>t DEF CommitAssign, TypeOK, Ticket
        <5> HIDE DEF who, grp
        <5> QED BY <5>1, <4>1 DEF Ticket
      <4>3. CASE t # request[u].t
        BY <4>3, <2>t DEF CommitAssign, TypeOK
      <4> QED BY <4>2, <4>3
    <3> QED BY <3>1
  <2>3. CommitStatus(u)
    BY <2>1, <2>2 DEF Step, ReadForStatus, ReadForAssign, ReadForComment, ReadForCreate, Read,
       CommitComment, WriteAudit, Drop
  <2>4. t = request[u].t /\ u \in Managers /\ request[u].to \in STATUSES
    BY <2>3, <2>t, RequestShape DEF CommitStatus, TypeOK, Ticket, Idle, Isolated, Current, MayMove
  <2>5. history[t] \in Seq(Event) /\ request[u].seen.status \in STATUSES
    BY <2>3, <2>4, <2>t DEF TypeOK, CommitStatus, Isolated, Sound, RequestsSound, StatusSound
  <2>6. history'[t] = Append(history[t], [from |-> request[u].seen.status, to |-> request[u].to, by |-> u])
    BY <2>3, <2>4, <2>t DEF CommitStatus, TypeOK
  <2>7. Last(history'[t]).by = u
    BY <2>4, <2>5, <2>6 DEF Last, Event
  <2> QED BY <2>4, <2>7
<1> QED BY <1>1, <1>2, <1>3, PTL DEF Spec, ReopenManageOnly

(* Who changes the status may see the ticket at that moment, if each       *)
(* ticket has one request at a time.                                       *)
THEOREM AccessHoldsAtCommit == ~Overlap /\ Spec => AccessAtCommit
<1> SUFFICES ASSUME ~Overlap PROVE Spec => AccessAtCommit
  OBVIOUS
<1>1. Init => Isolated BY InitIsolated
<1>2. Isolated /\ [Next]_vars => Isolated' BY NextIsolated
<1>3. Isolated /\ [Next]_vars =>
        [\A t \in TicketIds : history'[t] # history[t]
            => can_view_ticket(Last(history'[t]).by, ticket[t])]_vars
  <2> SUFFICES ASSUME Isolated, NEW u \in Users, Step(u), NEW t \in TicketIds,
                      history'[t] # history[t]
               PROVE  can_view_ticket(Last(history'[t]).by, ticket[t])
    BY DEF Next, DeleteGroup, vars
  <2>t. TypeOK
    BY DEF Isolated, Sound
  <2>1. CommitStatus(u)
    BY DEF Step, ReadForStatus, ReadForAssign, ReadForComment, ReadForCreate, Read,
       CommitCreate, CommitAssign, CommitComment, WriteAudit, Drop
  <2>2. t = request[u].t /\ can_view_ticket(u, ticket[t]) /\ request[u].to \in STATUSES
    BY <2>1, <2>t, RequestShape DEF CommitStatus, TypeOK, Idle, Isolated, Current, MayMove
  <2>3. history[t] \in Seq(Event) /\ request[u].seen.status \in STATUSES
    BY <2>1, <2>2, <2>t DEF TypeOK, CommitStatus, Isolated, Sound, RequestsSound, StatusSound
  <2>4. history'[t] = Append(history[t], [from |-> request[u].seen.status, to |-> request[u].to, by |-> u])
    BY <2>1, <2>2, <2>t DEF CommitStatus, TypeOK
  <2>5. Last(history'[t]).by = u
    BY <2>2, <2>3, <2>4 DEF Last, Event
  <2> QED BY <2>2, <2>5
<1> QED BY <1>1, <1>2, <1>3, PTL DEF Spec, AccessAtCommit

-----------------------------------------------------------------------------
(* The refinement: with one request per ticket at a time every commit is a *)
(* step of TicketBoard, and everything else leaves the board alone.        *)

(* The rights a handler was found to have do not change.                   *)
Entitled(u) ==
    /\ request[u].op = "create" =>
          u \in Writers /\ (request[u].who \in {Nobody, u} \/ u \in Managers)
    /\ request[u].op = "assign" => u \in Managers

AllEntitled == \A u \in Users : Entitled(u)

(* Every step keeps the rights of all requests in flight.                  *)
LEMMA NextEntitled ==
    ASSUME TypeOK, AllEntitled, [Next]_vars
    PROVE  AllEntitled'
<1> USE TicketsAssumption
<1>1. CASE UNCHANGED vars \/ DeleteGroup
  BY <1>1 DEF vars, DeleteGroup, AllEntitled, Entitled
<1>2. ASSUME NEW u \in Users, Step(u), NEW w \in Users
      PROVE  Entitled(w)'
  <2>1. CASE request'[w] = request[w]
    BY <2>1 DEF AllEntitled, Entitled
  <2>2. CASE request'[w].op \notin {"create", "assign"}
    BY <2>2 DEF Entitled
  <2>3. CASE \E t \in TicketIds, who \in Assignee, grp \in BOOLEAN :
               ReadForAssign(u, t, who, grp) /\ w = u
    BY <2>3 DEF ReadForAssign, Read, Entitled, TypeOK
  <2>4. CASE \E t \in TicketIds, v \in Vulns, who \in Assignee, grp \in BOOLEAN :
               ReadForCreate(u, t, v, who, grp) /\ w = u
    BY <2>4 DEF ReadForCreate, can_write, Entitled, TypeOK
  <2>5. ASSUME NEW r, request' = [request EXCEPT ![u] = r]
        PROVE  (w # u => request'[w] = request[w]) /\ (w = u => request'[w] = r)
    BY <2>5 DEF TypeOK
  <2>6. CASE \E t \in TicketIds :
               \/ \E to \in STATUSES : ReadForStatus(u, t, to)
               \/ \E who \in Assignee, grp \in BOOLEAN : ReadForAssign(u, t, who, grp)
               \/ \E v \in Vulns, who \in Assignee, grp \in BOOLEAN :
                     ReadForCreate(u, t, v, who, grp)
               \/ ReadForComment(u, t)
    BY <2>1, <2>2, <2>3, <2>4, <2>5, <2>6
       DEF ReadForStatus, ReadForAssign, ReadForCreate, ReadForComment, Read
  <2>7. CASE \/ CommitCreate(u) \/ CommitStatus(u) \/ CommitAssign(u) \/ CommitComment(u)
             \/ WriteAudit(u) \/ Drop(u)
    <3>1. \/ request' = [request EXCEPT ![u] = Idle]
          \/ request' = [request EXCEPT ![u] = [op |-> "audit", t |-> request[u].t]]
      BY <2>7 DEF CommitCreate, CommitStatus, CommitAssign, CommitComment, WriteAudit, Drop
    <3>2. w = u => request'[w].op \in {"idle", "audit"}
      BY <3>1 DEF TypeOK, Idle
    <3>3. w # u => request'[w] = request[w]
      BY <3>1 DEF TypeOK
    <3> QED BY <2>1, <2>2, <3>2, <3>3
  <2> QED BY <1>2, <2>6, <2>7 DEF Step
<1> QED BY <1>1, <1>2 DEF Next, AllEntitled

(* No ticket and no event: the board is empty.                             *)
LEMMA BoardInit == Init => Board!Init /\ AllEntitled
<1>1. Init => Board!Init
  BY Zenon DEF Init, Board!Init, Board!Blank
<1>2. Init => AllEntitled
  BY DEF Init, AllEntitled, Entitled, Idle
<1> QED BY <1>1, <1>2

(* A ticket that is created is opened on the board.                        *)
LEMMA BoardOpen ==
    ASSUME Isolated, AllEntitled, NEW u \in Users, CommitCreate(u)
    PROVE  Board!Next
<1>1. PICK r \in Request : r = request[u]
  BY DEF Isolated, Sound, TypeOK
<1>2. r.op = "create" /\ r # Idle
  BY <1>1 DEF CommitCreate, Idle
<1>3. /\ r.t \in TicketIds /\ r.vuln \in Vulns /\ r.who \in Users \cup {Nobody}
      /\ r.grp \in BOOLEAN
  BY <1>2, RequestShape DEF Assignee
<1>4. ticket[r.t].status = "absent"
  BY <1>1, <1>2 DEF Isolated, Sound, RequestsSound, CreateSound, Absent
<1>5. u \in Writers /\ (r.who \in {Nobody, u} \/ u \in Managers)
  BY <1>1, <1>2 DEF AllEntitled, Entitled
<1>6. Board!Open(r.t, u, r.vuln, r.who, r.grp)
  BY <1>1, <1>4, <1>5 DEF CommitCreate, Board!Open
<1> QED BY <1>3, <1>6 DEF Board!Next

(* A status that is committed is a move on the board as it stands.         *)
LEMMA BoardMove ==
    ASSUME Isolated, NEW u \in Users, CommitStatus(u)
    PROVE  Board!Next
<1>1. PICK r \in Request : r = request[u]
  BY DEF Isolated, Sound, TypeOK
<1>2. r.op = "status" /\ r # Idle
  BY <1>1 DEF CommitStatus, Idle
<1>3. r.t \in TicketIds /\ r.to \in STATUSES
  BY <1>2, RequestShape
<1>4. r.seen = ticket[r.t] /\ MayMove(u, ticket[r.t], r.to)
  BY <1>1, <1>2 DEF Isolated, Current
<1>5. ticket[r.t].status # "absent"
  BY <1>1, <1>2 DEF Isolated, Sound, RequestsSound, StatusSound, Absent
<1>6. u \in Writers
  BY <1>4, TicketsAssumption DEF MayMove, can_write
<1>7. Board!Sees(u, r.t) /\ (r.to = "closed" => u \in Managers \/ Board!Concerned(u, r.t))
  BY <1>4 DEF MayMove, can_view_ticket, Board!Sees, Board!Concerned
<1>8. r.to \in TRANSITIONS[ticket[r.t].status] /\ (ticket[r.t].status = "closed" => u \in Managers)
  BY <1>4 DEF MayMove
<1>9. /\ ticket' = [ticket EXCEPT ![r.t].status = r.to]
      /\ history' = [history EXCEPT ![r.t] =
            Append(@, [from |-> ticket[r.t].status, to |-> r.to, by |-> u])]
      /\ gone' = gone
  BY <1>1, <1>4 DEF CommitStatus
<1>10. Board!Move(r.t, u, r.to)
  BY <1>5, <1>6, <1>7, <1>8, <1>9 DEF Board!Move
<1>11. r.to \in DOMAIN TRANSITIONS
  BY <1>3 DEF STATUSES, TRANSITIONS
<1> QED BY <1>3, <1>10, <1>11 DEF Board!Next

(* An assignment that is committed routes the ticket, both fields at once. *)
LEMMA BoardRoute ==
    ASSUME Isolated, GoneFromAll, AllEntitled, NEW u \in Users, CommitAssign(u)
    PROVE  Board!Next
<1>1. PICK r \in Request : r = request[u]
  BY DEF Isolated, Sound, TypeOK
<1>2. r.op = "assign" /\ r # Idle
  BY <1>1 DEF CommitAssign, Idle
<1>3. r.t \in TicketIds /\ r.who \in Users \cup {Nobody} /\ r.grp \in BOOLEAN
  BY <1>2, RequestShape DEF Assignee
<1>4. r.seen = ticket[r.t] /\ u \in Managers
  BY <1>1, <1>2 DEF Isolated, Current, AllEntitled, Entitled
<1>5. ticket[r.t].status # "absent"
  BY <1>1, <1>2 DEF Isolated, Sound, RequestsSound, AssignSound, Absent
<1>6. ticket \in [TicketIds -> Ticket]
  BY DEF Isolated, Sound, TypeOK
<1>7. ticket' = [ticket EXCEPT ![r.t].assignee = r.who, ![r.t].group = r.grp]
  BY <1>1, <1>3, <1>4, <1>6 DEF CommitAssign, Ticket
<1>g. r.grp => ~gone
  BY <1>1, <1>3, <1>4 DEF CommitAssign, GoneFromAll
<1>8. Board!Route(r.t, u, r.who, r.grp)
  BY <1>4, <1>5, <1>7, <1>g DEF CommitAssign, Board!Route
<1> QED BY <1>3, <1>8 DEF Board!Next

(* Every step maps to a step of TicketBoard or to a stutter.               *)
LEMMA BoardNext ==
    ASSUME Isolated, GoneFromAll, AllEntitled, [Next]_vars
    PROVE  [Board!Next]_Board!vars
<1>1. CASE UNCHANGED vars
  BY <1>1 DEF vars, Board!vars
<1>2. ASSUME NEW u \in Users, Step(u)
      PROVE  [Board!Next]_Board!vars
  <2>1. CASE CommitCreate(u)
    BY <2>1, BoardOpen
  <2>2. CASE CommitStatus(u)
    BY <2>2, BoardMove
  <2>3. CASE CommitAssign(u)
    BY <2>3, BoardRoute
  <2>4. CASE ~CommitCreate(u) /\ ~CommitStatus(u) /\ ~CommitAssign(u)
    <3>1. UNCHANGED <<ticket, history, gone>>
      BY <1>2, <2>4 DEF Step, ReadForStatus, ReadForAssign, ReadForComment, ReadForCreate, Read,
         CommitComment, WriteAudit, Drop
    <3> QED BY <3>1 DEF Board!vars
  <2> QED BY <2>1, <2>2, <2>3, <2>4
<1>3. CASE DeleteGroup
  BY <1>3 DEF DeleteGroup, Board!Next, Board!Disband
<1> QED BY <1>1, <1>2, <1>3 DEF Next

(* With one request per ticket at a time, Tickets implements TicketBoard,  *)
(* whatever requests on different tickets overlap.                         *)
THEOREM BoardImplemented == ~Overlap /\ Spec => ImplementsTicketBoard
<1> SUFFICES ASSUME ~Overlap PROVE Spec => ImplementsTicketBoard
  OBVIOUS
<1>1. Init => Isolated BY InitIsolated
<1>2. Isolated /\ [Next]_vars => Isolated' BY NextIsolated
<1>3. Isolated => TypeOK BY DEF Isolated, Sound
<1>4. TypeOK /\ AllEntitled /\ [Next]_vars => AllEntitled' BY NextEntitled
<1>5. Isolated /\ GoneFromAll /\ AllEntitled /\ [Next]_vars => [Board!Next]_Board!vars
  BY BoardNext
<1>6. Init => RoutingKept BY InitRouting
<1>7. RoutingKept /\ [Next]_vars => RoutingKept' BY NextRouting
<1>8. RoutingKept => GoneFromAll BY DEF RoutingKept
<1> QED BY <1>1, <1>2, <1>3, <1>4, <1>5, <1>6, <1>7, <1>8, BoardInit, PTL
        DEF Spec, ImplementsTicketBoard, Board!Spec
=============================================================================
