------------------------------ MODULE Tickets ------------------------------
(***************************************************************************)
(* The ticket queue (services/tickets.py, api/tickets_routes.py).  A       *)
(* handler reads the ticket without a lock, checks the request against     *)
(* what it read, and commits the change together with a history event;     *)
(* the audit row is a second commit.  Handlers run in a thread pool, so    *)
(* another request may commit between the read and the write of one; and   *)
(* whoever deletes the group takes it from all tickets at once.            *)
(***************************************************************************)
EXTENDS Naturals, Sequences, FiniteSets

CONSTANTS
    Users,
    Managers,   \* super admin, or permission tickets:manage
    Writers,    \* permission tickets:write, which every role with manage has
    Members,    \* users of the one group tickets are routed to
    TicketIds,
    Vulns,      \* CVE or BDU ids a ticket is linked to
    Nobody,     \* assignee_user_id IS NULL
    Overlap,    \* may two requests on the same ticket be in flight at once,
                \* or the group be deleted while one is on a ticket of its?
    MaxEvents   \* bound: a status change begins after fewer events than this

ASSUME TicketsAssumption ==
    /\ Managers \subseteq Writers /\ Writers \subseteq Users /\ Members \subseteq Users
    /\ Nobody \notin Users
    /\ Overlap \in BOOLEAN
    /\ MaxEvents \in Nat

VARIABLES
    ticket,   \* the row: status, creator, assignee, group, vuln
    history,  \* its status events, in id order
    routed,   \* assignee and group as created, or as its last assign event states
    warned,   \* was its creator warned of an open duplicate?
    audit,    \* number of its tickets.status audit rows
    request,  \* the handler each user has in flight
    gone,     \* was the group deleted?
    crossed   \* history: tickets with two assignments in flight at once

vars == <<ticket, history, routed, warned, audit, request, gone, crossed>>

STATUSES == {"new", "in_progress", "waiting", "resolved", "closed"}

TRANSITIONS ==
    [new         |-> {"in_progress", "waiting", "closed"},
     in_progress |-> {"waiting", "resolved", "closed"},
     waiting     |-> {"in_progress", "resolved", "closed"},
     resolved    |-> {"closed", "in_progress"},
     closed      |-> {"in_progress"}]

Assignee == Users \cup {Nobody}
Ticket == [status : STATUSES \cup {"absent"}, creator : Assignee,
           assignee : Assignee, group : BOOLEAN, vuln : Vulns]
Event == [from : STATUSES, to : STATUSES, by : Users]
Idle == [op |-> "idle"]

Absent(t) == ticket[t].status = "absent"
Open(t) == ticket[t].status \notin {"absent", "resolved", "closed"}

Init ==
    /\ \E v \in Vulns :
          ticket = [t \in TicketIds |->
              [status |-> "absent", creator |-> Nobody, assignee |-> Nobody,
               group |-> FALSE, vuln |-> v]]
    /\ history = [t \in TicketIds |-> <<>>]
    /\ routed = [t \in TicketIds |-> <<Nobody, FALSE>>]
    /\ warned = [t \in TicketIds |-> FALSE]
    /\ audit = [t \in TicketIds |-> 0]
    /\ request = [u \in Users |-> Idle]
    /\ gone = FALSE
    /\ crossed = {}

can_write(u) == u \in Managers \cup Writers

can_view_ticket(u, k) ==
    \/ u \in Managers
    \/ u \in {k.creator, k.assignee}
    \/ k.group /\ u \in Members

(* Mistake: reopening needs no manager.                                    *)
MayMoveOrReopen(u, k, to) ==
    /\ can_view_ticket(u, k)
    /\ to \in TRANSITIONS[k.status]
    /\ can_write(u)

(* Mistake: access is not checked.                                         *)
MayMoveUnseen(u, k, to) ==
    /\ to \in TRANSITIONS[k.status]
    /\ to = "closed" => u \in Managers \cup {k.creator, k.assignee}
    /\ k.status = "closed" => u \in Managers
    /\ can_write(u)

(* The checks of transition_status on the row as it was read.              *)
MayMove(u, k, to) ==
    /\ can_view_ticket(u, k)
    /\ to \in TRANSITIONS[k.status]
    /\ to = "closed" => u \in Managers \cup {k.creator, k.assignee}
    /\ k.status = "closed" => u \in Managers
    /\ can_write(u)

-----------------------------------------------------------------------------
(* The reads.                                                              *)

Untouched(t) == \A u \in Users : request[u] # Idle => request[u].t # t

Read(u, t, req) ==
    /\ request[u] = Idle
    /\ ~Absent(t)
    /\ Overlap \/ Untouched(t)
    /\ request' = [request EXCEPT ![u] = req]
    /\ UNCHANGED <<ticket, history, routed, warned, audit, gone>>

Begun ==
    Cardinality(UNION {{t} \X DOMAIN history[t] : t \in TicketIds})
        + Cardinality({u \in Users : request[u].op = "status"})

ReadForStatus(u, t, to) ==
    /\ ~Absent(t) /\ MayMove(u, ticket[t], to)
    /\ Begun < MaxEvents
    /\ Read(u, t, [op |-> "status", t |-> t, seen |-> ticket[t], to |-> to])
    /\ UNCHANGED crossed

Assigning(t) == \E w \in Users : request[w].op = "assign" /\ request[w].t = t

(* Either field may be left out, or cleared; a group that is named exists. *)
ReadForAssign(u, t, who, grp) ==
    /\ u \in Managers
    /\ grp => ~gone
    /\ Read(u, t, [op |-> "assign", t |-> t, seen |-> ticket[t],
                   who |-> who, grp |-> grp])
    /\ crossed' = IF Assigning(t) THEN crossed \cup {t} ELSE crossed

ReadForComment(u, t) ==
    /\ can_view_ticket(u, ticket[t])
    /\ can_write(u) \/ u \in {ticket[t].creator, ticket[t].assignee}
    /\ Read(u, t, [op |-> "comment", t |-> t])
    /\ UNCHANGED crossed

DuplicateOf(v) == \E t \in TicketIds : Open(t) /\ ticket[t].vuln = v

(* Mistake: whoever may open a ticket may hand it to anybody.              *)
ReadForCreateForAnybody(u, t, v, who, grp) ==
    /\ request[u] = Idle
    /\ can_write(u)
    /\ Absent(t) /\ Untouched(t)
    /\ grp => ~gone
    /\ request' = [request EXCEPT ![u] =
          [op |-> "create", t |-> t, vuln |-> v, who |-> who, grp |-> grp,
           duplicate |-> DuplicateOf(v)]]
    /\ UNCHANGED <<ticket, history, routed, warned, audit, gone, crossed>>

(* The duplicate is looked for before the ticket exists.                   *)
ReadForCreate(u, t, v, who, grp) ==
    /\ request[u] = Idle
    /\ can_write(u)
    /\ who \in {Nobody, u} \/ u \in Managers
    /\ Absent(t) /\ Untouched(t)
    /\ grp => ~gone
    /\ request' = [request EXCEPT ![u] =
          [op |-> "create", t |-> t, vuln |-> v, who |-> who, grp |-> grp,
           duplicate |-> DuplicateOf(v)]]
    /\ UNCHANGED <<ticket, history, routed, warned, audit, gone, crossed>>

-----------------------------------------------------------------------------
(* The commits.  A group that is written must still exist: the foreign key *)
(* refuses it otherwise, and the request fails.                            *)

CommitCreate(u) ==
    /\ request[u].op = "create"
    /\ LET r == request[u] IN
          /\ r.grp => ~gone
          /\ ticket' = [ticket EXCEPT ![r.t] =
                [status |-> "new", creator |-> u, assignee |-> r.who,
                 group |-> r.grp, vuln |-> r.vuln]]
          /\ routed' = [routed EXCEPT ![r.t] = <<r.who, r.grp>>]
          /\ warned' = [warned EXCEPT ![r.t] = r.duplicate]
    /\ request' = [request EXCEPT ![u] = Idle]
    /\ UNCHANGED <<history, audit, gone, crossed>>

(* Mistake: the event is added, the row is not written.                    *)
CommitEventOnly(u) ==
    /\ request[u].op = "status"
    /\ LET r == request[u] IN
          /\ history' = [history EXCEPT ![r.t] =
                Append(@, [from |-> r.seen.status, to |-> r.to, by |-> u])]
          /\ request' = [request EXCEPT ![u] = [op |-> "audit", t |-> r.t]]
    /\ UNCHANGED <<ticket, routed, warned, audit, gone, crossed>>

(* Mistake: the flush writes the whole row as it was read.                 *)
CommitStatusWholeRow(u) ==
    /\ request[u].op = "status"
    /\ LET r == request[u] IN
          /\ ticket' = [ticket EXCEPT ![r.t] = [r.seen EXCEPT !.status = r.to]]
          /\ history' = [history EXCEPT ![r.t] =
                Append(@, [from |-> r.seen.status, to |-> r.to, by |-> u])]
          /\ request' = [request EXCEPT ![u] = [op |-> "audit", t |-> r.t]]
    /\ UNCHANGED <<routed, warned, audit, gone, crossed>>

(* The status is written whatever it is by now; the event names the status *)
(* that was read.                                                          *)
CommitStatus(u) ==
    /\ request[u].op = "status"
    /\ LET r == request[u] IN
          /\ ticket' = [ticket EXCEPT ![r.t].status = r.to]
          /\ history' = [history EXCEPT ![r.t] =
                Append(@, [from |-> r.seen.status, to |-> r.to, by |-> u])]
          /\ request' = [request EXCEPT ![u] = [op |-> "audit", t |-> r.t]]
    /\ UNCHANGED <<routed, warned, audit, gone, crossed>>

(* The flush writes only the columns that differ from the row as read; the *)
(* event states both.                                                      *)
CommitAssign(u) ==
    /\ request[u].op = "assign"
    /\ LET r == request[u] IN
          /\ r.grp /\ ~r.seen.group => ~gone
          /\ ticket' = [ticket EXCEPT
                ![r.t].assignee = IF r.who = r.seen.assignee THEN @ ELSE r.who,
                ![r.t].group = IF r.grp = r.seen.group THEN @ ELSE r.grp]
          /\ routed' = [routed EXCEPT ![r.t] = <<r.who, r.grp>>]
    /\ request' = [request EXCEPT ![u] = Idle]
    /\ UNCHANGED <<history, warned, audit, gone, crossed>>

CommitComment(u) ==
    /\ request[u].op = "comment"
    /\ request' = [request EXCEPT ![u] = Idle]
    /\ UNCHANGED <<ticket, history, routed, warned, audit, gone, crossed>>

(* write_audit, a transaction of its own.                                  *)
WriteAudit(u) ==
    /\ request[u].op = "audit"
    /\ audit' = [audit EXCEPT ![request[u].t] = @ + 1]
    /\ request' = [request EXCEPT ![u] = Idle]
    /\ UNCHANGED <<ticket, history, routed, warned, gone, crossed>>

(* The API process dies, or loses the database, within a handler.          *)
Drop(u) ==
    /\ request[u] # Idle
    /\ request' = [request EXCEPT ![u] = Idle]
    /\ UNCHANGED <<ticket, history, routed, warned, audit, gone, crossed>>

Step(u) ==
    \/ \E t \in TicketIds :
          \/ \E to \in STATUSES : ReadForStatus(u, t, to)
          \/ \E who \in Assignee, grp \in BOOLEAN : ReadForAssign(u, t, who, grp)
          \/ \E v \in Vulns, who \in Assignee, grp \in BOOLEAN :
                ReadForCreate(u, t, v, who, grp)
          \/ ReadForComment(u, t)
    \/ CommitCreate(u) \/ CommitStatus(u) \/ CommitAssign(u) \/ CommitComment(u)
    \/ WriteAudit(u) \/ Drop(u)

(* A super admin deletes the group: ON DELETE SET NULL clears the column   *)
(* in every ticket, without an event.                                      *)
DeleteGroup ==
    /\ ~gone
    /\ Overlap \/ \A t \in TicketIds : ticket[t].group => Untouched(t)
    /\ gone' = TRUE
    /\ ticket' = [t \in TicketIds |-> [ticket[t] EXCEPT !.group = FALSE]]
    /\ UNCHANGED <<history, routed, warned, audit, request, crossed>>

Next == DeleteGroup \/ \E u \in Users : Step(u)

Spec == Init /\ [][Next]_vars

-----------------------------------------------------------------------------
Request ==
    {Idle}
    \cup [op : {"audit", "comment"}, t : TicketIds]
    \cup [op : {"status"}, t : TicketIds, seen : Ticket, to : STATUSES]
    \cup [op : {"assign"}, t : TicketIds, seen : Ticket, who : Assignee, grp : BOOLEAN]
    \cup [op : {"create"}, t : TicketIds, vuln : Vulns, who : Assignee,
          grp : BOOLEAN, duplicate : BOOLEAN]

(* Every variable has its type.                                            *)
TypeOK ==
    /\ ticket \in [TicketIds -> Ticket]
    /\ history \in [TicketIds -> Seq(Event)]
    /\ routed \in [TicketIds -> Assignee \X BOOLEAN]
    /\ warned \in [TicketIds -> BOOLEAN]
    /\ audit \in [TicketIds -> Nat]
    /\ request \in [Users -> Request]
    /\ gone \in BOOLEAN
    /\ crossed \subseteq TicketIds

Last(h) == h[Len(h)]

(* The timeline and the row agree, also when requests overlap: the status  *)
(* is the one the last status event announces, because the row update and  *)
(* the event insert are one transaction that holds the row.                *)
StatusIsLastEvent ==
    \A t \in TicketIds :
        ticket[t].status = IF history[t] # <<>> THEN Last(history[t]).to
                           ELSE IF Absent(t) THEN "absent" ELSE "new"

(* Read alone, every event of the timeline is legal, also when requests    *)
(* overlap: an edge of TRANSITIONS, and a reopening only by a manager.     *)
EventsLegal ==
    \A t \in TicketIds : \A i \in DOMAIN history[t] :
        LET e == history[t][i] IN
        /\ e.to \in TRANSITIONS[e.from]
        /\ e.from = "closed" => e.by \in Managers

(* The timeline is one path: each event starts from the status the event   *)
(* before it ended in, the first from "new".                               *)
HistoryIsPath ==
    \A t \in TicketIds : \A i \in DOMAIN history[t] :
        history[t][i].from = IF i = 1 THEN "new" ELSE history[t][i - 1].to

(* The row is routed as it was created or as its last assign event says,   *)
(* less a group that was deleted since, whatever status changes, comments  *)
(* and group deletions overlap with the assignments: no other handler      *)
(* writes back the routing it has read, and none restores a group that is  *)
(* gone.  Two assignments at once excepted: there the event states both    *)
(* columns and the flush writes only those that differ from the row read.  *)
AssignmentRecorded ==
    \A t \in TicketIds \ crossed :
        /\ ticket[t].assignee = routed[t][1]
        /\ ticket[t].group <=> routed[t][2] /\ ~gone

(* "reopen - manage only": a closed ticket leaves that status only by the  *)
(* hand of a manager.                                                      *)
ReopenManageOnly ==
    [][\A t \in TicketIds :
          ticket[t].status = "closed" /\ ticket'[t].status # "closed"
              => Last(history'[t]).by \in Managers]_vars

(* Who changes the status may see the ticket at that moment, not only when *)
(* the request began.                                                      *)
AccessAtCommit ==
    [][\A t \in TicketIds :
          history'[t] # history[t] => can_view_ticket(Last(history'[t]).by, ticket[t])]_vars

Board == INSTANCE TicketBoard WITH card <- ticket, timeline <- history, disbanded <- gone

(* One request per ticket at a time is all it takes: requests on different *)
(* tickets overlap, crash and are denied as they may, the group is deleted *)
(* while none is on its tickets, and every change of a ticket is still one *)
(* that was allowed on the ticket as it stood.                             *)
ImplementsTicketBoard == Board!Spec
=============================================================================
