----------------------------- MODULE TicketBoard -----------------------------
(***************************************************************************)
(* What the ticket queue promises those who work with it: a change of a    *)
(* ticket happens at once, to the ticket as it stands, by the hand of      *)
(* somebody who may make that change to the ticket as it stands; a group   *)
(* that is deleted leaves all tickets at once and for good; and every      *)
(* change of its status is told by the timeline.  Tickets is the detailed  *)
(* specification that implements this one when each ticket has one request *)
(* at a time; requests on different tickets overlap freely.                *)
(***************************************************************************)
EXTENDS Sequences

CONSTANTS TicketIds, Vulns, Users, Managers, Writers, Members, Nobody, TRANSITIONS

VARIABLES
    card,      \* the tickets, status "absent" before they are opened
    timeline,  \* the status changes of each
    disbanded  \* is the group gone?

vars == <<card, timeline, disbanded>>

Blank(v) == [status |-> "absent", creator |-> Nobody, assignee |-> Nobody,
             group |-> FALSE, vuln |-> v]

Init ==
    /\ \E v \in Vulns : card = [t \in TicketIds |-> Blank(v)]
    /\ timeline = [t \in TicketIds |-> <<>>]
    /\ disbanded = FALSE

Concerned(u, t) == u \in {card[t].creator, card[t].assignee}
Sees(u, t) == u \in Managers \/ Concerned(u, t) \/ (card[t].group /\ u \in Members)

Open(t, u, v, who, grp) ==
    /\ card[t].status = "absent"
    /\ u \in Writers
    /\ who \in {Nobody, u} \/ u \in Managers
    /\ grp => ~disbanded
    /\ card' = [card EXCEPT ![t] = [status |-> "new", creator |-> u, assignee |-> who,
                                    group |-> grp, vuln |-> v]]
    /\ UNCHANGED <<timeline, disbanded>>

Move(t, u, to) ==
    /\ u \in Writers /\ Sees(u, t)
    /\ card[t].status # "absent" /\ to \in TRANSITIONS[card[t].status]
    /\ to = "closed" => u \in Managers \/ Concerned(u, t)
    /\ card[t].status = "closed" => u \in Managers
    /\ card' = [card EXCEPT ![t].status = to]
    /\ timeline' = [timeline EXCEPT ![t] =
          Append(@, [from |-> card[t].status, to |-> to, by |-> u])]
    /\ UNCHANGED disbanded

(* By a manager; the board does not tell by which.                         *)
Route(t, u, who, grp) ==
    /\ u \in Managers
    /\ card[t].status # "absent"
    /\ grp => ~disbanded
    /\ card' = [card EXCEPT ![t].assignee = who, ![t].group = grp]
    /\ UNCHANGED <<timeline, disbanded>>

(* The group is deleted: all its tickets lose it at once, for good.        *)
Disband ==
    /\ ~disbanded
    /\ disbanded' = TRUE
    /\ card' = [t \in TicketIds |-> [card[t] EXCEPT !.group = FALSE]]
    /\ UNCHANGED timeline

Next ==
    \/ Disband
    \/ \E t \in TicketIds, u \in Users :
          \/ \E to \in DOMAIN TRANSITIONS : Move(t, u, to)
          \/ \E who \in Users \cup {Nobody}, grp \in BOOLEAN :
                Route(t, u, who, grp) \/ \E v \in Vulns : Open(t, u, v, who, grp)

Spec == Init /\ [][Next]_vars
=============================================================================
