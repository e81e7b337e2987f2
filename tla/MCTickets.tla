----------------------------- MODULE MCTickets -----------------------------
(* Model checking Tickets: users differ by their rights; tickets and       *)
(* vulnerabilities are interchangeable.                                    *)
EXTENDS Tickets, TLC

TicketSymmetry == Permutations(TicketIds)

(* States that differ in nothing else are not told apart: no guard reads   *)
(* who was warned, or counts audit rows, and no property of a run does.    *)
Watched == <<ticket, history, routed, request, gone, crossed>>
=============================================================================
