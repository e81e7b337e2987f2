------------------------------ MODULE Sessions ------------------------------
(***************************************************************************)
(* The device rows of a login (services/auth_helpers.py,                   *)
(* track_login_session): the newest row of the user and device label is    *)
(* refreshed, or one is inserted and the login announced as new.  No       *)
(* constraint makes the pair unique.                                       *)
(***************************************************************************)
EXTENDS Requests, Naturals

CONSTANT Devices   \* pairs of a user and a device label

VARIABLES
    sessions,    \* login_sessions rows of the device
    announced,   \* logins answered with is_new_device
    met          \* devices that ever had two logins in flight

sessionsVars == <<request, sessions, announced, met>>

SessionsInit ==
    /\ request = AllIdle
    /\ sessions = [d \in Devices |-> 0]
    /\ announced = [d \in Devices |-> 0]
    /\ met = {}

FindDevice(h, d) ==
    /\ Free(h)
    /\ Goto(h, [op |-> "track", d |-> d, new |-> sessions[d] = 0])
    /\ met' = IF \E g \in Handlers \ {h} : ~Free(g) /\ request[g].d = d
              THEN met \cup {d} ELSE met
    /\ UNCHANGED <<sessions, announced>>

(* Mistake: a row is inserted for every login.                             *)
TrackEachLogin(h) ==
    /\ Doing(h, "track")
    /\ sessions' = [sessions EXCEPT ![request[h].d] = @ + 1]
    /\ Goto(h, [request[h] EXCEPT !.op = "announce"])
    /\ UNCHANGED <<announced, met>>

TrackLogin(h) ==
    /\ Doing(h, "track")
    /\ sessions' = [sessions EXCEPT ![request[h].d] = IF request[h].new THEN @ + 1 ELSE @]
    /\ Goto(h, [request[h] EXCEPT !.op = "announce"])
    /\ UNCHANGED <<announced, met>>

(* The audit row is committed, and the tokens are answered.                *)
Announce(h) ==
    /\ Doing(h, "announce")
    /\ announced' = [announced EXCEPT
          ![request[h].d] = IF request[h].new THEN @ + 1 ELSE @]
    /\ Finish(h)
    /\ UNCHANGED <<sessions, met>>

Lose(h) ==
    /\ ~Free(h)
    /\ Finish(h)
    /\ UNCHANGED <<sessions, announced, met>>

SessionsNext ==
    \E h \in Handlers :
        TrackLogin(h) \/ Announce(h) \/ Lose(h) \/ \E d \in Devices : FindDevice(h, d)

SessionsSpec == SessionsInit /\ [][SessionsNext]_sessionsVars

-----------------------------------------------------------------------------
(* A device is announced as new at most once, and once its row exists no   *)
(* login that looks for it later adds another, unless two logins from it   *)
(* were in flight at once.                                                 *)
NewDeviceOnce ==
    \A d \in Devices : d \notin met =>
        announced[d] <= sessions[d] /\ sessions[d] <= 1
=============================================================================
