---------------------------- MODULE MCFirstUse -----------------------------
(* Model checking the parts of the API that create rows on first use.      *)
(* They share no rows, so each behaviour is of one part.                   *)
EXTENDS Layouts, LocalIds, RateLimit, Settings, Sessions, Groups, TLC

VARIABLE part

vars == <<layoutsVars, idsVars, rateVars, settingsVars, sessionsVars, groupsVars, part>>

Init ==
    /\ part \in {"layouts", "ids", "rate", "settings", "sessions", "groups"}
    /\ LayoutsInit /\ IdsInit /\ RateInit /\ SettingsInit /\ SessionsInit /\ GroupsInit

Next ==
    /\ UNCHANGED part
    /\ \/ part = "layouts" /\ LayoutsNext
       \/ part # "layouts" /\ UNCHANGED <<up, seeded, preset, layout, active>>
    /\ \/ part = "ids" /\ IdsNext
       \/ part # "ids" /\ UNCHANGED <<last, born, holder, issued>>
    /\ \/ part = "rate" /\ RateNext
       \/ part # "rate" /\ UNCHANGED <<hits, expires, passed, failed, faults>>
    /\ \/ part = "settings" /\ SettingsNext
       \/ part # "settings" /\ UNCHANGED <<setting, wanted, lost>>
    /\ \/ part = "sessions" /\ SessionsNext
       \/ part # "sessions" /\ UNCHANGED <<sessions, announced, met>>
    /\ \/ part = "groups" /\ GroupsNext
       \/ /\ part # "groups"
          /\ UNCHANGED <<group, inserted, member, chosen, crossed, listed, mixed>>

Spec == Init /\ [][Next]_vars /\ RateFairness

FormFields == <<"host", "port", "password">>
AdGroups == <<[name |-> "analysts", ext |-> "cn1"], [name |-> "admins", ext |-> "cn2"]>>
=============================================================================
