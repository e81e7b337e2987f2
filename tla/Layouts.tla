------------------------------ MODULE Layouts ------------------------------
(***************************************************************************)
(* Dashboard layouts (services/dashboard_layouts.py): system presets that  *)
(* the seed or the first request inserts, personal layouts, and the one    *)
(* each user has active.  The widgets of a layout are left out.            *)
(***************************************************************************)
EXTENDS Requests, Naturals, FiniteSets

CONSTANTS
    Owners,
    Presets,     \* slugs of the system presets
    LayoutIds,   \* ids of personal layouts
    Classic,     \* stands for the id of any system layout
    NoRow        \* the user has no row in user_dashboard_prefs

ASSUME LayoutsAssumption ==
    /\ {Classic, NoRow, Null} \cap LayoutIds = {}
    /\ Cardinality({Classic, NoRow, Null}) = 3
    /\ Null \notin Owners

VARIABLES
    up,       \* is the API process serving requests?
    seeded,   \* has a seed ever ensured the presets?
    preset,   \* rows with is_system and the slug
    layout,   \* personal layouts: owner and number in the slug, or free
    active    \* active_layout_id of the user

layoutsVars == <<request, up, seeded, preset, layout, active>>

Unused == [owner |-> Null, suffix |-> 0]
OwnedBy(u) == {l \in LayoutIds : layout[l].owner = u}

LayoutsInit ==
    /\ request = AllIdle
    /\ up = FALSE /\ seeded = FALSE
    /\ preset = [s \in Presets |-> 0]
    /\ layout = [l \in LayoutIds |-> Unused]
    /\ active = [u \in Owners |-> NoRow]

(* one_or_none finds a slug twice and raises.                              *)
Ambiguous == \E s \in Presets : preset[s] > 1
Missing == {s \in Presets : preset[s] = 0}
With(missing) == [s \in Presets |-> IF s \in missing THEN preset[s] + 1 ELSE preset[s]]

(* The process starts; requests come after the seed, which may fail before *)
(* it reaches the presets.                                                 *)
Boot ==
    /\ ~up /\ up' = TRUE
    /\ \/ ~Ambiguous /\ preset' = With(Missing) /\ seeded' = TRUE
       \/ UNCHANGED <<preset, seeded>>
    /\ UNCHANGED <<request, layout, active>>

Stop ==
    /\ up /\ up' = FALSE
    /\ request' = AllIdle
    /\ UNCHANGED <<seeded, preset, layout, active>>

(* list_layouts and get_active_layout ensure the presets first.            *)
EnsurePresets(h) ==
    /\ Free(h) /\ ~Ambiguous
    /\ Goto(h, [op |-> "ensure", missing |-> Missing])
    /\ UNCHANGED <<up, seeded, preset, layout, active>>

(* Mistake: the presets are inserted without a look.                       *)
CommitAllPresets(h) ==
    /\ Doing(h, "ensure")
    /\ preset' = With(Presets)
    /\ Finish(h)
    /\ UNCHANGED <<up, seeded, layout, active>>

(* No constraint makes the slug unique.                                    *)
CommitPresets(h) ==
    /\ Doing(h, "ensure")
    /\ preset' = With(request[h].missing)
    /\ Finish(h)
    /\ UNCHANGED <<up, seeded, layout, active>>

Visible(u, l) == l \in OwnedBy(u) \cup {Classic}

(* create_personal: the first suffix no layout of the user has.            *)
CreateLayout(h, u) ==
    /\ Free(h)
    /\ \E n \in 1..(Cardinality(LayoutIds) + 1) :
          /\ \A l \in OwnedBy(u) : layout[l].suffix # n
          /\ \A m \in 1..(n - 1) : \E l \in OwnedBy(u) : layout[l].suffix = m
          /\ Goto(h, [op |-> "create", u |-> u, suffix |-> n])
    /\ UNCHANGED <<up, seeded, preset, layout, active>>

(* The row is committed; set_active_layout reads the preferences next.     *)
CommitLayout(h, l) ==
    /\ Doing(h, "create") /\ layout[l] = Unused
    /\ LET r == request[h] IN
          /\ layout' = [layout EXCEPT ![l] = [owner |-> r.u, suffix |-> r.suffix]]
          /\ Goto(h, [op |-> "activate", u |-> r.u, id |-> l, seen |-> active[r.u]])
    /\ UNCHANGED <<up, seeded, preset, active>>

SetActive(h, u, l) ==
    /\ Free(h) /\ Visible(u, l)
    /\ Goto(h, [op |-> "activate", u |-> u, id |-> l, seen |-> active[u]])
    /\ UNCHANGED <<up, seeded, preset, layout, active>>

(* The foreign key refuses a layout deleted meanwhile, the primary key a   *)
(* second row of the user; an unchanged value is not written.              *)
CommitActive(h) ==
    /\ Doing(h, "activate")
    /\ LET r == request[h]
           refused == ~Visible(r.u, r.id) \/ (r.seen = NoRow /\ active[r.u] # NoRow) IN
          active' = [active EXCEPT ![r.u] = IF refused \/ r.seen = r.id THEN @ ELSE r.id]
    /\ Finish(h)
    /\ UNCHANGED <<up, seeded, preset, layout>>

DeleteLayout(h, u, l) ==
    /\ Free(h) /\ l \in OwnedBy(u)
    /\ Goto(h, [op |-> "delete", u |-> u, id |-> l, clear |-> active[u] = l])
    /\ UNCHANGED <<up, seeded, preset, layout, active>>

(* Mistake: only the preferences that were read are cleared.               *)
CommitDeleteOnly(h) ==
    /\ Doing(h, "delete")
    /\ LET r == request[h] IN
          /\ layout' = [layout EXCEPT ![r.id] = Unused]
          /\ active' = [active EXCEPT ![r.u] = IF r.clear THEN Null ELSE @]
    /\ Finish(h)
    /\ UNCHANGED <<up, seeded, preset>>

(* The choice is cleared if it was this layout when it was read, and by    *)
(* ON DELETE SET NULL if it has become this layout since.                  *)
CommitDelete(h) ==
    /\ Doing(h, "delete")
    /\ LET r == request[h] IN
          /\ layout' = [layout EXCEPT ![r.id] = Unused]
          /\ active' = [u \in Owners |->
                IF active[u] = r.id \/ (u = r.u /\ r.clear) THEN Null ELSE active[u]]
    /\ Finish(h)
    /\ UNCHANGED <<up, seeded, preset>>

LayoutsNext ==
    \/ Boot \/ Stop
    \/ /\ up
       /\ \E h \in Handlers :
             \/ EnsurePresets(h) \/ CommitPresets(h) \/ CommitActive(h) \/ CommitDelete(h)
             \/ \E l \in LayoutIds : CommitLayout(h, l)
             \/ \E u \in Owners : CreateLayout(h, u)
             \/ \E u \in Owners, l \in LayoutIds \cup {Classic} : SetActive(h, u, l)
             \/ \E u \in Owners, l \in LayoutIds : DeleteLayout(h, u, l)

LayoutsSpec == LayoutsInit /\ [][LayoutsNext]_layoutsVars

-----------------------------------------------------------------------------
(* Once a seed has ensured the presets, each exists exactly once, so that  *)
(* one_or_none never raises; without it two first requests may insert them *)
(* twice.                                                                  *)
PresetsUnique == seeded => \A s \in Presets : preset[s] = 1

(* The active layout is one the user may see: whatever deletions and       *)
(* choices overlap, no choice points to a deleted or foreign layout.       *)
ActiveVisible ==
    \A u \in Owners : active[u] \notin {NoRow, Null} => Visible(u, active[u])
=============================================================================
