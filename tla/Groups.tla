------------------------------- MODULE Groups -------------------------------
(***************************************************************************)
(* Groups of users (api/groups_routes.py, api/users_routes.py) and their   *)
(* synchronisation with the directory (services/ldap_service.py).  The     *)
(* name of a group is unique in the database, its external id is not.      *)
(***************************************************************************)
EXTENDS Requests, Naturals, Sequences, FiniteSets

CONSTANTS
    Members,     \* users that groups are given to
    Names,       \* names an administrator gives a group
    Directory,   \* MOCK_AD_GROUPS: sequence of [name, ext]
    MaxGroups    \* bound: rows ever inserted

Entries == {Directory[i] : i \in DOMAIN Directory}
Row == [name : Names \cup {e.name : e \in Entries}, ext : {e.ext : e \in Entries} \cup {Null}]

ASSUME GroupsAssumption ==
    /\ MaxGroups \in Nat
    /\ Entries \subseteq Row
    /\ Null \notin Row
    /\ \A a, b \in Entries : a.name = b.name \/ a.ext = b.ext => a = b

VARIABLES
    group,    \* rows of groups: [name, ext]; Null before the insert or after the delete
    inserted, \* rows inserted so far: ids are never used again
    member,   \* user_groups rows of a user
    chosen,   \* what the last update of the user selected
    crossed,  \* users that ever had two updates in flight
    listed,   \* directory groups that a sync has found or inserted, not deleted since
    mixed     \* was a group made with the name of one directory group and the id of another?

groupsVars == <<request, group, inserted, member, chosen, crossed, listed, mixed>>

GroupIds == 1..MaxGroups
Existing == {g \in GroupIds : group[g] # Null}

GroupsInit ==
    /\ request = AllIdle
    /\ group = [g \in GroupIds |-> Null]
    /\ inserted = 0
    /\ member = [u \in Members |-> {}] /\ chosen = member
    /\ crossed = {} /\ listed = {} /\ mixed = FALSE

(* The name is looked up; the external id is whatever the form says.       *)
CreateGroup(h, name, ext) ==
    /\ Free(h)
    /\ \A g \in Existing : group[g].name # name
    /\ Goto(h, [op |-> "create", row |-> [name |-> name, ext |-> ext]])
    /\ UNCHANGED <<group, inserted, member, chosen, crossed, listed, mixed>>

UniqueNames(rows) ==
    \A f, g \in GroupIds :
        f # g /\ rows[f] # Null /\ rows[g] # Null => rows[f].name # rows[g].name

CommitGroup(h) ==
    /\ Doing(h, "create") /\ inserted < MaxGroups
    /\ LET row == request[h].row IN
          /\ group' = [group EXCEPT ![inserted + 1] = row]
          /\ mixed' = (mixed \/ \E a, b \in Entries :
                a # b /\ a.name = row.name /\ b.ext = row.ext)
    /\ UniqueNames(group')
    /\ inserted' = inserted + 1
    /\ Finish(h)
    /\ UNCHANGED <<member, chosen, crossed, listed>>

DeleteGroup(h, g) ==
    /\ Free(h) /\ g \in Existing
    /\ Goto(h, [op |-> "delete", g |-> g])
    /\ UNCHANGED <<group, inserted, member, chosen, crossed, listed, mixed>>

(* Mistake: only the rows of users that were read are deleted.             *)
CommitDeleteRow(h) ==
    /\ Doing(h, "delete")
    /\ LET g == request[h].g IN
          /\ group' = [group EXCEPT ![g] = Null]
          /\ listed' = IF g \in Existing THEN listed \ {group[g].name} ELSE listed
    /\ Finish(h)
    /\ UNCHANGED <<inserted, member, chosen, crossed, mixed>>

(* ON DELETE CASCADE takes the rows of user_groups, those just inserted    *)
(* too; a group deleted meanwhile is no error.  What it clears in tickets  *)
(* is Tickets!DeleteGroup.                                                 *)
CommitDeleteGroup(h) ==
    /\ Doing(h, "delete")
    /\ LET g == request[h].g IN
          /\ group' = [group EXCEPT ![g] = Null]
          /\ member' = [u \in Members |-> member[u] \ {g}]
          /\ listed' = IF g \in Existing THEN listed \ {group[g].name} ELSE listed
    /\ Finish(h)
    /\ UNCHANGED <<inserted, chosen, crossed, mixed>>

(* update_user with group_ids.                                             *)
SetGroups(h, u, selection) ==
    /\ Free(h) /\ selection # member[u]
    /\ Goto(h, [op |-> "members", u |-> u, selection |-> selection, seen |-> member[u]])
    /\ crossed' = IF \E f \in Handlers : Doing(f, "members") /\ request[f].u = u
                  THEN crossed \cup {u} ELSE crossed
    /\ UNCHANGED <<group, inserted, member, chosen, listed, mixed>>

(* Rows are inserted and deleted by the difference to what was read; the   *)
(* primary key refuses a row that is there, the foreign key a lost group.  *)
CommitMembers(h) ==
    /\ Doing(h, "members")
    /\ LET r == request[h]
           added == r.selection \ r.seen IN
          /\ added \cap member[r.u] = {} /\ added \subseteq Existing
          /\ member' = [member EXCEPT ![r.u] = (@ \ (r.seen \ r.selection)) \cup added]
          /\ chosen' = [chosen EXCEPT ![r.u] = r.selection]
    /\ Finish(h)
    /\ UNCHANGED <<group, inserted, crossed, listed, mixed>>

Matches(entry) ==
    {g \in Existing : group[g].ext = entry.ext \/ group[g].name = entry.name}

(* Every entry is matched in the database, before any change is flushed;   *)
(* first() is one of the matches.                                          *)
SyncGroups(h, planned) ==
    /\ Free(h)
    /\ \E pick \in [planned -> GroupIds \cup {0}] :
          /\ \A e \in planned : IF Matches(e) = {} THEN pick[e] = 0 ELSE pick[e] \in Matches(e)
          /\ Goto(h, [op |-> "sync", pick |-> pick,
                      seen |-> [g \in {pick[e] : e \in planned} \ {0} |-> group[g]]])
    /\ UNCHANGED <<group, inserted, member, chosen, crossed, listed, mixed>>

(* A group that several entries found ends as the last of them.            *)
EndsAs(pick, g, e) ==
    \E i \in DOMAIN Directory :
        /\ Directory[i] = e /\ e \in DOMAIN pick /\ pick[e] = g
        /\ \A j \in DOMAIN Directory :
              j > i /\ Directory[j] \in DOMAIN pick => pick[Directory[j]] # g

(* Mistake: the external id of a group that is there is left as it is.     *)
MergedName(now, seen, want) ==
    [now EXCEPT !.name = IF want.name = seen.name THEN @ ELSE want.name]

(* The columns of a row that an UPDATE sets: those that were changed.      *)
Merged(now, seen, want) ==
    [name |-> IF want.name = seen.name THEN now.name ELSE want.name,
     ext |-> IF want.ext = seen.ext THEN now.ext ELSE want.ext]

(* Where in the directory the entries are that found no group.             *)
Unmatched(pick) ==
    {i \in DOMAIN Directory : Directory[i] \in DOMAIN pick /\ pick[Directory[i]] = 0}

(* One commit for all entries: rows found are updated, the others inserted *)
(* in the order of the directory.  The UPDATE of a deleted row fails; a row *)
(* that needs none is not looked at again.                                 *)
CommitSync(h) ==
    /\ Doing(h, "sync")
    /\ \E want \in [DOMAIN request[h].seen -> Entries], n \in 0..(MaxGroups - inserted) :
       \E at \in [1..n -> Unmatched(request[h].pick)] :
          LET r == request[h]
              kept == DOMAIN r.seen \cap Existing IN
          /\ \A g \in DOMAIN r.seen : EndsAs(r.pick, g, want[g])
          /\ \A g \in DOMAIN r.seen \ kept : want[g] = r.seen[g]
          /\ \A i \in Unmatched(r.pick) : \E k \in 1..n : at[k] = i
          /\ \A k, m \in 1..n : k < m => at[k] < at[m]
          /\ inserted' = inserted + n
          /\ group' = [g \in GroupIds |->
                IF g \in kept THEN Merged(group[g], r.seen[g], want[g])
                ELSE IF g \in (inserted + 1)..(inserted + n) THEN Directory[at[g - inserted]]
                ELSE group[g]]
          /\ listed' = listed \cup
                {e.name : e \in {e \in DOMAIN r.pick : r.pick[e] \in kept \cup {0}}}
    /\ UniqueNames(group')
    /\ Finish(h)
    /\ UNCHANGED <<member, chosen, crossed, mixed>>

(* A constraint refuses the request, or its connection is lost.            *)
Refuse(h) ==
    /\ ~Free(h)
    /\ Finish(h)
    /\ UNCHANGED <<group, inserted, member, chosen, crossed, listed, mixed>>

GroupsNext ==
    \E h \in Handlers :
        \/ CommitGroup(h) \/ CommitDeleteGroup(h) \/ CommitMembers(h) \/ CommitSync(h)
        \/ Refuse(h)
        \/ \E name \in Names, ext \in {e.ext : e \in Entries} \cup {Null} :
              CreateGroup(h, name, ext)
        \/ \E g \in GroupIds : DeleteGroup(h, g)
        \/ \E u \in Members, selection \in SUBSET Existing : SetGroups(h, u, selection)
        \/ \E planned \in (SUBSET Entries) \ {{}} : SyncGroups(h, planned)

GroupsSpec == GroupsInit /\ [][GroupsNext]_groupsVars

-----------------------------------------------------------------------------
(* A user is in the groups that the last update selected and nobody has    *)
(* deleted, whatever deletions and synchronisations happen meanwhile,      *)
(* unless two updates of the user were ever in flight at once: each writes *)
(* its differences, and the sum of both is nobody's selection.             *)
GroupsAsChosen ==
    \A u \in Members \ crossed : member[u] = chosen[u] \cap Existing

(* A group that a sync has found or inserted keeps its directory name and  *)
(* external id until it is deleted, whatever syncs overlap, unless someone *)
(* made a group with the name of one entry and the id of another.          *)
ListedKept ==
    ~mixed => \A e \in Entries : e.name \in listed => \E g \in Existing : group[g] = e
=============================================================================
