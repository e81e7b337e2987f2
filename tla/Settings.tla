------------------------------ MODULE Settings ------------------------------
(***************************************************************************)
(* Settings forms (api/integrations_routes.py, api/security_routes.py,     *)
(* api/branding_routes.py): set_setting looks the key up, inserts or       *)
(* updates it, and commits, once for every field of the form that was      *)
(* sent, in the order of the code.                                         *)
(***************************************************************************)
EXTENDS Requests, Naturals, Sequences, FiniteSets

CONSTANTS
    Form,      \* the keys of one form, in the order they are saved
    Versions   \* what a save may write: a different form content each

Fields == {Form[i] : i \in DOMAIN Form}

ASSUME FormAssumption ==
    /\ Form \in Seq(Fields)
    /\ \A i, j \in DOMAIN Form : Form[i] = Form[j] => i = j

VARIABLES
    setting,   \* value of the key, Null without a row
    wanted,    \* the value the last save that names the key carries
    lost       \* keys two saves carry at once, or a save broke off before

settingsVars == <<request, setting, wanted, lost>>

SettingsInit ==
    /\ request = AllIdle
    /\ setting = [f \in Fields |-> Null]
    /\ wanted = [f \in Fields |-> Null]
    /\ lost = {}

(* The keys a save has not committed yet.                                  *)
Left(h) == IF Doing(h, "save") THEN request[h].left ELSE {}

(* The first of these in the order of the form.                            *)
First(left) ==
    Form[CHOOSE i \in DOMAIN Form :
            Form[i] \in left /\ \A j \in DOMAIN Form : j < i => Form[j] \notin left]

(* The look-up of the key a save has come to.                              *)
At(v, left) ==
    IF left = {} THEN Idle
    ELSE [op |-> "save", version |-> v, left |-> left, seen |-> setting[First(left)]]

(* Every field of a form is optional; a save stores the keys of those it   *)
(* was sent.                                                               *)
Save(h, v, sent) ==
    /\ Free(h)
    /\ Goto(h, At(v, sent))
    /\ wanted' = [f \in Fields |-> IF f \in sent THEN v ELSE wanted[f]]
    /\ lost' = (lost \ sent) \cup (sent \cap UNION {Left(g) : g \in Handlers \ {h}})
    /\ UNCHANGED setting

(* Mistake: what was sent is not saved to its end.                         *)
CommitButLast(h) ==
    /\ Doing(h, "save")
    /\ LET r == request[h]
           rest == r.left \ {First(r.left)} IN
          /\ setting' = [setting EXCEPT ![First(r.left)] = r.version]
          /\ Goto(h, IF Cardinality(rest) <= 1 THEN Idle ELSE At(r.version, rest))
    /\ UNCHANGED <<wanted, lost>>

(* A second insert of the key fails and ends the save; a value equal to    *)
(* the one read is not written.                                            *)
CommitField(h) ==
    /\ Doing(h, "save")
    /\ LET r == request[h]
           f == First(r.left) IN
       IF r.seen = Null /\ setting[f] # Null
       THEN Finish(h) /\ lost' = lost \cup r.left /\ UNCHANGED setting
       ELSE /\ setting' = [setting EXCEPT ![f] = IF r.seen = r.version THEN @ ELSE r.version]
            /\ Goto(h, At(r.version, r.left \ {f}))
            /\ UNCHANGED lost
    /\ UNCHANGED wanted

(* The commit of a field raises, and with it the handler.                  *)
Break(h) ==
    /\ ~Free(h)
    /\ lost' = lost \cup Left(h)
    /\ Finish(h)
    /\ UNCHANGED <<setting, wanted>>

SettingsNext ==
    \E h \in Handlers :
        \/ CommitField(h)
        \/ Break(h)
        \/ \E v \in Versions, sent \in SUBSET Fields : Save(h, v, sent)

SettingsSpec == SettingsInit /\ [][SettingsNext]_settingsVars

-----------------------------------------------------------------------------
(* A key holds what the last save that named it carried, whatever saves of *)
(* other keys were in flight or broke off, unless two saves carried it at  *)
(* once or a save ended before it came to the key.                         *)
FieldsAsSaved ==
    \A f \in Fields \ lost :
        (\A h \in Handlers : f \notin Left(h)) => setting[f] = wanted[f]
=============================================================================
