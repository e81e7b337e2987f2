---------------------------- MODULE SecondFactor ----------------------------
(***************************************************************************)
(* What the second factor promises a user whose requests come one after    *)
(* the other: it is set up, verified, switched off and opened with a       *)
(* recovery code in single steps, each on the factor as it stands.  A code *)
(* is fresh when it is handed out, is good only while the factor is on,    *)
(* and is gone once it was used or replaced.  Of a user whose requests     *)
(* ever overlapped nothing is promised.  Access is the detailed            *)
(* specification that implements this one.                                 *)
(***************************************************************************)
EXTENDS FiniteSets

CONSTANTS Users, Secrets, Codes, PerEnable, Null

VARIABLES
    secret,     \* what the codes of the device are computed from, or Null
    on,         \* is the second factor asked for?
    codes,      \* the recovery codes that open it
    given,      \* recovery codes ever handed out, to anybody
    disturbed   \* have requests of the user overlapped?

vars == <<secret, on, codes, given, disturbed>>

Init ==
    /\ secret = [u \in Users |-> Null]
    /\ on = [u \in Users |-> FALSE]
    /\ codes = [u \in Users |-> {}]
    /\ given = {}
    /\ disturbed = [u \in Users |-> FALSE]

KeepSecret(u) == secret'[u] = secret[u]
KeepSwitch(u) == on'[u] = on[u]
KeepCodes(u) == codes'[u] = codes[u]

(* A new secret is not trusted before a code of it was verified.           *)
SetUp(u) ==
    /\ secret'[u] \in Secrets \ {secret[u]}
    /\ ~on'[u]
    /\ KeepCodes(u)

SwitchOn(u) ==
    /\ secret[u] # Null /\ KeepSecret(u)
    /\ on'[u]
    /\ codes'[u] \subseteq given' \ given /\ Cardinality(codes'[u]) = PerEnable

SwitchOff(u) ==
    /\ on[u] /\ ~on'[u]
    /\ secret'[u] = Null
    /\ codes'[u] = {}

OpenWithCode(u) ==
    /\ on[u]
    /\ \E c \in codes[u] : codes'[u] = codes[u] \ {c}
    /\ KeepSecret(u) /\ KeepSwitch(u)

LeaveAlone(u) == KeepSecret(u) /\ KeepSwitch(u) /\ KeepCodes(u)

Next ==
    /\ \A u \in Users :
          \/ disturbed'[u]
          \/ SetUp(u) \/ SwitchOn(u) \/ SwitchOff(u) \/ OpenWithCode(u) \/ LeaveAlone(u)
    /\ given \subseteq given'
    /\ \A u \in Users : disturbed[u] => disturbed'[u]

Spec == Init /\ [][Next]_vars
=============================================================================
