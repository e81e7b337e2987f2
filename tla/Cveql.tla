------------------------------- MODULE Cveql --------------------------------
(***************************************************************************)
(* The CVEQL parser (services/cveql_parser.py) beside its grammar.  A      *)
(* query is built from small groups of tokens; f stands for the allowed    *)
(* fields, which may also be written as values, v for any other word, and  *)
(* = for the operators but "in".  Tokenizing and the forbidden words are   *)
(* left out.                                                               *)
(***************************************************************************)
EXTENDS Naturals, Sequences

CONSTANTS
    MaxGroups,   \* bound: groups of tokens in a query
    MaxPlain     \* bound: if all of them are comparisons, and, or, parentheses

VARIABLES
    query,    \* tokens so far
    groups,   \* how many groups they are
    plain     \* are all of them plain?

cveqlVars == <<query, groups, plain>>

Groups == {<<"f", "=", "v">>, <<"f", "in", "(">>, <<"f">>, <<"and">>, <<"or">>,
           <<"(">>, <<")">>, <<",">>}
Plain == {<<"f", "=", "v">>, <<"and">>, <<"or">>, <<"(">>, <<")">>}
Fields == {"f"}
Operators == {"=", "in"}

-----------------------------------------------------------------------------
(* The parser: each operator answers a node and the position after it, or  *)
(* the position of the token it could not accept.                          *)
RECURSIVE ParseOr(_, _), OrTail(_, _), AndTail(_, _), ListTail(_, _)

Node(node, next) == [ok |-> TRUE, node |-> node, next |-> next]
Fail(p) == [ok |-> FALSE, at |-> p]
Peek(s, p, t) == p <= Len(s) /\ s[p] = t

(* parse_value: any token is a value.                                      *)
ParseValue(s, p) == IF p <= Len(s) THEN Node(s[p], p + 1) ELSE Fail(p)

(* After a value, a comma and the next one, or the end of the list.        *)
ListTail(s, l) ==
    IF Peek(s, l.next, ",")
    THEN LET v == ParseValue(s, l.next + 1) IN
         IF v.ok THEN ListTail(s, Node(Append(l.node, v.node), v.next)) ELSE v
    ELSE IF Peek(s, l.next, ")") THEN Node(l.node, l.next + 1)
    ELSE Fail(l.next)

ParseList(s, p) ==
    IF ~Peek(s, p, "(") THEN Fail(p)
    ELSE IF Peek(s, p + 1, ")") THEN Node(<<>>, p + 2)
    ELSE LET v == ParseValue(s, p + 1) IN
         IF v.ok THEN ListTail(s, Node(<<v.node>>, v.next)) ELSE v

ParseCmp(s, p) ==
    IF p > Len(s) \/ s[p] \notin Fields THEN Fail(p)
    ELSE IF p + 1 > Len(s) \/ s[p + 1] \notin Operators THEN Fail(p + 1)
    ELSE LET v == IF s[p + 1] = "in" THEN ParseList(s, p + 2) ELSE ParseValue(s, p + 2) IN
         IF v.ok THEN Node(<<s[p], s[p + 1], v.node>>, v.next) ELSE v

ParsePrimary(s, p) ==
    IF ~Peek(s, p, "(") THEN ParseCmp(s, p)
    ELSE LET e == ParseOr(s, p + 1) IN
         IF ~e.ok THEN e
         ELSE IF Peek(s, e.next, ")") THEN Node(e.node, e.next + 1)
         ELSE Fail(e.next)

AndTail(s, l) ==
    IF ~Peek(s, l.next, "and") THEN l
    ELSE LET r == ParsePrimary(s, l.next + 1) IN
         IF r.ok THEN AndTail(s, Node(<<"and", l.node, r.node>>, r.next)) ELSE r

ParseAnd(s, p) ==
    LET l == ParsePrimary(s, p) IN IF l.ok THEN AndTail(s, l) ELSE l

(* Mistake: the right operand takes everything that follows.               *)
OrRight(s, l) ==
    IF ~Peek(s, l.next, "or") THEN l
    ELSE LET r == ParseOr(s, l.next + 1) IN
         IF r.ok THEN Node(<<"or", l.node, r.node>>, r.next) ELSE r

OrTail(s, l) ==
    IF ~Peek(s, l.next, "or") THEN l
    ELSE LET r == ParseAnd(s, l.next + 1) IN
         IF r.ok THEN OrTail(s, Node(<<"or", l.node, r.node>>, r.next)) ELSE r

ParseOr(s, p) == LET l == ParseAnd(s, p) IN IF l.ok THEN OrTail(s, l) ELSE l

(* All of the tokens must be used.                                         *)
Parse(s) ==
    LET e == ParseOr(s, 1) IN
    IF e.ok /\ e.next <= Len(s) THEN Fail(e.next) ELSE e

-----------------------------------------------------------------------------
(* The grammar: the trees of a token sequence.                             *)
RECURSIVE Ors(_), Ands(_)

Before(s, i) == SubSeq(s, 1, i - 1)
After(s, i) == SubSeq(s, i + 1, Len(s))

(* Values with commas between them; the first one does not close the list. *)
Lists(s) ==
    IF s = <<>> THEN {<<>>}
    ELSE IF Len(s) % 2 = 1 /\ s[1] # ")" /\ \A i \in DOMAIN s : i % 2 = 0 => s[i] = ","
    THEN {[i \in 1..((Len(s) + 1) \div 2) |-> s[2 * i - 1]]}
    ELSE {}

Cmps(s) ==
    IF Len(s) < 3 \/ s[1] # "f" THEN {}
    ELSE IF s[2] = "=" THEN {<<"f", "=", v>> : v \in IF Len(s) = 3 THEN {s[3]} ELSE {}}
    ELSE IF s[2] = "in" /\ Len(s) > 3 /\ s[3] = "(" /\ s[Len(s)] = ")"
    THEN {<<"f", "in", l>> : l \in Lists(SubSeq(s, 4, Len(s) - 1))}
    ELSE {}

Primaries(s) ==
    Cmps(s) \cup
    IF Len(s) > 2 /\ s[1] = "(" /\ s[Len(s)] = ")" THEN Ors(SubSeq(s, 2, Len(s) - 1)) ELSE {}

Ands(s) ==
    Primaries(s) \cup
    UNION {{<<"and", l, r>> : l \in Ands(Before(s, i)), r \in Primaries(After(s, i))} :
              i \in {j \in DOMAIN s : s[j] = "and"}}

Ors(s) ==
    Ands(s) \cup
    UNION {{<<"or", l, r>> : l \in Ors(Before(s, i)), r \in Ands(After(s, i))} :
              i \in {j \in DOMAIN s : s[j] = "or"}}

-----------------------------------------------------------------------------
CveqlInit == query = <<>> /\ groups = 0 /\ plain = TRUE

(* Any group may follow, also what no query can go on with.                *)
Type ==
    \E g \in Groups :
        /\ query' = query \o g
        /\ groups' = groups + 1 /\ plain' = (plain /\ g \in Plain)
        /\ groups' <= IF plain' THEN MaxPlain ELSE MaxGroups

CveqlNext == Type

(* The parser answers the one tree the grammar has for a query, with "and" *)
(* above "or" and both to the left, and refuses a query without a tree.    *)
ParsesTheGrammar ==
    LET e == Parse(query) IN Ors(query) = IF e.ok THEN {e.node} ELSE {}
=============================================================================
