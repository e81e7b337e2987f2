---------------------------- MODULE SearchProofs ----------------------------
(***************************************************************************)
(* Proofs about Search: the pages of a search make its result, for every   *)
(* table, page size and order.                                             *)
(*                                                                         *)
(* The argument: each of the three blocks is a sequence (CveBlock because  *)
(* the order that was asked for arranges every finite set, Arrangement); a *)
(* page that takes what it needs of a block has taken the same of the      *)
(* blocks together (TakeNext); and while no write changes the result, the   *)
(* pages read so far are as long a prefix of it as they could hold (Paged). *)
(***************************************************************************)
EXTENDS Search, FiniteSetTheorems, SequenceTheorems, TLAPS

(* What a search shows is a row of one of the three kinds.                 *)
Hit == {"cve", "bdu", "local"} \X Nat

(* A relation that orders a finite set arranges it: the place of an        *)
(* element is the number of those before it.                               *)
LEMMA Arrangement ==
    ASSUME NEW S, IsFiniteSet(S), NEW R,
           \A a \in S : <<a, a>> \notin R,
           \A a, b \in S : a # b => <<a, b>> \in R \/ <<b, a>> \in R,
           \A a, b, c \in S : <<a, b>> \in R /\ <<b, c>> \in R => <<a, c>> \in R
    PROVE  \E f \in [1..Cardinality(S) -> S] :
              \A i, j \in 1..Cardinality(S) : i < j => <<f[i], f[j]>> \in R
<1> DEFINE n == Cardinality(S)
           Below(x) == {y \in S : <<y, x>> \in R}
           rank == [x \in S |-> Cardinality(Below(x)) + 1]
<1>1. n \in Nat
  BY FS_CardinalityType
<1>2. ASSUME NEW x \in S PROVE IsFiniteSet(Below(x)) /\ Cardinality(Below(x)) \in Nat
  <2>1. Below(x) \in SUBSET S
    OBVIOUS
  <2> QED
    BY <2>1, FS_Subset, FS_CardinalityType
<1>3. ASSUME NEW x \in S PROVE rank[x] \in 1..n
  <2>1. IsFiniteSet(S \ {x}) /\ Cardinality(S \ {x}) = n - 1
    BY FS_RemoveElement
  <2> PICK D : D = S \ {x}
    OBVIOUS
  <2> PICK T : T = Below(x)
    OBVIOUS
  <2>2. T \in SUBSET D
    <3> SUFFICES ASSUME NEW y \in T PROVE y \in D
      OBVIOUS
    <3>1. y \in S /\ <<y, x>> \in R
      OBVIOUS
    <3>2. y # x
      BY <3>1
    <3> QED
      BY <3>1, <3>2
  <2>3. Cardinality(T) <= Cardinality(D)
    BY <2>1, <2>2, FS_Subset
  <2>4. Cardinality(T) \in Nat /\ Cardinality(T) <= n - 1
    BY <1>2, <2>1, <2>3
  <2>5. rank[x] = Cardinality(T) + 1
    OBVIOUS
  <2> HIDE DEF rank, n
  <2> QED
    BY <1>1, <2>4, <2>5
<1>4. ASSUME NEW a \in S, NEW b \in S, <<a, b>> \in R PROVE rank[a] < rank[b]
  <2>1. Below(a) \in SUBSET Below(b)
    BY <1>4
  <2>2. a \in Below(b) /\ a \notin Below(a)
    BY <1>4
  <2> PICK A : A = Below(a)
    OBVIOUS
  <2> PICK B : B = Below(b)
    OBVIOUS
  <2>3. A # B /\ A \in SUBSET B
    BY <2>1, <2>2
  <2>4. Cardinality(A) <= Cardinality(B) /\ (Cardinality(B) = Cardinality(A) => A = B)
    BY <1>2, <2>3, FS_Subset
  <2>5. Cardinality(A) \in Nat /\ Cardinality(B) \in Nat
    BY <1>2
  <2>6. rank[a] = Cardinality(A) + 1 /\ rank[b] = Cardinality(B) + 1
    OBVIOUS
  <2> HIDE DEF rank
  <2> QED
    BY <2>3, <2>4, <2>5, <2>6
<1>5. rank \in [S -> 1..n]
  BY <1>3
<1> HIDE DEF rank, Below, n
<1>6. \A a, b \in S : rank[a] = rank[b] => a = b
  <2> SUFFICES ASSUME NEW a \in S, NEW b \in S, rank[a] = rank[b], a # b PROVE FALSE
    OBVIOUS
  <2>1. rank[a] < rank[b] \/ rank[b] < rank[a]
    BY <1>4
  <2>2. rank[a] \in Nat /\ rank[b] \in Nat
    BY <1>1, <1>5
  <2> QED
    BY <2>1, <2>2
<1>7. \A i \in 1..n : \E x \in S : rank[x] = i
  <2>1. rank \in Injection(S, 1..n)
    BY <1>5, <1>6 DEF Injection, IsInjective
  <2>2. IsFiniteSet(1..n) /\ Cardinality(1..n) = n
    BY <1>1, FS_Interval
  <2>3. Cardinality(S) = Cardinality(1..n)
    BY <2>2 DEF n
  <2>4. rank \in Surjection(S, 1..n)
    BY <2>1, <2>2, <2>3, FS_Injection
  <2> QED
    BY <2>4 DEF Surjection
<1> DEFINE f == [i \in 1..n |-> CHOOSE x \in S : rank[x] = i]
<1>8. \A i \in 1..n : f[i] \in S /\ rank[f[i]] = i
  BY <1>7
<1>9. f \in [1..n -> S]
  BY <1>8
<1> HIDE DEF f
<1>10. ASSUME NEW i \in 1..n, NEW j \in 1..n, i < j PROVE <<f[i], f[j]>> \in R
  <2>1. f[i] # f[j]
    BY <1>8, <1>10
  <2>2. <<f[j], f[i]>> \notin R
    <3>1. ASSUME <<f[j], f[i]>> \in R PROVE FALSE
      <4>1. rank[f[j]] < rank[f[i]]
        BY <1>4, <1>8, <3>1
      <4>2. j < i
        BY <1>8, <4>1
      <4> QED
        BY <1>1, <1>10, <4>2
    <3> QED
      BY <3>1
  <2> QED
    BY <1>8, <2>1, <2>2
<1> QED
  BY <1>9, <1>10 DEF n

(* Pairs and triples of numbers, the greater first.                        *)
LEMMA PairsPrecede ==
    ASSUME NEW a, NEW b, NEW c, NEW d
    PROVE  Precedes(<<a, b>>, <<c, d>>) <=> a > c \/ (a = c /\ b > d)
<1>1. DOMAIN <<a, b>> = {1, 2} /\ <<a, b>>[1] = a /\ <<a, b>>[2] = b
  OBVIOUS
<1>2. <<c, d>>[1] = c /\ <<c, d>>[2] = d
  OBVIOUS
<1>3. 1..(1 - 1) = {} /\ 1..(2 - 1) = {1}
  OBVIOUS
<1> QED
  BY <1>1, <1>2, <1>3 DEF Precedes

(* Of three places the first that differs decides.                         *)
LEMMA TriplesPrecede ==
    ASSUME NEW a, NEW b, NEW e, NEW c, NEW d, NEW g
    PROVE  Precedes(<<a, b, e>>, <<c, d, g>>) <=>
              a > c \/ (a = c /\ b > d) \/ (a = c /\ b = d /\ e > g)
<1>1. /\ DOMAIN <<a, b, e>> = {1, 2, 3}
      /\ <<a, b, e>>[1] = a /\ <<a, b, e>>[2] = b /\ <<a, b, e>>[3] = e
  OBVIOUS
<1>2. <<c, d, g>>[1] = c /\ <<c, d, g>>[2] = d /\ <<c, d, g>>[3] = g
  OBVIOUS
<1>3. 1..(1 - 1) = {} /\ 1..(2 - 1) = {1} /\ 1..(3 - 1) = {1, 2}
  OBVIOUS
<1> QED
  BY <1>1, <1>2, <1>3 DEF Precedes

Result == CveBlock \o BduBlock \o LocalBlock
Read == (page - 1) * asked.size   \* rows that the pages before could hold

(* What was asked and found are of their kinds.                            *)
Tables ==
    /\ DOMAIN cve \subseteq CveIds
    /\ \A c \in DOMAIN cve : cve[c] \in [kev : 0..1, day : Nat, linked : BOOLEAN, epss : Nat]
    /\ others \in [bdu : Seq(Nat), local : Seq(Nat)]
    /\ asked \in [kevOnly : BOOLEAN, hasBdu : BOOLEAN, size : PageSizes,
                  sort : {"published", "id", "epss"}]
    /\ page \in Nat \ {0}

(* CVEs are in the order that was asked for, and one of equal score is     *)
(* before those that came after it.                                        *)
LEMMA OrderedOrders ==
    ASSUME Tables, NEW a \in DOMAIN cve, NEW b \in DOMAIN cve, NEW c \in DOMAIN cve
    PROVE  /\ ~Ordered(a, a)
           /\ a # b => Ordered(a, b) \/ Ordered(b, a)
           /\ Ordered(a, b) /\ Ordered(b, c) => Ordered(a, c)
<1>1. a \in Nat /\ b \in Nat /\ c \in Nat
  BY SearchAssumption DEF Tables
<1>2. \A x \in {a, b, c} : cve[x].kev \in Nat /\ cve[x].day \in Nat
  BY DEF Tables
<1>3. CASE asked.sort = "id"
  BY <1>1, <1>3 DEF Ordered
<1>4. CASE asked.sort = "epss"
  <2>1. \A x, y \in {a, b, c} : Ordered(x, y) <=>
            cve[x].day > cve[y].day \/ (cve[x].day = cve[y].day /\ x > y)
    BY <1>4, PairsPrecede DEF Ordered, SortKey
  <2> QED
    BY <1>1, <1>2, <2>1
<1>5. CASE asked.sort # "id" /\ asked.sort # "epss"
  <2>1. \A x, y \in {a, b, c} : Ordered(x, y) <=>
            \/ cve[x].kev > cve[y].kev
            \/ cve[x].kev = cve[y].kev /\ cve[x].day > cve[y].day
            \/ cve[x].kev = cve[y].kev /\ cve[x].day = cve[y].day /\ x > y
    BY <1>5, TriplesPrecede DEF Ordered, SortKey
  <2> QED
    BY <1>1, <1>2, <2>1
<1> QED
  BY <1>3, <1>4, <1>5

(* The blocks are sequences of hits, those of the CVEs rows of the table.  *)
LEMMA CveBlockHits ==
    ASSUME Tables
    PROVE  /\ CveBlock \in Seq(Hit)
           /\ \A i \in DOMAIN CveBlock : CveBlock[i][2] \in DOMAIN cve
<1> DEFINE m == Matching
           n == Cardinality(m)
           ids == Arranged(m, Ordered)
<1>1. PICK R : R = {p \in m \X m : Ordered(p[1], p[2])}
  OBVIOUS
<1>2. m \subseteq DOMAIN cve /\ m \subseteq Nat
  BY SearchAssumption DEF Tables, Matching
<1> HIDE DEF m
<1>3. IsFiniteSet(m)
  <2>1. m \in SUBSET CveIds
    BY <1>2 DEF Tables
  <2> QED
    BY <2>1, SearchAssumption, FS_Subset
<1>4. n \in Nat
  BY <1>3, FS_CardinalityType
<1>5. \A a, b \in m : <<a, b>> \in R <=> Ordered(a, b)
  BY <1>1
<1> HIDE DEF n
<1>6. \E f \in [1..n -> m] : \A i, j \in 1..n : i < j => <<f[i], f[j]>> \in R
  <2>1. \A a \in m : <<a, a>> \notin R
    BY <1>2, <1>5, OrderedOrders
  <2>2. \A a, b \in m : a # b => <<a, b>> \in R \/ <<b, a>> \in R
    BY <1>2, <1>5, OrderedOrders
  <2>3. \A a, b, c \in m : <<a, b>> \in R /\ <<b, c>> \in R => <<a, c>> \in R
    BY <1>2, <1>5, OrderedOrders
  <2> QED
    BY <1>3, <2>1, <2>2, <2>3, Arrangement DEF n
<1>7. \E f \in [1..n -> m] : \A i, j \in 1..n : i < j => Ordered(f[i], f[j])
  <2>1. PICK f \in [1..n -> m] : \A i, j \in 1..n : i < j => <<f[i], f[j]>> \in R
    BY <1>6
  <2>2. \A i \in 1..n : f[i] \in m
    OBVIOUS
  <2> QED
    BY <1>5, <2>1, <2>2
<1>8. ids = CHOOSE f \in [1..n -> m] : \A i, j \in 1..n : i < j => Ordered(f[i], f[j])
  BY DEF Arranged, n
<1> HIDE DEF ids
<1>9. ids \in [1..n -> m]
  BY <1>7, <1>8
<1>10. CveBlock = [i \in DOMAIN ids |-> <<"cve", ids[i]>>]
  BY DEF CveBlock, ids, m
<1>11. CveBlock = [i \in 1..n |-> <<"cve", ids[i]>>]
  BY <1>9, <1>10
<1>12. \A i \in 1..n : ids[i] \in Nat /\ ids[i] \in DOMAIN cve
  BY <1>2, <1>9
<1> QED
  BY <1>4, <1>11, <1>12 DEF Hit

(* So are the records of the other kinds.                                  *)
LEMMA OtherHits ==
    ASSUME Tables PROVE BduBlock \in Seq(Hit) /\ LocalBlock \in Seq(Hit)
<1>1. others["bdu"] \in Seq(Nat) /\ others["local"] \in Seq(Nat)
  BY DEF Tables
<1>2. ASSUME NEW kind \in {"bdu", "local"} PROVE Others(kind) \in Seq(Hit)
  <2>1. PICK l \in Seq(Nat) : l = others[kind]
    BY <1>1
  <2>2. DOMAIN l = 1..Len(l) /\ Len(l) \in Nat /\ \A i \in 1..Len(l) : l[i] \in Nat
    BY <2>1
  <2>3. Others(kind) = [i \in 1..Len(l) |-> <<kind, l[i]>>]
    BY <2>1, <2>2 DEF Others
  <2> QED
    BY <2>2, <2>3 DEF Hit
<1>3. <<>> \in Seq(Hit)
  OBVIOUS
<1> QED
  BY <1>1, <1>2, <1>3 DEF BduBlock, LocalBlock

(* What a page that starts after k rows and holds n has of x rows: l, and  *)
(* it still needs d, which it takes of what follows after o rows.          *)
Has(x, k, n, l, o, d) ==
    /\ l = IF x <= k THEN 0 ELSE Smaller(n, x - k)
    /\ o = IF x <= k THEN k - x ELSE 0
    /\ d = n - l

(* What a page has taken of X, the blocks so far: the rows after the first *)
(* k, as many as it holds.                                                 *)
Window(w, X, k, n) ==
    /\ w = [rows |-> w.rows, need |-> w.need, offset |-> w.offset]
    /\ w.rows \in Seq(Hit)
    /\ Has(Len(X), k, n, Len(w.rows), w.offset, w.need)
    /\ \A i \in 1..Len(w.rows) : w.rows[i] = X[k + i]

(* The part of a block that a page takes.                                  *)
LEMMA PartOf ==
    ASSUME NEW B \in Seq(Hit), NEW o \in Nat, NEW u \in Nat, o + u <= Len(B)
    PROVE  /\ SubSeq(B, o + 1, o + u) \in Seq(Hit)
           /\ Len(SubSeq(B, o + 1, o + u)) = u
           /\ \A i \in 1..u : SubSeq(B, o + 1, o + u)[i] = B[o + i]
<1>1. \A i \in (o + 1)..(o + u) : B[i] \in Hit
  BY ElementOfSeq
<1>2. /\ SubSeq(B, o + 1, o + u) \in Seq(Hit)
      /\ Len(SubSeq(B, o + 1, o + u)) = IF o + 1 <= o + u THEN (o + u) - (o + 1) + 1 ELSE 0
      /\ \A i \in 1..((o + u) - (o + 1) + 1) : SubSeq(B, o + 1, o + u)[i] = B[(o + 1) + i - 1]
  BY <1>1, SubSeqProperties
<1>3. (o + u) - (o + 1) + 1 = u /\ (o + 1 <= o + u <=> u # 0)
  OBVIOUS
<1>4. \A i \in 1..u : (o + 1) + i - 1 = o + i
  OBVIOUS
<1> QED
  BY <1>2, <1>3, <1>4

(* The numbers of rows before and after the page takes from a block of b.  *)
LEMMA Amounts ==
    ASSUME NEW x \in Nat, NEW k \in Nat, NEW n \in Nat, NEW l, NEW o, NEW d,
           Has(x, k, n, l, o, d)
    PROVE  /\ l \in Nat /\ l <= n /\ o \in Nat /\ d \in Nat
           /\ l > 0 => k + l <= x
  BY DEF Smaller, Has

(* The block is entered where the rows before it end, and what is taken of *)
(* it is what the page lacks of all of them.                               *)
LEMMA AmountsTaken ==
    ASSUME NEW x \in Nat, NEW b \in Nat, NEW k \in Nat, NEW n \in Nat,
           NEW l, NEW o, NEW d, Has(x, k, n, l, o, d), d > 0, o < b
    PROVE  LET u == Smaller(d, b - o) IN
           /\ u \in Nat /\ o + u <= b /\ Smaller(o + u, b) = o + u
           /\ k + l = x + o
           /\ Has(x + b, k, n, l + u, 0, d - u)
  BY DEF Smaller, Has

(* A block is passed over when the page is full or starts behind it.       *)
LEMMA AmountsSkipped ==
    ASSUME NEW x \in Nat, NEW b \in Nat, NEW k \in Nat, NEW n \in Nat,
           NEW l, NEW o, NEW d, Has(x, k, n, l, o, d), ~(d > 0 /\ o < b)
    PROVE  Has(x + b, k, n, l, IF o > b THEN o - b ELSE 0, d)
  BY DEF Smaller, Has

(* A page that takes what it needs of the next block has taken it of the   *)
(* blocks together.                                                        *)
LEMMA TakeNext ==
    ASSUME NEW X \in Seq(Hit), NEW B \in Seq(Hit), NEW k \in Nat, NEW n \in Nat,
           NEW w, Window(w, X, k, n)
    PROVE  Window(Take(w, B, Len(B)), X \o B, k, n)
<1>1. PICK x : x = Len(X)
  OBVIOUS
<1>2. PICK b : b = Len(B)
  OBVIOUS
<1>3. PICK XB : XB = X \o B
  OBVIOUS
<1>4. x \in Nat /\ b \in Nat
  BY <1>1, <1>2
<1>5. /\ XB \in Seq(Hit) /\ Len(XB) = x + b
      /\ \A i \in 1..x + b : XB[i] = IF i <= x THEN X[i] ELSE B[i - x]
  BY <1>1, <1>2, <1>3, ConcatProperties
<1>6. PICK r : r = w.rows
  OBVIOUS
<1>7. PICK l : l = Len(r)
  OBVIOUS
<1>8. PICK d : d = w.need
  OBVIOUS
<1>9. PICK o : o = w.offset
  OBVIOUS
<1>10. /\ w = [rows |-> r, need |-> d, offset |-> o] /\ r \in Seq(Hit)
      /\ \A i \in 1..l : r[i] = X[k + i]
  BY <1>6, <1>7, <1>8, <1>9 DEF Window
<1>11. Has(x, k, n, l, o, d)
  BY <1>1, <1>6, <1>7, <1>8, <1>9 DEF Window
<1>12. l \in Nat /\ l <= n /\ o \in Nat /\ d \in Nat /\ (l > 0 => k + l <= x)
  BY <1>4, <1>11, Amounts
<1>13. \A i \in 1..l : r[i] = XB[k + i]
  <2> SUFFICES ASSUME NEW i \in 1..l PROVE r[i] = XB[k + i]
    OBVIOUS
  <2>1. k + i \in 1..x + b /\ k + i <= x
    BY <1>4, <1>12
  <2> QED
    BY <1>5, <1>10, <2>1
<1>14. CASE d > 0 /\ o < b
  <2>1. PICK u : u = Smaller(d, b - o)
    OBVIOUS
  <2>2. /\ u \in Nat /\ o + u <= b /\ Smaller(o + u, b) = o + u
        /\ k + l = x + o
        /\ Has(x + b, k, n, l + u, 0, d - u)
    BY <1>4, <1>11, <1>14, <2>1, AmountsTaken
  <2>3. PICK part : part = SubSeq(B, o + 1, o + u)
    OBVIOUS
  <2>4. o + u <= Len(B)
    BY <1>2, <2>2
  <2>5. /\ part \in Seq(Hit) /\ Len(part) = u
        /\ \A i \in 1..u : part[i] = B[o + i]
    BY <1>12, <2>2, <2>3, <2>4, PartOf
  <2>6. SubSeq(B, w.offset + 1, Smaller(w.offset + Smaller(w.need, b - w.offset), Len(B))) = part
    BY <1>2, <1>8, <1>9, <2>1, <2>2, <2>3
  <2>7. w.need > 0 /\ w.offset < b
    BY <1>14, <1>8, <1>9
  <2>8. Take(w, B, b) = [rows |-> w.rows \o part, need |-> w.need - Len(part), offset |-> 0]
    BY <2>6, <2>7 DEF Take
  <2>9. PICK q : q = r \o part
    OBVIOUS
  <2>10. Take(w, B, b) = [rows |-> q, need |-> d - u, offset |-> 0]
    BY <1>6, <1>8, <2>5, <2>8, <2>9
  <2>11. /\ q \in Seq(Hit) /\ Len(q) = l + u
        /\ \A i \in 1..l + u : q[i] = IF i <= l THEN r[i] ELSE part[i - l]
    BY <1>10, <1>7, <2>5, <2>9, ConcatProperties
  <2>12. ASSUME NEW i \in 1..l + u PROVE q[i] = XB[k + i]
    <3>1. CASE i <= l
      <4>1. i \in 1..l
        BY <1>12, <2>2, <3>1
      <4> QED
        BY <1>13, <2>11, <3>1, <4>1
    <3>2. CASE ~(i <= l)
      <4>1. PICK j : j = i - l
        OBVIOUS
      <4>2. j \in 1..u
        BY <1>12, <2>2, <3>2, <4>1
      <4>3. q[i] = B[o + j]
        BY <2>5, <2>11, <3>2, <4>1, <4>2
      <4>4. i = l + j /\ j <= u /\ j \in Nat \ {0}
        BY <1>12, <2>2, <3>2, <4>1, <4>2
      <4>5. k + i = x + (o + j)
        BY <1>4, <1>12, <2>2, <4>4
      <4>6. o + j <= b /\ o + j \in Nat \ {0}
        BY <1>4, <1>12, <2>2, <4>4
      <4>7. PICK e : e = o + j
        OBVIOUS
      <4>8. PICK c : c = k + i
        OBVIOUS
      <4>9. c = x + e /\ e <= b /\ e \in Nat /\ e > 0
        BY <4>5, <4>6, <4>7, <4>8
      <4>10. c \in 1..x + b /\ ~(c <= x) /\ c - x = e
        BY <1>4, <4>9
      <4>11. XB[c] = B[e]
        BY <1>5, <4>10
      <4>12. XB[k + i] = B[o + j]
        BY <4>7, <4>8, <4>11
      <4> QED
        BY <4>3, <4>12
    <3> QED
      BY <3>1, <3>2
  <2>13. PICK v : v = Take(w, B, b)
    OBVIOUS
  <2>14. v.rows = q /\ v.need = d - u /\ v.offset = 0
         /\ v = [rows |-> v.rows, need |-> v.need, offset |-> v.offset]
    BY <2>10, <2>13
  <2>15. Len(v.rows) = l + u
    BY <2>11, <2>14
  <2>16. Has(Len(XB), k, n, Len(v.rows), v.offset, v.need)
    BY <1>5, <2>2, <2>14, <2>15
  <2>17. \A i \in 1..Len(v.rows) : v.rows[i] = XB[k + i]
    BY <2>12, <2>14, <2>15
  <2>18. v.rows \in Seq(Hit)
    BY <2>11, <2>14
  <2>19. Window(v, XB, k, n)
    BY <2>14, <2>16, <2>17, <2>18 DEF Window
  <2> QED
    BY <1>2, <1>3, <2>13, <2>19
<1>15. CASE ~(d > 0 /\ o < b)
  <2>1. PICK e : e = IF o > b THEN o - b ELSE 0
    OBVIOUS
  <2>2. Has(x + b, k, n, l, e, d)
    BY <1>4, <1>11, <1>15, <2>1, AmountsSkipped
  <2>3. ~(w.need > 0 /\ w.offset < b)
    BY <1>15, <1>8, <1>9
  <2>4. Take(w, B, b) = [w EXCEPT !.offset = IF @ > b THEN @ - b ELSE 0]
    BY <2>3 DEF Take
  <2>5. [w EXCEPT !.offset = IF @ > b THEN @ - b ELSE 0] = [rows |-> r, need |-> d, offset |-> e]
    BY <1>10, <2>1
  <2>6. PICK v : v = Take(w, B, b)
    OBVIOUS
  <2>7. v.rows = r /\ v.need = d /\ v.offset = e
        /\ v = [rows |-> v.rows, need |-> v.need, offset |-> v.offset]
    BY <2>4, <2>5, <2>6
  <2>8. Len(v.rows) = l
    BY <1>7, <2>7
  <2>9. Has(Len(XB), k, n, Len(v.rows), v.offset, v.need)
    BY <1>5, <2>2, <2>7, <2>8
  <2>10. v.rows \in Seq(Hit)
    BY <1>10, <2>7
  <2>11. \A i \in 1..Len(v.rows) : v.rows[i] = XB[k + i]
    BY <1>13, <2>7, <2>8
  <2>12. Window(v, XB, k, n)
    BY <2>7, <2>9, <2>10, <2>11 DEF Window
  <2> QED
    BY <1>2, <1>3, <2>6, <2>12
<1> QED
  BY <1>14, <1>15

(* A page that has taken nothing yet.                                      *)
LEMMA StartWindow ==
    ASSUME NEW A \in Seq(Hit), NEW k \in Nat, NEW n \in Nat
    PROVE  Window(Take([rows |-> <<>>, need |-> n, offset |-> k], A, Len(A)), A, k, n)
<1>1. PICK w : w = [rows |-> <<>>, need |-> n, offset |-> k]
  OBVIOUS
<1>2. PICK E : E = <<>>
  OBVIOUS
<1>3. E \in Seq(Hit) /\ Len(E) = 0
  BY <1>2
<1>4. Has(0, k, n, 0, k, n)
  BY DEF Has, Smaller
<1>5. w.rows = E /\ w.need = n /\ w.offset = k
  BY <1>1, <1>2
<1>6. Window(w, E, k, n)
  BY <1>1, <1>3, <1>4, <1>5 DEF Window
<1>7. Window(Take(w, A, Len(A)), E \o A, k, n)
  BY <1>3, <1>6, TakeNext
<1>8. E \o A = A
  BY <1>2, ConcatEmptySeq
<1> QED
  BY <1>1, <1>7, <1>8

(* The scores put the CVEs of a page in another order, and leave none out. *)
LEMMA ByScoreShuffles ==
    ASSUME Tables, NEW rows \in Seq(Hit), \A i \in DOMAIN rows : rows[i][2] \in DOMAIN cve
    PROVE  /\ ByScore(rows) \in Seq(Hit) /\ Len(ByScore(rows)) = Len(rows)
           /\ \A i \in 1..Len(rows) : \E j \in 1..Len(rows) : ByScore(rows)[i] = rows[j]
           /\ \A j \in 1..Len(rows) : \E i \in 1..Len(rows) : ByScore(rows)[i] = rows[j]
<1> DEFINE Score(i) == cve[rows[i][2]].epss
           Higher(i, j) == Precedes(<<Score(i), j>>, <<Score(j), i>>)
           order == Arranged(DOMAIN rows, Higher)
<1>1. PICK n : n = Len(rows)
  OBVIOUS
<1>2. n \in Nat /\ DOMAIN rows = 1..n /\ IsFiniteSet(1..n) /\ Cardinality(1..n) = n
  <2>1. n \in Nat /\ DOMAIN rows = 1..n
    BY <1>1
  <2> QED
    BY <2>1, FS_Interval
<1>3. \A i \in 1..n : Score(i) \in Nat
  BY <1>2 DEF Tables
<1>4. PICK score : score = [i \in 1..n |-> Score(i)]
  OBVIOUS
<1>5. \A i \in 1..n : score[i] \in Nat /\ score[i] = Score(i)
  BY <1>3, <1>4
<1>6. ByScore(rows) = [i \in DOMAIN rows |-> rows[order[i]]]
  BY DEF ByScore
<1>7. \A i, j \in 1..n : Higher(i, j) <=> score[i] > score[j] \/ (score[i] = score[j] /\ j > i)
  BY <1>5, PairsPrecede
<1>8. order = CHOOSE f \in [1..n -> 1..n] : \A i, j \in 1..n : i < j => Higher(f[i], f[j])
  BY <1>2 DEF Arranged
<1> HIDE DEF Higher, order, Score
<1>9. PICK R : R = {p \in (1..n) \X (1..n) : Higher(p[1], p[2])}
  OBVIOUS
<1>10. \A i, j \in 1..n : <<i, j>> \in R <=> score[i] > score[j] \/ (score[i] = score[j] /\ j > i)
  BY <1>7, <1>9
<1>11. \E f \in [1..Cardinality(1..n) -> 1..n] :
           \A i, j \in 1..Cardinality(1..n) : i < j => <<f[i], f[j]>> \in R
  <2>1. \A a \in 1..n : <<a, a>> \notin R
    BY <1>2, <1>5, <1>10
  <2>2. \A a, b \in 1..n : a # b => <<a, b>> \in R \/ <<b, a>> \in R
    BY <1>2, <1>5, <1>10
  <2>3. \A a, b, c \in 1..n : <<a, b>> \in R /\ <<b, c>> \in R => <<a, c>> \in R
    BY <1>2, <1>5, <1>10
  <2>4. PICK S : S = 1..n
    OBVIOUS
  <2>5. /\ IsFiniteSet(S) /\ \A a \in S : <<a, a>> \notin R
        /\ \A a, b \in S : a # b => <<a, b>> \in R \/ <<b, a>> \in R
        /\ \A a, b, c \in S : <<a, b>> \in R /\ <<b, c>> \in R => <<a, c>> \in R
    BY <1>2, <2>1, <2>2, <2>3, <2>4
  <2>6. \E f \in [1..Cardinality(S) -> S] :
              \A i, j \in 1..Cardinality(S) : i < j => <<f[i], f[j]>> \in R
    BY <2>5, Arrangement
  <2> QED
    BY <2>4, <2>6
<1>12. \E f \in [1..n -> 1..n] : \A i, j \in 1..n : i < j => Higher(f[i], f[j])
  <2>1. PICK f \in [1..n -> 1..n] : \A i, j \in 1..n : i < j => <<f[i], f[j]>> \in R
    BY <1>2, <1>11
  <2>2. \A i \in 1..n : f[i] \in 1..n
    BY <2>1
  <2>3. \A i, j \in 1..n : <<i, j>> \in R <=> Higher(i, j)
    BY <1>9
  <2> QED
    BY <2>1, <2>2, <2>3
<1>13. order \in [1..n -> 1..n] /\ \A i, j \in 1..n : i < j => Higher(order[i], order[j])
  BY <1>8, <1>12
<1>14. \A i, j \in 1..n : order[i] = order[j] => i = j
  <2> SUFFICES ASSUME NEW i \in 1..n, NEW j \in 1..n, i < j PROVE order[i] # order[j]
    BY <1>2
  <2>1. order[i] \in 1..n /\ order[j] \in 1..n /\ Higher(order[i], order[j])
    BY <1>13
  <2> QED
    BY <1>2, <1>5, <1>7, <2>1
<1>15. order \in Surjection(1..n, 1..n)
  <2>1. order \in Injection(1..n, 1..n)
    BY <1>13, <1>14 DEF Injection, IsInjective
  <2> QED
    BY <1>2, <2>1, FS_Injection
<1>16. \A j \in 1..n : \E i \in 1..n : order[i] = j
  BY <1>15 DEF Surjection
<1>17. PICK sorted : sorted = [i \in 1..n |-> rows[order[i]]]
  OBVIOUS
<1>18. \A i \in 1..n : order[i] \in 1..n /\ rows[order[i]] \in Hit
  BY <1>1, <1>2, <1>13
<1>19. sorted \in Seq(Hit) /\ Len(sorted) = n /\ \A i \in 1..n : sorted[i] = rows[order[i]]
  BY <1>2, <1>17, <1>18
<1>20. ByScore(rows) = sorted
  BY <1>2, <1>6, <1>17
<1>21. \A i \in 1..n : \E j \in 1..n : sorted[i] = rows[j]
  <2> SUFFICES ASSUME NEW i \in 1..n PROVE \E j \in 1..n : sorted[i] = rows[j]
    OBVIOUS
  <2>1. order[i] \in 1..n /\ sorted[i] = rows[order[i]]
    BY <1>18, <1>19
  <2> QED
    BY <2>1
<1>22. \A j \in 1..n : \E i \in 1..n : sorted[i] = rows[j]
  <2> SUFFICES ASSUME NEW j \in 1..n PROVE \E i \in 1..n : sorted[i] = rows[j]
    OBVIOUS
  <2>1. PICK i \in 1..n : order[i] = j
    BY <1>16
  <2>2. sorted[i] = rows[j]
    BY <1>19, <2>1
  <2> QED
    BY <2>2
<1> QED
  BY <1>1, <1>19, <1>20, <1>21, <1>22

(* The rows of a page that starts after k of the result, in the order of   *)
(* the result unless the scores arranged it.                               *)
PageOf(rows, k) ==
    /\ rows \in Seq(Hit)
    /\ Len(rows) = IF Total <= k THEN 0 ELSE Smaller(asked.size, Total - k)
    /\ asked.sort # "epss" => \A i \in 1..Len(rows) : rows[i] = Result[k + i]
    /\ {rows[i] : i \in 1..Len(rows)} = {Result[k + i] : i \in 1..Len(rows)}

(* The total is the length of the result.                                  *)
LEMMA ResultIsWhole ==
    ASSUME Tables
    PROVE  Result \in Seq(Hit) /\ Total = Len(Result) /\ Total \in Nat
<1>1. CveBlock \in Seq(Hit) /\ BduBlock \in Seq(Hit) /\ LocalBlock \in Seq(Hit)
  BY CveBlockHits, OtherHits
<1>2. PICK a : a = CveBlock
  OBVIOUS
<1>3. PICK b : b = BduBlock
  OBVIOUS
<1>4. PICK c : c = LocalBlock
  OBVIOUS
<1>5. PICK ab : ab = a \o b
  OBVIOUS
<1>6. ab \in Seq(Hit) /\ Len(ab) = Len(a) + Len(b)
  BY <1>1, <1>2, <1>3, <1>5, ConcatProperties
<1>7. ab \o c \in Seq(Hit) /\ Len(ab \o c) = Len(ab) + Len(c)
  BY <1>1, <1>4, <1>6, ConcatProperties
<1>8. Len(a) \in Nat /\ Len(b) \in Nat /\ Len(c) \in Nat
  BY <1>1, <1>2, <1>3, <1>4
<1>9. Result = ab \o c /\ Total = Len(a) + Len(b) + Len(c)
  BY <1>2, <1>3, <1>4, <1>5 DEF Result, Total
<1> QED
  BY <1>6, <1>7, <1>8, <1>9

(* The blocks follow one another through three windows.                    *)
LEMMA ThroughBlocks ==
    ASSUME NEW A \in Seq(Hit), NEW B \in Seq(Hit), NEW C \in Seq(Hit),
           NEW k \in Nat, NEW n \in Nat, NEW w, Window(w, A, k, n)
    PROVE  Window(Take(Take(w, B, Len(B)), C, Len(C)), A \o B \o C, k, n)
<1>1. PICK v : v = Take(w, B, Len(B))
  OBVIOUS
<1>2. PICK AB : AB = A \o B
  OBVIOUS
<1>3. Window(v, AB, k, n)
  BY <1>1, <1>2, TakeNext
<1>4. AB \in Seq(Hit)
  BY <1>2, ConcatProperties
<1>5. Window(Take(v, C, Len(C)), AB \o C, k, n)
  BY <1>3, <1>4, TakeNext
<1> QED
  BY <1>1, <1>2, <1>5

(* Two first blocks of one length differ in the result where they differ.  *)
LEMMA OneFirstBlock ==
    ASSUME NEW A \in Seq(Hit), NEW D \in Seq(Hit), Len(A) = Len(D),
           NEW B \in Seq(Hit), NEW C \in Seq(Hit),
           NEW i \in 1..Len(A \o B \o C)
    PROVE  /\ Len(D \o B \o C) = Len(A \o B \o C)
           /\ (D \o B \o C)[i] = IF i <= Len(A) THEN D[i] ELSE (A \o B \o C)[i]
<1>1. PICK AB : AB = A \o B
  OBVIOUS
<1>2. PICK DB : DB = D \o B
  OBVIOUS
<1>3. PICK a : a = Len(A)
  OBVIOUS
<1>4. PICK b : b = Len(B)
  OBVIOUS
<1>5. PICK c : c = Len(C)
  OBVIOUS
<1>6. a \in Nat /\ b \in Nat /\ c \in Nat
  BY <1>3, <1>4, <1>5
<1>7. /\ AB \in Seq(Hit) /\ Len(AB) = a + b
      /\ \A j \in 1..a + b : AB[j] = IF j <= a THEN A[j] ELSE B[j - a]
  <2>1. AB \in Seq(Hit) /\ Len(AB) = Len(A) + Len(B)
    BY <1>1, ConcatProperties
  <2>2. \A j \in 1..Len(A) + Len(B) : AB[j] = IF j <= Len(A) THEN A[j] ELSE B[j - Len(A)]
    BY <1>1, ConcatProperties
  <2> QED
    BY <1>3, <1>4, <2>1, <2>2
<1>8. /\ DB \in Seq(Hit) /\ Len(DB) = a + b
      /\ \A j \in 1..a + b : DB[j] = IF j <= a THEN D[j] ELSE B[j - a]
  BY <1>2, <1>3, <1>4, ConcatProperties
<1>9. PICK AC : AC = AB \o C
  OBVIOUS
<1>10. PICK DC : DC = DB \o C
  OBVIOUS
<1>11. PICK ab : ab = a + b
  OBVIOUS
<1>12. /\ Len(AC) = ab + c
       /\ \A j \in 1..ab + c : AC[j] = IF j <= ab THEN AB[j] ELSE C[j - ab]
  BY <1>5, <1>7, <1>9, <1>11, ConcatProperties
<1>13. /\ Len(DC) = ab + c
       /\ \A j \in 1..ab + c : DC[j] = IF j <= ab THEN DB[j] ELSE C[j - ab]
  BY <1>5, <1>8, <1>10, <1>11, ConcatProperties
<1>14. i \in 1..ab + c
  BY <1>1, <1>9, <1>12
<1>15. DC[i] = IF i <= a THEN D[i] ELSE AC[i]
  <2>1. ASSUME ~(i <= ab) PROVE DC[i] = AC[i] /\ ~(i <= a)
    <3>1. ~(i <= a)
      BY <1>6, <1>11, <1>14, <2>1
    <3>2. DC[i] = C[i - ab]
      BY <1>13, <1>14, <2>1
    <3>3. AC[i] = C[i - ab]
      BY <1>12, <1>14, <2>1
    <3> QED
      BY <3>1, <3>2, <3>3
  <2>2. ASSUME i <= ab PROVE i \in 1..a + b /\ DC[i] = DB[i] /\ AC[i] = AB[i]
    BY <1>6, <1>11, <1>12, <1>13, <1>14, <2>2
  <2>3. ASSUME i <= ab PROVE DC[i] = IF i <= a THEN D[i] ELSE AC[i]
    BY <1>7, <1>8, <2>2, <2>3
  <2> QED
    BY <2>1, <2>3
<1> QED
  BY <1>1, <1>2, <1>3, <1>9, <1>10, <1>12, <1>13, <1>15

(* X and Y are two results that differ in their first block.               *)
Replaces(A, D, B, C, a, X, Y) ==
    a = Len(A) /\ a = Len(D) /\ X = A \o B \o C /\ Y = D \o B \o C

(* Then they are the same after that block, and X begins with its own.     *)
LEMMA SameFirst ==
    ASSUME NEW A \in Seq(Hit), NEW D \in Seq(Hit), NEW B \in Seq(Hit), NEW C \in Seq(Hit),
           NEW a \in Nat, NEW X, NEW Y, Replaces(A, D, B, C, a, X, Y)
    PROVE  /\ \A i \in 1..Len(X) : Y[i] = IF i <= a THEN D[i] ELSE X[i]
           /\ Len(Y) = Len(X)
           /\ \A i \in 1..a : X[i] = A[i] /\ i \in 1..Len(X)
<1> USE DEF Replaces
<1>1. Len(Y) = Len(X)
  <2>1. PICK P : P = A \o B
    OBVIOUS
  <2>2. PICK Q : Q = D \o B
    OBVIOUS
  <2>3. P \in Seq(Hit) /\ Q \in Seq(Hit) /\ Len(P) = a + Len(B) /\ Len(Q) = a + Len(B)
    BY <2>1, <2>2, ConcatProperties
  <2>4. Len(P \o C) = Len(P) + Len(C) /\ Len(Q \o C) = Len(Q) + Len(C)
    BY <2>3, ConcatProperties
  <2> QED
    BY <2>1, <2>2, <2>3, <2>4
<1>2. \A i \in 1..Len(X) : Y[i] = IF i <= a THEN D[i] ELSE X[i]
  <2> SUFFICES ASSUME NEW i \in 1..Len(X) PROVE Y[i] = IF i <= a THEN D[i] ELSE X[i]
    OBVIOUS
  <2>1. Len(A) = Len(D) /\ i \in 1..Len(A \o B \o C)
    OBVIOUS
  <2>2. (D \o B \o C)[i] = IF i <= Len(A) THEN D[i] ELSE (A \o B \o C)[i]
    BY <2>1, OneFirstBlock
  <2> QED
    BY <2>2
<1>3. \A i \in 1..a : X[i] = A[i] /\ i \in 1..Len(X)
  <2> SUFFICES ASSUME NEW i \in 1..a PROVE X[i] = A[i] /\ i \in 1..Len(X)
    OBVIOUS
  <2>1. PICK P : P = A \o B
    OBVIOUS
  <2>2. P \in Seq(Hit) /\ Len(P) = a + Len(B) /\ Len(B) \in Nat /\ Len(C) \in Nat
    <3>1. P \in Seq(Hit) /\ Len(P) = Len(A) + Len(B)
      BY <2>1, ConcatProperties
    <3>2. Len(A) = a
      OBVIOUS
    <3>3. Len(B) \in Nat /\ Len(C) \in Nat
      OBVIOUS
    <3> QED
      BY <3>1, <3>2, <3>3
  <2>3. i \in 1..Len(P) /\ i <= a
    BY <2>2
  <2>4. P[i] = A[i]
    BY <2>1, <2>2, <2>3, ConcatProperties
  <2>5. Len(P \o C) = Len(P) + Len(C)
    BY <2>2, ConcatProperties
  <2>6. i \in 1..Len(P) + Len(C) /\ i <= Len(P)
    BY <2>2, <2>3
  <2>7. (P \o C)[i] = P[i]
    BY <2>2, <2>6, ConcatProperties
  <2> QED
    BY <2>1, <2>4, <2>5, <2>6, <2>7
<1> QED
  BY <1>1, <1>2, <1>3

(* A page that goes on to the next block has all there is of this one.     *)
LEMMA MoreBlocks ==
    ASSUME NEW a \in Nat, NEW x \in Nat, a <= x, NEW k \in Nat, NEW n \in Nat,
           NEW l, NEW o, NEW d, Has(a, k, n, l, o, d),
           NEW m, NEW p, NEW e, Has(x, k, n, m, p, e)
    PROVE  /\ m \in Nat /\ (m > 0 => k + m <= x) /\ l <= m
           /\ \A i \in 1..m : ~(i <= l) => k + i > a
  BY DEF Has, Smaller

(* The rows a page shows: those of its three blocks, the CVEs of them      *)
(* sorted anew with sort=epss.                                             *)
Shows(k) ==
    LET start == [rows |-> <<>>, need |-> asked.size, offset |-> k]
        cves == Take(start, CveBlock, Len(CveBlock))
        hits == IF asked.sort = "epss" THEN [cves EXCEPT !.rows = ByScore(@)] ELSE cves
    IN  Take(Take(hits, BduBlock, Len(BduBlock)), LocalBlock, Len(LocalBlock)).rows

(* A page that starts after k rows shows those that follow in the result.  *)
LEMMA PageShows ==
    ASSUME Tables, NEW k \in Nat PROVE PageOf(Shows(k), k)
<1>1. PICK A : A = CveBlock
  OBVIOUS
<1>2. PICK B : B = BduBlock
  OBVIOUS
<1>3. PICK C : C = LocalBlock
  OBVIOUS
<1>4. A \in Seq(Hit) /\ B \in Seq(Hit) /\ C \in Seq(Hit)
  BY <1>1, <1>2, <1>3, CveBlockHits, OtherHits
<1>5. PICK n : n = asked.size
  OBVIOUS
<1>6. n \in Nat
  BY <1>5, SearchAssumption DEF Tables
<1>7. PICK cves : cves = Take([rows |-> <<>>, need |-> n, offset |-> k], A, Len(A))
  OBVIOUS
<1>8. Window(cves, A, k, n)
  BY <1>4, <1>6, <1>7, StartWindow
<1>9. PICK X : X = A \o B \o C
  OBVIOUS
<1>10. X = Result /\ Total = Len(X) /\ Len(X) \in Nat
  BY <1>1, <1>2, <1>3, <1>9, ResultIsWhole DEF Result
<1>11. CASE asked.sort # "epss"
  <2>1. PICK w : w = Take(Take(cves, B, Len(B)), C, Len(C))
    OBVIOUS
  <2>2. Window(w, X, k, n)
    BY <1>4, <1>6, <1>8, <1>9, <2>1, ThroughBlocks
  <2>3. Shows(k) = w.rows
    BY <1>1, <1>2, <1>3, <1>5, <1>7, <1>11, <2>1 DEF Shows
  <2>4. PICK r : r = w.rows
    OBVIOUS
  <2>5. r \in Seq(Hit) /\ Len(r) = (IF Len(X) <= k THEN 0 ELSE Smaller(n, Len(X) - k))
        /\ \A i \in 1..Len(r) : r[i] = X[k + i]
    BY <2>2, <2>4 DEF Window, Has
  <2>6. {r[i] : i \in 1..Len(r)} = {X[k + i] : i \in 1..Len(r)}
    BY <2>5
  <2>7. PageOf(r, k)
    BY <1>5, <1>10, <2>5, <2>6 DEF PageOf
  <2> QED
    BY <2>3, <2>4, <2>7
<1>12. CASE asked.sort = "epss"
  <2>1. PICK g : g = cves.rows
    OBVIOUS
  <2>2. PICK l : l = Len(g)
    OBVIOUS
  <2>3. PICK a : a = Len(A)
    OBVIOUS
  <2>4. /\ g \in Seq(Hit) /\ Has(a, k, n, l, cves.offset, cves.need)
        /\ \A i \in 1..l : g[i] = A[k + i]
        /\ cves = [rows |-> g, need |-> cves.need, offset |-> cves.offset]
    BY <1>8, <2>1, <2>2, <2>3 DEF Window
  <2>5. a \in Nat /\ l \in Nat /\ (l > 0 => k + l <= a)
    <3>1. a \in Nat
      BY <1>4, <2>3
    <3> QED
      BY <1>6, <2>4, <3>1, Amounts
  <2>6. \A i \in 1..l : g[i] \in Hit /\ g[i][2] \in DOMAIN cve
    <3> SUFFICES ASSUME NEW i \in 1..l PROVE g[i] \in Hit /\ g[i][2] \in DOMAIN cve
      OBVIOUS
    <3>1. g[i] = A[k + i] /\ k + i \in 1..a
      BY <2>4, <2>5
    <3>2. k + i \in DOMAIN A
      BY <1>4, <2>3, <3>1
    <3>3. \A j \in DOMAIN A : A[j][2] \in DOMAIN cve
      BY <1>1, CveBlockHits
    <3>4. g[i] \in Hit
      BY <2>2, <2>4
    <3> QED
      BY <3>1, <3>2, <3>3, <3>4
  <2>7. PICK h : h = ByScore(g)
    OBVIOUS
  <2>8. /\ h \in Seq(Hit) /\ Len(h) = l
        /\ \A i \in 1..l : \E j \in 1..l : h[i] = g[j]
        /\ \A j \in 1..l : \E i \in 1..l : h[i] = g[j]
    <3>1. \A i \in DOMAIN g : g[i][2] \in DOMAIN cve
      BY <2>2, <2>4, <2>6
    <3> QED
      BY <2>2, <2>4, <2>7, <3>1, ByScoreShuffles
  <2>9. PICK D : D = [j \in 1..a |-> IF j > k /\ j <= k + l THEN h[j - k] ELSE A[j]]
    OBVIOUS
  <2>10. D \in Seq(Hit) /\ Len(D) = a
    <3>1. \A j \in 1..a : D[j] \in Hit
      <4> SUFFICES ASSUME NEW j \in 1..a PROVE D[j] \in Hit
        OBVIOUS
      <4>1. ASSUME j > k, j <= k + l PROVE h[j - k] \in Hit
        <5>1. j - k \in 1..l
          BY <2>5, <4>1
        <5> QED
          BY <2>8, <5>1
      <4>2. A[j] \in Hit
        BY <1>4, <2>3
      <4> QED
        BY <2>9, <4>1, <4>2
    <3> QED
      BY <2>5, <2>9, <3>1
  <2>11. \A i \in 1..l : h[i] = D[k + i]
    <3> SUFFICES ASSUME NEW i \in 1..l PROVE h[i] = D[k + i]
      OBVIOUS
    <3>1. PICK j : j = k + i
      OBVIOUS
    <3>2. j \in 1..a /\ j > k /\ j <= k + l /\ j - k = i
      BY <2>5, <3>1
    <3> QED
      BY <2>9, <3>1, <3>2
  <2>12. PICK hits : hits = [cves EXCEPT !.rows = h]
    OBVIOUS
  <2>13. hits = [rows |-> h, need |-> cves.need, offset |-> cves.offset]
    BY <2>4, <2>12
  <2>14. hits.rows = h /\ hits.need = cves.need /\ hits.offset = cves.offset
    BY <2>13
  <2>15. Window(hits, D, k, n)
    BY <2>4, <2>8, <2>10, <2>11, <2>13, <2>14 DEF Window
  <2>16. PICK w : w = Take(Take(hits, B, Len(B)), C, Len(C))
    OBVIOUS
  <2>17. PICK Y : Y = D \o B \o C
    OBVIOUS
  <2>18. Window(w, Y, k, n)
    BY <1>4, <1>6, <2>10, <2>15, <2>16, <2>17, ThroughBlocks
  <2>19. Shows(k) = w.rows
    BY <1>1, <1>2, <1>3, <1>5, <1>7, <1>12, <2>1, <2>7, <2>12, <2>16 DEF Shows
  <2>20. PICK r : r = w.rows
    OBVIOUS
  <2>21. PICK m : m = Len(r)
    OBVIOUS
  <2>22. /\ \A i \in 1..Len(X) : Y[i] = IF i <= a THEN D[i] ELSE X[i]
         /\ Len(Y) = Len(X)
         /\ \A i \in 1..a : X[i] = A[i] /\ i \in 1..Len(X)
    <3>1. Replaces(A, D, B, C, a, X, Y)
      BY <1>9, <2>3, <2>10, <2>17 DEF Replaces
    <3> QED
      BY <1>4, <2>5, <2>10, <3>1, SameFirst
  <2>23. /\ r \in Seq(Hit) /\ Has(Len(X), k, n, m, w.offset, w.need)
         /\ \A i \in 1..m : r[i] = Y[k + i]
    BY <2>18, <2>20, <2>21, <2>22 DEF Window
  <2>24. m \in Nat /\ (m > 0 => k + m <= Len(X)) /\ l <= m
         /\ \A i \in 1..m : ~(i <= l) => k + i > a
    <3>1. a <= Len(X)
      BY <1>10, <2>5, <2>22
    <3>2. PICK x : x = Len(X)
      OBVIOUS
    <3>3. x \in Nat /\ a <= x /\ Has(x, k, n, m, w.offset, w.need)
      BY <1>10, <2>23, <3>1, <3>2
    <3>4. /\ m \in Nat /\ (m > 0 => k + m <= x) /\ l <= m
          /\ \A i \in 1..m : ~(i <= l) => k + i > a
      BY <1>6, <2>4, <2>5, <3>3, MoreBlocks
    <3> QED
      BY <3>2, <3>4
  <2>25. \A i \in 1..m : r[i] = IF i <= l THEN h[i] ELSE X[k + i]
    <3> SUFFICES ASSUME NEW i \in 1..m PROVE r[i] = IF i <= l THEN h[i] ELSE X[k + i]
      OBVIOUS
    <3>1. PICK j : j = k + i
      OBVIOUS
    <3>2. j \in 1..Len(X) /\ r[i] = Y[j]
      BY <1>10, <2>23, <2>24, <3>1
    <3>3. ASSUME i <= l PROVE r[i] = h[i]
      <4>1. i \in 1..l /\ j <= a
        BY <2>5, <2>24, <3>1, <3>3
      <4> QED
        BY <2>11, <2>22, <3>1, <3>2, <4>1
    <3>4. ASSUME ~(i <= l) PROVE r[i] = X[j]
      <4>1. ~(j <= a)
        BY <2>5, <2>24, <3>1, <3>4
      <4> QED
        BY <2>22, <3>2, <4>1
    <3> QED
      BY <3>1, <3>3, <3>4
  <2>26. \A i \in 1..l : g[i] = X[k + i] /\ i \in 1..m
    <3> SUFFICES ASSUME NEW i \in 1..l PROVE g[i] = X[k + i] /\ i \in 1..m
      OBVIOUS
    <3>1. PICK j : j = k + i
      OBVIOUS
    <3>2. j \in 1..a /\ i \in 1..m
      BY <2>5, <2>24, <3>1
    <3> QED
      BY <2>4, <2>22, <3>1, <3>2
  <2>27. {r[i] : i \in 1..m} = {X[k + i] : i \in 1..m}
    <3>1. ASSUME NEW i \in 1..m PROVE \E j \in 1..m : r[i] = X[k + j]
      <4>1. CASE i <= l
        <5>1. i \in 1..l
          BY <2>5, <4>1
        <5>2. PICK j \in 1..l : h[i] = g[j]
          BY <2>8, <5>1
        <5> QED
          BY <2>25, <2>26, <4>1, <5>2
      <4> QED
        BY <2>25, <4>1
    <3>2. ASSUME NEW j \in 1..m PROVE \E i \in 1..m : r[i] = X[k + j]
      <4>1. CASE j <= l
        <5>1. j \in 1..l
          BY <2>5, <4>1
        <5>2. PICK i \in 1..l : h[i] = g[j]
          BY <2>8, <5>1
        <5>3. i \in 1..m /\ r[i] = h[i]
          BY <2>5, <2>25, <2>26, <5>2
        <5> QED
          BY <2>26, <5>1, <5>2, <5>3
      <4> QED
        BY <2>25, <4>1
    <3> QED
      BY <3>1, <3>2
  <2>28. PageOf(r, k)
    BY <1>5, <1>10, <1>12, <2>21, <2>23, <2>27 DEF PageOf, Has
  <2> QED
    BY <2>19, <2>20, <2>28
<1> QED
  BY <1>11, <1>12

(* What the pages read so far have shown, as long as it did not change.     *)
Paged ==
    /\ counted \in {<<>>, <<Len(CveBlock), Len(BduBlock), Len(LocalBlock)>>}
    /\ page = 1 => shown = <<>>
    /\ page > 1 => /\ Len(shown) = Smaller(Read, Total)
                   /\ shown \in Seq(Hit)
                   /\ asked.sort # "epss" => \A i \in 1..Len(shown) : shown[i] = Result[i]
                   /\ {shown[i] : i \in 1..Len(shown)} = {Result[i] : i \in 1..Len(shown)}

SearchInv == Tables /\ (~changed => Paged)

(* The same, for the first page as for the others.                         *)
Prefix(rows, k) ==
    /\ Len(rows) = Smaller(k, Total)
    /\ rows \in Seq(Hit)
    /\ asked.sort # "epss" => \A i \in 1..Len(rows) : rows[i] = Result[i]
    /\ {rows[i] : i \in 1..Len(rows)} = {Result[i] : i \in 1..Len(rows)}

LEMMA PagedIsPrefix ==
    ASSUME Tables, Paged PROVE Read \in Nat /\ Prefix(shown, Read)
<1>1. page \in Nat \ {0} /\ asked.size \in Nat
  BY SearchAssumption DEF Tables
<1>2. Read \in Nat
  BY <1>1 DEF Read
<1>3. CASE page = 1
  <2>1. Read = 0 /\ shown = <<>> /\ Total \in Nat
    BY <1>1, <1>3, ResultIsWhole DEF Read, Paged
  <2>2. Len(shown) = 0 /\ shown \in Seq(Hit)
    BY <2>1
  <2>3. Len(shown) = Smaller(Read, Total)
    BY <2>1, <2>2 DEF Smaller
  <2>4. 1..Len(shown) = {}
    BY <2>2
  <2>5. {shown[i] : i \in 1..Len(shown)} = {Result[i] : i \in 1..Len(shown)}
    BY <2>4
  <2> QED
    BY <1>2, <2>2, <2>3, <2>4, <2>5 DEF Prefix
<1>4. CASE page # 1
  <2>1. page > 1
    BY <1>1, <1>4
  <2> QED
    BY <1>2, <2>1 DEF Paged, Prefix
<1> QED
  BY <1>3, <1>4

(* A page carries on where those before it ended.                          *)
LEMMA PageFollows ==
    ASSUME Tables, NEW k \in Nat, NEW S, Prefix(S, k), NEW r, PageOf(r, k), k < Total
    PROVE  Prefix(S \o r, k + asked.size)
<1>1. PICK n : n = asked.size
  OBVIOUS
<1>2. n \in Nat
  BY <1>1, SearchAssumption DEF Tables
<1>3. PICK t : t = Total
  OBVIOUS
<1>4. t \in Nat /\ k < t
  BY <1>3, ResultIsWhole
<1>5. PICK X : X = Result
  OBVIOUS
<1>6. PICK m : m = Len(r)
  OBVIOUS
<1>7. /\ S \in Seq(Hit) /\ Len(S) = k
      /\ asked.sort # "epss" => \A i \in 1..k : S[i] = X[i]
      /\ {S[i] : i \in 1..k} = {X[i] : i \in 1..k}
  <2>1. Len(S) = k
    BY <1>3, <1>4 DEF Prefix, Smaller
  <2> QED
    BY <1>5, <2>1 DEF Prefix
<1>8. /\ r \in Seq(Hit) /\ m = Smaller(n, t - k)
      /\ asked.sort # "epss" => \A i \in 1..m : r[i] = X[k + i]
      /\ {r[i] : i \in 1..m} = {X[k + i] : i \in 1..m}
  <2>1. m = Smaller(n, t - k)
    BY <1>1, <1>3, <1>4, <1>6 DEF PageOf
  <2> QED
    BY <1>5, <1>6, <2>1 DEF PageOf
<1>9. m \in Nat /\ k + m = Smaller(k + n, t)
  BY <1>2, <1>4, <1>8 DEF Smaller
<1>10. PICK q : q = S \o r
  OBVIOUS
<1>11. /\ q \in Seq(Hit) /\ Len(q) = k + m
       /\ \A i \in 1..k + m : q[i] = IF i <= k THEN S[i] ELSE r[i - k]
  <2>1. Len(S) = k /\ Len(r) = m
    BY <1>6, <1>7
  <2>2. q \in Seq(Hit) /\ Len(q) = Len(S) + Len(r)
    BY <1>7, <1>8, <1>10, ConcatProperties
  <2>3. \A i \in 1..Len(S) + Len(r) : q[i] = IF i <= Len(S) THEN S[i] ELSE r[i - Len(S)]
    BY <1>7, <1>8, <1>10, ConcatProperties
  <2> QED
    BY <2>1, <2>2, <2>3
<1>12. \A i \in 1..k + m : /\ i <= k => i \in 1..k
                           /\ ~(i <= k) => i - k \in 1..m /\ k + (i - k) = i
  BY <1>9
<1>13. \A i \in 1..k : i \in 1..k + m /\ i <= k
  BY <1>9
<1>14. \A i \in 1..m : k + i \in 1..k + m /\ ~(k + i <= k) /\ (k + i) - k = i
  BY <1>9
<1>15. ASSUME asked.sort # "epss" PROVE \A i \in 1..k + m : q[i] = X[i]
  <2> SUFFICES ASSUME NEW i \in 1..k + m PROVE q[i] = X[i]
    OBVIOUS
  <2>1. CASE i <= k
    BY <1>7, <1>11, <1>12, <1>15, <2>1
  <2>2. CASE ~(i <= k)
    <3>1. PICK j : j = i - k
      OBVIOUS
    <3>2. j \in 1..m /\ k + j = i /\ q[i] = r[j]
      BY <1>11, <1>12, <2>2, <3>1
    <3> QED
      BY <1>8, <1>15, <3>2
  <2> QED
    BY <2>1, <2>2
<1>16. {q[i] : i \in 1..k + m} = {X[i] : i \in 1..k + m}
  <2>1. ASSUME NEW i \in 1..k + m PROVE \E j \in 1..k + m : q[i] = X[j]
    <3>1. CASE i <= k
      <4>1. i \in 1..k /\ q[i] = S[i]
        BY <1>11, <1>12, <3>1
      <4>2. S[i] \in {X[j] : j \in 1..k}
        BY <1>7, <4>1
      <4> QED
        BY <1>13, <4>1, <4>2
    <3>2. CASE ~(i <= k)
      <4>1. i - k \in 1..m /\ q[i] = r[i - k]
        BY <1>11, <1>12, <3>2
      <4>2. r[i - k] \in {X[k + j] : j \in 1..m}
        BY <1>8, <4>1
      <4>3. PICK j \in 1..m : r[i - k] = X[k + j]
        BY <4>2
      <4> QED
        BY <1>14, <4>1, <4>3
    <3> QED
      BY <3>1, <3>2
  <2>2. ASSUME NEW j \in 1..k + m PROVE \E i \in 1..k + m : q[i] = X[j]
    <3>1. CASE j <= k
      <4>1. j \in 1..k
        BY <1>12, <3>1
      <4>2. X[j] \in {S[i] : i \in 1..k}
        BY <1>7, <4>1
      <4>3. PICK i \in 1..k : X[j] = S[i]
        BY <4>2
      <4> QED
        BY <1>11, <1>13, <4>3
    <3>2. CASE ~(j <= k)
      <4>1. j - k \in 1..m /\ k + (j - k) = j
        BY <1>12, <3>2
      <4>2. X[j] \in {X[k + i] : i \in 1..m}
        BY <4>1
      <4>3. X[j] \in {r[i] : i \in 1..m}
        BY <1>8, <4>2
      <4>4. PICK i \in 1..m : X[j] = r[i]
        BY <4>3
      <4>5. k + i \in 1..k + m /\ q[k + i] = r[i]
        BY <1>11, <1>14
      <4> QED
        BY <4>4, <4>5
    <3> QED
      BY <3>1, <3>2
  <2> QED
    BY <2>1, <2>2
<1>17. Prefix(q, k + n)
  BY <1>3, <1>5, <1>9, <1>11, <1>15, <1>16 DEF Prefix
<1> QED
  BY <1>1, <1>10, <1>17

(* The lists of records are sequences of their numbers.                    *)
LEMMA LinesAreSequences == \A s \in Lines : s \in Seq(Nat)
<1> SUFFICES ASSUME NEW n \in Nat, NEW s \in [1..n -> 1..MaxOthers] PROVE s \in Seq(Nat)
  BY SearchAssumption DEF Lines
<1>1. \A i \in 1..n : s[i] \in Nat
  BY SearchAssumption
<1> QED
  BY <1>1

(* The invariant holds before the first page.                              *)
LEMMA SearchInvInit == ASSUME SearchInit PROVE SearchInv
<1>1. Tables
  <2>1. others \in [bdu : Seq(Nat), local : Seq(Nat)]
    BY LinesAreSequences DEF SearchInit
  <2> QED
    BY <2>1, SearchAssumption DEF SearchInit, Tables
<1>2. Paged
  BY DEF SearchInit, Paged
<1> QED
  BY <1>1, <1>2 DEF SearchInv

(* Counting, fetching and writing keep it.                                 *)
LEMMA SearchInvNext ==
    ASSUME SearchInv, [SearchNext]_searchVars PROVE SearchInv'
<1>1. Tables
  BY DEF SearchInv
<1>2. ASSUME UNCHANGED <<cve, others, asked>>
      PROVE  /\ CveBlock' = CveBlock /\ BduBlock' = BduBlock /\ LocalBlock' = LocalBlock
             /\ Total' = Total /\ Result' = Result
  <2>1. Matching' = Matching
    BY <1>2 DEF Matching
  <2>2. CveBlock' = CveBlock
    BY <1>2, <2>1 DEF CveBlock, Arranged, Ordered, SortKey
  <2>3. BduBlock' = BduBlock /\ LocalBlock' = LocalBlock
    BY <1>2 DEF BduBlock, LocalBlock, Others
  <2> QED
    BY <2>2, <2>3 DEF Total, Result
<1>3. ASSUME UNCHANGED <<cve, others, asked, page, changed, shown>>,
             counted' \in {counted, <<Len(CveBlock), Len(BduBlock), Len(LocalBlock)>>}
      PROVE  SearchInv'
  <2>1. Tables'
    BY <1>1, <1>3 DEF Tables
  <2>2. ASSUME Paged PROVE Paged'
    <3>1. Read' = Read
      BY <1>3 DEF Read
    <3>2. counted' \in {<<>>, <<Len(CveBlock'), Len(BduBlock'), Len(LocalBlock')>>}
      BY <1>2, <1>3, <2>2 DEF Paged
    <3>3. page' = 1 => shown' = <<>>
      BY <1>3, <2>2 DEF Paged
    <3>4. page' > 1 =>
             /\ Len(shown') = Smaller(Read', Total')
             /\ shown' \in Seq(Hit)
             /\ asked'.sort # "epss" => \A i \in 1..Len(shown') : shown'[i] = Result'[i]
             /\ {shown'[i] : i \in 1..Len(shown')} = {Result'[i] : i \in 1..Len(shown')}
      <4>1. PICK v : v = shown
        OBVIOUS
      <4>2. PICK k : k = Read
        OBVIOUS
      <4>3. page > 1 => Prefix(v, k)
        BY <2>2, <4>1, <4>2 DEF Paged, Prefix
      <4>4. shown' = v /\ Read' = k /\ page' = page /\ asked' = asked
        BY <1>3, <3>1, <4>1, <4>2
      <4> QED
        BY <1>2, <1>3, <4>3, <4>4 DEF Prefix
    <3> QED
      BY <3>2, <3>3, <3>4 DEF Paged
  <2> QED
    BY <1>3, <2>1, <2>2 DEF SearchInv
<1>4. CASE UNCHANGED searchVars
  BY <1>3, <1>4 DEF searchVars
<1>5. CASE More /\ Count
  BY <1>3, <1>5 DEF Count
<1>6. CASE More /\ Fetch
  <2>1. UNCHANGED <<cve, others, asked, changed>> /\ page' = page + 1 /\ counted' = <<>>
    BY <1>6 DEF Fetch
  <2>2. Tables'
    BY <1>1, <2>1 DEF Tables
  <2>3. ASSUME ~changed PROVE Paged'
    <3>1. Paged
      BY <2>3 DEF SearchInv
    <3>2. Read \in Nat /\ Prefix(shown, Read)
      BY <1>1, <3>1, PagedIsPrefix
    <3>3. counted = <<Len(CveBlock), Len(BduBlock), Len(LocalBlock)>>
      BY <1>6, <3>1 DEF Fetch, Paged
    <3>4. counted[1] = Len(CveBlock) /\ counted[2] = Len(BduBlock) /\ counted[3] = Len(LocalBlock)
      BY <3>3
    <3>5. shown' = shown \o Shows(Read)
      BY <1>6, <3>4 DEF Fetch, Shows, Read
    <3>6. PageOf(Shows(Read), Read)
      BY <1>1, <3>2, PageShows
    <3>7. PICK r : r = Shows(Read)
      OBVIOUS
    <3>8. PICK k : k = Read
      OBVIOUS
    <3>9. k \in Nat /\ Prefix(shown, k) /\ PageOf(r, k) /\ k < Total
      BY <1>6, <3>2, <3>6, <3>7, <3>8 DEF More, Read
    <3>10. Prefix(shown \o r, k + asked.size)
      BY <1>1, <3>9, PageFollows
    <3>11. page \in Nat \ {0} /\ asked.size \in Nat
      BY <1>1, SearchAssumption DEF Tables
    <3>12. Read' = k + asked.size
      <4>1. PICK s : s = asked.size
        OBVIOUS
      <4>2. PICK p : p = page - 1
        OBVIOUS
      <4>3. p \in Nat /\ s \in Nat /\ page' - 1 = p + 1 /\ asked'.size = s /\ k = p * s
        BY <2>1, <3>8, <3>11, <4>1, <4>2 DEF Read
      <4>4. (p + 1) * s = p * s + s
        BY <4>3
      <4> QED
        BY <4>1, <4>3, <4>4 DEF Read
    <3>13. PICK v : v = shown \o r
      OBVIOUS
    <3>14. shown' = v /\ Prefix(v, k + asked.size)
      BY <3>5, <3>7, <3>10, <3>13
    <3>15. page' > 1
      BY <2>1, <3>11
    <3>16. counted' \in {<<>>, <<Len(CveBlock'), Len(BduBlock'), Len(LocalBlock')>>}
      BY <2>1
    <3>17. /\ Len(shown') = Smaller(Read', Total')
           /\ shown' \in Seq(Hit)
           /\ asked'.sort # "epss" => \A i \in 1..Len(shown') : shown'[i] = Result'[i]
           /\ {shown'[i] : i \in 1..Len(shown')} = {Result'[i] : i \in 1..Len(shown')}
      BY <1>2, <2>1, <3>12, <3>14 DEF Prefix
    <3>18. ~(page' = 1)
      BY <2>1, <3>11
    <3> QED
      BY <3>15, <3>17, <3>18, <3>16 DEF Paged
  <2> QED
    BY <2>1, <2>2, <2>3 DEF SearchInv
<1>7. CASE Write
  <2>1. /\ UNCHANGED <<asked, page, counted, shown>>
        /\ changed' = (changed \/ ((page > 1 \/ counted # <<>>) /\ Blocks' # Blocks))
    BY <1>7 DEF Write
  <2>2. Tables'
    <3>1. CASE WriteCve
      <4>1. PICK c \in CveIds, s \in Shapes :
               cve' = [x \in DOMAIN cve \cup {c} |-> IF x = c THEN s ELSE cve[x]]
        BY <3>1 DEF WriteCve
      <4>2. s \in [kev : 0..1, day : Nat, linked : BOOLEAN, epss : Nat]
        BY SearchAssumption
      <4>3. DOMAIN cve' = DOMAIN cve \cup {c} /\ DOMAIN cve' \subseteq CveIds
        BY <1>1, <4>1 DEF Tables
      <4>4. \A x \in DOMAIN cve' : cve'[x] \in [kev : 0..1, day : Nat, linked : BOOLEAN, epss : Nat]
        BY <1>1, <4>1, <4>2, <4>3 DEF Tables
      <4> QED
        BY <1>1, <2>1, <3>1, <4>3, <4>4 DEF Tables, WriteCve
    <3>2. CASE WriteBdu
      <4>1. PICK s \in Lines : others' = [others EXCEPT !.bdu = s]
        BY <3>2 DEF WriteBdu
      <4>2. others' \in [bdu : Seq(Nat), local : Seq(Nat)] /\ UNCHANGED cve
        BY <1>1, <3>2, <4>1, LinesAreSequences DEF Tables, WriteBdu
      <4> QED
        BY <1>1, <2>1, <4>2 DEF Tables
    <3>3. CASE AddLocal
      <4>1. PICK s \in Lines : others' = [others EXCEPT !.local = s]
        BY <3>3 DEF AddLocal
      <4>2. others' \in [bdu : Seq(Nat), local : Seq(Nat)] /\ UNCHANGED cve
        BY <1>1, <3>3, <4>1, LinesAreSequences DEF Tables, AddLocal
      <4> QED
        BY <1>1, <2>1, <4>2 DEF Tables
    <3> QED
      BY <1>7, <3>1, <3>2, <3>3 DEF Write
  <2>3. ASSUME ~changed' PROVE Paged'
    <3>1. ~changed /\ (Blocks' = Blocks \/ (~(page > 1) /\ counted = <<>>))
      BY <2>1, <2>3
    <3>2. Paged
      BY <3>1 DEF SearchInv
    <3>3. CASE ~(page > 1) /\ counted = <<>>
      <4>1. shown = <<>>
        BY <1>1, <3>2, <3>3 DEF Paged, Tables
      <4> QED
        BY <2>1, <3>3, <4>1 DEF Paged
    <3>4. CASE Blocks' = Blocks
      <4>1. Total' = Total /\ Result' = Result /\ Read' = Read
            /\ Len(CveBlock)' = Len(CveBlock) /\ Len(BduBlock)' = Len(BduBlock)
            /\ Len(LocalBlock)' = Len(LocalBlock)
        <5>1. CveBlock' = CveBlock /\ BduBlock' = BduBlock /\ LocalBlock' = LocalBlock
          BY <3>4 DEF Blocks
        <5> QED
          BY <2>1, <5>1 DEF Total, Result, Read
      <4> QED
        BY <2>1, <3>2, <4>1 DEF Paged
    <3> QED
      BY <3>1, <3>3, <3>4
  <2> QED
    BY <2>2, <2>3 DEF SearchInv
<1> QED
  BY <1>4, <1>5, <1>6, <1>7 DEF SearchNext

(* So it always holds.                                                     *)
LEMMA SearchAlways == SearchSpec => []SearchInv
<1>1. SearchInit => SearchInv
  BY SearchInvInit
<1>2. SearchInv /\ [SearchNext]_searchVars => SearchInv'
  BY SearchInvNext
<1> QED
  BY <1>1, <1>2, PTL DEF SearchSpec

(* All pages together hold the result, if it did not change.               *)
LEMMA PagedWhole == ASSUME SearchInv PROVE PagesMakeResult
<1> SUFFICES ASSUME ~changed, ~More
             PROVE  /\ asked.sort = "epss" =>
                          ToSet(shown) = ToSet(Result) /\ Len(shown) = Len(Result)
                    /\ asked.sort # "epss" => shown = Result
  BY DEF PagesMakeResult, Result
<1>1. Tables /\ Paged
  BY DEF SearchInv
<1>2. Read \in Nat /\ Prefix(shown, Read)
  BY <1>1, PagedIsPrefix
<1>3. Result \in Seq(Hit) /\ Total = Len(Result) /\ Total \in Nat
  BY <1>1, ResultIsWhole
<1>4. Len(shown) = Total
  BY <1>2, <1>3 DEF More, Read, Prefix, Smaller
<1>5. shown \in Seq(Hit) /\ DOMAIN shown = 1..Len(Result) /\ DOMAIN Result = 1..Len(Result)
  BY <1>2, <1>3, <1>4 DEF Prefix
<1>6. ToSet(shown) = ToSet(Result)
  <2>1. {shown[i] : i \in 1..Len(shown)} = {Result[i] : i \in 1..Len(shown)}
    BY <1>2 DEF Prefix
  <2>2. ToSet(shown) = {shown[i] : i \in 1..Len(shown)}
    BY <1>3, <1>4, <1>5 DEF ToSet
  <2>3. ToSet(Result) = {Result[i] : i \in 1..Len(shown)}
    BY <1>3, <1>4, <1>5 DEF ToSet
  <2> QED
    BY <2>1, <2>2, <2>3
<1>7. ASSUME asked.sort # "epss" PROVE shown = Result
  <2>1. \A i \in 1..Len(Result) : shown[i] = Result[i]
    BY <1>2, <1>3, <1>4, <1>7 DEF Prefix
  <2> QED
    BY <1>3, <1>4, <1>5, <2>1, SeqEqual
<1> QED
  BY <1>3, <1>4, <1>6, <1>7

(* Paging.  The pages of a search read one after the other are its         *)
(* result, each row once and none missing, however many blocks a page      *)
(* crosses and whatever is written meanwhile, unless a write changes the   *)
(* result (services/search.py, search_vulnerabilities).                    *)
THEOREM PagesAreResult == SearchSpec => []PagesMakeResult
  BY SearchAlways, PagedWhole, PTL
=============================================================================
