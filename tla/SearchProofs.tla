---------------------------- MODULE SearchProofs ----------------------------
(***************************************************************************)
(* The proofs about the search page and the cleanup below it: what offset  *)
(* paging shows while the table changes, which requests are refused, and   *)
(* that cleanup deletes nothing but excess.                                *)
(***************************************************************************)
EXTENDS Search, Integers, TLAPS

-----------------------------------------------------------------------------
(* Offset paging over a set of rows *)

\* created_at tells the rows of S apart.
Apart(S) == \A i, j \in S : CreatedAt[i] = CreatedAt[j] => i = j

NotOlder(S, i) == {j \in S : CreatedAt[j] >= CreatedAt[i]}

Descending(s) == \A a, b \in DOMAIN s : a < b => CreatedAt[s[a]] > CreatedAt[s[b]]

\* The list s shows no row of S twice, and at most n rows of S are as young as its
\* last one, so that the rows of S after the first n are older than the list.
NoRepeat(S, s, n) ==
  Descending(s) /\ (s # <<>> => Cardinality(NotOlder(S, s[Len(s)])) <= n)

\* The list s skips no row of S but those in J: one it does not show is older than
\* all of it, and is not among the first n of S.
NoSkip(S, J, s, n, more) ==
  \A i \in S \ J :
    \/ \E a \in DOMAIN s : s[a] = i
    \/ /\ more /\ Cardinality(NotOlder(S, i)) > n
       /\ \A a \in DOMAIN s : CreatedAt[s[a]] > CreatedAt[i]

LEMMA ListRows ==
  \A s \in Seq(Ids) : \A a \in DOMAIN s : a \in Nat /\ s[a] \in Ids
  OBVIOUS

LEMMA Created == \A i \in Ids : CreatedAt[i] \in Nat
  BY StoreAssumption

\* What is used of the number of rows in a set.  The lemmas below assume it, the
\* invariant carries it along, and RowsAreCounted derives it.
Sized(S) ==
  /\ Cardinality(S) \in Nat /\ (Cardinality(S) = 0 => S = {})
  /\ \A T \in SUBSET S : /\ Cardinality(T) <= Cardinality(S)
                         /\ Cardinality(S \ T) = Cardinality(S) - Cardinality(T)

Listed(S, n, f) ==
  (\A a, b \in 1 .. n : f[a] = f[b] => a = b)
    => (Cardinality(S) = n <=> \A i \in S : \E a \in 1 .. n : f[a] = i)

Counting ==
  \A S \in SUBSET Ids : Sized(S) /\ \A n \in Nat : \A f \in [1 .. n -> S] : Listed(S, n, f)

LEMMA FiniteRows ==
  ASSUME Counting, NEW S \in SUBSET Ids
  PROVE  /\ Cardinality(S) \in Nat
         /\ \A T \in SUBSET S : Cardinality(T) \in Nat /\ Cardinality(T) <= Cardinality(S)
<1>1. Sized(S) /\ \A T \in SUBSET S : Sized(T)
  BY Zenon DEF Counting
<1>2. ASSUME NEW T \in SUBSET S PROVE Cardinality(T) \in Nat /\ Cardinality(T) <= Cardinality(S)
  BY Zenon, <1>1 DEF Sized
<1> QED BY Zenon, <1>1, <1>2 DEF Sized

LEMMA Enumerated ==
  ASSUME Counting, NEW S \in SUBSET Ids, NEW n \in Nat, NEW f \in [1 .. n -> S],
         \A a, b \in 1 .. n : f[a] = f[b] => a = b
  PROVE  Cardinality(S) = n <=> \A i \in S : \E a \in 1 .. n : f[a] = i
<1>1. Listed(S, n, f)
  BY Zenon DEF Counting
<1> QED BY Zenon, <1>1 DEF Listed

\* The p-th of the sorted rows is as young as exactly p of them.
LEMMA Rank ==
  ASSUME Counting, NEW S \in SUBSET Ids, Apart(S), NEW q \in Sorted(S)
  PROVE  /\ q \in Seq(S) /\ Len(q) = Cardinality(S) /\ Len(q) \in Nat
         /\ DOMAIN q = 1 .. Len(q) /\ Descending(q)
         /\ \A p \in 1 .. Len(q) : q[p] \in S /\ Cardinality(NotOlder(S, q[p])) = p
         /\ \A i \in S : \E p \in 1 .. Len(q) : q[p] = i
<1> DEFINE n == Cardinality(S)
<1>1. n \in Nat
  BY FiniteRows
<1>2. /\ q \in [1 .. n -> S]
      /\ \A a, b \in 1 .. n : a < b => q[a] # q[b] /\ ~Younger(q[b], q[a])
  BY DEF Sorted
<1> HIDE DEF n
<1>3. q \in Seq(S) /\ Len(q) = n /\ DOMAIN q = 1 .. n
  <2>1. q \in Seq(S)
    BY <1>1, <1>2
  <2>2. DOMAIN q = 1 .. Len(q) /\ Len(q) \in Nat
    BY <2>1
  <2>3. DOMAIN q = 1 .. n
    BY <1>2
  <2>4. ASSUME NEW a \in Nat, NEW b \in Nat, 1 .. a = 1 .. b PROVE a <= b
    <3>1. a = 0 \/ a \in 1 .. b
      BY <2>4
    <3> QED BY <3>1
  <2> DEFINE k == Len(q)
  <2>5. k \in Nat /\ 1 .. k = 1 .. n
    BY <2>2, <2>3
  <2> HIDE DEF k
  <2>6. k <= n /\ n <= k
    BY <2>4, <2>5, <1>1
  <2>7. k = n
    BY <2>5, <2>6, <1>1
  <2> QED BY <2>1, <2>3, <2>7 DEF k
<1>4. \A a \in 1 .. n : q[a] \in S /\ CreatedAt[q[a]] \in Nat
  BY <1>2, Created
<1>5. \A a, b \in 1 .. n : a < b => CreatedAt[q[a]] > CreatedAt[q[b]]
  <2> SUFFICES ASSUME NEW a \in 1 .. n, NEW b \in 1 .. n, a < b
               PROVE  CreatedAt[q[a]] > CreatedAt[q[b]]
    OBVIOUS
  <2>1. q[a] # q[b] /\ ~(CreatedAt[q[b]] > CreatedAt[q[a]])
    BY <1>2 DEF Younger
  <2>2. CreatedAt[q[a]] # CreatedAt[q[b]]
    BY <2>1, <1>4 DEF Apart
  <2> QED BY <2>1, <2>2, <1>4
<1>6. \A i \in S : \E p \in 1 .. n : q[p] = i
  <2>1. \A a, b \in 1 .. n : q[a] = q[b] => a = b
    BY <1>1, <1>2
  <2>2. Cardinality(S) = n <=> \A i \in S : \E p \in 1 .. n : q[p] = i
    BY <2>1, <1>1, <1>2, Enumerated
  <2> QED BY <2>2 DEF n
<1>7. ASSUME NEW p \in 1 .. n PROVE Cardinality(NotOlder(S, q[p])) = p
  <2> DEFINE T == NotOlder(S, q[p])
             f == [a \in 1 .. p |-> q[a]]
  <2>1. \A a \in 1 .. p : a \in 1 .. n /\ f[a] = q[a]
    BY <1>1
  <2>2. f \in [1 .. p -> T]
    <3>1. ASSUME NEW a \in 1 .. p PROVE q[a] \in T
      BY <2>1, <1>1, <1>4, <1>5 DEF NotOlder
    <3> QED BY <3>1
  <2>3. \A a, b \in 1 .. p : f[a] = f[b] => a = b
    BY <2>1, <1>1, <1>2
  <2>4. \A i \in T : \E a \in 1 .. p : f[a] = i
    <3> SUFFICES ASSUME NEW i \in T PROVE \E a \in 1 .. p : f[a] = i
      OBVIOUS
    <3>1. i \in S /\ CreatedAt[i] >= CreatedAt[q[p]]
      BY DEF NotOlder
    <3>2. PICK a \in 1 .. n : q[a] = i
      BY <3>1, <1>6
    <3>3. a \in 1 .. p
      BY <3>1, <3>2, <1>1, <1>4, <1>5
    <3> QED BY <3>2, <3>3, <2>1
  <2> HIDE DEF T, f
  <2>5. T \in SUBSET Ids /\ p \in Nat
    BY <1>1 DEF T, NotOlder
  <2>6. Cardinality(T) = p
    BY Zenon, <2>2, <2>3, <2>4, <2>5, Enumerated
  <2> QED BY <2>6 DEF T
<1> QED BY <1>1, <1>3, <1>4, <1>5, <1>6, <1>7 DEF n, Descending

\* A page of the sorted rows q.
LEMMA PageOf ==
  ASSUME NEW S \in SUBSET Ids, NEW q \in Seq(S), NEW r, r.offset \in Nat, r.limit = PageLimit
  PROVE  LET v == Found(r, q)
             o == r.offset
         IN  /\ v \in Responses /\ v.code = 200
             /\ v.more <=> Len(q) > o + PageLimit
             /\ \A a \in DOMAIN v.events :
                  /\ a \in Nat /\ 1 <= a /\ a <= PageLimit /\ o + a \in 1 .. Len(q)
                  /\ v.events[a] = q[o + a]
             /\ \A p \in 1 .. Len(q) : o < p /\ p <= o + PageLimit => p - o \in DOMAIN v.events
<1> DEFINE o == r.offset
           n == Len(q)
           m == Least(n, o + PageLimit + 1)
           found == SubSeq(q, o + 1, m)
           k == Least(Len(found), PageLimit)
           events == SubSeq(found, 1, k)
<1>1. /\ n \in Nat /\ o \in Nat /\ PageLimit \in Nat /\ PageLimit > 0
      /\ \A i \in 1 .. n : q[i] \in S
  BY SearchAssumption
<1>2. Found(r, q) = [code |-> 200, more |-> Len(found) > PageLimit, events |-> events]
  BY <1>1 DEF Found
<1>3. m \in Nat /\ m <= n /\ m <= o + PageLimit + 1 /\ (m = n \/ m = o + PageLimit + 1)
  BY <1>1 DEF Least
<1>4. /\ found \in Seq(S) /\ Len(found) = (IF o + 1 <= m THEN m - (o + 1) + 1 ELSE 0)
      /\ \A i \in 1 .. m - (o + 1) + 1 : found[i] = q[o + 1 + i - 1]
  <2>1. \A i \in (o + 1) .. m : q[i] \in S
    BY <1>1, <1>3
  <2>2. o + 1 \in Int /\ m \in Int
    BY <1>1, <1>3
  <2> HIDE DEF o, m
  <2> QED BY <2>1, <2>2
<1> HIDE DEF found, m, n, o
<1>5. Len(found) \in Nat /\ Len(found) = (IF o < m THEN m - o ELSE 0)
  BY <1>1, <1>3, <1>4
<1>6. ASSUME NEW i \in 1 .. Len(found)
      PROVE  found[i] = q[o + i] /\ o + i \in 1 .. n /\ found[i] \in S
  <2>1. o < m /\ i \in 1 .. m - (o + 1) + 1 /\ o + i \in 1 .. n /\ o + 1 + i - 1 = o + i
    BY <1>1, <1>3, <1>5
  <2> QED BY <2>1, <1>1, <1>4
<1>7. k \in Nat /\ k <= Len(found) /\ k <= PageLimit /\ (k = Len(found) \/ k = PageLimit)
  BY <1>1, <1>5 DEF Least
<1>8. /\ events \in Seq(S) /\ Len(events) = k /\ \A i \in 1 .. k : events[i] = found[i]
  <2>1. \A i \in 1 .. k : found[i] \in S
    BY <1>5, <1>6, <1>7
  <2>2. 1 \in Int /\ k \in Int
    BY <1>7
  <2> HIDE DEF k
  <2>3. /\ events \in Seq(S) /\ Len(events) = (IF 1 <= k THEN k - 1 + 1 ELSE 0)
        /\ \A i \in 1 .. k - 1 + 1 : events[i] = found[1 + i - 1]
    BY <2>1, <2>2
  <2> QED BY <2>3, <1>7
<1>9. DOMAIN events = 1 .. k
  BY <1>8
<1> HIDE DEF events, k
<1>10. events \in Seq(Ids)
  BY <1>8
<1>11. Found(r, q) \in Responses
  BY <1>2, <1>10 DEF Responses
<1>12. Len(found) > PageLimit <=> n > o + PageLimit
  BY <1>1, <1>3, <1>5
<1>13. ASSUME NEW a \in DOMAIN events
       PROVE  /\ a \in Nat /\ 1 <= a /\ a <= PageLimit /\ o + a \in 1 .. n
              /\ events[a] = q[o + a]
  BY <1>1, <1>5, <1>6, <1>7, <1>8, <1>9
<1>14. ASSUME NEW p \in 1 .. n, o < p, p <= o + PageLimit PROVE p - o \in DOMAIN events
  BY <1>1, <1>3, <1>5, <1>7, <1>9, <1>14
<1> DEFINE v == Found(r, q)
<1>15. v.code = 200 /\ v.more = (Len(found) > PageLimit) /\ v.events = events
  BY <1>2
<1> HIDE DEF v
<1>16. /\ v \in Responses /\ v.code = 200 /\ (v.more <=> n > o + PageLimit)
       /\ \A a \in DOMAIN v.events :
            /\ a \in Nat /\ 1 <= a /\ a <= PageLimit /\ o + a \in 1 .. n
            /\ v.events[a] = q[o + a]
       /\ \A p \in 1 .. n : o < p /\ p <= o + PageLimit => p - o \in DOMAIN v.events
  <2>1. v \in Responses
    BY <1>11 DEF v
  <2>2. v.more <=> n > o + PageLimit
    BY Zenon, <1>12, <1>15
  <2> QED BY <2>1, <2>2, <1>13, <1>14, <1>15
<1> QED BY <1>16 DEF v, n, o

\* A list keeps showing no row twice while rows only cease to match.
LEMMA Shrink ==
  ASSUME Counting, NEW S \in SUBSET Ids, NEW T \in SUBSET S, NEW s, NEW n \in Nat, NoRepeat(S, s, n)
  PROVE  NoRepeat(T, s, n)
<1> SUFFICES ASSUME s # <<>> PROVE Cardinality(NotOlder(T, s[Len(s)])) <= n
  BY DEF NoRepeat
<1> DEFINE i == s[Len(s)]
           A == NotOlder(S, i)
           B == NotOlder(T, i)
<1>1. A \in SUBSET Ids /\ B \in SUBSET A
  BY DEF NotOlder
<1>2. Cardinality(A) <= n
  BY DEF NoRepeat
<1> HIDE DEF A, B
<1>3. Cardinality(A) \in Nat /\ Cardinality(B) \in Nat /\ Cardinality(B) <= Cardinality(A)
  BY <1>1, FiniteRows
<1>4. Cardinality(B) <= n
  BY <1>2, <1>3
<1> QED BY <1>4 DEF B

\* A list keeps skipping no row while rows only begin to match.
LEMMA Grow ==
  ASSUME Counting, NEW T \in SUBSET Ids, NEW S \in SUBSET T, NEW J, NEW K, T \ K \subseteq S \ J,
         NEW s, NEW n \in Nat, NEW more, NoSkip(S, J, s, n, more)
  PROVE  NoSkip(T, K, s, n, more)
<1> SUFFICES ASSUME NEW i \in T \ K, ~ \E a \in DOMAIN s : s[a] = i
             PROVE  /\ more /\ Cardinality(NotOlder(T, i)) > n
                    /\ \A a \in DOMAIN s : CreatedAt[s[a]] > CreatedAt[i]
  BY DEF NoSkip
<1> DEFINE A == NotOlder(S, i)
           B == NotOlder(T, i)
<1>1. B \in SUBSET Ids /\ A \in SUBSET B
  BY DEF NotOlder
<1>2. /\ more /\ Cardinality(A) > n
      /\ \A a \in DOMAIN s : CreatedAt[s[a]] > CreatedAt[i]
  BY DEF NoSkip
<1> HIDE DEF A, B
<1>3. Cardinality(A) \in Nat /\ Cardinality(B) \in Nat /\ Cardinality(A) <= Cardinality(B)
  BY <1>1, FiniteRows
<1>4. Cardinality(B) > n
  BY <1>2, <1>3
<1> QED BY <1>2, <1>4 DEF B

\* Before the first page.
LEMMA NoPage ==
  ASSUME Counting, NEW S \in SUBSET Ids, NEW J
  PROVE  NoRepeat(S, <<>>, 0) /\ NoSkip(S, J, <<>>, 0, TRUE)
<1>1. NoRepeat(S, <<>>, 0)
  BY DEF NoRepeat, Descending
<1>2. ASSUME NEW i \in S PROVE Cardinality(NotOlder(S, i)) > 0
  <2>1. NotOlder(S, i) \in SUBSET Ids /\ i \in NotOlder(S, i)
    BY Created DEF NotOlder
  <2>2. Cardinality(NotOlder(S, i)) \in Nat /\ Cardinality(NotOlder(S, i)) # 0
    <3>1. Sized(NotOlder(S, i))
      BY Zenon, <2>1 DEF Counting
    <3> QED BY Zenon, <3>1, <2>1 DEF Sized
  <2> QED BY <2>2
<1> QED BY <1>1, <1>2 DEF NoSkip

\* The page that begins after the first b rows continues a list that has no row of S
\* twice and skips none.
LEMMA NextPage ==
  ASSUME Counting, NEW S \in SUBSET Ids, Apart(S), NEW J, NEW q \in Sorted(S), NEW s \in Seq(Ids),
         NEW more, NEW r, r.offset \in Nat, r.limit = PageLimit
  PROVE  LET v == Found(r, q)
             b == r.offset
         IN  /\ NoRepeat(S, s, b) => NoRepeat(S, s \o v.events, b + PageLimit)
             /\ NoSkip(S, J, s, b, more) => NoSkip(S, J, s \o v.events, b + PageLimit, v.more)
<1> DEFINE v == Found(r, q)
           b == r.offset
           t == v.events
           c == s \o t
           k == Len(s)
           l == Len(t)
           n == Len(q)
<1>1. /\ q \in Seq(S) /\ n \in Nat /\ Descending(q) /\ DOMAIN q = 1 .. n
      /\ \A p \in 1 .. n : q[p] \in S /\ Cardinality(NotOlder(S, q[p])) = p
      /\ \A i \in S : \E p \in 1 .. n : q[p] = i
  BY Rank
<1>2. /\ v \in Responses
      /\ v.more <=> n > b + PageLimit
      /\ \A a \in DOMAIN t :
           /\ a \in Nat /\ 1 <= a /\ a <= PageLimit /\ b + a \in 1 .. n /\ t[a] = q[b + a]
      /\ \A p \in 1 .. n : b < p /\ p <= b + PageLimit => p - b \in DOMAIN t
  BY <1>1, PageOf
<1>3. b \in Nat /\ PageLimit \in Nat /\ t \in Seq(Ids)
  BY <1>2, SearchAssumption DEF Responses
<1> HIDE DEF v, b
<1>4. k \in Nat /\ l \in Nat /\ DOMAIN s = 1 .. k /\ DOMAIN t = 1 .. l
  BY <1>3
<1> HIDE DEF t
<1>5. /\ c \in Seq(Ids) /\ Len(c) = k + l
      /\ \A a \in 1 .. k : c[a] = s[a]
      /\ \A a \in 1 .. l : c[k + a] = t[a]
  <2>1. /\ c \in Seq(Ids) /\ Len(c) = Len(s) + Len(t)
        /\ \A i \in 1 .. Len(s) + Len(t) : c[i] = IF i <= Len(s) THEN s[i] ELSE t[i - Len(s)]
    BY <1>3
  <2> HIDE DEF c
  <2>2. ASSUME NEW a \in 1 .. k PROVE c[a] = s[a]
    BY <2>1, <1>4
  <2>3. ASSUME NEW a \in 1 .. l PROVE c[k + a] = t[a]
    <3>1. k + a \in 1 .. k + l /\ ~(k + a <= k) /\ k + a - k = a
      BY <1>4
    <3> HIDE DEF k, l
    <3> QED BY <2>1, <3>1 DEF k, l
  <2> QED BY <2>1, <2>2, <2>3
<1>6. DOMAIN c = 1 .. k + l
  BY <1>5
<1> HIDE DEF c, k, l, n
<1>7. ASSUME NEW a \in DOMAIN c
      PROVE  \/ a \in 1 .. k /\ c[a] = s[a]
             \/ a - k \in 1 .. l /\ c[a] = t[a - k]
  <2>1. a \in 1 .. k \/ a - k \in 1 .. l
    BY <1>4, <1>6
  <2>2. a - k \in 1 .. l => k + (a - k) = a
    BY <1>4, <1>6
  <2> QED BY <2>1, <2>2, <1>5
<1>8. \A a \in 1 .. k : s[a] \in Ids /\ CreatedAt[s[a]] \in Nat
  BY <1>4, Created
<1>9. \A p \in 1 .. n : CreatedAt[q[p]] \in Nat
  BY <1>1, Created
<1>10. ASSUME NoRepeat(S, s, b) PROVE NoRepeat(S, c, b + PageLimit)
  <2>1. ASSUME NEW a \in 1 .. k, NEW p \in 1 .. n, b < p
        PROVE  CreatedAt[s[a]] > CreatedAt[q[p]]
    <3> DEFINE A == NotOlder(S, s[k])
               B == NotOlder(S, q[p])
    <3>1. k \in 1 .. k /\ s # <<>>
      BY <1>4
    <3>2. Cardinality(A) <= b /\ Cardinality(B) = p
      BY <1>10, <3>1, <1>1 DEF NoRepeat, k
    <3>3. A \in SUBSET Ids /\ B \in SUBSET Ids
      BY DEF NotOlder
    <3>4. CreatedAt[s[k]] <= CreatedAt[q[p]] => B \in SUBSET A
      <4>1. \A j \in S : CreatedAt[j] \in Nat
        BY Created
      <4> QED BY <4>1, <3>1, <1>8, <1>9 DEF NotOlder
    <3> HIDE DEF A, B
    <3>5. Cardinality(A) \in Nat /\ ~(B \in SUBSET A)
      BY <3>2, <3>3, <2>1, <1>3, FiniteRows
    <3>6. CreatedAt[s[k]] > CreatedAt[q[p]]
      BY <3>1, <3>4, <3>5, <1>8, <1>9
    <3>7. a = k \/ CreatedAt[s[a]] > CreatedAt[s[k]]
      BY <1>10, <1>4, <3>1 DEF NoRepeat, Descending
    <3> QED BY <3>1, <3>6, <3>7, <1>8, <1>9
  <2>2. Descending(c)
    <3> SUFFICES ASSUME NEW x \in DOMAIN c, NEW y \in DOMAIN c, x < y
                 PROVE  CreatedAt[c[x]] > CreatedAt[c[y]]
      BY DEF Descending
    <3>1. CASE x \in 1 .. k /\ y \in 1 .. k
      <4>1. c[x] = s[x] /\ c[y] = s[y]
        BY <3>1, <1>5
      <4> QED BY <4>1, <3>1, <1>4, <1>10 DEF NoRepeat, Descending
    <3>2. CASE x \in 1 .. k /\ y - k \in 1 .. l /\ c[y] = t[y - k]
      <4>1. b + (y - k) \in 1 .. n /\ c[y] = q[b + (y - k)] /\ b < b + (y - k)
        BY <3>2, <1>2, <1>3, <1>4
      <4>2. c[x] = s[x]
        BY <3>2, <1>5
      <4> QED BY Zenon, <4>1, <4>2, <3>2, <2>1
    <3>3. CASE /\ x - k \in 1 .. l /\ c[x] = t[x - k]
               /\ y - k \in 1 .. l /\ c[y] = t[y - k]
      <4> DEFINE i == b + (x - k)
                 j == b + (y - k)
      <4>1. i \in 1 .. n /\ j \in 1 .. n /\ c[x] = q[i] /\ c[y] = q[j]
        BY <3>3, <1>2, <1>4
      <4>2. i < j
        BY <1>3, <1>4, <1>6
      <4> HIDE DEF i, j
      <4> QED BY <4>1, <4>2, <1>1 DEF Descending
    <3>4. ~(x - k \in 1 .. l /\ y \in 1 .. k)
      BY <1>4, <1>6
    <3> QED BY <3>1, <3>2, <3>3, <3>4, <1>7
  <2>3. ASSUME c # <<>> PROVE Cardinality(NotOlder(S, c[Len(c)])) <= b + PageLimit
    <3>1. CASE l = 0
      <4>1. Len(c) = k
        BY <3>1, <1>4, <1>5
      <4>2. k # 0
        BY <4>1, <2>3, <1>5
      <4>3. k \in 1 .. k /\ s # <<>>
        BY <4>2, <1>4
      <4>4. c[Len(c)] = s[k]
        BY <4>1, <4>3, <1>5
      <4> DEFINE A == NotOlder(S, s[k])
      <4>5. A \in SUBSET Ids /\ Cardinality(A) <= b
        BY <4>3, <1>10 DEF NoRepeat, NotOlder, k
      <4> HIDE DEF A
      <4>6. Cardinality(A) <= b + PageLimit
        BY <4>5, <1>3, FiniteRows
      <4> QED BY <4>4, <4>6 DEF A
    <3>2. CASE l # 0
      <4>1. l \in 1 .. l
        BY <3>2, <1>4
      <4>2. c[Len(c)] = t[l]
        BY <4>1, <1>5
      <4>3. l <= PageLimit /\ b + l \in 1 .. n /\ t[l] = q[b + l]
        BY <4>1, <1>2, <1>4
      <4>4. Cardinality(NotOlder(S, q[b + l])) = b + l
        BY <4>3, <1>1
      <4>5. b + l <= b + PageLimit
        BY <4>3, <1>3, <1>4
      <4> QED BY <4>2, <4>3, <4>4, <4>5
    <3> QED BY <3>1, <3>2
  <2> QED BY <2>2, <2>3 DEF NoRepeat
<1>11. ASSUME NoSkip(S, J, s, b, more) PROVE NoSkip(S, J, c, b + PageLimit, v.more)
  <2> SUFFICES ASSUME NEW i \in S \ J, ~ \E a \in DOMAIN c : c[a] = i
               PROVE  /\ v.more /\ Cardinality(NotOlder(S, i)) > b + PageLimit
                      /\ \A a \in DOMAIN c : CreatedAt[c[a]] > CreatedAt[i]
    BY DEF NoSkip
  <2>1. PICK p \in 1 .. n : q[p] = i
    BY <1>1
  <2>2. \A a \in 1 .. k : a \in DOMAIN c
    BY <1>4, <1>6
  <2>3. ~ \E a \in DOMAIN s : s[a] = i
    BY <2>2, <1>4, <1>5
  <2>4. /\ Cardinality(NotOlder(S, i)) > b
        /\ \A a \in DOMAIN s : CreatedAt[s[a]] > CreatedAt[i]
    BY <1>11, <2>3 DEF NoSkip
  <2>5. Cardinality(NotOlder(S, i)) = p /\ b < p
    BY <2>1, <2>4, <1>1
  <2>6. ~(p <= b + PageLimit)
    <3> SUFFICES ASSUME p <= b + PageLimit PROVE FALSE
      OBVIOUS
    <3>1. p - b \in 1 .. l
      BY <2>5, <1>2, <1>4
    <3>2. t[p - b] = q[b + (p - b)] /\ b + (p - b) = p
      BY <3>1, <1>1, <1>2, <1>3, <1>4
    <3>3. k + (p - b) \in DOMAIN c
      BY <3>1, <1>4, <1>6
    <3> QED BY <3>1, <3>2, <3>3, <2>1, <1>5
  <2>7. v.more /\ Cardinality(NotOlder(S, i)) > b + PageLimit
    BY <2>1, <2>5, <2>6, <1>1, <1>2, <1>3
  <2>8. ASSUME NEW a \in DOMAIN c PROVE CreatedAt[c[a]] > CreatedAt[i]
    <3>1. CASE a \in 1 .. k /\ c[a] = s[a]
      BY <3>1, <2>4, <1>4
    <3>2. CASE a - k \in 1 .. l /\ c[a] = t[a - k]
      <4> DEFINE x == b + (a - k)
      <4>1. x \in 1 .. n /\ c[a] = q[x] /\ a - k <= PageLimit
        BY <3>2, <1>2, <1>4
      <4>2. x < p
        BY <4>1, <3>2, <2>6, <1>1, <1>3, <1>4
      <4> HIDE DEF x
      <4> QED BY <4>1, <4>2, <2>1, <1>1 DEF Descending
    <3> QED BY <3>1, <3>2, <1>7
  <2> QED BY <2>7, <2>8
<1> QED BY <1>10, <1>11 DEF c, t, v, b

-----------------------------------------------------------------------------
(* The table and its cleanup *)

Cells == Row \cup {Unborn, Deleted}

\* Between the count and the eviction rows are only added, so the excess that was
\* counted is still in excess of MaxRows when it is evicted.
StoreInv ==
  /\ StoreTypeOK /\ rows \in [Ids -> Cells]
  /\ cleaning = "evict" => excess + MaxRows <= Cardinality(Present)

WriteStep ==
  /\ \E i \in Ids : InsertRow(i) \/ ClaimRow(i) \/ RecordRow(i)
  /\ UNCHANGED <<horizon, cleaning, excess, faults>>

StoreStep ==
  \/ WriteStep
  \/ CleanupStep
  \/ Age
  \/ UNCHANGED store /\ (UNCHANGED faults \/ Fault)

\* What a deleting statement removes.
Purged == {i \in Present : ReceivedAt[i] < horizon}

\* A writer adds rows or changes them.
LEMMA WritesRows ==
  ASSUME rows \in [Ids -> Cells], NEW i \in Ids, InsertRow(i) \/ ClaimRow(i) \/ RecordRow(i)
  PROVE  /\ rows' \in [Ids -> Cells] /\ rows'[i] \in Row
         /\ \A j \in Ids : j # i => rows'[j] = rows[j]
<1>1. CASE InsertRow(i)
  <2>1. Inserted \in Row
    BY DEF Inserted, Row, Statuses
  <2> QED BY <1>1, <2>1 DEF InsertRow, Cells
<1>2. ASSUME i \in Present PROVE rows[i] \in Row
  BY <1>2 DEF Present, Cells
<1>3. CASE ClaimRow(i)
  <2>1. rows[i] \in Row
    BY <1>2, <1>3 DEF ClaimRow
  <2>2. PICK s \in Statuses : rows' = [rows EXCEPT ![i] = [rows[i] EXCEPT !.status = s]]
    BY <1>3 DEF ClaimRow, Statuses
  <2>3. [rows[i] EXCEPT !.status = s] \in Row
    BY <2>1 DEF Row
  <2> QED BY <2>2, <2>3 DEF Cells
<1>4. CASE RecordRow(i)
  <2>1. rows[i] \in Row
    BY <1>2, <1>4 DEF RecordRow
  <2>2. PICK code \in Codes : rows' = [rows EXCEPT ![i] = Recorded(rows[i], code)]
    BY Zenon, <1>4 DEF RecordRow
  <2>3. Recorded(rows[i], code) \in Row
    BY <2>1 DEF Recorded, Row, Statuses
  <2> QED BY <2>2, <2>3 DEF Cells
<1> QED BY <1>1, <1>3, <1>4

\* A writer leaves the rows of the table in it.
LEMMA WritesKeep ==
  ASSUME rows \in [Ids -> Cells], WriteStep
  PROVE  /\ rows' \in [Ids -> Cells] /\ Present \subseteq Present'
         /\ \A j \in Ids : rows'[j] = Unborn => rows[j] = Unborn
<1>1. PICK i \in Ids : InsertRow(i) \/ ClaimRow(i) \/ RecordRow(i)
  BY DEF WriteStep
<1>2. /\ rows' \in [Ids -> Cells] /\ rows'[i] \in Row
      /\ \A j \in Ids : j # i => rows'[j] = rows[j]
  BY <1>1, WritesRows
<1>3. rows'[i] \notin {Unborn, Deleted}
  BY <1>2, StoreMarkers
<1> QED BY <1>2, <1>3 DEF Present

\* A deleting statement leaves the other rows.
LEMMA DeletesRows ==
  ASSUME rows \in [Ids -> Cells], NEW S, S \subseteq Present, Delete(S)
  PROVE  /\ rows' \in [Ids -> Cells] /\ Present' = Present \ S
         /\ \A j \in Ids : rows'[j] = Unborn => rows[j] = Unborn
         /\ \A j \in Ids : rows[j] # Deleted /\ rows'[j] = Deleted => j \in S
<1>1. rows' = [j \in Ids |-> IF j \in S THEN Deleted ELSE rows[j]]
  BY DEF Delete
<1> QED BY <1>1, StoreMarkers DEF Cells, Present

\* A step of the table is a write, a deletion or leaves the rows alone.
LEMMA Deletions ==
  ASSUME StoreStep
  PROVE  \/ WriteStep
         \/ UNCHANGED rows
         \/ cleaning = "purge" /\ Delete(Purged)
         \/ cleaning = "evict" /\ \E S \in First(Present, excess, ReceivedBefore) : Delete(S)
  BY DEF StoreStep, CleanupStep, Age, PurgeAge, CountRows, Evict, CleanupFails, Purged, store

\* The rows of the table stay rows, and none is unborn again.
LEMMA StoreRows ==
  ASSUME StoreInv, StoreStep
  PROVE  /\ rows' \in [Ids -> Cells]
         /\ \A j \in Ids : rows'[j] = Unborn => rows[j] = Unborn
<1>1. rows \in [Ids -> Cells] /\ Purged \subseteq Present
  BY DEF StoreInv, Purged
<1>2. ASSUME NEW S \in First(Present, excess, ReceivedBefore) PROVE S \subseteq Present
  BY <1>2 DEF First
<1> QED BY <1>1, <1>2, Deletions, WritesKeep, DeletesRows

LEMMA PresentRows ==
  ASSUME Counting
  PROVE  Present \in SUBSET Ids /\ Cardinality(Present) \in Nat
<1>1. Present \in SUBSET Ids
  BY DEF Present
<1> QED BY <1>1, FiniteRows

LEMMA StoreInvInit == StoreInit => StoreInv
  BY DEF StoreInit, StoreInv, StoreTypeOK, Cells

LEMMA StoreInvNext == Counting /\ StoreInv /\ StoreStep => StoreInv'
<1> SUFFICES ASSUME Counting, StoreInv, StoreStep PROVE StoreInv'
  OBVIOUS
<1>1. rows' \in [Ids -> Cells] /\ \A i \in Ids : rows'[i] \in Row \/ rows'[i] \in {Unborn, Deleted}
  BY StoreRows DEF Cells
<1>2. StoreTypeOK
  BY DEF StoreInv
<1>3. CASE WriteStep
  <2>1. UNCHANGED <<horizon, cleaning, excess, faults>>
    BY <1>3 DEF WriteStep
  <2>2. StoreTypeOK'
    BY <2>1, <1>1, <1>2 DEF StoreTypeOK
  <2>3. Present \subseteq Present' /\ Present' \in SUBSET Ids
    BY <1>3, WritesKeep DEF StoreInv, Present
  <2> DEFINE k == Cardinality(Present)
             n == Cardinality(Present')
  <2>4. k \in Nat /\ n \in Nat /\ k <= n
    BY <2>3, FiniteRows
  <2>5. cleaning = "evict" => excess + MaxRows <= k
    BY DEF StoreInv
  <2>6. excess \in Nat /\ MaxRows \in Nat
    BY <1>2, StoreAssumption DEF StoreTypeOK
  <2> HIDE DEF k, n
  <2>7. cleaning' = "evict" => excess' + MaxRows <= n
    BY <2>1, <2>4, <2>5, <2>6
  <2> QED BY <2>2, <2>7, <1>1 DEF StoreInv, n
<1>4. CASE PurgeAge
  BY <1>1, <1>2, <1>4 DEF PurgeAge, StoreInv, StoreTypeOK
<1>5. CASE CountRows
  <2>1. UNCHANGED rows /\ Present' = Present
    BY <1>5 DEF CountRows, Present
  <2> DEFINE n == Cardinality(Present)
  <2>2. n \in Nat /\ MaxRows \in Nat
    BY PresentRows, StoreAssumption
  <2>3. /\ UNCHANGED <<horizon, faults>>
        /\ \/ cleaning' = "purge" /\ UNCHANGED excess
           \/ ~(n <= MaxRows) /\ cleaning' = "evict" /\ excess' = n - MaxRows
    BY <1>5 DEF CountRows
  <2> HIDE DEF n
  <2>4. /\ excess' \in Nat
        /\ cleaning' = "evict" => excess' > 0 /\ excess' + MaxRows <= n
    BY <2>2, <2>3, <1>2 DEF StoreTypeOK
  <2>5. StoreTypeOK'
    BY <2>3, <2>4, <1>1, <1>2 DEF StoreTypeOK
  <2> QED BY <2>1, <2>4, <2>5, <1>1 DEF StoreInv, n
<1>6. CASE Evict
  BY <1>1, <1>2, <1>6 DEF Evict, StoreInv, StoreTypeOK
<1>7. CASE CleanupFails
  BY <1>1, <1>2, <1>7 DEF CleanupFails, Fault, StoreInv, StoreTypeOK
<1>8. CASE Age
  <2>1. Present' = Present /\ UNCHANGED <<rows, cleaning, excess, faults>> /\ horizon' \in Nat
    BY <1>8, StoreAssumption DEF Age, Present
  <2> QED BY <2>1, <1>1, <1>2 DEF StoreInv, StoreTypeOK
<1>9. CASE UNCHANGED store /\ (UNCHANGED faults \/ Fault)
  <2>1. Present' = Present /\ UNCHANGED <<rows, horizon, cleaning, excess>> /\ faults' \in Nat
    BY <1>9, <1>2 DEF store, Present, Fault, StoreTypeOK
  <2> QED BY <2>1, <1>1, <1>2 DEF StoreInv, StoreTypeOK
<1> QED BY <1>3, <1>4, <1>5, <1>6, <1>7, <1>8, <1>9 DEF StoreStep, CleanupStep

\* What cleanup may delete, as in DeletesOnlyExcess.
OnlyExcess ==
  \A i \in Ids :
    /\ rows[i] \notin {Unborn, Deleted} /\ rows'[i] = Deleted
    /\ ReceivedAt[i] >= horizon
    => Cardinality({j \in Ids : /\ rows'[j] \notin {Unborn, Deleted}
                                /\ ReceivedAt[j] >= ReceivedAt[i]}) >= MaxRows

LEMMA EvictsExcess == Counting /\ StoreInv /\ StoreStep => OnlyExcess
<1> SUFFICES ASSUME Counting, StoreInv, StoreStep, NEW i \in Ids,
                    rows[i] \notin {Unborn, Deleted}, rows'[i] = Deleted,
                    ReceivedAt[i] >= horizon
             PROVE  Cardinality({j \in Ids : /\ rows'[j] \notin {Unborn, Deleted}
                                             /\ ReceivedAt[j] >= ReceivedAt[i]}) >= MaxRows
  BY DEF OnlyExcess
<1>0. \A a, b \in Ids : ReceivedBefore(a, b) <=> ReceivedAt[a] < ReceivedAt[b]
  BY DEF ReceivedBefore
<1>1. rows \in [Ids -> Cells] /\ Purged \subseteq Present
  BY DEF StoreInv, Purged
<1>2. ~WriteStep
  <2> SUFFICES ASSUME WriteStep PROVE FALSE
    OBVIOUS
  <2>1. i \in Present /\ i \notin Present'
    BY DEF Present
  <2> QED BY <2>1, <1>1, WritesKeep
<1>3. ~UNCHANGED rows
  OBVIOUS
<1>4. ReceivedAt[i] \in Nat /\ horizon \in Nat
  BY StoreAssumption DEF StoreInv, StoreTypeOK
<1>5. ~Delete(Purged)
  <2> SUFFICES ASSUME Delete(Purged) PROVE FALSE
    OBVIOUS
  <2>1. i \in Purged
    BY <1>1, DeletesRows
  <2> QED BY <2>1, <1>4 DEF Purged
<1>6. PICK S \in First(Present, excess, ReceivedBefore) : cleaning = "evict" /\ Delete(S)
  BY <1>2, <1>3, <1>5, Deletions
<1> DEFINE n == Cardinality(Present)
           k == Cardinality(S)
           A == {j \in Ids : rows'[j] \notin {Unborn, Deleted} /\ ReceivedAt[j] >= ReceivedAt[i]}
<1>7. /\ S \subseteq Present /\ k = IF n < excess THEN n ELSE excess
      /\ \A s \in S, j \in Present \ S : ~ReceivedBefore(j, s)
  BY DEF First
<1>8. Present' = Present \ S /\ i \in S
  BY <1>1, <1>6, <1>7, DeletesRows
<1>9. Present \ S \in SUBSET A
  <2> SUFFICES ASSUME NEW j \in Present \ S PROVE j \in A
    OBVIOUS
  <2>1. j \in Ids /\ rows'[j] \notin {Unborn, Deleted}
    BY <1>8 DEF Present
  <2>2. ~(ReceivedAt[j] < ReceivedAt[i]) /\ ReceivedAt[j] \in Nat
    BY <2>1, <1>0, <1>7, <1>8, StoreAssumption
  <2> QED BY <2>1, <2>2, <1>4
<1>10. A \in SUBSET Ids
  OBVIOUS
<1> HIDE DEF A
<1>11. /\ n \in Nat /\ k \in Nat /\ Cardinality(A) \in Nat
       /\ Cardinality(Present \ S) = n - k /\ Cardinality(Present \ S) <= Cardinality(A)
  <2>1. k \in Nat
    BY <1>7, PresentRows, FiniteRows
  <2>3. Cardinality(Present \ S) = n - k
    <3>1. Sized(Present)
      BY Zenon, PresentRows DEF Counting
    <3> QED BY Zenon, <3>1, <1>7 DEF Sized
  <2>4. Cardinality(Present \ S) <= Cardinality(A) /\ Cardinality(A) \in Nat
    BY <1>9, <1>10, FiniteRows
  <2> QED BY <2>1, <2>3, <2>4, PresentRows
<1>12. excess \in Nat /\ MaxRows \in Nat /\ excess + MaxRows <= n
  BY <1>6, StoreAssumption DEF StoreInv, StoreTypeOK
<1> HIDE DEF n, k
<1>13. Cardinality(A) >= MaxRows
  BY <1>7, <1>11, <1>12
<1> QED BY <1>13 DEF A

-----------------------------------------------------------------------------
(* The page *)

\* A page number is a multiple of the page size.
LEMMA Multiples ==
  ASSUME NEW o \in Nat, o % PageLimit = 0
  PROVE  (o + PageLimit) % PageLimit = 0
<1> DEFINE P == PageLimit
<1>1. P \in Nat \ {0}
  BY SearchAssumption
<1>2. PICK n \in Nat : o = P * n
  <2>1. ASSUME NEW a \in Nat, NEW Q \in Nat \ {0}, a % Q = 0
        PROVE  a = Q * (a \div Q) /\ a \div Q \in Nat
    BY <2>1
  <2>2. o % P = 0
    OBVIOUS
  <2> HIDE DEF P
  <2> QED BY Zenon, <2>1, <2>2, <1>1
<1>3. ASSUME NEW m \in Nat, NEW Q \in Nat \ {0} PROVE (m * Q) % Q = 0
  BY SMTT(30)
<1> HIDE DEF P
<1>4. o + P = (n + 1) * P /\ n + 1 \in Nat
  BY <1>1, <1>2
<1>5. (o + P) % P = 0
  BY Zenon, <1>1, <1>3, <1>4
<1> QED BY <1>5 DEF P

\* What the page accepts before it sends a request.
AcceptedBy(t, f) ==
  IF t = "lookup" THEN PageAcceptsLookup(f) ELSE PageAcceptsFilter(f)

Types == {"lookup", "filter"}

Whole(o) == o \in Nat /\ o % PageLimit = 0

\* The state of the page.
PageTypes ==
  /\ form \in Forms /\ inputs \in Nat
  /\ shown \in Seq(Ids) /\ Whole(offset) /\ hasMore \in BOOLEAN
  /\ lastSearchType \in Types \cup {None}
  /\ joined \subseteq Ids /\ left \in BOOLEAN /\ mixed \in BOOLEAN

\* The requests in flight: those for a first page carry the button's type and what
\* the page has accepted.
CallTypes ==
  /\ request \in [Kinds -> Requests \cup {None}]
  /\ response \in [Kinds -> Responses \cup {None}]
  /\ watch \in Requests \cup {None}
  /\ \A k \in Kinds : response[k] # None => request[k] # None
  /\ \A k \in Kinds : request[k] # None => Whole(request[k].offset)
  /\ \A k \in Types : request[k] # None =>
       request[k].type = k /\ request[k].offset = 0 /\ AcceptedBy(k, request[k].f)
  /\ lastSearchType = None => watch = None /\ \A k \in Kinds : request[k] = None

TypeInv == Counting /\ StoreInv /\ PageTypes /\ CallTypes

LEMMA Names ==
  /\ Kinds = Types \cup {"more"} /\ "more" \notin Types /\ "lookup" \in Types /\ "filter" \in Types
  /\ "lookup" # "filter"
  /\ None \notin Kinds /\ None \notin Types /\ None \notin Requests /\ None \notin Responses
  BY SearchNone DEF Kinds, Types

\* A field of a request.
LEMMA RequestFields ==
  ASSUME NEW r \in Requests
  PROVE  r.f \in Forms /\ r.type \in Types /\ r.offset \in Nat /\ r.limit = PageLimit
  BY DEF Requests, Types

LEMMA PayloadFields ==
  \A f, t, o : /\ Payload(f, t, o).f = f /\ Payload(f, t, o).type = t
               /\ Payload(f, t, o).offset = o
  BY DEF Payload

LEMMA Payloads ==
  ASSUME NEW f \in Forms, NEW t \in Types, NEW o, Whole(o)
  PROVE  /\ Payload(f, t, o) \in Requests /\ Payload(f, t, o) # None
         /\ Payload(f, t, o).f = f /\ Payload(f, t, o).type = t /\ Payload(f, t, o).offset = o
  BY Names DEF Payload, Requests, Types, Whole

LEMMA WholeOffsets ==
  ASSUME NEW o, Whole(o)
  PROVE  Whole(0) /\ Whole(o + PageLimit)
<1>1. Whole(o + PageLimit)
  <2>1. o \in Nat /\ o % PageLimit = 0
    BY DEF Whole
  <2>2. (o + PageLimit) % PageLimit = 0
    BY <2>1, Multiples
  <2>3. PageLimit \in Nat
    BY SearchAssumption
  <2>4. o + PageLimit \in Nat
    BY <2>1, <2>3
  <2> QED BY <2>2, <2>4 DEF Whole
<1>2. ASSUME NEW Q \in Nat \ {0} PROVE 0 % Q = 0
  OBVIOUS
<1>3. Whole(0)
  BY <1>2, SearchAssumption DEF Whole
<1> QED BY <1>1, <1>3

\* What matches is in the table.
LEMMA MatchingRows ==
  ASSUME NEW r
  PROVE  Matching(r) \in SUBSET Ids /\ Matching(r) \subseteq Present
  BY DEF Matching, Present

LEMMA SortedRows ==
  ASSUME Counting, NEW S \in SUBSET Ids, NEW q \in Sorted(S)
  PROVE  q \in Seq(S)
<1>1. Cardinality(S) \in Nat /\ q \in [1 .. Cardinality(S) -> S]
  BY FiniteRows DEF Sorted
<1> QED BY <1>1

LEMMA RefusedTypes ==
  ASSUME NEW c \in {400, 500}
  PROVE  Refused(c) \in Responses /\ Refused(c).code = c /\ Refused(c) # None
<1>1. <<>> \in Seq(Ids)
  OBVIOUS
<1> DEFINE e == <<>>
<1>2. Refused(c) = [code |-> c, more |-> FALSE, events |-> e] /\ e \in Seq(Ids)
  BY <1>1 DEF Refused
<1> HIDE DEF e
<1>3. Refused(c) \in Responses /\ Refused(c).code = c
  BY <1>2 DEF Responses
<1> QED BY <1>3, Names

\* The server's answers.
LEMMA AnswerTypes ==
  ASSUME Counting, NEW r \in Requests, NEW a \in Answers(r)
  PROVE  /\ a \in Responses /\ a # None /\ a.code \in {200, 400}
         /\ a.code = 400 => ~Validate(r)
         /\ a.code = 200 => \E q \in Sorted(Matching(r)) : a = Found(r, q)
<1>1. CASE Validate(r)
  <2>1. PICK q \in Sorted(Matching(r)) : a = Found(r, q)
    BY <1>1 DEF Answers
  <2>2. Found(r, q) \in Responses /\ Found(r, q).code = 200
    BY RequestFields, MatchingRows, SortedRows, PageOf
  <2> QED BY <2>1, <2>2, Names
<1>2. CASE ~Validate(r)
  <2>1. a = Refused(400)
    BY <1>2 DEF Answers
  <2> QED BY <2>1, <1>2, RefusedTypes
<1> QED BY <1>1, <1>2

\* Only what Validate refuses is refused.
Answered(r, a) == a.code # 500 /\ (a.code = 400 => ~Validate(r))

LEMMA AnswerCodes ==
  ASSUME Counting, NEW r \in Requests, NEW a \in Answers(r)
  PROVE  Answered(r, a)
  BY AnswerTypes DEF Answered

\* The user presses one of the two buttons.
Press(k) == request[k] = None /\ AcceptedBy(k, form) /\ Submit(k)

\* The table changes.
TableStep == (WriteStep \/ CleanupStep \/ Age) /\ Track

LEMMA Steps ==
  ASSUME [Next]_vars
  PROVE  \/ \E f \in Forms : Edit(f)
         \/ \E k \in Types : Press(k)
         \/ loadMore
         \/ \E k \in Kinds : Serve(k) \/ ServeFails(k) \/ Resolve(k)
         \/ TableStep
         \/ UNCHANGED vars
<1>1. CASE handleLookup
  BY <1>1, Names DEF handleLookup, Press, AcceptedBy
<1>2. CASE handleFilter
  BY <1>2, Names DEF handleFilter, Press, AcceptedBy
<1>3. CASE Write \/ Clean
  BY <1>3 DEF Write, Clean, TableStep, WriteStep
<1> QED BY <1>1, <1>2, <1>3 DEF Next

\* What a step does to the table.
LEMMA StoreSteps == [Next]_vars => StoreStep
<1> SUFFICES ASSUME [Next]_vars PROVE StoreStep
  OBVIOUS
<1> USE DEF StoreStep
<1>1. ASSUME NEW f \in Forms, Edit(f) PROVE StoreStep
  BY <1>1 DEF Edit
<1>2. ASSUME NEW k \in Types, Press(k) PROVE StoreStep
  BY <1>2 DEF Press, Submit
<1>3. CASE loadMore
  BY <1>3 DEF loadMore
<1>4. ASSUME NEW k \in Kinds, Serve(k) \/ ServeFails(k) \/ Resolve(k) PROVE StoreStep
  BY <1>4 DEF Serve, ServeFails, Resolve
<1>5. CASE TableStep
  BY <1>5 DEF TableStep
<1>6. CASE UNCHANGED vars
  BY <1>6 DEF vars
<1> QED BY <1>1, <1>2, <1>3, <1>4, <1>5, <1>6, Steps

LEMMA TypeInvIsTypeOK == TypeInv => TypeOK
<1> SUFFICES ASSUME TypeInv PROVE TypeOK
  OBVIOUS
<1>1. StoreTypeOK
  BY DEF TypeInv, StoreInv
<1>2. /\ form \in Forms /\ inputs \in Nat
      /\ shown \in Seq(Ids)
      /\ offset % PageLimit = 0 /\ hasMore \in BOOLEAN
      /\ lastSearchType \in {"lookup", "filter", None}
      /\ joined \subseteq Ids /\ left \in BOOLEAN /\ mixed \in BOOLEAN
  BY DEF TypeInv, PageTypes, Whole, Types
<1>3. /\ \A k \in Kinds : request[k] # None => request[k] \in Requests
      /\ \A k \in Kinds : response[k] # None => request[k] # None /\ response[k] \in Responses
  BY DEF TypeInv, CallTypes
<1> QED BY <1>1, <1>2, <1>3 DEF TypeOK

LEMMA TypeInvNext == TypeInv /\ [Next]_vars => TypeInv'
<1> SUFFICES ASSUME TypeInv, [Next]_vars PROVE TypeInv'
  OBVIOUS
<1> Counting /\ StoreInv /\ PageTypes /\ CallTypes
  BY DEF TypeInv
<1>a. Counting'
  BY Zenon DEF Counting, Sized, Listed
<1>b. StoreInv'
  BY StoreSteps, StoreInvNext
<1>c. ASSUME PageTypes', CallTypes' PROVE TypeInv'
  BY <1>a, <1>b, <1>c DEF TypeInv
<1>d. ASSUME UNCHANGED <<calls, watch, lastSearchType>> PROVE CallTypes'
  BY <1>d DEF CallTypes, calls
<1>1. ASSUME NEW f \in Forms, Edit(f) PROVE TypeInv'
  <2>1. CallTypes'
    BY <1>1, <1>d DEF Edit, page
  <2>2. PageTypes'
    BY <1>1 DEF Edit, Input, page, PageTypes
  <2> QED BY <2>1, <2>2, <1>c
<1>2. ASSUME NEW k \in Types, Press(k) PROVE TypeInv'
  <2> DEFINE r == Payload(form, k, 0)
  <2>0. form \in Forms /\ Whole(0) /\ offset \in Nat /\ AcceptedBy(k, form)
    BY <1>2, WholeOffsets DEF PageTypes, Whole, Press
  <2>1. r \in Requests /\ r # None /\ r.f = form /\ r.type = k /\ r.offset = 0
    BY <2>0, Payloads
  <2> HIDE DEF r
  <2>2. /\ request' = [request EXCEPT ![k] = r] /\ lastSearchType' = k /\ k # None
        /\ UNCHANGED <<response, watch>>
    BY <1>2, Names DEF Press, Submit, r
  <2>3. request' \in [Kinds -> Requests \cup {None}]
    BY ZenonT(30), <2>1, <2>2 DEF CallTypes
  <2>4. \A l \in Kinds : request'[l] = IF l = k THEN r ELSE request[l]
    BY <2>2 DEF CallTypes
  <2>5. k \in Kinds
    BY Names
  <2>6. CallTypes'
    BY <2>0, <2>1, <2>2, <2>3, <2>4, <2>5, Names DEF CallTypes
  <2>7. PageTypes'
    BY <2>0, <1>2 DEF Press, Submit, Input, PageTypes
  <2> QED BY <2>6, <2>7, <1>c
<1>3. CASE loadMore
  <2> DEFINE r == Payload(form, lastSearchType, offset + PageLimit)
  <2>0. form \in Forms /\ Whole(offset + PageLimit) /\ lastSearchType \in Types
    BY <1>3, WholeOffsets DEF PageTypes, loadMore
  <2>1. r \in Requests /\ r # None /\ r.offset = offset + PageLimit
    BY <2>0, Payloads
  <2> HIDE DEF r
  <2>2. /\ request' = [request EXCEPT !["more"] = r] /\ UNCHANGED <<response, watch, page>>
        /\ lastSearchType' # None
    BY <1>3 DEF loadMore, r, page
  <2>3. request' \in [Kinds -> Requests \cup {None}]
    BY ZenonT(30), <2>1, <2>2 DEF CallTypes
  <2>4. \A l \in Kinds : request'[l] = IF l = "more" THEN r ELSE request[l]
    BY <2>2 DEF CallTypes
  <2>5. CallTypes'
    BY <2>0, <2>1, <2>2, <2>3, <2>4, Names DEF CallTypes
  <2>6. PageTypes'
    BY <1>3 DEF loadMore, user, page, PageTypes
  <2> QED BY <2>5, <2>6, <1>c
<1>4. ASSUME NEW k \in Kinds, Serve(k) PROVE TypeInv'
  <2>1. request[k] # None /\ request[k] \in Requests /\ lastSearchType # None
    BY <1>4 DEF Serve, Outstanding, CallTypes
  <2>2. PICK a \in Answers(request[k]) : response' = [response EXCEPT ![k] = a]
    BY ZenonT(30), <1>4 DEF Serve
  <2>3. a \in Responses /\ a # None
    BY <2>1, AnswerTypes
  <2>4. /\ UNCHANGED <<request, page>> /\ watch' \in {watch, request[k]}
    BY <1>4 DEF Serve
  <2>5. response' \in [Kinds -> Responses \cup {None}]
    BY <2>2, <2>3 DEF CallTypes
  <2>6. \A l \in Kinds : response'[l] # None => l = k \/ response[l] # None
    BY <2>2 DEF CallTypes
  <2>7. CallTypes'
    BY <2>1, <2>4, <2>5, <2>6 DEF CallTypes, page
  <2>8. PageTypes'
    BY Zenon, <1>4 DEF Serve, user, page, PageTypes
  <2> QED BY <2>7, <2>8, <1>c
<1>5. ASSUME NEW k \in Kinds, ServeFails(k) PROVE TypeInv'
  <2> DEFINE a == Refused(500)
  <2>1. request[k] # None
    BY <1>5 DEF ServeFails, Outstanding
  <2>2. a \in Responses
    BY RefusedTypes
  <2> HIDE DEF a
  <2>3. response' = [response EXCEPT ![k] = a] /\ UNCHANGED <<request, page, watch>>
    BY <1>5 DEF ServeFails, history, a
  <2>4. response' \in [Kinds -> Responses \cup {None}]
    BY <2>2, <2>3 DEF CallTypes
  <2>5. \A l \in Kinds : response'[l] # None => l = k \/ response[l] # None
    BY <2>3 DEF CallTypes
  <2>6. CallTypes'
    BY <2>1, <2>3, <2>4, <2>5 DEF CallTypes, page
  <2>7. PageTypes'
    BY <1>5 DEF ServeFails, user, page, history, PageTypes
  <2> QED BY <2>6, <2>7, <1>c
<1>6. ASSUME NEW k \in Kinds, Resolve(k) PROVE TypeInv'
  <2>1. /\ request[k] \in Requests /\ response[k] \in Responses /\ Whole(request[k].offset)
        /\ lastSearchType # None
    BY <1>6 DEF Resolve, CallTypes
  <2>2. /\ request' = [request EXCEPT ![k] = None] /\ response' = [response EXCEPT ![k] = None]
        /\ UNCHANGED watch
    BY <1>6 DEF Resolve, Done
  <2>3. UNCHANGED lastSearchType
    BY <1>6 DEF Resolve, ShowMore, ShowFirst, page
  <2>4. /\ request' \in [Kinds -> Requests \cup {None}]
        /\ response' \in [Kinds -> Responses \cup {None}]
    BY <2>2 DEF CallTypes
  <2>5. \A l \in Kinds : /\ request'[l] = IF l = k THEN None ELSE request[l]
                         /\ response'[l] = IF l = k THEN None ELSE response[l]
    BY <2>2 DEF CallTypes
  <2>6. CallTypes'
    BY ZenonT(30), <2>1, <2>2, <2>3, <2>4, <2>5, Names DEF CallTypes
  <2>7. UNCHANGED <<form, inputs, joined, left>>
    BY <1>6 DEF Resolve, user
  <2>8. response[k].events \in Seq(Ids) /\ response[k].more \in BOOLEAN
    BY <2>1 DEF Responses
  <2>9. shown' \in Seq(Ids) /\ Whole(offset') /\ hasMore' \in BOOLEAN /\ mixed' \in BOOLEAN
    <3>1. CASE k = "more"
      <4>1. ShowMore
        BY <3>1, <1>6 DEF Resolve
      <4>2. \A s, e \in Seq(Ids) : s \o e \in Seq(Ids)
        OBVIOUS
      <4>3. shown \o response["more"].events \in Seq(Ids)
        BY ZenonT(30), <4>2, <3>1, <2>8 DEF PageTypes
      <4> QED BY ZenonT(30), <3>1, <4>1, <4>3, <2>1, <2>8 DEF ShowMore, page, PageTypes
    <3>2. CASE k # "more"
      <4>1. \/ /\ shown' = response[k].events /\ hasMore' = response[k].more
               /\ UNCHANGED <<offset, mixed>>
            \/ mixed' = TRUE /\ UNCHANGED <<shown, offset, hasMore>>
        BY <3>2, <1>6 DEF Resolve, ShowFirst, page
      <4> QED BY ZenonT(30), <4>1, <2>8 DEF PageTypes
    <3> QED BY <3>1, <3>2
  <2>10. PageTypes'
    BY <2>3, <2>7, <2>9 DEF PageTypes
  <2> QED BY <2>6, <2>10, <1>c
<1>7. CASE TableStep
  <2>1. UNCHANGED <<user, page, calls, watch, mixed>>
    BY <1>7 DEF TableStep, Track
  <2>2. joined' \subseteq Ids /\ left' \in BOOLEAN
    <3>1. CASE watch = None
      BY <3>1, <1>7 DEF TableStep, Track, PageTypes
    <3>2. CASE watch # None
      <4>1. /\ joined' = joined \cup (Matching(watch)' \ Matching(watch))
            /\ left' = (left \/ Matching(watch) \ Matching(watch)' # {})
        BY <3>2, <1>7 DEF TableStep, Track
      <4>2. Matching(watch)' \subseteq Ids
        BY DEF Matching, Present
      <4> QED BY <4>1, <4>2 DEF PageTypes
    <3> QED BY <3>1, <3>2
  <2>3. CallTypes'
    BY <2>1, <1>d DEF page
  <2>4. PageTypes'
    BY <2>1, <2>2 DEF PageTypes, user, page
  <2> QED BY <2>3, <2>4, <1>c
<1>8. CASE UNCHANGED vars
  <2>1. CallTypes'
    BY <1>8, <1>d DEF vars, page, history
  <2>2. PageTypes'
    BY <1>8 DEF vars, user, page, history, PageTypes
  <2> QED BY <2>1, <2>2, <1>c
<1> QED BY <1>1, <1>2, <1>3, <1>4, <1>5, <1>6, <1>7, <1>8, Steps

-----------------------------------------------------------------------------
(* One search at a time *)

\* At most one request is in flight.
Lone == \A k, l \in Kinds : request[k] # None /\ request[l] # None => k = l

\* The page's state is that of one search of type t with the form as it stands:
\* everything in flight belongs to it, and once its first page has been read that
\* is the request the table is watched for.
Own(t) ==
  /\ AcceptedBy(t, form)
  /\ \A k \in Types : request[k] # None => k = t
  /\ request[t] # None => request[t] = Payload(form, t, 0) /\ offset = 0
  /\ response[t] # None /\ response[t].code = 200 => watch = request[t]
  /\ request[t] = None => watch = Payload(form, t, 0)
  /\ request["more"] # None => request["more"] = Payload(form, t, offset + PageLimit)

Flow == ~mixed => Lone /\ (lastSearchType # None => Own(lastSearchType))

\* What a caller of executeSearch resets when its answer has arrived.
LEMMA Resets ==
  ASSUME TypeInv, NEW k \in Kinds, Done(k)
  PROVE  \A l \in Kinds : /\ request'[l] = IF l = k THEN None ELSE request[l]
                          /\ response'[l] = IF l = k THEN None ELSE response[l]
  BY DEF TypeInv, CallTypes, Done

LEMMA FlowInit == Init => Flow
  BY DEF Init, Flow, Lone

LEMMA FlowNext == TypeInv /\ Flow /\ [Next]_vars => Flow'
<1> SUFFICES ASSUME TypeInv, Flow, [Next]_vars, ~mixed'
             PROVE  Lone' /\ (lastSearchType' # None => Own(lastSearchType)')
  BY DEF Flow
<1> DEFINE t == lastSearchType
<1> Counting /\ PageTypes /\ CallTypes
  BY DEF TypeInv
<1>b. ASSUME ~mixed PROVE Lone /\ (t # None => Own(t) /\ t \in Types)
  BY <1>b DEF Flow, PageTypes
<1>c. \A k \in Kinds : request[k] # None => t # None
  BY DEF CallTypes
<1>d. \A k \in Kinds : response[k] # None => request[k] # None
  BY DEF CallTypes
<1>e. Types \subseteq Kinds /\ "more" \in Kinds /\ "more" \notin Types /\ None \notin Types
  BY Names
<1>1. ASSUME NEW f \in Forms, Edit(f) PROVE Lone' /\ lastSearchType' = None
  <2>1. ~mixed /\ t = None /\ UNCHANGED <<request, lastSearchType>>
    BY Zenon, <1>1 DEF Edit, calls, page
  <2> QED BY <2>1, <1>b DEF Lone
<1>2. ASSUME NEW k \in Types, Press(k) PROVE Lone' /\ Own(lastSearchType)'
  <2>1. /\ AcceptedBy(k, form) /\ form' = form /\ offset' = 0 /\ lastSearchType' = k
        /\ request' = [request EXCEPT ![k] = Payload(form, k, 0)]
        /\ UNCHANGED response
        /\ \A l \in Kinds : request[l] = None
    BY <1>2 DEF Press, Submit
  <2>2. form \in Forms /\ Whole(0)
    BY WholeOffsets DEF PageTypes
  <2>3. Payload(form, k, 0) # None
    BY <2>2, Payloads
  <2>4. /\ request'[k] = Payload(form, k, 0) /\ response'[k] = None
        /\ \A l \in Kinds : l # k => request'[l] = None
    BY <2>1, <1>d, <1>e DEF CallTypes
  <2>5. Lone'
    BY <2>4 DEF Lone
  <2>6. Own(k)'
    <3>1. AcceptedBy(k, form)'
      BY <2>1
    <3>2. request'["more"] = None /\ \A l \in Types : request'[l] # None => l = k
      BY <2>4, <1>e
    <3> QED BY <3>1, <3>2, <2>1, <2>3, <2>4 DEF Own
  <2> QED BY ZenonT(30), <2>1, <2>5, <2>6 DEF Own
<1>3. CASE loadMore
  <2>1. /\ ~mixed /\ t # None /\ \A l \in Kinds : request[l] = None
        /\ request' = [request EXCEPT !["more"] = Payload(form, t, offset + PageLimit)]
        /\ UNCHANGED <<response, form, offset, lastSearchType, watch>>
    BY ZenonT(30), <1>3 DEF loadMore, page, user
  <2>2. Own(t) /\ t \in Types
    BY <2>1, <1>b
  <2>3. /\ request'["more"] = Payload(form, t, offset + PageLimit)
        /\ \A l \in Types : request'[l] = None /\ response'[l] = None
    BY <2>1, <1>d, <1>e DEF CallTypes
  <2>4. Lone'
    BY <2>3, Names DEF Lone
  <2>5. AcceptedBy(t, form) /\ watch = Payload(form, t, 0)
    BY ZenonT(30), <2>1, <2>2, <1>e DEF Own
  <2>6. Own(t)'
    BY ZenonT(30), <2>1, <2>2, <2>3, <2>5, <1>e DEF Own, AcceptedBy
  <2> QED BY ZenonT(30), <2>1, <2>4, <2>6 DEF Own
<1>4. ASSUME NEW k \in Kinds, Serve(k) \/ ServeFails(k) PROVE Lone' /\ Own(lastSearchType)'
  <2>1. /\ request[k] # None /\ UNCHANGED <<request, form, offset, lastSearchType, mixed>>
        /\ \E a : response' = [response EXCEPT ![k] = a]
    BY <1>4 DEF Serve, ServeFails, Outstanding, user, page, history
  <2>2. ~mixed /\ t # None /\ Lone /\ Own(t) /\ t \in Types
    BY <2>1, <1>b, <1>c
  <2>3. \A l \in Kinds : l # k => response'[l] = response[l]
    BY <2>1 DEF CallTypes
  <2>4. Lone'
    BY <2>1, <2>2 DEF Lone
  <2>5. response'[t] # None /\ response'[t].code = 200 => watch' = request'[t]
    <3>1. CASE k # t
      BY <3>1, <2>1, <2>2, <2>3, <1>d, <1>e DEF Lone
    <3>2. CASE k = t /\ Serve(k)
      <4>1. watch' = request[k]
        BY Zenon, <3>2, <2>2, <1>e DEF Serve
      <4> QED BY <4>1, <3>2, <2>1
    <3>3. CASE k = t /\ ServeFails(k)
      <4>1. response'[t] = Refused(500)
        BY <3>3 DEF ServeFails, CallTypes
      <4> QED BY <4>1, RefusedTypes
    <3> QED BY <3>1, <3>2, <3>3, <1>4
  <2>6. request'[t] = None => watch' = Payload(form, t, 0)
    <3> SUFFICES ASSUME request[t] = None PROVE watch' = Payload(form, t, 0)
      BY <2>1
    <3>1. k = "more"
      BY <2>1, <2>2, Names DEF Own
    <3> QED BY Zenon, <3>1, <2>2, <1>4 DEF Own, Serve, ServeFails, history
  <2>7. Own(t)'
    BY ZenonT(30), <2>1, <2>2, <2>5, <2>6 DEF Own, AcceptedBy
  <2> QED BY ZenonT(30), <2>1, <2>4, <2>7 DEF Own
<1>5. ASSUME NEW k \in Kinds, Resolve(k) PROVE Lone' /\ Own(lastSearchType)'
  <2>1. /\ response[k] # None /\ request[k] # None /\ UNCHANGED <<form, watch, lastSearchType>>
        /\ Done(k)
    BY ZenonT(30), <1>5, <1>d DEF Resolve, ShowMore, ShowFirst, user, page
  <2>2. \A l \in Kinds : /\ request'[l] = IF l = k THEN None ELSE request[l]
                         /\ response'[l] = IF l = k THEN None ELSE response[l]
    BY ZenonT(30), <2>1, Resets
  <2>3. ~mixed
    BY Zenon, <1>5 DEF Resolve, ShowMore, ShowFirst
  <2>4. Lone /\ Own(t) /\ t \in Types
    BY <2>1, <2>3, <1>b, <1>c
  <2>5. \A l \in Kinds : request'[l] = None /\ response'[l] = None
    BY <2>1, <2>2, <2>4, <1>d DEF Lone
  <2>6. watch = Payload(form, t, 0)
    <3>1. CASE k = "more"
      <4>1. request[t] = None
        BY <3>1, <2>1, <2>4, <1>e DEF Lone
      <4> QED BY <4>1, <2>4 DEF Own
    <3>2. CASE k # "more"
      <4>1. k = t
        BY ZenonT(30), <3>2, <2>1, <2>4, Names DEF Own
      <4>2. response[k].code = 200
        BY ZenonT(30), <3>2, <1>5 DEF Resolve, ShowFirst
      <4> QED BY <4>1, <4>2, <2>1, <2>4 DEF Own
    <3> QED BY <3>1, <3>2
  <2>7. Lone'
    BY <2>5 DEF Lone
  <2>8. Own(t)'
    BY ZenonT(30), <2>1, <2>4, <2>5, <2>6, <1>e DEF Own, AcceptedBy
  <2> QED BY ZenonT(30), <2>1, <2>7, <2>8 DEF Own
<1>6. CASE TableStep \/ UNCHANGED vars
  <2>1. UNCHANGED <<form, offset, lastSearchType, request, response, watch, mixed>>
    BY <1>6 DEF TableStep, Track, vars, user, page, calls, history
  <2>2. Lone'
    BY <2>1, <1>b DEF Lone
  <2>3. t # None => Own(t)'
    BY ZenonT(30), <2>1, <1>b DEF Own, AcceptedBy
  <2> QED BY ZenonT(30), <2>1, <2>2, <2>3 DEF Own
<1> QED BY <1>1, <1>2, <1>3, <1>4, <1>5, <1>6, Steps

-----------------------------------------------------------------------------
(* The two validations *)

\* Search refuses what the page accepts only if the time range is empty.
LEMMA Agreement ==
  ASSUME NEW r \in Requests, AcceptedBy(r.type, r.f), ~Validate(r)
  PROVE  r.f.from # None /\ r.f.from = r.f.to
<1>1. r.f \in Forms /\ r.type \in {"lookup", "filter"}
  BY RequestFields DEF Types
<1>2. r.f.from \in Nat \cup {None} /\ r.f.to \in Nat \cup {None}
  BY <1>1, SearchAssumption
<1>3. CASE r.type = "lookup"
  BY <1>3 DEF AcceptedBy, Validate, PageAcceptsLookup, validateLookup, quickLookupActive
<1>4. CASE r.type = "filter"
  <2>1. PageAcceptsFilter(r.f) /\ ~validateFilter(r.f)
    BY <1>4 DEF AcceptedBy, Validate
  <2>2. r.f.from # None /\ ~(r.f.from < r.f.to) /\ ~(r.f.to < r.f.from) /\ r.f.to # None
    BY <2>1 DEF PageAcceptsFilter, validateFilter
  <2> QED BY <2>2, <1>2
<1> QED BY <1>1, <1>3, <1>4

LEMMA AnsweredNext == TypeInv /\ Flow /\ AnsweredUnlessFault /\ [Next]_vars => AnsweredUnlessFault'
<1> SUFFICES ASSUME TypeInv, Flow, AnsweredUnlessFault, [Next]_vars, NEW l \in Kinds, response'[l] # None
             PROVE  /\ response'[l].code = 400 =>
                         \/ request'[l].f.from # None /\ request'[l].f.from = request'[l].f.to
                         \/ l = "more" /\ mixed'
                    /\ response'[l].code = 500 => faults' > 0
  BY Zenon DEF AnsweredUnlessFault
<1> Counting /\ CallTypes /\ PageTypes /\ faults \in Nat
  BY DEF TypeInv, StoreInv, StoreTypeOK
<1>b. ASSUME response'[l] = response[l], request'[l] = request[l], l = "more" /\ mixed => mixed',
             faults' = faults \/ Fault
      PROVE  /\ response'[l].code = 400 =>
                  \/ request'[l].f.from # None /\ request'[l].f.from = request'[l].f.to
                  \/ l = "more" /\ mixed'
             /\ response'[l].code = 500 => faults' > 0
  BY <1>b DEF AnsweredUnlessFault, Fault
<1>1. ASSUME NEW f \in Forms, Edit(f)
      PROVE  /\ response'[l] = response[l] /\ request'[l] = request[l] /\ faults' = faults
             /\ l = "more" /\ mixed => mixed'
  BY Zenon, <1>1 DEF Edit, calls
<1>2. ASSUME NEW k \in Types, Press(k)
      PROVE  /\ response'[l] = response[l] /\ request'[l] = request[l] /\ faults' = faults
             /\ l = "more" /\ mixed => mixed'
  <2>1. /\ UNCHANGED <<response, faults>> /\ request[k] = None
        /\ request' = [request EXCEPT ![k] = Payload(form, k, 0)]
        /\ mixed' = (\E other \in Kinds : request[other] # None)
    BY <1>2 DEF Press, Submit
  <2>2. request[l] # None /\ l # k
    BY ZenonT(30), <2>1 DEF CallTypes
  <2>3. request'[l] = request[l]
    BY <2>1, <2>2 DEF CallTypes
  <2> QED BY <2>1, <2>2, <2>3
<1>3. ASSUME loadMore
      PROVE  /\ response'[l] = response[l] /\ request'[l] = request[l] /\ faults' = faults
             /\ l = "more" /\ mixed => mixed'
  <2>1. /\ UNCHANGED <<response, faults>> /\ request["more"] = None
        /\ request' = [request EXCEPT !["more"] = Payload(form, lastSearchType, offset + PageLimit)]
        /\ mixed => mixed'
    BY ZenonT(30), <1>3 DEF loadMore
  <2>2. l # "more"
    BY <2>1 DEF CallTypes
  <2> QED BY <2>1, <2>2 DEF CallTypes
<1>4. ASSUME NEW k \in Kinds, Serve(k), k # l
      PROVE  /\ response'[l] = response[l] /\ request'[l] = request[l] /\ faults' = faults
             /\ l = "more" /\ mixed => mixed'
  BY <1>4 DEF Serve, CallTypes
<1>5. ASSUME Serve(l)
      PROVE  /\ response'[l].code = 400 =>
                  \/ request'[l].f.from # None /\ request'[l].f.from = request'[l].f.to
                  \/ l = "more" /\ mixed'
             /\ response'[l].code # 500
  <2>0. request[l] \in Requests
    BY <1>5 DEF Serve, Outstanding, CallTypes
  <2>1. request[l] # None /\ UNCHANGED <<request, mixed>>
    BY <1>5 DEF Serve, Outstanding
  <2>2. PICK a \in Answers(request[l]) : response' = [response EXCEPT ![l] = a]
    BY Zenon, <1>5 DEF Serve
  <2>3. response'[l] = a
    BY <2>2 DEF CallTypes
  <2>4. a.code # 500 /\ (a.code = 400 => ~Validate(request[l]))
    <3>1. Answered(request[l], a)
      BY Zenon, <2>0, AnswerCodes
    <3> QED BY <3>1 DEF Answered
  <2>5. ASSUME ~(l = "more" /\ mixed) PROVE AcceptedBy(request[l].type, request[l].f)
    <3>1. CASE l # "more"
      <4>1. l \in Types
        BY <3>1, Names
      <4> QED BY <4>1, <2>1 DEF CallTypes
    <3>2. CASE l = "more" /\ ~mixed
      <4>1. lastSearchType # None /\ lastSearchType \in Types
        BY ZenonT(30), <2>1 DEF CallTypes, PageTypes
      <4>2. /\ AcceptedBy(lastSearchType, form)
            /\ request[l] = Payload(form, lastSearchType, offset + PageLimit)
        BY Zenon, <4>1, <3>2, <2>1 DEF Flow, Own
      <4> QED BY <4>2, PayloadFields
    <3> QED BY <3>1, <3>2, <2>5
  <2> QED BY <2>0, <2>1, <2>3, <2>4, <2>5, Agreement
<1>6. ASSUME NEW k \in Kinds, ServeFails(k), k # l
      PROVE  /\ response'[l] = response[l] /\ request'[l] = request[l] /\ Fault
             /\ l = "more" /\ mixed => mixed'
  BY <1>6 DEF ServeFails, CallTypes, history
<1>7. ASSUME ServeFails(l)
      PROVE  response'[l].code = 500 /\ faults' > 0
  <2>1. response'[l] = Refused(500) /\ faults' = faults + 1
    BY <1>7 DEF ServeFails, CallTypes, Fault
  <2> QED BY <2>1, RefusedTypes
<1>8. ASSUME NEW k \in Kinds, Resolve(k)
      PROVE  /\ response'[l] = response[l] /\ request'[l] = request[l] /\ faults' = faults
             /\ l = "more" /\ mixed => mixed'
  <2>1. Done(k) /\ faults' = faults /\ (mixed => mixed')
    BY Zenon, <1>8 DEF Resolve, ShowMore, ShowFirst
  <2> QED BY ZenonT(30), <2>1, Resets
<1>9. ASSUME TableStep
      PROVE  /\ response'[l] = response[l] /\ request'[l] = request[l] /\ (faults' = faults \/ Fault)
             /\ l = "more" /\ mixed => mixed'
  <2>1. UNCHANGED <<calls, mixed>>
    BY <1>9 DEF TableStep, Track
  <2>2. faults' = faults \/ Fault
    BY <1>9 DEF TableStep, WriteStep, CleanupStep, PurgeAge, CountRows, Evict, CleanupFails, Age
  <2> QED BY <2>1, <2>2 DEF calls
<1>10. ASSUME UNCHANGED vars
       PROVE  /\ response'[l] = response[l] /\ request'[l] = request[l] /\ faults' = faults
              /\ l = "more" /\ mixed => mixed'
  BY <1>10 DEF vars, calls, history
<1>11. CASE \E k \in Kinds : Serve(k) \/ ServeFails(k) \/ Resolve(k)
  <2>1. PICK k \in Kinds : Serve(k) \/ ServeFails(k) \/ Resolve(k)
    BY <1>11
  <2>2. CASE Serve(k)
    <3>1. CASE k = l
      BY <2>2, <3>1, <1>5
    <3>2. CASE k # l
      <4>1. /\ response'[l] = response[l] /\ request'[l] = request[l] /\ faults' = faults
            /\ l = "more" /\ mixed => mixed'
        BY Zenon, <2>2, <3>2, <1>4
      <4> QED BY Zenon, <4>1, <1>b
    <3> QED BY <3>1, <3>2
  <2>3. CASE ServeFails(k)
    <3>1. CASE k = l
      BY <2>3, <3>1, <1>7
    <3>2. CASE k # l
      BY <2>3, <3>2, <1>6, <1>b
    <3> QED BY <3>1, <3>2
  <2>4. CASE Resolve(k)
    BY <2>4, <1>8, <1>b
  <2> QED BY ZenonT(30), <2>1, <2>2, <2>3, <2>4
<1> QED BY ZenonT(30), <1>1, <1>2, <1>3, <1>9, <1>10, <1>11, <1>b, Steps

-----------------------------------------------------------------------------
(* Paging while the table changes *)

\* The list s, after n rows of the table have been read, against the rows S that
\* match, J of which began to since the first page and x of which ceased to.
Faithful(S, J, x, s, n, more) ==
  /\ J = {} => NoRepeat(S, s, n)
  /\ ~x => NoSkip(S, J, s, n, more)

Born == Ids \ {i \in Ids : rows[i] = Unborn}
Watched == Matching(watch)

\* An answer that has come, the list shown, and what the list becomes when the
\* next page arrives, are faithful to the rows that match.
Shows(t) ==
  /\ response[t] # None /\ response[t].code = 200 =>
       Faithful(Watched, joined, left, response[t].events, PageLimit, response[t].more)
  /\ request[t] = None =>
       /\ Faithful(Watched, joined, left, shown, offset + PageLimit, hasMore)
       /\ response["more"] # None /\ response["more"].code = 200 =>
            Faithful(Watched, joined, left, shown \o response["more"].events,
                     offset + PageLimit + PageLimit, response["more"].more)

Paged == ~mixed /\ lastSearchType # None /\ Apart(Born) => Shows(lastSearchType)

\* What matches changes only with the table.
LEMMA SameMatching ==
  ASSUME UNCHANGED rows
  PROVE  /\ UNCHANGED watch => Watched' = Watched
         /\ \A r : watch' = r => Watched' = Matching(r)
         /\ Born' = Born
<1>1. Present' = Present /\ Born' = Born
  BY DEF Present, Born
<1>2. \A f, i : Looked(f, i)' = Looked(f, i) /\ Filtered(f, i)' = Filtered(f, i)
  BY DEF Looked, Filtered
<1>3. \A r : watch' = r => Watched' = Matching(r)
  BY <1>1, <1>2 DEF Watched, Matching
<1> QED BY <1>1, <1>3 DEF Watched

LEMMA LikeRequests ==
  ASSUME NEW r, NEW w, r.type = w.type, r.f = w.f
  PROVE  Matching(r) = Matching(w)
  BY DEF Matching

LEMMA WatchedRows == Watched \in SUBSET Ids /\ Watched' \in SUBSET Ids
  BY DEF Watched, Matching, Present

LEMMA ApartMatching ==
  ASSUME Apart(Born), NEW r
  PROVE  Apart(Matching(r))
<1>1. Matching(r) \subseteq Born
  BY DEF Matching, Present, Born
<1> QED BY <1>1 DEF Apart

\* A list stays faithful when the table changes.
LEMMA FaithfulKept ==
  ASSUME Counting, NEW S \in SUBSET Ids, NEW T \in SUBSET Ids, NEW J, NEW x, NEW K, NEW y,
         K = J \cup (T \ S), ~y => ~x /\ S \ T = {},
         NEW s, NEW n \in Nat, NEW more, Faithful(S, J, x, s, n, more)
  PROVE  Faithful(T, K, y, s, n, more)
<1>1. ASSUME K = {} PROVE NoRepeat(T, s, n)
  <2>1. J = {} /\ T \in SUBSET S
    BY <1>1
  <2> QED BY <2>1, Shrink DEF Faithful
<1>2. ASSUME ~y PROVE NoSkip(T, K, s, n, more)
  <2>1. ~x /\ S \in SUBSET T /\ T \ K \subseteq S \ J
    BY <1>2
  <2>2. NoSkip(S, J, s, n, more)
    BY <2>1 DEF Faithful
  <2> QED BY <2>1, <2>2, Grow
<1> QED BY <1>1, <1>2 DEF Faithful

\* The first page is faithful when it is read.
LEMMA FirstPage ==
  ASSUME Counting, NEW r \in Requests, r.offset = 0, Apart(Matching(r)), NEW q \in Sorted(Matching(r))
  PROVE  Faithful(Matching(r), {}, FALSE, Found(r, q).events, PageLimit, Found(r, q).more)
<1> DEFINE S == Matching(r)
           v == Found(r, q)
<1>1. S \in SUBSET Ids
  BY MatchingRows
<1>2. r.offset \in Nat /\ r.limit = PageLimit
  BY RequestFields
<1>3. <<>> \in Seq(Ids)
  OBVIOUS
<1>4. /\ NoRepeat(S, <<>>, 0) => NoRepeat(S, <<>> \o v.events, 0 + PageLimit)
      /\ NoSkip(S, {}, <<>>, 0, TRUE) => NoSkip(S, {}, <<>> \o v.events, 0 + PageLimit, v.more)
  <2> HIDE DEF S
  <2>1. q \in Sorted(S) /\ Apart(S)
    BY DEF S
  <2> DEFINE e == <<>>
  <2>2. e \in Seq(Ids)
    BY <1>3
  <2> HIDE DEF e
  <2>3. /\ NoRepeat(S, e, r.offset) => NoRepeat(S, e \o v.events, r.offset + PageLimit)
        /\ NoSkip(S, {}, e, r.offset, TRUE) => NoSkip(S, {}, e \o v.events, r.offset + PageLimit, v.more)
    BY ZenonT(30), <1>1, <1>2, <2>1, <2>2, NextPage
  <2> QED BY Zenon, <2>3 DEF e
<1>5. v.events \in Seq(Ids)
  <2>1. q \in Seq(S)
    BY <1>1, SortedRows
  <2>2. v \in Responses
    BY ZenonT(30), <1>1, <1>2, <2>1, PageOf
  <2> QED BY <2>2 DEF Responses
<1> HIDE DEF S, v
<1>6. <<>> \o v.events = v.events /\ 0 + PageLimit = PageLimit
  BY <1>5, SearchAssumption
<1>7. NoRepeat(S, v.events, PageLimit) /\ NoSkip(S, {}, v.events, PageLimit, v.more)
  BY Zenon, <1>1, <1>4, <1>6, NoPage
<1>8. Faithful(S, {}, FALSE, v.events, PageLimit, v.more)
  BY <1>7 DEF Faithful
<1> QED BY Zenon, <1>8 DEF S, v

\* A page read by offset continues a faithful list.
LEMMA FurtherPage ==
  ASSUME Counting, NEW r \in Requests, Apart(Matching(r)), NEW q \in Sorted(Matching(r)),
         NEW J, NEW x, NEW s \in Seq(Ids), NEW more,
         Faithful(Matching(r), J, x, s, r.offset, more)
  PROVE  Faithful(Matching(r), J, x, s \o Found(r, q).events, r.offset + PageLimit, Found(r, q).more)
<1>1. Matching(r) \in SUBSET Ids /\ r.offset \in Nat /\ r.limit = PageLimit
  BY MatchingRows, RequestFields
<1> QED BY ZenonT(30), <1>1, NextPage DEF Faithful

LEMMA PagedInit == Init => Paged
  BY DEF Init, Paged

LEMMA PagedNext == TypeInv /\ Flow /\ Paged /\ [Next]_vars => Paged'
<1> SUFFICES ASSUME TypeInv, Flow, Paged, [Next]_vars,
                    ~mixed', lastSearchType' # None, Apart(Born)'
             PROVE  Shows(lastSearchType)'
  BY DEF Paged
<1> DEFINE t == lastSearchType
<1> Counting /\ PageTypes /\ CallTypes
  BY DEF TypeInv
<1>b. \A k \in Kinds : response[k] # None => request[k] # None
  BY DEF CallTypes
<1>c. Types \subseteq Kinds /\ "more" \in Kinds /\ "more" \notin Types /\ None \notin Types
  BY Names
<1>d. Apart(Born)
  <2>1. \A j \in Ids : rows'[j] = Unborn => rows[j] = Unborn
    BY StoreSteps, StoreRows DEF TypeInv
  <2>2. Born \subseteq Born'
    BY <2>1 DEF Born
  <2> QED BY <2>2 DEF Apart
<1>e. ASSUME ~mixed, t # None PROVE t \in Types /\ t \in Kinds /\ Lone /\ Own(t) /\ Shows(t)
  BY <1>c, <1>d, <1>e DEF Flow, Paged, PageTypes
<1>1. ASSUME NEW f \in Forms, Edit(f) PROVE FALSE
  BY Zenon, <1>1 DEF Edit, page
<1>2. ASSUME NEW k \in Types, Press(k) PROVE Shows(lastSearchType)'
  <2>1. /\ request[k] = None /\ request' = [request EXCEPT ![k] = Payload(form, k, 0)]
        /\ lastSearchType' = k /\ UNCHANGED response
    BY <1>2 DEF Press, Submit
  <2>2. form \in Forms /\ Whole(0)
    BY WholeOffsets DEF PageTypes
  <2>3. Payload(form, k, 0) # None
    BY <2>2, Payloads
  <2>4. request'[k] # None /\ response'[k] = None
    BY ZenonT(30), <2>1, <2>3, <1>b, <1>c DEF CallTypes
  <2> QED BY ZenonT(30), <2>1, <2>4 DEF Shows
<1>3. CASE loadMore
  <2>1. /\ ~mixed /\ t # None /\ \A l \in Kinds : request[l] = None
        /\ UNCHANGED <<rows, response, shown, offset, hasMore, lastSearchType, watch, joined, left>>
    BY ZenonT(30), <1>3 DEF loadMore, page, user, store
  <2>2. t \in Types /\ t \in Kinds /\ Shows(t)
    BY Zenon, <2>1, <1>e
  <2>3. \A l \in Kinds : response'[l] = None
    BY ZenonT(30), <2>1, <1>b
  <2>4. Watched' = Watched
    BY <2>1, SameMatching
  <2>5. request[t] = None
    BY <2>1, <2>2
  <2> QED BY ZenonT(30), <2>1, <2>2, <2>3, <2>4, <2>5, <1>c DEF Shows
<1>4. ASSUME NEW k \in Kinds, Serve(k) PROVE Shows(lastSearchType)'
  <2>1. /\ request[k] # None /\ UNCHANGED <<rows, request, shown, offset, hasMore, lastSearchType, mixed>>
    BY <1>4 DEF Serve, Outstanding, page, store
  <2>2. request[k] \in Requests /\ t # None /\ form \in Forms /\ Whole(offset) /\ shown \in Seq(Ids)
    BY <2>1 DEF CallTypes, PageTypes
  <2>3. t \in Types /\ t \in Kinds /\ Lone /\ Own(t) /\ Shows(t)
    BY ZenonT(30), <2>1, <2>2, <1>e
  <2>4. PICK a \in Answers(request[k]) : response' = [response EXCEPT ![k] = a]
    BY ZenonT(30), <1>4 DEF Serve
  <2>5. a.code = 200 => \E q \in Sorted(Matching(request[k])) : a = Found(request[k], q)
    BY <2>2, AnswerTypes
  <2>6. \A l \in Kinds : response'[l] = IF l = k THEN a ELSE response[l]
    BY <2>4 DEF CallTypes
  <2>7. Apart(Matching(request[k]))
    BY <1>d, ApartMatching
  <2>8. CASE k # "more"
    <3>1. k = t
      BY ZenonT(30), <2>8, <2>1, <2>3, Names DEF Own
    <3> DEFINE r == request[t]
    <3>2. watch' = r /\ joined' = {} /\ left' = FALSE /\ response'[t] = a
      BY <3>1, <2>8, <2>6, <1>4 DEF Serve
    <3>3. Watched' = Matching(r)
      BY ZenonT(30), <3>2, <2>1, SameMatching
    <3>4. Whole(0)
      BY <2>2, WholeOffsets
    <3>5. r \in Requests /\ r.offset = 0 /\ r # None
      BY <3>1, <2>1, <2>2, <2>3 DEF CallTypes
    <3> HIDE DEF r
    <3>6. a.code = 200 => Faithful(Matching(r), {}, FALSE, a.events, PageLimit, a.more)
      BY ZenonT(30), <3>1, <3>5, <2>5, <2>7, FirstPage DEF r
    <3>7. request'[t] # None
      BY Zenon, <3>5, <2>1 DEF r
    <3> QED BY ZenonT(30), <3>2, <3>3, <3>6, <3>7, <2>1 DEF Shows
  <2>9. CASE k = "more"
    <3>1. UNCHANGED <<watch, joined, left>>
      BY <2>9, <1>4 DEF Serve
    <3>2. request[t] = None /\ response[t] = None /\ t # "more"
      BY <2>9, <2>1, <2>3, <1>b, <1>c DEF Lone
    <3>3. watch = Payload(form, t, 0) /\ request["more"] = Payload(form, t, offset + PageLimit)
      BY ZenonT(30), <3>2, <2>9, <2>1, <2>3 DEF Own
    <3> DEFINE r == request["more"]
               b == offset + PageLimit
    <3>4. r \in Requests /\ r.offset = b
      BY <3>3, <2>9, <2>2 DEF Payload
    <3>5. Matching(r) = Watched
      <4>1. r.type = watch.type /\ r.f = watch.f
        BY <3>3, PayloadFields
      <4> QED BY Zenon, <4>1, LikeRequests DEF Watched
    <3>6. Watched' = Watched
      BY <3>1, <2>1, SameMatching
    <3>7. Faithful(Watched, joined, left, shown, b, hasMore)
      BY ZenonT(30), <3>2, <2>3 DEF Shows
    <3> HIDE DEF r, b
    <3>8. ASSUME a.code = 200
          PROVE  Faithful(Watched, joined, left, shown \o a.events, b + PageLimit, a.more)
      <4>1. PICK q \in Sorted(Matching(r)) : a = Found(r, q)
        BY <3>8, <2>5, <2>9 DEF r
      <4>2. Apart(Matching(r)) /\ Faithful(Matching(r), joined, left, shown, r.offset, hasMore)
        BY <3>4, <3>5, <3>7, <2>7, <2>9 DEF r
      <4>3. Faithful(Matching(r), joined, left, shown \o Found(r, q).events, r.offset + PageLimit,
                     Found(r, q).more)
        BY ZenonT(30), <4>2, <3>4, <2>2, FurtherPage
      <4> QED BY <4>1, <4>3, <3>4, <3>5
    <3>9. response'["more"] = a /\ response'[t] = None
      BY ZenonT(30), <3>2, <2>6, <2>9, <2>3
    <3> QED BY ZenonT(30), <3>1, <3>6, <3>7, <3>8, <3>9, <2>1 DEF Shows, b
  <2> QED BY <2>8, <2>9
<1>5. ASSUME NEW k \in Kinds, ServeFails(k) PROVE Shows(lastSearchType)'
  <2>1. /\ request[k] # None /\ ~mixed
        /\ UNCHANGED <<rows, request, shown, offset, hasMore, lastSearchType, watch, joined, left>>
        /\ response' = [response EXCEPT ![k] = Refused(500)]
    BY <1>5 DEF ServeFails, Outstanding, page, store, history
  <2>2. t # None
    BY <2>1 DEF CallTypes
  <2>3. t \in Kinds /\ Shows(t)
    BY ZenonT(30), <2>1, <2>2, <1>e
  <2>4. /\ response'[k].code = 500
        /\ \A l \in Kinds : l # k => response'[l] = response[l]
    BY <2>1, RefusedTypes DEF CallTypes
  <2>5. \A l \in Kinds : response'[l] # None /\ response'[l].code = 200 => response'[l] = response[l]
    BY <2>4
  <2>6. Watched' = Watched
    BY <2>1, SameMatching
  <2>7. response'[t] # None /\ response'[t].code = 200 =>
          Faithful(Watched, joined, left, response'[t].events, PageLimit, response'[t].more)
    BY ZenonT(30), <2>3, <2>5 DEF Shows
  <2>8. request[t] = None =>
          /\ Faithful(Watched, joined, left, shown, offset + PageLimit, hasMore)
          /\ response'["more"] # None /\ response'["more"].code = 200 =>
               Faithful(Watched, joined, left, shown \o response'["more"].events,
                        offset + PageLimit + PageLimit, response'["more"].more)
    BY ZenonT(30), <2>3, <2>5, <1>c DEF Shows
  <2> QED BY ZenonT(30), <2>1, <2>6, <2>7, <2>8 DEF Shows
<1>6. ASSUME NEW k \in Kinds, Resolve(k) PROVE Shows(lastSearchType)'
  <2>1. /\ response[k] # None /\ request[k] # None /\ UNCHANGED <<rows, watch, joined, left, lastSearchType>>
        /\ Done(k) /\ ~mixed
    BY ZenonT(30), <1>6, <1>b DEF Resolve, ShowMore, ShowFirst, page, store
  <2>2. t # None /\ offset \in Nat /\ PageLimit \in Nat
    BY ZenonT(30), <2>1, SearchAssumption DEF CallTypes, PageTypes, Whole
  <2>3. t \in Types /\ t \in Kinds /\ Lone /\ Own(t) /\ Shows(t)
    BY ZenonT(30), <2>1, <2>2, <1>e
  <2>4. \A l \in Kinds : response'[l] = None
    BY ZenonT(30), <2>1, <2>3, <1>b, Resets DEF Lone
  <2>5. Watched' = Watched
    BY <2>1, SameMatching
  <2>6. Faithful(Watched, joined, left, shown', offset' + PageLimit, hasMore')
    <3>1. CASE k = "more"
      <4>1. request[t] = None
        BY <3>1, <2>1, <2>3, <1>c DEF Lone
      <4>2. ShowMore
        BY <3>1, <1>6 DEF Resolve
      <4>3. CASE response["more"].code = 200
        <5>1. request["more"].offset = offset + PageLimit
          <6>1. request["more"] = Payload(form, t, offset + PageLimit)
            BY Zenon, <3>1, <2>1, <2>3 DEF Own
          <6> QED BY <6>1, PayloadFields
        <5>2. /\ shown' = shown \o response["more"].events /\ offset' = offset + PageLimit
              /\ hasMore' = response["more"].more
          BY <4>2, <4>3, <5>1 DEF ShowMore
        <5> QED BY ZenonT(30), <5>2, <4>1, <4>3, <3>1, <2>1, <2>3 DEF Shows
      <4>4. CASE response["more"].code # 200
        <5>1. UNCHANGED <<shown, offset, hasMore>>
          BY ZenonT(30), <4>2, <4>4 DEF ShowMore, page
        <5> QED BY ZenonT(30), <5>1, <4>1, <2>3 DEF Shows
      <4> QED BY <4>3, <4>4
    <3>2. CASE k # "more"
      <4>1. k = t
        BY ZenonT(30), <3>2, <2>1, <2>3, Names DEF Own
      <4>2. /\ response[t].code = 200 /\ shown' = response[t].events /\ hasMore' = response[t].more
            /\ UNCHANGED offset
        BY <3>2, <4>1, <1>6 DEF Resolve, ShowFirst
      <4>3. offset = 0 /\ offset' + PageLimit = PageLimit
        <5>1. offset = 0
          BY Zenon, <4>1, <2>1, <2>3 DEF Own
        <5> QED BY <5>1, <4>2, <2>2
      <4> QED BY ZenonT(30), <4>1, <4>2, <4>3, <2>1, <2>3 DEF Shows
    <3> QED BY <3>1, <3>2
  <2> QED BY ZenonT(30), <2>1, <2>3, <2>4, <2>5, <2>6, <1>c DEF Shows
<1>7. CASE TableStep
  <2>1. UNCHANGED <<request, response, shown, offset, hasMore, lastSearchType, watch, mixed>>
    BY <1>7 DEF TableStep, Track, page, calls
  <2>2. t \in Types /\ Own(t) /\ Shows(t) /\ form \in Forms
    BY <2>1, <1>e DEF PageTypes
  <2>3. offset \in Nat /\ PageLimit \in Nat /\ left \in BOOLEAN /\ Whole(0)
    BY SearchAssumption, WholeOffsets DEF PageTypes, Whole
  <2>4. ASSUME watch # None, NEW s, NEW n \in Nat, NEW more,
               Faithful(Watched, joined, left, s, n, more)
        PROVE  Faithful(Watched', joined', left', s, n, more)
    <3>1. /\ joined' = joined \cup (Watched' \ Watched)
          /\ ~left' => ~left /\ Watched \ Watched' = {}
      BY ZenonT(30), <2>4, <1>7 DEF TableStep, Track, Watched
    <3> QED BY Zenon, <3>1, <2>4, WatchedRows, FaithfulKept
  <2>5. ASSUME response[t] # None, response[t].code = 200
        PROVE  Faithful(Watched', joined', left', response[t].events, PageLimit, response[t].more)
    <3>1. watch # None
      <4>1. request[t] # None
        BY Zenon, <2>2, <2>5, <1>b, <1>c
      <4> QED BY Zenon, <4>1, <2>2, <2>5 DEF Own
    <3>2. Faithful(Watched, joined, left, response[t].events, PageLimit, response[t].more)
      BY Zenon, <2>2, <2>5 DEF Shows
    <3> QED BY <3>1, <3>2, <2>3, <2>4
  <2>6. ASSUME request[t] = None
        PROVE  /\ Faithful(Watched', joined', left', shown, offset + PageLimit, hasMore)
               /\ response["more"] # None /\ response["more"].code = 200 =>
                    Faithful(Watched', joined', left', shown \o response["more"].events,
                             offset + PageLimit + PageLimit, response["more"].more)
    <3>1. watch = Payload(form, t, 0)
      BY ZenonT(30), <2>2, <2>6 DEF Own
    <3>2. watch # None
      BY <3>1, <2>2, <2>3, Payloads
    <3>3. offset + PageLimit \in Nat /\ offset + PageLimit + PageLimit \in Nat
      BY <2>3
    <3>4. Faithful(Watched, joined, left, shown, offset + PageLimit, hasMore)
      BY ZenonT(30), <2>2, <2>6 DEF Shows
    <3>5. Faithful(Watched', joined', left', shown, offset + PageLimit, hasMore)
      BY <3>2, <3>3, <3>4, <2>4
    <3>6. ASSUME response["more"] # None, response["more"].code = 200
          PROVE  Faithful(Watched', joined', left', shown \o response["more"].events,
                          offset + PageLimit + PageLimit, response["more"].more)
      <4>1. Faithful(Watched, joined, left, shown \o response["more"].events,
                     offset + PageLimit + PageLimit, response["more"].more)
        BY ZenonT(30), <3>6, <2>2, <2>6 DEF Shows
      <4> QED BY <4>1, <3>2, <3>3, <2>4
    <3> QED BY ZenonT(30), <3>5, <3>6
  <2> QED BY ZenonT(30), <2>1, <2>5, <2>6 DEF Shows
<1>8. CASE UNCHANGED vars
  <2>1. /\ UNCHANGED <<rows, request, response, shown, offset, hasMore, lastSearchType>>
        /\ UNCHANGED <<watch, joined, left, mixed>>
    BY <1>8 DEF vars, store, page, calls, history
  <2>2. Watched' = Watched
    BY <2>1, SameMatching
  <2>3. Shows(t)
    BY <2>1, <1>e
  <2> QED BY ZenonT(30), <2>1, <2>2, <2>3 DEF Shows
<1> QED BY <1>1, <1>2, <1>3, <1>4, <1>5, <1>6, <1>7, <1>8, Steps

LEMMA PureIsFaithful ==
  ASSUME TypeInv, Paged, Pure
  PROVE  Faithful(Watched, joined, left, shown, offset + PageLimit, hasMore) /\ shown \in Seq(Ids)
<1>1. ~mixed /\ watch # None /\ lastSearchType = watch.type /\ request[watch.type] = None
  BY Zenon DEF Pure
<1>2. Apart(Born)
  BY DEF Pure, Apart, Born
<1>3. lastSearchType # None
  BY <1>1, RequestFields, Names DEF TypeInv, CallTypes
<1>4. Shows(lastSearchType)
  BY Zenon, <1>1, <1>2, <1>3 DEF Paged
<1> QED BY Zenon, <1>1, <1>4 DEF Shows, TypeInv, PageTypes

-----------------------------------------------------------------------------
(* Theorems *)

Library == INSTANCE FiniteSetTheorems

\* The library's words for finite sets are those of module FiniteSets.
LEMMA SameWords ==
  /\ \A S : Library!IsFiniteSet(S) <=> IsFiniteSet(S)
  /\ \A S : Library!Cardinality(S) = Cardinality(S)
<1>1. \A S : Library!IsFiniteSet(S) <=> IsFiniteSet(S)
  BY DEF Library!IsFiniteSet, IsFiniteSet
<1>2. \A S : Library!Cardinality(S) = Cardinality(S)
  BY DEF Library!Cardinality, Cardinality, Library!IsFiniteSet, IsFiniteSet
<1> QED BY <1>1, <1>2

LEMMA RowsAreCounted == Counting
<1> SUFFICES ASSUME NEW S \in SUBSET Ids
             PROVE  Sized(S) /\ \A n \in Nat : \A f \in [1 .. n -> S] : Listed(S, n, f)
  BY Zenon DEF Counting
<1>1. Library!IsFiniteSet(S)
  <2>1. Library!IsFiniteSet(Ids)
    BY StoreAssumption, SameWords
  <2> QED BY <2>1, Library!FS_Subset
<1>2. Cardinality(S) \in Nat /\ (Cardinality(S) = 0 => S = {})
  BY <1>1, SameWords, Library!FS_CardinalityType, Library!FS_EmptySet
<1>3. ASSUME NEW T \in SUBSET S
      PROVE  /\ Cardinality(T) <= Cardinality(S)
             /\ Cardinality(S \ T) = Cardinality(S) - Cardinality(T)
  <2>1. Library!IsFiniteSet(T) /\ Library!Cardinality(T) <= Library!Cardinality(S)
    BY <1>1, Library!FS_Subset
  <2>2. Library!Cardinality(S \ T) = Library!Cardinality(S) - Library!Cardinality(S \cap T)
    BY <1>1, <2>1, Library!FS_Difference
  <2>3. S \cap T = T
    OBVIOUS
  <2> QED BY <2>1, <2>2, <2>3, SameWords
<1>4. Sized(S)
  BY <1>2, <1>3 DEF Sized
<1>5. ASSUME NEW n \in Nat, NEW f \in [1 .. n -> S], \A a, b \in 1 .. n : f[a] = f[b] => a = b
      PROVE  Cardinality(S) = n <=> \A i \in S : \E a \in 1 .. n : f[a] = i
  <2>1. Library!IsFiniteSet(1 .. n) /\ Library!Cardinality(1 .. n) = n
    BY Library!FS_Interval
  <2>2. f \in Library!Injection(1 .. n, S)
    BY <1>5 DEF Library!Injection, Library!IsInjective
  <2>3. Library!Cardinality(1 .. n) = Library!Cardinality(S) <=> f \in Library!Surjection(1 .. n, S)
    BY <1>1, <2>2, Library!FS_Injection
  <2>4. f \in Library!Surjection(1 .. n, S) <=> \A i \in S : \E a \in 1 .. n : f[a] = i
    BY DEF Library!Surjection
  <2> QED BY <2>1, <2>3, <2>4, SameWords
<1> QED BY Zenon, <1>4, <1>5 DEF Listed

LEMMA TypeInvInit == Init => TypeInv
<1> SUFFICES ASSUME Init PROVE TypeInv
  OBVIOUS
<1>1. StoreInv
  BY StoreInvInit DEF Init
<1>2. Whole(0)
  <2>1. ASSUME NEW Q \in Nat \ {0} PROVE 0 % Q = 0
    OBVIOUS
  <2> QED BY <2>1, SearchAssumption DEF Whole
<1>3. PageTypes
  <2>1. <<>> \in Seq(Ids)
    OBVIOUS
  <2> QED BY Zenon, <1>2, <2>1 DEF Init, PageTypes
<1>4. CallTypes
  BY Names DEF Init, CallTypes
<1> QED BY <1>1, <1>3, <1>4, RowsAreCounted DEF TypeInv

\* Every variable of the search page and of the table below it keeps its type: the
\* page's offset stays a multiple of its size, and no answer is without a request.
THEOREM TypeCorrect == Spec => []TypeOK
<1>1. Spec => []TypeInv
  BY TypeInvInit, TypeInvNext, PTL DEF Spec
<1> QED BY <1>1, TypeInvIsTypeOK, PTL

\* DeletesOnlyExcess: evicting by a count taken in an earlier statement of runCleanup
\* deletes no row within retention unless at least maxRows rows that are no older
\* survive it.
THEOREM CleanupKeepsMaxRows == Spec => DeletesOnlyExcess
<1>1. Spec => []TypeInv
  BY TypeInvInit, TypeInvNext, PTL DEF Spec
<1>2. TypeInv /\ [Next]_vars => [OnlyExcess]_<<store, faults>>
  BY StoreSteps, EvictsExcess DEF TypeInv
<1>3. [OnlyExcess]_<<store, faults>> =>
        [\A i \in Ids :
           /\ rows[i] \notin {Unborn, Deleted} /\ rows'[i] = Deleted
           /\ ReceivedAt[i] >= horizon
           => Cardinality({j \in Ids : /\ rows'[j] \notin {Unborn, Deleted}
                                       /\ ReceivedAt[j] >= ReceivedAt[i]}) >= MaxRows
        ]_<<store, faults>>
  BY DEF OnlyExcess
<1> QED BY <1>1, <1>2, <1>3, PTL DEF Spec, DeletesOnlyExcess

\* AnsweredUnlessFault: whatever validateLookup and validateFilter of the page let
\* through is also accepted by Search.Validate, but for a range with equal ends and
\* for later pages of an edited form; a 500 needs a failure.
THEOREM AcceptedIsAnswered == Spec => []AnsweredUnlessFault
<1>1. Init => TypeInv /\ Flow /\ AnsweredUnlessFault
  <2>1. Init => AnsweredUnlessFault
    BY DEF Init, AnsweredUnlessFault
  <2> QED BY <2>1, TypeInvInit, FlowInit
<1>2. TypeInv /\ Flow /\ AnsweredUnlessFault /\ [Next]_vars
        => (TypeInv /\ Flow /\ AnsweredUnlessFault)'
  BY TypeInvNext, FlowNext, AnsweredNext
<1> QED BY <1>1, <1>2, PTL DEF Spec

LEMMA AlwaysPaged == Spec => [](TypeInv /\ Flow /\ Paged)
<1>1. Init => TypeInv /\ Flow /\ Paged
  BY TypeInvInit, FlowInit, PagedInit
<1>2. TypeInv /\ Flow /\ Paged /\ [Next]_vars => (TypeInv /\ Flow /\ Paged)'
  BY TypeInvNext, FlowNext, PagedNext
<1> QED BY <1>1, <1>2, PTL DEF Spec

\* PagesUnique: the list that the search page builds from pages read by offset shows
\* a row twice only if some row began to match after the first page was read,
\* whatever was deleted or changed between the pages.
THEOREM NoRowTwice == Spec => []PagesUnique
<1>1. TypeInv /\ Flow /\ Paged => PagesUnique
  <2> SUFFICES ASSUME TypeInv, Paged, Pure, joined = {},
                      NEW a \in DOMAIN shown, NEW b \in DOMAIN shown, shown[a] = shown[b]
               PROVE  a = b
    BY DEF PagesUnique
  <2>1. Descending(shown) /\ shown \in Seq(Ids)
    BY PureIsFaithful DEF Faithful, NoRepeat
  <2>2. a \in Nat /\ b \in Nat /\ shown[a] \in Ids
    BY Zenon, <2>1, ListRows
  <2>3. CreatedAt[shown[a]] \in Nat
    BY Zenon, <2>2, Created
  <2>4. ~(a < b) /\ ~(b < a)
    BY <2>1, <2>3 DEF Descending
  <2> QED BY <2>2, <2>4
<1> QED BY <1>1, AlwaysPaged, PTL

\* PagesComplete: the list skips a row only if some row ceased to match after the
\* first page was read: every other row that matched then and still does is shown, or
\* is older than all that is shown and loadMore is still on offer.
THEOREM NoRowSkipped == Spec => []PagesComplete
<1>1. TypeInv /\ Flow /\ Paged => PagesComplete
  <2> SUFFICES ASSUME TypeInv, Paged, Pure, ~left
               PROVE  \A i \in Matching(watch) \ joined :
                        \/ \E a \in DOMAIN shown : shown[a] = i
                        \/ hasMore /\ \A a \in DOMAIN shown : Younger(shown[a], i)
    BY DEF PagesComplete
  <2> QED BY PureIsFaithful DEF Faithful, NoSkip, Watched, Younger
<1> QED BY <1>1, AlwaysPaged, PTL

=============================================================================
