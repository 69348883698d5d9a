-------------------------- MODULE TransportProofs --------------------------
(***************************************************************************)
(* Proofs about Transport, for any windows, any delay of packets that the  *)
(* numbers' widths can tell, and any numbers of events.                    *)
(*                                                                         *)
(* What goes each way is looked at by itself.  Of a direction, from the    *)
(* sender c to the receiver d, the invariant says:                         *)
(*  - each event is in one place of the sender: a queue, the note of one   *)
(*    packet whose fate it does not know, or among the acknowledged ones;  *)
(*  - of each note, the receiver's ack mask has the packet's bit exactly   *)
(*    if its events arrived, and an event of a packet without one never    *)
(*    did and never will, which is why it is safe to send it again;        *)
(*  - the same holds of the masks in the headers under way, so a late or a *)
(*    repeated one never tells the sender what is not so;                  *)
(*  - the numbers the ends know of each other are within the windows, so   *)
(*    the low bits that packets carry stand for one number only.           *)
(* A packet that is acknowledged and never read swallows its events; of a  *)
(* receiver past one of those (not Healthy) the order is still kept, and   *)
(* what it got is no longer claimed.                                       *)
(***************************************************************************)
EXTENDS Transport, FiniteSetTheorems, SequenceTheorems, WellFoundedInduction, TLAPS

-----------------------------------------------------------------------------
(* Lists of numbers: how one more goes into its place.                     *)

Rising(s) == \A i, j \in 1..Len(s) : i < j => s[i] < s[j]
Distinct(s) == \A i, j \in 1..Len(s) : s[i] = s[j] => i = j

\* A set with 0, and with n + 1 if it has n, has every natural number.
LEMMA NaturalSets ==
    ASSUME NEW S, 0 \in S, \A n \in Nat : n \in S => n + 1 \in S
    PROVE  Nat \subseteq S
<1> SUFFICES ASSUME Nat \ S # {} PROVE FALSE
  OBVIOUS
<1> DEFINE R == OpToRel(<, Nat)
           T == Nat \ S
<1>1. T \subseteq Nat /\ T # {}
  OBVIOUS
<1>2. PICK k \in T : \A y \in T : ~(<<y, k>> \in R)
  <2> HIDE DEF T, R
  <2> QED BY <1>1, NatLessThanWellFounded, WFMin, Zenon DEF R
<1>3. k - 1 \in Nat /\ k \in Nat /\ (k - 1) + 1 = k
  <2> HIDE DEF R
  <2> QED BY <1>2
<1>4. k - 1 \in S
  <2>1. <<k - 1, k>> \in R
    BY <1>3 DEF OpToRel
  <2> QED BY <1>2, <1>3, <2>1
<1> QED BY <1>2, <1>3, <1>4

\* A set of numbers from m to n that has n has a least one.
LEMMA FirstOf ==
    ASSUME NEW m \in Int, NEW n \in Int, NEW S \in SUBSET (m..n), n \in S
    PROVE  \E k \in S : \A j \in m..k - 1 : j \notin S
<1> DEFINE R == OpToRel(<, Nat)
           T == {k \in Nat : m + k \in S}
<1>1. T \subseteq Nat /\ T # {}
  <2>1. n - m \in Nat /\ m + (n - m) = n
    OBVIOUS
  <2> QED BY <2>1
<1>2. PICK k \in T : \A y \in T : ~(<<y, k>> \in R)
  <2> HIDE DEF T, R
  <2> QED BY <1>1, NatLessThanWellFounded, WFMin, Zenon DEF R
<1> DEFINE i == m + k
<1>3. ASSUME NEW j \in m..i - 1 PROVE j \notin S
  <2>1. SUFFICES ASSUME j \in S PROVE FALSE
    OBVIOUS
  <2>2. k \in Nat
    OBVIOUS
  <2>3. j - m \in Nat /\ m + (j - m) = j /\ j - m < k
    BY <2>2
  <2>4. j - m \in T
    BY <2>1, <2>3
  <2>5. <<j - m, k>> \in R
    BY <2>2, <2>3 DEF OpToRel
  <2> HIDE DEF R, T
  <2> QED BY <1>2, <2>4, <2>5
<1>4. i \in S
  OBVIOUS
<1> HIDE DEF R, T, i
<1> QED BY <1>3, <1>4, Zenon

\* A part of a list has the list's members, from m to n.
LEMMA PartOf ==
    ASSUME NEW s \in Seq(Nat), NEW m \in 1..Len(s) + 1, NEW n \in 0..Len(s), m <= n + 1
    PROVE  /\ SubSeq(s, m, n) \in Seq(Nat) /\ Len(SubSeq(s, m, n)) = n - m + 1
           /\ \A i \in 1..n - m + 1 : SubSeq(s, m, n)[i] = s[m + i - 1]
<1>1. \A i \in m..n : s[i] \in Nat
  OBVIOUS
<1> QED BY <1>1, SubSeqProperties

\* Where InOrder puts n: before the first, after the last one put, that is not before it.
LEMMA InOrderIs ==
    ASSUME NEW walk, NEW n \in Nat, walk.list \in Seq(Nat), walk.at \in 0..Len(walk.list)
    PROVE  LET r == InOrder(walk, n)
               list == walk.list
           IN /\ r.list \in Seq(Nat) /\ Len(r.list) = Len(list) + 1
              /\ r.at \in walk.at + 1..Len(list) + 1 /\ r.list[r.at] = n
              /\ \A i \in 1..r.at - 1 : r.list[i] = list[i] /\ (walk.at < i => list[i] < n)
              /\ \A i \in r.at + 1..Len(list) + 1 : r.list[i] = list[i - 1]
              /\ r.at <= Len(list) => list[r.at] >= n
<1> DEFINE list == walk.list
           at == walk.at
           Good(k) == /\ \A i \in at + 1..k : list[i] < n
                      /\ k < Len(list) => list[k + 1] >= n
           S == {k \in at..Len(list) : k < Len(list) => list[k + 1] >= n}
           k == CHOOSE k \in at..Len(list) : Good(k)
           r == InOrder(walk, n)
<1>0. list \in Seq(Nat) /\ Len(list) \in Nat /\ at \in 0..Len(list) /\ at \in Int
  OBVIOUS
<1>1. \E j \in at..Len(list) : Good(j)
  <2>1. Len(list) \in S
    BY <1>0
  <2>2. PICK j \in S : \A i \in at..j - 1 : i \notin S
    <3> HIDE DEF S, list, at
    <3>1. S \in SUBSET (at..Len(list)) /\ at \in Int /\ Len(list) \in Int
      BY <1>0 DEF S
    <3> QED BY <2>1, <3>1, FirstOf, Zenon
  <2>3. ASSUME NEW i \in at + 1..j PROVE list[i] < n
    <3>1. i - 1 \in at..j - 1 /\ i - 1 < Len(list) /\ i \in 1..Len(list) /\ (i - 1) + 1 = i
      BY <1>0
    <3>2. i - 1 \notin S
      BY <2>2, <3>1
    <3>3. list[i] \in Nat
      BY <1>0, <3>1
    <3> QED BY <1>0, <3>1, <3>2, <3>3
  <2> QED BY <2>2, <2>3
<1>2. k \in at..Len(list) /\ Good(k)
  <2> HIDE DEF Good, list, at
  <2> QED BY <1>1
<1>3. r = [list |-> SubSeq(list, 1, k) \o <<n>> \o SubSeq(list, k + 1, Len(list)), at |-> k + 1]
  BY DEF InOrder
<1> HIDE DEF k, r
<1> DEFINE a == SubSeq(list, 1, k)
           b == SubSeq(list, k + 1, Len(list))
           ab == (a \o <<n>>) \o b
<1>4. /\ a \in Seq(Nat) /\ Len(a) = k /\ \A i \in 1..k : a[i] = list[i]
      /\ b \in Seq(Nat) /\ Len(b) = Len(list) - k /\ \A i \in 1..Len(list) - k : b[i] = list[k + i]
  <2> HIDE DEF list, at, Good
  <2>1. 1 \in 1..Len(list) + 1 /\ k \in 0..Len(list) /\ k + 1 \in 1..Len(list) + 1 /\ Len(list) \in 0..Len(list)
        /\ k - 1 + 1 = k /\ Len(list) - (k + 1) + 1 = Len(list) - k
        /\ 1 <= k + 1 /\ k + 1 <= Len(list) + 1
    BY <1>0, <1>2
  <2>2. a \in Seq(Nat) /\ Len(a) = k - 1 + 1 /\ \A i \in 1..k - 1 + 1 : a[i] = list[1 + i - 1]
    BY <1>0, <2>1, PartOf, Zenon
  <2>3. /\ b \in Seq(Nat) /\ Len(b) = Len(list) - (k + 1) + 1
        /\ \A i \in 1..Len(list) - (k + 1) + 1 : b[i] = list[k + 1 + i - 1]
    BY <1>0, <2>1, PartOf, Zenon
  <2> HIDE DEF a, b
  <2> QED BY <2>1, <2>2, <2>3
<1> HIDE DEF a, b
<1>5. /\ ab \in Seq(Nat) /\ Len(ab) = Len(list) + 1 /\ ab[k + 1] = n
      /\ \A i \in 1..k : ab[i] = list[i]
      /\ \A i \in k + 2..Len(list) + 1 : ab[i] = list[i - 1]
  <2> HIDE DEF list, at, Good
  <2> DEFINE an == a \o <<n>>
  <2>1. an \in Seq(Nat) /\ Len(an) = k + 1 /\ an[k + 1] = n /\ \A i \in 1..k : an[i] = list[i]
    BY <1>0, <1>2, <1>4
  <2> HIDE DEF an
  <2>2. /\ an \o b \in Seq(Nat) /\ Len(an \o b) = Len(list) + 1
        /\ \A i \in 1..Len(list) + 1 : (an \o b)[i] = IF i <= k + 1 THEN an[i] ELSE b[i - (k + 1)]
    <3>1. /\ an \o b \in Seq(Nat) /\ Len(an \o b) = Len(an) + Len(b)
          /\ \A i \in 1..Len(an) + Len(b) : (an \o b)[i] = IF i <= Len(an) THEN an[i] ELSE b[i - Len(an)]
      BY <1>4, <2>1, ConcatProperties, Zenon
    <3>2. Len(an) + Len(b) = Len(list) + 1
      BY <1>0, <1>2, <1>4, <2>1
    <3> QED BY <2>1, <3>1, <3>2, Zenon
  <2>3. ASSUME NEW i \in k + 2..Len(list) + 1 PROVE (an \o b)[i] = list[i - 1]
    <3>1. i \in 1..Len(list) + 1 /\ ~(i <= k + 1) /\ i - (k + 1) \in 1..Len(list) - k /\ k + (i - (k + 1)) = i - 1
      BY <1>0, <1>2
    <3> QED BY <1>4, <2>2, <3>1
  <2>4. ab = an \o b
    BY DEF an
  <2>5. (an \o b)[k + 1] = n /\ \A i \in 1..k : (an \o b)[i] = list[i]
    BY <1>0, <1>2, <2>1, <2>2
  <2> QED BY <2>2, <2>3, <2>4, <2>5
<1>6. r.list = ab /\ r.at = k + 1
  BY <1>3 DEF a, b
<1> HIDE DEF ab
<1> QED BY <1>0, <1>2, <1>5, <1>6 DEF r

-----------------------------------------------------------------------------
(* Lists of numbers: how several go into their places.                     *)

\* InOrder puts n in the list, and nothing else.
LEMMA InOrderHas ==
    ASSUME NEW walk, NEW n \in Nat, walk.list \in Seq(Nat), walk.at \in 0..Len(walk.list)
    PROVE  LET r == InOrder(walk, n)
           IN /\ r.list \in Seq(Nat) /\ r.at \in 0..Len(r.list)
              /\ Elements(r.list) = Elements(walk.list) \cup {n}
<1> DEFINE r == InOrder(walk, n)
           list == walk.list
           out == r.list
           m == r.at
<1>0. list \in Seq(Nat) /\ Len(list) \in Nat
  OBVIOUS
<1>1. /\ out \in Seq(Nat) /\ Len(out) = Len(list) + 1
      /\ m \in 1..Len(list) + 1 /\ out[m] = n
      /\ \A i \in 1..m - 1 : out[i] = list[i]
      /\ \A i \in m + 1..Len(list) + 1 : out[i] = list[i - 1]
  BY InOrderIs
<1> HIDE DEF r, list, out, m
<1>2. ASSUME NEW x \in Elements(out) PROVE x \in Elements(list) \cup {n}
  <2>1. PICK i \in 1..Len(list) + 1 : out[i] = x
    BY <1>1 DEF Elements
  <2>2. CASE i < m
    <3>1. i \in 1..m - 1 /\ i \in 1..Len(list)
      BY <1>0, <1>1, <2>2
    <3>2. out[i] = list[i]
      BY <1>1, <3>1
    <3> QED BY <2>1, <3>1, <3>2 DEF Elements
  <2>3. CASE i > m
    <3>1. i \in m + 1..Len(list) + 1 /\ i - 1 \in 1..Len(list)
      BY <1>0, <1>1, <2>3
    <3> QED BY <1>1, <2>1, <3>1 DEF Elements
  <2> QED BY <1>1, <2>1, <2>2, <2>3
<1>3. ASSUME NEW x \in Elements(list) PROVE x \in Elements(out)
  <2>1. PICK i \in 1..Len(list) : list[i] = x
    BY DEF Elements
  <2>2. CASE i < m
    <3>1. i \in 1..Len(out) /\ out[i] = x
      BY <1>0, <1>1, <2>1, <2>2
    <3> QED BY <3>1 DEF Elements
  <2>3. CASE i >= m
    <3>1. i + 1 \in m + 1..Len(list) + 1 /\ (i + 1) - 1 = i /\ i + 1 \in 1..Len(out)
      BY <1>0, <1>1, <2>3
    <3>2. out[i + 1] = x
      BY <1>1, <2>1, <3>1
    <3> QED BY <3>1, <3>2 DEF Elements
  <2> QED BY <1>0, <1>1, <2>2, <2>3
<1>4. n \in Elements(out) /\ m \in 0..Len(out)
  BY <1>0, <1>1 DEF Elements
<1> QED BY <1>1, <1>2, <1>3, <1>4 DEF r, list, out, m

\* What goes in after all it was put after, and is not there, leaves the list rising.
LEMMA InOrderRising ==
    ASSUME NEW walk, NEW n \in Nat, walk.list \in Seq(Nat), walk.at \in 0..Len(walk.list),
           Rising(walk.list), n \notin Elements(walk.list),
           \A i \in 1..walk.at : walk.list[i] < n
    PROVE  LET r == InOrder(walk, n)
           IN Rising(r.list) /\ \A i \in 1..r.at : r.list[i] <= n
<1> DEFINE r == InOrder(walk, n)
           list == walk.list
           out == r.list
           m == r.at
           at == walk.at
<1>0. list \in Seq(Nat) /\ Len(list) \in Nat /\ at \in 0..Len(list)
  OBVIOUS
<1>1. /\ out \in Seq(Nat) /\ Len(out) = Len(list) + 1
      /\ m \in 1..Len(list) + 1 /\ out[m] = n
      /\ \A i \in 1..m - 1 : out[i] = list[i] /\ (at < i => list[i] < n)
      /\ \A i \in m + 1..Len(list) + 1 : out[i] = list[i - 1]
      /\ m <= Len(list) => list[m] >= n
  BY InOrderIs
<1>2. \A i \in 1..at : list[i] < n
  OBVIOUS
<1>3. Rising(list) /\ \A i \in 1..Len(list) : list[i] \in Nat /\ list[i] # n
  BY DEF Elements
<1> HIDE DEF r, list, at, out, m
<1>4. ASSUME NEW i \in 1..m - 1 PROVE out[i] = list[i] /\ list[i] < n
  BY <1>0, <1>1, <1>2, <1>4
<1>5. ASSUME NEW i \in m..Len(list) PROVE list[i] > n
  <2>1. m \in 1..Len(list) /\ i \in 1..Len(list) /\ list[m] > n
    BY <1>0, <1>1, <1>3
  <2>2. CASE i = m
    BY <2>1, <2>2
  <2>3. CASE m < i
    BY <1>3, <2>1, <2>3 DEF Rising
  <2> QED BY <2>1, <2>2, <2>3
<1>6. ASSUME NEW i \in 1..Len(out), NEW j \in 1..Len(out), i < j
      PROVE  out[i] < out[j]
  <2>1. CASE j < m
    <3>1. i \in 1..m - 1 /\ j \in 1..m - 1 /\ i \in 1..Len(list) /\ j \in 1..Len(list)
      <4>1. i \in Int /\ j \in Int /\ m \in Int /\ 1 <= m /\ m <= Len(list) + 1 /\ i < j /\ 1 <= i
        BY <1>0, <1>1, <1>6
      <4> QED BY <1>0, <2>1, <4>1
    <3> QED BY <1>3, <1>4, <1>6, <3>1 DEF Rising
  <2>2. CASE j = m
    <3>1. i \in 1..m - 1
      BY <1>0, <1>1, <1>6, <2>2
    <3> QED BY <1>1, <1>4, <2>2, <3>1
  <2>3. CASE m < j
    <3>1. /\ j \in m + 1..Len(list) + 1 /\ j - 1 \in m..Len(list) /\ j - 1 \in 1..Len(list)
      BY <1>0, <1>1, <2>3
    <3>2. out[j] = list[j - 1] /\ list[j - 1] > n
      BY <1>1, <1>5, <3>1
    <3>3. CASE i < m
      <4>1. i \in 1..m - 1 /\ i \in 1..Len(list)
        BY <1>0, <1>1, <3>3
      <4>2. out[i] < n /\ out[i] \in Nat /\ out[j] \in Nat
        BY <1>3, <1>4, <3>1, <3>2, <4>1
      <4> QED BY <3>2, <4>2
    <3>4. CASE i = m
      BY <1>1, <3>2, <3>4
    <3>5. CASE m < i
      <4>1. i \in m + 1..Len(list) + 1 /\ i - 1 \in 1..Len(list) /\ i - 1 < j - 1
        <5>1. i \in Int /\ j \in Int /\ m \in Int /\ 1 <= m /\ j - 1 <= Len(list) /\ i < j
          BY <1>0, <1>1, <1>6, <3>1
        <5> QED BY <1>0, <3>5, <5>1
      <4> QED BY <1>1, <1>3, <3>1, <3>2, <4>1 DEF Rising
    <3> QED BY <1>1, <3>3, <3>4, <3>5
  <2> QED BY <1>1, <2>1, <2>2, <2>3
<1>7. ASSUME NEW i \in 1..m PROVE out[i] <= n
  <2>1. CASE i = m
    BY <1>1, <2>1
  <2>2. CASE i < m
    <3>1. i \in 1..m - 1 /\ i \in 1..Len(list)
      BY <1>0, <1>1, <2>2
    <3> QED BY <1>3, <1>4, <3>1
  <2> QED BY <1>1, <2>1, <2>2
<1> QED BY <1>6, <1>7 DEF Rising, r, list, out, m

\* h is what the walk through a list is after each of the new ones.
Walks(list, new, h) ==
    /\ DOMAIN h = 0..Len(new)
    /\ h[0] = [list |-> list, at |-> 0]
    /\ \A i \in 1..Len(new) : h[i] = InOrder(h[i - 1], new[i])
IsWalk(list, new, h) ==
    h = [i \in 0..Len(new) |->
            IF i = 0 THEN [list |-> list, at |-> 0] ELSE InOrder(h[i - 1], new[i])]

\* The walk of AllInOrder through a list: what it is after each of the new ones.
LEMMA WalkExists ==
    ASSUME NEW list, NEW new \in Seq(Nat)
    PROVE  \E h : Walks(list, new, h)
<1> DEFINE Upto(n, h) ==
             /\ DOMAIN h = 0..n
             /\ h[0] = [list |-> list, at |-> 0]
             /\ \A i \in 1..n : h[i] = InOrder(h[i - 1], new[i])
           S == {n \in Nat : \E h : Upto(n, h)}
<1>1. 0 \in S
  <2>1. Upto(0, [i \in 0..0 |-> [list |-> list, at |-> 0]])
    OBVIOUS
  <2> QED BY <2>1
<1>2. ASSUME NEW n \in Nat, n \in S PROVE n + 1 \in S
  <2>1. PICK h : Upto(n, h)
    BY <1>2
  <2> DEFINE g == [i \in 0..n + 1 |-> IF i = n + 1 THEN InOrder(h[n], new[n + 1]) ELSE h[i]]
  <2>2. DOMAIN g = 0..n + 1 /\ g[0] = [list |-> list, at |-> 0]
    BY <2>1
  <2>3. ASSUME NEW i \in 1..n + 1 PROVE g[i] = InOrder(g[i - 1], new[i])
    <3>1. CASE i = n + 1
      <4>1. i \in 0..n + 1 /\ i - 1 = n /\ n \in 0..n + 1 /\ n # n + 1
        BY <3>1
      <4>2. g[i] = InOrder(h[n], new[n + 1]) /\ g[n] = h[n]
        BY <3>1, <4>1
      <4> HIDE DEF g
      <4> QED BY <3>1, <4>1, <4>2
    <3>2. CASE i # n + 1
      <4>1. i \in 1..n /\ i \in 0..n + 1 /\ i - 1 \in 0..n + 1 /\ i - 1 # n + 1
        BY <3>2
      <4>2. g[i] = h[i] /\ g[i - 1] = h[i - 1]
        BY <3>2, <4>1
      <4> HIDE DEF g
      <4> QED BY <2>1, <4>1, <4>2
    <3> QED BY <3>1, <3>2
  <2> HIDE DEF g
  <2>4. Upto(n + 1, g) /\ n + 1 \in Nat
    BY <2>2, <2>3
  <2> HIDE DEF Upto
  <2> QED BY <2>4
<1>3. Nat \subseteq S
  <2> HIDE DEF S
  <2> QED BY <1>1, <1>2, NaturalSets
<1>4. Len(new) \in S
  BY <1>3
<1> QED BY <1>4 DEF Walks

\* AllInOrder is the end of such a walk.
LEMMA AllInOrderWalk ==
    ASSUME NEW list, NEW new \in Seq(Nat)
    PROVE  \E h : Walks(list, new, h) /\ AllInOrder(list, new) = h[Len(new)].list
<1> DEFINE f == CHOOSE h : h = [i \in 0..Len(new) |->
                    IF i = 0 THEN [list |-> list, at |-> 0] ELSE InOrder(h[i - 1], new[i])]
<1>0. Len(new) \in Nat
  OBVIOUS
<1>1. \E h : IsWalk(list, new, h)
  <2>1. PICK h : Walks(list, new, h)
    BY WalkExists
  <2> DEFINE g == [i \in 0..Len(new) |-> h[i]]
  <2>2. \A i \in 0..Len(new) : g[i] = IF i = 0 THEN [list |-> list, at |-> 0] ELSE InOrder(g[i - 1], new[i])
    BY <1>0, <2>1 DEF Walks
  <2>3. g = [i \in 0..Len(new) |-> g[i]]
    OBVIOUS
  <2> HIDE DEF g
  <2>4. IsWalk(list, new, g)
    BY <2>2, <2>3 DEF IsWalk
  <2> QED BY <2>4
<1>2. IsWalk(list, new, f)
  BY <1>1 DEF IsWalk
<1>3. AllInOrder(list, new) = f[Len(new)].list
  BY DEF AllInOrder
<1> HIDE DEF f
<1>4. Walks(list, new, f)
  BY <1>0, <1>2 DEF IsWalk, Walks
<1> QED BY <1>3, <1>4

\* The list gets the new ones, and nothing else.
LEMMA AllInOrderHas ==
    ASSUME NEW list \in Seq(Nat), NEW new \in Seq(Nat)
    PROVE  /\ AllInOrder(list, new) \in Seq(Nat)
           /\ Elements(AllInOrder(list, new)) = Elements(list) \cup Elements(new)
<1>1. PICK h : Walks(list, new, h) /\ AllInOrder(list, new) = h[Len(new)].list
  BY AllInOrderWalk
<1> DEFINE Good(i) == /\ h[i].list \in Seq(Nat) /\ h[i].at \in 0..Len(h[i].list)
                      /\ Elements(h[i].list) = Elements(list) \cup {new[j] : j \in 1..i}
           S == {i \in Nat : i <= Len(new) => Good(i)}
<1>0. Len(new) \in Nat /\ Len(list) \in Nat
  OBVIOUS
<1>2. 0 \in S
  <2>1. h[0].list = list /\ h[0].at = 0
    BY <1>1 DEF Walks
  <2>2. {new[j] : j \in 1..0} = {}
    OBVIOUS
  <2> QED BY <1>0, <2>1, <2>2
<1>3. ASSUME NEW i \in Nat, i \in S PROVE i + 1 \in S
  <2>1. SUFFICES ASSUME i + 1 <= Len(new) PROVE Good(i + 1)
    <3> HIDE DEF Good
    <3> QED OBVIOUS
  <2>2. i \in 0..Len(new) /\ i + 1 \in 1..Len(new) /\ (i + 1) - 1 = i
    BY <1>0, <2>1
  <2>3. Good(i) /\ h[i + 1] = InOrder(h[i], new[i + 1]) /\ new[i + 1] \in Nat
    BY <1>0, <1>1, <1>3, <2>2 DEF Walks
  <2>4. /\ h[i + 1].list \in Seq(Nat) /\ h[i + 1].at \in 0..Len(h[i + 1].list)
        /\ Elements(h[i + 1].list) = Elements(h[i].list) \cup {new[i + 1]}
    BY <2>3, InOrderHas
  <2>5. {new[j] : j \in 1..i + 1} = {new[j] : j \in 1..i} \cup {new[i + 1]}
    <3>1. 1..i + 1 = (1..i) \cup {i + 1}
      OBVIOUS
    <3> QED BY <3>1
  <2> QED BY <2>3, <2>4, <2>5
<1>4. Nat \subseteq S
  <2> HIDE DEF S
  <2> QED BY <1>2, <1>3, NaturalSets
<1>5. Good(Len(new))
  <2> HIDE DEF Good
  <2> QED BY <1>0, <1>4
<1> QED BY <1>1, <1>5 DEF Elements

\* Two lists that rise and share nothing give one that rises.
LEMMA AllInOrderRising ==
    ASSUME NEW list \in Seq(Nat), NEW new \in Seq(Nat), Rising(list), Rising(new),
           Elements(list) \cap Elements(new) = {}
    PROVE  Rising(AllInOrder(list, new))
<1>1. PICK h : Walks(list, new, h) /\ AllInOrder(list, new) = h[Len(new)].list
  BY AllInOrderWalk
<1> DEFINE Good(i) == /\ h[i].list \in Seq(Nat) /\ h[i].at \in 0..Len(h[i].list)
                      /\ Elements(h[i].list) = Elements(list) \cup {new[j] : j \in 1..i}
                      /\ Rising(h[i].list)
                      /\ i = 0 => h[i].at = 0
                      /\ i > 0 => \A k \in 1..h[i].at : h[i].list[k] <= new[i]
           S == {i \in Nat : i <= Len(new) => Good(i)}
<1>0. Len(new) \in Nat /\ Len(list) \in Nat
  OBVIOUS
<1>2. 0 \in S
  <2>1. h[0].list = list /\ h[0].at = 0
    BY <1>1 DEF Walks
  <2>2. {new[j] : j \in 1..0} = {}
    OBVIOUS
  <2> QED BY <1>0, <2>1, <2>2
<1>3. ASSUME NEW i \in Nat, i \in S PROVE i + 1 \in S
  <2>1. SUFFICES ASSUME i + 1 <= Len(new) PROVE Good(i + 1)
    <3> HIDE DEF Good
    <3> QED OBVIOUS
  <2>2. i \in 0..Len(new) /\ i + 1 \in 1..Len(new) /\ (i + 1) - 1 = i
    BY <1>0, <2>1
  <2>3. Good(i) /\ h[i + 1] = InOrder(h[i], new[i + 1]) /\ new[i + 1] \in Nat
    BY <1>0, <1>1, <1>3, <2>2 DEF Walks
  <2>4. /\ h[i + 1].list \in Seq(Nat) /\ h[i + 1].at \in 0..Len(h[i + 1].list)
        /\ Elements(h[i + 1].list) = Elements(h[i].list) \cup {new[i + 1]}
    BY <2>3, InOrderHas
  <2>5. {new[j] : j \in 1..i + 1} = {new[j] : j \in 1..i} \cup {new[i + 1]}
    <3>1. 1..i + 1 = (1..i) \cup {i + 1}
      OBVIOUS
    <3> QED BY <3>1
  <2>6. new[i + 1] \notin Elements(h[i].list)
    <3>1. new[i + 1] \in Elements(new)
      BY <2>2 DEF Elements
    <3>2. ASSUME NEW j \in 1..i PROVE new[j] # new[i + 1]
      <4>1. j \in 1..Len(new) /\ j < i + 1 /\ new[j] \in Nat
        BY <1>0, <2>2
      <4> QED BY <2>2, <2>3, <4>1 DEF Rising
    <3> HIDE DEF S
    <3> QED BY <2>3, <3>1, <3>2
  <2>7. \A k \in 1..h[i].at : h[i].list[k] < new[i + 1]
    <3>1. CASE i = 0
      BY <2>3, <3>1
    <3>2. CASE i > 0
      <4>1. i \in 1..Len(new) /\ new[i] < new[i + 1] /\ new[i] \in Nat
        BY <1>0, <2>2, <3>2 DEF Rising
      <4>2. ASSUME NEW k \in 1..h[i].at PROVE h[i].list[k] < new[i + 1]
        <5>0. h[i].list \in Seq(Nat) /\ h[i].at \in 0..Len(h[i].list) /\ h[i].list[k] <= new[i]
          BY <2>3, <3>2
        <5> DEFINE l == h[i].list
        <5>1. l[k] \in Nat
          <6>1. l \in Seq(Nat) /\ Len(l) \in Nat /\ h[i].at \in 0..Len(l)
            BY <5>0
          <6> HIDE DEF l
          <6>2. k \in 1..Len(l)
            BY <6>1
          <6> QED BY <6>1, <6>2
        <5>2. l[k] <= new[i] /\ new[i] < new[i + 1] /\ new[i] \in Nat /\ new[i + 1] \in Nat
          BY <2>3, <4>1, <5>0
        <5> HIDE DEF l
        <5>3. l[k] < new[i + 1]
          BY <5>1, <5>2
        <5> QED BY <5>3 DEF l
      <4> QED BY <4>2
    <3> QED BY <3>1, <3>2
  <2>8. Rising(h[i + 1].list) /\ \A k \in 1..h[i + 1].at : h[i + 1].list[k] <= new[i + 1]
    BY <2>3, <2>6, <2>7, InOrderRising
  <2> QED BY <2>3, <2>4, <2>5, <2>8
<1>4. Nat \subseteq S
  <2> HIDE DEF S
  <2> QED BY <1>2, <1>3, NaturalSets
<1>5. Good(Len(new))
  <2> HIDE DEF Good
  <2> QED BY <1>0, <1>4
<1> QED BY <1>1, <1>5

-----------------------------------------------------------------------------
(* Lists of numbers: their runs, their parts and their turns.              *)

\* Run is how many numbers of the list follow one another from n.
LEMMA RunIs ==
    ASSUME NEW list \in Seq(Nat), NEW n \in Int
    PROVE  /\ Run(list, n) \in 0..Len(list)
           /\ \A i \in 1..Run(list, n) : list[i] = n + i - 1
           /\ Run(list, n) < Len(list) => list[Run(list, n) + 1] # n + Run(list, n)
<1> DEFINE Good(k) == /\ \A i \in 1..k : list[i] = n + i - 1
                      /\ k < Len(list) => list[k + 1] # n + k
           S == {k \in 0..Len(list) : k < Len(list) => list[k + 1] # n + k}
<1>0. Len(list) \in Nat
  OBVIOUS
<1>1. \E k \in 0..Len(list) : Good(k)
  <2>1. Len(list) \in S /\ S \in SUBSET (0..Len(list)) /\ 0 \in Int /\ Len(list) \in Int
    BY <1>0
  <2>2. PICK k \in S : \A j \in 0..k - 1 : j \notin S
    <3> HIDE DEF S
    <3> QED BY <2>1, FirstOf, Zenon
  <2>3. ASSUME NEW i \in 1..k PROVE list[i] = n + i - 1
    <3>1. i - 1 \in 0..k - 1 /\ i - 1 < Len(list) /\ (i - 1) + 1 = i /\ n + (i - 1) = n + i - 1
          /\ i - 1 \in 0..Len(list)
      BY <1>0
    <3>2. i - 1 \notin S
      BY <2>2, <3>1
    <3> QED BY <3>1, <3>2
  <2> QED BY <2>2, <2>3
<1>2. Run(list, n) = CHOOSE k \in 0..Len(list) : Good(k)
  BY DEF Run
<1> HIDE DEF Good
<1>3. Run(list, n) \in 0..Len(list) /\ Good(Run(list, n))
  BY <1>1, <1>2
<1> QED BY <1>3 DEF Good

\* The rest of a list after its run.
LEMMA RestIs ==
    ASSUME NEW list \in Seq(Nat), NEW n \in Int
    PROVE  LET k == Run(list, n)
               rest == SubSeq(list, k + 1, Len(list))
           IN /\ k \in Nat /\ rest \in Seq(Nat) 
              /\ Elements(rest) \subseteq Elements(list)
              /\ \A x \in n..n + k - 1 : x \in Elements(list)
              /\ \A x \in Elements(list) : x \in Elements(rest) \/ x \in n..n + k - 1
              /\ Rising(list) => Rising(rest)
              /\ Rising(list) /\ (\A x \in Elements(list) : x >= n) => \A x \in Elements(rest) : x > n + k
              /\ SubSeq(list, 1, k) \in Seq(Nat) /\ Len(SubSeq(list, 1, k)) = k
              /\ \A i \in 1..k : SubSeq(list, 1, k)[i] = n + i - 1
<1> DEFINE k == Run(list, n)
           rest == SubSeq(list, k + 1, Len(list))
           part == SubSeq(list, 1, k)
<1>0. Len(list) \in Nat /\ k \in Nat /\ k <= Len(list)
  BY RunIs
<1>1. (\A i \in 1..k : list[i] = n + i - 1) /\ (k < Len(list) => list[k + 1] # n + k)
  BY RunIs
<1> HIDE DEF k
<1>2. /\ rest \in Seq(Nat) /\ Len(rest) = Len(list) - k
      /\ \A i \in 1..Len(list) - k : rest[i] = list[k + i]
  <2>1. /\ k + 1 \in 1..Len(list) + 1 /\ Len(list) \in 0..Len(list) /\ k + 1 <= Len(list) + 1
        /\ Len(list) - (k + 1) + 1 = Len(list) - k
    BY <1>0
  <2>2. /\ rest \in Seq(Nat) /\ Len(rest) = Len(list) - (k + 1) + 1
        /\ \A i \in 1..Len(list) - (k + 1) + 1 : rest[i] = list[k + 1 + i - 1]
    BY <2>1, PartOf, Zenon
  <2> HIDE DEF rest
  <2> QED BY <1>0, <2>1, <2>2
<1>3. /\ part \in Seq(Nat) /\ Len(part) = k /\ \A i \in 1..k : part[i] = list[i]
  <2>1. 1 \in 1..Len(list) + 1 /\ k \in 0..Len(list) /\ 1 <= k + 1 /\ k - 1 + 1 = k
    BY <1>0
  <2>2. part \in Seq(Nat) /\ Len(part) = k - 1 + 1 /\ \A i \in 1..k - 1 + 1 : part[i] = list[1 + i - 1]
    BY <2>1, PartOf, Zenon
  <2> HIDE DEF part
  <2> QED BY <1>0, <2>1, <2>2
<1> HIDE DEF rest, part
<1>4. ASSUME NEW x \in Elements(rest)
      PROVE  \E i \in k + 1..Len(list) : list[i] = x /\ rest[i - k] = x
  <2>1. PICK j \in 1..Len(list) - k : rest[j] = x
    BY <1>2 DEF Elements
  <2>2. k + j \in k + 1..Len(list) /\ (k + j) - k = j
    BY <1>0
  <2>3. list[k + j] = x
    BY <1>2, <2>1
  <2> QED BY <2>1, <2>2, <2>3
<1>5. Elements(rest) \subseteq Elements(list)
  <2>1. \A i \in k + 1..Len(list) : i \in 1..Len(list)
    BY <1>0
  <2> QED BY <1>4, <2>1 DEF Elements
<1>6. ASSUME NEW x \in n..n + k - 1 PROVE x \in Elements(list)
  <2>1. x - n + 1 \in 1..k /\ n + (x - n + 1) - 1 = x /\ x - n + 1 \in 1..Len(list)
    BY <1>0
  <2>2. list[x - n + 1] = x
    BY <1>1, <2>1
  <2> QED BY <2>1, <2>2 DEF Elements
<1>7. ASSUME NEW x \in Elements(list) PROVE x \in Elements(rest) \/ x \in n..n + k - 1
  <2>1. PICK i \in 1..Len(list) : list[i] = x
    BY DEF Elements
  <2>2. CASE i <= k
    <3>1. i \in 1..k /\ n + i - 1 \in n..n + k - 1
      BY <1>0, <2>2
    <3> QED BY <1>1, <2>1, <3>1
  <2>3. CASE k < i
    <3>1. i - k \in 1..Len(list) - k /\ k + (i - k) = i
      BY <1>0, <2>3
    <3> QED BY <1>2, <2>1, <3>1 DEF Elements
  <2> QED BY <1>0, <2>2, <2>3
<1>8. ASSUME Rising(list) PROVE Rising(rest)
  <2>1. ASSUME NEW i \in 1..Len(rest), NEW j \in 1..Len(rest), i < j PROVE rest[i] < rest[j]
    <3>1. k + i \in 1..Len(list) /\ k + j \in 1..Len(list) /\ k + i < k + j
      BY <1>0, <1>2, <2>1
    <3>2. list[k + i] < list[k + j]
      BY <1>8, <3>1 DEF Rising
    <3> QED BY <1>2, <3>2
  <2> QED BY <2>1 DEF Rising
<1>9. ASSUME Rising(list), \A x \in Elements(list) : x >= n, NEW x \in Elements(rest) PROVE x > n + k
  <2>1. PICK i \in k + 1..Len(list) : list[i] = x
    BY <1>4
  <2>2. k < Len(list) /\ k + 1 \in 1..Len(list) /\ i \in 1..Len(list)
    BY <1>0
  <2>3. list[k + 1] \in Nat /\ list[i] \in Nat
    BY <2>2
  <2>4. list[k + 1] # n + k
    BY <1>1, <2>2
  <2>5. list[k + 1] >= n + k
    <3>1. CASE k = 0
      <4>1. list[k + 1] \in Elements(list)
        BY <2>2 DEF Elements
      <4> QED BY <1>9, <3>1, <4>1
    <3>2. CASE k > 0
      <4>1. k \in 1..k /\ k \in 1..Len(list) /\ k < k + 1
        BY <1>0, <3>2
      <4>2. list[k] = n + k - 1
        BY <1>1, <4>1
      <4>3. list[k] < list[k + 1]
        BY <1>9, <2>2, <4>1 DEF Rising
      <4> QED BY <1>0, <2>3, <4>2, <4>3
    <3> QED BY <1>0, <3>1, <3>2
  <2>6. list[k + 1] <= list[i]
    <3>1. CASE i = k + 1
      BY <2>3, <3>1
    <3>2. CASE i # k + 1
      <4>1. k + 1 < i
        BY <1>0, <3>2
      <4> QED BY <1>9, <2>2, <2>3, <4>1 DEF Rising
    <3> QED BY <3>1, <3>2
  <2> QED BY <1>0, <2>1, <2>3, <2>4, <2>5, <2>6
<1>10. \A i \in 1..k : part[i] = n + i - 1
  BY <1>1, <1>3
<1> QED BY <1>0, <1>2, <1>3, <1>5, <1>6, <1>7, <1>8, <1>9, <1>10 DEF k, rest, part

\* The parts of a list.
LEMMA SplitHas ==
    ASSUME NEW s \in Seq(Nat), NEW i \in 0..Len(s)
    PROVE  /\ SubSeq(s, 1, i) \in Seq(Nat) /\ SubSeq(s, i + 1, Len(s)) \in Seq(Nat)
           /\ Elements(s) = Elements(SubSeq(s, 1, i)) \cup Elements(SubSeq(s, i + 1, Len(s)))
           /\ Rising(s) => Rising(SubSeq(s, 1, i)) /\ Rising(SubSeq(s, i + 1, Len(s)))
           /\ Distinct(s) => Distinct(SubSeq(s, 1, i)) /\ Distinct(SubSeq(s, i + 1, Len(s)))
           /\ Distinct(s) => Elements(SubSeq(s, 1, i)) \cap Elements(SubSeq(s, i + 1, Len(s))) = {}
           /\ \A x \in Elements(SubSeq(s, 1, i)) : \E j \in 1..i : x = s[j]
<1> DEFINE a == SubSeq(s, 1, i)
           b == SubSeq(s, i + 1, Len(s))
<1>0. Len(s) \in Nat /\ i \in Nat /\ i <= Len(s)
  OBVIOUS
<1>1. /\ a \in Seq(Nat) /\ Len(a) = i /\ \A j \in 1..i : a[j] = s[j]
  <2>1. 1 \in 1..Len(s) + 1 /\ i \in 0..Len(s) /\ 1 <= i + 1 /\ i - 1 + 1 = i
    BY <1>0
  <2>2. a \in Seq(Nat) /\ Len(a) = i - 1 + 1 /\ \A j \in 1..i - 1 + 1 : a[j] = s[1 + j - 1]
    BY <2>1, PartOf, Zenon
  <2> HIDE DEF a
  <2> QED BY <1>0, <2>1, <2>2
<1>2. /\ b \in Seq(Nat) /\ Len(b) = Len(s) - i
      /\ \A j \in 1..Len(s) - i : b[j] = s[i + j]
  <2>1. /\ i + 1 \in 1..Len(s) + 1 /\ Len(s) \in 0..Len(s) /\ i + 1 <= Len(s) + 1
        /\ Len(s) - (i + 1) + 1 = Len(s) - i
    BY <1>0
  <2>2. /\ b \in Seq(Nat) /\ Len(b) = Len(s) - (i + 1) + 1
        /\ \A j \in 1..Len(s) - (i + 1) + 1 : b[j] = s[i + 1 + j - 1]
    BY <2>1, PartOf, Zenon
  <2> HIDE DEF b
  <2> QED BY <1>0, <2>1, <2>2
<1> HIDE DEF a, b
<1>3. ASSUME NEW x \in Elements(a) PROVE \E j \in 1..i : x = s[j]
  BY <1>1 DEF Elements
<1>4. ASSUME NEW x \in Elements(b) PROVE \E j \in i + 1..Len(s) : x = s[j]
  <2>1. PICK j \in 1..Len(s) - i : b[j] = x
    BY <1>2 DEF Elements
  <2>2. i + j \in i + 1..Len(s) /\ s[i + j] = x
    BY <1>0, <1>2, <2>1
  <2> QED BY <2>2
<1>5. \A j \in 1..Len(s) : s[j] \in Elements(a) \cup Elements(b)
  <2>1. ASSUME NEW j \in 1..Len(s) PROVE s[j] \in Elements(a) \cup Elements(b)
    <3>1. CASE j <= i
      <4>1. j \in 1..i
        BY <1>0, <3>1
      <4> QED BY <1>1, <4>1 DEF Elements
    <3>2. CASE i < j
      <4>1. j - i \in 1..Len(s) - i /\ i + (j - i) = j
        BY <1>0, <3>2
      <4> QED BY <1>2, <4>1 DEF Elements
    <3> QED BY <1>0, <3>1, <3>2
  <2> QED BY <2>1
<1>6. Elements(s) = Elements(a) \cup Elements(b)
  <2>1. (\A j \in 1..i : j \in 1..Len(s)) /\ \A j \in i + 1..Len(s) : j \in 1..Len(s)
    BY <1>0
  <2> QED BY <1>3, <1>4, <1>5, <2>1 DEF Elements
<1>7. ASSUME Rising(s) PROVE Rising(a) /\ Rising(b)
  <2>1. ASSUME NEW j \in 1..Len(a), NEW k \in 1..Len(a), j < k PROVE a[j] < a[k]
    <3>1. j \in 1..Len(s) /\ k \in 1..Len(s) /\ a[j] = s[j] /\ a[k] = s[k]
      BY <1>0, <1>1
    <3> QED BY <1>7, <2>1, <3>1 DEF Rising
  <2>2. ASSUME NEW j \in 1..Len(b), NEW k \in 1..Len(b), j < k PROVE b[j] < b[k]
    <3>1. i + j \in 1..Len(s) /\ i + k \in 1..Len(s) /\ b[j] = s[i + j] /\ b[k] = s[i + k] /\ i + j < i + k
      BY <1>0, <1>2, <2>2
    <3> QED BY <1>7, <3>1 DEF Rising
  <2> QED BY <2>1, <2>2 DEF Rising
<1>8. ASSUME Distinct(s) PROVE Distinct(a) /\ Distinct(b) /\ Elements(a) \cap Elements(b) = {}
  <2>1. ASSUME NEW j \in 1..Len(a), NEW k \in 1..Len(a), a[j] = a[k] PROVE j = k
    <3>1. j \in 1..Len(s) /\ k \in 1..Len(s) /\ a[j] = s[j] /\ a[k] = s[k]
      BY <1>0, <1>1
    <3> QED BY <1>8, <2>1, <3>1 DEF Distinct
  <2>2. ASSUME NEW j \in 1..Len(b), NEW k \in 1..Len(b), b[j] = b[k] PROVE j = k
    <3>1. i + j \in 1..Len(s) /\ i + k \in 1..Len(s) /\ b[j] = s[i + j] /\ b[k] = s[i + k]
      BY <1>0, <1>2
    <3>2. i + j = i + k
      BY <1>8, <2>2, <3>1 DEF Distinct
    <3>3. j \in Int /\ k \in Int
      BY <1>2
    <3> QED BY <1>0, <3>2, <3>3
  <2>3. ASSUME NEW x \in Elements(a), x \in Elements(b) PROVE FALSE
    <3>1. PICK j \in 1..i : x = s[j]
      BY <1>3
    <3>2. PICK k \in i + 1..Len(s) : x = s[k]
      BY <1>4, <2>3
    <3>3. j \in 1..Len(s) /\ k \in 1..Len(s) /\ j < k
      BY <1>0
    <3>4. j = k
      BY <1>8, <3>1, <3>2, <3>3 DEF Distinct
    <3> QED BY <3>3, <3>4
  <2> QED BY <2>1, <2>2, <2>3 DEF Distinct
<1> QED BY <1>1, <1>2, <1>3, <1>6, <1>7, <1>8 DEF a, b

\* A list before another.
LEMMA JoinHas ==
    ASSUME NEW a \in Seq(Nat), NEW b \in Seq(Nat)
    PROVE  /\ a \o b \in Seq(Nat) /\ Elements(a \o b) = Elements(a) \cup Elements(b)
           /\ Distinct(a) /\ Distinct(b) /\ Elements(a) \cap Elements(b) = {} => Distinct(a \o b)
<1> DEFINE s == a \o b
<1>0. Len(a) \in Nat /\ Len(b) \in Nat
  OBVIOUS
<1>1. /\ s \in Seq(Nat) /\ Len(s) = Len(a) + Len(b)
      /\ \A i \in 1..Len(a) + Len(b) : s[i] = IF i <= Len(a) THEN a[i] ELSE b[i - Len(a)]
  BY ConcatProperties
<1> HIDE DEF s
<1>2. ASSUME NEW i \in 1..Len(a) PROVE i \in 1..Len(s) /\ s[i] = a[i]
  BY <1>0, <1>1
<1>3. ASSUME NEW i \in 1..Len(b) PROVE Len(a) + i \in 1..Len(s) /\ s[Len(a) + i] = b[i]
  <2>1. Len(a) + i \in 1..Len(a) + Len(b) /\ ~(Len(a) + i <= Len(a)) /\ Len(a) + i - Len(a) = i
    BY <1>0
  <2> QED BY <1>1, <2>1
<1>4. ASSUME NEW i \in 1..Len(s)
      PROVE  \/ i \in 1..Len(a) /\ s[i] = a[i]
             \/ i - Len(a) \in 1..Len(b) /\ s[i] = b[i - Len(a)]
  <2>1. i \in 1..Len(a) + Len(b)
    BY <1>1
  <2>2. CASE i <= Len(a)
    BY <1>0, <1>1, <2>1, <2>2
  <2>3. CASE ~(i <= Len(a))
    <3>1. i - Len(a) \in 1..Len(b)
      BY <1>0, <2>1, <2>3
    <3> QED BY <1>1, <2>1, <2>3, <3>1
  <2> QED BY <2>2, <2>3
<1>5. Elements(s) = Elements(a) \cup Elements(b)
  <2>1. ASSUME NEW x \in Elements(s) PROVE x \in Elements(a) \cup Elements(b)
    BY <1>4 DEF Elements
  <2>2. ASSUME NEW x \in Elements(a) PROVE x \in Elements(s)
    BY <1>2 DEF Elements
  <2>3. ASSUME NEW x \in Elements(b) PROVE x \in Elements(s)
    <3>1. PICK i \in 1..Len(b) : x = b[i]
      BY DEF Elements
    <3> QED BY <1>3, <3>1 DEF Elements
  <2> QED BY <2>1, <2>2, <2>3
<1>6. ASSUME Distinct(a), Distinct(b), Elements(a) \cap Elements(b) = {} PROVE Distinct(s)
  <2>1. ASSUME NEW i \in 1..Len(s), NEW j \in 1..Len(s), s[i] = s[j] PROVE i = j
    <3>1. CASE i \in 1..Len(a) /\ s[i] = a[i]
      <4>1. a[i] \in Elements(a)
        BY <3>1 DEF Elements
      <4>2. ASSUME j - Len(a) \in 1..Len(b), s[j] = b[j - Len(a)] PROVE FALSE
        <5>1. b[j - Len(a)] \in Elements(b)
          BY <4>2 DEF Elements
        <5> QED BY <1>6, <2>1, <3>1, <4>1, <4>2, <5>1
      <4> QED BY <1>4, <1>6, <2>1, <3>1, <4>2 DEF Distinct
    <3>2. CASE i - Len(a) \in 1..Len(b) /\ s[i] = b[i - Len(a)]
      <4>1. b[i - Len(a)] \in Elements(b)
        BY <3>2 DEF Elements
      <4>2. ASSUME j \in 1..Len(a), s[j] = a[j] PROVE FALSE
        <5>1. a[j] \in Elements(a)
          BY <4>2 DEF Elements
        <5> QED BY <1>6, <2>1, <3>2, <4>1, <4>2, <5>1
      <4>3. j - Len(a) \in 1..Len(b) /\ s[j] = b[j - Len(a)]
        BY <1>4, <4>2
      <4>4. i - Len(a) = j - Len(a)
        BY <1>6, <2>1, <3>2, <4>3 DEF Distinct
      <4>5. i \in Int /\ j \in Int
        BY <1>1
      <4> QED BY <1>0, <4>4, <4>5
    <3> QED BY <1>4, <3>1, <3>2
  <2> QED BY <2>1 DEF Distinct
<1> QED BY <1>1, <1>5, <1>6 DEF s

\* A list that is turned has the same members.
LEMMA ReversedHas ==
    ASSUME NEW s \in Seq(Nat)
    PROVE  /\ Reversed(s) \in Seq(Nat) /\ Elements(Reversed(s)) = Elements(s)
           /\ Distinct(s) => Distinct(Reversed(s))
<1> DEFINE r == Reversed(s)
<1>0. Len(s) \in Nat
  OBVIOUS
<1>1. r \in [1..Len(s) -> Nat] /\ \A i \in 1..Len(s) : r[i] = s[Len(s) - i + 1]
  <2>1. \A i \in 1..Len(s) : Len(s) - i + 1 \in 1..Len(s)
    BY <1>0
  <2> QED BY <2>1 DEF Reversed
<1> HIDE DEF r
<1>2. r \in Seq(Nat) /\ Len(r) = Len(s)
  <2>1. r \in Seq(Nat)
    BY <1>0, <1>1, SeqDef
  <2>2. Len(r) \in Nat /\ 1..Len(r) = 1..Len(s)
    BY <1>1, <2>1, LenProperties
  <2> QED BY <1>0, <2>1, <2>2
<1>3. ASSUME NEW i \in 1..Len(s)
      PROVE  Len(s) - i + 1 \in 1..Len(s) /\ Len(s) - (Len(s) - i + 1) + 1 = i
  BY <1>0
<1>4. Elements(r) \subseteq Elements(s)
  <2>1. ASSUME NEW x \in Elements(r) PROVE x \in Elements(s)
    <3>1. PICK i \in 1..Len(s) : x = r[i]
      BY <1>2 DEF Elements
    <3> QED BY <1>1, <1>3, <3>1 DEF Elements
  <2> QED BY <2>1
<1>5. Elements(s) \subseteq Elements(r)
  <2>1. ASSUME NEW i \in 1..Len(s) PROVE r[Len(s) - i + 1] = s[i]
    BY <1>1, <1>3
  <2> QED BY <1>2, <1>3, <2>1 DEF Elements
<1>6. ASSUME Distinct(s), NEW i \in 1..Len(r), NEW j \in 1..Len(r), r[i] = r[j] PROVE i = j
  <2>1. Len(s) - i + 1 = Len(s) - j + 1
    BY <1>1, <1>2, <1>3, <1>6 DEF Distinct
  <2>2. i \in Int /\ j \in Int
    BY <1>2
  <2> QED BY <1>0, <2>1, <2>2
<1> QED BY <1>2, <1>4, <1>5, <1>6 DEF Distinct, r

-----------------------------------------------------------------------------
(* The low bits of a number, and what they are taken for.                  *)

\* A multiple of m, other than 0, is at least m away from 0.
LEMMA Multiples ==
    ASSUME NEW m \in Nat \ {0}, NEW k \in Int, k # 0
    PROVE  m * k >= m \/ m * k <= -m
<1>1. CASE k >= 1
  <2>1. \E j \in Nat : k = j + 1
    <3>1. k - 1 \in Nat /\ k = (k - 1) + 1
      BY <1>1
    <3> QED BY <3>1
  <2>2. PICK j \in Nat : k = j + 1
    BY <2>1
  <2>3. m * k = m * j + m
    BY <2>2
  <2>4. m * j >= 0 /\ m * j \in Int
    OBVIOUS
  <2> QED BY <2>3, <2>4
<1>2. CASE k <= -1
  <2>1. \E j \in Nat : k = - j - 1
    <3>1. - k - 1 \in Nat /\ k = - (- k - 1) - 1
      BY <1>2
    <3> QED BY <3>1
  <2>2. PICK j \in Nat : k = - j - 1
    BY <2>1
  <2>3. m * k = - (m * j) - m
    BY <2>2
  <2>4. m * j >= 0 /\ m * j \in Int
    OBVIOUS
  <2> QED BY <2>3, <2>4
<1> QED BY <1>1, <1>2

\* The remainder and the quotient of a number.
LEMMA Division ==
    ASSUME NEW m \in Nat \ {0}, NEW x \in Int
    PROVE  /\ x % m \in Int /\ 0 <= x % m /\ x % m < m /\ x \div m \in Int
           /\ x = m * (x \div m) + (x % m)
OBVIOUS

\* The low bits of a number stand for it, from a base it is within reach of.
LEMMA LowBits ==
    ASSUME NEW m \in Nat \ {0}, NEW q \in Int, NEW y \in 0..m - 1
    PROVE  (y - m * q) % m = y
<1> DEFINE x == y - m * q
           z == x % m
           t == x \div m
<1>1. x \in Int /\ m * q \in Int /\ x = y - m * q
  OBVIOUS
<1> HIDE DEF x
<1>2. z \in Int /\ 0 <= z /\ z < m /\ t \in Int /\ x = m * t + z
  BY <1>1, Division
<1> HIDE DEF z, t
<1>3. m * (t + q) = m * t + m * q
  BY <1>2
<1>4. y - z = m * (t + q)
  <2>1. m * t \in Int
    BY <1>2
  <2> QED BY <1>1, <1>2, <1>3, <2>1
<1>5. t + q = 0
  <2>1. SUFFICES ASSUME t + q # 0 PROVE FALSE
    OBVIOUS
  <2>2. t + q \in Int
    BY <1>2
  <2>3. m * (t + q) >= m \/ m * (t + q) <= -m
    BY <2>1, <2>2, Multiples
  <2> QED BY <1>2, <1>4, <2>3
<1>6. m * (t + q) = 0
  BY <1>5
<1> QED BY <1>2, <1>4, <1>6 DEF z, x

\* The low bits of a number within m of the base are taken for that number.
LEMMA UnwrappedRestored ==
    ASSUME NEW m \in Nat \ {0}, NEW base \in Nat, NEW n \in Nat, base <= n, n < base + m
    PROVE  Unwrapped(n % m, base, m) = n
<1> DEFINE q == n \div m
           r == n % m
           p == m * q
<1>1. r \in Int /\ q \in Int /\ n = m * q + r
  BY Division
<1> HIDE DEF q, r
<1>2. p \in Int /\ n = p + r
  BY <1>1
<1>3. n - base \in 0..m - 1
  OBVIOUS
<1>4. ((n - base) - p) % m = n - base
  BY <1>1, <1>3, LowBits
<1> HIDE DEF p
<1>5. r - base = (n - base) - p
  BY <1>1, <1>2
<1>6. (r - base) % m = n - base
  BY <1>4, <1>5
<1> QED BY <1>6 DEF Unwrapped, r

\* A number that is within m of the base is taken for itself.
LEMMA UnwrappedNear ==
    ASSUME NEW m \in Nat \ {0}, NEW base \in Int, NEW n \in Int, base <= n, n < base + m
    PROVE  Unwrapped(n, base, m) = n
<1>1. n - base \in 0..m - 1
  OBVIOUS
<1>2. (n - base) % m = n - base
  BY <1>1
<1> QED BY <1>2 DEF Unwrapped

\* One that is before the base is taken for the next that has its low bits.
LEMMA UnwrappedFar ==
    ASSUME NEW m \in Nat \ {0}, NEW base \in Int, NEW n \in Int, n < base, base <= n + m
    PROVE  Unwrapped(n, base, m) = n + m
<1> DEFINE x == n - base
<1>1. x \in Int /\ -m <= x /\ x < 0 /\ n = base + x
  OBVIOUS
<1> HIDE DEF x
<1>2. x % m = x + m
  BY <1>1
<1> QED BY <1>1, <1>2 DEF Unwrapped, x

\* Otherwise they stand for it, or for one that is before it by a multiple.
LEMMA UnwrappedBefore ==
    ASSUME NEW m \in Nat \ {0}, NEW base \in Nat, NEW n \in Nat, base <= n
    PROVE  LET v == Unwrapped(n, base, m)
           IN v \in Nat /\ base <= v /\ (v = n \/ v <= n - m)
<1> DEFINE x == n - base
           z == x % m
<1>1. x \in Nat /\ n = base + x
  OBVIOUS
<1> HIDE DEF x
<1>2. x % m \in Int /\ 0 <= x % m /\ (x % m = x \/ x % m <= x - m)
  BY <1>1
<1> QED BY <1>1, <1>2 DEF Unwrapped, x

\* The bits of a mask, in whole units, are no fewer than those that are needed.
LEMMA RoundedUp ==
    ASSUME NEW m \in Nat \ {0}, NEW x \in Int
    PROVE  m * ((x + m - 1) \div m) >= x
OBVIOUS

-----------------------------------------------------------------------------
(* The types, and what an end knows of the notes of its packets.           *)

Note == [unordered : Seq(Nat), ordered : Seq(Nat), recvd : Nat]
Conn ==
    [lastSendSeq : Nat, highestAcked : Nat, lastSeqRecvd : Nat, lastRecvAckAck : Nat,
     ackMask : SUBSET Nat, notifyQueue : Seq(Note), sendQueue : Seq(Nat), unordered : Seq(Nat),
     waiting : Seq(Nat), notifyEvents : Seq(Nat),
     nextSendEvent : Nat, nextUnordered : Nat, nextRecvEvent : Nat, lastAckedEvent : Int]
Pack ==
    [from : End, type : {"data", "ping", "ack"}, seq : Nat, ack : Nat, mask : SUBSET Nat,
     unordered : Seq(Nat), ordered : Seq(Nat)]
Kinds == {"ordered", "unordered"} \X Nat

TypeInv ==
    /\ conn \in [End -> Conn]
    /\ net \in SUBSET Pack
    /\ processed \in [End -> Seq(Nat)]
    /\ loose \in [End -> Seq(Nat)]
    /\ swallowed \in [End -> SUBSET Kinds]

-----------------------------------------------------------------------------
(* What a sender c has: each event is in one place only, and those on the  *)
(* way are within the window of events.                                    *)

Notes(c) == 1..Len(c.notifyQueue)
OrderedIn(c, i) == Elements(c.notifyQueue[i].ordered)
UnorderedIn(c, i) == Elements(c.notifyQueue[i].unordered)

WindowInv(c) ==
    /\ c.lastSendSeq = c.highestAcked + Len(c.notifyQueue)
    /\ Len(c.notifyQueue) <= Window - 2

Open(c, n) == c.lastAckedEvent < n /\ n < c.nextSendEvent
OrderedNote(c, i) ==
    /\ Rising(c.notifyQueue[i].ordered)
    /\ \A n \in OrderedIn(c, i) :
        /\ Open(c, n) /\ n <= c.lastAckedEvent + EventWindow
        /\ n \notin Elements(c.sendQueue) /\ n \notin Elements(c.notifyEvents)
        /\ \A j \in Notes(c) : n \in OrderedIn(c, j) => i = j
OrderedInv(c) ==
    /\ -1 <= c.lastAckedEvent /\ c.lastAckedEvent < c.nextSendEvent
    /\ Rising(c.sendQueue) /\ \A n \in Elements(c.sendQueue) : Open(c, n)
    /\ Rising(c.notifyEvents)
    /\ \A n \in Elements(c.notifyEvents) : Open(c, n) /\ n \notin Elements(c.sendQueue)
    /\ \A i \in Notes(c) : OrderedNote(c, i)
    /\ \A n \in Nat : Open(c, n) =>
        \/ n \in Elements(c.sendQueue) \/ n \in Elements(c.notifyEvents)
        \/ \E i \in Notes(c) : n \in OrderedIn(c, i)

UnorderedNote(c, i) ==
    /\ Distinct(c.notifyQueue[i].unordered)
    /\ \A n \in UnorderedIn(c, i) :
        /\ n < c.nextUnordered /\ n \notin Elements(c.unordered)
        /\ \A j \in Notes(c) : n \in UnorderedIn(c, j) => i = j
UnorderedInv(c) ==
    /\ Distinct(c.unordered) /\ \A n \in Elements(c.unordered) : n < c.nextUnordered
    /\ \A i \in Notes(c) : UnorderedNote(c, i)

Sender(c) == WindowInv(c) /\ OrderedInv(c) /\ UnorderedInv(c)

-----------------------------------------------------------------------------
(* What the receiver d has of it, whose other events are l, when of the    *)
(* sender those of w were swallowed.                                       *)

Has(d, n) == n < d.nextRecvEvent \/ n \in Elements(d.waiting)
\* No event was swallowed that the receiver is past, or waits for.
Healthy(d, w) == \A x \in w : x[1] = "ordered" => x[2] > d.nextRecvEvent
Reached(d, w, n) == Has(d, n) \/ <<"ordered", n>> \in w
ReachedLoose(l, w, n) == n \in Elements(l) \/ <<"unordered", n>> \in w

\* The events of a packet that arrived, and of one that did not and never will.
Told(d, l, w, note) ==
    /\ note.recvd <= d.highestAcked
    /\ \A n \in Elements(note.unordered) : ReachedLoose(l, w, n)
    /\ Healthy(d, w) => \A n \in Elements(note.ordered) : Reached(d, w, n)
Missed(d, l, note) ==
    /\ \A n \in Elements(note.unordered) : n \notin Elements(l)
    /\ \A n \in Elements(note.ordered) : ~Has(d, n)
Fate(d, l, w, note, arrived) == IF arrived THEN Told(d, l, w, note) ELSE Missed(d, l, note)

\* What the sender has done is true of the receiver.
KnownInv(c, d, l, w) ==
    /\ \A n \in Elements(c.sendQueue) : ~Has(d, n)
    /\ \A n \in Elements(c.unordered) : n \notin Elements(l)
    /\ Healthy(d, w) =>
        \A n \in Nat : n <= c.lastAckedEvent \/ n \in Elements(c.notifyEvents) => Reached(d, w, n)
    /\ \A n \in Nat : n < c.nextUnordered =>
        \/ n \in Elements(c.unordered) \/ ReachedLoose(l, w, n)
        \/ \E i \in Notes(c) : n \in UnorderedIn(c, i)
    /\ \A i \in Notes(c) :
        /\ c.notifyQueue[i].recvd <= c.lastSeqRecvd
        /\ Fate(d, l, w, c.notifyQueue[i], d.lastSeqRecvd - (c.highestAcked + i) \in d.ackMask)

\* So is what a header tells it.
Tells(c, d, l, w, ack, mask) ==
    \A i \in Notes(c) : c.highestAcked + i <= ack =>
        Fate(d, l, w, c.notifyQueue[i], ack - (c.highestAcked + i) \in mask)

-----------------------------------------------------------------------------

\* What is assumed of the constants.
LEMMA Constants ==
    /\ Window \in Nat /\ Window >= 3 /\ Delay \in Nat /\ First \in Nat /\ AckUnit \in Nat \ {0}
    /\ SeqMod \in Nat \ {0} /\ Window + Delay <= SeqMod
    /\ AckMod \in Nat \ {0} /\ Window + Delay <= AckMod
    /\ EventMod \in Nat \ {0} /\ EventWindow \in Nat /\ EventWindow <= EventMod
BY WindowAssumption

\* There are two ends, each the peer of the other.
LEMMA PeerIs ==
    ASSUME NEW e \in End
    PROVE  /\ Peer(e) \in End /\ Peer(e) # e /\ Peer(Peer(e)) = e
           /\ \A f \in End : f = e \/ f = Peer(e)
<1>1. PICK a, b : a \in End /\ b \in End /\ a # b /\ End = {a, b}
  BY EndAssumption
<1>2. Peer(a) = b
  <2>1. \E p \in End : p # a
    BY <1>1
  <2>2. Peer(a) \in End /\ Peer(a) # a
    BY <2>1 DEF Peer
  <2> QED BY <1>1, <2>2
<1>3. Peer(b) = a
  <2>1. \E p \in End : p # b
    BY <1>1
  <2>2. Peer(b) \in End /\ Peer(b) # b
    BY <2>1 DEF Peer
  <2> QED BY <1>1, <2>2
<1> QED BY <1>1, <1>2, <1>3

\* The notes after the first is taken.
LEMMA TailIs ==
    ASSUME NEW c \in Conn, c.notifyQueue # <<>>
    PROVE  /\ c.notifyQueue \in Seq(Note) /\ Len(c.notifyQueue) \in Nat /\ Len(c.notifyQueue) >= 1
           /\ Tail(c.notifyQueue) \in Seq(Note) /\ Len(Tail(c.notifyQueue)) = Len(c.notifyQueue) - 1
           /\ Head(c.notifyQueue) = c.notifyQueue[1] /\ Head(c.notifyQueue) \in Note
           /\ \A i \in 1..Len(c.notifyQueue) - 1 : Tail(c.notifyQueue)[i] = c.notifyQueue[i + 1]
<1>1. c.notifyQueue \in Seq(Note)
  BY DEF Conn
<1> QED BY <1>1

\* What n says is the same as c, but for what follows.
Rest(c, n) ==
    /\ n.lastSendSeq = c.lastSendSeq /\ n.lastSeqRecvd = c.lastSeqRecvd /\ n.ackMask = c.ackMask
    /\ n.waiting = c.waiting /\ n.nextRecvEvent = c.nextRecvEvent
    /\ n.nextSendEvent = c.nextSendEvent /\ n.nextUnordered = c.nextUnordered

\* The record of an end after the notify of a packet that was lost: handleNotify(false).
LEMMA DroppedIs ==
    ASSUME NEW c \in Conn, c.notifyQueue # <<>>
    PROVE  LET n == HandleNotify(c, FALSE)
               note == c.notifyQueue[1]
           IN /\ n \in Conn /\ Rest(c, n)
              /\ n.highestAcked = c.highestAcked + 1 /\ n.notifyQueue = Tail(c.notifyQueue)
              /\ n.lastRecvAckAck = c.lastRecvAckAck
              /\ n.lastAckedEvent = c.lastAckedEvent /\ n.notifyEvents = c.notifyEvents
              /\ n.sendQueue = AllInOrder(c.sendQueue, note.ordered)
              /\ n.unordered = Reversed(note.unordered) \o c.unordered
<1> DEFINE note == c.notifyQueue[1]
           rest == [c EXCEPT !.notifyQueue = Tail(@), !.highestAcked = @ + 1]
           n == HandleNotify(c, FALSE)
<1>1. Tail(c.notifyQueue) \in Seq(Note) /\ Head(c.notifyQueue) = note /\ note \in Note
  BY TailIs
<1>2. note.ordered \in Seq(Nat) /\ note.unordered \in Seq(Nat)
  BY <1>1 DEF Note
<1>3. c.sendQueue \in Seq(Nat) /\ c.unordered \in Seq(Nat) /\ c.highestAcked + 1 \in Nat
  BY DEF Conn
<1>4. n = [rest EXCEPT !.sendQueue = AllInOrder(@, note.ordered),
                       !.unordered = Reversed(note.unordered) \o @]
  BY <1>1 DEF HandleNotify, PacketDropped
<1> HIDE DEF note, n
<1>5. rest \in Conn /\ rest.sendQueue = c.sendQueue /\ rest.unordered = c.unordered
  BY <1>1, <1>3 DEF Conn
<1>6. AllInOrder(c.sendQueue, note.ordered) \in Seq(Nat) /\ Reversed(note.unordered) \o c.unordered \in Seq(Nat)
  BY <1>2, <1>3, AllInOrderHas, ReversedHas, JoinHas
<1>7. n \in Conn
  <2> HIDE DEF rest
  <2> QED BY <1>4, <1>5, <1>6 DEF Conn
<1>8. /\ n.sendQueue = AllInOrder(c.sendQueue, note.ordered)
      /\ n.unordered = Reversed(note.unordered) \o c.unordered
  <2> HIDE DEF rest
  <2> QED BY <1>4, <1>5 DEF Conn
<1>9. /\ Rest(c, n)
      /\ n.highestAcked = c.highestAcked + 1 /\ n.notifyQueue = Tail(c.notifyQueue)
      /\ n.lastRecvAckAck = c.lastRecvAckAck
      /\ n.lastAckedEvent = c.lastAckedEvent /\ n.notifyEvents = c.notifyEvents
  BY <1>4 DEF Conn, Rest
<1> QED BY <1>7, <1>8, <1>9 DEF note, n

\* The record of an end after the notify of a packet that arrived: handleNotify(true).
LEMMA ReceivedIs ==
    ASSUME NEW c \in Conn, c.notifyQueue # <<>>
    PROVE  LET n == HandleNotify(c, TRUE)
               note == c.notifyQueue[1]
               list == AllInOrder(c.notifyEvents, note.ordered)
               acked == Run(list, c.lastAckedEvent + 1)
           IN /\ n \in Conn /\ Rest(c, n)
              /\ n.highestAcked = c.highestAcked + 1 /\ n.notifyQueue = Tail(c.notifyQueue)
              /\ n.lastRecvAckAck = note.recvd
              /\ n.sendQueue = c.sendQueue /\ n.unordered = c.unordered
              /\ n.notifyEvents = SubSeq(list, acked + 1, Len(list))
              /\ n.lastAckedEvent = c.lastAckedEvent + acked
<1> DEFINE note == c.notifyQueue[1]
           rest == [c EXCEPT !.notifyQueue = Tail(@), !.highestAcked = @ + 1]
           list == AllInOrder(c.notifyEvents, note.ordered)
           acked == Run(list, c.lastAckedEvent + 1)
           new == SubSeq(list, acked + 1, Len(list))
           n == HandleNotify(c, TRUE)
<1>1. Tail(c.notifyQueue) \in Seq(Note) /\ Head(c.notifyQueue) = note /\ note \in Note
  BY TailIs
<1>2. note.ordered \in Seq(Nat) /\ note.recvd \in Nat
  BY <1>1 DEF Note
<1>3. c.notifyEvents \in Seq(Nat) /\ c.lastAckedEvent + 1 \in Int /\ c.lastAckedEvent \in Int /\ c.highestAcked + 1 \in Nat
  BY DEF Conn
<1>4. rest \in Conn /\ rest.notifyEvents = c.notifyEvents /\ rest.lastAckedEvent = c.lastAckedEvent
  <2> HIDE DEF note
  <2> QED BY <1>1, <1>3 DEF Conn
<1>5. PacketReceived(rest, note) = [rest EXCEPT !.notifyEvents = new, !.lastAckedEvent = @ + acked]
  <2> HIDE DEF rest, note
  <2> QED BY <1>4 DEF PacketReceived
<1>6. n = [[rest EXCEPT !.notifyEvents = new, !.lastAckedEvent = @ + acked] EXCEPT !.lastRecvAckAck = note.recvd]
  <2>1. n = [PacketReceived(rest, Head(c.notifyQueue)) EXCEPT !.lastRecvAckAck = Head(c.notifyQueue).recvd]
    BY DEF HandleNotify
  <2> HIDE DEF n, rest, new, acked, list, note
  <2> QED BY <1>1, <1>5, <2>1
<1> HIDE DEF n, note
<1>7. list \in Seq(Nat)
  BY <1>2, <1>3, AllInOrderHas
<1> HIDE DEF list
<1>8. new \in Seq(Nat) /\ acked \in Nat
  BY <1>3, <1>7, RestIs
<1> HIDE DEF new, acked
<1>9. n \in Conn /\ n.notifyEvents = new /\ n.lastAckedEvent = c.lastAckedEvent + acked
  <2>1. c.lastAckedEvent + acked \in Int
    BY <1>3, <1>8
  <2> HIDE DEF rest
  <2> QED BY <1>2, <1>4, <1>6, <1>8, <2>1 DEF Conn
<1>10. /\ Rest(c, n)
       /\ n.highestAcked = c.highestAcked + 1 /\ n.notifyQueue = Tail(c.notifyQueue)
       /\ n.lastRecvAckAck = note.recvd /\ n.sendQueue = c.sendQueue /\ n.unordered = c.unordered
  BY <1>6 DEF Conn, Rest
<1> QED BY <1>9, <1>10 DEF n, note, list, acked, new

-----------------------------------------------------------------------------
(* The notify of a packet: the ordered events of its note.                 *)

\* What the types give of a note.
LEMMA NoteIs ==
    ASSUME NEW c \in Conn, NEW i \in Notes(c)
    PROVE  /\ c.notifyQueue[i] \in Note
           /\ c.notifyQueue[i].ordered \in Seq(Nat) /\ c.notifyQueue[i].unordered \in Seq(Nat)
           /\ c.notifyQueue[i].recvd \in Nat
           /\ OrderedIn(c, i) \subseteq Nat /\ UnorderedIn(c, i) \subseteq Nat
<1>1. c.notifyQueue \in Seq(Note)
  BY DEF Conn
<1>2. c.notifyQueue[i] \in Note
  BY <1>1 DEF Notes
<1>3. c.notifyQueue[i].ordered \in Seq(Nat) /\ c.notifyQueue[i].unordered \in Seq(Nat) /\ c.notifyQueue[i].recvd \in Nat
  BY <1>2 DEF Note
<1>4. \A s \in Seq(Nat) : Elements(s) \subseteq Nat
  BY DEF Elements
<1> QED BY <1>2, <1>3, <1>4 DEF OrderedIn, UnorderedIn

\* n has the notes of c but the first.
LEMMA NotesAfter ==
    ASSUME NEW c \in Conn, NEW n \in Conn, c.notifyQueue # <<>>, n.notifyQueue = Tail(c.notifyQueue)
    PROVE  /\ 1 \in Notes(c) /\ Len(n.notifyQueue) = Len(c.notifyQueue) - 1 /\ Len(c.notifyQueue) \in Nat
           /\ \A i \in Notes(n) : /\ i \in Nat /\ i >= 1 /\ i + 1 \in Notes(c)
                                  /\ n.notifyQueue[i] = c.notifyQueue[i + 1]
                                  /\ OrderedIn(n, i) = OrderedIn(c, i + 1)
                                  /\ UnorderedIn(n, i) = UnorderedIn(c, i + 1)
           /\ \A i \in Notes(c) : i # 1 => /\ i - 1 \in Notes(n) /\ (i - 1) + 1 = i
                                           /\ OrderedIn(n, i - 1) = OrderedIn(c, i)
                                           /\ UnorderedIn(n, i - 1) = UnorderedIn(c, i)
<1>1. /\ Len(c.notifyQueue) \in Nat /\ Len(c.notifyQueue) >= 1
      /\ Len(n.notifyQueue) = Len(c.notifyQueue) - 1
      /\ \A i \in 1..Len(c.notifyQueue) - 1 : n.notifyQueue[i] = c.notifyQueue[i + 1]
  BY TailIs
<1>2. ASSUME NEW i \in Notes(n)
      PROVE  i \in Nat /\ i >= 1 /\ i + 1 \in Notes(c) /\ n.notifyQueue[i] = c.notifyQueue[i + 1]
  BY <1>1 DEF Notes
<1>3. ASSUME NEW i \in Notes(c), i # 1
      PROVE  i - 1 \in Notes(n) /\ (i - 1) + 1 = i /\ n.notifyQueue[i - 1] = c.notifyQueue[i]
  <2>1. i - 1 \in Notes(n) /\ (i - 1) + 1 = i
    BY <1>1, <1>3 DEF Notes
  <2> QED BY <1>2, <2>1
<1>4. 1 \in Notes(c)
  BY <1>1 DEF Notes
<1> QED BY <1>1, <1>2, <1>3, <1>4 DEF OrderedIn, UnorderedIn

\* The window of packets moves on with the note that is taken.
LEMMA WindowAfter ==
    ASSUME NEW c \in Conn, NEW n \in Conn, c.notifyQueue # <<>>, n.notifyQueue = Tail(c.notifyQueue),
           n.lastSendSeq = c.lastSendSeq, n.highestAcked = c.highestAcked + 1, WindowInv(c)
    PROVE  WindowInv(n)
<1>1. Len(n.notifyQueue) = Len(c.notifyQueue) - 1 /\ Len(c.notifyQueue) \in Nat
  BY NotesAfter
<1>2. c.highestAcked \in Nat /\ Window \in Nat
  BY Constants DEF Conn
<1> QED BY <1>1, <1>2 DEF WindowInv

\* The ordered events of a lost packet go back to the queue, and only they.
LEMMA DroppedOrdered ==
    ASSUME NEW c \in Conn, NEW n \in Conn, c.notifyQueue # <<>>, n.notifyQueue = Tail(c.notifyQueue),
           Rest(c, n), n.lastAckedEvent = c.lastAckedEvent, n.notifyEvents = c.notifyEvents,
           n.sendQueue = AllInOrder(c.sendQueue, c.notifyQueue[1].ordered), OrderedInv(c)
    PROVE  OrderedInv(n) /\ Elements(n.sendQueue) = Elements(c.sendQueue) \cup OrderedIn(c, 1)
<1>0. c.sendQueue \in Seq(Nat)
  BY DEF Conn
<1>1. 1 \in Notes(c) /\ c.notifyQueue[1].ordered \in Seq(Nat)
  BY NotesAfter, NoteIs
<1>2. OrderedNote(c, 1)
  BY <1>1 DEF OrderedInv
<1>3. Elements(n.sendQueue) = Elements(c.sendQueue) \cup OrderedIn(c, 1)
  BY <1>0, <1>1, AllInOrderHas DEF OrderedIn
<1>4. Rising(n.sendQueue)
  <2>1. Elements(c.sendQueue) \cap Elements(c.notifyQueue[1].ordered) = {} /\ Rising(c.notifyQueue[1].ordered)
    BY <1>2 DEF OrderedNote, OrderedIn
  <2>2. Rising(c.sendQueue)
    BY DEF OrderedInv
  <2> QED BY <1>0, <1>1, <2>1, <2>2, AllInOrderRising
<1>5. \A x : Open(n, x) <=> Open(c, x)
  BY DEF Open, Rest
<1>6. ASSUME NEW i \in Notes(n) PROVE OrderedNote(n, i)
  <2>1. i + 1 \in Notes(c) /\ n.notifyQueue[i] = c.notifyQueue[i + 1] /\ OrderedIn(n, i) = OrderedIn(c, i + 1) /\ i >= 1 /\ i \in Nat
    BY <1>6, NotesAfter
  <2>2. OrderedNote(c, i + 1) /\ i + 1 # 1
    BY <2>1 DEF OrderedInv
  <2>3. ASSUME NEW x \in OrderedIn(n, i)
        PROVE  /\ Open(n, x) /\ x <= n.lastAckedEvent + EventWindow
               /\ x \notin Elements(n.sendQueue) /\ x \notin Elements(n.notifyEvents)
    <3>1. Open(c, x) /\ x <= c.lastAckedEvent + EventWindow /\ x \notin Elements(c.sendQueue) /\ x \notin Elements(c.notifyEvents)
      BY <2>1, <2>2, <2>3 DEF OrderedNote
    <3>2. x \notin OrderedIn(c, 1)
      BY <1>1, <2>1, <2>2, <2>3 DEF OrderedNote
    <3> QED BY <1>3, <1>5, <3>1, <3>2
  <2>4. ASSUME NEW x \in OrderedIn(n, i), NEW j \in Notes(n), x \in OrderedIn(n, j) PROVE i = j
    <3>1. j + 1 \in Notes(c) /\ OrderedIn(n, j) = OrderedIn(c, j + 1) /\ j \in Nat
      BY NotesAfter
    <3>2. i + 1 = j + 1
      BY <2>1, <2>2, <2>4, <3>1 DEF OrderedNote
    <3> QED BY <2>1, <3>1, <3>2
  <2> QED BY <2>1, <2>2, <2>3, <2>4 DEF OrderedNote
<1>7. ASSUME NEW x \in Nat, Open(n, x)
      PROVE  \/ x \in Elements(n.sendQueue) \/ x \in Elements(n.notifyEvents)
             \/ \E i \in Notes(n) : x \in OrderedIn(n, i)
  <2>1. \/ x \in Elements(c.sendQueue) \/ x \in Elements(c.notifyEvents)
        \/ \E i \in Notes(c) : x \in OrderedIn(c, i)
    BY <1>5, <1>7 DEF OrderedInv
  <2>2. ASSUME NEW i \in Notes(c), x \in OrderedIn(c, i), i # 1 PROVE \E j \in Notes(n) : x \in OrderedIn(n, j)
    BY <2>2, NotesAfter
  <2> QED BY <1>3, <2>1, <2>2
<1>8. \A x \in Elements(n.sendQueue) : Open(n, x)
  BY <1>2, <1>3, <1>5 DEF OrderedInv, OrderedNote
<1>9. \A x \in Elements(n.notifyEvents) : Open(n, x) /\ x \notin Elements(n.sendQueue)
  BY <1>2, <1>3, <1>5 DEF OrderedInv, OrderedNote
<1> QED BY <1>3, <1>4, <1>6, <1>7, <1>8, <1>9 DEF OrderedInv, Rest

\* Those of a packet that arrived are acknowledged, or wait for the ones before them.
LEMMA ReceivedOrdered ==
    ASSUME NEW c \in Conn, NEW n \in Conn, c.notifyQueue # <<>>, n.notifyQueue = Tail(c.notifyQueue),
           Rest(c, n), n.sendQueue = c.sendQueue, NEW list, NEW acked,
           list = AllInOrder(c.notifyEvents, c.notifyQueue[1].ordered),
           acked = Run(list, c.lastAckedEvent + 1),
           n.notifyEvents = SubSeq(list, acked + 1, Len(list)),
           n.lastAckedEvent = c.lastAckedEvent + acked, OrderedInv(c)
    PROVE  /\ OrderedInv(n)
           /\ \A x \in Nat : x <= n.lastAckedEvent \/ x \in Elements(n.notifyEvents) =>
                x <= c.lastAckedEvent \/ x \in Elements(c.notifyEvents) \/ x \in OrderedIn(c, 1)
<1> DEFINE base == c.lastAckedEvent
<1>0. c.notifyEvents \in Seq(Nat) /\ base \in Int /\ base >= -1 /\ c.nextSendEvent \in Nat /\ EventWindow \in Nat
      /\ c.sendQueue \in Seq(Nat)
  BY Constants DEF Conn, OrderedInv
<1>1. 1 \in Notes(c) /\ c.notifyQueue[1].ordered \in Seq(Nat)
  BY NotesAfter, NoteIs
<1>2. OrderedNote(c, 1)
  BY <1>1 DEF OrderedInv
<1>3. list \in Seq(Nat) /\ Elements(list) = Elements(c.notifyEvents) \cup OrderedIn(c, 1)
  BY <1>0, <1>1, AllInOrderHas DEF OrderedIn
<1>4. Rising(list)
  <2>1. Elements(c.notifyEvents) \cap Elements(c.notifyQueue[1].ordered) = {} /\ Rising(c.notifyQueue[1].ordered)
    BY <1>2 DEF OrderedNote, OrderedIn
  <2>2. Rising(c.notifyEvents)
    BY DEF OrderedInv
  <2> QED BY <1>0, <1>1, <2>1, <2>2, AllInOrderRising
<1>5. \A x \in Elements(list) : Open(c, x) /\ x \notin Elements(c.sendQueue) /\ x \in Nat
  <2>1. Elements(list) \subseteq Nat
    BY <1>3 DEF Elements
  <2> QED BY <1>2, <1>3, <2>1 DEF OrderedNote, OrderedInv
<1>6. \A x \in Elements(list) : x >= base + 1
  BY <1>0, <1>5 DEF Open
<1>7. /\ acked \in Nat
      /\ n.notifyEvents \in Seq(Nat) /\ Elements(n.notifyEvents) \subseteq Elements(list)
      /\ \A x \in base + 1..base + 1 + acked - 1 : x \in Elements(list)
      /\ \A x \in Elements(list) : x \in Elements(n.notifyEvents) \/ x \in base + 1..base + 1 + acked - 1
      /\ Rising(n.notifyEvents)
      /\ \A x \in Elements(n.notifyEvents) : x > base + 1 + acked
  <2> DEFINE m == base + 1
             k == Run(list, m)
             rest == SubSeq(list, k + 1, Len(list))
  <2>1. m \in Int
    BY <1>0
  <2>2. acked = k /\ n.notifyEvents = rest
    OBVIOUS
  <2> HIDE DEF m
  <2>3. /\ k \in Nat /\ rest \in Seq(Nat) /\ Elements(rest) \subseteq Elements(list)
        /\ \A x \in m..m + k - 1 : x \in Elements(list)
        /\ \A x \in Elements(list) : x \in Elements(rest) \/ x \in m..m + k - 1
        /\ Rising(list) => Rising(rest)
        /\ Rising(list) /\ (\A x \in Elements(list) : x >= m) => \A x \in Elements(rest) : x > m + k
    BY <1>3, <2>1, RestIs
  <2> HIDE DEF k, rest
  <2>4. \A x \in Elements(rest) : x > m + k
    BY <1>4, <1>6, <2>3 DEF m
  <2> QED BY <1>4, <2>2, <2>3, <2>4 DEF m
<1> DEFINE top == n.lastAckedEvent
<1>8. top = base + acked /\ top \in Int
  BY <1>0, <1>7
<1>9. \A x \in base + 1..top : x \in Elements(list)
  <2>1. base + 1 + acked - 1 = top
    BY <1>0, <1>7, <1>8
  <2> QED BY <1>7, <2>1
<1>10. \A x \in Elements(list) : x \in Elements(n.notifyEvents) \/ x \in base + 1..top
  <2>1. base + 1 + acked - 1 = top
    BY <1>0, <1>7, <1>8
  <2> QED BY <1>7, <2>1
<1>11. \A x \in Elements(n.notifyEvents) : x > top
  <2>1. ASSUME NEW x \in Elements(n.notifyEvents) PROVE x > top
    <3>1. x \in Nat /\ x > base + 1 + acked
      BY <1>5, <1>7
    <3> QED BY <1>0, <1>7, <1>8, <3>1
  <2> QED BY <2>1
<1>12. top < n.nextSendEvent /\ -1 <= top /\ base <= top /\ n.nextSendEvent = c.nextSendEvent
  <2>1. n.nextSendEvent = c.nextSendEvent /\ base < c.nextSendEvent
    BY DEF Rest, OrderedInv
  <2>2. CASE acked = 0
    BY <1>0, <1>7, <1>8, <2>1, <2>2
  <2>3. CASE acked # 0
    <3>1. top \in base + 1..top
      BY <1>0, <1>7, <1>8, <2>3
    <3>2. top < c.nextSendEvent
      BY <1>5, <1>9, <3>1 DEF Open
    <3> QED BY <1>0, <1>7, <1>8, <2>1, <3>2
  <2> QED BY <2>2, <2>3
<1> HIDE DEF top, base
<1>13. ASSUME NEW x \in Nat, Open(c, x), x \notin Elements(list) PROVE Open(n, x)
  <2>1. base < x /\ x < c.nextSendEvent
    BY <1>13 DEF Open, base
  <2>2. x \notin base + 1..top
    BY <1>9, <1>13
  <2>3. top < x
    BY <1>0, <1>8, <2>1, <2>2
  <2> QED BY <1>12, <2>1, <2>3 DEF Open, top
<1>14. ASSUME NEW x \in Nat, Open(n, x) PROVE Open(c, x)
  <2>1. top < x /\ x < c.nextSendEvent
    BY <1>12, <1>14 DEF Open, top
  <2> QED BY <1>0, <1>8, <1>12, <2>1 DEF Open, base
<1>15. ASSUME NEW i \in Notes(n) PROVE OrderedNote(n, i)
  <2>1. i + 1 \in Notes(c) /\ n.notifyQueue[i] = c.notifyQueue[i + 1] /\ OrderedIn(n, i) = OrderedIn(c, i + 1) /\ i >= 1 /\ i \in Nat
    BY <1>15, NotesAfter
  <2>2. OrderedNote(c, i + 1) /\ i + 1 # 1 /\ OrderedIn(n, i) \subseteq Nat
    BY <2>1, NoteIs DEF OrderedInv
  <2>3. ASSUME NEW x \in OrderedIn(n, i)
        PROVE  /\ Open(n, x) /\ x <= n.lastAckedEvent + EventWindow
               /\ x \notin Elements(n.sendQueue) /\ x \notin Elements(n.notifyEvents)
    <3>1. Open(c, x) /\ x <= base + EventWindow /\ x \notin Elements(c.sendQueue) /\ x \notin Elements(c.notifyEvents) /\ x \in Nat
      BY <2>1, <2>2, <2>3 DEF OrderedNote, base
    <3>2. x \notin OrderedIn(c, 1)
      BY <1>1, <2>1, <2>2, <2>3 DEF OrderedNote
    <3>3. x \notin Elements(list)
      BY <1>3, <3>1, <3>2
    <3>4. x <= top + EventWindow
      BY <1>0, <1>8, <1>12, <3>1
    <3> QED BY <1>7, <1>13, <3>1, <3>3, <3>4 DEF top
  <2>4. ASSUME NEW x \in OrderedIn(n, i), NEW j \in Notes(n), x \in OrderedIn(n, j) PROVE i = j
    <3>1. j + 1 \in Notes(c) /\ OrderedIn(n, j) = OrderedIn(c, j + 1) /\ j \in Nat
      BY NotesAfter
    <3>2. i + 1 = j + 1
      BY <2>1, <2>2, <2>4, <3>1 DEF OrderedNote
    <3> QED BY <2>1, <3>1, <3>2
  <2> QED BY <2>1, <2>2, <2>3, <2>4 DEF OrderedNote
<1>16. ASSUME NEW x \in Nat, Open(n, x)
       PROVE  \/ x \in Elements(n.sendQueue) \/ x \in Elements(n.notifyEvents)
              \/ \E i \in Notes(n) : x \in OrderedIn(n, i)
  <2>1. \/ x \in Elements(c.sendQueue) \/ x \in Elements(c.notifyEvents)
        \/ \E i \in Notes(c) : x \in OrderedIn(c, i)
    BY <1>14, <1>16 DEF OrderedInv
  <2>2. ASSUME x \in Elements(list) PROVE x \in Elements(n.notifyEvents)
    <3>1. top < x
      BY <1>16 DEF Open, top
    <3>2. x \notin base + 1..top
      BY <1>0, <1>8, <3>1
    <3> QED BY <1>10, <2>2, <3>2
  <2>3. ASSUME NEW i \in Notes(c), x \in OrderedIn(c, i), i # 1 PROVE \E j \in Notes(n) : x \in OrderedIn(n, j)
    BY <2>3, NotesAfter
  <2> QED BY <1>3, <2>1, <2>2, <2>3
<1>17. ASSUME NEW x \in Elements(n.sendQueue) PROVE Open(n, x)
  <2>1. x \in Nat /\ Open(c, x) /\ x \notin Elements(list)
    <3>1. x \in Nat
      BY <1>0, <1>17 DEF Elements
    <3> QED BY <1>5, <1>17, <3>1 DEF OrderedInv
  <2> QED BY <1>13, <2>1
<1>18. ASSUME NEW x \in Elements(n.notifyEvents) PROVE Open(n, x) /\ x \notin Elements(n.sendQueue)
  <2>1. x \in Elements(list) /\ x > top
    BY <1>7, <1>11
  <2>2. x < c.nextSendEvent /\ x \notin Elements(n.sendQueue)
    BY <1>5, <2>1 DEF Open
  <2> QED BY <1>12, <2>1, <2>2 DEF Open, top
<1>19. ASSUME NEW x \in Nat, x <= top \/ x \in Elements(n.notifyEvents)
       PROVE  x <= base \/ x \in Elements(c.notifyEvents) \/ x \in OrderedIn(c, 1)
  <2>1. CASE x \in Elements(n.notifyEvents)
    BY <1>3, <1>7, <2>1
  <2>2. CASE x <= top /\ ~(x <= base)
    <3>1. x \in base + 1..top
      BY <1>0, <1>8, <2>2
    <3> QED BY <1>3, <1>9, <3>1
  <2> QED BY <1>19, <2>1, <2>2
<1>20. Rising(n.sendQueue)
  BY DEF OrderedInv
<1> QED BY <1>7, <1>12, <1>15, <1>16, <1>17, <1>18, <1>19, <1>20 DEF OrderedInv, top, base

-----------------------------------------------------------------------------
(* The notify of a packet: its unordered events, and all that it does.     *)

\* The unordered events of a lost packet go back, those of one that arrived do not.
LEMMA UnorderedAfter ==
    ASSUME NEW c \in Conn, NEW n \in Conn, c.notifyQueue # <<>>, n.notifyQueue = Tail(c.notifyQueue),
           Rest(c, n), UnorderedInv(c),
           \/ n.unordered = c.unordered
           \/ n.unordered = Reversed(c.notifyQueue[1].unordered) \o c.unordered
    PROVE  /\ UnorderedInv(n)
           /\ n.unordered # c.unordered => Elements(n.unordered) = Elements(c.unordered) \cup UnorderedIn(c, 1)
<1>0. c.unordered \in Seq(Nat) /\ n.nextUnordered = c.nextUnordered
  BY DEF Conn, Rest
<1>1. 1 \in Notes(c) /\ c.notifyQueue[1].unordered \in Seq(Nat)
  BY NotesAfter, NoteIs
<1>2. UnorderedNote(c, 1)
  BY <1>1 DEF UnorderedInv
<1>3. \/ Elements(n.unordered) = Elements(c.unordered)
      \/ Elements(n.unordered) = Elements(c.unordered) \cup UnorderedIn(c, 1)
  <2>1. CASE n.unordered = Reversed(c.notifyQueue[1].unordered) \o c.unordered
    <3>1. Reversed(c.notifyQueue[1].unordered) \in Seq(Nat) /\ Elements(Reversed(c.notifyQueue[1].unordered)) = UnorderedIn(c, 1)
      BY <1>1, ReversedHas DEF UnorderedIn
    <3> QED BY <1>0, <2>1, <3>1, JoinHas
  <2> QED BY <2>1
<1>4. n.unordered # c.unordered => Elements(n.unordered) = Elements(c.unordered) \cup UnorderedIn(c, 1)
  <2>1. CASE n.unordered = Reversed(c.notifyQueue[1].unordered) \o c.unordered
    <3>1. Reversed(c.notifyQueue[1].unordered) \in Seq(Nat) /\ Elements(Reversed(c.notifyQueue[1].unordered)) = UnorderedIn(c, 1)
      BY <1>1, ReversedHas DEF UnorderedIn
    <3> QED BY <1>0, <2>1, <3>1, JoinHas
  <2> QED BY <2>1
<1>5. Distinct(n.unordered)
  <2>1. CASE n.unordered = c.unordered
    BY <2>1 DEF UnorderedInv
  <2>2. CASE n.unordered = Reversed(c.notifyQueue[1].unordered) \o c.unordered
    <3>1. /\ Reversed(c.notifyQueue[1].unordered) \in Seq(Nat) /\ Elements(Reversed(c.notifyQueue[1].unordered)) = UnorderedIn(c, 1)
          /\ Distinct(Reversed(c.notifyQueue[1].unordered))
      BY <1>1, <1>2, ReversedHas DEF UnorderedIn, UnorderedNote
    <3>2. UnorderedIn(c, 1) \cap Elements(c.unordered) = {} /\ Distinct(c.unordered)
      BY <1>2 DEF UnorderedNote, UnorderedInv
    <3> QED BY <1>0, <2>2, <3>1, <3>2, JoinHas
  <2> QED BY <2>1, <2>2
<1>6. \A x \in Elements(n.unordered) : x < n.nextUnordered
  BY <1>0, <1>2, <1>3 DEF UnorderedInv, UnorderedNote
<1>7. ASSUME NEW i \in Notes(n) PROVE UnorderedNote(n, i)
  <2>1. i + 1 \in Notes(c) /\ n.notifyQueue[i] = c.notifyQueue[i + 1] /\ UnorderedIn(n, i) = UnorderedIn(c, i + 1) /\ i >= 1 /\ i \in Nat
    BY <1>7, NotesAfter
  <2>2. UnorderedNote(c, i + 1) /\ i + 1 # 1
    BY <2>1 DEF UnorderedInv
  <2>3. ASSUME NEW x \in UnorderedIn(n, i) PROVE x < n.nextUnordered /\ x \notin Elements(n.unordered)
    <3>1. x < c.nextUnordered /\ x \notin Elements(c.unordered)
      BY <2>1, <2>2, <2>3 DEF UnorderedNote
    <3>2. x \notin UnorderedIn(c, 1)
      BY <1>1, <2>1, <2>2, <2>3 DEF UnorderedNote
    <3> QED BY <1>0, <1>3, <3>1, <3>2
  <2>4. ASSUME NEW x \in UnorderedIn(n, i), NEW j \in Notes(n), x \in UnorderedIn(n, j) PROVE i = j
    <3>1. j + 1 \in Notes(c) /\ UnorderedIn(n, j) = UnorderedIn(c, j + 1) /\ j \in Nat
      BY NotesAfter
    <3>2. i + 1 = j + 1
      BY <2>1, <2>2, <2>4, <3>1 DEF UnorderedNote
    <3> QED BY <2>1, <3>1, <3>2
  <2> QED BY <2>1, <2>2, <2>3, <2>4 DEF UnorderedNote
<1> QED BY <1>4, <1>5, <1>6, <1>7 DEF UnorderedInv

\* What is known of the notes after the first stays known.
LEMMA FatesAfter ==
    ASSUME NEW c \in Conn, NEW n \in Conn, c.notifyQueue # <<>>, n.notifyQueue = Tail(c.notifyQueue),
           Rest(c, n), n.highestAcked = c.highestAcked + 1,
           NEW d, NEW l, NEW w
    PROVE  /\ (\A i \in Notes(c) :
                    /\ c.notifyQueue[i].recvd <= c.lastSeqRecvd
                    /\ Fate(d, l, w, c.notifyQueue[i], d.lastSeqRecvd - (c.highestAcked + i) \in d.ackMask)) =>
               \A i \in Notes(n) :
                    /\ n.notifyQueue[i].recvd <= n.lastSeqRecvd
                    /\ Fate(d, l, w, n.notifyQueue[i], d.lastSeqRecvd - (n.highestAcked + i) \in d.ackMask)
           /\ \A ack, mask : Tells(c, d, l, w, ack, mask) => Tells(n, d, l, w, ack, mask)
<1>1. n.lastSeqRecvd = c.lastSeqRecvd /\ c.highestAcked \in Nat
  BY DEF Conn, Rest
<1>2. ASSUME NEW i \in Notes(n)
      PROVE  i + 1 \in Notes(c) /\ n.notifyQueue[i] = c.notifyQueue[i + 1] /\ n.highestAcked + i = c.highestAcked + (i + 1)
  <2>1. i + 1 \in Notes(c) /\ n.notifyQueue[i] = c.notifyQueue[i + 1] /\ i \in Nat
    BY NotesAfter
  <2>2. n.highestAcked + i = c.highestAcked + (i + 1)
    BY <1>1, <2>1
  <2> QED BY <2>1, <2>2
<1>3. ASSUME NEW i \in Notes(n), NEW ack, NEW mask, Tells(c, d, l, w, ack, mask), n.highestAcked + i <= ack
      PROVE  Fate(d, l, w, n.notifyQueue[i], ack - (n.highestAcked + i) \in mask)
  BY <1>2, <1>3 DEF Tells
<1>4. ASSUME NEW i \in Notes(n),
             \A j \in Notes(c) :
                /\ c.notifyQueue[j].recvd <= c.lastSeqRecvd
                /\ Fate(d, l, w, c.notifyQueue[j], d.lastSeqRecvd - (c.highestAcked + j) \in d.ackMask)
      PROVE  /\ n.notifyQueue[i].recvd <= n.lastSeqRecvd
             /\ Fate(d, l, w, n.notifyQueue[i], d.lastSeqRecvd - (n.highestAcked + i) \in d.ackMask)
  BY <1>1, <1>2, <1>4
<1> QED BY <1>3, <1>4 DEF Tells

\* What the notify of one packet does.
LEMMA NotifyStep ==
    ASSUME NEW c \in Conn, NEW d, NEW l, NEW w, NEW recvd \in BOOLEAN,
           Sender(c), KnownInv(c, d, l, w), c.notifyQueue # <<>>,
           Fate(d, l, w, c.notifyQueue[1], recvd)
    PROVE  LET n == HandleNotify(c, recvd)
           IN /\ n \in Conn /\ Rest(c, n) /\ Sender(n) /\ KnownInv(n, d, l, w)
              /\ n.highestAcked = c.highestAcked + 1 /\ n.notifyQueue = Tail(c.notifyQueue)
              /\ \/ n.lastRecvAckAck = c.lastRecvAckAck
                 \/ n.lastRecvAckAck <= d.highestAcked /\ n.lastRecvAckAck <= c.lastSeqRecvd
<1> DEFINE n == HandleNotify(c, recvd)
<1>0. WindowInv(c) /\ OrderedInv(c) /\ UnorderedInv(c) /\ 1 \in Notes(c)
  BY NotesAfter, TailIs DEF Sender, Notes
<1>1. CASE recvd = FALSE
  <2>1. /\ n \in Conn /\ Rest(c, n)
        /\ n.highestAcked = c.highestAcked + 1 /\ n.notifyQueue = Tail(c.notifyQueue)
        /\ n.lastRecvAckAck = c.lastRecvAckAck
        /\ n.lastAckedEvent = c.lastAckedEvent /\ n.notifyEvents = c.notifyEvents
        /\ n.sendQueue = AllInOrder(c.sendQueue, c.notifyQueue[1].ordered)
        /\ n.unordered = Reversed(c.notifyQueue[1].unordered) \o c.unordered
    BY <1>1, DroppedIs
  <2> HIDE DEF n
  <2>2. WindowInv(n)
    BY <1>0, <2>1, WindowAfter DEF Rest
  <2>3. OrderedInv(n) /\ Elements(n.sendQueue) = Elements(c.sendQueue) \cup OrderedIn(c, 1)
    BY <1>0, <2>1, DroppedOrdered
  <2>4. UnorderedInv(n)
    BY <1>0, <2>1, UnorderedAfter
  <2>5. Elements(n.unordered) = Elements(c.unordered) \cup UnorderedIn(c, 1)
    <3>1. c.notifyQueue[1].unordered \in Seq(Nat) /\ c.unordered \in Seq(Nat)
      BY <1>0, NoteIs DEF Conn
    <3>2. Reversed(c.notifyQueue[1].unordered) \in Seq(Nat) /\ Elements(Reversed(c.notifyQueue[1].unordered)) = UnorderedIn(c, 1)
      BY <3>1, ReversedHas DEF UnorderedIn
    <3> QED BY <2>1, <3>1, <3>2, JoinHas
  <2>6. Missed(d, l, c.notifyQueue[1])
    BY <1>1 DEF Fate
  <2>7. \A x \in Elements(n.sendQueue) : ~Has(d, x)
    BY <2>3, <2>6 DEF KnownInv, Missed, OrderedIn
  <2>8. \A x \in Elements(n.unordered) : x \notin Elements(l)
    BY <2>5, <2>6 DEF KnownInv, Missed, UnorderedIn
  <2>9. Healthy(d, w) =>
          \A x \in Nat : x <= n.lastAckedEvent \/ x \in Elements(n.notifyEvents) => Reached(d, w, x)
    BY <2>1 DEF KnownInv
  <2>10. ASSUME NEW x \in Nat, x < n.nextUnordered
         PROVE  \/ x \in Elements(n.unordered) \/ ReachedLoose(l, w, x)
                \/ \E i \in Notes(n) : x \in UnorderedIn(n, i)
    <3>1. \/ x \in Elements(c.unordered) \/ ReachedLoose(l, w, x)
          \/ \E i \in Notes(c) : x \in UnorderedIn(c, i)
      BY <2>1, <2>10 DEF KnownInv, Rest
    <3>2. ASSUME NEW i \in Notes(c), x \in UnorderedIn(c, i), i # 1 PROVE \E j \in Notes(n) : x \in UnorderedIn(n, j)
      BY <2>1, <3>2, NotesAfter
    <3> QED BY <2>5, <3>1, <3>2
  <2>11. \A i \in Notes(n) :
            /\ n.notifyQueue[i].recvd <= n.lastSeqRecvd
            /\ Fate(d, l, w, n.notifyQueue[i], d.lastSeqRecvd - (n.highestAcked + i) \in d.ackMask)
    BY <2>1, FatesAfter DEF KnownInv
  <2>12. KnownInv(n, d, l, w)
    BY <2>7, <2>8, <2>9, <2>10, <2>11 DEF KnownInv
  <2> QED BY <2>1, <2>2, <2>3, <2>4, <2>12 DEF Sender, n
<1>2. CASE recvd = TRUE
  <2> DEFINE list == AllInOrder(c.notifyEvents, c.notifyQueue[1].ordered)
             acked == Run(list, c.lastAckedEvent + 1)
  <2>1. /\ n \in Conn /\ Rest(c, n)
        /\ n.highestAcked = c.highestAcked + 1 /\ n.notifyQueue = Tail(c.notifyQueue)
        /\ n.lastRecvAckAck = c.notifyQueue[1].recvd
        /\ n.sendQueue = c.sendQueue /\ n.unordered = c.unordered
        /\ n.notifyEvents = SubSeq(list, acked + 1, Len(list))
        /\ n.lastAckedEvent = c.lastAckedEvent + acked
    BY <1>2, ReceivedIs
  <2> HIDE DEF n
  <2>2. WindowInv(n)
    BY <1>0, <2>1, WindowAfter DEF Rest
  <2>3. /\ OrderedInv(n)
        /\ \A x \in Nat : x <= n.lastAckedEvent \/ x \in Elements(n.notifyEvents) =>
                x <= c.lastAckedEvent \/ x \in Elements(c.notifyEvents) \/ x \in OrderedIn(c, 1)
    BY <1>0, <2>1, ReceivedOrdered
  <2>4. UnorderedInv(n)
    BY <1>0, <2>1, UnorderedAfter
  <2>6. Told(d, l, w, c.notifyQueue[1])
    BY <1>2 DEF Fate
  <2>7. \A x \in Elements(n.sendQueue) : ~Has(d, x)
    BY <2>1 DEF KnownInv
  <2>8. \A x \in Elements(n.unordered) : x \notin Elements(l)
    BY <2>1 DEF KnownInv
  <2>9. Healthy(d, w) =>
          \A x \in Nat : x <= n.lastAckedEvent \/ x \in Elements(n.notifyEvents) => Reached(d, w, x)
    BY <2>3, <2>6 DEF KnownInv, Told, OrderedIn
  <2>10. ASSUME NEW x \in Nat, x < n.nextUnordered
         PROVE  \/ x \in Elements(n.unordered) \/ ReachedLoose(l, w, x)
                \/ \E i \in Notes(n) : x \in UnorderedIn(n, i)
    <3>1. \/ x \in Elements(c.unordered) \/ ReachedLoose(l, w, x)
          \/ \E i \in Notes(c) : x \in UnorderedIn(c, i)
      BY <2>1, <2>10 DEF KnownInv, Rest
    <3>2. ASSUME NEW i \in Notes(c), x \in UnorderedIn(c, i), i # 1 PROVE \E j \in Notes(n) : x \in UnorderedIn(n, j)
      BY <2>1, <3>2, NotesAfter
    <3> QED BY <2>1, <2>6, <3>1, <3>2 DEF Told, UnorderedIn
  <2>11. \A i \in Notes(n) :
            /\ n.notifyQueue[i].recvd <= n.lastSeqRecvd
            /\ Fate(d, l, w, n.notifyQueue[i], d.lastSeqRecvd - (n.highestAcked + i) \in d.ackMask)
    BY <2>1, FatesAfter DEF KnownInv
  <2>12. KnownInv(n, d, l, w)
    BY <2>7, <2>8, <2>9, <2>10, <2>11 DEF KnownInv
  <2>13. n.lastRecvAckAck <= d.highestAcked /\ n.lastRecvAckAck <= c.lastSeqRecvd
    BY <1>0, <2>1, <2>6 DEF Told, KnownInv
  <2> QED BY <2>1, <2>2, <2>3, <2>4, <2>12, <2>13 DEF Sender, n
<1> QED BY <1>1, <1>2

-----------------------------------------------------------------------------
(* The notifies of all the packets that a header tells the fate of.        *)

\* h is what the record of an end is after each of the notifies.
Follows(c, ack, mask, h) ==
    /\ h[0] = c
    /\ \A i \in 1..ack - c.highestAcked :
            h[i] = HandleNotify(h[i - 1], ack - (c.highestAcked + i) \in mask)
IsAfter(c, ack, mask, h) ==
    h = [i \in 0..ack - c.highestAcked |->
            IF i = 0 THEN c ELSE HandleNotify(h[i - 1], ack - (c.highestAcked + i) \in mask)]

\* Notified is what the notifies of the packets, one after another, come to.
LEMMA NotifiedFollows ==
    ASSUME NEW c, NEW ack, NEW mask, ack - c.highestAcked \in Nat
    PROVE  \E h : Follows(c, ack, mask, h) /\ Notified(c, ack, mask) = h[ack - c.highestAcked]
<1> DEFINE top == ack - c.highestAcked
           bit(i) == ack - (c.highestAcked + i) \in mask
           f == CHOOSE h : h = [i \in 0..ack - c.highestAcked |->
                    IF i = 0 THEN c ELSE HandleNotify(h[i - 1], ack - (c.highestAcked + i) \in mask)]
           Upto(n, h) == /\ h[0] = c
                         /\ \A i \in 1..n : h[i] = HandleNotify(h[i - 1], bit(i))
           S == {n \in Nat : \E h : Upto(n, h)}
<1>1. 0 \in S
  <2>1. Upto(0, [i \in 0..0 |-> c])
    OBVIOUS
  <2> HIDE DEF Upto
  <2> QED BY <2>1
<1>2. ASSUME NEW n \in Nat, n \in S PROVE n + 1 \in S
  <2>1. PICK h : Upto(n, h)
    BY <1>2
  <2> HIDE DEF bit
  <2> DEFINE g == [i \in 0..n + 1 |-> IF i = n + 1 THEN HandleNotify(h[n], bit(n + 1)) ELSE h[i]]
  <2>2. g[0] = c
    BY <2>1
  <2>3. ASSUME NEW i \in 1..n + 1 PROVE g[i] = HandleNotify(g[i - 1], bit(i))
    <3>1. CASE i = n + 1
      <4>1. i \in 0..n + 1 /\ i - 1 = n /\ n \in 0..n + 1 /\ n # n + 1
        BY <3>1
      <4>2. g[i] = HandleNotify(h[n], bit(n + 1)) /\ g[n] = h[n]
        BY <3>1, <4>1
      <4> HIDE DEF g
      <4> QED BY <3>1, <4>1, <4>2
    <3>2. CASE i # n + 1
      <4>1. i \in 1..n /\ i \in 0..n + 1 /\ i - 1 \in 0..n + 1 /\ i - 1 # n + 1
        BY <3>2
      <4>2. g[i] = h[i] /\ g[i - 1] = h[i - 1]
        BY <3>2, <4>1
      <4> HIDE DEF g
      <4> QED BY <2>1, <4>1, <4>2
    <3> QED BY <3>1, <3>2
  <2> HIDE DEF g
  <2>4. Upto(n + 1, g) /\ n + 1 \in Nat
    BY <2>2, <2>3
  <2> HIDE DEF Upto
  <2> QED BY <2>4
<1>3. Nat \subseteq S
  <2> HIDE DEF S
  <2> QED BY <1>1, <1>2, NaturalSets
<1>4. PICK h : Upto(top, h)
  <2> HIDE DEF Upto
  <2> QED BY <1>3
<1>5. \E g : IsAfter(c, ack, mask, g)
  <2> HIDE DEF bit
  <2> DEFINE g == [i \in 0..top |-> h[i]]
  <2>1. \A i \in 0..top : g[i] = IF i = 0 THEN c ELSE HandleNotify(g[i - 1], bit(i))
    BY <1>4
  <2>2. g = [i \in 0..top |-> g[i]]
    OBVIOUS
  <2> HIDE DEF g
  <2>3. g = [i \in 0..top |-> IF i = 0 THEN c ELSE HandleNotify(g[i - 1], bit(i))]
    BY <2>1, <2>2
  <2> QED BY <2>3, Zenon DEF IsAfter, bit
<1>6. IsAfter(c, ack, mask, f)
  BY <1>5 DEF IsAfter
<1>7. Notified(c, ack, mask) = f[ack - c.highestAcked]
  BY DEF Notified
<1> HIDE DEF f
<1>8. Follows(c, ack, mask, f)
  <2>1. 0 \in 0..top /\ \A i \in 1..top : i \in 0..top /\ i # 0
    OBVIOUS
  <2>2. \A i \in 0..top : f[i] = IF i = 0 THEN c ELSE HandleNotify(f[i - 1], bit(i))
    BY <1>6 DEF IsAfter
  <2> HIDE DEF bit, top
  <2>3. f[0] = c /\ \A i \in 1..top : f[i] = HandleNotify(f[i - 1], bit(i))
    BY <2>1, <2>2
  <2> QED BY <2>3, Zenon DEF Follows, bit, top
<1> QED BY <1>7, <1>8

\* What all that a header tells does.
LEMMA NotifiedIs ==
    ASSUME NEW c \in Conn, NEW d, NEW l, NEW w, NEW ack \in Nat, NEW mask,
           Sender(c), KnownInv(c, d, l, w), c.highestAcked <= ack, ack <= c.lastSendSeq,
           Tells(c, d, l, w, ack, mask)
    PROVE  LET n == Notified(c, ack, mask)
               k == ack - c.highestAcked
           IN /\ n \in Conn /\ Rest(c, n) /\ Sender(n) /\ KnownInv(n, d, l, w)
              /\ n.highestAcked = ack
              /\ \A i \in Notes(n) : i + k \in Notes(c) /\ n.notifyQueue[i] = c.notifyQueue[i + k]
              /\ \/ n.lastRecvAckAck = c.lastRecvAckAck
                 \/ n.lastRecvAckAck <= d.highestAcked /\ n.lastRecvAckAck <= c.lastSeqRecvd
              /\ \A a, m : Tells(c, d, l, w, a, m) => Tells(n, d, l, w, a, m)
<1> DEFINE k == ack - c.highestAcked
<1>0. k \in Nat /\ c.highestAcked \in Nat /\ c.lastSendSeq \in Nat /\ ack = c.highestAcked + k
  BY DEF Conn
<1>1. PICK h : Follows(c, ack, mask, h) /\ Notified(c, ack, mask) = h[k]
  BY <1>0, NotifiedFollows
<1> DEFINE Good(i) ==
             /\ h[i] \in Conn /\ Rest(c, h[i]) /\ Sender(h[i]) /\ KnownInv(h[i], d, l, w)
             /\ h[i].highestAcked = c.highestAcked + i
             /\ \A j \in Notes(h[i]) : j + i \in Notes(c) /\ h[i].notifyQueue[j] = c.notifyQueue[j + i]
             /\ \/ h[i].lastRecvAckAck = c.lastRecvAckAck
                \/ h[i].lastRecvAckAck <= d.highestAcked /\ h[i].lastRecvAckAck <= c.lastSeqRecvd
             /\ \A a, m : Tells(c, d, l, w, a, m) => Tells(h[i], d, l, w, a, m)
           S == {i \in Nat : i <= k => Good(i)}
<1> HIDE DEF k
<1>2. 0 \in S
  <2>1. h[0] = c
    BY <1>1 DEF Follows
  <2>2. \A j \in Notes(c) : j + 0 = j
    BY DEF Notes
  <2>3. c.highestAcked + 0 = c.highestAcked
    BY <1>0
  <2>4. Rest(c, c)
    BY DEF Rest
  <2> QED BY <2>1, <2>2, <2>3, <2>4
<1>3. ASSUME NEW i \in Nat, i \in S PROVE i + 1 \in S
  <2>1. SUFFICES ASSUME i + 1 <= k PROVE Good(i + 1)
    <3> HIDE DEF Good
    <3> QED OBVIOUS
  <2>2. i <= k /\ i + 1 \in 1..k /\ (i + 1) - 1 = i
    BY <1>0, <2>1
  <2>3. Good(i)
    <3> HIDE DEF Good
    <3> QED BY <1>3, <2>2
  <2> DEFINE b == h[i]
             n == h[i + 1]
             bit == ack - (c.highestAcked + (i + 1)) \in mask
  <2>4. n = HandleNotify(b, bit) /\ bit \in BOOLEAN
    <3>1. h[i + 1] = HandleNotify(h[(i + 1) - 1], ack - (c.highestAcked + (i + 1)) \in mask)
      BY <1>1, <2>2 DEF Follows, k
    <3> QED BY <2>2, <3>1
  <2>5. b.notifyQueue # <<>> /\ 1 \in Notes(b)
    <3>1. b.lastSendSeq = c.lastSendSeq /\ b.highestAcked = c.highestAcked + i /\ b \in Conn /\ WindowInv(b)
      BY <2>3 DEF Rest, Sender
    <3>2. Len(b.notifyQueue) = c.lastSendSeq - (c.highestAcked + i) /\ b.notifyQueue \in Seq(Note)
      <4> HIDE DEF b
      <4>0. b.notifyQueue \in Seq(Note)
        BY <3>1 DEF Conn
      <4>1. b.notifyQueue \in Seq(Note) /\ Len(b.notifyQueue) \in Nat
        BY <4>0
      <4> QED BY <1>0, <3>1, <4>1 DEF WindowInv
    <3>3. Len(b.notifyQueue) >= 1
      BY <1>0, <2>1, <3>2
    <3> QED BY <3>2, <3>3 DEF Notes
  <2>6. Fate(d, l, w, b.notifyQueue[1], bit)
    <3>1. Tells(b, d, l, w, ack, mask) /\ b.highestAcked = c.highestAcked + i
      BY <2>3
    <3>2. b.highestAcked + 1 = c.highestAcked + (i + 1) /\ b.highestAcked + 1 <= ack
      BY <1>0, <2>1, <3>1
    <3> HIDE DEF b
    <3> QED BY <2>5, <3>1, <3>2 DEF Tells
  <2>7. /\ n \in Conn /\ Rest(b, n) /\ Sender(n) /\ KnownInv(n, d, l, w)
        /\ n.highestAcked = b.highestAcked + 1 /\ n.notifyQueue = Tail(b.notifyQueue)
        /\ \/ n.lastRecvAckAck = b.lastRecvAckAck
           \/ n.lastRecvAckAck <= d.highestAcked /\ n.lastRecvAckAck <= b.lastSeqRecvd
    <3>1. b \in Conn /\ Sender(b) /\ KnownInv(b, d, l, w)
      BY <2>3
    <3> HIDE DEF b, n, bit
    <3> QED BY <2>4, <2>5, <2>6, <3>1, NotifyStep
  <2>8. \A a, m : Tells(c, d, l, w, a, m) => Tells(n, d, l, w, a, m)
    <3>1. b \in Conn /\ \A a, m : Tells(c, d, l, w, a, m) => Tells(b, d, l, w, a, m)
      BY <2>3
    <3> HIDE DEF b, n, bit
    <3> QED BY <2>5, <2>7, <3>1, FatesAfter
  <2>9. \A j \in Notes(n) : j + (i + 1) \in Notes(c) /\ n.notifyQueue[j] = c.notifyQueue[j + (i + 1)]
    <3>1. b \in Conn /\ \A j \in Notes(b) : j + i \in Notes(c) /\ b.notifyQueue[j] = c.notifyQueue[j + i]
      BY <2>3
    <3> HIDE DEF b, n, bit
    <3>2. ASSUME NEW j \in Notes(n)
          PROVE  j + (i + 1) \in Notes(c) /\ n.notifyQueue[j] = c.notifyQueue[j + (i + 1)]
      <4>1. j \in Nat /\ j + 1 \in Notes(b) /\ n.notifyQueue[j] = b.notifyQueue[j + 1]
        BY <2>5, <2>7, <3>1, NotesAfter
      <4>2. (j + 1) + i = j + (i + 1)
        BY <4>1
      <4>3. (j + 1) + i \in Notes(c) /\ b.notifyQueue[j + 1] = c.notifyQueue[(j + 1) + i]
        BY <3>1, <4>1
      <4> QED BY <4>1, <4>2, <4>3
    <3> QED BY <3>2
  <2>10. Rest(c, n) /\ n.highestAcked = c.highestAcked + (i + 1)
    <3>1. Rest(c, b) /\ b.highestAcked = c.highestAcked + i
      BY <2>3
    <3> HIDE DEF b, n, bit
    <3> QED BY <1>0, <2>7, <3>1 DEF Rest
  <2>11. \/ n.lastRecvAckAck = c.lastRecvAckAck
         \/ n.lastRecvAckAck <= d.highestAcked /\ n.lastRecvAckAck <= c.lastSeqRecvd
    <3>1. /\ \/ b.lastRecvAckAck = c.lastRecvAckAck
             \/ b.lastRecvAckAck <= d.highestAcked /\ b.lastRecvAckAck <= c.lastSeqRecvd
          /\ b.lastSeqRecvd = c.lastSeqRecvd
      BY <2>3 DEF Rest
    <3> HIDE DEF b, n, bit
    <3> QED BY <2>7, <3>1
  <2> HIDE DEF bit
  <2> QED BY <2>7, <2>8, <2>9, <2>10, <2>11
<1>4. Nat \subseteq S
  <2> HIDE DEF S
  <2> QED BY <1>2, <1>3, NaturalSets
<1>5. Good(k)
  <2> HIDE DEF Good
  <2> QED BY <1>0, <1>4
<1>6. h[k].highestAcked = ack
  BY <1>0, <1>5
<1> QED BY <1>1, <1>5, <1>6 DEF k

-----------------------------------------------------------------------------
(* The receiver, the packets under way, and what a note was made from.     *)

\* The numbers of packets that the two ends know of, of those that c sends.
NumbersInv(c, d) ==
    /\ c.highestAcked <= d.lastSeqRecvd /\ d.lastSeqRecvd <= c.lastSendSeq
    /\ d.lastRecvAckAck <= c.highestAcked
    /\ d.lastSeqRecvd - d.lastRecvAckAck \in 0..Window
    /\ d.ackMask \subseteq 0..Window - 1

\* What the receiver has was sent, and is in order while it is healthy.
ReceiverInv(c, d, pr, l, w) ==
    /\ d.nextRecvEvent <= c.nextSendEvent
    /\ \A n \in Elements(d.waiting) : n < c.nextSendEvent
    /\ Healthy(d, w) => Rising(d.waiting) /\ \A n \in Elements(d.waiting) : n > d.nextRecvEvent
    /\ Len(pr) = d.nextRecvEvent /\ \A i \in 1..Len(pr) : pr[i] = i - 1
    /\ Distinct(l) /\ \A n \in Elements(l) : n < c.nextUnordered

\* What a packet carries is on the sender's note.
PacketOf(c, p) ==
    /\ p.seq <= c.lastSendSeq /\ c.lastSendSeq - p.seq < Delay
    /\ p.type = "data" /\ p.seq > c.highestAcked =>
        LET note == c.notifyQueue[p.seq - c.highestAcked]
        IN p.ordered = note.ordered /\ p.unordered = note.unordered /\ p.ack = note.recvd
\* And its header says what its sender, the receiver d, knew.
HeaderOf(c, d, l, w, p) ==
    /\ p.ack <= d.lastSeqRecvd /\ d.lastSeqRecvd - p.ack < Delay
    /\ Tells(c, d, l, w, p.ack, p.mask)

-----------------------------------------------------------------------------
\* Of a packet that was not seen yet there is a note, and none of it arrived.
LEMMA NewNote ==
    ASSUME NEW c \in Conn, NEW d \in Conn, NEW l, NEW w, NEW p \in Pack,
           Sender(c), KnownInv(c, d, l, w), NumbersInv(c, d), PacketOf(c, p),
           p.type = "data", p.seq > d.lastSeqRecvd
    PROVE  LET k == p.seq - c.highestAcked
           IN /\ k \in Notes(c) /\ p.seq = c.highestAcked + k
              /\ Elements(p.ordered) = OrderedIn(c, k) /\ Elements(p.unordered) = UnorderedIn(c, k)
              /\ p.ordered = c.notifyQueue[k].ordered /\ p.unordered = c.notifyQueue[k].unordered
              /\ p.ack = c.notifyQueue[k].recvd
              /\ OrderedNote(c, k) /\ UnorderedNote(c, k) /\ Missed(d, l, c.notifyQueue[k])
<1> DEFINE k == p.seq - c.highestAcked
<1>0. /\ c.highestAcked \in Nat /\ c.lastSendSeq \in Nat /\ d.lastSeqRecvd \in Nat /\ p.seq \in Nat
      /\ c.highestAcked <= d.lastSeqRecvd /\ p.seq <= c.lastSendSeq /\ d.lastSeqRecvd < p.seq
      /\ c.lastSendSeq = c.highestAcked + Len(c.notifyQueue)
      /\ d.ackMask \subseteq 0..Window - 1
  BY DEF Conn, Pack, NumbersInv, PacketOf, Sender, WindowInv
<1>1. Len(c.notifyQueue) \in Nat
  <2>1. c.notifyQueue \in Seq(Note)
    BY DEF Conn
  <2> QED BY <2>1
<1>2. k \in 1..Len(c.notifyQueue) /\ p.seq = c.highestAcked + k /\ p.seq > c.highestAcked /\ d.lastSeqRecvd - p.seq < 0
      /\ d.lastSeqRecvd - p.seq \in Int
  BY <1>0, <1>1
<1>3. d.lastSeqRecvd - (c.highestAcked + k) \notin d.ackMask
  <2>1. \A x \in d.ackMask : x >= 0
    BY <1>0, Constants
  <2> HIDE DEF k
  <2> QED BY <1>2, <2>1
<1>4. /\ p.ordered = c.notifyQueue[k].ordered /\ p.unordered = c.notifyQueue[k].unordered
      /\ p.ack = c.notifyQueue[k].recvd
  BY <1>2 DEF PacketOf
<1> HIDE DEF k
<1>5. k \in Notes(c)
  BY <1>2 DEF Notes
<1>6. Fate(d, l, w, c.notifyQueue[k], d.lastSeqRecvd - (c.highestAcked + k) \in d.ackMask)
  BY <1>5 DEF KnownInv
<1>7. Missed(d, l, c.notifyQueue[k])
  BY <1>3, <1>6 DEF Fate
<1>8. OrderedNote(c, k) /\ UnorderedNote(c, k)
  BY <1>5 DEF Sender, OrderedInv, UnorderedInv
<1> QED BY <1>2, <1>4, <1>5, <1>7, <1>8 DEF k, OrderedIn, UnorderedIn

\* A healthy receiver is past all that the sender knows to have arrived.
LEMMA HealthyAhead ==
    ASSUME NEW c \in Conn, NEW d \in Conn, NEW pr, NEW l, NEW w, KnownInv(c, d, l, w),
           ReceiverInv(c, d, pr, l, w), Healthy(d, w)
    PROVE  c.lastAckedEvent < d.nextRecvEvent
<1> DEFINE R == d.nextRecvEvent
<1>0. R \in Nat /\ c.lastAckedEvent \in Int
  BY DEF Conn
<1>1. \A n \in Elements(d.waiting) : n > R
  BY DEF ReceiverInv
<1>2. ~Has(d, R)
  <2> SUFFICES ASSUME R \in Elements(d.waiting) PROVE FALSE
    BY <1>0 DEF Has
  <2>1. R > R
    BY <1>1
  <2> QED BY <1>0, <2>1
<1>3. <<"ordered", R>> \notin w
  <2> SUFFICES ASSUME <<"ordered", R>> \in w PROVE FALSE
    OBVIOUS
  <2>1. R > R
    BY DEF Healthy
  <2> QED BY <1>0, <2>1
<1>4. ~(R <= c.lastAckedEvent)
  BY <1>0, <1>2, <1>3 DEF KnownInv, Reached
<1> QED BY <1>0, <1>4

\* What the numbers of a packet's ordered events are taken for.
Restores(s, base) == [i \in 1..Len(s) |-> Unwrapped(s[i], base, EventMod)]

\* What the numbers of a note's events are taken for.
LEMMA RestoresIs ==
    ASSUME NEW c \in Conn, NEW d \in Conn, NEW k \in Notes(c), OrderedInv(c),
           \A n \in OrderedIn(c, k) : ~Has(d, n)
    PROVE  LET v == Restores(c.notifyQueue[k].ordered, d.nextRecvEvent)
           IN /\ v \in Seq(Nat)
              /\ \A x \in Elements(v) : /\ x >= d.nextRecvEvent /\ x < c.nextSendEvent
                                        /\ x \in OrderedIn(c, k) \/ x <= c.lastAckedEvent
              /\ c.lastAckedEvent < d.nextRecvEvent => v = c.notifyQueue[k].ordered
<1> DEFINE s == c.notifyQueue[k].ordered
           R == d.nextRecvEvent
           v == Restores(s, R)
<1>0. /\ s \in Seq(Nat) /\ Len(s) \in Nat /\ R \in Nat /\ c.lastAckedEvent \in Int /\ c.nextSendEvent \in Nat
      /\ EventMod \in Nat \ {0} /\ EventWindow \in Nat /\ EventWindow <= EventMod
  <2>1. s \in Seq(Nat)
    BY NoteIs
  <2>2. R \in Nat /\ c.lastAckedEvent \in Int /\ c.nextSendEvent \in Nat
    BY DEF Conn
  <2> QED BY <2>1, <2>2, Constants
<1>1. OrderedNote(c, k)
  BY DEF OrderedInv
<1>2. ASSUME NEW i \in 1..Len(s)
      PROVE  /\ s[i] \in Nat /\ s[i] \in OrderedIn(c, k) /\ s[i] >= R
             /\ s[i] < c.nextSendEvent /\ s[i] <= c.lastAckedEvent + EventWindow
  <2> DEFINE n == s[i]
  <2>1. n \in Nat /\ n \in OrderedIn(c, k)
    <3>1. OrderedIn(c, k) = Elements(s)
      BY DEF OrderedIn
    <3> HIDE DEF s
    <3>2. n \in Nat /\ n \in Elements(s)
      BY <1>0 DEF Elements
    <3> QED BY <3>1, <3>2
  <2> HIDE DEF n
  <2>2. ~(n < R)
    BY <2>1 DEF Has
  <2>3. n < c.nextSendEvent /\ n <= c.lastAckedEvent + EventWindow
    BY <1>1, <2>1 DEF OrderedNote, Open
  <2>4. n >= R
    BY <1>0, <2>1, <2>2
  <2> QED BY <2>1, <2>3, <2>4 DEF n
<1> HIDE DEF s, R
<1>3. ASSUME NEW i \in 1..Len(s)
      PROVE  LET x == Unwrapped(s[i], R, EventMod)
             IN /\ x \in Nat /\ x >= R /\ x < c.nextSendEvent
                /\ x \in OrderedIn(c, k) \/ x <= c.lastAckedEvent
  <2> DEFINE x == Unwrapped(s[i], R, EventMod)
             n == s[i]
  <2>1. n \in Nat /\ R <= n /\ n < c.nextSendEvent /\ n <= c.lastAckedEvent + EventWindow /\ n \in OrderedIn(c, k)
    BY <1>0, <1>2
  <2> HIDE DEF n
  <2>2. Unwrapped(n, R, EventMod) \in Nat /\ R <= Unwrapped(n, R, EventMod)
        /\ (Unwrapped(n, R, EventMod) = n \/ Unwrapped(n, R, EventMod) <= n - EventMod)
    BY <1>0, <2>1, UnwrappedBefore
  <2>3. x = Unwrapped(n, R, EventMod)
    BY DEF n
  <2> HIDE DEF x
  <2>4. x \in Nat /\ R <= x /\ (x = n \/ x <= n - EventMod)
    BY <2>2, <2>3
  <2>5. x < c.nextSendEvent /\ (x = n \/ x <= c.lastAckedEvent)
    BY <1>0, <2>1, <2>4
  <2> QED BY <1>0, <2>1, <2>4, <2>5 DEF x
<1>4. v \in [1..Len(s) -> Nat] /\ \A i \in 1..Len(s) : v[i] = Unwrapped(s[i], R, EventMod)
  BY <1>3 DEF Restores
<1> HIDE DEF v
<1>5. v \in Seq(Nat) /\ Len(v) = Len(s)
  <2>1. v \in Seq(Nat)
    BY <1>0, <1>4, SeqDef
  <2>2. Len(v) \in Nat /\ 1..Len(v) = 1..Len(s)
    BY <1>4, <2>1, LenProperties
  <2> QED BY <1>0, <2>1, <2>2
<1>6. ASSUME NEW x \in Elements(v)
      PROVE  x >= R /\ x < c.nextSendEvent /\ (x \in OrderedIn(c, k) \/ x <= c.lastAckedEvent)
  <2>1. PICK i \in 1..Len(s) : x = v[i]
    BY <1>5 DEF Elements
  <2> QED BY <1>3, <1>4, <2>1
<1>7. ASSUME c.lastAckedEvent < R PROVE v = s
  <2>1. ASSUME NEW i \in 1..Len(s) PROVE v[i] = s[i]
    <3> DEFINE n == s[i]
    <3>1. n \in Nat /\ R <= n /\ n <= c.lastAckedEvent + EventWindow
      BY <1>0, <1>2
    <3> HIDE DEF n
    <3>2. n < R + EventMod /\ R \in Int /\ n \in Int
      BY <1>0, <1>7, <3>1
    <3>3. Unwrapped(n, R, EventMod) = n
      BY <1>0, <3>1, <3>2, UnwrappedNear
    <3> QED BY <1>4, <3>3 DEF n
  <2> QED BY <1>0, <1>5, <2>1, SeqEqual
<1> QED BY <1>5, <1>6, <1>7 DEF v, s, R

\* Of a list that waits, the part that can be processed is, and the rest waits at f.
Proceeds(d, f, list, part) ==
    LET now == Run(list, d.nextRecvEvent)
    IN /\ f.waiting = SubSeq(list, now + 1, Len(list)) /\ f.nextRecvEvent = d.nextRecvEvent + now
       /\ part = SubSeq(list, 1, now)

\* What is processed then, and what waits.
NextHas(d, f, list, V) ==
    /\ f.waiting \in Seq(Nat) /\ f.nextRecvEvent \in Nat
    /\ d.nextRecvEvent <= f.nextRecvEvent
    /\ \A n \in Nat : Has(f, n) <=> Has(d, n) \/ n \in V
    /\ \A n \in d.nextRecvEvent..f.nextRecvEvent - 1 : n \in Elements(list)
    /\ Elements(f.waiting) \subseteq Elements(list)
    /\ Rising(list) /\ (\A x \in Elements(list) : x >= d.nextRecvEvent) =>
         Rising(f.waiting) /\ \A x \in Elements(f.waiting) : x > f.nextRecvEvent
NextPart(d, f, part) ==
    /\ part \in Seq(Nat) /\ Len(part) = f.nextRecvEvent - d.nextRecvEvent
    /\ \A i \in 1..Len(part) : part[i] = d.nextRecvEvent + i - 1

\* What is processed and what waits, when the list of what arrived proceeds.
LEMMA ReadNext ==
    ASSUME NEW d \in Conn, NEW f, NEW arrived \in Seq(Nat), NEW V \in SUBSET Nat, NEW part,
           Proceeds(d, f, arrived, part),
           Elements(arrived) = Elements(d.waiting) \cup V, \A x \in V : x >= d.nextRecvEvent
    PROVE  NextHas(d, f, arrived, V) /\ NextPart(d, f, part)
<1> DEFINE R == d.nextRecvEvent
           now == Run(arrived, R)
           rest == SubSeq(arrived, now + 1, Len(arrived))
<1>0. R \in Nat /\ d.waiting \in Seq(Nat)
  BY DEF Conn
<1>1. /\ now \in Nat /\ rest \in Seq(Nat) /\ Elements(rest) \subseteq Elements(arrived)
      /\ \A x \in R..R + now - 1 : x \in Elements(arrived)
      /\ \A x \in Elements(arrived) : x \in Elements(rest) \/ x \in R..R + now - 1
      /\ Rising(arrived) => Rising(rest)
      /\ Rising(arrived) /\ (\A x \in Elements(arrived) : x >= R) => \A x \in Elements(rest) : x > R + now
      /\ part \in Seq(Nat) /\ Len(part) = now
      /\ \A i \in 1..now : part[i] = R + i - 1
  <2> DEFINE k == Run(arrived, R)
             r == SubSeq(arrived, k + 1, Len(arrived))
             a == SubSeq(arrived, 1, k)
  <2>1. now = k /\ rest = r /\ part = a /\ R \in Int
    BY <1>0 DEF Proceeds
  <2> HIDE DEF R
  <2>2. /\ k \in Nat /\ r \in Seq(Nat) /\ Elements(r) \subseteq Elements(arrived)
        /\ \A x \in R..R + k - 1 : x \in Elements(arrived)
        /\ \A x \in Elements(arrived) : x \in Elements(r) \/ x \in R..R + k - 1
        /\ Rising(arrived) => Rising(r)
        /\ Rising(arrived) /\ (\A x \in Elements(arrived) : x >= R) => \A x \in Elements(r) : x > R + k
        /\ a \in Seq(Nat) /\ Len(a) = k
        /\ \A i \in 1..k : a[i] = R + i - 1
    BY <2>1, RestIs
  <2> HIDE DEF k, r, a, rest
  <2> QED BY <2>1, <2>2
<1>2. f.waiting = rest /\ f.nextRecvEvent = R + now
  BY DEF Proceeds
<1> HIDE DEF rest, now, R
<1>3. ASSUME NEW n \in Nat PROVE Has(f, n) <=> Has(d, n) \/ n \in V
  <2>1. ASSUME Has(f, n) PROVE Has(d, n) \/ n \in V
    <3>1. CASE n < R + now /\ ~(n < R)
      <4>1. n \in R..R + now - 1
        BY <1>0, <1>1, <3>1
      <4> QED BY <1>1, <4>1 DEF Has
    <3>2. CASE n < R
      BY <3>2 DEF Has, R
    <3>3. CASE n \in Elements(rest)
      BY <1>1, <3>3 DEF Has
    <3> QED BY <1>2, <2>1, <3>1, <3>2, <3>3 DEF Has
  <2>2. ASSUME Has(d, n) \/ n \in V PROVE Has(f, n)
    <3>1. CASE n < R
      BY <1>0, <1>1, <1>2, <3>1 DEF Has
    <3>2. CASE n \in Elements(arrived)
      <4>1. n \in Elements(rest) \/ n < R + now
        BY <1>0, <1>1, <3>2
      <4> QED BY <1>2, <4>1 DEF Has
    <3> QED BY <2>2, <3>1, <3>2 DEF Has, R
  <2> QED BY <2>1, <2>2
<1>4. \A n \in R..f.nextRecvEvent - 1 : n \in Elements(arrived)
  <2>1. R + now - 1 = f.nextRecvEvent - 1
    BY <1>0, <1>1, <1>2
  <2> QED BY <1>1, <2>1
<1>5. f.nextRecvEvent \in Nat /\ R <= f.nextRecvEvent /\ now = f.nextRecvEvent - R
  BY <1>0, <1>1, <1>2
<1>6. Len(part) = f.nextRecvEvent - R /\ \A i \in 1..Len(part) : part[i] = R + i - 1
  BY <1>1, <1>5
<1> QED BY <1>1, <1>2, <1>3, <1>4, <1>5, <1>6 DEF R, NextHas, NextPart

-----------------------------------------------------------------------------
(* A direction, and what reading a packet does to it.                      *)

\* What c sends and d has, apart from the packets under way.
Side(c, d, pr, l, w) ==
    /\ Sender(c) /\ KnownInv(c, d, l, w) /\ NumbersInv(c, d) /\ ReceiverInv(c, d, pr, l, w)
    /\ pr \in Seq(Nat) /\ l \in Seq(Nat) /\ w \in SUBSET Kinds

\* The numbers that a packet of the sender brings, and the list that then waits.
New(d, p) == HasNewData(d, p.seq, p.type)
Values(d, p) == IF New(d, p) THEN Elements(Restores(p.ordered, d.nextRecvEvent)) ELSE {}
ListOf(d, p) ==
    IF New(d, p) THEN AllInOrder(d.waiting, Restores(p.ordered, d.nextRecvEvent)) ELSE d.waiting

\* The receiver d, at which a packet arrives, is f when it was read.
Reads(d, f, p, pr, fpr, l, fl, w, fw) ==
    /\ \E part : Proceeds(d, f, ListOf(d, p), part) /\ fpr = pr \o part
    /\ f.lastSeqRecvd = p.seq
    /\ f.ackMask = Shifted(d.ackMask, p.seq - d.lastSeqRecvd, p.type = "data")
    /\ d.highestAcked <= f.highestAcked /\ p.ack <= f.highestAcked
    /\ fl = IF New(d, p) THEN l \o p.unordered ELSE l
    /\ fw = IF p.type = "data" /\ ~New(d, p) /\ 0 \notin d.ackMask THEN w \cup Events(p) ELSE w

\* With a note of the packet there is a place for it.
NewPlace(c, d, p) == p.seq - c.highestAcked

\* A packet with new data is one that the sender has a note of, and was not read.
LEMMA NewAfter ==
    ASSUME NEW c \in Conn, NEW d \in Conn, NEW pr, NEW l, NEW w, NEW p \in Pack,
           Side(c, d, pr, l, w), PacketOf(c, p), d.lastSeqRecvd <= p.seq, New(d, p)
    PROVE  LET k == NewPlace(c, d, p)
           IN /\ k \in Notes(c) /\ p.seq = c.highestAcked + k /\ d.lastSeqRecvd < p.seq
              /\ Elements(p.ordered) = OrderedIn(c, k) /\ Elements(p.unordered) = UnorderedIn(c, k)
              /\ p.ordered = c.notifyQueue[k].ordered /\ p.unordered = c.notifyQueue[k].unordered
              /\ p.ack = c.notifyQueue[k].recvd
              /\ OrderedNote(c, k) /\ UnorderedNote(c, k) /\ Missed(d, l, c.notifyQueue[k])
<1>1. p.seq \in Nat /\ d.lastSeqRecvd \in Nat
  BY DEF Conn, Pack
<1>2. p.type = "data" /\ p.seq > d.lastSeqRecvd
  BY <1>1 DEF New, HasNewData
<1> QED BY <1>2, NewNote DEF NewPlace, Side

\* What waits once a packet's events are put in, and where they are from.
LEMMA ListIs ==
    ASSUME NEW c \in Conn, NEW d \in Conn, NEW pr, NEW l, NEW w, NEW p \in Pack,
           Side(c, d, pr, l, w), PacketOf(c, p), d.lastSeqRecvd <= p.seq
    PROVE  /\ ListOf(d, p) \in Seq(Nat) /\ Values(d, p) \in SUBSET Nat
           /\ Elements(ListOf(d, p)) = Elements(d.waiting) \cup Values(d, p)
           /\ \A x \in Values(d, p) :
                /\ x >= d.nextRecvEvent /\ x < c.nextSendEvent
                /\ \/ x <= c.lastAckedEvent
                   \/ New(d, p) /\ x \in OrderedIn(c, NewPlace(c, d, p))
           /\ Healthy(d, w) => /\ New(d, p) => Values(d, p) = OrderedIn(c, NewPlace(c, d, p))
                               /\ Rising(ListOf(d, p))
                               /\ \A x \in Elements(ListOf(d, p)) : x >= d.nextRecvEvent
<1>0. /\ d.waiting \in Seq(Nat) /\ d.nextRecvEvent \in Nat /\ Elements(d.waiting) \subseteq Nat
      /\ ReceiverInv(c, d, pr, l, w) /\ KnownInv(c, d, l, w) /\ OrderedInv(c)
  <2>1. d.waiting \in Seq(Nat) /\ d.nextRecvEvent \in Nat
    BY DEF Conn
  <2> QED BY <2>1 DEF Side, Sender, Elements
<1>1. Healthy(d, w) => Rising(d.waiting) /\ \A x \in Elements(d.waiting) : x >= d.nextRecvEvent
  <2>1. ASSUME Healthy(d, w), NEW x \in Elements(d.waiting) PROVE x >= d.nextRecvEvent
    <3>1. x > d.nextRecvEvent /\ x \in Nat
      BY <1>0, <2>1 DEF ReceiverInv
    <3> QED BY <1>0, <3>1
  <2> QED BY <1>0, <2>1 DEF ReceiverInv
<1>2. CASE ~New(d, p)
  BY <1>0, <1>1, <1>2 DEF ListOf, Values
<1>3. CASE New(d, p)
  <2> DEFINE k == NewPlace(c, d, p)
             v == Restores(c.notifyQueue[k].ordered, d.nextRecvEvent)
  <2>1. /\ k \in Notes(c) /\ p.ordered = c.notifyQueue[k].ordered
        /\ OrderedNote(c, k) /\ Missed(d, l, c.notifyQueue[k])
    BY <1>3, NewAfter
  <2> HIDE DEF k
  <2>2. \A n \in OrderedIn(c, k) : ~Has(d, n)
    BY <2>1 DEF Missed, OrderedIn
  <2>3. /\ v \in Seq(Nat)
        /\ \A x \in Elements(v) : /\ x >= d.nextRecvEvent /\ x < c.nextSendEvent
                                  /\ x \in OrderedIn(c, k) \/ x <= c.lastAckedEvent
        /\ c.lastAckedEvent < d.nextRecvEvent => v = c.notifyQueue[k].ordered
    BY <1>0, <2>1, <2>2, RestoresIs
  <2>4. Restores(p.ordered, d.nextRecvEvent) = v
    BY <2>1
  <2>5. ListOf(d, p) = AllInOrder(d.waiting, v) /\ Values(d, p) = Elements(v)
    BY <1>3, <2>4 DEF ListOf, Values
  <2> HIDE DEF v
  <2>6. ListOf(d, p) \in Seq(Nat) /\ Elements(ListOf(d, p)) = Elements(d.waiting) \cup Values(d, p)
    BY <1>0, <2>3, <2>5, AllInOrderHas
  <2>7. Values(d, p) \in SUBSET Nat
    BY <2>3, <2>5 DEF Elements
  <2>8. ASSUME Healthy(d, w)
        PROVE  /\ Values(d, p) = OrderedIn(c, k) /\ Rising(ListOf(d, p))
               /\ \A x \in Elements(ListOf(d, p)) : x >= d.nextRecvEvent
    <3>1. v = c.notifyQueue[k].ordered
      BY <1>0, <2>3, <2>8, HealthyAhead
    <3>2. Elements(v) = OrderedIn(c, k) /\ Rising(v)
      BY <2>1, <3>1 DEF OrderedIn, OrderedNote
    <3>3. Elements(d.waiting) \cap Elements(v) = {}
      BY <2>2, <3>2 DEF Has
    <3>4. Rising(ListOf(d, p))
      BY <1>0, <1>1, <2>3, <2>5, <2>8, <3>2, <3>3, AllInOrderRising
    <3> QED BY <1>1, <2>3, <2>5, <2>6, <2>8, <3>2, <3>4
  <2> QED BY <1>3, <2>3, <2>5, <2>6, <2>7, <2>8 DEF k
<1> QED BY <1>2, <1>3

\* What reading changes at the receiver.
LEMMA ReadIs ==
    ASSUME NEW c \in Conn, NEW d \in Conn, NEW f \in Conn, NEW pr, NEW fpr, NEW l, NEW fl, NEW w, NEW fw,
           NEW p \in Pack, Side(c, d, pr, l, w), PacketOf(c, p), d.lastSeqRecvd <= p.seq,
           Reads(d, f, p, pr, fpr, l, fl, w, fw)
    PROVE  /\ \A n \in Nat : Has(f, n) <=> Has(d, n) \/ n \in Values(d, p)
           /\ d.nextRecvEvent <= f.nextRecvEvent /\ w \subseteq fw /\ fl \in Seq(Nat)
           /\ Elements(fl) = Elements(l) \cup (IF New(d, p) THEN UnorderedIn(c, NewPlace(c, d, p)) ELSE {})
           /\ Distinct(fl)
           /\ Healthy(f, fw) => Healthy(d, w)
           /\ Healthy(f, fw) => Rising(f.waiting) /\ \A x \in Elements(f.waiting) : x > f.nextRecvEvent
           /\ \A n \in d.nextRecvEvent..f.nextRecvEvent - 1 : n < c.nextSendEvent
           /\ \A n \in Elements(f.waiting) : n < c.nextSendEvent
           /\ fpr \in Seq(Nat) /\ Len(fpr) = f.nextRecvEvent /\ \A i \in 1..Len(fpr) : fpr[i] = i - 1
<1> DEFINE list == ListOf(d, p)
           V == Values(d, p)
<1>0. /\ list \in Seq(Nat) /\ V \in SUBSET Nat
      /\ Elements(list) = Elements(d.waiting) \cup V
      /\ \A x \in V : x >= d.nextRecvEvent /\ x < c.nextSendEvent
      /\ Healthy(d, w) => Rising(list) /\ \A x \in Elements(list) : x >= d.nextRecvEvent
  BY ListIs
<1>1. PICK part : Proceeds(d, f, list, part) /\ fpr = pr \o part
  BY DEF Reads
<1>2. /\ l \in Seq(Nat) /\ pr \in Seq(Nat) /\ w \in SUBSET Kinds /\ ReceiverInv(c, d, pr, l, w)
      /\ d.nextRecvEvent \in Nat /\ f.nextRecvEvent \in Nat
      /\ fl = (IF New(d, p) THEN l \o p.unordered ELSE l)
      /\ w \subseteq fw
  BY DEF Side, Conn, Reads
<1> HIDE DEF list, V
<1>3. /\ d.nextRecvEvent <= f.nextRecvEvent
      /\ \A n \in Nat : Has(f, n) <=> Has(d, n) \/ n \in V
      /\ \A n \in d.nextRecvEvent..f.nextRecvEvent - 1 : n \in Elements(list)
      /\ Elements(f.waiting) \subseteq Elements(list)
      /\ Rising(list) /\ (\A x \in Elements(list) : x >= d.nextRecvEvent) =>
            Rising(f.waiting) /\ \A x \in Elements(f.waiting) : x > f.nextRecvEvent
      /\ part \in Seq(Nat) /\ Len(part) = f.nextRecvEvent - d.nextRecvEvent
      /\ \A i \in 1..Len(part) : part[i] = d.nextRecvEvent + i - 1
  <2>1. \A x \in V : x >= d.nextRecvEvent
    BY <1>0
  <2>2. NextHas(d, f, list, V) /\ NextPart(d, f, part)
    BY <1>0, <1>1, <2>1, ReadNext
  <2> QED BY <2>2 DEF NextHas, NextPart
<1>4. \A x \in Elements(list) : x < c.nextSendEvent
  BY <1>0, <1>2 DEF ReceiverInv
<1>5. ASSUME Healthy(f, fw) PROVE Healthy(d, w)
  <2>1. ASSUME NEW x \in w, x[1] = "ordered" PROVE x[2] > d.nextRecvEvent
    <3>1. x \in fw
      BY <1>2
    <3>2. x[2] > f.nextRecvEvent
      BY <1>5, <2>1, <3>1 DEF Healthy
    <3>3. x[2] \in Nat
      BY <1>2 DEF Kinds
    <3> QED BY <1>2, <1>3, <3>2, <3>3
  <2> QED BY <2>1 DEF Healthy
<1>6. /\ fl \in Seq(Nat) /\ Distinct(fl)
      /\ Elements(fl) = Elements(l) \cup (IF New(d, p) THEN UnorderedIn(c, NewPlace(c, d, p)) ELSE {})
  <2>1. CASE ~New(d, p)
    BY <1>2, <2>1 DEF ReceiverInv
  <2>2. CASE New(d, p)
    <3> DEFINE k == NewPlace(c, d, p)
    <3>1. /\ k \in Notes(c) /\ Elements(p.unordered) = UnorderedIn(c, k) /\ p.unordered = c.notifyQueue[k].unordered
          /\ UnorderedNote(c, k) /\ Missed(d, l, c.notifyQueue[k])
      BY <2>2, NewAfter
    <3> HIDE DEF k
    <3>2. p.unordered \in Seq(Nat)
      BY DEF Pack
    <3>3. Distinct(p.unordered) /\ Elements(l) \cap Elements(p.unordered) = {} /\ Distinct(l)
      BY <1>2, <3>1 DEF UnorderedNote, Missed, UnorderedIn, ReceiverInv
    <3>4. l \o p.unordered \in Seq(Nat) /\ Elements(l \o p.unordered) = Elements(l) \cup Elements(p.unordered) /\ Distinct(l \o p.unordered)
      BY <1>2, <3>2, <3>3, JoinHas
    <3> QED BY <1>2, <2>2, <3>1, <3>4 DEF k
  <2> QED BY <2>1, <2>2
<1>7. fpr \in Seq(Nat) /\ Len(fpr) = f.nextRecvEvent /\ \A i \in 1..Len(fpr) : fpr[i] = i - 1
  <2>1. Len(pr) = d.nextRecvEvent /\ \A i \in 1..Len(pr) : pr[i] = i - 1
    BY <1>2 DEF ReceiverInv
  <2>2. /\ fpr \in Seq(Nat) /\ Len(fpr) = Len(pr) + Len(part)
        /\ \A i \in 1..Len(pr) + Len(part) : fpr[i] = IF i <= Len(pr) THEN pr[i] ELSE part[i - Len(pr)]
    BY <1>1, <1>2, <1>3, ConcatProperties
  <2>3. ASSUME NEW i \in 1..Len(fpr) PROVE fpr[i] = i - 1
    <3> DEFINE R == d.nextRecvEvent
               now == Len(part)
    <3>1. /\ R \in Nat /\ now \in Nat /\ Len(pr) = R
          /\ i \in 1..R + now /\ fpr[i] = IF i <= R THEN pr[i] ELSE part[i - R]
          /\ \A j \in 1..now : part[j] = R + j - 1
      BY <1>2, <1>3, <2>1, <2>2
    <3> HIDE DEF R, now
    <3>2. CASE i <= R
      <4>1. i \in 1..Len(pr)
        BY <3>1, <3>2
      <4> QED BY <2>1, <3>1, <3>2, <4>1
    <3>3. CASE ~(i <= R)
      <4>1. i - R \in 1..now /\ R + (i - R) - 1 = i - 1
        BY <3>1, <3>3
      <4> QED BY <3>1, <3>3, <4>1
    <3> QED BY <3>2, <3>3
  <2> QED BY <1>1, <1>2, <1>3, <2>1, <2>2, <2>3
<1> QED BY <1>0, <1>2, <1>3, <1>4, <1>5, <1>6, <1>7 DEF V

\* What arrived stays known, and what is missed stays so, unless it is what is read.
LEMMA FateKept ==
    ASSUME NEW c \in Conn, NEW d \in Conn, NEW f \in Conn, NEW pr, NEW fpr, NEW l, NEW fl, NEW w, NEW fw,
           NEW p \in Pack, Side(c, d, pr, l, w), PacketOf(c, p), d.lastSeqRecvd <= p.seq,
           Reads(d, f, p, pr, fpr, l, fl, w, fw), NEW i \in Notes(c)
    PROVE  /\ Told(d, l, w, c.notifyQueue[i]) => Told(f, fl, fw, c.notifyQueue[i])
           /\ Missed(d, l, c.notifyQueue[i]) =>
                Missed(f, fl, c.notifyQueue[i]) \/ (New(d, p) /\ i = NewPlace(c, d, p))
<1> DEFINE note == c.notifyQueue[i]
           V == Values(d, p)
           k == NewPlace(c, d, p)
<1>0. /\ \A n \in Nat : Has(f, n) <=> Has(d, n) \/ n \in V
      /\ w \subseteq fw
      /\ Elements(fl) = Elements(l) \cup (IF New(d, p) THEN UnorderedIn(c, k) ELSE {})
      /\ Healthy(f, fw) => Healthy(d, w)
  BY ReadIs
<1>1. /\ \A x \in V : \/ x <= c.lastAckedEvent
                      \/ New(d, p) /\ x \in OrderedIn(c, k)
  BY ListIs
<1>2. /\ note.recvd \in Nat /\ d.highestAcked \in Nat /\ f.highestAcked \in Nat /\ d.highestAcked <= f.highestAcked
      /\ Elements(note.ordered) = OrderedIn(c, i) /\ Elements(note.unordered) = UnorderedIn(c, i)
      /\ OrderedIn(c, i) \subseteq Nat
  <2>1. d.highestAcked \in Nat /\ f.highestAcked \in Nat /\ d.highestAcked <= f.highestAcked
    BY DEF Conn, Reads
  <2>2. note.recvd \in Nat /\ OrderedIn(c, i) \subseteq Nat
    BY NoteIs
  <2> QED BY <2>1, <2>2 DEF OrderedIn, UnorderedIn
<1>3. OrderedNote(c, i) /\ UnorderedNote(c, i) /\ c.lastAckedEvent \in Int
  BY DEF Side, Sender, OrderedInv, UnorderedInv, Conn
<1>4. New(d, p) => k \in Notes(c)
  BY NewAfter
<1> HIDE DEF note, V, k
<1>5. ASSUME Told(d, l, w, note) PROVE Told(f, fl, fw, note)
  <2>1. note.recvd <= f.highestAcked
    BY <1>2, <1>5 DEF Told
  <2>2. \A n \in Elements(note.unordered) : ReachedLoose(fl, fw, n)
    BY <1>0, <1>5 DEF Told, ReachedLoose
  <2>3. Healthy(f, fw) => \A n \in Elements(note.ordered) : Reached(f, fw, n)
    BY <1>0, <1>2, <1>5 DEF Told, Reached
  <2> QED BY <2>1, <2>2, <2>3 DEF Told
<1>6. ASSUME Missed(d, l, note), ~(New(d, p) /\ i = k) PROVE Missed(f, fl, note)
  <2>1. ASSUME NEW n \in UnorderedIn(c, i), n \in Elements(fl) PROVE FALSE
    <3>1. n \notin Elements(l)
      BY <1>2, <1>6, <2>1 DEF Missed
    <3>2. New(d, p) /\ n \in UnorderedIn(c, k)
      BY <1>0, <2>1, <3>1
    <3>3. i = k
      BY <1>3, <1>4, <2>1, <3>2 DEF UnorderedNote
    <3> QED BY <1>6, <3>2, <3>3
  <2>2. ASSUME NEW n \in OrderedIn(c, i), Has(f, n) PROVE FALSE
    <3>1. ~Has(d, n) /\ n \in Nat
      BY <1>2, <1>6, <2>2 DEF Missed
    <3>2. n \in V
      BY <1>0, <2>2, <3>1
    <3>3. c.lastAckedEvent < n
      BY <1>3, <2>2 DEF OrderedNote, Open
    <3>4. New(d, p) /\ n \in OrderedIn(c, k)
      BY <1>1, <1>3, <3>1, <3>2, <3>3
    <3>5. i = k
      BY <1>3, <1>4, <2>2, <3>4 DEF OrderedNote
    <3> QED BY <1>6, <3>4, <3>5
  <2> QED BY <1>2, <2>1, <2>2 DEF Missed
<1> QED BY <1>5, <1>6 DEF note, k

-----------------------------------------------------------------------------
(* What is known of the notes stays true when a packet is read.            *)

\* The events of the packet that is read, or swallowed, arrived.
LEMMA NowTold ==
    ASSUME NEW c \in Conn, NEW d \in Conn, NEW f \in Conn, NEW pr, NEW fpr, NEW l, NEW fl, NEW w, NEW fw,
           NEW p \in Pack, Side(c, d, pr, l, w), PacketOf(c, p), d.lastSeqRecvd <= p.seq,
           Reads(d, f, p, pr, fpr, l, fl, w, fw), NEW i \in Notes(c), p.seq = c.highestAcked + i,
           p.type = "data", New(d, p) \/ 0 \notin d.ackMask
    PROVE  Told(f, fl, fw, c.notifyQueue[i])
<1> DEFINE note == c.notifyQueue[i]
<1>0. /\ c.highestAcked \in Nat /\ i \in Nat /\ i >= 1 /\ p.seq \in Nat
      /\ note.ordered \in Seq(Nat) /\ note.unordered \in Seq(Nat)
      /\ Elements(note.ordered) \subseteq Nat
  <2>1. note.ordered \in Seq(Nat) /\ note.unordered \in Seq(Nat)
    BY NoteIs
  <2>2. c.highestAcked \in Nat /\ i \in Nat /\ i >= 1 /\ p.seq \in Nat
    BY DEF Conn, Notes, Pack
  <2> HIDE DEF note
  <2>3. Elements(note.ordered) \subseteq Nat
    BY <2>1 DEF Elements
  <2> QED BY <2>1, <2>2, <2>3
<1>1. p.seq > c.highestAcked /\ p.seq - c.highestAcked = i
  BY <1>0
<1>2. p.ordered = note.ordered /\ p.unordered = note.unordered /\ p.ack = note.recvd
  BY <1>1 DEF PacketOf
<1>3. note.recvd <= f.highestAcked
  BY <1>2 DEF Reads
<1> HIDE DEF note
<1>4. CASE New(d, p)
  <2> DEFINE k == NewPlace(c, d, p)
  <2>1. k = i
    BY <1>1 DEF NewPlace
  <2> HIDE DEF k
  <2>2. /\ \A n \in Nat : Has(f, n) <=> Has(d, n) \/ n \in Values(d, p)
        /\ Elements(fl) = Elements(l) \cup (IF New(d, p) THEN UnorderedIn(c, k) ELSE {})
        /\ Healthy(f, fw) => Healthy(d, w)
    BY ReadIs, SMTT(30) DEF k
  <2>3. Healthy(d, w) => (New(d, p) => Values(d, p) = OrderedIn(c, k))
    BY ListIs DEF k
  <2>4. Elements(note.ordered) = OrderedIn(c, k) /\ Elements(note.unordered) = UnorderedIn(c, k)
    BY <2>1 DEF OrderedIn, UnorderedIn, note
  <2>5. \A n \in Elements(note.unordered) : ReachedLoose(fl, fw, n)
    BY <1>4, <2>2, <2>4 DEF ReachedLoose
  <2>6. Healthy(f, fw) => \A n \in Elements(note.ordered) : Reached(f, fw, n)
    BY <1>0, <1>4, <2>2, <2>3, <2>4 DEF Reached
  <2> QED BY <1>3, <2>5, <2>6 DEF Told, note
<1>5. CASE ~New(d, p)
  <2>1. fw = w \cup Events(p)
    BY <1>5 DEF Reads
  <2>2. \A n \in Elements(note.ordered) : <<"ordered", n>> \in fw
    BY <1>2, <2>1 DEF Events, Elements
  <2>3. \A n \in Elements(note.unordered) : <<"unordered", n>> \in fw
    BY <1>2, <2>1 DEF Events, Elements
  <2> QED BY <1>3, <2>2, <2>3 DEF Told, Reached, ReachedLoose, note
<1> QED BY <1>4, <1>5

\* The mask of the receiver, after it, says what arrived.
LEMMA FateIs ==
    ASSUME NEW c \in Conn, NEW d \in Conn, NEW f \in Conn, NEW pr, NEW fpr, NEW l, NEW fl, NEW w, NEW fw,
           NEW p \in Pack, Side(c, d, pr, l, w), PacketOf(c, p), d.lastSeqRecvd <= p.seq,
           Reads(d, f, p, pr, fpr, l, fl, w, fw), NEW i \in Notes(c)
    PROVE  Fate(f, fl, fw, c.notifyQueue[i], f.lastSeqRecvd - (c.highestAcked + i) \in f.ackMask)
<1> DEFINE note == c.notifyQueue[i]
           s == c.highestAcked + i
           L == d.lastSeqRecvd
           b == p.seq - s
           data == p.type = "data"
<1>0. /\ c.highestAcked \in Nat /\ i \in Nat /\ i >= 1 /\ p.seq \in Nat /\ L \in Nat /\ Window \in Nat /\ Window >= 3
      /\ c.lastSendSeq \in Nat /\ p.seq <= c.lastSendSeq
      /\ c.lastSendSeq <= c.highestAcked + (Window - 2) /\ d.ackMask \subseteq 0..Window - 1
      /\ f.lastSeqRecvd = p.seq /\ f.ackMask = Shifted(d.ackMask, p.seq - L, data)
  <2>1. c.lastSendSeq = c.highestAcked + Len(c.notifyQueue) /\ Len(c.notifyQueue) <= Window - 2 /\ d.ackMask \subseteq 0..Window - 1
    BY DEF Side, Sender, WindowInv, NumbersInv
  <2>2. c.notifyQueue \in Seq(Note)
    BY DEF Conn
  <2>3. Len(c.notifyQueue) \in Nat
    BY <2>2
  <2>4. c.highestAcked \in Nat /\ i \in Nat /\ i >= 1 /\ p.seq \in Nat /\ L \in Nat /\ c.lastSendSeq \in Nat
    BY <2>3 DEF Conn, Notes, Pack
  <2>5. Window \in Nat /\ Window >= 3
    BY Constants
  <2>6. c.lastSendSeq <= c.highestAcked + (Window - 2)
    BY <2>1, <2>3, <2>4, <2>5
  <2> QED BY <2>1, <2>4, <2>5, <2>6 DEF Reads, PacketOf
<1>1. Fate(d, l, w, note, L - s \in d.ackMask)
  BY DEF Side, KnownInv
<1>2. b \in Int /\ b <= Window - 3 /\ b - (p.seq - L) = L - s /\ b >= L - s
  BY <1>0
<1> HIDE DEF s, L
<1>3. b \in f.ackMask <=> b \in 0..Window - 1 /\ (L - s \in d.ackMask \/ (b = 0 /\ data))
  BY <1>0, <1>2 DEF Shifted
<1>4. /\ Told(d, l, w, note) => Told(f, fl, fw, note)
      /\ Missed(d, l, note) => Missed(f, fl, note) \/ (New(d, p) /\ i = NewPlace(c, d, p))
  BY FateKept
<1> HIDE DEF note, b
<1>5. CASE L - s \in d.ackMask
  <2>1. Told(d, l, w, note)
    BY <1>1, <1>5 DEF Fate
  <2>2. L - s >= 0
    BY <1>0, <1>5
  <2>3. b \in f.ackMask
    BY <1>0, <1>2, <1>3, <1>5, <2>2 DEF s, L
  <2> QED BY <1>0, <1>4, <2>1, <2>3 DEF Fate, note, b, s
<1>6. CASE L - s \notin d.ackMask /\ b = 0 /\ data
  <2>1. p.seq = c.highestAcked + i
    BY <1>0, <1>6 DEF b, s
  <2>2. New(d, p) \/ 0 \notin d.ackMask
    <3>1. SUFFICES ASSUME ~New(d, p) PROVE 0 \notin d.ackMask
      OBVIOUS
    <3>2. p.seq = L
      BY <1>6, <3>1 DEF New, HasNewData, L
    <3>3. L - s = 0
      BY <1>0, <2>1, <3>2 DEF s
    <3> QED BY <1>6, <3>3
  <2>3. Told(f, fl, fw, note)
    BY <1>6, <2>1, <2>2, NowTold DEF note
  <2>4. b \in f.ackMask
    BY <1>0, <1>3, <1>6
  <2> QED BY <1>0, <2>3, <2>4 DEF Fate, note, b, s
<1>7. CASE L - s \notin d.ackMask /\ ~(b = 0 /\ data)
  <2>1. Missed(d, l, note)
    BY <1>1, <1>7 DEF Fate
  <2>2. ~(New(d, p) /\ i = NewPlace(c, d, p))
    <3>1. SUFFICES ASSUME New(d, p), i = NewPlace(c, d, p) PROVE FALSE
      OBVIOUS
    <3>2. data /\ i = p.seq - c.highestAcked
      BY <3>1 DEF New, HasNewData, NewPlace
    <3>3. b = 0
      BY <1>0, <3>2 DEF b, s
    <3> QED BY <1>7, <3>2, <3>3
  <2>3. Missed(f, fl, note) /\ b \notin f.ackMask
    BY <1>3, <1>4, <1>7, <2>1, <2>2
  <2> QED BY <1>0, <2>3 DEF Fate, note, b, s
<1> QED BY <1>5, <1>6, <1>7

\* So the sender's knowledge stays true.
LEMMA KnownKept ==
    ASSUME NEW c \in Conn, NEW d \in Conn, NEW f \in Conn, NEW pr, NEW fpr, NEW l, NEW fl, NEW w, NEW fw,
           NEW p \in Pack, Side(c, d, pr, l, w), PacketOf(c, p), d.lastSeqRecvd <= p.seq,
           Reads(d, f, p, pr, fpr, l, fl, w, fw)
    PROVE  KnownInv(c, f, fl, fw)
<1> DEFINE k == NewPlace(c, d, p)
<1>0. /\ \A n \in Nat : Has(f, n) <=> Has(d, n) \/ n \in Values(d, p)
      /\ w \subseteq fw
      /\ Elements(fl) = Elements(l) \cup (IF New(d, p) THEN UnorderedIn(c, k) ELSE {})
      /\ Healthy(f, fw) => Healthy(d, w)
  BY ReadIs
<1>1. \A x \in Values(d, p) : x <= c.lastAckedEvent \/ (New(d, p) /\ x \in OrderedIn(c, k))
  BY ListIs
<1>2. KnownInv(c, d, l, w) /\ OrderedInv(c) /\ UnorderedInv(c)
  BY DEF Side, Sender
<1>3. New(d, p) => OrderedNote(c, k) /\ UnorderedNote(c, k)
  BY NewAfter
<1>4. Elements(c.sendQueue) \subseteq Nat /\ c.lastAckedEvent \in Int
  <2>1. c.sendQueue \in Seq(Nat) /\ c.lastAckedEvent \in Int
    BY DEF Conn
  <2>2. \A i \in 1..Len(c.sendQueue) : c.sendQueue[i] \in Nat
    BY <2>1
  <2> QED BY <2>1, <2>2 DEF Elements
<1> HIDE DEF k
<1>5. ASSUME NEW n \in Elements(c.sendQueue) PROVE ~Has(f, n)
  <2>1. n \in Nat /\ ~Has(d, n) /\ c.lastAckedEvent < n
    BY <1>2, <1>4 DEF KnownInv, OrderedInv, Open
  <2>2. ~(New(d, p) /\ n \in OrderedIn(c, k))
    BY <1>3 DEF OrderedNote
  <2>3. ~(n <= c.lastAckedEvent)
    BY <1>4, <2>1
  <2> QED BY <1>0, <1>1, <2>1, <2>2, <2>3
<1>6. ASSUME NEW n \in Elements(c.unordered) PROVE n \notin Elements(fl)
  <2>1. n \notin Elements(l)
    BY <1>2 DEF KnownInv
  <2>2. ~(New(d, p) /\ n \in UnorderedIn(c, k))
    BY <1>3 DEF UnorderedNote
  <2> QED BY <1>0, <2>1, <2>2
<1>7. ASSUME Healthy(f, fw), NEW n \in Nat, n <= c.lastAckedEvent \/ n \in Elements(c.notifyEvents)
      PROVE  Reached(f, fw, n)
  <2>1. Reached(d, w, n)
    BY <1>0, <1>2, <1>7 DEF KnownInv
  <2> QED BY <1>0, <2>1 DEF Reached
<1>8. ASSUME NEW n \in Nat, n < c.nextUnordered
      PROVE  \/ n \in Elements(c.unordered) \/ ReachedLoose(fl, fw, n)
             \/ \E i \in Notes(c) : n \in UnorderedIn(c, i)
  <2>1. ReachedLoose(l, w, n) => ReachedLoose(fl, fw, n)
    BY <1>0 DEF ReachedLoose
  <2> QED BY <1>2, <1>8, <2>1 DEF KnownInv
<1>9. ASSUME NEW i \in Notes(c)
      PROVE  /\ c.notifyQueue[i].recvd <= c.lastSeqRecvd
             /\ Fate(f, fl, fw, c.notifyQueue[i], f.lastSeqRecvd - (c.highestAcked + i) \in f.ackMask)
  BY <1>2, FateIs DEF KnownInv
<1> QED BY <1>5, <1>6, <1>7, <1>8, <1>9 DEF KnownInv

\* And what the receiver has was sent, and is in order.
LEMMA ReceiverKept ==
    ASSUME NEW c \in Conn, NEW d \in Conn, NEW f \in Conn, NEW pr, NEW fpr, NEW l, NEW fl, NEW w, NEW fw,
           NEW p \in Pack, Side(c, d, pr, l, w), PacketOf(c, p), d.lastSeqRecvd <= p.seq,
           Reads(d, f, p, pr, fpr, l, fl, w, fw)
    PROVE  ReceiverInv(c, f, fpr, fl, fw) /\ fpr \in Seq(Nat) /\ fl \in Seq(Nat) /\ fw \in SUBSET Kinds
<1>0. /\ d.nextRecvEvent \in Nat /\ f.nextRecvEvent \in Nat /\ c.nextSendEvent \in Nat
      /\ ReceiverInv(c, d, pr, l, w) /\ UnorderedInv(c)
  BY DEF Conn, Side, Sender
<1>1. f.nextRecvEvent <= c.nextSendEvent
  <2>1. CASE f.nextRecvEvent = d.nextRecvEvent
    BY <1>0, <2>1 DEF ReceiverInv
  <2>2. CASE f.nextRecvEvent # d.nextRecvEvent
    <3>1. d.nextRecvEvent <= f.nextRecvEvent /\ \A n \in d.nextRecvEvent..f.nextRecvEvent - 1 : n < c.nextSendEvent
      BY ReadIs
    <3>2. f.nextRecvEvent - 1 \in d.nextRecvEvent..f.nextRecvEvent - 1
      BY <1>0, <2>2, <3>1
    <3>3. f.nextRecvEvent - 1 < c.nextSendEvent
      BY <3>1, <3>2
    <3> QED BY <1>0, <3>3
  <2> QED BY <2>1, <2>2
<1>2. /\ Healthy(f, fw) => Rising(f.waiting) /\ \A x \in Elements(f.waiting) : x > f.nextRecvEvent
      /\ \A n \in Elements(f.waiting) : n < c.nextSendEvent
      /\ fpr \in Seq(Nat) /\ Len(fpr) = f.nextRecvEvent /\ \A i \in 1..Len(fpr) : fpr[i] = i - 1
      /\ Distinct(fl) /\ fl \in Seq(Nat)
  BY ReadIs
<1>3. ASSUME NEW n \in Elements(fl) PROVE n < c.nextUnordered
  <2>1. Elements(fl) = Elements(l) \cup (IF New(d, p) THEN UnorderedIn(c, NewPlace(c, d, p)) ELSE {})
    BY ReadIs
  <2>2. New(d, p) => UnorderedNote(c, NewPlace(c, d, p))
    BY NewAfter
  <2> QED BY <1>0, <2>1, <2>2 DEF ReceiverInv, UnorderedNote
<1>4. fw \in SUBSET Kinds
  <2>1. w \in SUBSET Kinds
    BY DEF Side
  <2>2. Events(p) \in SUBSET Kinds
    <3>1. p.ordered \in Seq(Nat) /\ p.unordered \in Seq(Nat)
      BY DEF Pack
    <3>2. (\A i \in 1..Len(p.ordered) : p.ordered[i] \in Nat) /\ (\A i \in 1..Len(p.unordered) : p.unordered[i] \in Nat)
      BY <3>1
    <3> QED BY <3>2 DEF Events, Kinds
  <2> QED BY <2>1, <2>2 DEF Reads
<1> QED BY <1>1, <1>2, <1>3, <1>4 DEF ReceiverInv

\* What is read leaves the side in order.
LEMMA SideKept ==
    ASSUME NEW c \in Conn, NEW d \in Conn, NEW f \in Conn, NEW pr, NEW fpr, NEW l, NEW fl, NEW w, NEW fw,
           NEW p \in Pack, Side(c, d, pr, l, w), PacketOf(c, p), d.lastSeqRecvd <= p.seq,
           Reads(d, f, p, pr, fpr, l, fl, w, fw),
           f.lastRecvAckAck <= c.highestAcked, f.lastSeqRecvd - f.lastRecvAckAck \in 0..Window
    PROVE  Side(c, f, fpr, fl, fw)
<1>1. KnownInv(c, f, fl, fw)
  BY KnownKept
<1>2. ReceiverInv(c, f, fpr, fl, fw) /\ fpr \in Seq(Nat) /\ fl \in Seq(Nat) /\ fw \in SUBSET Kinds
  BY ReceiverKept
<1>3. NumbersInv(c, f)
  <2>1. NumbersInv(c, d) /\ f.lastSeqRecvd = p.seq /\ p.seq <= c.lastSendSeq
    BY DEF Side, Reads, PacketOf
  <2>2. f.ackMask \subseteq 0..Window - 1
    BY DEF Reads, Shifted
  <2>3. c.highestAcked \in Nat /\ d.lastSeqRecvd \in Nat /\ p.seq \in Nat
    BY DEF Conn, Pack
  <2> QED BY <2>1, <2>2, <2>3 DEF NumbersInv
<1> QED BY <1>1, <1>2, <1>3 DEF Side

-----------------------------------------------------------------------------
(* What headers tell stays true, and numbers are taken for what they are.  *)

\* What a header told stays true, whatever is read.
LEMMA TellsKept ==
    ASSUME NEW c \in Conn, NEW d \in Conn, NEW f \in Conn, NEW pr, NEW fpr, NEW l, NEW fl, NEW w, NEW fw,
           NEW p \in Pack, Side(c, d, pr, l, w), PacketOf(c, p), d.lastSeqRecvd <= p.seq,
           Reads(d, f, p, pr, fpr, l, fl, w, fw),
           NEW ack \in Nat, NEW mask, ack <= d.lastSeqRecvd, Tells(c, d, l, w, ack, mask)
    PROVE  Tells(c, f, fl, fw, ack, mask)
<1> SUFFICES ASSUME NEW i \in Notes(c), c.highestAcked + i <= ack
             PROVE  Fate(f, fl, fw, c.notifyQueue[i], ack - (c.highestAcked + i) \in mask)
  BY DEF Tells
<1>1. Fate(d, l, w, c.notifyQueue[i], ack - (c.highestAcked + i) \in mask)
  BY DEF Tells
<1>2. c.highestAcked \in Nat /\ i \in Nat /\ d.lastSeqRecvd \in Nat /\ p.seq \in Nat
  BY DEF Conn, Notes, Pack
<1>3. ~(New(d, p) /\ i = NewPlace(c, d, p))
  <2>1. SUFFICES ASSUME New(d, p), i = NewPlace(c, d, p) PROVE FALSE
    OBVIOUS
  <2>2. p.seq = c.highestAcked + NewPlace(c, d, p) /\ d.lastSeqRecvd < p.seq
    BY <2>1, NewAfter
  <2> QED BY <1>2, <2>1, <2>2
<1>4. /\ Told(d, l, w, c.notifyQueue[i]) => Told(f, fl, fw, c.notifyQueue[i])
      /\ Missed(d, l, c.notifyQueue[i]) =>
            Missed(f, fl, c.notifyQueue[i]) \/ (New(d, p) /\ i = NewPlace(c, d, p))
  BY FateKept
<1> QED BY <1>1, <1>3, <1>4 DEF Fate

\* A header that is written now tells what is so.
LEMMA HeaderTells ==
    ASSUME NEW c \in Conn, NEW d \in Conn, NEW pr, NEW l, NEW w, Side(c, d, pr, l, w)
    PROVE  Tells(c, d, l, w, d.lastSeqRecvd, SentMask(d))
<1> SUFFICES ASSUME NEW i \in Notes(c), c.highestAcked + i <= d.lastSeqRecvd
             PROVE  Fate(d, l, w, c.notifyQueue[i], d.lastSeqRecvd - (c.highestAcked + i) \in SentMask(d))
  BY DEF Tells
<1> DEFINE L == d.lastSeqRecvd
           A == d.lastRecvAckAck
           b == L - (c.highestAcked + i)
           sent == AckUnit * ((L - A + AckUnit - 1) \div AckUnit)
<1>1. Fate(d, l, w, c.notifyQueue[i], b \in d.ackMask)
  BY DEF Side, KnownInv
<1>2. /\ c.highestAcked \in Nat /\ i \in Nat /\ i >= 1 /\ L \in Nat /\ A \in Nat /\ A <= c.highestAcked
      /\ AckUnit \in Nat \ {0}
  BY Constants DEF Conn, Notes, Side, NumbersInv
<1>3. SentMask(d) = {x \in d.ackMask : x < sent}
  BY DEF SentMask
<1>4. sent >= L - A /\ sent \in Int
  <2> HIDE DEF L, A
  <2>1. L - A \in Int
    BY <1>2
  <2>2. AckUnit * (((L - A) + AckUnit - 1) \div AckUnit) >= L - A
    BY <1>2, <2>1, RoundedUp
  <2>3. ((L - A) + AckUnit - 1) \div AckUnit \in Int
    BY <1>2, <2>1
  <2>4. sent \in Int
    BY <1>2, <2>3
  <2> QED BY <2>2, <2>4
<1> HIDE DEF sent
<1>5. b < L - A /\ b \in Int /\ L - A \in Int
  BY <1>2
<1>6. b < sent
  <2> HIDE DEF b, L, A
  <2> QED BY <1>4, <1>5
<1>7. b \in SentMask(d) <=> b \in d.ackMask
  <2> HIDE DEF b
  <2> QED BY <1>3, <1>6
<1> QED BY <1>1, <1>7

\* What a packet's number is taken for, and when it is accepted: no older one is.
LEMMA SeqIs ==
    ASSUME NEW c \in Conn, NEW d \in Conn, NEW p \in Pack, Sender(c), NumbersInv(c, d), PacketOf(c, p),
           Unwrapped(p.seq, d.lastSeqRecvd, SeqMod) - d.lastSeqRecvd < Window
    PROVE  Unwrapped(p.seq, d.lastSeqRecvd, SeqMod) = p.seq /\ d.lastSeqRecvd <= p.seq
<1> DEFINE L == d.lastSeqRecvd
           S == c.lastSendSeq
           H == c.highestAcked
           q == p.seq
<1>0. /\ L \in Nat /\ S \in Nat /\ H \in Nat /\ q \in Nat /\ H <= L /\ L <= S /\ q <= S /\ S - q < Delay
      /\ S <= H + (Window - 2)
      /\ Window \in Nat /\ Delay \in Nat /\ SeqMod \in Nat \ {0} /\ Window + Delay <= SeqMod
  <2>1. c.notifyQueue \in Seq(Note)
    BY DEF Conn
  <2>2. Len(c.notifyQueue) \in Nat /\ Len(c.notifyQueue) <= Window - 2 /\ S = H + Len(c.notifyQueue)
    BY <2>1 DEF Sender, WindowInv
  <2>3. L \in Nat /\ S \in Nat /\ H \in Nat /\ q \in Nat
    BY DEF Conn, Pack
  <2>4. H <= L /\ L <= S /\ q <= S /\ S - q < Delay
    BY DEF NumbersInv, PacketOf
  <2>5. S <= H + (Window - 2)
    <3> HIDE DEF S, H
    <3> QED BY <2>2, <2>3, Constants
  <2> HIDE DEF S, H, L, q
  <2> QED BY <2>3, <2>4, <2>5, Constants
<1>1. Unwrapped(q, L, SeqMod) - L < Window
  OBVIOUS
<1> HIDE DEF S, H, L, q
<1>2. CASE q < L
  <2>1. L <= q + SeqMod /\ q \in Int /\ L \in Int
    BY <1>0
  <2>2. Unwrapped(q, L, SeqMod) = q + SeqMod
    BY <1>0, <1>2, <2>1, UnwrappedFar
  <2> QED BY <1>0, <1>1, <2>2
<1>3. CASE L <= q
  <2>1. q < L + SeqMod /\ q \in Int /\ L \in Int
    BY <1>0
  <2>2. Unwrapped(q, L, SeqMod) = q
    BY <1>0, <1>3, <2>1, UnwrappedNear
  <2> QED BY <1>3, <2>2 DEF q, L
<1> QED BY <1>0, <1>2, <1>3

\* The same of the number of the last packet that its sender has seen.
LEMMA AckIs ==
    ASSUME NEW c \in Conn, NEW d \in Conn, NEW l, NEW w, NEW p \in Pack, Sender(c), NumbersInv(c, d),
           HeaderOf(c, d, l, w, p),
           Unwrapped(p.ack, c.highestAcked, AckMod) <= c.lastSendSeq
    PROVE  Unwrapped(p.ack, c.highestAcked, AckMod) = p.ack /\ c.highestAcked <= p.ack /\ p.ack <= c.lastSendSeq
<1> DEFINE L == d.lastSeqRecvd
           S == c.lastSendSeq
           H == c.highestAcked
           q == p.ack
<1>0. /\ L \in Nat /\ S \in Nat /\ H \in Nat /\ q \in Nat /\ H <= L /\ L <= S /\ q <= L /\ L - q < Delay
      /\ S <= H + (Window - 2)
      /\ Window \in Nat /\ Delay \in Nat /\ AckMod \in Nat \ {0} /\ Window + Delay <= AckMod
  <2>1. c.notifyQueue \in Seq(Note)
    BY DEF Conn
  <2>2. Len(c.notifyQueue) \in Nat /\ Len(c.notifyQueue) <= Window - 2 /\ S = H + Len(c.notifyQueue)
    BY <2>1 DEF Sender, WindowInv
  <2>3. L \in Nat /\ S \in Nat /\ H \in Nat /\ q \in Nat
    BY DEF Conn, Pack
  <2>4. H <= L /\ L <= S /\ q <= L /\ L - q < Delay
    BY DEF NumbersInv, HeaderOf
  <2>5. S <= H + (Window - 2)
    <3> HIDE DEF S, H
    <3> QED BY <2>2, <2>3, Constants
  <2> HIDE DEF S, H, L, q
  <2> QED BY <2>3, <2>4, <2>5, Constants
<1>1. Unwrapped(q, H, AckMod) <= S
  OBVIOUS
<1> HIDE DEF S, H, L, q
<1>2. CASE q < H
  <2>1. H <= q + AckMod /\ q \in Int /\ H \in Int
    BY <1>0
  <2>2. Unwrapped(q, H, AckMod) = q + AckMod
    BY <1>0, <1>2, <2>1, UnwrappedFar
  <2> QED BY <1>0, <1>1, <2>2
<1>3. CASE H <= q
  <2>1. q < H + AckMod /\ q \in Int /\ H \in Int
    BY <1>0
  <2>2. Unwrapped(q, H, AckMod) = q
    BY <1>0, <1>3, <2>1, UnwrappedNear
  <2> QED BY <1>1, <1>3, <2>2 DEF q, H, S
<1> QED BY <1>0, <1>2, <1>3

-----------------------------------------------------------------------------
(* The invariant, and the steps that leave the sender or the receiver      *)
(* alone.                                                                  *)

\* What matters of an end as the receiver, and as the sender.
SameReceiver(d, f) ==
    /\ f.waiting = d.waiting /\ f.nextRecvEvent = d.nextRecvEvent /\ f.highestAcked = d.highestAcked
    /\ f.lastSeqRecvd = d.lastSeqRecvd /\ f.ackMask = d.ackMask /\ f.lastRecvAckAck = d.lastRecvAckAck
SameSender(c, n) ==
    /\ n.lastSendSeq = c.lastSendSeq /\ n.highestAcked = c.highestAcked
    /\ n.notifyQueue = c.notifyQueue /\ n.sendQueue = c.sendQueue /\ n.unordered = c.unordered
    /\ n.notifyEvents = c.notifyEvents /\ n.lastAckedEvent = c.lastAckedEvent
    /\ n.nextSendEvent = c.nextSendEvent /\ n.nextUnordered = c.nextUnordered
    /\ c.lastSeqRecvd <= n.lastSeqRecvd

\* What is said of a receiver is said of one with the same receiving fields.
LEMMA ReceiverSame ==
    ASSUME NEW c, NEW d, NEW f, NEW l, NEW w, SameReceiver(d, f)
    PROVE  /\ KnownInv(c, d, l, w) => KnownInv(c, f, l, w)
           /\ NumbersInv(c, d) => NumbersInv(c, f)
           /\ \A pr : ReceiverInv(c, d, pr, l, w) => ReceiverInv(c, f, pr, l, w)
           /\ \A ack, mask : Tells(c, d, l, w, ack, mask) => Tells(c, f, l, w, ack, mask)
<1>1. f.waiting = d.waiting /\ f.nextRecvEvent = d.nextRecvEvent /\ f.highestAcked = d.highestAcked
  BY DEF SameReceiver
<1>2. f.lastSeqRecvd = d.lastSeqRecvd /\ f.ackMask = d.ackMask /\ f.lastRecvAckAck = d.lastRecvAckAck
  BY DEF SameReceiver
<1>3. \A n : Has(f, n) <=> Has(d, n)
  BY <1>1 DEF Has
<1>4. Healthy(f, w) <=> Healthy(d, w)
  BY <1>1 DEF Healthy
<1>5. \A n : Reached(f, w, n) <=> Reached(d, w, n)
  BY <1>3 DEF Reached
<1>6. ASSUME NEW note PROVE (Told(d, l, w, note) <=> Told(f, l, w, note)) /\ (Missed(d, l, note) <=> Missed(f, l, note))
  <2>1. Told(d, l, w, note) <=> Told(f, l, w, note)
    BY <1>1, <1>4, <1>5 DEF Told
  <2>2. Missed(d, l, note) <=> Missed(f, l, note)
    BY <1>3 DEF Missed
  <2> QED BY <2>1, <2>2
<1>7. ASSUME NEW note, NEW bit PROVE Fate(d, l, w, note, bit) <=> Fate(f, l, w, note, bit)
  BY <1>6 DEF Fate
<1>8. ASSUME KnownInv(c, d, l, w) PROVE KnownInv(c, f, l, w)
  <2>1. /\ \A n \in Elements(c.sendQueue) : ~Has(f, n)
        /\ \A n \in Elements(c.unordered) : n \notin Elements(l)
    BY <1>3, <1>8 DEF KnownInv
  <2>2. Healthy(f, w) =>
            \A n \in Nat : n <= c.lastAckedEvent \/ n \in Elements(c.notifyEvents) => Reached(f, w, n)
    BY <1>4, <1>5, <1>8 DEF KnownInv
  <2>3. \A n \in Nat : n < c.nextUnordered =>
            \/ n \in Elements(c.unordered) \/ ReachedLoose(l, w, n)
            \/ \E i \in Notes(c) : n \in UnorderedIn(c, i)
    BY <1>8 DEF KnownInv
  <2>4. \A i \in Notes(c) :
            /\ c.notifyQueue[i].recvd <= c.lastSeqRecvd
            /\ Fate(f, l, w, c.notifyQueue[i], f.lastSeqRecvd - (c.highestAcked + i) \in f.ackMask)
    BY <1>2, <1>7, <1>8 DEF KnownInv
  <2> QED BY <2>1, <2>2, <2>3, <2>4 DEF KnownInv
<1>9. NumbersInv(c, d) => NumbersInv(c, f)
  BY <1>2 DEF NumbersInv
<1>10. \A pr : ReceiverInv(c, d, pr, l, w) => ReceiverInv(c, f, pr, l, w)
  BY <1>1, <1>4 DEF ReceiverInv
<1>11. \A ack, mask : Tells(c, d, l, w, ack, mask) => Tells(c, f, l, w, ack, mask)
  BY <1>7 DEF Tells
<1> QED BY <1>8, <1>9, <1>10, <1>11

\* What is said of a sender is said of one with the same sending fields.
LEMMA SenderSame ==
    ASSUME NEW c \in Conn, NEW n \in Conn, NEW d, NEW l, NEW w, SameSender(c, n)
    PROVE  /\ Sender(c) => Sender(n)
           /\ KnownInv(c, d, l, w) => KnownInv(n, d, l, w)
           /\ NumbersInv(c, d) => NumbersInv(n, d)
           /\ \A pr : ReceiverInv(c, d, pr, l, w) => ReceiverInv(n, d, pr, l, w)
           /\ \A ack, mask : Tells(c, d, l, w, ack, mask) => Tells(n, d, l, w, ack, mask)
           /\ \A p : PacketOf(c, p) => PacketOf(n, p)
<1>1. /\ n.lastSendSeq = c.lastSendSeq /\ n.highestAcked = c.highestAcked
      /\ n.notifyQueue = c.notifyQueue /\ n.sendQueue = c.sendQueue /\ n.unordered = c.unordered
      /\ n.notifyEvents = c.notifyEvents /\ n.lastAckedEvent = c.lastAckedEvent
      /\ n.nextSendEvent = c.nextSendEvent /\ n.nextUnordered = c.nextUnordered
  BY DEF SameSender
<1>2. c.lastSeqRecvd \in Nat /\ n.lastSeqRecvd \in Nat /\ c.lastSeqRecvd <= n.lastSeqRecvd
      /\ \A i \in Notes(c) : c.notifyQueue[i].recvd \in Nat
  BY NoteIs DEF SameSender, Conn
<1>3. Notes(n) = Notes(c) /\ (\A x : Open(n, x) <=> Open(c, x))
  BY <1>1 DEF Notes, Open
<1>4. \A i : OrderedIn(n, i) = OrderedIn(c, i) /\ UnorderedIn(n, i) = UnorderedIn(c, i)
  BY <1>1 DEF OrderedIn, UnorderedIn
<1>5. Sender(c) => Sender(n)
  <2>1. WindowInv(c) => WindowInv(n)
    BY <1>1 DEF WindowInv
  <2>2. \A i : OrderedNote(c, i) => OrderedNote(n, i)
    BY <1>1, <1>3, <1>4 DEF OrderedNote
  <2>3. OrderedInv(c) => OrderedInv(n)
    BY <1>1, <1>3, <1>4, <2>2 DEF OrderedInv
  <2>4. \A i : UnorderedNote(c, i) => UnorderedNote(n, i)
    BY <1>1, <1>3, <1>4 DEF UnorderedNote
  <2>5. UnorderedInv(c) => UnorderedInv(n)
    BY <1>1, <1>3, <2>4 DEF UnorderedInv
  <2> QED BY <2>1, <2>3, <2>5 DEF Sender
<1>6. ASSUME KnownInv(c, d, l, w) PROVE KnownInv(n, d, l, w)
  <2>1. /\ \A x \in Elements(n.sendQueue) : ~Has(d, x)
        /\ \A x \in Elements(n.unordered) : x \notin Elements(l)
        /\ Healthy(d, w) =>
            \A x \in Nat : x <= n.lastAckedEvent \/ x \in Elements(n.notifyEvents) => Reached(d, w, x)
    BY <1>1, <1>6 DEF KnownInv
  <2>2. \A x \in Nat : x < n.nextUnordered =>
            \/ x \in Elements(n.unordered) \/ ReachedLoose(l, w, x)
            \/ \E i \in Notes(n) : x \in UnorderedIn(n, i)
    BY <1>1, <1>3, <1>4, <1>6 DEF KnownInv
  <2>3. ASSUME NEW i \in Notes(n)
        PROVE  /\ n.notifyQueue[i].recvd <= n.lastSeqRecvd
               /\ Fate(d, l, w, n.notifyQueue[i], d.lastSeqRecvd - (n.highestAcked + i) \in d.ackMask)
    <3>1. /\ c.notifyQueue[i].recvd <= c.lastSeqRecvd /\ c.notifyQueue[i].recvd \in Nat
          /\ Fate(d, l, w, c.notifyQueue[i], d.lastSeqRecvd - (c.highestAcked + i) \in d.ackMask)
      BY <1>2, <1>3, <1>6 DEF KnownInv
    <3>2. c.notifyQueue[i].recvd <= n.lastSeqRecvd
      BY <1>2, <3>1
    <3> QED BY <1>1, <3>1, <3>2
  <2> QED BY <2>1, <2>2, <2>3 DEF KnownInv
<1>7. NumbersInv(c, d) => NumbersInv(n, d)
  BY <1>1 DEF NumbersInv
<1>8. \A pr : ReceiverInv(c, d, pr, l, w) => ReceiverInv(n, d, pr, l, w)
  BY <1>1 DEF ReceiverInv
<1>9. \A ack, mask : Tells(c, d, l, w, ack, mask) => Tells(n, d, l, w, ack, mask)
  BY <1>1, <1>3 DEF Tells
<1>10. \A p : PacketOf(c, p) => PacketOf(n, p)
  BY <1>1 DEF PacketOf
<1> QED BY <1>5, <1>6, <1>7, <1>8, <1>9, <1>10

-----------------------------------------------------------------------------
\* What goes one way is in order, for each of the ends.
Direction(e) ==
    LET c == conn[e]
        q == Peer(e)
        d == conn[q]
    IN /\ Side(c, d, processed[q], loose[q], swallowed[e])
       /\ \A p \in net : /\ p.from = e => PacketOf(c, p)
                         /\ p.from = q => HeaderOf(c, d, loose[q], swallowed[e], p)
IInv == TypeInv /\ \A e \in End : Direction(e)

\* The packets under way after others are sent.
LEMMA SendIs ==
    ASSUME NEW packets, Send(packets)
    PROVE  \A p \in net' : /\ p \in net \/ p \in packets
                           /\ conn'[p.from].lastSendSeq - p.seq < Delay
                           /\ conn'[p.from].lastSeqRecvd - p.ack < Delay
<1> DEFINE under == {p \in net \cup packets :
                    /\ conn'[p.from].lastSendSeq - p.seq < Delay
                    /\ conn'[p.from].lastSeqRecvd - p.ack < Delay}
<1>1. net' = under \/ \E lost \in under : net' = under \ {lost}
  BY DEF Send
<1>2. net' \subseteq under
  <2> HIDE DEF under
  <2> QED BY <1>1
<1> QED BY <1>2

\* A packet says who sent it, and what that end knew.
LEMMA PacketIs ==
    ASSUME NEW e \in End, NEW c \in Conn, NEW type \in {"data", "ping", "ack"},
           NEW first \in Seq(Nat), NEW others \in Seq(Nat)
    PROVE  LET p == Packet(e, c, type, first, others)
           IN /\ p \in Pack /\ p.from = e /\ p.type = type /\ p.seq = c.lastSendSeq
              /\ p.ack = c.lastSeqRecvd /\ p.mask = SentMask(c)
              /\ p.unordered = first /\ p.ordered = others
<1>1. c.lastSendSeq \in Nat /\ c.lastSeqRecvd \in Nat /\ SentMask(c) \in SUBSET Nat
  BY DEF Conn, SentMask
<1> QED BY <1>1 DEF Packet, Pack

-----------------------------------------------------------------------------
(* A direction when packets are sent.                                      *)

\* PacketOf and HeaderOf, but for how late the packet may be.
Carries(c, p) ==
    /\ p.seq <= c.lastSendSeq
    /\ p.type = "data" /\ p.seq > c.highestAcked =>
        LET note == c.notifyQueue[p.seq - c.highestAcked]
        IN p.ordered = note.ordered /\ p.unordered = note.unordered /\ p.ack = note.recvd
Says(c, d, l, w, p) == p.ack <= d.lastSeqRecvd /\ Tells(c, d, l, w, p.ack, p.mask)

\* To see that a direction is in order when packets are sent.
LEMMA DirectionAfter ==
    ASSUME NEW x \in End, NEW packets, Send(packets),
           Side(conn'[x], conn'[Peer(x)], processed'[Peer(x)], loose'[Peer(x)], swallowed'[x]),
           \A p \in net \cup packets :
                /\ p.from = x => Carries(conn'[x], p)
                /\ p.from = Peer(x) => Says(conn'[x], conn'[Peer(x)], loose'[Peer(x)], swallowed'[x], p)
    PROVE  Direction(x)'
<1>1. \A p \in net' : /\ p \in net \/ p \in packets
                      /\ conn'[p.from].lastSendSeq - p.seq < Delay
                      /\ conn'[p.from].lastSeqRecvd - p.ack < Delay
  BY SendIs
<1>2. ASSUME NEW p \in net', p.from = x PROVE PacketOf(conn'[x], p)
  <2>1. Carries(conn'[x], p) /\ conn'[x].lastSendSeq - p.seq < Delay
    BY <1>1, <1>2
  <2> QED BY <2>1 DEF Carries, PacketOf
<1>3. ASSUME NEW p \in net', p.from = Peer(x)
      PROVE  HeaderOf(conn'[x], conn'[Peer(x)], loose'[Peer(x)], swallowed'[x], p)
  <2>1. Says(conn'[x], conn'[Peer(x)], loose'[Peer(x)], swallowed'[x], p) /\ conn'[Peer(x)].lastSeqRecvd - p.ack < Delay
    BY <1>1, <1>3
  <2> QED BY <2>1 DEF Says, HeaderOf
<1> QED BY <1>2, <1>3 DEF Direction

\* What the packets under way are, as long as an end stays as it is.
LEMMA DirectionIs ==
    ASSUME NEW x \in End, Direction(x), NEW p \in net
    PROVE  /\ p.from = x => Carries(conn[x], p)
           /\ p.from = Peer(x) => Says(conn[x], conn[Peer(x)], loose[Peer(x)], swallowed[x], p)
BY DEF Direction, PacketOf, Carries, HeaderOf, Says

\* What a packet carries depends on the sender's notes only.
LEMMA CarriesSame ==
    ASSUME NEW c, NEW n, n.lastSendSeq = c.lastSendSeq, n.highestAcked = c.highestAcked,
           n.notifyQueue = c.notifyQueue
    PROVE  \A p : Carries(c, p) => Carries(n, p)
BY DEF Carries

\* When neither the sender nor the receiver of a direction sends.
LEMMA DirectionStays ==
    ASSUME NEW x \in End, TypeInv, Direction(x), TypeInv', net' = net,
           UNCHANGED <<processed, loose, swallowed>>,
           conn'[x] = conn[x] \/ SameSender(conn[x], conn'[x]) ,
           conn'[Peer(x)] = conn[Peer(x)] \/ SameReceiver(conn[Peer(x)], conn'[Peer(x)])
    PROVE  Direction(x)'
<1> DEFINE q == Peer(x)
           c == conn[x]
           n == conn'[x]
           d == conn[q]
           f == conn'[q]
           pr == processed[q]
           l == loose[q]
           w == swallowed[x]
<1>0. c \in Conn /\ n \in Conn /\ d \in Conn /\ f \in Conn
  BY PeerIs DEF TypeInv
<1>1. SameSender(c, n)
  <2>1. c.lastSeqRecvd \in Nat
    BY <1>0 DEF Conn
  <2>2. n = c \/ SameSender(c, n)
    OBVIOUS
  <2> HIDE DEF c, n
  <2> QED BY <2>1, <2>2 DEF SameSender
<1>2. SameReceiver(d, f)
  BY DEF SameReceiver
<1>3. Sender(c) /\ KnownInv(c, d, l, w) /\ NumbersInv(c, d) /\ ReceiverInv(c, d, pr, l, w) /\ pr \in Seq(Nat) /\ l \in Seq(Nat) /\ w \in SUBSET Kinds
  BY DEF Direction, Side
<1>4. \A p \in net : /\ p.from = x => PacketOf(c, p)
                     /\ p.from = q => HeaderOf(c, d, l, w, p)
  BY DEF Direction
<1>5. processed'[q] = pr /\ loose'[q] = l /\ swallowed'[x] = w
  OBVIOUS
<1> HIDE DEF c, n, d, f, pr, l, w, q
<1>6. /\ Sender(n) /\ KnownInv(n, d, l, w) /\ NumbersInv(n, d) /\ ReceiverInv(n, d, pr, l, w)
      /\ \A ack, mask : Tells(c, d, l, w, ack, mask) => Tells(n, d, l, w, ack, mask)
      /\ \A p : PacketOf(c, p) => PacketOf(n, p)
  BY <1>0, <1>1, <1>3, SenderSame
<1>7. /\ KnownInv(n, f, l, w) /\ NumbersInv(n, f) /\ ReceiverInv(n, f, pr, l, w)
      /\ \A ack, mask : Tells(n, d, l, w, ack, mask) => Tells(n, f, l, w, ack, mask)
  BY <1>2, <1>6, ReceiverSame
<1>8. Side(n, f, pr, l, w)
  BY <1>3, <1>6, <1>7 DEF Side
<1>9. \A p : HeaderOf(c, d, l, w, p) => HeaderOf(n, f, l, w, p)
  BY <1>2, <1>6, <1>7 DEF HeaderOf, SameReceiver
<1>10. \A p \in net' : /\ p.from = x => PacketOf(n, p)
                       /\ p.from = q => HeaderOf(n, f, l, w, p)
  BY <1>4, <1>6, <1>9
<1> QED BY <1>5, <1>8, <1>10 DEF Direction, c, n, d, f, pr, l, w, q

-----------------------------------------------------------------------------
(* The first state, and events that are posted: the ordered ones.          *)

\* Two ends that have just connected know nothing of each other.
LEMMA InitOk ==
    ASSUME Init PROVE IInv
<1>0. Start \in Conn
  <2>1. First \in Nat
    BY Constants
  <2> QED BY <2>1 DEF Start, Conn, Note
<1>1. TypeInv
  BY <1>0 DEF Init, TypeInv
<1>2. ASSUME NEW e \in End PROVE Direction(e)
  <2> DEFINE c == Start
  <2>1. /\ conn[e] = c /\ conn[Peer(e)] = c /\ processed[Peer(e)] = <<>> /\ loose[Peer(e)] = <<>>
        /\ swallowed[e] = {} /\ net = {}
    BY PeerIs DEF Init
  <2>2. /\ c.lastSendSeq = First /\ c.highestAcked = First /\ c.lastSeqRecvd = First /\ c.lastRecvAckAck = First
        /\ c.ackMask = {} /\ c.notifyQueue = <<>> /\ c.sendQueue = <<>> /\ c.unordered = <<>> /\ c.waiting = <<>>
        /\ c.notifyEvents = <<>> /\ c.nextSendEvent = 0 /\ c.nextUnordered = 0 /\ c.nextRecvEvent = 0
        /\ c.lastAckedEvent = -1
    BY DEF Start
  <2> HIDE DEF c
  <2>3. Elements(<<>>) = {} /\ Rising(<<>>) /\ Distinct(<<>>) /\ Len(<<>>) = 0 /\ <<>> \in Seq(Nat) /\ 1..0 = {}
    BY DEF Elements, Rising, Distinct
  <2>4. Notes(c) = {}
    BY <2>2, <2>3 DEF Notes
  <2>5. \A n \in Nat : ~Open(c, n)
    BY <2>2 DEF Open
  <2>6. Sender(c)
    <3>1. WindowInv(c)
      BY <2>2, <2>3, Constants DEF WindowInv
    <3>2. OrderedInv(c)
      BY <2>2, <2>3, <2>4, <2>5 DEF OrderedInv
    <3>3. UnorderedInv(c)
      BY <2>2, <2>3, <2>4 DEF UnorderedInv
    <3> QED BY <3>1, <3>2, <3>3 DEF Sender
  <2>7. KnownInv(c, c, <<>>, {})
    BY <2>2, <2>3, <2>4 DEF KnownInv
  <2>8. NumbersInv(c, c)
    BY <2>2, Constants DEF NumbersInv
  <2>9. ReceiverInv(c, c, <<>>, <<>>, {})
    BY <2>2, <2>3 DEF ReceiverInv
  <2>10. Side(c, c, <<>>, <<>>, {})
    BY <2>3, <2>6, <2>7, <2>8, <2>9 DEF Side
  <2> QED BY <2>1, <2>10 DEF Direction
<1> QED BY <1>1, <1>2 DEF IInv

\* A direction in which nothing but the record of the sender changed.
LEMMA DirectionIf ==
    ASSUME NEW x \in End, Direction(x), net' = net,
           UNCHANGED <<processed, loose, swallowed>>, conn'[Peer(x)] = conn[Peer(x)],
           NEW n, n = conn'[x],
           n.lastSendSeq = conn[x].lastSendSeq, n.highestAcked = conn[x].highestAcked,
           n.notifyQueue = conn[x].notifyQueue,
           Side(n, conn[Peer(x)], processed[Peer(x)], loose[Peer(x)], swallowed[x])
    PROVE  Direction(x)'
<1> DEFINE q == Peer(x)
           c == conn[x]
           d == conn[q]
           l == loose[q]
           w == swallowed[x]
<1>1. \A p \in net : /\ p.from = x => PacketOf(c, p)
                     /\ p.from = q => HeaderOf(c, d, l, w, p)
  BY DEF Direction
<1>2. n.lastSendSeq = c.lastSendSeq /\ n.highestAcked = c.highestAcked /\ n.notifyQueue = c.notifyQueue
  OBVIOUS
<1>3. Side(n, d, processed[q], l, w)
  OBVIOUS
<1>4. conn'[x] = n /\ conn'[q] = d /\ processed'[q] = processed[q] /\ loose'[q] = l /\ swallowed'[x] = w
  OBVIOUS
<1> HIDE DEF q, c, d, l, w
<1>5. \A p : PacketOf(c, p) => PacketOf(n, p)
  BY <1>2 DEF PacketOf
<1>6. \A p : HeaderOf(c, d, l, w, p) => HeaderOf(n, d, l, w, p)
  BY <1>2 DEF HeaderOf, Tells, Notes
<1>7. \A p \in net' : /\ p.from = x => PacketOf(n, p)
                      /\ p.from = q => HeaderOf(n, d, l, w, p)
  BY <1>1, <1>5, <1>6
<1> QED BY <1>3, <1>4, <1>7 DEF Direction, q, c, d, l, w

\* A new number at the end of a list.
LEMMA AppendHas ==
    ASSUME NEW s \in Seq(Nat), NEW N \in Nat
    PROVE  /\ Append(s, N) \in Seq(Nat) /\ Elements(Append(s, N)) = Elements(s) \cup {N}
           /\ (\A x \in Elements(s) : x < N) /\ Rising(s) => Rising(Append(s, N))
           /\ N \notin Elements(s) /\ Distinct(s) => Distinct(Append(s, N))
<1> DEFINE t == Append(s, N)
           m == Len(s)
<1>1. t \in Seq(Nat) /\ Len(t) = m + 1 /\ t[m + 1] = N /\ (\A i \in 1..m : t[i] = s[i]) /\ m \in Nat
  BY AppendProperties, LenProperties
<1> HIDE DEF t
<1>2. \A i \in 1..m : s[i] \in Elements(s)
  BY DEF Elements
<1> HIDE DEF m
<1>3. \A i \in 1..m + 1 : i = m + 1 \/ i \in 1..m
  BY <1>1
<1>4. Elements(t) = Elements(s) \cup {N}
  <2>1. ASSUME NEW x \in Elements(t) PROVE x \in Elements(s) \cup {N}
    <3>1. PICK i \in 1..m + 1 : x = t[i]
      BY <1>1 DEF Elements
    <3> QED BY <1>1, <1>2, <1>3, <3>1
  <2>2. ASSUME NEW x \in Elements(s) PROVE x \in Elements(t)
    <3>1. PICK i \in 1..m : x = s[i]
      BY DEF Elements, m
    <3>2. i \in 1..Len(t) /\ x = t[i]
      BY <1>1, <3>1
    <3> QED BY <3>2 DEF Elements
  <2>3. m + 1 \in 1..Len(t)
    BY <1>1
  <2>4. N \in Elements(t)
    BY <1>1, <2>3 DEF Elements
  <2> QED BY <2>1, <2>2, <2>4
<1>5. ASSUME \A x \in Elements(s) : x < N, Rising(s) PROVE Rising(t)
  <2> SUFFICES ASSUME NEW i \in 1..m + 1, NEW j \in 1..m + 1, i < j PROVE t[i] < t[j]
    BY <1>1 DEF Rising
  <2>1. i \in 1..m /\ t[i] = s[i]
    BY <1>1
  <2>2. CASE j = m + 1
    BY <1>1, <1>2, <1>5, <2>1, <2>2
  <2>3. CASE j \in 1..m
    BY <1>1, <1>5, <2>1, <2>3 DEF Rising, m
  <2> QED BY <1>3, <2>2, <2>3
<1>6. ASSUME N \notin Elements(s), Distinct(s) PROVE Distinct(t)
  <2> SUFFICES ASSUME NEW i \in 1..m + 1, NEW j \in 1..m + 1, t[i] = t[j] PROVE i = j
    BY <1>1 DEF Distinct
  <2>1. CASE i \in 1..m /\ j \in 1..m
    BY <1>1, <1>6, <2>1 DEF Distinct, m
  <2>2. CASE i = m + 1 /\ j \in 1..m
    BY <1>1, <1>2, <1>6, <2>2
  <2>3. CASE i \in 1..m /\ j = m + 1
    BY <1>1, <1>2, <1>6, <2>3
  <2> QED BY <1>3, <2>1, <2>2, <2>3
<1> QED BY <1>1, <1>4, <1>5, <1>6 DEF t

\* A posted ordered event is in its sender's queue, and nowhere else.
LEMMA PostedOrdered ==
    ASSUME NEW c \in Conn, NEW d \in Conn, NEW pr, NEW l, NEW w, Side(c, d, pr, l, w)
    PROVE  LET n == [c EXCEPT !.sendQueue = Append(@, c.nextSendEvent), !.nextSendEvent = @ + 1]
           IN n \in Conn /\ Side(n, d, pr, l, w)
<1> DEFINE n == [c EXCEPT !.sendQueue = Append(@, c.nextSendEvent), !.nextSendEvent = @ + 1]
           N == c.nextSendEvent
           s == c.sendQueue
           t == Append(s, N)
<1>0. N \in Nat /\ s \in Seq(Nat) /\ c.lastAckedEvent \in Int /\ Len(s) \in Nat /\ d.nextRecvEvent \in Nat /\ d.waiting \in Seq(Nat)
  <2>1. N \in Nat /\ s \in Seq(Nat) /\ c.lastAckedEvent \in Int /\ d.nextRecvEvent \in Nat /\ d.waiting \in Seq(Nat)
    BY DEF Conn
  <2> QED BY <2>1
<1>1. n \in Conn
  <2>1. t \in Seq(Nat) /\ N + 1 \in Nat
    BY <1>0
  <2> QED BY <2>1 DEF Conn
<1>2. /\ n.lastSendSeq = c.lastSendSeq /\ n.highestAcked = c.highestAcked /\ n.lastSeqRecvd = c.lastSeqRecvd
      /\ n.notifyQueue = c.notifyQueue /\ n.sendQueue = t /\ n.unordered = c.unordered
      /\ n.notifyEvents = c.notifyEvents /\ n.lastAckedEvent = c.lastAckedEvent
      /\ n.nextSendEvent = N + 1 /\ n.nextUnordered = c.nextUnordered
  BY DEF Conn
<1>3. Sender(c) /\ KnownInv(c, d, l, w) /\ NumbersInv(c, d) /\ ReceiverInv(c, d, pr, l, w)
  BY DEF Side
<1> HIDE DEF n
<1>4. OrderedInv(c)
  BY <1>3 DEF Sender
<1>5. \A x \in Elements(s) : x \in Nat /\ x < N
  <2>1. \A x \in Elements(s) : x < N
    BY <1>4 DEF OrderedInv, Open
  <2>2. \A i \in 1..Len(s) : s[i] \in Nat
    BY <1>0
  <2> QED BY <2>1, <2>2 DEF Elements
<1> HIDE DEF N, s
<1>6. Elements(t) = Elements(s) \cup {N} /\ (Rising(s) => Rising(t))
  BY <1>0, <1>5, AppendHas
<1> HIDE DEF t
<1>7. /\ \A x \in Nat : Open(n, x) <=> Open(c, x) \/ x = N
      /\ ~Open(c, N) /\ c.lastAckedEvent < N
  <2>1. c.lastAckedEvent < N /\ c.nextSendEvent = N
    BY <1>4 DEF OrderedInv, N
  <2> QED BY <1>0, <1>2, <2>1 DEF Open
<1>8. Notes(n) = Notes(c) /\ \A i : OrderedIn(n, i) = OrderedIn(c, i) /\ UnorderedIn(n, i) = UnorderedIn(c, i)
  BY <1>2 DEF Notes, OrderedIn, UnorderedIn
<1>9. \A i \in Notes(c) : OrderedIn(c, i) \subseteq Nat
  BY NoteIs
<1>10. Elements(c.notifyEvents) \subseteq Nat
  <2>1. c.notifyEvents \in Seq(Nat)
    BY DEF Conn
  <2>2. \A i \in 1..Len(c.notifyEvents) : c.notifyEvents[i] \in Nat
    BY <2>1
  <2> QED BY <2>2 DEF Elements
<1>11. OrderedInv(n)
  <2>1. -1 <= n.lastAckedEvent /\ n.lastAckedEvent < n.nextSendEvent
    BY <1>0, <1>2, <1>4, <1>7 DEF OrderedInv
  <2>2. Rising(n.sendQueue) /\ \A x \in Elements(n.sendQueue) : Open(n, x)
    <3>1. Rising(n.sendQueue)
      BY <1>2, <1>4, <1>6 DEF OrderedInv, s
    <3>2. \A x \in Elements(s) : Open(c, x)
      BY <1>4 DEF OrderedInv, s
    <3> QED BY <1>0, <1>2, <1>5, <1>6, <1>7, <3>1, <3>2
  <2>3. Rising(n.notifyEvents) /\ \A x \in Elements(n.notifyEvents) : Open(n, x) /\ x \notin Elements(n.sendQueue)
    <3>1. Rising(c.notifyEvents) /\ \A x \in Elements(c.notifyEvents) : Open(c, x) /\ x \notin Elements(s)
      BY <1>4 DEF OrderedInv, s
    <3> QED BY <1>2, <1>6, <1>7, <1>10, <3>1
  <2>4. ASSUME NEW i \in Notes(n) PROVE OrderedNote(n, i)
    <3>1. OrderedNote(c, i)
      BY <1>4, <1>8, <2>4 DEF OrderedInv
    <3>2. ASSUME NEW x \in OrderedIn(n, i)
          PROVE  /\ Open(n, x) /\ x <= n.lastAckedEvent + EventWindow
                 /\ x \notin Elements(n.sendQueue) /\ x \notin Elements(n.notifyEvents)
                 /\ \A j \in Notes(n) : x \in OrderedIn(n, j) => i = j
      <4>1. x \in OrderedIn(c, i) /\ x \in Nat
        BY <1>8, <1>9, <2>4, <3>2
      <4>2. /\ Open(c, x) /\ x <= c.lastAckedEvent + EventWindow
            /\ x \notin Elements(s) /\ x \notin Elements(c.notifyEvents)
            /\ \A j \in Notes(c) : x \in OrderedIn(c, j) => i = j
        BY <3>1, <4>1 DEF OrderedNote, s
      <4> QED BY <1>2, <1>6, <1>7, <1>8, <4>1, <4>2
    <3> QED BY <1>2, <3>1, <3>2 DEF OrderedNote
  <2>5. ASSUME NEW x \in Nat, Open(n, x)
        PROVE  \/ x \in Elements(n.sendQueue) \/ x \in Elements(n.notifyEvents)
               \/ \E i \in Notes(n) : x \in OrderedIn(n, i)
    BY <1>2, <1>4, <1>6, <1>7, <1>8, <2>5 DEF OrderedInv, s
  <2> QED BY <2>1, <2>2, <2>3, <2>4, <2>5 DEF OrderedInv
<1>12. Sender(n)
  <2>1. \A i : UnorderedNote(c, i) => UnorderedNote(n, i)
    BY <1>2, <1>8 DEF UnorderedNote
  <2>2. UnorderedInv(n)
    BY <1>2, <1>3, <1>8, <2>1 DEF Sender, UnorderedInv
  <2>3. WindowInv(n)
    BY <1>2, <1>3 DEF Sender, WindowInv
  <2> QED BY <1>11, <2>2, <2>3 DEF Sender
<1>13. ~Has(d, N)
  <2>1. d.nextRecvEvent <= N /\ \A x \in Elements(d.waiting) : x < N
    BY <1>3 DEF ReceiverInv, N
  <2> QED BY <1>0, <2>1 DEF Has
<1>14. KnownInv(n, d, l, w)
  <2>1. \A x \in Elements(n.sendQueue) : ~Has(d, x)
    BY <1>2, <1>3, <1>6, <1>13 DEF KnownInv, s
  <2>2. /\ \A x \in Elements(n.unordered) : x \notin Elements(l)
        /\ Healthy(d, w) =>
            \A x \in Nat : x <= n.lastAckedEvent \/ x \in Elements(n.notifyEvents) => Reached(d, w, x)
    BY <1>2, <1>3 DEF KnownInv
  <2>3. \A x \in Nat : x < n.nextUnordered =>
            \/ x \in Elements(n.unordered) \/ ReachedLoose(l, w, x)
            \/ \E i \in Notes(n) : x \in UnorderedIn(n, i)
    BY <1>2, <1>3, <1>8 DEF KnownInv
  <2>4. \A i \in Notes(n) :
            /\ n.notifyQueue[i].recvd <= n.lastSeqRecvd
            /\ Fate(d, l, w, n.notifyQueue[i], d.lastSeqRecvd - (n.highestAcked + i) \in d.ackMask)
    BY <1>2, <1>3, <1>8 DEF KnownInv
  <2> QED BY <2>1, <2>2, <2>3, <2>4 DEF KnownInv
<1>15. NumbersInv(n, d)
  BY <1>2, <1>3 DEF NumbersInv
<1>16. ReceiverInv(n, d, pr, l, w)
  <2>1. /\ d.nextRecvEvent <= N /\ \A x \in Elements(d.waiting) : x < N
        /\ Healthy(d, w) => Rising(d.waiting) /\ \A x \in Elements(d.waiting) : x > d.nextRecvEvent
        /\ Len(pr) = d.nextRecvEvent /\ \A i \in 1..Len(pr) : pr[i] = i - 1
        /\ Distinct(l) /\ \A x \in Elements(l) : x < c.nextUnordered
    BY <1>3 DEF ReceiverInv, N
  <2>2. \A i \in 1..Len(d.waiting) : d.waiting[i] \in Nat
    BY <1>0
  <2>3. Elements(d.waiting) \subseteq Nat
    BY <2>2 DEF Elements
  <2>4. d.nextRecvEvent <= N + 1 /\ \A x \in Elements(d.waiting) : x < N + 1
    BY <1>0, <2>1, <2>3
  <2> QED BY <1>2, <2>1, <2>4 DEF ReceiverInv
<1> QED BY <1>1, <1>12, <1>14, <1>15, <1>16 DEF Side, n

-----------------------------------------------------------------------------
(* Events that are posted: the unordered ones; and pings.                  *)

\* A posted unordered event is in its sender's list, and nowhere else.
LEMMA PostedUnordered ==
    ASSUME NEW c \in Conn, NEW d \in Conn, NEW pr, NEW l, NEW w, Side(c, d, pr, l, w)
    PROVE  LET n == [c EXCEPT !.unordered = Append(@, c.nextUnordered), !.nextUnordered = @ + 1]
           IN n \in Conn /\ Side(n, d, pr, l, w)
<1> DEFINE n == [c EXCEPT !.unordered = Append(@, c.nextUnordered), !.nextUnordered = @ + 1]
           N == c.nextUnordered
           s == c.unordered
           t == Append(s, N)
<1>0. N \in Nat /\ s \in Seq(Nat) /\ l \in Seq(Nat)
  BY DEF Conn, Side
<1>1. n \in Conn
  <2>1. t \in Seq(Nat) /\ N + 1 \in Nat
    BY <1>0
  <2> QED BY <2>1 DEF Conn
<1>2. /\ n.lastSendSeq = c.lastSendSeq /\ n.highestAcked = c.highestAcked /\ n.lastSeqRecvd = c.lastSeqRecvd
      /\ n.notifyQueue = c.notifyQueue /\ n.sendQueue = c.sendQueue /\ n.unordered = t
      /\ n.notifyEvents = c.notifyEvents /\ n.lastAckedEvent = c.lastAckedEvent
      /\ n.nextSendEvent = c.nextSendEvent /\ n.nextUnordered = N + 1
  BY DEF Conn
<1>3. Sender(c) /\ KnownInv(c, d, l, w) /\ NumbersInv(c, d) /\ ReceiverInv(c, d, pr, l, w)
  BY DEF Side
<1> HIDE DEF n
<1>4. UnorderedInv(c)
  BY <1>3 DEF Sender
<1>5. \A x \in Elements(s) : x \in Nat /\ x < N
  <2>1. \A x \in Elements(s) : x < N
    BY <1>4 DEF UnorderedInv
  <2>2. \A i \in 1..Len(s) : s[i] \in Nat
    BY <1>0
  <2> QED BY <2>1, <2>2 DEF Elements
<1>6. \A x \in Elements(l) : x \in Nat /\ x < N
  <2>1. \A x \in Elements(l) : x < N
    BY <1>3 DEF ReceiverInv
  <2>2. \A i \in 1..Len(l) : l[i] \in Nat
    BY <1>0
  <2> QED BY <2>1, <2>2 DEF Elements
<1> HIDE DEF N, s
<1>7. N \notin Elements(s) /\ N \notin Elements(l)
  BY <1>0, <1>5, <1>6
<1>8. Elements(t) = Elements(s) \cup {N} /\ (Distinct(s) => Distinct(t))
  BY <1>0, <1>7, AppendHas
<1> HIDE DEF t
<1>9. Notes(n) = Notes(c) /\ \A i : OrderedIn(n, i) = OrderedIn(c, i) /\ UnorderedIn(n, i) = UnorderedIn(c, i)
  BY <1>2 DEF Notes, OrderedIn, UnorderedIn
<1>10. \A x : Open(n, x) <=> Open(c, x)
  BY <1>2 DEF Open
<1>11. \A i \in Notes(c) : UnorderedIn(c, i) \subseteq Nat
  <2> SUFFICES ASSUME NEW i \in Notes(c) PROVE UnorderedIn(c, i) \subseteq Nat
    OBVIOUS
  <2>1. c.notifyQueue[i].unordered \in Seq(Nat)
    BY NoteIs
  <2>2. \A j \in 1..Len(c.notifyQueue[i].unordered) : c.notifyQueue[i].unordered[j] \in Nat
    BY <2>1
  <2> QED BY <2>2 DEF UnorderedIn, Elements
<1>12. UnorderedInv(n)
  <2>1. Distinct(t)
    BY <1>4, <1>8 DEF UnorderedInv, s
  <2>2. \A x \in Elements(t) : x < N + 1
    BY <1>0, <1>5, <1>8
  <2>3. ASSUME NEW i \in Notes(n) PROVE UnorderedNote(n, i)
    <3>1. UnorderedNote(c, i)
      BY <1>4, <1>9, <2>3 DEF UnorderedInv
    <3>2. ASSUME NEW x \in UnorderedIn(n, i)
          PROVE  /\ x < n.nextUnordered /\ x \notin Elements(n.unordered)
                 /\ \A j \in Notes(n) : x \in UnorderedIn(n, j) => i = j
      <4>1. x \in UnorderedIn(c, i) /\ x \in Nat
        BY <1>9, <1>11, <2>3, <3>2
      <4>2. x < N /\ x \notin Elements(s) /\ \A j \in Notes(c) : x \in UnorderedIn(c, j) => i = j
        BY <3>1, <4>1 DEF UnorderedNote, s, N
      <4> QED BY <1>0, <1>2, <1>8, <1>9, <4>1, <4>2
    <3> QED BY <1>2, <3>1, <3>2 DEF UnorderedNote
  <2> QED BY <1>2, <2>1, <2>2, <2>3 DEF UnorderedInv
<1>13. Sender(n)
  <2>1. WindowInv(n)
    BY <1>2, <1>3 DEF Sender, WindowInv
  <2>2. \A i : OrderedNote(c, i) => OrderedNote(n, i)
    BY <1>2, <1>9, <1>10 DEF OrderedNote
  <2>3. OrderedInv(n)
    BY <1>2, <1>3, <1>9, <1>10, <2>2 DEF Sender, OrderedInv
  <2> QED BY <1>12, <2>1, <2>3 DEF Sender
<1>14. KnownInv(n, d, l, w)
  <2>1. \A x \in Elements(n.unordered) : x \notin Elements(l)
    BY <1>2, <1>3, <1>7, <1>8 DEF KnownInv, s
  <2>2. /\ \A x \in Elements(n.sendQueue) : ~Has(d, x)
        /\ Healthy(d, w) =>
            \A x \in Nat : x <= n.lastAckedEvent \/ x \in Elements(n.notifyEvents) => Reached(d, w, x)
    BY <1>2, <1>3 DEF KnownInv
  <2>3. ASSUME NEW x \in Nat, x < n.nextUnordered
        PROVE  \/ x \in Elements(n.unordered) \/ ReachedLoose(l, w, x)
               \/ \E i \in Notes(n) : x \in UnorderedIn(n, i)
    <3>1. x = N \/ x < N
      BY <1>0, <1>2, <2>3
    <3> QED BY <1>2, <1>3, <1>8, <1>9, <3>1 DEF KnownInv, s, N
  <2>4. \A i \in Notes(n) :
            /\ n.notifyQueue[i].recvd <= n.lastSeqRecvd
            /\ Fate(d, l, w, n.notifyQueue[i], d.lastSeqRecvd - (n.highestAcked + i) \in d.ackMask)
    BY <1>2, <1>3, <1>9 DEF KnownInv
  <2> QED BY <2>1, <2>2, <2>3, <2>4 DEF KnownInv
<1>15. NumbersInv(n, d)
  BY <1>2, <1>3 DEF NumbersInv
<1>16. ReceiverInv(n, d, pr, l, w)
  <2>1. \A x \in Elements(l) : x < N + 1
    BY <1>0, <1>6
  <2> QED BY <1>2, <1>3, <2>1 DEF ReceiverInv
<1> QED BY <1>1, <1>13, <1>14, <1>15, <1>16 DEF Side, n

\* An end that only changes what it is to send.
LEMMA PostKeeps ==
    ASSUME IInv, NEW e \in End, NEW n \in Conn, conn' = [conn EXCEPT ![e] = n],
           UNCHANGED <<net, processed, loose, swallowed>>,
           Side(n, conn[Peer(e)], processed[Peer(e)], loose[Peer(e)], swallowed[e]),
           n.lastSendSeq = conn[e].lastSendSeq, n.notifyQueue = conn[e].notifyQueue,
           SameReceiver(conn[e], n)
    PROVE  IInv'
<1> DEFINE q == Peer(e)
<1>0. q \in End /\ q # e /\ Peer(q) = e /\ \A f \in End : f = e \/ f = q
  BY PeerIs
<1>1. TypeInv /\ Direction(e) /\ Direction(q)
  BY <1>0 DEF IInv
<1>2. conn'[e] = n /\ conn'[q] = conn[q] /\ conn' \in [End -> Conn]
  BY <1>0, <1>1 DEF TypeInv
<1>3. TypeInv'
  BY <1>1, <1>2 DEF TypeInv
<1>4. Direction(e)'
  <2>1. n.highestAcked = conn[e].highestAcked /\ net' = net
    BY DEF SameReceiver
  <2> QED BY <1>1, <1>2, <2>1, DirectionIf
<1>5. Direction(q)'
  <2>1. net' = net /\ UNCHANGED <<processed, loose, swallowed>>
    OBVIOUS
  <2>2. conn'[Peer(q)] = n /\ SameReceiver(conn[Peer(q)], n)
    BY <1>0, <1>2
  <2> QED BY <1>0, <1>1, <1>2, <1>3, <2>1, <2>2, DirectionStays
<1>6. ASSUME NEW x \in End PROVE Direction(x)'
  <2>1. x = e \/ x = q
    BY <1>0
  <2> QED BY <1>4, <1>5, <2>1
<1> QED BY <1>3, <1>6 DEF IInv

\* Posting an ordered event preserves the invariant.
LEMMA PostOrderedKeeps ==
    ASSUME IInv, NEW e \in End, PostOrdered(e) PROVE IInv'
<1> DEFINE c == conn[e]
           n == [c EXCEPT !.sendQueue = Append(@, c.nextSendEvent), !.nextSendEvent = @ + 1]
<1>1. c \in Conn /\ conn[Peer(e)] \in Conn /\ Side(c, conn[Peer(e)], processed[Peer(e)], loose[Peer(e)], swallowed[e])
  BY PeerIs DEF IInv, TypeInv, Direction
<1>2. conn' = [conn EXCEPT ![e] = n]
  BY DEF PostOrdered
<1>3. UNCHANGED <<net, processed, loose, swallowed>>
  BY DEF PostOrdered
<1>4. n \in Conn /\ Side(n, conn[Peer(e)], processed[Peer(e)], loose[Peer(e)], swallowed[e])
  <2> HIDE DEF c
  <2> QED BY <1>1, PostedOrdered
<1>5. n.lastSendSeq = c.lastSendSeq /\ n.notifyQueue = c.notifyQueue /\ SameReceiver(c, n)
  <2> HIDE DEF c
  <2> QED BY <1>1 DEF Conn, SameReceiver
<1> HIDE DEF n
<1> QED BY <1>2, <1>3, <1>4, <1>5, PostKeeps

\* Posting an unordered event preserves the invariant.
LEMMA PostUnorderedKeeps ==
    ASSUME IInv, NEW e \in End, PostUnordered(e) PROVE IInv'
<1> DEFINE c == conn[e]
           n == [c EXCEPT !.unordered = Append(@, c.nextUnordered), !.nextUnordered = @ + 1]
<1>1. c \in Conn /\ conn[Peer(e)] \in Conn /\ Side(c, conn[Peer(e)], processed[Peer(e)], loose[Peer(e)], swallowed[e])
  BY PeerIs DEF IInv, TypeInv, Direction
<1>2. conn' = [conn EXCEPT ![e] = n]
  BY DEF PostUnordered
<1>3. UNCHANGED <<net, processed, loose, swallowed>>
  BY DEF PostUnordered
<1>4. n \in Conn /\ Side(n, conn[Peer(e)], processed[Peer(e)], loose[Peer(e)], swallowed[e])
  <2> HIDE DEF c
  <2> QED BY <1>1, PostedUnordered
<1>5. n.lastSendSeq = c.lastSendSeq /\ n.notifyQueue = c.notifyQueue /\ SameReceiver(c, n)
  <2> HIDE DEF c
  <2> QED BY <1>1 DEF Conn, SameReceiver
<1> HIDE DEF n
<1> QED BY <1>2, <1>3, <1>4, <1>5, PostKeeps

\* A packet other than data, of an end as it is.
LEMMA PingKeeps ==
    ASSUME IInv, NEW e \in End, Ping(e) PROVE IInv'
<1> DEFINE q == Peer(e)
           c == conn[e]
           one == Packet(e, c, "ping", <<>>, <<>>)
<1>0. q \in End /\ q # e /\ Peer(q) = e /\ \A f \in End : f = e \/ f = q
  BY PeerIs
<1>1. TypeInv /\ Direction(e) /\ Direction(q) /\ c \in Conn /\ conn[q] \in Conn
  BY <1>0 DEF IInv, TypeInv
<1>2. Send({one}) /\ conn' = conn /\ processed' = processed /\ loose' = loose /\ swallowed' = swallowed
  BY DEF Ping
<1>3. /\ one \in Pack /\ one.from = e /\ one.type = "ping" /\ one.seq = c.lastSendSeq
      /\ one.ack = c.lastSeqRecvd /\ one.mask = SentMask(c)
  <2>1. c.lastSendSeq \in Nat /\ c.lastSeqRecvd \in Nat /\ SentMask(c) \in SUBSET Nat
    BY <1>1 DEF Conn, SentMask
  <2> HIDE DEF c
  <2> QED BY <2>1 DEF Packet, Pack
<1> HIDE DEF one
<1>4. TypeInv'
  <2>1. net' \subseteq net \cup {one}
    BY <1>2, SendIs
  <2> QED BY <1>1, <1>2, <1>3, <2>1 DEF TypeInv
<1>5. ASSUME NEW x \in End PROVE Direction(x)'
  <2>1. Side(conn'[x], conn'[Peer(x)], processed'[Peer(x)], loose'[Peer(x)], swallowed'[x])
    BY <1>2 DEF IInv, Direction
  <2>2. Direction(x)
    BY DEF IInv
  <2>3. ASSUME NEW p \in net
        PROVE  /\ p.from = x => Carries(conn[x], p)
               /\ p.from = Peer(x) => Says(conn[x], conn[Peer(x)], loose[Peer(x)], swallowed[x], p)
    BY <2>2, DirectionIs
  <2>4. one.from = x => Carries(conn[x], one)
    <3>1. c.lastSendSeq \in Nat
      BY <1>1 DEF Conn
    <3> QED BY <1>3, <3>1 DEF Carries
  <2>5. one.from = Peer(x) => Says(conn[x], conn[Peer(x)], loose[Peer(x)], swallowed[x], one)
    <3> SUFFICES ASSUME Peer(x) = e PROVE Says(conn[x], c, loose[Peer(x)], swallowed[x], one)
      BY <1>3
    <3>1. Tells(conn[x], c, loose[Peer(x)], swallowed[x], c.lastSeqRecvd, SentMask(c))
      <4>1. Side(conn[x], c, processed[Peer(x)], loose[Peer(x)], swallowed[x]) /\ conn[x] \in Conn
        BY <1>1, <2>2 DEF Direction, TypeInv
      <4> HIDE DEF c
      <4> QED BY <1>1, <4>1, HeaderTells
    <3>2. c.lastSeqRecvd \in Nat
      BY <1>1 DEF Conn
    <3> QED BY <1>3, <3>1, <3>2 DEF Says
  <2>6. \A p \in net \cup {one} :
            /\ p.from = x => Carries(conn'[x], p)
            /\ p.from = Peer(x) => Says(conn'[x], conn'[Peer(x)], loose'[Peer(x)], swallowed'[x], p)
    BY <1>2, <2>3, <2>4, <2>5
  <2> QED BY <1>2, <2>1, <2>6, DirectionAfter
<1> QED BY <1>4, <1>5 DEF IInv

-----------------------------------------------------------------------------
(* A packet of data that is sent: the sender's lists.                      *)

\* The note of a packet with i unordered and j ordered events, and the record with it.
NoteOf(c, i, j) ==
    [unordered |-> SubSeq(c.unordered, 1, i), ordered |-> SubSeq(c.sendQueue, 1, j),
     recvd |-> c.lastSeqRecvd]
Sent(c, i, j) ==
    [c EXCEPT !.lastSendSeq = @ + 1, !.notifyQueue = Append(@, NoteOf(c, i, j)),
              !.unordered = SubSeq(@, i + 1, Len(@)), !.sendQueue = SubSeq(@, j + 1, Len(@))]

\* What rises has nothing twice.
LEMMA RisingDistinct ==
    ASSUME NEW s \in Seq(Nat), Rising(s) PROVE Distinct(s)
<1> SUFFICES ASSUME NEW i \in 1..Len(s), NEW j \in 1..Len(s), s[i] = s[j] PROVE i = j
  BY DEF Distinct
<1>1. Len(s) \in Nat /\ s[i] \in Nat /\ s[j] \in Nat
  OBVIOUS
<1>2. ~(i < j)
  BY <1>1 DEF Rising
<1>3. ~(j < i)
  BY <1>1 DEF Rising
<1> QED BY <1>1, <1>2, <1>3

\* What the record n of a sender is when it sent a packet.
IsSent(c, n, i, j) ==
    LET m == Len(c.notifyQueue)
        note == NoteOf(c, i, j)
    IN /\ n \in Conn /\ SameReceiver(c, n) /\ m \in Nat /\ note \in Note
       /\ n.lastSendSeq = c.lastSendSeq + 1 /\ n.highestAcked = c.highestAcked
       /\ n.notifyEvents = c.notifyEvents /\ n.lastAckedEvent = c.lastAckedEvent
       /\ n.nextSendEvent = c.nextSendEvent /\ n.nextUnordered = c.nextUnordered
       /\ n.unordered = SubSeq(c.unordered, i + 1, Len(c.unordered))
       /\ n.sendQueue = SubSeq(c.sendQueue, j + 1, Len(c.sendQueue))
       /\ Len(n.notifyQueue) = m + 1 /\ Notes(n) = Notes(c) \cup {m + 1} /\ m + 1 \notin Notes(c)
       /\ n.notifyQueue[m + 1] = note
       /\ \A x \in Notes(c) : /\ n.notifyQueue[x] = c.notifyQueue[x]
                              /\ OrderedIn(n, x) = OrderedIn(c, x)
                              /\ UnorderedIn(n, x) = UnorderedIn(c, x)
       /\ OrderedIn(n, m + 1) = Elements(SubSeq(c.sendQueue, 1, j))
       /\ UnorderedIn(n, m + 1) = Elements(SubSeq(c.unordered, 1, i))

\* The record of an end that sent a packet of data.
LEMMA SentIs ==
    ASSUME NEW c \in Conn, NEW i \in 0..Len(c.unordered), NEW j \in 0..Len(c.sendQueue)
    PROVE  IsSent(c, Sent(c, i, j), i, j)
<1> DEFINE n == Sent(c, i, j)
           m == Len(c.notifyQueue)
           note == NoteOf(c, i, j)
           F == SubSeq(c.unordered, 1, i)
           G == SubSeq(c.unordered, i + 1, Len(c.unordered))
           A == SubSeq(c.sendQueue, 1, j)
           B == SubSeq(c.sendQueue, j + 1, Len(c.sendQueue))
           q == c.notifyQueue
           r == Append(q, note)
<1>1. c.unordered \in Seq(Nat) /\ c.sendQueue \in Seq(Nat) /\ q \in Seq(Note) /\ c.lastSendSeq \in Nat /\ c.lastSeqRecvd \in Nat
  BY DEF Conn
<1>2. F \in Seq(Nat) /\ G \in Seq(Nat) /\ A \in Seq(Nat) /\ B \in Seq(Nat)
  BY <1>1, SplitHas
<1>3. n = [c EXCEPT !.lastSendSeq = @ + 1, !.notifyQueue = r, !.unordered = G, !.sendQueue = B]
  BY DEF Sent
<1>4. note = [unordered |-> F, ordered |-> A, recvd |-> c.lastSeqRecvd]
  BY DEF NoteOf
<1> HIDE DEF n, note, F, G, A, B
<1>5. note \in Note /\ note.unordered = F /\ note.ordered = A
  BY <1>1, <1>2, <1>4 DEF Note
<1>6. r \in Seq(Note) /\ Len(r) = m + 1 /\ r[m + 1] = note /\ (\A x \in 1..m : r[x] = q[x]) /\ m \in Nat
  BY <1>1, <1>5, AppendProperties, LenProperties
<1> HIDE DEF r, q
<1>7. n \in Conn
  <2>1. c.lastSendSeq + 1 \in Nat
    BY <1>1
  <2> QED BY <1>2, <1>3, <1>6, <2>1 DEF Conn
<1>8. /\ n.lastSendSeq = c.lastSendSeq + 1 /\ n.highestAcked = c.highestAcked
      /\ n.notifyEvents = c.notifyEvents /\ n.lastAckedEvent = c.lastAckedEvent
      /\ n.nextSendEvent = c.nextSendEvent /\ n.nextUnordered = c.nextUnordered
      /\ n.unordered = G /\ n.sendQueue = B /\ n.notifyQueue = r
  BY <1>3 DEF Conn
<1>9. SameReceiver(c, n)
  BY <1>3 DEF Conn, SameReceiver
<1>10. Notes(c) = 1..m
  BY DEF Notes
<1> HIDE DEF m
<1>11. Notes(n) = Notes(c) \cup {m + 1} /\ m + 1 \notin Notes(c)
  BY <1>6, <1>8, <1>10 DEF Notes
<1>12. \A x \in Notes(c) : n.notifyQueue[x] = c.notifyQueue[x]
  BY <1>6, <1>8, <1>10 DEF q
<1>13. OrderedIn(n, m + 1) = Elements(A) /\ UnorderedIn(n, m + 1) = Elements(F)
  BY <1>5, <1>6, <1>8 DEF OrderedIn, UnorderedIn
<1>14. \A x \in Notes(c) : OrderedIn(n, x) = OrderedIn(c, x) /\ UnorderedIn(n, x) = UnorderedIn(c, x)
  BY <1>12 DEF OrderedIn, UnorderedIn
<1>15. Len(n.notifyQueue) = m + 1 /\ n.notifyQueue[m + 1] = note
  BY <1>6, <1>8
<1> QED BY <1>5, <1>6, <1>7, <1>8, <1>9, <1>11, <1>12, <1>13, <1>14, <1>15 DEF IsSent, n, m, note, F, G, A, B

\* It has each event in one place still.
LEMMA SentSender ==
    ASSUME NEW c \in Conn, NEW i \in 0..Len(c.unordered), NEW j \in 0..Len(c.sendQueue),
           Sender(c), ~WindowFull(c),
           \A x \in Elements(SubSeq(c.sendQueue, 1, j)) : x <= c.lastAckedEvent + EventWindow
    PROVE  Sender(Sent(c, i, j))
<1> DEFINE n == Sent(c, i, j)
           m == Len(c.notifyQueue)
           note == NoteOf(c, i, j)
           F == SubSeq(c.unordered, 1, i)
           G == SubSeq(c.unordered, i + 1, Len(c.unordered))
           A == SubSeq(c.sendQueue, 1, j)
           B == SubSeq(c.sendQueue, j + 1, Len(c.sendQueue))
<1>0. c.unordered \in Seq(Nat) /\ c.sendQueue \in Seq(Nat) /\ c.lastSendSeq \in Nat /\ c.highestAcked \in Nat
  BY DEF Conn
<1>1. /\ m \in Nat /\ n.lastSendSeq = c.lastSendSeq + 1 /\ n.highestAcked = c.highestAcked
      /\ n.notifyEvents = c.notifyEvents /\ n.lastAckedEvent = c.lastAckedEvent
      /\ n.nextSendEvent = c.nextSendEvent /\ n.nextUnordered = c.nextUnordered
      /\ n.unordered = G /\ n.sendQueue = B
      /\ Len(n.notifyQueue) = m + 1 /\ Notes(n) = Notes(c) \cup {m + 1} /\ m + 1 \notin Notes(c)
      /\ n.notifyQueue[m + 1] = note
      /\ \A x \in Notes(c) : /\ n.notifyQueue[x] = c.notifyQueue[x]
                             /\ OrderedIn(n, x) = OrderedIn(c, x)
                             /\ UnorderedIn(n, x) = UnorderedIn(c, x)
      /\ OrderedIn(n, m + 1) = Elements(A) /\ UnorderedIn(n, m + 1) = Elements(F)
  <2>1. IsSent(c, n, i, j)
    BY SentIs
  <2> HIDE DEF n
  <2> QED BY <2>1 DEF IsSent
<1>2. note.ordered = A /\ note.unordered = F
  BY DEF NoteOf
<1>3. WindowInv(c) /\ OrderedInv(c) /\ UnorderedInv(c)
  BY DEF Sender
<1>4. /\ Elements(c.sendQueue) = Elements(A) \cup Elements(B) /\ Elements(A) \cap Elements(B) = {}
      /\ Rising(A) /\ Rising(B)
  <2>1. Rising(c.sendQueue)
    BY <1>3 DEF OrderedInv
  <2>2. Distinct(c.sendQueue)
    BY <1>0, <2>1, RisingDistinct
  <2> QED BY <1>0, <2>1, <2>2, SplitHas
<1>5. /\ Elements(c.unordered) = Elements(F) \cup Elements(G) /\ Elements(F) \cap Elements(G) = {}
      /\ Distinct(F) /\ Distinct(G)
  <2>1. Distinct(c.unordered)
    BY <1>3 DEF UnorderedInv
  <2> QED BY <1>0, <2>1, SplitHas
<1>6. \A x \in Elements(A) : x <= c.lastAckedEvent + EventWindow
  OBVIOUS
<1>7. WindowInv(n)
  <2>1. c.lastSendSeq = c.highestAcked + m /\ m <= Window - 2
    BY <1>3 DEF WindowInv
  <2>2. ~(c.lastSendSeq - c.highestAcked >= Window - 2)
    BY DEF WindowFull
  <2> HIDE DEF n, m
  <2>3. m \in Nat /\ n.lastSendSeq = c.lastSendSeq + 1 /\ n.highestAcked = c.highestAcked
    BY <1>1
  <2>4. Window \in Nat
    BY Constants
  <2>5. n.lastSendSeq = n.highestAcked + (m + 1) /\ m + 1 <= Window - 2
    BY <1>0, <2>1, <2>2, <2>3, <2>4
  <2> QED BY <1>1, <2>5 DEF WindowInv
<1> HIDE DEF n, m, note, F, G, A, B
<1>8. \A x : Open(n, x) <=> Open(c, x)
  BY <1>1 DEF Open
<1>9. OrderedInv(n)
  <2>1. /\ -1 <= n.lastAckedEvent /\ n.lastAckedEvent < n.nextSendEvent
        /\ Rising(n.sendQueue) /\ \A x \in Elements(n.sendQueue) : Open(n, x)
        /\ Rising(n.notifyEvents)
        /\ \A x \in Elements(n.notifyEvents) : Open(n, x) /\ x \notin Elements(n.sendQueue)
    BY <1>1, <1>3, <1>4, <1>8 DEF OrderedInv
  <2>2. ASSUME NEW x \in Notes(c) PROVE OrderedNote(n, x)
    <3>1. OrderedNote(c, x)
      BY <1>3 DEF OrderedInv
    <3>2. ASSUME NEW y \in OrderedIn(n, x)
          PROVE  /\ Open(n, y) /\ y <= n.lastAckedEvent + EventWindow
                 /\ y \notin Elements(n.sendQueue) /\ y \notin Elements(n.notifyEvents)
                 /\ \A z \in Notes(n) : y \in OrderedIn(n, z) => x = z
      <4>1. y \in OrderedIn(c, x)
        BY <1>1, <3>2
      <4>2. /\ Open(c, y) /\ y <= c.lastAckedEvent + EventWindow
            /\ y \notin Elements(c.sendQueue) /\ y \notin Elements(c.notifyEvents)
            /\ \A z \in Notes(c) : y \in OrderedIn(c, z) => x = z
        BY <3>1, <4>1 DEF OrderedNote
      <4>3. ASSUME NEW z \in Notes(n), y \in OrderedIn(n, z) PROVE x = z
        <5>1. CASE z = m + 1
          BY <1>1, <1>4, <4>2, <4>3, <5>1
        <5>2. CASE z \in Notes(c)
          BY <1>1, <4>2, <4>3, <5>2
        <5> QED BY <1>1, <5>1, <5>2
      <4> QED BY <1>1, <1>4, <1>8, <4>2, <4>3
    <3>3. Rising(n.notifyQueue[x].ordered)
      BY <1>1, <3>1 DEF OrderedNote
    <3> QED BY <3>2, <3>3 DEF OrderedNote
  <2>3. OrderedNote(n, m + 1)
    <3>1. ASSUME NEW y \in Elements(A)
          PROVE  /\ Open(n, y) /\ y <= n.lastAckedEvent + EventWindow
                 /\ y \notin Elements(n.sendQueue) /\ y \notin Elements(n.notifyEvents)
                 /\ \A z \in Notes(n) : y \in OrderedIn(n, z) => m + 1 = z
      <4>1. y \in Elements(c.sendQueue) /\ y \notin Elements(B)
        BY <1>4
      <4>2. Open(c, y) /\ y \notin Elements(c.notifyEvents)
        BY <1>3, <4>1 DEF OrderedInv
      <4>3. ASSUME NEW z \in Notes(c), y \in OrderedIn(c, z) PROVE FALSE
        BY <1>3, <4>1, <4>3 DEF OrderedInv, OrderedNote
      <4>4. \A z \in Notes(n) : y \in OrderedIn(n, z) => m + 1 = z
        BY <1>1, <4>3
      <4> QED BY <1>1, <1>6, <1>8, <4>1, <4>2, <4>4
    <3> QED BY <1>1, <1>2, <1>4, <3>1 DEF OrderedNote
  <2>4. ASSUME NEW x \in Nat, Open(n, x)
        PROVE  \/ x \in Elements(n.sendQueue) \/ x \in Elements(n.notifyEvents)
               \/ \E z \in Notes(n) : x \in OrderedIn(n, z)
    <3>1. \/ x \in Elements(c.sendQueue) \/ x \in Elements(c.notifyEvents)
          \/ \E z \in Notes(c) : x \in OrderedIn(c, z)
      BY <1>3, <1>8, <2>4 DEF OrderedInv
    <3> QED BY <1>1, <1>4, <3>1
  <2> QED BY <1>1, <2>1, <2>2, <2>3, <2>4 DEF OrderedInv
<1>10. UnorderedInv(n)
  <2>1. Distinct(n.unordered) /\ \A x \in Elements(n.unordered) : x < n.nextUnordered
    BY <1>1, <1>3, <1>5 DEF UnorderedInv
  <2>2. ASSUME NEW x \in Notes(c) PROVE UnorderedNote(n, x)
    <3>1. UnorderedNote(c, x)
      BY <1>3 DEF UnorderedInv
    <3>2. ASSUME NEW y \in UnorderedIn(n, x)
          PROVE  /\ y < n.nextUnordered /\ y \notin Elements(n.unordered)
                 /\ \A z \in Notes(n) : y \in UnorderedIn(n, z) => x = z
      <4>1. y \in UnorderedIn(c, x)
        BY <1>1, <3>2
      <4>2. /\ y < c.nextUnordered /\ y \notin Elements(c.unordered)
            /\ \A z \in Notes(c) : y \in UnorderedIn(c, z) => x = z
        BY <3>1, <4>1 DEF UnorderedNote
      <4>3. ASSUME NEW z \in Notes(n), y \in UnorderedIn(n, z) PROVE x = z
        <5>1. CASE z = m + 1
          BY <1>1, <1>5, <4>2, <4>3, <5>1
        <5>2. CASE z \in Notes(c)
          BY <1>1, <4>2, <4>3, <5>2
        <5> QED BY <1>1, <5>1, <5>2
      <4> QED BY <1>1, <1>5, <4>2, <4>3
    <3>3. Distinct(n.notifyQueue[x].unordered)
      BY <1>1, <3>1 DEF UnorderedNote
    <3> QED BY <3>2, <3>3 DEF UnorderedNote
  <2>3. UnorderedNote(n, m + 1)
    <3>1. ASSUME NEW y \in Elements(F)
          PROVE  /\ y < n.nextUnordered /\ y \notin Elements(n.unordered)
                 /\ \A z \in Notes(n) : y \in UnorderedIn(n, z) => m + 1 = z
      <4>1. y \in Elements(c.unordered) /\ y \notin Elements(G)
        BY <1>5
      <4>2. y < c.nextUnordered
        BY <1>3, <4>1 DEF UnorderedInv
      <4>3. ASSUME NEW z \in Notes(c), y \in UnorderedIn(c, z) PROVE FALSE
        BY <1>3, <4>1, <4>3 DEF UnorderedInv, UnorderedNote
      <4> QED BY <1>1, <4>1, <4>2, <4>3
    <3> QED BY <1>1, <1>2, <1>5, <3>1 DEF UnorderedNote
  <2> QED BY <1>1, <2>1, <2>2, <2>3 DEF UnorderedInv
<1> QED BY <1>7, <1>9, <1>10 DEF Sender, n

-----------------------------------------------------------------------------
(* A packet of data that is sent: the direction, and the events it takes.  *)

\* What is sent leaves the direction in order, and is on the sender's note.
LEMMA SentSide ==
    ASSUME NEW c \in Conn, NEW d \in Conn, NEW pr, NEW l, NEW w, Side(c, d, pr, l, w),
           NEW i \in 0..Len(c.unordered), NEW j \in 0..Len(c.sendQueue), ~WindowFull(c),
           \A x \in Elements(SubSeq(c.sendQueue, 1, j)) : x <= c.lastAckedEvent + EventWindow
    PROVE  LET n == Sent(c, i, j)
           IN /\ Side(n, d, pr, l, w)
              /\ \A p \in Pack : Carries(c, p) => Carries(n, p)
              /\ \A p \in Pack : Says(c, d, l, w, p) => Says(n, d, l, w, p)
<1> DEFINE n == Sent(c, i, j)
           m == Len(c.notifyQueue)
           note == NoteOf(c, i, j)
           F == SubSeq(c.unordered, 1, i)
           G == SubSeq(c.unordered, i + 1, Len(c.unordered))
           A == SubSeq(c.sendQueue, 1, j)
           B == SubSeq(c.sendQueue, j + 1, Len(c.sendQueue))
<1>0. c.unordered \in Seq(Nat) /\ c.sendQueue \in Seq(Nat) /\ c.lastSendSeq \in Nat /\ c.highestAcked \in Nat
      /\ c.lastSeqRecvd \in Nat /\ d.lastSeqRecvd \in Nat
  BY DEF Conn
<1>1. Sender(n)
  BY SentSender DEF Side
<1>2. IsSent(c, n, i, j)
  BY SentIs
<1>3. /\ m \in Nat /\ n.lastSendSeq = c.lastSendSeq + 1 /\ n.highestAcked = c.highestAcked /\ n \in Conn
      /\ n.notifyEvents = c.notifyEvents /\ n.lastAckedEvent = c.lastAckedEvent
      /\ n.nextSendEvent = c.nextSendEvent /\ n.nextUnordered = c.nextUnordered
      /\ n.unordered = G /\ n.sendQueue = B
      /\ Notes(n) = Notes(c) \cup {m + 1} /\ m + 1 \notin Notes(c)
      /\ n.notifyQueue[m + 1] = note
      /\ \A x \in Notes(c) : /\ n.notifyQueue[x] = c.notifyQueue[x]
                             /\ OrderedIn(n, x) = OrderedIn(c, x)
                             /\ UnorderedIn(n, x) = UnorderedIn(c, x)
      /\ OrderedIn(n, m + 1) = Elements(A) /\ UnorderedIn(n, m + 1) = Elements(F)
  <2> HIDE DEF n
  <2> QED BY <1>2 DEF IsSent
<1>4. note.ordered = A /\ note.unordered = F /\ note.recvd = c.lastSeqRecvd
  BY DEF NoteOf
<1>5. Elements(c.sendQueue) = Elements(A) \cup Elements(B)
  BY <1>0, SplitHas
<1>6. Elements(c.unordered) = Elements(F) \cup Elements(G)
  BY <1>0, SplitHas
<1>7. /\ KnownInv(c, d, l, w) /\ NumbersInv(c, d) /\ ReceiverInv(c, d, pr, l, w)
      /\ pr \in Seq(Nat) /\ l \in Seq(Nat) /\ w \in SUBSET Kinds /\ WindowInv(c)
  BY DEF Side, Sender
<1>8. c.lastSendSeq = c.highestAcked + m /\ d.lastSeqRecvd <= c.lastSendSeq /\ d.ackMask \subseteq 0..Window - 1
  BY <1>7 DEF WindowInv, NumbersInv
<1>9. n.lastSeqRecvd = c.lastSeqRecvd
  <2> HIDE DEF n
  <2> QED BY <1>2 DEF IsSent, SameReceiver
<1>10. Notes(c) = 1..m
  BY DEF Notes
<1> HIDE DEF n, m, note, F, G, A, B
<1>11. Fate(d, l, w, note, d.lastSeqRecvd - (n.highestAcked + (m + 1)) \in d.ackMask)
  <2>1. Missed(d, l, note)
    BY <1>4, <1>5, <1>6, <1>7 DEF KnownInv, Missed
  <2> DEFINE b == d.lastSeqRecvd - (n.highestAcked + (m + 1))
  <2>2. b < 0 /\ b \in Int
    BY <1>0, <1>3, <1>8
  <2>3. b \notin d.ackMask
    <3> HIDE DEF b
    <3>1. b \notin 0..Window - 1
      BY <2>2, Constants
    <3> QED BY <1>8, <3>1
  <2> QED BY <2>1, <2>3 DEF Fate
<1>12. KnownInv(n, d, l, w)
  <2>1. /\ \A x \in Elements(n.sendQueue) : ~Has(d, x)
        /\ \A x \in Elements(n.unordered) : x \notin Elements(l)
        /\ Healthy(d, w) =>
            \A x \in Nat : x <= n.lastAckedEvent \/ x \in Elements(n.notifyEvents) => Reached(d, w, x)
    BY <1>3, <1>5, <1>6, <1>7 DEF KnownInv
  <2>2. ASSUME NEW x \in Nat, x < n.nextUnordered
        PROVE  \/ x \in Elements(n.unordered) \/ ReachedLoose(l, w, x)
               \/ \E k \in Notes(n) : x \in UnorderedIn(n, k)
    <3>1. \/ x \in Elements(c.unordered) \/ ReachedLoose(l, w, x)
          \/ \E k \in Notes(c) : x \in UnorderedIn(c, k)
      BY <1>3, <1>7, <2>2 DEF KnownInv
    <3> QED BY <1>3, <1>6, <3>1
  <2>3. ASSUME NEW x \in Notes(n)
        PROVE  /\ n.notifyQueue[x].recvd <= n.lastSeqRecvd
               /\ Fate(d, l, w, n.notifyQueue[x], d.lastSeqRecvd - (n.highestAcked + x) \in d.ackMask)
    <3>1. CASE x = m + 1
      <4>1. n.notifyQueue[x].recvd <= n.lastSeqRecvd
        BY <1>0, <1>3, <1>4, <1>9, <3>1
      <4> QED BY <1>3, <1>11, <3>1, <4>1
    <3>2. CASE x \in Notes(c)
      BY <1>3, <1>7, <1>9, <3>2 DEF KnownInv
    <3> QED BY <1>3, <3>1, <3>2
  <2> QED BY <2>1, <2>2, <2>3 DEF KnownInv
<1>13. NumbersInv(n, d)
  <2>1. d.lastSeqRecvd <= n.lastSendSeq
    BY <1>0, <1>3, <1>8
  <2> QED BY <1>3, <1>7, <2>1 DEF NumbersInv
<1>14. ReceiverInv(n, d, pr, l, w)
  BY <1>3, <1>7 DEF ReceiverInv
<1>15. ASSUME NEW p \in Pack, Carries(c, p) PROVE Carries(n, p)
  <2>1. p.seq \in Nat /\ p.seq <= c.lastSendSeq
    BY <1>15 DEF Pack, Carries
  <2>2. p.seq <= n.lastSendSeq
    BY <1>0, <1>3, <2>1
  <2>3. ASSUME p.seq > c.highestAcked PROVE n.notifyQueue[p.seq - c.highestAcked] = c.notifyQueue[p.seq - c.highestAcked]
    <3>1. p.seq - c.highestAcked \in 1..m
      BY <1>0, <1>3, <1>8, <2>1, <2>3
    <3> QED BY <1>3, <1>10, <3>1
  <2> QED BY <1>3, <1>15, <2>2, <2>3 DEF Carries
<1>16. ASSUME NEW p \in Pack, Says(c, d, l, w, p) PROVE Says(n, d, l, w, p)
  <2>1. p.ack \in Nat /\ p.ack <= d.lastSeqRecvd
    BY <1>16 DEF Pack, Says
  <2>2. ASSUME NEW x \in Notes(n), n.highestAcked + x <= p.ack
        PROVE  Fate(d, l, w, n.notifyQueue[x], p.ack - (n.highestAcked + x) \in p.mask)
    <3>1. x # m + 1
      BY <1>0, <1>3, <1>8, <2>1, <2>2
    <3>2. x \in Notes(c)
      BY <1>3, <3>1
    <3> QED BY <1>3, <1>16, <2>2, <3>2 DEF Says, Tells
  <2> QED BY <1>16, <2>2 DEF Says, Tells
<1> QED BY <1>1, <1>7, <1>12, <1>13, <1>14, <1>15, <1>16 DEF Side, n

\* The ordered events at the head of the queue that are within the window of events.
LEMMA WithinIs ==
    ASSUME NEW c \in Conn, Rising(c.sendQueue), NEW j \in Nat, j <= WithinEventWindow(c)
    PROVE  /\ j \in 0..Len(c.sendQueue)
           /\ \A x \in Elements(SubSeq(c.sendQueue, 1, j)) : x <= c.lastAckedEvent + EventWindow
<1> DEFINE s == c.sendQueue
           B == c.lastAckedEvent + EventWindow
           S == {i \in 1..Len(s) : s[i] <= B}
<1>0. s \in Seq(Nat) /\ Len(s) \in Nat /\ B \in Int
  <2>1. s \in Seq(Nat) /\ c.lastAckedEvent \in Int
    BY DEF Conn
  <2> QED BY <2>1, Constants
<1>1. WithinEventWindow(c) = Cardinality(S)
  BY DEF WithinEventWindow
<1>2. \A i \in 1..Len(s) : s[i] \in Nat
  BY <1>0
<1>3. Rising(s)
  OBVIOUS
<1> HIDE DEF s, B, S
<1>4. ASSUME NEW k \in 0..Len(s), S \subseteq 1..k PROVE j <= k
  <2>1. IsFiniteSet(1..k) /\ Cardinality(1..k) = k
    BY <1>0, FS_Interval
  <2>2. Cardinality(S) <= k /\ IsFiniteSet(S)
    BY <1>4, <2>1, FS_Subset
  <2>3. Cardinality(S) \in Nat
    BY <2>2, FS_CardinalityType
  <2> QED BY <1>0, <1>1, <2>2, <2>3
<1>5. j \in 0..Len(s)
  <2>1. S \subseteq 1..Len(s) /\ Len(s) \in 0..Len(s)
    BY <1>0 DEF S
  <2>2. j <= Len(s)
    BY <1>4, <2>1
  <2> QED BY <1>0, <2>2
<1>6. ASSUME NEW i \in 1..j PROVE s[i] <= B
  <2> SUFFICES ASSUME ~(s[i] <= B) PROVE FALSE
    OBVIOUS
  <2>1. i \in 1..Len(s)
    BY <1>0, <1>5
  <2>2. ASSUME NEW k \in S PROVE k \in 1..i - 1
    <3>1. k \in 1..Len(s) /\ s[k] <= B
      BY DEF S
    <3>2. ~(i < k)
      BY <1>0, <1>2, <1>3, <2>1, <3>1 DEF Rising
    <3>3. k # i
      BY <3>1
    <3> QED BY <1>0, <2>1, <3>1, <3>2, <3>3
  <2>3. i - 1 \in 0..Len(s)
    BY <1>0, <2>1
  <2>4. j <= i - 1
    BY <1>4, <2>2, <2>3
  <2> QED BY <2>4
<1>7. \A x \in Elements(SubSeq(s, 1, j)) : \E i \in 1..j : x = s[i]
  BY <1>0, <1>5, SplitHas
<1> QED BY <1>5, <1>6, <1>7 DEF s, B

-----------------------------------------------------------------------------
(* CheckPacketSend as a whole.                                             *)

\* Sending a packet of data preserves the invariant.
LEMMA CheckPacketSendKeeps ==
    ASSUME IInv, NEW e \in End, CheckPacketSend(e) PROVE IInv'
<1> DEFINE q == Peer(e)
           c == conn[e]
           d == conn[q]
<1>0. q \in End /\ q # e /\ Peer(q) = e /\ \A f \in End : f = e \/ f = q
  BY PeerIs
<1>1. TypeInv /\ Direction(e) /\ Direction(q) /\ c \in Conn /\ d \in Conn
  BY <1>0 DEF IInv, TypeInv
<1>2. PICK i \in 0..Len(c.unordered), j \in 0..WithinEventWindow(c) :
           /\ conn' = [conn EXCEPT ![e] = Sent(c, i, j)]
           /\ Send({Packet(e, Sent(c, i, j), "data", SubSeq(c.unordered, 1, i), SubSeq(c.sendQueue, 1, j))})
  BY DEF CheckPacketSend, Sent, NoteOf
<1> DEFINE n == Sent(c, i, j)
           one == Packet(e, n, "data", SubSeq(c.unordered, 1, i), SubSeq(c.sendQueue, 1, j))
<1>3. conn' = [conn EXCEPT ![e] = n] /\ Send({one})
  BY <1>2
<1>4. ~WindowFull(c) /\ processed' = processed /\ loose' = loose /\ swallowed' = swallowed
  BY DEF CheckPacketSend
<1>5. Side(c, d, processed[q], loose[q], swallowed[e]) /\ Side(d, c, processed[e], loose[e], swallowed[q])
  BY <1>0, <1>1 DEF Direction
<1>6. c.unordered \in Seq(Nat) /\ c.sendQueue \in Seq(Nat) /\ Rising(c.sendQueue)
  BY <1>1, <1>5 DEF Conn, Side, Sender, OrderedInv
<1> HIDE DEF c, d, q
<1>7. i \in 0..Len(c.unordered)
  BY <1>2
<1>8. WithinEventWindow(c) \in Nat
  <2> DEFINE S == {k \in 1..Len(c.sendQueue) : c.sendQueue[k] <= c.lastAckedEvent + EventWindow}
  <2>1. IsFiniteSet(1..Len(c.sendQueue)) /\ S \in SUBSET (1..Len(c.sendQueue))
    <3>1. 1 \in Int /\ Len(c.sendQueue) \in Int
      BY <1>6
    <3> QED BY <3>1, FS_Interval
  <2>2. IsFiniteSet(S)
    <3> HIDE DEF S
    <3> QED BY <2>1, FS_Subset
  <2>3. Cardinality(S) \in Nat
    <3> HIDE DEF S
    <3> QED BY <2>2, FS_CardinalityType
  <2> QED BY <2>3 DEF WithinEventWindow
<1>9. /\ j \in 0..Len(c.sendQueue)
      /\ \A x \in Elements(SubSeq(c.sendQueue, 1, j)) : x <= c.lastAckedEvent + EventWindow
  <2>1. j \in Nat /\ j <= WithinEventWindow(c)
    BY <1>2, <1>8
  <2> QED BY <1>1, <1>6, <2>1, WithinIs
<1>10. /\ Side(n, d, processed[q], loose[q], swallowed[e])
       /\ \A p \in Pack : Carries(c, p) => Carries(n, p)
       /\ \A p \in Pack : Says(c, d, loose[q], swallowed[e], p) => Says(n, d, loose[q], swallowed[e], p)
  <2> DEFINE pr == processed[q]
             l == loose[q]
             w == swallowed[e]
  <2>1. Side(c, d, pr, l, w)
    BY <1>5
  <2> HIDE DEF pr, l, w, n
  <2>2. /\ Side(n, d, pr, l, w)
        /\ \A p \in Pack : Carries(c, p) => Carries(n, p)
        /\ \A p \in Pack : Says(c, d, l, w, p) => Says(n, d, l, w, p)
    BY <1>1, <1>4, <1>7, <1>9, <2>1, SentSide DEF n
  <2> QED BY <2>2 DEF pr, l, w
<1>11. IsSent(c, n, i, j)
  BY <1>1, <1>7, <1>9, SentIs
<1> HIDE DEF n
<1>12. /\ n \in Conn /\ SameReceiver(c, n) /\ n.lastSendSeq = c.lastSendSeq + 1 /\ n.highestAcked = c.highestAcked
       /\ n.notifyQueue[Len(c.notifyQueue) + 1] = NoteOf(c, i, j) /\ Len(c.notifyQueue) \in Nat
  BY <1>11 DEF IsSent
<1>13. /\ one \in Pack /\ one.from = e /\ one.type = "data" /\ one.seq = n.lastSendSeq
       /\ one.ack = n.lastSeqRecvd /\ one.mask = SentMask(n)
       /\ one.unordered = SubSeq(c.unordered, 1, i) /\ one.ordered = SubSeq(c.sendQueue, 1, j)
  <2>1. n.lastSendSeq \in Nat /\ n.lastSeqRecvd \in Nat /\ SentMask(n) \in SUBSET Nat
    BY <1>12 DEF Conn, SentMask
  <2>2. SubSeq(c.unordered, 1, i) \in Seq(Nat) /\ SubSeq(c.sendQueue, 1, j) \in Seq(Nat)
    BY <1>6, <1>7, <1>9, SplitHas
  <2> QED BY <2>1, <2>2 DEF Packet, Pack
<1>14. Carries(n, one)
  <2>1. c.lastSendSeq = c.highestAcked + Len(c.notifyQueue) /\ c.highestAcked \in Nat /\ c.lastSendSeq \in Nat
    BY <1>1, <1>5 DEF Side, Sender, WindowInv, Conn
  <2>2. one.seq <= n.lastSendSeq /\ one.seq - n.highestAcked = Len(c.notifyQueue) + 1
    BY <1>12, <1>13, <2>1
  <2>3. one.ack = c.lastSeqRecvd
    BY <1>12, <1>13 DEF SameReceiver
  <2> HIDE DEF one
  <2> QED BY <1>12, <1>13, <2>2, <2>3 DEF Carries, NoteOf
<1> HIDE DEF one
<1>15. conn'[e] = n /\ conn'[q] = d /\ conn' \in [End -> Conn]
  BY <1>0, <1>1, <1>3, <1>12 DEF TypeInv, d
<1>16. TypeInv'
  <2>1. net' \subseteq net \cup {one}
    BY <1>3, SendIs
  <2> QED BY <1>1, <1>4, <1>13, <1>15, <2>1 DEF TypeInv
<1>17. net \subseteq Pack
  BY <1>1 DEF TypeInv
<1>18. Direction(e)'
  <2>1. ASSUME NEW p \in net \cup {one}
        PROVE  /\ p.from = e => Carries(n, p)
               /\ p.from = q => Says(n, d, loose[q], swallowed[e], p)
    <3>1. CASE p = one
      BY <1>0, <1>13, <1>14, <3>1
    <3>2. CASE p \in net
      <4>1. /\ p.from = e => Carries(c, p)
            /\ p.from = q => Says(c, d, loose[q], swallowed[e], p)
        BY <1>1, <3>2, DirectionIs DEF c, d, q
      <4>2. p \in Pack
        BY <1>17, <3>2
      <4> QED BY <1>10, <4>1, <4>2
    <3> QED BY <3>1, <3>2
  <2>2. /\ Side(conn'[e], conn'[Peer(e)], processed'[Peer(e)], loose'[Peer(e)], swallowed'[e])
        /\ \A p \in net \cup {one} :
            /\ p.from = e => Carries(conn'[e], p)
            /\ p.from = Peer(e) => Says(conn'[e], conn'[Peer(e)], loose'[Peer(e)], swallowed'[e], p)
    BY <1>4, <1>10, <1>15, <2>1 DEF q
  <2> QED BY <1>3, <2>2, DirectionAfter
<1>19. Direction(q)'
  <2> DEFINE pr == processed[e]
             l == loose[e]
             w == swallowed[q]
  <2>0. Side(d, c, pr, l, w)
    BY <1>5
  <2>1. /\ \A p \in net : p.from = q => Carries(d, p)
        /\ \A p \in net : p.from = e => Says(d, c, l, w, p)
    BY <1>0, <1>1, DirectionIs DEF c, d
  <2> HIDE DEF pr, l, w
  <2>2. /\ KnownInv(d, n, l, w) /\ NumbersInv(d, n) /\ ReceiverInv(d, n, pr, l, w)
        /\ \A ack, mask : Tells(d, c, l, w, ack, mask) => Tells(d, n, l, w, ack, mask)
    BY <1>12, <2>0, ReceiverSame DEF Side
  <2>3. Side(d, n, pr, l, w)
    BY <2>0, <2>2 DEF Side
  <2>4. \A p : Says(d, c, l, w, p) => Says(d, n, l, w, p)
    BY <1>12, <2>2 DEF Says, SameReceiver
  <2>5. Says(d, n, l, w, one)
    <3>1. Tells(d, n, l, w, n.lastSeqRecvd, SentMask(n))
      BY <1>1, <1>12, <2>3, HeaderTells
    <3>2. n.lastSeqRecvd \in Nat
      BY <1>12 DEF Conn
    <3> QED BY <1>13, <3>1, <3>2 DEF Says
  <2>6. \A p \in net \cup {one} : /\ p.from = q => Carries(d, p)
                                  /\ p.from = e => Says(d, n, l, w, p)
    BY <1>0, <1>13, <2>1, <2>4, <2>5
  <2>7. /\ Side(conn'[q], conn'[Peer(q)], processed'[Peer(q)], loose'[Peer(q)], swallowed'[q])
        /\ \A p \in net \cup {one} :
            /\ p.from = q => Carries(conn'[q], p)
            /\ p.from = Peer(q) => Says(conn'[q], conn'[Peer(q)], loose'[Peer(q)], swallowed'[q], p)
    BY <1>0, <1>4, <1>15, <2>3, <2>6 DEF pr, l, w
  <2> QED BY <1>0, <1>3, <2>7, DirectionAfter
<1>20. ASSUME NEW x \in End PROVE Direction(x)'
  <2>1. x = e \/ x = q
    BY <1>0
  <2> QED BY <1>18, <1>19, <2>1
<1> QED BY <1>16, <1>20 DEF IInv

-----------------------------------------------------------------------------
(* A packet that arrives: what its header does to the sender's side.       *)

\* The record of a receiver that heard a header, and that read a packet.
Heard(c, p) ==
    [Clamped(Notified(c, p.ack, p.mask), p.seq) EXCEPT
        !.ackMask = Shifted(@, p.seq - c.lastSeqRecvd, p.type = "data"), !.lastSeqRecvd = p.seq]
PartOfList(c, p) == SubSeq(ListOf(c, p), 1, Run(ListOf(c, p), c.nextRecvEvent))
Read(c, p) ==
    LET list == ListOf(c, p)
        now == Run(list, c.nextRecvEvent)
    IN [Heard(c, p) EXCEPT !.waiting = SubSeq(list, now + 1, Len(list)), !.nextRecvEvent = @ + now]

\* The same in two steps: after the notifies and before the events, and after those.
HeardFrom(m, s, by, data) ==
    [Clamped(m, s) EXCEPT !.ackMask = Shifted(@, by, data), !.lastSeqRecvd = s]
ReadFrom(m, rest, now) == [m EXCEPT !.waiting = rest, !.nextRecvEvent = @ + now]

\* Of the fields of m, of which n is what follows, those that a sender has.
LEMMA HeardIs ==
    ASSUME NEW m \in Conn, NEW s \in Nat, m.lastSeqRecvd <= s, NEW by, NEW data, NEW n,
           n = HeardFrom(m, s, by, data)
    PROVE  /\ n \in Conn /\ SameSender(m, n)
           /\ n.lastSeqRecvd = s /\ n.ackMask = Shifted(m.ackMask, by, data)
           /\ n.waiting = m.waiting /\ n.nextRecvEvent = m.nextRecvEvent
           /\ n.lastRecvAckAck =
                IF s - m.lastRecvAckAck > Window THEN s - Window ELSE m.lastRecvAckAck
<1> DEFINE a == IF s - m.lastRecvAckAck > Window THEN s - Window ELSE m.lastRecvAckAck
           k == Clamped(m, s)
           mask == Shifted(m.ackMask, by, data)
<1>1. a \in Nat
  <2>1. m.lastRecvAckAck \in Nat /\ Window \in Nat
    BY Constants DEF Conn
  <2> QED BY <2>1
<1>2. k = [m EXCEPT !.lastRecvAckAck = a]
  <2>1. m = [m EXCEPT !.lastRecvAckAck = m.lastRecvAckAck]
    BY DEF Conn
  <2> QED BY <2>1 DEF Clamped
<1>0. n = [k EXCEPT !.ackMask = Shifted(@, by, data), !.lastSeqRecvd = s]
  BY DEF HeardFrom
<1> HIDE DEF k, a
<1>3. k \in Conn /\ k.ackMask = m.ackMask
  BY <1>1, <1>2 DEF Conn
<1>4. mask \in SUBSET Nat
  <2>1. 0..Window - 1 \subseteq Nat
    BY Constants
  <2> QED BY <2>1 DEF Shifted
<1>5. n = [k EXCEPT !.ackMask = mask, !.lastSeqRecvd = s]
  BY <1>0, <1>3
<1> HIDE DEF mask
<1>6. n \in Conn
  BY <1>3, <1>4, <1>5 DEF Conn
<1>7. n = [m EXCEPT !.lastRecvAckAck = a, !.ackMask = mask, !.lastSeqRecvd = s]
  BY <1>2, <1>5 DEF Conn
<1>8. /\ n.lastSendSeq = m.lastSendSeq /\ n.highestAcked = m.highestAcked
      /\ n.notifyQueue = m.notifyQueue /\ n.sendQueue = m.sendQueue /\ n.unordered = m.unordered
      /\ n.notifyEvents = m.notifyEvents /\ n.lastAckedEvent = m.lastAckedEvent
      /\ n.nextSendEvent = m.nextSendEvent /\ n.nextUnordered = m.nextUnordered
      /\ n.lastSeqRecvd = s /\ n.ackMask = mask
      /\ n.waiting = m.waiting /\ n.nextRecvEvent = m.nextRecvEvent /\ n.lastRecvAckAck = a
  BY <1>7 DEF Conn
<1> QED BY <1>6, <1>8 DEF SameSender, mask, k, a

\* The record of an end that read a packet.
LEMMA ReadRecord ==
    ASSUME NEW m \in Conn, NEW now \in Nat, NEW rest \in Seq(Nat), NEW n,
           n = ReadFrom(m, rest, now)
    PROVE  /\ n \in Conn /\ SameSender(m, n)
           /\ n.lastSeqRecvd = m.lastSeqRecvd /\ n.ackMask = m.ackMask
           /\ n.lastRecvAckAck = m.lastRecvAckAck
           /\ n.waiting = rest /\ n.nextRecvEvent = m.nextRecvEvent + now
<1>1. m.nextRecvEvent + now \in Nat /\ m.lastSeqRecvd \in Nat
  BY DEF Conn
<1>0. n = [m EXCEPT !.waiting = rest, !.nextRecvEvent = @ + now]
  BY DEF ReadFrom
<1>2. n \in Conn
  BY <1>0, <1>1 DEF Conn
<1>3. /\ n.lastSendSeq = m.lastSendSeq /\ n.highestAcked = m.highestAcked
      /\ n.notifyQueue = m.notifyQueue /\ n.sendQueue = m.sendQueue /\ n.unordered = m.unordered
      /\ n.notifyEvents = m.notifyEvents /\ n.lastAckedEvent = m.lastAckedEvent
      /\ n.nextSendEvent = m.nextSendEvent /\ n.nextUnordered = m.nextUnordered
      /\ n.lastSeqRecvd = m.lastSeqRecvd /\ n.ackMask = m.ackMask /\ n.lastRecvAckAck = m.lastRecvAckAck
      /\ n.waiting = rest /\ n.nextRecvEvent = m.nextRecvEvent + now
  BY <1>0 DEF Conn
<1> QED BY <1>1, <1>2, <1>3 DEF SameSender

\* What the sender of a direction is when a header of the other end arrives.
LEMMA HeardSide ==
    ASSUME NEW c \in Conn, NEW d \in Conn, NEW pr, NEW l, NEW w, Side(c, d, pr, l, w), NEW p \in Pack,
           HeaderOf(c, d, l, w, p), c.highestAcked <= p.ack, p.ack <= c.lastSendSeq,
           NEW n \in Conn, SameSender(Notified(c, p.ack, p.mask), n)
    PROVE  /\ Side(n, d, pr, l, w) /\ n.highestAcked = p.ack
           /\ \A o \in Pack : Carries(c, o) => Carries(n, o)
           /\ \A o : Says(c, d, l, w, o) => Says(n, d, l, w, o)
           /\ \/ Notified(c, p.ack, p.mask).lastRecvAckAck = c.lastRecvAckAck
              \/ /\ Notified(c, p.ack, p.mask).lastRecvAckAck <= d.highestAcked
                 /\ Notified(c, p.ack, p.mask).lastRecvAckAck <= c.lastSeqRecvd
<1> DEFINE m == Notified(c, p.ack, p.mask)
           k == p.ack - c.highestAcked
<1>0. /\ Sender(c) /\ KnownInv(c, d, l, w) /\ NumbersInv(c, d) /\ ReceiverInv(c, d, pr, l, w)
      /\ pr \in Seq(Nat) /\ l \in Seq(Nat) /\ w \in SUBSET Kinds
  BY DEF Side
<1>1. p.ack \in Nat /\ Tells(c, d, l, w, p.ack, p.mask) /\ p.ack <= d.lastSeqRecvd
      /\ c.highestAcked \in Nat /\ d.lastSeqRecvd \in Nat /\ d.lastRecvAckAck \in Nat
  BY DEF Pack, HeaderOf, Conn
<1>2. /\ m \in Conn /\ Rest(c, m) /\ Sender(m) /\ KnownInv(m, d, l, w)
      /\ m.highestAcked = p.ack
      /\ \A i \in Notes(m) : i + k \in Notes(c) /\ m.notifyQueue[i] = c.notifyQueue[i + k]
      /\ \/ m.lastRecvAckAck = c.lastRecvAckAck
         \/ m.lastRecvAckAck <= d.highestAcked /\ m.lastRecvAckAck <= c.lastSeqRecvd
      /\ \A a, mask : Tells(c, d, l, w, a, mask) => Tells(m, d, l, w, a, mask)
  BY <1>0, <1>1, NotifiedIs
<1> HIDE DEF m
<1>3. SameSender(m, n)
  BY DEF m
<1>4. NumbersInv(m, d)
  BY <1>0, <1>1, <1>2 DEF NumbersInv, Rest
<1>5. ReceiverInv(m, d, pr, l, w)
  BY <1>0, <1>2 DEF ReceiverInv, Rest
<1>6. /\ Sender(n) /\ KnownInv(n, d, l, w) /\ NumbersInv(n, d) /\ ReceiverInv(n, d, pr, l, w)
      /\ \A a, mask : Tells(m, d, l, w, a, mask) => Tells(n, d, l, w, a, mask)
  BY <1>2, <1>3, <1>4, <1>5, SenderSame
<1>7. Side(n, d, pr, l, w)
  BY <1>0, <1>6 DEF Side
<1>8. \A o : Says(c, d, l, w, o) => Says(n, d, l, w, o)
  BY <1>2, <1>6 DEF Says
<1>9. ASSUME NEW o \in Pack, Carries(c, o) PROVE Carries(m, o)
  <2> DEFINE i == o.seq - m.highestAcked
  <2>1. o.seq \in Nat /\ o.seq <= m.lastSendSeq /\ m.lastSendSeq = c.lastSendSeq
    BY <1>2, <1>9 DEF Carries, Pack, Rest
  <2>2. ASSUME o.seq > m.highestAcked
        PROVE  o.seq > c.highestAcked /\ m.notifyQueue[i] = c.notifyQueue[o.seq - c.highestAcked]
    <3>1. m.lastSendSeq = m.highestAcked + Len(m.notifyQueue) /\ m.lastSendSeq \in Nat /\ m.notifyQueue \in Seq(Note)
      BY <1>2 DEF Sender, WindowInv, Conn
    <3>2. Len(m.notifyQueue) \in Nat
      BY <3>1
    <3>3. i \in 1..Len(m.notifyQueue)
      BY <1>1, <1>2, <2>1, <2>2, <3>1, <3>2
    <3>4. m.notifyQueue[i] = c.notifyQueue[i + k]
      BY <1>2, <3>3 DEF Notes
    <3>5. i + k = o.seq - c.highestAcked /\ o.seq > c.highestAcked
      BY <1>1, <1>2, <2>1, <2>2
    <3> QED BY <3>4, <3>5
  <2> HIDE DEF i
  <2> QED BY <1>9, <2>1, <2>2 DEF Carries, i
<1>10. \A o : Carries(m, o) => Carries(n, o)
  BY <1>3, CarriesSame DEF SameSender
<1>11. n.highestAcked = p.ack
  BY <1>2, <1>3 DEF SameSender
<1> QED BY <1>2, <1>7, <1>8, <1>9, <1>10, <1>11 DEF m

-----------------------------------------------------------------------------
(* A packet that arrives: what reading it does, and when it is accepted.   *)

\* What the receiver of a direction, c, is when it reads a packet of the sender d.
LEMMA ReadRecordIs ==
    ASSUME NEW c \in Conn, NEW d \in Conn, NEW pr, NEW l, NEW w, Side(d, c, pr, l, w),
           NEW p \in Pack, PacketOf(d, p), c.lastSeqRecvd <= p.seq,
           NEW m, m = Notified(c, p.ack, p.mask), m \in Conn, Rest(c, m)
    PROVE  LET h == Heard(c, p)
               n == Read(c, p)
           IN /\ h \in Conn /\ h.waiting = c.waiting /\ h.nextRecvEvent = c.nextRecvEvent
              /\ h.lastSendSeq = n.lastSendSeq /\ h.lastSeqRecvd = n.lastSeqRecvd /\ h.ackMask = n.ackMask
              /\ h.lastRecvAckAck = n.lastRecvAckAck
              /\ n \in Conn /\ SameSender(m, n)
              /\ Proceeds(c, n, ListOf(c, p), PartOfList(c, p))
              /\ n.lastSeqRecvd = p.seq
              /\ n.ackMask = Shifted(c.ackMask, p.seq - c.lastSeqRecvd, p.type = "data")
              /\ n.lastRecvAckAck =
                    IF p.seq - m.lastRecvAckAck > Window THEN p.seq - Window ELSE m.lastRecvAckAck
<1> DEFINE h == Heard(c, p)
           n == Read(c, p)
           list == ListOf(c, p)
           now == Run(list, c.nextRecvEvent)
           by == p.seq - c.lastSeqRecvd
           data == p.type = "data"
<1>1. /\ m.lastSeqRecvd = c.lastSeqRecvd /\ m.ackMask = c.ackMask /\ m.waiting = c.waiting
      /\ m.nextRecvEvent = c.nextRecvEvent
  BY DEF Rest
<1>2. p.seq \in Nat /\ c.nextRecvEvent \in Nat /\ c.lastSeqRecvd \in Nat
  BY DEF Pack, Conn
<1>3. h = [Clamped(m, p.seq) EXCEPT !.ackMask = Shifted(@, by, data), !.lastSeqRecvd = p.seq]
  BY DEF Heard
<1> HIDE DEF h, by, data
<1>4. /\ h \in Conn /\ SameSender(m, h)
      /\ h.lastSeqRecvd = p.seq /\ h.ackMask = Shifted(m.ackMask, by, data)
      /\ h.waiting = m.waiting /\ h.nextRecvEvent = m.nextRecvEvent
      /\ h.lastRecvAckAck =
            IF p.seq - m.lastRecvAckAck > Window THEN p.seq - Window ELSE m.lastRecvAckAck
  <2> DEFINE s == p.seq
  <2>1. s \in Nat /\ m.lastSeqRecvd <= s
    BY <1>1, <1>2
  <2> HIDE DEF s
  <2>2. h = HeardFrom(m, s, by, data)
    BY <1>3 DEF s, HeardFrom
  <2>3. /\ h \in Conn /\ SameSender(m, h)
        /\ h.lastSeqRecvd = s /\ h.ackMask = Shifted(m.ackMask, by, data)
        /\ h.waiting = m.waiting /\ h.nextRecvEvent = m.nextRecvEvent
        /\ h.lastRecvAckAck = IF s - m.lastRecvAckAck > Window THEN s - Window ELSE m.lastRecvAckAck
    BY <2>1, <2>2, HeardIs
  <2> QED BY <2>3 DEF s
<1>5. list \in Seq(Nat)
  BY ListIs
<1>6. n = [h EXCEPT !.waiting = SubSeq(list, now + 1, Len(list)), !.nextRecvEvent = @ + now]
  BY DEF Read, h
<1> HIDE DEF n, list
<1> DEFINE rest == SubSeq(list, now + 1, Len(list))
<1>7. now \in Nat /\ rest \in Seq(Nat)
  <2> DEFINE R == c.nextRecvEvent
             k == Run(list, R)
             x == SubSeq(list, k + 1, Len(list))
  <2>1. R \in Int
    BY <1>2
  <2> HIDE DEF R
  <2>2. k \in Nat /\ x \in Seq(Nat)
    BY <1>5, <2>1, RestIs
  <2> QED BY <2>2 DEF R
<1> HIDE DEF now, rest
<1>8. /\ n \in Conn /\ SameSender(h, n)
      /\ n.lastSeqRecvd = h.lastSeqRecvd /\ n.ackMask = h.ackMask /\ n.lastRecvAckAck = h.lastRecvAckAck
      /\ n.waiting = rest /\ n.nextRecvEvent = h.nextRecvEvent + now
  <2>1. n = ReadFrom(h, rest, now)
    BY <1>6 DEF rest, ReadFrom
  <2>2. h \in Conn
    BY <1>4
  <2> QED BY <1>7, <2>1, <2>2, ReadRecord
<1>9. SameSender(m, n)
  <2>1. m.lastSeqRecvd \in Nat /\ h.lastSeqRecvd \in Nat /\ n.lastSeqRecvd \in Nat
    BY <1>4, <1>8 DEF Conn
  <2> QED BY <1>4, <1>8, <2>1 DEF SameSender
<1>10. Proceeds(c, n, list, PartOfList(c, p))
  BY <1>1, <1>4, <1>8 DEF Proceeds, PartOfList, list, now, rest
<1>11. n.ackMask = Shifted(c.ackMask, p.seq - c.lastSeqRecvd, p.type = "data")
  BY <1>1, <1>4, <1>8 DEF by, data
<1> QED BY <1>1, <1>4, <1>8, <1>9, <1>10, <1>11 DEF h, n, list, SameSender

\* How far the other end knows of what arrived.
LEMMA AckAckIs ==
    ASSUME NEW c \in Conn, NEW d \in Conn, NEW p \in Pack, Sender(d), NumbersInv(d, c), PacketOf(d, p),
           c.lastSeqRecvd <= p.seq, NEW a \in Nat,
           a = c.lastRecvAckAck \/ (a <= d.highestAcked /\ a <= c.lastSeqRecvd),
           NEW b, b = IF p.seq - a > Window THEN p.seq - Window ELSE a
    PROVE  b <= d.highestAcked /\ p.seq - b \in 0..Window
<1> DEFINE H == d.highestAcked
           S == d.lastSendSeq
           L == c.lastSeqRecvd
           A == c.lastRecvAckAck
           s == p.seq
<1>1. /\ H \in Nat /\ S \in Nat /\ L \in Nat /\ A \in Nat /\ s \in Nat /\ Window \in Nat
  BY Constants DEF Conn, Pack
<1>2. S <= H + (Window - 2)
  <2>1. d.notifyQueue \in Seq(Note)
    BY DEF Conn
  <2>2. Len(d.notifyQueue) \in Nat /\ Len(d.notifyQueue) <= Window - 2 /\ S = H + Len(d.notifyQueue)
    BY <2>1 DEF Sender, WindowInv
  <2> HIDE DEF S, H
  <2> QED BY <1>1, <2>2
<1>3. A <= H /\ L - A \in 0..Window /\ s <= S /\ L <= s
  BY DEF NumbersInv, PacketOf
<1>4. a = A \/ (a <= H /\ a <= L)
  OBVIOUS
<1>5. b = IF s - a > Window THEN s - Window ELSE a
  OBVIOUS
<1> HIDE DEF H, S, L, A, s
<1>6. a <= H /\ a <= L
  BY <1>1, <1>3, <1>4
<1>7. b <= H /\ s - b \in 0..Window
  <2>1. CASE s - a > Window
    BY <1>1, <1>2, <1>3, <1>5, <1>6, <2>1
  <2>2. CASE ~(s - a > Window)
    BY <1>1, <1>2, <1>3, <1>5, <1>6, <2>2
  <2> QED BY <2>1, <2>2
<1> QED BY <1>7 DEF H, s

\* What is accepted, and what it does.
LEMMA ReceiveIs ==
    ASSUME IInv, NEW p \in net, Receive(p)
    PROVE  LET r == p.from
               e == Peer(r)
               c == conn[e]
               d == conn[r]
           IN /\ p \in Pack /\ r \in End /\ e \in End /\ e # r
              /\ c.lastSeqRecvd <= p.seq /\ PacketOf(d, p)
              /\ c.highestAcked <= p.ack /\ p.ack <= c.lastSendSeq /\ HeaderOf(c, d, loose[r], swallowed[e], p)
              /\ conn' = [conn EXCEPT ![e] = Read(c, p)]
              /\ Send({Packet(e, Heard(c, p), "ack", <<>>, <<>>)}) \/ Send({})
              /\ processed' = [processed EXCEPT ![e] = @ \o PartOfList(c, p)]
              /\ loose' = IF New(c, p) THEN [loose EXCEPT ![e] = @ \o p.unordered] ELSE loose
              /\ swallowed' = IF p.type = "data" /\ ~New(c, p) /\ 0 \notin c.ackMask
                              THEN [swallowed EXCEPT ![r] = @ \cup Events(p)] ELSE swallowed
<1> DEFINE r == p.from
           e == Peer(r)
           c == conn[e]
           d == conn[r]
           l == loose[r]
           w == swallowed[e]
<1>1. p \in Pack /\ r \in End /\ e \in End /\ e # r /\ Peer(e) = r
  <2>1. p \in Pack /\ r \in End
    BY DEF IInv, TypeInv, Pack
  <2> QED BY <2>1, PeerIs
<1>2. Direction(e) /\ Direction(r) /\ c \in Conn /\ d \in Conn
  BY <1>1 DEF IInv, TypeInv
<1>3. Side(c, d, processed[r], l, w) /\ Side(d, c, processed[e], loose[e], swallowed[r])
  BY <1>1, <1>2 DEF Direction
<1>4. PacketOf(d, p) /\ HeaderOf(c, d, l, w, p)
  BY <1>1, <1>2 DEF Direction
<1>5. Unwrapped(p.seq, c.lastSeqRecvd, SeqMod) - c.lastSeqRecvd < Window
  BY DEF Receive
<1>6. Unwrapped(p.ack, c.highestAcked, AckMod) <= c.lastSendSeq
  BY DEF Receive
<1>7. Unwrapped(p.seq, c.lastSeqRecvd, SeqMod) = p.seq /\ c.lastSeqRecvd <= p.seq
  <2> HIDE DEF c, d, l, w, e, r
  <2> QED BY <1>1, <1>2, <1>3, <1>4, <1>5, SeqIs DEF Side
<1>8. Unwrapped(p.ack, c.highestAcked, AckMod) = p.ack /\ c.highestAcked <= p.ack /\ p.ack <= c.lastSendSeq
  <2> HIDE DEF c, d, l, w, e, r
  <2> QED BY <1>1, <1>2, <1>3, <1>4, <1>6, AckIs DEF Side
<1> DEFINE m == Notified(c, p.ack, p.mask)
           h == Heard(c, p)
<1>9. m \in Conn /\ Rest(c, m)
  <2>1. Tells(c, d, l, w, p.ack, p.mask) /\ p.ack \in Nat
    BY <1>1, <1>4 DEF HeaderOf, Pack
  <2> HIDE DEF c, d, l, w, e, r
  <2> QED BY <1>2, <1>3, <1>8, <2>1, NotifiedIs DEF Side
<1>10. h.waiting = c.waiting /\ h.nextRecvEvent = c.nextRecvEvent
  <2> DEFINE pr == processed[e]
             ll == loose[e]
             ww == swallowed[r]
  <2>1. Side(d, c, pr, ll, ww) /\ m = Notified(c, p.ack, p.mask)
    BY <1>3
  <2> HIDE DEF c, d, l, w, e, r, m, h, pr, ll, ww
  <2>2. LET x == Heard(c, p) IN x.waiting = c.waiting /\ x.nextRecvEvent = c.nextRecvEvent
    BY <1>1, <1>2, <1>4, <1>7, <1>9, <2>1, ReadRecordIs
  <2> QED BY <2>2 DEF h
<1> DEFINE arrived == IF HasNewData(c, p.seq, p.type) THEN Arrived(h, p) ELSE h.waiting
           now == Run(arrived, h.nextRecvEvent)
           read == [h EXCEPT !.waiting = SubSeq(arrived, now + 1, Len(arrived)), !.nextRecvEvent = @ + now]
           answers == p.type = "ping" \/ p.seq - h.lastRecvAckAck > Window \div 2
<1>11. /\ conn' = [conn EXCEPT ![e] = read]
       /\ Send(IF answers THEN {Packet(e, h, "ack", <<>>, <<>>)} ELSE {})
       /\ processed' = [processed EXCEPT ![e] = @ \o SubSeq(arrived, 1, now)]
       /\ loose' = IF New(c, p) THEN [loose EXCEPT ![e] = @ \o p.unordered] ELSE loose
       /\ swallowed' =
            IF p.type = "data" /\ ~New(c, p) /\ 0 \notin c.ackMask
            THEN [swallowed EXCEPT ![r] = @ \cup Events(p)] ELSE swallowed
  <2> DEFINE seq == Unwrapped(p.seq, c.lastSeqRecvd, SeqMod)
             ack == Unwrapped(p.ack, c.highestAcked, AckMod)
             known == [Clamped(Notified(c, ack, p.mask), seq) EXCEPT
                        !.ackMask = Shifted(@, seq - c.lastSeqRecvd, p.type = "data"),
                        !.lastSeqRecvd = seq]
             come == IF HasNewData(c, seq, p.type) THEN Arrived(known, p) ELSE known.waiting
             next == Run(come, known.nextRecvEvent)
             got == [known EXCEPT !.waiting = SubSeq(come, next + 1, Len(come)), !.nextRecvEvent = @ + next]
             replies == p.type = "ping" \/ seq - known.lastRecvAckAck > Window \div 2
  <2>1. /\ conn' = [conn EXCEPT ![e] = got]
        /\ Send(IF replies THEN {Packet(e, known, "ack", <<>>, <<>>)} ELSE {})
        /\ processed' = [processed EXCEPT ![e] = @ \o SubSeq(come, 1, next)]
        /\ loose' = IF HasNewData(c, seq, p.type) THEN [loose EXCEPT ![e] = @ \o p.unordered] ELSE loose
        /\ swallowed' =
             IF p.type = "data" /\ ~HasNewData(c, seq, p.type) /\ 0 \notin c.ackMask
             THEN [swallowed EXCEPT ![r] = @ \cup Events(p)] ELSE swallowed
    BY DEF Receive
  <2>2. seq = p.seq /\ ack = p.ack
    BY <1>7, <1>8
  <2>3. known = h
    <3> HIDE DEF seq, ack, c
    <3> QED BY <2>2 DEF Heard
  <2>4. HasNewData(c, seq, p.type) = New(c, p)
    <3> HIDE DEF seq, ack, c
    <3> QED BY <2>2 DEF New
  <2> HIDE DEF c, known
  <2>5. come = arrived
    <3> HIDE DEF h, seq
    <3> QED BY <2>2, <2>3
  <2> HIDE DEF come, arrived
  <2>6. next = now
    <3> HIDE DEF h
    <3> QED BY <2>3, <2>5
  <2> HIDE DEF next, now
  <2>7. got = read
    <3> HIDE DEF h
    <3> QED BY <2>3, <2>5, <2>6
  <2> HIDE DEF got, read
  <2>8. replies = answers
    <3> HIDE DEF h, seq
    <3> QED BY <2>2, <2>3
  <2> HIDE DEF replies, answers, h, seq, ack
  <2> QED BY <2>1, <2>3, <2>4, <2>5, <2>6, <2>7, <2>8
<1>12. arrived = ListOf(c, p)
  <2> HIDE DEF h, c
  <2> QED BY <1>10 DEF ListOf, New, Arrived, Restores
<1> HIDE DEF answers
<1>13. Send({Packet(e, h, "ack", <<>>, <<>>)}) \/ Send({})
  <2> HIDE DEF h, c, e, r
  <2>1. CASE answers
    BY <1>11, <2>1
  <2>2. CASE ~answers
    BY <1>11, <2>2
  <2> QED BY <2>1, <2>2
<1>14. now = Run(ListOf(c, p), c.nextRecvEvent)
  <2> HIDE DEF h, c, arrived
  <2> QED BY <1>10, <1>12
<1>15. read = Read(c, p)
  <2> HIDE DEF c, arrived, now
  <2> QED BY <1>12, <1>14 DEF Read
<1>16. SubSeq(arrived, 1, now) = PartOfList(c, p)
  <2> HIDE DEF c, arrived, now
  <2> QED BY <1>12, <1>14 DEF PartOfList
<1> HIDE DEF h, read, now, arrived
<1> QED BY <1>1, <1>4, <1>7, <1>8, <1>11, <1>13, <1>15, <1>16 DEF h

-----------------------------------------------------------------------------
(* Receive as a whole.                                                     *)

\* So does the arrival of any packet that is under way.
LEMMA ReceiveKeeps ==
    ASSUME IInv, NEW p \in net, Receive(p) PROVE IInv'
<1> DEFINE r == p.from
           e == Peer(r)
           c == conn[e]
           d == conn[r]
           n == Read(c, p)
           h == Heard(c, p)
           m == Notified(c, p.ack, p.mask)
           part == PartOfList(c, p)
<1>1. /\ p \in Pack /\ r \in End /\ e \in End /\ e # r
      /\ c.lastSeqRecvd <= p.seq /\ PacketOf(d, p)
      /\ c.highestAcked <= p.ack /\ p.ack <= c.lastSendSeq /\ HeaderOf(c, d, loose[r], swallowed[e], p)
      /\ conn' = [conn EXCEPT ![e] = n]
      /\ Send({Packet(e, h, "ack", <<>>, <<>>)}) \/ Send({})
      /\ processed' = [processed EXCEPT ![e] = @ \o part]
      /\ loose' = IF New(c, p) THEN [loose EXCEPT ![e] = @ \o p.unordered] ELSE loose
      /\ swallowed' = IF p.type = "data" /\ ~New(c, p) /\ 0 \notin c.ackMask
                      THEN [swallowed EXCEPT ![r] = @ \cup Events(p)] ELSE swallowed
  BY ReceiveIs
<1>2. Peer(e) = r /\ Peer(r) = e /\ \A x \in End : x = e \/ x = r
  BY <1>1, PeerIs
<1>3. TypeInv /\ Direction(e) /\ Direction(r) /\ c \in Conn /\ d \in Conn
  BY <1>1 DEF IInv, TypeInv
<1>4. Side(c, d, processed[r], loose[r], swallowed[e]) /\ Side(d, c, processed[e], loose[e], swallowed[r])
  BY <1>2, <1>3 DEF Direction
<1> HIDE DEF c, d, e, r, n, h, m, part
<1>5. m \in Conn /\ Rest(c, m)
  <2>1. Tells(c, d, loose[r], swallowed[e], p.ack, p.mask) /\ p.ack \in Nat
    BY <1>1 DEF HeaderOf, Pack
  <2> QED BY <1>1, <1>3, <1>4, <2>1, NotifiedIs DEF Side, m
<1>6. /\ h \in Conn /\ h.lastSendSeq = n.lastSendSeq /\ h.lastSeqRecvd = n.lastSeqRecvd /\ h.ackMask = n.ackMask
      /\ h.lastRecvAckAck = n.lastRecvAckAck
      /\ n \in Conn /\ SameSender(m, n)
      /\ Proceeds(c, n, ListOf(c, p), part)
      /\ n.lastSeqRecvd = p.seq
      /\ n.ackMask = Shifted(c.ackMask, p.seq - c.lastSeqRecvd, p.type = "data")
      /\ n.lastRecvAckAck =
            IF p.seq - m.lastRecvAckAck > Window THEN p.seq - Window ELSE m.lastRecvAckAck
  <2> DEFINE pr == processed[e]
             l == loose[e]
             w == swallowed[r]
  <2>1. Side(d, c, pr, l, w) /\ m = Notified(c, p.ack, p.mask)
    BY <1>4 DEF m
  <2> HIDE DEF pr, l, w
  <2> QED BY <1>1, <1>3, <1>5, <2>1, ReadRecordIs DEF n, h, part
<1>7. /\ Side(n, d, processed[r], loose[r], swallowed[e]) /\ n.highestAcked = p.ack
      /\ \A o \in Pack : Carries(c, o) => Carries(n, o)
      /\ \A o : Says(c, d, loose[r], swallowed[e], o) => Says(n, d, loose[r], swallowed[e], o)
      /\ \/ m.lastRecvAckAck = c.lastRecvAckAck
         \/ m.lastRecvAckAck <= d.highestAcked /\ m.lastRecvAckAck <= c.lastSeqRecvd
  <2> DEFINE pr == processed[r]
             l == loose[r]
             w == swallowed[e]
  <2>1. /\ Side(c, d, pr, l, w) /\ SameSender(Notified(c, p.ack, p.mask), n)
        /\ HeaderOf(c, d, l, w, p)
    BY <1>1, <1>4, <1>6 DEF m
  <2> HIDE DEF pr, l, w
  <2>2. /\ Side(n, d, pr, l, w) /\ n.highestAcked = p.ack
        /\ \A o \in Pack : Carries(c, o) => Carries(n, o)
        /\ \A o : Says(c, d, l, w, o) => Says(n, d, l, w, o)
        /\ \/ m.lastRecvAckAck = c.lastRecvAckAck
           \/ m.lastRecvAckAck <= d.highestAcked /\ m.lastRecvAckAck <= c.lastSeqRecvd
    BY <1>1, <1>3, <1>6, <2>1, HeardSide DEF m
  <2> QED BY <2>2 DEF pr, l, w
<1>8. /\ conn'[e] = n /\ conn'[r] = d /\ conn' \in [End -> Conn]
      /\ processed'[r] = processed[r] /\ loose'[r] = loose[r] /\ swallowed'[e] = swallowed[e]
      /\ processed'[e] = processed[e] \o part
      /\ loose'[e] = (IF New(c, p) THEN loose[e] \o p.unordered ELSE loose[e])
      /\ swallowed'[r] = (IF p.type = "data" /\ ~New(c, p) /\ 0 \notin c.ackMask
                          THEN swallowed[r] \cup Events(p) ELSE swallowed[r])
  <2>1. conn \in [End -> Conn] /\ processed \in [End -> Seq(Nat)] /\ loose \in [End -> Seq(Nat)] /\ swallowed \in [End -> SUBSET Kinds]
    BY <1>3 DEF TypeInv
  <2>2. conn'[e] = n /\ conn'[r] = d /\ conn' \in [End -> Conn]
    BY <1>1, <1>6, <2>1 DEF d
  <2>3. processed'[r] = processed[r] /\ processed'[e] = processed[e] \o part
    BY <1>1, <2>1
  <2>4. loose'[r] = loose[r] /\ loose'[e] = (IF New(c, p) THEN loose[e] \o p.unordered ELSE loose[e])
    BY <1>1, <2>1
  <2>5. /\ swallowed'[e] = swallowed[e]
        /\ swallowed'[r] = (IF p.type = "data" /\ ~New(c, p) /\ 0 \notin c.ackMask
                            THEN swallowed[r] \cup Events(p) ELSE swallowed[r])
    BY <1>1, <2>1
  <2> QED BY <2>2, <2>3, <2>4, <2>5
<1> DEFINE pr == processed[e]
           l == loose[e]
           w == swallowed[r]
           fpr == processed'[e]
           fl == loose'[e]
           fw == swallowed'[r]
<1>9. Side(d, c, pr, l, w)
  BY <1>4
<1>10. Reads(c, n, p, pr, fpr, l, fl, w, fw)
  <2>1. Proceeds(c, n, ListOf(c, p), part) /\ fpr = pr \o part
    BY <1>6, <1>8
  <2>2. c.highestAcked <= n.highestAcked /\ p.ack <= n.highestAcked
    <3>1. p.ack \in Nat
      BY <1>1 DEF Pack
    <3> QED BY <1>1, <1>7, <3>1
  <2>3. /\ fl = (IF New(c, p) THEN l \o p.unordered ELSE l)
        /\ fw = (IF p.type = "data" /\ ~New(c, p) /\ 0 \notin c.ackMask THEN w \cup Events(p) ELSE w)
    BY <1>8
  <2> HIDE DEF pr, l, w, fpr, fl, fw
  <2> QED BY <1>6, <2>1, <2>2, <2>3 DEF Reads
<1> HIDE DEF pr, l, w, fpr, fl, fw
<1>11. n.lastRecvAckAck <= d.highestAcked /\ n.lastSeqRecvd - n.lastRecvAckAck \in 0..Window
  <2> DEFINE a == m.lastRecvAckAck
             b == n.lastRecvAckAck
  <2>1. a \in Nat /\ Sender(d) /\ NumbersInv(d, c)
    BY <1>5, <1>9 DEF Conn, Side
  <2>2. /\ b = IF p.seq - a > Window THEN p.seq - Window ELSE a
        /\ a = c.lastRecvAckAck \/ (a <= d.highestAcked /\ a <= c.lastSeqRecvd)
    BY <1>6, <1>7
  <2> HIDE DEF a, b
  <2>3. b <= d.highestAcked /\ p.seq - b \in 0..Window
    BY <1>1, <1>3, <2>1, <2>2, AckAckIs
  <2> QED BY <1>6, <2>3 DEF b
<1>12. Side(d, n, fpr, fl, fw)
  BY <1>1, <1>3, <1>6, <1>9, <1>10, <1>11, SideKept
<1>13. \A o \in Pack : Says(d, c, l, w, o) => Says(d, n, fl, fw, o)
  <2> SUFFICES ASSUME NEW o \in Pack, Says(d, c, l, w, o) PROVE Says(d, n, fl, fw, o)
    OBVIOUS
  <2>1. o.ack \in Nat /\ o.ack <= c.lastSeqRecvd /\ Tells(d, c, l, w, o.ack, o.mask)
    BY DEF Pack, Says
  <2>2. Tells(d, n, fl, fw, o.ack, o.mask)
    BY <1>1, <1>3, <1>6, <1>9, <1>10, <2>1, TellsKept
  <2>3. c.lastSeqRecvd \in Nat /\ p.seq \in Nat
    BY <1>1, <1>3 DEF Conn, Pack
  <2>4. o.ack <= n.lastSeqRecvd
    BY <1>1, <1>6, <2>1, <2>3
  <2> QED BY <2>2, <2>4 DEF Says
<1> DEFINE one == Packet(e, h, "ack", <<>>, <<>>)
<1>14. /\ one \in Pack /\ one.from = e /\ one.type = "ack" /\ one.seq = n.lastSendSeq
       /\ one.ack = n.lastSeqRecvd /\ one.mask = SentMask(n)
  <2>1. h.lastSendSeq \in Nat /\ h.lastSeqRecvd \in Nat /\ SentMask(h) \in SUBSET Nat
    BY <1>6 DEF Conn, SentMask
  <2>2. SentMask(h) = SentMask(n)
    BY <1>6 DEF SentMask
  <2>3. one \in Pack /\ one.from = e /\ one.type = "ack" /\ one.seq = h.lastSendSeq
        /\ one.ack = h.lastSeqRecvd /\ one.mask = SentMask(h)
    BY <1>1, <2>1 DEF Packet, Pack
  <2> QED BY <1>6, <2>2, <2>3
<1>15. PICK packets \in SUBSET {one} : Send(packets)
  <2>1. Send({one}) \/ Send({})
    BY <1>1
  <2> HIDE DEF one
  <2> QED BY <2>1
<1> HIDE DEF one
<1>16. TypeInv'
  <2>1. net' \subseteq net \cup {one}
    BY <1>15, SendIs
  <2>2. net' \subseteq Pack
    BY <1>3, <1>14, <2>1 DEF TypeInv
  <2>3. processed'[e] \in Seq(Nat) /\ loose'[e] \in Seq(Nat) /\ swallowed'[r] \in SUBSET Kinds
    BY <1>12 DEF Side, fpr, fl, fw
  <2>4. conn \in [End -> Conn] /\ processed \in [End -> Seq(Nat)] /\ loose \in [End -> Seq(Nat)] /\ swallowed \in [End -> SUBSET Kinds]
    BY <1>3 DEF TypeInv
  <2>5. processed' \in [End -> Seq(Nat)]
    BY <1>1, <2>3, <2>4
  <2>6. loose' \in [End -> Seq(Nat)]
    BY <1>1, <2>3, <2>4
  <2>7. swallowed' \in [End -> SUBSET Kinds]
    BY <1>1, <2>3, <2>4
  <2> QED BY <1>8, <2>2, <2>5, <2>6, <2>7 DEF TypeInv
<1>17. net \subseteq Pack
  BY <1>3 DEF TypeInv
<1>18. Direction(e)'
  <2> DEFINE ll == loose[r]
             ww == swallowed[e]
  <2>1. /\ \A o \in net : o.from = e => Carries(c, o)
        /\ \A o \in net : o.from = r => Says(c, d, ll, ww, o)
    BY <1>1, <1>2, <1>3, DirectionIs DEF c, d
  <2>2. Carries(n, one)
    <3>1. n.lastSendSeq \in Nat
      BY <1>6 DEF Conn
    <3> QED BY <1>14, <3>1 DEF Carries
  <2>3. \A o : Says(c, d, ll, ww, o) => Says(n, d, ll, ww, o)
    BY <1>7
  <2> HIDE DEF ll, ww
  <2>4. \A o \in net \cup packets : /\ o.from = e => Carries(n, o)
                                    /\ o.from = r => Says(n, d, ll, ww, o)
    <3> SUFFICES ASSUME NEW o \in net \cup packets
                 PROVE  /\ o.from = e => Carries(n, o)
                        /\ o.from = r => Says(n, d, ll, ww, o)
      OBVIOUS
    <3>1. CASE o \in net
      BY <1>7, <1>17, <2>1, <2>3, <3>1
    <3>2. CASE o = one
      BY <1>1, <1>14, <2>2, <3>2
    <3> QED BY <1>15, <3>1, <3>2
  <2>5. /\ Side(conn'[e], conn'[Peer(e)], processed'[Peer(e)], loose'[Peer(e)], swallowed'[e])
        /\ \A o \in net \cup packets :
            /\ o.from = e => Carries(conn'[e], o)
            /\ o.from = Peer(e) => Says(conn'[e], conn'[Peer(e)], loose'[Peer(e)], swallowed'[e], o)
    BY <1>2, <1>7, <1>8, <2>4 DEF ll, ww
  <2> QED BY <1>1, <1>15, <2>5, DirectionAfter
<1>19. Direction(r)'
  <2>1. /\ \A o \in net : o.from = r => Carries(d, o)
        /\ \A o \in net : o.from = e => Says(d, c, l, w, o)
    BY <1>1, <1>2, <1>3, DirectionIs DEF c, d, l, w
  <2>2. Says(d, n, fl, fw, one)
    <3>1. Tells(d, n, fl, fw, n.lastSeqRecvd, SentMask(n))
      BY <1>3, <1>6, <1>12, HeaderTells
    <3>2. n.lastSeqRecvd \in Nat
      BY <1>6 DEF Conn
    <3> QED BY <1>14, <3>1, <3>2 DEF Says
  <2>3. \A o \in net \cup packets : /\ o.from = r => Carries(d, o)
                                    /\ o.from = e => Says(d, n, fl, fw, o)
    <3> SUFFICES ASSUME NEW o \in net \cup packets
                 PROVE  /\ o.from = r => Carries(d, o)
                        /\ o.from = e => Says(d, n, fl, fw, o)
      OBVIOUS
    <3>1. CASE o \in net
      BY <1>13, <1>17, <2>1, <3>1
    <3>2. CASE o = one
      BY <1>1, <1>14, <2>2, <3>2
    <3> QED BY <1>15, <3>1, <3>2
  <2>4. /\ Side(conn'[r], conn'[Peer(r)], processed'[Peer(r)], loose'[Peer(r)], swallowed'[r])
        /\ \A o \in net \cup packets :
            /\ o.from = r => Carries(conn'[r], o)
            /\ o.from = Peer(r) => Says(conn'[r], conn'[Peer(r)], loose'[Peer(r)], swallowed'[r], o)
    BY <1>2, <1>8, <1>12, <2>3 DEF fpr, fl, fw
  <2> QED BY <1>1, <1>15, <2>4, DirectionAfter
<1>20. ASSUME NEW x \in End PROVE Direction(x)'
  <2>1. x = e \/ x = r
    BY <1>2
  <2> QED BY <1>18, <1>19, <2>1
<1> QED BY <1>16, <1>20 DEF IInv

-----------------------------------------------------------------------------
(* Every step, and what the runs check.                                    *)

\* The invariant is inductive.
LEMMA NextKeeps ==
    ASSUME IInv, [Next]_vars PROVE IInv'
<1>1. CASE \E e \in End : PostOrdered(e) \/ PostUnordered(e) \/ CheckPacketSend(e) \/ Ping(e)
  BY <1>1, PostOrderedKeeps, PostUnorderedKeeps, CheckPacketSendKeeps, PingKeeps
<1>2. CASE \E p \in net : Receive(p)
  BY <1>2, ReceiveKeeps
<1>3. CASE UNCHANGED vars
  BY <1>3 DEF vars, IInv, TypeInv, Direction
<1> QED BY <1>1, <1>2, <1>3 DEF Next

\* In every state both directions of the connection are in order: writePacket,
\* readPacket and the notifies preserve what the two ends know of each other.
THEOREM DirectionsCorrect == Spec => []IInv
<1>1. Init => IInv
  BY InitOk
<1>2. IInv /\ [Next]_vars => IInv'
  BY NextKeeps
<1> QED BY <1>1, <1>2, PTL DEF Spec

\* The types of the runs: the invariant bounds what the windows bound.
LEMMA TypeOKFollows ==
    ASSUME IInv PROVE TypeOK
<1> SUFFICES ASSUME NEW e \in End
             PROVE  /\ conn[e].lastSendSeq - conn[e].highestAcked = Len(conn[e].notifyQueue)
                    /\ Len(conn[e].notifyQueue) <= Window - 2
                    /\ conn[e].lastSeqRecvd - conn[e].lastRecvAckAck \in 0..Window
                    /\ conn[e].lastSeqRecvd <= conn[Peer(e)].lastSendSeq
                    /\ conn[e].nextRecvEvent <= conn[Peer(e)].nextSendEvent
  BY DEF TypeOK
<1> DEFINE c == conn[e]
           d == conn[Peer(e)]
<1>1. /\ Sender(c) /\ NumbersInv(d, c) /\ ReceiverInv(d, c, processed[e], loose[e], swallowed[Peer(e)])
      /\ c \in Conn
  BY PeerIs DEF IInv, TypeInv, Direction, Side
<1> HIDE DEF c, d
<1>2. /\ c.lastSendSeq = c.highestAcked + Len(c.notifyQueue) /\ Len(c.notifyQueue) <= Window - 2
      /\ c.highestAcked \in Nat /\ Len(c.notifyQueue) \in Nat
  <2>1. c.notifyQueue \in Seq(Note) /\ c.highestAcked \in Nat
    BY <1>1 DEF Conn
  <2> QED BY <1>1, <2>1 DEF Sender, WindowInv
<1>3. c.lastSendSeq - c.highestAcked = Len(c.notifyQueue)
  <2> DEFINE H == c.highestAcked
             k == Len(c.notifyQueue)
  <2>1. H \in Nat /\ k \in Nat /\ c.lastSendSeq = H + k
    BY <1>2
  <2> HIDE DEF H, k
  <2>2. c.lastSendSeq - H = k
    BY <2>1
  <2> QED BY <2>2 DEF H, k
<1> QED BY <1>1, <1>2, <1>3 DEF NumbersInv, ReceiverInv, c, d

\* The numbers of the ordered events of a packet that is not read yet.
LEMMA RestoredIs ==
    ASSUME IInv, NEW p \in net, Unread(p), Intact(p.from), NEW i \in 1..Len(p.ordered)
    PROVE  Restored(p, p.ordered[i]) = p.ordered[i]
<1> DEFINE r == p.from
           e == Peer(r)
           c == conn[r]
           d == conn[e]
           pr == processed[e]
           l == loose[e]
           w == swallowed[r]
           k == p.seq - c.highestAcked
           n == p.ordered[i]
           R == d.nextRecvEvent
<1>1. p \in Pack /\ r \in End /\ e \in End
  <2>1. p \in Pack /\ r \in End
    BY DEF IInv, TypeInv, Pack
  <2> QED BY <2>1, PeerIs
<1>2. c \in Conn /\ d \in Conn /\ Direction(r)
  BY <1>1 DEF IInv, TypeInv
<1>3. Side(c, d, pr, l, w) /\ PacketOf(c, p)
  BY <1>2 DEF Direction
<1>4. /\ Unwrapped(p.seq, d.lastSeqRecvd, SeqMod) - d.lastSeqRecvd < Window
      /\ HasNewData(d, Unwrapped(p.seq, d.lastSeqRecvd, SeqMod), p.type)
  BY DEF Unread
<1>5. Healthy(d, w)
  BY DEF Intact, Healthy
<1>6. Restored(p, n) = Unwrapped(n % EventMod, R, EventMod)
  BY DEF Restored
<1> HIDE DEF r, e, c, d, pr, l, w
<1>7. Unwrapped(p.seq, d.lastSeqRecvd, SeqMod) = p.seq /\ d.lastSeqRecvd <= p.seq
  BY <1>1, <1>2, <1>3, <1>4, SeqIs DEF Side
<1>8. p.type = "data" /\ p.seq > d.lastSeqRecvd
  <2>1. p.seq \in Nat /\ d.lastSeqRecvd \in Nat
    BY <1>1, <1>2 DEF Pack, Conn
  <2> QED BY <1>4, <1>7, <2>1 DEF HasNewData
<1>9. /\ Elements(p.ordered) = OrderedIn(c, k) /\ OrderedNote(c, k) /\ Missed(d, l, c.notifyQueue[k])
      /\ k \in Notes(c)
  <2>1. Sender(c) /\ KnownInv(c, d, l, w) /\ NumbersInv(c, d)
    BY <1>3 DEF Side
  <2> QED BY <1>1, <1>2, <1>3, <1>8, <2>1, NewNote
<1>10. c.lastAckedEvent < d.nextRecvEvent
  <2>1. KnownInv(c, d, l, w) /\ ReceiverInv(c, d, pr, l, w)
    BY <1>3 DEF Side
  <2> QED BY <1>2, <1>5, <2>1, HealthyAhead
<1>11. n \in Nat /\ n \in OrderedIn(c, k)
  <2>1. p.ordered \in Seq(Nat)
    BY <1>1 DEF Pack
  <2>2. n \in Elements(p.ordered) /\ n \in Nat
    BY <2>1 DEF Elements
  <2> QED BY <1>9, <2>2
<1> HIDE DEF k, n
<1>12. n <= c.lastAckedEvent + EventWindow /\ ~Has(d, n)
  BY <1>9, <1>11 DEF OrderedNote, Missed, OrderedIn
<1>13. /\ R \in Nat /\ c.lastAckedEvent \in Int /\ EventWindow \in Nat /\ EventMod \in Nat \ {0} /\ EventWindow <= EventMod
       /\ ~(n < R) /\ c.lastAckedEvent < R
  <2>1. R \in Nat /\ c.lastAckedEvent \in Int
    BY <1>2 DEF Conn
  <2> QED BY <1>10, <1>12, <2>1, Constants DEF Has
<1> HIDE DEF R
<1>14. R <= n /\ n < R + EventMod
  BY <1>11, <1>12, <1>13
<1>15. Unwrapped(n % EventMod, R, EventMod) = n
  BY <1>11, <1>13, <1>14, UnwrappedRestored
<1> QED BY <1>6, <1>15 DEF n

\* Events are processed in the order of their numbers, each once.
LEMMA OrderFollows ==
    ASSUME IInv PROVE ProcessedOnceInOrder
<1>1. ASSUME NEW e \in End
      PROVE  /\ Len(processed[e]) = conn[e].nextRecvEvent
             /\ \A i \in 1..Len(processed[e]) : processed[e][i] = i - 1
             /\ \A i, j \in 1..Len(loose[e]) : loose[e][i] = loose[e][j] => i = j
  <2>1. ReceiverInv(conn[Peer(e)], conn[e], processed[e], loose[e], swallowed[Peer(e)])
    BY PeerIs DEF IInv, Direction, Side
  <2> QED BY <2>1 DEF ReceiverInv, Distinct
<1> QED BY <1>1, RestoredIs DEF ProcessedOnceInOrder

\* An event is processed, waits, is on its way or was swallowed.
LEMMA NothingLostFollows ==
    ASSUME IInv PROVE NothingLost
<1> SUFFICES ASSUME NEW e \in End
             PROVE  /\ \A n \in 0..conn[e].nextSendEvent - 1 :
                        \/ n \in Elements(processed[Peer(e)]) \cup Elements(conn[Peer(e)].waiting)
                                    \cup Elements(conn[e].sendQueue)
                        \/ <<"ordered", n>> \in InFlight(conn[e])
                        \/ \E k \in 0..n : <<"ordered", k>> \in swallowed[e]
                    /\ \A n \in 0..conn[e].nextUnordered - 1 :
                        \/ n \in Elements(loose[Peer(e)]) \cup Elements(conn[e].unordered)
                        \/ <<"unordered", n>> \in InFlight(conn[e]) \cup swallowed[e]
  BY DEF NothingLost
<1> DEFINE q == Peer(e)
           c == conn[e]
           d == conn[q]
           pr == processed[q]
           l == loose[q]
           w == swallowed[e]
<1>1. c \in Conn /\ d \in Conn /\ Side(c, d, pr, l, w)
  BY PeerIs DEF IInv, TypeInv, Direction
<1> HIDE DEF q, c, d, pr, l, w
<1>2. /\ OrderedInv(c) /\ KnownInv(c, d, l, w) /\ ReceiverInv(c, d, pr, l, w) /\ w \in SUBSET Kinds
  BY <1>1 DEF Side, Sender
<1>3. c.lastAckedEvent \in Int /\ c.nextSendEvent \in Nat /\ c.nextUnordered \in Nat /\ d.nextRecvEvent \in Nat
  BY <1>1 DEF Conn
<1>4. ASSUME NEW i \in Notes(c), NEW n \in OrderedIn(c, i) PROVE <<"ordered", n>> \in InFlight(c)
  <2>1. PICK j \in 1..Len(c.notifyQueue[i].ordered) : n = c.notifyQueue[i].ordered[j]
    BY <1>4 DEF OrderedIn, Elements
  <2>2. <<"ordered", n>> \in Events(c.notifyQueue[i])
    BY <2>1 DEF Events
  <2> QED BY <2>2 DEF InFlight, Notes
<1>5. ASSUME NEW i \in Notes(c), NEW n \in UnorderedIn(c, i) PROVE <<"unordered", n>> \in InFlight(c)
  <2>1. PICK j \in 1..Len(c.notifyQueue[i].unordered) : n = c.notifyQueue[i].unordered[j]
    BY <1>5 DEF UnorderedIn, Elements
  <2>2. <<"unordered", n>> \in Events(c.notifyQueue[i])
    BY <2>1 DEF Events
  <2> QED BY <2>2 DEF InFlight, Notes
<1>6. ASSUME NEW n \in 0..c.nextSendEvent - 1, ~(\E k \in 0..n : <<"ordered", k>> \in w)
      PROVE  \/ n \in Elements(pr) \cup Elements(d.waiting) \cup Elements(c.sendQueue)
             \/ <<"ordered", n>> \in InFlight(c)
  <2>0. n \in Nat /\ n < c.nextSendEvent
    BY <1>3
  <2>1. CASE n < d.nextRecvEvent
    <3>1. Len(pr) = d.nextRecvEvent /\ \A i \in 1..Len(pr) : pr[i] = i - 1
      BY <1>2 DEF ReceiverInv
    <3>2. n + 1 \in 1..Len(pr) /\ (n + 1) - 1 = n
      BY <1>3, <2>0, <2>1, <3>1
    <3>3. pr[n + 1] = n
      BY <3>1, <3>2
    <3> QED BY <3>2, <3>3 DEF Elements
  <2>2. CASE ~(n < d.nextRecvEvent) /\ (n <= c.lastAckedEvent \/ n \in Elements(c.notifyEvents))
    <3>1. Healthy(d, w)
      <4> SUFFICES ASSUME NEW x \in w, x[1] = "ordered", ~(x[2] > d.nextRecvEvent) PROVE FALSE
        BY DEF Healthy
      <4>1. x[2] \in Nat /\ x = <<"ordered", x[2]>>
        BY <1>2 DEF Kinds
      <4>2. x[2] \in 0..n
        BY <1>3, <2>0, <2>2, <4>1
      <4> QED BY <1>6, <4>1, <4>2
    <3>2. Reached(d, w, n)
      BY <1>2, <2>0, <2>2, <3>1 DEF KnownInv
    <3>3. n \in 0..n
      BY <2>0
    <3>4. Has(d, n)
      BY <1>6, <3>2, <3>3 DEF Reached
    <3> QED BY <2>2, <3>4 DEF Has
  <2>3. CASE ~(n <= c.lastAckedEvent) /\ n \notin Elements(c.notifyEvents)
    <3>1. Open(c, n)
      BY <1>3, <2>0, <2>3 DEF Open
    <3>2. n \in Elements(c.sendQueue) \/ \E i \in Notes(c) : n \in OrderedIn(c, i)
      BY <1>2, <2>0, <2>3, <3>1 DEF OrderedInv
    <3> QED BY <1>4, <3>2
  <2> QED BY <2>1, <2>2, <2>3
<1>7. ASSUME NEW n \in 0..c.nextUnordered - 1
      PROVE  \/ n \in Elements(l) \cup Elements(c.unordered)
             \/ <<"unordered", n>> \in InFlight(c) \cup w
  <2>1. n \in Nat /\ n < c.nextUnordered
    BY <1>3
  <2>2. \/ n \in Elements(c.unordered) \/ ReachedLoose(l, w, n)
        \/ \E i \in Notes(c) : n \in UnorderedIn(c, i)
    BY <1>2, <2>1 DEF KnownInv
  <2> QED BY <1>5, <2>2 DEF ReachedLoose
<1> QED BY <1>6, <1>7 DEF q, c, d, pr, l, w

\* The fields of both ends stay within the windows of NetConnection and EventConnection.
THEOREM TypeOKCorrect == Spec => []TypeOK
BY DirectionsCorrect, TypeOKFollows, PTL

\* The ordered events are processed in the order they were posted, each once, and no
\* other event twice, whatever the network loses, repeats or reorders: readPacket of EventConnection.
THEOREM ProcessedOnceInOrderCorrect == Spec => []ProcessedOnceInOrder
BY DirectionsCorrect, OrderFollows, PTL

\* No guaranteed event is lost: one that was not processed waits at an end, is in a packet
\* whose fate is not known, or was in one that was acknowledged and not read.
THEOREM NothingLostCorrect == Spec => []NothingLost
BY DirectionsCorrect, NothingLostFollows, PTL
=============================================================================
