---------------------------- MODULE FriendsProofs ----------------------------
(***************************************************************************)
(* The safety properties of Friends, for any players, slots and bounds.    *)
(***************************************************************************)
EXTENDS Friends, FiniteSetTheorems, SequenceTheorems, WellFoundedInduction, TLAPS

Write == [do : {"insert", "update", "delete"}, row : Row]
TypeInv ==
    /\ loaded \in SUBSET Player
    /\ friends \in [Player -> SUBSET Player]
    /\ outgoing \in [Player -> SUBSET Player]
    /\ incoming \in [Player -> SUBSET Player]
    /\ rows \in SUBSET Row
    /\ queue \in Seq(Write)
    /\ torn \in SUBSET SUBSET Player

\* Of who is not in memory, nothing is.
UnloadedInv == \A p \in Player \ loaded : friends[p] = {} /\ outgoing[p] = {} /\ incoming[p] = {}

\* What a table says of p and q, and what the memory of p does.
Says(table, p, q, s) == RowOf(p, q, s) \in table
Knows(p, q, s) ==
    \/ s = Accepted /\ q \in friends[p]
    \/ s = Sent /\ q \in outgoing[p]
    \/ s = Received /\ q \in incoming[p]

\* The table says the same of both, and one thing only, but that who has sent a
\* request to himself has received it.
Agreeing(table, p, q) ==
    /\ Says(table, p, q, Accepted) <=> Says(table, q, p, Accepted)
    /\ Says(table, p, q, Sent) <=> Says(table, q, p, Received)
    /\ Says(table, p, q, Accepted) => ~Says(table, p, q, Sent) /\ ~Says(table, p, q, Received)
    /\ p # q => ~(Says(table, p, q, Sent) /\ Says(table, p, q, Received))
TableInv == \A p, q \in Player : {p, q} \notin torn => Agreeing(WillHold, p, q)

\* What is in memory of p is what the table will say of him.
MemoryInv ==
    \A p \in loaded, q \in Player : {p, q} \notin torn =>
        \A s \in Status : Says(WillHold, p, q, s) <=> Knows(p, q, s)

\* Requests keep to their slots in the table, of whoever is in memory or not.
Few(table, p) ==
    LET sent == {q \in Player : Says(table, p, q, Sent)}
        received == {q \in Player : Says(table, p, q, Received)}
    IN /\ IsFiniteSet(sent) /\ Cardinality(sent) <= OutgoingSlots
       /\ IsFiniteSet(received) /\ Cardinality(received) <= IncomingSlots
SlotsInv == \A p \in Player \ UNION torn : Few(WillHold, p)

IInv == TypeInv /\ UnloadedInv /\ TableInv /\ MemoryInv /\ SlotsInv

-----------------------------------------------------------------------------
(* The table while writes are executed                                     *)

\* The table t once the writes q are executed, one after the other.
After(t, q) ==
    LET after[i \in 0..Len(q)] == IF i = 0 THEN t ELSE Executed(after[i - 1], q[i])
    IN after[Len(q)]

LEMMA WillHoldIs == WillHold = After(rows, queue)
BY DEF WillHold, After

\* h is the table after each of them.
Runs(t, q, h) ==
    /\ DOMAIN h = 0..Len(q)
    /\ h[0] = t
    /\ \A i \in 1..Len(q) : h[i] = Executed(h[i - 1], q[i])
IsRun(t, q, h) == h = [i \in 0..Len(q) |-> IF i = 0 THEN t ELSE Executed(h[i - 1], q[i])]

LEMMA NaturalSets ==
    ASSUME NEW S, 0 \in S, \A n \in Nat : n \in S => n + 1 \in S
    PROVE  Nat \subseteq S
<1> SUFFICES ASSUME Nat \ S # {} PROVE FALSE
  OBVIOUS
<1> DEFINE R == OpToRel(<, Nat)
           T == Nat \ S
<1>1. T \subseteq Nat /\ T # {}
  OBVIOUS
<1>2. PICK k \in T : \A y \in T : ~(<<y, k>> \in R)
  <2> HIDE DEF T, R
  <2> QED BY <1>1, NatLessThanWellFounded, WFMin, Zenon DEF R
<1>3. k - 1 \in Nat /\ k \in Nat /\ (k - 1) + 1 = k
  <2> HIDE DEF R
  <2> QED BY <1>2
<1>4. k - 1 \in S
  <2>1. <<k - 1, k>> \in R
    BY <1>3 DEF OpToRel
  <2> QED BY <1>2, <1>3, <2>1
<1> QED BY <1>2, <1>3, <1>4

LEMMA RunsIs ==
    ASSUME NEW t, NEW q \in Seq(Write), NEW h, Runs(t, q, h)
    PROVE  /\ \E f : IsRun(t, q, f)
           /\ \A f : IsRun(t, q, f) => f[Len(q)] = h[Len(q)]
<1> DEFINE g == [i \in 0..Len(q) |-> h[i]]
<1>0. Len(q) \in Nat
  OBVIOUS
<1>1. IsRun(t, q, g)
  <2>1. \A i \in 0..Len(q) : g[i] = IF i = 0 THEN t ELSE Executed(g[i - 1], q[i])
    BY <1>0 DEF Runs
  <2>2. g = [i \in 0..Len(q) |-> g[i]]
    OBVIOUS
  <2> HIDE DEF g
  <2> QED BY <2>1, <2>2 DEF IsRun
<1>2. ASSUME NEW f, IsRun(t, q, f) PROVE f[Len(q)] = h[Len(q)]
  <2> DEFINE S == {i \in Nat : i \in 0..Len(q) => f[i] = h[i]}
  <2>1. \A i \in 0..Len(q) : f[i] = IF i = 0 THEN t ELSE Executed(f[i - 1], q[i])
    BY <1>2 DEF IsRun
  <2>2. 0 \in S
    BY <1>0, <2>1 DEF Runs
  <2>3. ASSUME NEW n \in Nat, n \in S PROVE n + 1 \in S
    BY <1>0, <2>1, <2>3 DEF Runs
  <2>4. Nat \subseteq S
    <3> HIDE DEF S
    <3> QED BY <2>2, <2>3, NaturalSets
  <2> QED BY <1>0, <2>4
<1> QED BY <1>1, <1>2

LEMMA AfterIs ==
    ASSUME NEW t, NEW q \in Seq(Write), NEW h, Runs(t, q, h)
    PROVE  After(t, q) = h[Len(q)]
<1> DEFINE f == CHOOSE g : g = [i \in 0..Len(q) |-> IF i = 0 THEN t ELSE Executed(g[i - 1], q[i])]
<1>1. IsRun(t, q, f)
  BY RunsIs DEF IsRun
<1>2. After(t, q) = f[Len(q)]
  BY DEF After
<1> HIDE DEF f
<1> QED BY <1>1, <1>2, RunsIs

LEMMA RunsAppend ==
    ASSUME NEW t, NEW q \in Seq(Write), NEW h, Runs(t, q, h), NEW w \in Write
    PROVE  \E g : Runs(t, Append(q, w), g) /\ g[Len(q) + 1] = Executed(h[Len(q)], w)
<1> DEFINE v == Append(q, w)
           g == [i \in 0..Len(q) + 1 |-> IF i = Len(q) + 1 THEN Executed(h[Len(q)], w) ELSE h[i]]
<1>1. /\ Len(q) \in Nat /\ Len(v) = Len(q) + 1 /\ v[Len(q) + 1] = w
      /\ \A i \in 1..Len(q) : v[i] = q[i]
  OBVIOUS
<1> HIDE DEF v
<1>2. g[0] = t /\ DOMAIN g = 0..Len(v) /\ g[Len(q) + 1] = Executed(h[Len(q)], w)
  BY <1>1 DEF Runs
<1>3. ASSUME NEW i \in 1..Len(v) PROVE g[i] = Executed(g[i - 1], v[i])
  <2>1. CASE i = Len(q) + 1
    BY <1>1, <2>1
  <2>2. CASE i # Len(q) + 1
    <3>1. i \in 1..Len(q) /\ i - 1 \in 0..Len(q) /\ i - 1 # Len(q) + 1
      BY <1>1, <2>2
    <3>2. g[i] = h[i] /\ g[i - 1] = h[i - 1] /\ v[i] = q[i]
      BY <1>1, <3>1
    <3> QED BY <3>1, <3>2 DEF Runs
  <2> QED BY <2>1, <2>2
<1> HIDE DEF g
<1>4. Runs(t, v, g)
  BY <1>2, <1>3 DEF Runs
<1> QED BY <1>2, <1>4 DEF v

\* Every queue can be executed.
LEMMA RunExists ==
    ASSUME NEW t, NEW q \in Seq(Write)
    PROVE  \E h : Runs(t, q, h)
<1> DEFINE S == {n \in Nat : \A v \in Seq(Write) : Len(v) = n => \E h : Runs(t, v, h)}
<1>1. 0 \in S
  <2>1. ASSUME NEW v \in Seq(Write), Len(v) = 0 PROVE \E h : Runs(t, v, h)
    <3>1. Runs(t, v, [i \in 0..0 |-> t])
      BY <2>1 DEF Runs
    <3> QED BY <3>1
  <2> QED BY <2>1
<1>2. ASSUME NEW n \in Nat, n \in S PROVE n + 1 \in S
  <2>1. ASSUME NEW v \in Seq(Write), Len(v) = n + 1 PROVE \E h : Runs(t, v, h)
    <3>0. v # <<>>
      BY <2>1
    <3>1. PICK u \in Seq(Write), w \in Write : v = Append(u, w)
      BY <3>0, SequenceEmptyOrAppend
    <3>2. Len(u) = n
      BY <2>1, <3>1
    <3>3. PICK h : Runs(t, u, h)
      BY <1>2, <3>2
    <3>4. \E g : Runs(t, Append(u, w), g)
      BY <3>3, RunsAppend
    <3> QED BY <3>1, <3>4
  <2> QED BY <2>1
<1>3. Nat \subseteq S
  <2> HIDE DEF S
  <2> QED BY <1>1, <1>2, NaturalSets
<1> QED BY <1>3

LEMMA AfterEmpty == ASSUME NEW t PROVE After(t, <<>>) = t
<1>1. Runs(t, <<>>, [i \in 0..0 |-> t])
  BY DEF Runs
<1> QED BY <1>1, AfterIs

LEMMA AfterAppend ==
    ASSUME NEW t, NEW q \in Seq(Write), NEW w \in Write
    PROVE  After(t, Append(q, w)) = Executed(After(t, q), w)
<1>1. PICK h : Runs(t, q, h)
  BY RunExists
<1>2. PICK g : Runs(t, Append(q, w), g) /\ g[Len(q) + 1] = Executed(h[Len(q)], w)
  BY <1>1, RunsAppend
<1>3. Append(q, w) \in Seq(Write) /\ Len(Append(q, w)) = Len(q) + 1
  OBVIOUS
<1> QED BY <1>1, <1>2, <1>3, AfterIs

LEMMA AfterHead ==
    ASSUME NEW t, NEW q \in Seq(Write), q # <<>>
    PROVE  After(Executed(t, Head(q)), Tail(q)) = After(t, q)
<1> DEFINE v == Tail(q)
<1>1. PICK h : Runs(t, q, h)
  BY RunExists
<1> DEFINE g == [i \in 0..Len(v) |-> h[i + 1]]
<1>2. /\ v \in Seq(Write) /\ Len(q) \in Nat /\ Len(q) >= 1 /\ Len(v) = Len(q) - 1 /\ Head(q) = q[1]
      /\ \A i \in 1..Len(v) : v[i] = q[i + 1]
  OBVIOUS
<1> HIDE DEF v
<1>3. g[0] = Executed(t, Head(q)) /\ DOMAIN g = 0..Len(v) /\ g[Len(v)] = h[Len(q)]
  BY <1>1, <1>2 DEF Runs
<1>4. ASSUME NEW i \in 1..Len(v) PROVE g[i] = Executed(g[i - 1], v[i])
  <2>1. i + 1 \in 1..Len(q) /\ (i + 1) - 1 = i /\ i - 1 \in 0..Len(v) /\ (i - 1) + 1 = i /\ i \in 0..Len(v)
    BY <1>2
  <2>2. h[i + 1] = Executed(h[i], q[i + 1])
    BY <1>1, <2>1 DEF Runs
  <2> QED BY <1>2, <2>1, <2>2
<1> HIDE DEF g
<1>5. Runs(Executed(t, Head(q)), v, g)
  BY <1>3, <1>4 DEF Runs
<1> QED BY <1>1, <1>2, <1>3, <1>5, AfterIs DEF v

\* Whether the write is about p and what he has to do with q.
Concerns(w, p, q) == w.row.from = p /\ w.row.to = q

LEMMA ExecutedIs ==
    ASSUME NEW table \in SUBSET Row, NEW w \in Write
    PROVE  /\ Executed(table, w) \in SUBSET Row
           /\ \A p, q \in Player : ~Concerns(w, p, q) =>
                 \A s \in Status : Says(Executed(table, w), p, q, s) <=> Says(table, p, q, s)
<1>0. w.do \in {"insert", "update", "delete"} /\ w.row \in Row
  BY DEF Write
<1>1. CASE w.do = "insert"
  <2>1. Executed(table, w) = table \cup {w.row}
    BY <1>1 DEF Executed
  <2> QED BY <1>0, <2>1 DEF Says, RowOf, Concerns
<1>2. CASE w.do = "update"
  <2>1. Executed(table, w) = {IF Same(r, w.row) THEN w.row ELSE r : r \in table}
    BY <1>2 DEF Executed
  <2> QED BY <1>0, <2>1 DEF Says, RowOf, Concerns, Same
<1>3. CASE w.do = "delete"
  <2>1. Executed(table, w) = table \ About(table, w.row)
    BY <1>3 DEF Executed
  <2> QED BY <1>0, <2>1 DEF Says, RowOf, Concerns, About, Same
<1> QED BY <1>0, <1>1, <1>2, <1>3

LEMMA InsertIs ==
    ASSUME NEW table \in SUBSET Row, NEW p \in Player, NEW q \in Player, NEW s \in Status
    PROVE  /\ Insert(p, q, s) \in Write /\ Concerns(Insert(p, q, s), p, q)
           /\ \A x, y \in Player : Concerns(Insert(p, q, s), x, y) => x = p /\ y = q
           /\ \A z \in Status : Says(Executed(table, Insert(p, q, s)), p, q, z) <=> Says(table, p, q, z) \/ z = s
BY DEF Insert, RowOf, Write, Row, Concerns, Executed, Says

LEMMA SetStateWrites ==
    ASSUME NEW p \in Player, NEW q \in Player, NEW s \in Status
    PROVE  /\ SetState(p, q, s) \in Write
           /\ \A x, y \in Player : Concerns(SetState(p, q, s), x, y) => x = p /\ y = q
BY DEF SetState, RowOf, Write, Row, Concerns

LEMMA SetStateIs ==
    ASSUME NEW table \in SUBSET Row, NEW p \in Player, NEW q \in Player, NEW s \in Status, NEW z \in Status
    PROVE  Says(Executed(table, SetState(p, q, s)), p, q, z) <=>
               z = s /\ \E y \in Status : Says(table, p, q, y)
<1> DEFINE w == SetState(p, q, s)
<1>1. w.do = "update" /\ w.row = RowOf(p, q, s) /\ w.row.from = p /\ w.row.to = q
  BY DEF SetState, RowOf
<1> HIDE DEF w
<1>2. Executed(table, w) = {IF Same(r, w.row) THEN w.row ELSE r : r \in table}
  BY <1>1 DEF Executed
<1>3. \A r \in table : Same(r, w.row) => r = RowOf(p, q, r.status) /\ r.status \in Status
  BY <1>1 DEF Same, RowOf, Row
<1>4. \A y \in Status : Same(RowOf(p, q, y), w.row)
  BY <1>1 DEF Same, RowOf
<1>5. RowOf(p, q, z) = RowOf(p, q, s) <=> z = s
  BY DEF RowOf
<1>6. RowOf(p, q, z) \in Executed(table, w) <=> z = s /\ \E y \in Status : RowOf(p, q, y) \in table
  BY <1>1, <1>2, <1>3, <1>4, <1>5
<1> QED BY <1>6 DEF Says, w

LEMMA DeleteIs ==
    ASSUME NEW table \in SUBSET Row, NEW p \in Player, NEW q \in Player
    PROVE  /\ Delete(p, q) \in Write
           /\ \A x, y \in Player : Concerns(Delete(p, q), x, y) => x = p /\ y = q
           /\ \A z \in Status : ~Says(Executed(table, Delete(p, q)), p, q, z)
BY DEF Delete, RowOf, Write, Row, Status, Concerns, Executed, Says, About, Same

\* Writes leave alone what they do not concern.
LEMMA AfterUnconcerned ==
    ASSUME NEW t \in SUBSET Row, NEW q \in Seq(Write)
    PROVE  /\ After(t, q) \in SUBSET Row
           /\ \A x, y \in Player : (\A i \in 1..Len(q) : ~Concerns(q[i], x, y)) =>
                 \A s \in Status : Says(After(t, q), x, y, s) <=> Says(t, x, y, s)
<1>0. Len(q) \in Nat /\ \A i \in 1..Len(q) : q[i] \in Write
  OBVIOUS
<1>1. PICK h : Runs(t, q, h)
  BY RunExists
<1> DEFINE Good(g) ==
               /\ g \in SUBSET Row
               /\ \A x, y \in Player : (\A i \in 1..Len(q) : ~Concerns(q[i], x, y)) =>
                     \A s \in Status : Says(g, x, y, s) <=> Says(t, x, y, s)
           S == {n \in Nat : n \in 0..Len(q) => Good(h[n])}
<1>2. 0 \in S
  BY <1>1 DEF Runs
<1>3. ASSUME NEW n \in Nat, n \in S PROVE n + 1 \in S
  <2> SUFFICES ASSUME n + 1 \in 0..Len(q) PROVE Good(h[n + 1])
    OBVIOUS
  <2>1. n + 1 \in 1..Len(q) /\ n \in 0..Len(q) /\ (n + 1) - 1 = n
    BY <1>0
  <2>2. h[n + 1] = Executed(h[n], q[n + 1]) /\ q[n + 1] \in Write
    BY <1>0, <1>1, <2>1 DEF Runs
  <2>3. Good(h[n])
    BY <1>3, <2>1
  <2> DEFINE u == h[n] v == h[n + 1] w == q[n + 1]
  <2>4. u \in SUBSET Row /\ v = Executed(u, w) /\ w \in Write
    BY <2>2, <2>3
  <2>5. v \in SUBSET Row
    BY <2>4, ExecutedIs
  <2>6. ASSUME NEW x \in Player, NEW y \in Player, \A i \in 1..Len(q) : ~Concerns(q[i], x, y), NEW s \in Status
        PROVE  Says(v, x, y, s) <=> Says(t, x, y, s)
    <3>1. ~Concerns(w, x, y)
      BY <2>1, <2>6
    <3>2. Says(u, x, y, s) <=> Says(t, x, y, s)
      BY <2>3, <2>6
    <3> HIDE DEF u, v, w, Good, S
    <3>3. Says(Executed(u, w), x, y, s) <=> Says(u, x, y, s)
      BY <2>4, <2>6, <3>1, ExecutedIs
    <3> QED BY <2>4, <3>2, <3>3
  <2> QED BY <2>5, <2>6
<1>4. Nat \subseteq S
  <2> HIDE DEF S
  <2> QED BY <1>2, <1>3, NaturalSets
<1>5. Good(h[Len(q)])
  BY <1>0, <1>4
<1> QED BY <1>1, <1>5, AfterIs

-----------------------------------------------------------------------------
(* What a step does to the table that will be                              *)

LEMMA ExecuteStep ==
    ASSUME TypeInv, Execute
    PROVE  WillHold' = WillHold
<1>1. WillHold' = After(rows', queue') /\ WillHold = After(rows, queue)
  BY DEF WillHold, After
<1>2. queue \in Seq(Write) /\ queue # <<>> /\ rows' = Executed(rows, Head(queue)) /\ queue' = Tail(queue)
  BY DEF TypeInv, Execute
<1>3. WillHold' = After(Executed(rows, Head(queue)), Tail(queue))
  BY <1>1, <1>2
<1> QED BY <1>1, <1>2, <1>3, AfterHead

\* The table after the writes that a handler dispatches.
LEMMA DispatchOne ==
    ASSUME TypeInv, UNCHANGED rows, NEW w \in Write, queue' = queue \o <<w>>
    PROVE  queue' \in Seq(Write) /\ WillHold' = Executed(WillHold, w)
<1>1. WillHold' = After(rows', queue') /\ WillHold = After(rows, queue)
  BY DEF WillHold, After
<1>2. queue \in Seq(Write)
  BY DEF TypeInv
<1>3. queue' = Append(queue, w) /\ queue' \in Seq(Write)
  BY <1>2, AppendIsConcat, AppendProperties
<1>4. WillHold' = After(rows, Append(queue, w))
  BY <1>1, <1>3
<1> QED BY <1>1, <1>2, <1>3, <1>4, AfterAppend

LEMMA DispatchTwo ==
    ASSUME TypeInv, UNCHANGED rows, NEW v \in Write, NEW w \in Write, queue' = queue \o <<v, w>>
    PROVE  queue' \in Seq(Write) /\ WillHold' = Executed(Executed(WillHold, v), w)
<1>1. WillHold' = After(rows', queue') /\ WillHold = After(rows, queue)
  BY DEF WillHold, After
<1>2. queue \in Seq(Write)
  BY DEF TypeInv
<1> DEFINE u == Append(queue, v)
<1>3. u \in Seq(Write) /\ queue' = Append(u, w) /\ queue' \in Seq(Write)
  BY <1>2
<1>4. WillHold' = After(rows, Append(u, w))
  BY <1>1, <1>3
<1>5. After(rows, Append(u, w)) = Executed(After(rows, u), w)
  <2> HIDE DEF u
  <2> QED BY <1>3, AfterAppend
<1>6. After(rows, u) = Executed(After(rows, queue), v)
  BY <1>2, AfterAppend
<1> QED BY <1>1, <1>3, <1>4, <1>5, <1>6

-----------------------------------------------------------------------------
(* The handlers change one pair                                            *)

LEMMA WillHoldRows == TypeInv => WillHold \in SUBSET Row
BY AfterUnconcerned, WillHoldIs DEF TypeInv

\* Nothing changes but between p and q...
Elsewhere(p, q) ==
    \A x, y \in Player : {x, y} # {p, q} =>
        \A s \in Status : /\ Says(WillHold', x, y, s) <=> Says(WillHold, x, y, s)
                          /\ Knows(x, y, s)' <=> Knows(x, y, s)
\* ...where all is well.
Fits(p, q) ==
    /\ Agreeing(WillHold, p, q)
    /\ \A s \in Status : Says(WillHold, p, q, s) <=> Knows(p, q, s)

LEMMA PairStep ==
    ASSUME IInv, NEW p \in Player, NEW q \in Player, loaded' = loaded, torn \subseteq torn', Elsewhere(p, q),
           {p, q} \notin torn' => Fits(p, q)' /\ Fits(q, p)'
    PROVE  TableInv' /\ MemoryInv'
<1>0. Accepted \in Status /\ Sent \in Status /\ Received \in Status /\ loaded \in SUBSET Player
  BY DEF Status, IInv, TypeInv
<1>1. ASSUME NEW x \in Player, NEW y \in Player, {x, y} \notin torn'
      PROVE  /\ Agreeing(WillHold', x, y)
             /\ x \in loaded => \A s \in Status : Says(WillHold', x, y, s) <=> Knows(x, y, s)'
  <2>1. CASE {x, y} # {p, q}
    <3>1. {y, x} = {x, y} /\ {x, y} \notin torn
      BY <1>1
    <3>2. Agreeing(WillHold, x, y)
      BY <3>1 DEF IInv, TableInv
    <3>3. \A s \in Status : /\ Says(WillHold', x, y, s) <=> Says(WillHold, x, y, s)
                            /\ Says(WillHold', y, x, s) <=> Says(WillHold, y, x, s)
                            /\ Knows(x, y, s)' <=> Knows(x, y, s)
      BY <2>1, <3>1 DEF Elsewhere
    <3>4. x \in loaded => \A s \in Status : Says(WillHold, x, y, s) <=> Knows(x, y, s)
      BY <3>1 DEF IInv, MemoryInv
    <3>5. Agreeing(WillHold', x, y)
      BY <1>0, <3>2, <3>3 DEF Agreeing
    <3> QED BY <3>3, <3>4, <3>5
  <2>2. CASE {x, y} = {p, q}
    <3>1. (x = p /\ y = q) \/ (x = q /\ y = p)
      BY <2>2
    <3> QED BY <1>1, <2>2, <3>1 DEF Fits
  <2> QED BY <2>1, <2>2
<1>2. TableInv'
  BY <1>1 DEF TableInv
<1>3. MemoryInv'
  BY <1>0, <1>1 DEF MemoryInv
<1> QED BY <1>2, <1>3

\* One write, or two, about a pair leave alone the rest of the table.
LEMMA OneElsewhere ==
    ASSUME NEW t \in SUBSET Row, NEW v \in Write, NEW p, NEW q,
           \A x, y \in Player : Concerns(v, x, y) => {x, y} = {p, q}
    PROVE  /\ Executed(t, v) \in SUBSET Row
           /\ \A x, y \in Player : {x, y} # {p, q} =>
                 \A s \in Status : Says(Executed(t, v), x, y, s) <=> Says(t, x, y, s)
BY ExecutedIs

LEMMA TwoElsewhere ==
    ASSUME NEW t \in SUBSET Row, NEW v \in Write, NEW w \in Write, NEW p, NEW q,
           \A x, y \in Player : Concerns(v, x, y) => {x, y} = {p, q},
           \A x, y \in Player : Concerns(w, x, y) => {x, y} = {p, q}
    PROVE  \A x, y \in Player : {x, y} # {p, q} =>
               \A s \in Status : Says(Executed(Executed(t, v), w), x, y, s) <=> Says(t, x, y, s)
<1> DEFINE u == Executed(t, v)
<1>1. /\ u \in SUBSET Row
      /\ \A x, y \in Player : {x, y} # {p, q} => \A s \in Status : Says(u, x, y, s) <=> Says(t, x, y, s)
  BY OneElsewhere
<1> HIDE DEF u
<1>2. \A x, y \in Player : {x, y} # {p, q} =>
          \A s \in Status : Says(Executed(u, w), x, y, s) <=> Says(u, x, y, s)
  BY <1>1, OneElsewhere
<1> QED BY <1>1, <1>2 DEF u

LEMMA SendRequestStep ==
    ASSUME IInv, NEW p \in Player, NEW q \in Player, SendRequest(p, q)
    PROVE  /\ TypeInv' /\ Elsewhere(p, q)
           /\ {p, q} \notin torn' =>
                 /\ Fits(p, q)' /\ Fits(q, p)'
                 /\ \A s \in Status : /\ Says(WillHold', p, q, s) <=> s = Sent \/ (p = q /\ s = Received)
                                      /\ Says(WillHold', q, p, s) <=> s = Received \/ (p = q /\ s = Sent)
<1> DEFINE v == Insert(p, q, Sent)
           w == Insert(q, p, Received)
           u == Executed(WillHold, v)
<1>0. /\ TypeInv /\ WillHold \in SUBSET Row
      /\ Accepted \in Status /\ Sent \in Status /\ Received \in Status
      /\ Accepted # Sent /\ Accepted # Received /\ Sent # Received
  BY WillHoldRows DEF IInv, Status, Accepted, Sent, Received
<1>1. /\ v \in Write /\ w \in Write
      /\ \A x, y \in Player : Concerns(v, x, y) => x = p /\ y = q
      /\ \A x, y \in Player : Concerns(w, x, y) => x = q /\ y = p
      /\ \A z \in Status : Says(u, p, q, z) <=> Says(WillHold, p, q, z) \/ z = Sent
  BY <1>0, InsertIs
<1>2. u \in SUBSET Row /\ \A x, y \in Player : ~(x = p /\ y = q) =>
                            \A s \in Status : Says(u, x, y, s) <=> Says(WillHold, x, y, s)
  <2> HIDE DEF v
  <2> QED BY <1>0, <1>1, ExecutedIs
<1>3. queue' \in Seq(Write) /\ WillHold' = Executed(u, w)
  <2>1. rows' = rows /\ queue' = queue \o <<v, w>>
    BY DEF SendRequest, Dispatch
  <2> HIDE DEF v, w
  <2> QED BY <1>0, <1>1, <2>1, DispatchTwo DEF u
<1> HIDE DEF u
<1>4. /\ \A z \in Status : Says(WillHold', q, p, z) <=> Says(u, q, p, z) \/ z = Received
      /\ \A x, y \in Player : ~(x = q /\ y = p) =>
            \A s \in Status : Says(WillHold', x, y, s) <=> Says(u, x, y, s)
  BY <1>1, <1>2, <1>3, <1>0, InsertIs, ExecutedIs
<1>5. /\ UNCHANGED <<loaded, friends, rows, torn>>
      /\ outgoing' = [outgoing EXCEPT ![p] = @ \cup {q}]
      /\ incoming' = [incoming EXCEPT ![q] = @ \cup {p}]
      /\ p \in loaded /\ q \in loaded /\ ~Contains(p, q) /\ ~Contains(q, p)
  BY DEF SendRequest, Both
<1>6. TypeInv'
  BY <1>0, <1>3, <1>5 DEF TypeInv
<1>7. Elsewhere(p, q)
  BY <1>0, <1>2, <1>4, <1>5 DEF Elsewhere, Knows, TypeInv
<1>8. ASSUME {p, q} \notin torn'
      PROVE  /\ Fits(p, q)' /\ Fits(q, p)'
             /\ \A s \in Status : /\ Says(WillHold', p, q, s) <=> s = Sent \/ (p = q /\ s = Received)
                                  /\ Says(WillHold', q, p, s) <=> s = Received \/ (p = q /\ s = Sent)
  <2>1. \A s \in Status : ~Knows(p, q, s) /\ ~Knows(q, p, s)
    BY <1>0, <1>5 DEF Knows, Contains
  <2>2. \A s \in Status : ~Says(WillHold, p, q, s) /\ ~Says(WillHold, q, p, s)
    <3>1. {q, p} = {p, q} /\ {p, q} \notin torn
      BY <1>5, <1>8
    <3> QED BY <1>5, <2>1, <3>1 DEF IInv, MemoryInv
  <2>3. \A s \in Status : /\ Says(WillHold', p, q, s) <=> s = Sent \/ (p = q /\ s = Received)
                          /\ Says(WillHold', q, p, s) <=> s = Received \/ (p = q /\ s = Sent)
    BY <1>1, <1>2, <1>4, <2>2
  <2>4. \A s \in Status : /\ Knows(p, q, s)' <=> s = Sent \/ (p = q /\ s = Received)
                          /\ Knows(q, p, s)' <=> s = Received \/ (p = q /\ s = Sent)
    BY <1>0, <1>5, <2>1 DEF Knows, TypeInv
  <2> QED BY <1>0, <2>3, <2>4 DEF Fits, Agreeing
<1> QED BY <1>6, <1>7, <1>8

\* What memory knows of a pair that is not torn.
LEMMA PairIs ==
    ASSUME IInv, NEW p \in loaded, NEW q \in loaded, {p, q} \notin torn
    PROVE  /\ q \in friends[p] <=> p \in friends[q]
           /\ q \in outgoing[p] <=> p \in incoming[q]
           /\ q \in incoming[p] <=> p \in outgoing[q]
           /\ q \in friends[p] => q \notin outgoing[p] \cup incoming[p]
           /\ p # q => ~(q \in outgoing[p] /\ q \in incoming[p])
           /\ \A s \in Status : /\ Says(WillHold, p, q, s) <=> Knows(p, q, s)
                                /\ Says(WillHold, q, p, s) <=> Knows(q, p, s)
<1>0. {q, p} = {p, q} /\ p \in Player /\ q \in Player
  BY DEF IInv, TypeInv
<1>1. \A s \in Status : /\ Says(WillHold, p, q, s) <=> Knows(p, q, s)
                        /\ Says(WillHold, q, p, s) <=> Knows(q, p, s)
  BY <1>0 DEF IInv, MemoryInv
<1>2. Agreeing(WillHold, p, q) /\ Agreeing(WillHold, q, p)
  BY <1>0 DEF IInv, TableInv
<1>3. /\ Accepted \in Status /\ Sent \in Status /\ Received \in Status
      /\ Accepted # Sent /\ Accepted # Received /\ Sent # Received
  BY DEF Status, Accepted, Sent, Received
<1>4. \A x, y : /\ Knows(x, y, Accepted) <=> y \in friends[x]
                /\ Knows(x, y, Sent) <=> y \in outgoing[x]
                /\ Knows(x, y, Received) <=> y \in incoming[x]
  BY <1>3 DEF Knows
<1> QED BY <1>1, <1>2, <1>3, <1>4 DEF Agreeing

LEMMA TwoWrites ==
    ASSUME NEW v \in Write, NEW w \in Write
    PROVE  <<v>> \o <<w>> = <<v, w>> /\ <<v>> \o <<>> = <<v>> /\ <<>> \o <<w>> = <<w>>
<1>1. <<v>> \in Seq(Write) /\ <<w>> \in Seq(Write)
  OBVIOUS
<1> DEFINE a == <<v>> \o <<w>>
           b == <<v, w>>
<1>2. a \in Seq(Write) /\ Len(a) = 2 /\ a[1] = v /\ a[2] = w
  BY <1>1, ConcatProperties
<1>3. b \in Seq(Write) /\ Len(b) = 2 /\ b[1] = v /\ b[2] = w
  OBVIOUS
<1> HIDE DEF a, b
<1>4. a = b
  <2>1. \A i \in 1..Len(a) : a[i] = b[i]
    BY <1>2, <1>3
  <2> QED BY <1>2, <1>3, <2>1, SeqEqual
<1>5. <<v>> \o <<>> = <<v>> /\ <<>> \o <<w>> = <<w>>
  BY <1>1, ConcatEmptySeq
<1> QED BY <1>4, <1>5 DEF a, b

\* Nothing is requested between p and q any more.
Settled(p, q) ==
    \A s \in {Sent, Received} : ~Says(WillHold, p, q, s) /\ ~Says(WillHold, q, p, s)

LEMMA AcceptStep ==
    ASSUME IInv, NEW p \in Player, NEW q \in Player, Accept(p, q)
    PROVE  /\ TypeInv' /\ Elsewhere(p, q)
           /\ {p, q} \notin torn' => Fits(p, q)' /\ Fits(q, p)' /\ Settled(p, q)'
<1> DEFINE v == SetState(p, q, Accepted)
           w == SetState(q, p, Accepted)
           u == Executed(WillHold, v)
<1>0. /\ TypeInv /\ WillHold \in SUBSET Row
      /\ Accepted \in Status /\ Sent \in Status /\ Received \in Status
      /\ Accepted # Sent /\ Accepted # Received /\ Sent # Received
      /\ queue \in Seq(Write)
  BY WillHoldRows DEF IInv, TypeInv, Status, Accepted, Sent, Received
<1>1. /\ v \in Write /\ w \in Write
      /\ \A x, y \in Player : Concerns(v, x, y) => x = p /\ y = q
      /\ \A x, y \in Player : Concerns(w, x, y) => x = q /\ y = p
      /\ \A z \in Status : Says(u, p, q, z) <=> z = Accepted /\ \E y \in Status : Says(WillHold, p, q, y)
  BY <1>0, SetStateWrites, SetStateIs
<1>2. /\ \A x, y \in Player : Concerns(v, x, y) => {x, y} = {p, q}
      /\ \A x, y \in Player : Concerns(w, x, y) => {x, y} = {p, q}
  BY <1>1
<1>3. /\ UNCHANGED <<loaded, rows, torn>> /\ p \in loaded /\ q \in loaded
      /\ friends' = [x \in Player |->
                        friends[x] \cup (IF q \in incoming[p] /\ x = p THEN {q} ELSE {})
                                   \cup (IF p \in outgoing[q] /\ x = q THEN {p} ELSE {})]
      /\ incoming' = [incoming EXCEPT ![p] = @ \ {q}]
      /\ outgoing' = [outgoing EXCEPT ![q] = @ \ {p}]
      /\ q \in incoming[p] \/ p \in outgoing[q]
  BY DEF Accept, Both
<1>4. queue' = queue \o ((IF q \in incoming[p] THEN <<v>> ELSE <<>>) \o (IF p \in outgoing[q] THEN <<w>> ELSE <<>>))
  BY DEF Accept, Dispatch
<1>5. \/ q \in incoming[p] /\ p \in outgoing[q] /\ queue' = queue \o <<v, w>>
      \/ q \in incoming[p] /\ p \notin outgoing[q] /\ queue' = queue \o <<v>>
      \/ q \notin incoming[p] /\ p \in outgoing[q] /\ queue' = queue \o <<w>>
  <2>1. <<v>> \o <<w>> = <<v, w>> /\ <<v>> \o <<>> = <<v>> /\ <<>> \o <<w>> = <<w>>
    <3> HIDE DEF v, w
    <3> QED BY <1>1, TwoWrites
  <2> HIDE DEF v, w
  <2> QED BY <1>3, <1>4, <2>1
<1> HIDE DEF v, w
<1>6. queue' \in Seq(Write)
  BY <1>0, <1>1, <1>3, <1>5, DispatchOne, DispatchTwo
<1>7. TypeInv'
  BY <1>0, <1>3, <1>6 DEF TypeInv
<1>8. \A x, y \in Player : {x, y} # {p, q} =>
          \A s \in Status : Says(WillHold', x, y, s) <=> Says(WillHold, x, y, s)
  <2>0. rows' = rows /\ v \in Write /\ w \in Write /\ TypeInv
    BY <1>0, <1>1, <1>3
  <2>1. CASE queue' = queue \o <<v, w>>
    <3>0. \A x, y \in Player : {x, y} # {p, q} =>
              \A s \in Status : Says(Executed(Executed(WillHold, v), w), x, y, s) <=> Says(WillHold, x, y, s)
      BY <1>0, <1>1, <1>2, TwoElsewhere
    <3>1. WillHold' = Executed(Executed(WillHold, v), w)
      BY <2>0, <2>1, DispatchTwo
    <3> QED BY <3>0, <3>1
  <2>2. CASE queue' = queue \o <<v>>
    <3>0. \A x, y \in Player : {x, y} # {p, q} =>
              \A s \in Status : Says(Executed(WillHold, v), x, y, s) <=> Says(WillHold, x, y, s)
      BY <1>0, <1>1, <1>2, OneElsewhere
    <3>1. WillHold' = Executed(WillHold, v)
      BY <2>0, <2>2, DispatchOne
    <3> QED BY <3>0, <3>1
  <2>3. CASE queue' = queue \o <<w>>
    <3>0. \A x, y \in Player : {x, y} # {p, q} =>
              \A s \in Status : Says(Executed(WillHold, w), x, y, s) <=> Says(WillHold, x, y, s)
      BY <1>0, <1>1, <1>2, OneElsewhere
    <3>1. WillHold' = Executed(WillHold, w)
      BY <2>0, <2>3, DispatchOne
    <3> QED BY <3>0, <3>1
  <2> QED BY <1>5, <2>1, <2>2, <2>3
<1>9. Elsewhere(p, q)
  BY <1>0, <1>3, <1>8 DEF Elsewhere, Knows, TypeInv
<1>10. ASSUME {p, q} \notin torn' PROVE Fits(p, q)' /\ Fits(q, p)' /\ Settled(p, q)'
  <2>0. {p, q} \notin torn
    BY <1>3, <1>10
  <2>1. q \in incoming[p] /\ p \in outgoing[q]
    BY <1>3, <2>0, PairIs
  <2>2. WillHold' = Executed(u, w)
    BY <1>0, <1>1, <1>3, <1>5, <2>1, DispatchTwo
  <2>3. u \in SUBSET Row
    BY <1>0, <1>1, ExecutedIs
  <2>4. /\ \A z \in Status : Says(u, p, q, z) <=> z = Accepted
        /\ p # q => \A z \in Status : Says(u, q, p, z) <=> Says(WillHold, q, p, z)
    <3>1. Says(WillHold, p, q, Received)
      BY <1>0, <1>3, <2>0, <2>1, PairIs DEF Knows
    <3>2. p # q => ~Concerns(v, q, p)
      BY <1>1
    <3> QED BY <1>0, <1>1, <3>1, <3>2, ExecutedIs
  <2>5. Says(WillHold, q, p, Sent)
    BY <1>0, <1>3, <2>0, <2>1, PairIs DEF Knows
  <2> HIDE DEF u
  <2>6. \E z \in Status : Says(u, q, p, z)
    BY <1>0, <2>4, <2>5
  <2>7. \A z \in Status : Says(WillHold', q, p, z) <=> z = Accepted
    <3>1. \A z \in Status : Says(Executed(u, w), q, p, z) <=> z = Accepted /\ \E y \in Status : Says(u, q, p, y)
      BY <1>0, <2>3, SetStateIs DEF w
    <3> QED BY <2>2, <2>6, <3>1
  <2>8. \A z \in Status : Says(WillHold', p, q, z) <=> z = Accepted
    <3>1. p # q => ~Concerns(w, p, q)
      BY <1>1
    <3>2. p # q => \A z \in Status : Says(Executed(u, w), p, q, z) <=> Says(u, p, q, z)
      BY <1>1, <2>3, <3>1, ExecutedIs
    <3> QED BY <2>2, <2>4, <2>7, <3>2
  <2>9. \A s \in Status : (Knows(p, q, s)' <=> s = Accepted) /\ (Knows(q, p, s)' <=> s = Accepted)
    <3>1. q \in friends'[p] /\ p \in friends'[q]
      BY <1>3, <2>1
    <3>2. q \notin outgoing'[p] /\ q \notin incoming'[p] /\ p \notin outgoing'[q] /\ p \notin incoming'[q]
      BY <1>0, <1>3, <2>0, <2>1, PairIs DEF TypeInv
    <3> QED BY <3>1, <3>2 DEF Knows
  <2> QED BY <1>0, <2>7, <2>8, <2>9 DEF Fits, Agreeing, Settled
<1> QED BY <1>7, <1>9, <1>10

\* The two rows of a pair are deleted.
LEMMA DeleteBoth ==
    ASSUME NEW t \in SUBSET Row, NEW p \in Player, NEW q \in Player
    PROVE  LET u == Executed(Executed(t, Delete(p, q)), Delete(q, p))
           IN \A s \in Status : ~Says(u, p, q, s) /\ ~Says(u, q, p, s)
<1> DEFINE v == Delete(p, q)
           w == Delete(q, p)
           u == Executed(t, v)
<1>1. /\ v \in Write /\ w \in Write /\ \A s \in Status : ~Says(u, p, q, s)
      /\ \A x, y \in Player : Concerns(w, x, y) => x = q /\ y = p
  BY DeleteIs
<1>2. u \in SUBSET Row
  BY <1>1, ExecutedIs
<1> HIDE DEF u
<1>3. \A s \in Status : ~Says(Executed(u, w), q, p, s)
  BY <1>2, DeleteIs
<1> HIDE DEF w
<1>4. p # q => \A s \in Status : Says(Executed(u, w), p, q, s) <=> Says(u, p, q, s)
  BY <1>1, <1>2, ExecutedIs
<1>5. \A s \in Status : ~Says(Executed(u, w), p, q, s)
  BY <1>1, <1>3, <1>4
<1> QED BY <1>3, <1>5 DEF u, v, w

\* The writes of TakeBack and Remove, in any order.
LEMMA DeletesElsewhere ==
    ASSUME TypeInv, UNCHANGED rows, NEW p \in Player, NEW q \in Player,
           \/ queue' = queue \o <<Delete(p, q)>>
           \/ queue' = queue \o <<Delete(p, q), Delete(q, p)>>
    PROVE  /\ queue' \in Seq(Write)
           /\ \A x, y \in Player : {x, y} # {p, q} =>
                 \A s \in Status : Says(WillHold', x, y, s) <=> Says(WillHold, x, y, s)
           /\ \A s \in Status : ~Says(WillHold', p, q, s)
           /\ queue' = queue \o <<Delete(p, q), Delete(q, p)>> => \A s \in Status : ~Says(WillHold', q, p, s)
           /\ p # q /\ queue' = queue \o <<Delete(p, q)>> =>
                 \A s \in Status : Says(WillHold', q, p, s) <=> Says(WillHold, q, p, s)
<1> DEFINE v == Delete(p, q)
           w == Delete(q, p)
<1>0. WillHold \in SUBSET Row
  BY WillHoldRows
<1>1. /\ v \in Write /\ w \in Write
      /\ \A x, y \in Player : Concerns(v, x, y) => x = p /\ y = q
      /\ \A x, y \in Player : Concerns(w, x, y) => x = q /\ y = p
  BY <1>0, DeleteIs
<1>2. /\ \A x, y \in Player : Concerns(v, x, y) => {x, y} = {p, q}
      /\ \A x, y \in Player : Concerns(w, x, y) => {x, y} = {p, q}
  BY <1>1
<1>3. \A s \in Status : ~Says(Executed(WillHold, v), p, q, s)
  BY <1>0, DeleteIs
<1>4. \A s \in Status : ~Says(Executed(Executed(WillHold, v), w), p, q, s)
                        /\ ~Says(Executed(Executed(WillHold, v), w), q, p, s)
  BY <1>0, DeleteBoth
<1> HIDE DEF v, w
<1>5. CASE queue' = queue \o <<v>>
  <2>1. queue' \in Seq(Write) /\ WillHold' = Executed(WillHold, v)
    BY <1>1, <1>5, DispatchOne
  <2>2. \A x, y \in Player : {x, y} # {p, q} =>
            \A s \in Status : Says(Executed(WillHold, v), x, y, s) <=> Says(WillHold, x, y, s)
    BY <1>0, <1>1, <1>2, OneElsewhere
  <2>3. p # q => \A s \in Status : Says(Executed(WillHold, v), q, p, s) <=> Says(WillHold, q, p, s)
    BY <1>0, <1>1, ExecutedIs
  <2>4. queue' # queue \o <<v, w>>
    <3>1. queue \in Seq(Write) /\ <<v>> \in Seq(Write) /\ <<v, w>> \in Seq(Write)
      BY <1>1 DEF TypeInv
    <3>2. Len(queue \o <<v>>) = Len(queue) + 1 /\ Len(queue \o <<v, w>>) = Len(queue) + 2 /\ Len(queue) \in Nat
      BY <3>1, ConcatProperties
    <3> QED BY <1>5, <3>2
  <2> QED BY <1>3, <2>1, <2>2, <2>3, <2>4 DEF v, w
<1>6. CASE queue' = queue \o <<v, w>>
  <2>1. queue' \in Seq(Write) /\ WillHold' = Executed(Executed(WillHold, v), w)
    BY <1>1, <1>6, DispatchTwo
  <2>2. \A x, y \in Player : {x, y} # {p, q} =>
            \A s \in Status : Says(Executed(Executed(WillHold, v), w), x, y, s) <=> Says(WillHold, x, y, s)
    BY <1>0, <1>1, <1>2, TwoElsewhere
  <2>4. queue' # queue \o <<v>>
    <3>1. queue \in Seq(Write) /\ <<v>> \in Seq(Write) /\ <<v, w>> \in Seq(Write)
      BY <1>1 DEF TypeInv
    <3>2. Len(queue \o <<v>>) = Len(queue) + 1 /\ Len(queue \o <<v, w>>) = Len(queue) + 2 /\ Len(queue) \in Nat
      BY <3>1, ConcatProperties
    <3> QED BY <1>6, <3>2
  <2> QED BY <1>4, <2>1, <2>2, <2>4 DEF v, w
<1> QED BY <1>5, <1>6 DEF v, w

LEMMA TakeBackStep ==
    ASSUME IInv, NEW p \in Player, NEW q \in Player, NEW order, TakeBack(p, q, order)
    PROVE  /\ TypeInv' /\ Elsewhere(p, q)
           /\ {p, q} \notin torn' => Fits(p, q)' /\ Fits(q, p)' /\ Settled(p, q)'
<1> DEFINE v == Delete(p, q)
           w == Delete(q, p)
           mine == IF q \in incoming[p] THEN <<v>> ELSE <<>>
           theirs == IF p \in outgoing[q] THEN <<w>> ELSE <<>>
<1>0. TypeInv /\ {q, p} = {p, q}
  BY DEF IInv
<1>1. v \in Write /\ w \in Write
  BY <1>0, WillHoldRows, DeleteIs
<1>2. /\ UNCHANGED <<loaded, rows, friends, torn>> /\ p \in loaded /\ q \in loaded
      /\ incoming' = [incoming EXCEPT ![p] = @ \ {q}]
      /\ outgoing' = [outgoing EXCEPT ![q] = @ \ {p}]
      /\ queue' = queue \o (IF order = "mine" THEN mine \o theirs ELSE theirs \o mine)
      /\ mine # <<>> \/ theirs # <<>>
  BY DEF TakeBack, Both, Dispatch
<1>3. /\ \/ q \in incoming[p] /\ p \notin outgoing[q] /\ queue' = queue \o <<v>>
         \/ q \notin incoming[p] /\ p \in outgoing[q] /\ queue' = queue \o <<w>>
         \/ q \in incoming[p] /\ p \in outgoing[q] /\ queue' = queue \o <<v, w>>
         \/ q \in incoming[p] /\ p \in outgoing[q] /\ queue' = queue \o <<w, v>>
  <2>1. /\ <<v>> \o <<w>> = <<v, w>> /\ <<v>> \o <<>> = <<v>> /\ <<>> \o <<w>> = <<w>>
        /\ <<w>> \o <<v>> = <<w, v>> /\ <<w>> \o <<>> = <<w>> /\ <<>> \o <<v>> = <<v>>
    <3> HIDE DEF v, w
    <3> QED BY <1>1, TwoWrites
  <2> HIDE DEF v, w
  <2> QED BY <1>2, <2>1
<1>4. /\ queue' \in Seq(Write)
      /\ \A x, y \in Player : {x, y} # {p, q} =>
            \A s \in Status : Says(WillHold', x, y, s) <=> Says(WillHold, x, y, s)
      /\ q \in incoming[p] /\ p \in outgoing[q] =>
            \A s \in Status : ~Says(WillHold', p, q, s) /\ ~Says(WillHold', q, p, s)
  BY <1>0, <1>2, <1>3, DeletesElsewhere
<1>5. TypeInv'
  BY <1>0, <1>2, <1>4 DEF TypeInv
<1>6. Elsewhere(p, q)
  BY <1>0, <1>2, <1>4 DEF Elsewhere, Knows, TypeInv
<1>7. ASSUME {p, q} \notin torn' PROVE Fits(p, q)' /\ Fits(q, p)' /\ Settled(p, q)'
  <2>1. {p, q} \notin torn /\ q \in incoming[p] /\ p \in outgoing[q]
    BY <1>2, <1>3, <1>7, PairIs
  <2>2. \A s \in Status : ~Says(WillHold', p, q, s) /\ ~Says(WillHold', q, p, s)
    BY <1>4, <2>1
  <2>3. \A s \in Status : ~Knows(p, q, s)' /\ ~Knows(q, p, s)'
    <3>1. /\ q \notin friends[p] /\ p \notin friends[q]
          /\ p # q => q \notin outgoing[p] /\ p \notin incoming[q]
      BY <1>0, <1>2, <2>1, PairIs
    <3> QED BY <1>0, <1>2, <3>1 DEF Knows, TypeInv
  <2>4. Accepted \in Status /\ Sent \in Status /\ Received \in Status
    BY DEF Status
  <2> QED BY <2>2, <2>3, <2>4 DEF Fits, Agreeing, Settled
<1> QED BY <1>5, <1>6, <1>7

LEMMA RemoveStep ==
    ASSUME IInv, NEW p \in Player, NEW q \in Player, Remove(p, q)
    PROVE  /\ TypeInv' /\ torn \subseteq torn' /\ Elsewhere(p, q)
           /\ {p, q} \notin torn' => Fits(p, q)' /\ Fits(q, p)' /\ Settled(p, q)'
<1> DEFINE v == Delete(p, q)
           w == Delete(q, p)
           theirs == p \in friends[q] /\ p # q
<1>0. TypeInv /\ {q, p} = {p, q}
  BY DEF IInv
<1>1. v \in Write /\ w \in Write
  BY <1>0, WillHoldRows, DeleteIs
<1>2. /\ UNCHANGED <<loaded, rows, outgoing, incoming>> /\ p \in loaded /\ q \in loaded
      /\ friends' = [x \in Player |-> CASE x = p -> friends[p] \ {q}
                                         [] x = q -> friends[q] \ {p}
                                         [] OTHER -> friends[x]]
      /\ torn' = torn \cup (IF Contains(p, q) /\ q \notin friends[p] THEN {{p, q}} ELSE {})
      /\ queue' = queue \o (<<v>> \o (IF theirs THEN <<w>> ELSE <<>>))
  BY DEF Remove, Both, Dispatch, Tears
<1>3. (theirs /\ queue' = queue \o <<v, w>>) \/ (~theirs /\ queue' = queue \o <<v>>)
  <2>1. <<v>> \o <<w>> = <<v, w>> /\ <<v>> \o <<>> = <<v>>
    <3> HIDE DEF v, w
    <3> QED BY <1>1, TwoWrites
  <2> HIDE DEF v, w
  <2> QED BY <1>2, <2>1
<1>4. /\ queue' \in Seq(Write)
      /\ \A x, y \in Player : {x, y} # {p, q} =>
            \A s \in Status : Says(WillHold', x, y, s) <=> Says(WillHold, x, y, s)
      /\ \A s \in Status : ~Says(WillHold', p, q, s)
      /\ theirs => \A s \in Status : ~Says(WillHold', q, p, s)
      /\ p # q /\ ~theirs => \A s \in Status : Says(WillHold', q, p, s) <=> Says(WillHold, q, p, s)
  BY <1>0, <1>2, <1>3, DeletesElsewhere
<1>5. /\ friends' \in [Player -> SUBSET Player]
      /\ \A x \in Player : x \notin {p, q} => friends'[x] = friends[x]
      /\ friends'[p] = friends[p] \ {q} /\ friends'[q] = friends[q] \ {p}
  BY <1>0, <1>2 DEF TypeInv
<1>6. TypeInv'
  <2>1. torn' \in SUBSET SUBSET Player
    BY <1>0, <1>2 DEF TypeInv
  <2> QED BY <1>0, <1>2, <1>4, <1>5, <2>1 DEF TypeInv
<1>7. Elsewhere(p, q)
  <2>1. ASSUME NEW x \in Player, NEW y \in Player, {x, y} # {p, q} PROVE y \in friends'[x] <=> y \in friends[x]
    BY <1>5, <2>1
  <2> QED BY <1>2, <1>4, <2>1 DEF Elsewhere, Knows
<1>8. ASSUME {p, q} \notin torn' PROVE Fits(p, q)' /\ Fits(q, p)' /\ Settled(p, q)'
  <2>0. /\ {p, q} \notin torn /\ (Contains(p, q) => q \in friends[p])
        /\ Accepted \in Status /\ Sent \in Status /\ Received \in Status
    BY <1>2, <1>8 DEF Status
  <2>1. /\ q \notin outgoing[p] /\ q \notin incoming[p] /\ p \notin outgoing[q] /\ p \notin incoming[q]
        /\ p \in friends[q] <=> q \in friends[p]
    BY <1>2, <2>0, PairIs DEF Contains
  <2>2. \A s \in Status : ~Says(WillHold', p, q, s) /\ ~Says(WillHold', q, p, s)
    <3>1. p # q /\ ~theirs => \A s \in Status : ~Says(WillHold, q, p, s)
      BY <1>2, <2>0, <2>1, PairIs DEF Knows
    <3> QED BY <1>4, <3>1
  <2>3. \A s \in Status : ~Knows(p, q, s)' /\ ~Knows(q, p, s)'
    BY <1>2, <1>5, <2>1 DEF Knows
  <2> QED BY <2>0, <2>2, <2>3 DEF Fits, Agreeing, Settled
<1> QED BY <1>2, <1>6, <1>7, <1>8

-----------------------------------------------------------------------------
(* Reading the table, and the restart                                      *)

\* What is not on the list of the queued pairs is not in the queue.
LEMMA QueuedIs ==
    ASSUME TypeInv, NEW p \in Player
    PROVE  /\ Queued(p) \in SUBSET SUBSET Player
           /\ \A q \in Player : {p, q} \notin Queued(p) =>
                 \A s \in Status : Says(rows, p, q, s) <=> Says(WillHold, p, q, s)
<1>0. queue \in Seq(Write) /\ rows \in SUBSET Row
  BY DEF TypeInv
<1>1. \A i \in 1..Len(queue) : queue[i].row.to \in Player
  <2>1. \A i \in 1..Len(queue) : queue[i] \in Write
    BY <1>0
  <2> QED BY <2>1 DEF Write, Row
<1>2. Queued(p) \in SUBSET SUBSET Player
  BY <1>1 DEF Queued
<1>3. ASSUME NEW q \in Player, {p, q} \notin Queued(p)
      PROVE  \A s \in Status : Says(rows, p, q, s) <=> Says(WillHold, p, q, s)
  <2>1. \A i \in 1..Len(queue) : ~Concerns(queue[i], p, q)
    BY <1>3 DEF Queued, Concerns
  <2> QED BY <1>0, <2>1, AfterUnconcerned, WillHoldIs
<1> QED BY <1>2, <1>3

\* Fewer requests keep to the slots.
LEMMA FewerStep ==
    ASSUME NEW u, NEW v, NEW p, Few(u, p),
           \A q \in Player : /\ Says(v, p, q, Sent) => Says(u, p, q, Sent)
                             /\ Says(v, p, q, Received) => Says(u, p, q, Received)
    PROVE  Few(v, p)
<1> DEFINE sent == {q \in Player : Says(u, p, q, Sent)}
           received == {q \in Player : Says(u, p, q, Received)}
           sent2 == {q \in Player : Says(v, p, q, Sent)}
           received2 == {q \in Player : Says(v, p, q, Received)}
<1>1. /\ IsFiniteSet(sent) /\ Cardinality(sent) <= OutgoingSlots
      /\ IsFiniteSet(received) /\ Cardinality(received) <= IncomingSlots
  BY DEF Few
<1>2. sent2 \in SUBSET sent /\ received2 \in SUBSET received
  OBVIOUS
<1> HIDE DEF sent, received, sent2, received2
<1>3. /\ IsFiniteSet(sent2) /\ Cardinality(sent2) <= Cardinality(sent)
      /\ Cardinality(sent) \in Nat /\ Cardinality(sent2) \in Nat
  BY <1>1, <1>2, FS_Subset, FS_CardinalityType
<1>4. /\ IsFiniteSet(received2) /\ Cardinality(received2) <= Cardinality(received)
      /\ Cardinality(received) \in Nat /\ Cardinality(received2) \in Nat
  BY <1>1, <1>2, FS_Subset, FS_CardinalityType
<1>5. Cardinality(sent2) <= OutgoingSlots /\ Cardinality(received2) <= IncomingSlots
  BY <1>1, <1>3, <1>4, SlotsAssumption
<1> QED BY <1>3, <1>4, <1>5 DEF Few, sent2, received2

LEMMA ReadIs ==
    ASSUME rows \in SUBSET Row, NEW p \in Player, NEW s \in Status
    PROVE  LET of == {r.to : r \in {x \in rows : x.from = p /\ x.status = s}}
           IN of \in SUBSET Player /\ \A q \in Player : q \in of <=> Says(rows, p, q, s)
BY DEF Row, Says, RowOf

LEMMA LoadStep ==
    ASSUME IInv, NEW p \in Player, Load(p)
    PROVE  TypeInv' /\ UnloadedInv' /\ TableInv' /\ MemoryInv' /\ SlotsInv'
<1> DEFINE of(s) == {r.to : r \in {x \in rows : x.from = p /\ x.status = s}}
<1>0. /\ TypeInv /\ Accepted \in Status /\ Sent \in Status /\ Received \in Status
      /\ Accepted # Sent /\ Accepted # Received /\ Sent # Received
  BY DEF IInv, Status, Accepted, Sent, Received
<1>1. /\ UNCHANGED <<rows, queue>> /\ loaded' = loaded \cup {p} /\ torn' = torn \cup Queued(p)
      /\ friends' = [friends EXCEPT ![p] = of(Accepted)]
      /\ outgoing' = [outgoing EXCEPT ![p] = of(Sent)]
      /\ incoming' = [incoming EXCEPT ![p] = of(Received)]
  BY DEF Load, Initialize, Tears
<1>2. \A s \in Status : of(s) \in SUBSET Player /\ \A q \in Player : q \in of(s) <=> Says(rows, p, q, s)
  BY <1>0, ReadIs DEF TypeInv
<1> HIDE DEF of
<1>3. TypeInv'
  BY <1>0, <1>1, <1>2, QueuedIs DEF TypeInv
<1>4. UnloadedInv'
  BY <1>0, <1>1 DEF IInv, UnloadedInv, TypeInv
<1>5. WillHold' = WillHold
  BY <1>1 DEF WillHold
<1>6. TableInv'
  BY <1>1, <1>5 DEF IInv, TableInv
<1>7. SlotsInv'
  BY <1>1, <1>5 DEF IInv, SlotsInv
<1>8. MemoryInv'
  <2>1. ASSUME NEW x \in loaded', NEW y \in Player, {x, y} \notin torn', NEW s \in Status
        PROVE  Says(WillHold, x, y, s) <=> Knows(x, y, s)'
    <3>1. CASE x = p
      <4>1. Knows(x, y, s)' <=> y \in of(s)
        BY <1>0, <1>1, <3>1 DEF Knows, TypeInv, Status
      <4>2. y \in of(s) <=> Says(rows, p, y, s)
        BY <1>2
      <4>3. Says(rows, p, y, s) <=> Says(WillHold, p, y, s)
        BY <1>0, <1>1, <2>1, <3>1, QueuedIs
      <4> QED BY <3>1, <4>1, <4>2, <4>3
    <3>2. CASE x # p
      <4>1. x \in loaded /\ {x, y} \notin torn /\ x \in Player
        BY <1>0, <1>1, <2>1, <3>2 DEF TypeInv
      <4>2. Knows(x, y, s)' <=> Knows(x, y, s)
        BY <1>0, <1>1, <3>2, <4>1 DEF Knows, TypeInv
      <4> QED BY <4>1, <4>2 DEF IInv, MemoryInv
    <3> QED BY <3>1, <3>2
  <2> QED BY <1>5, <2>1 DEF MemoryInv
<1> QED BY <1>3, <1>4, <1>6, <1>7, <1>8

LEMMA RestartStep ==
    ASSUME IInv, Restart
    PROVE  TypeInv' /\ UnloadedInv' /\ TableInv' /\ MemoryInv' /\ SlotsInv'
<1>0. /\ TypeInv /\ Accepted \in Status /\ Sent \in Status /\ Received \in Status
  BY DEF IInv, Status
<1>1. /\ UNCHANGED rows /\ loaded' = {} /\ queue' = <<>> /\ torn' = torn \cup UNION {Queued(p) : p \in Player}
      /\ friends' = [p \in Player |-> {}] /\ outgoing' = [p \in Player |-> {}]
      /\ incoming' = [p \in Player |-> {}]
  BY DEF Restart, Tears
<1>2. TypeInv'
  BY <1>0, <1>1, QueuedIs DEF TypeInv
<1>3. UnloadedInv' /\ MemoryInv'
  BY <1>1 DEF UnloadedInv, MemoryInv
<1>4. WillHold' = rows
  <2>1. WillHold' = After(rows', queue')
    BY DEF WillHold, After
  <2> QED BY <1>1, <2>1, AfterEmpty
<1>5. ASSUME NEW x \in Player, NEW y \in Player, {x, y} \notin torn', NEW s \in Status
      PROVE  {x, y} \notin torn /\ (Says(rows, x, y, s) <=> Says(WillHold, x, y, s))
  BY <1>0, <1>1, <1>5, QueuedIs
<1>6. TableInv'
  <2>1. ASSUME NEW x \in Player, NEW y \in Player, {x, y} \notin torn' PROVE Agreeing(rows, x, y)
    <3>1. {y, x} = {x, y}
      OBVIOUS
    <3>2. \A s \in Status : /\ Says(rows, x, y, s) <=> Says(WillHold, x, y, s)
                            /\ Says(rows, y, x, s) <=> Says(WillHold, y, x, s)
      BY <1>5, <2>1, <3>1
    <3>3. Agreeing(WillHold, x, y)
      BY <1>0, <1>5, <2>1 DEF IInv, TableInv
    <3> QED BY <1>0, <3>2, <3>3 DEF Agreeing
  <2> QED BY <1>4, <2>1 DEF TableInv
<1>7. SlotsInv'
  <2>1. ASSUME NEW x \in Player, x \notin UNION torn' PROVE Few(rows, x)
    <3>1. \A y \in Player : {x, y} \notin torn'
      BY <2>1
    <3>2. \A y \in Player : /\ Says(rows, x, y, Sent) => Says(WillHold, x, y, Sent)
                            /\ Says(rows, x, y, Received) => Says(WillHold, x, y, Received)
      BY <1>0, <1>5, <3>1
    <3>3. Few(WillHold, x)
      BY <1>1, <2>1 DEF IInv, SlotsInv
    <3> QED BY <3>2, <3>3, FewerStep
  <2> QED BY <1>4, <2>1 DEF SlotsInv
<1> QED BY <1>2, <1>3, <1>6, <1>7

-----------------------------------------------------------------------------
(* Slots                                                                   *)

\* A handler that settles requests leaves everybody fewer.
LEMMA SettledSlots ==
    ASSUME IInv, NEW p \in Player, NEW q \in Player, torn \subseteq torn', Elsewhere(p, q),
           {p, q} \notin torn' => Settled(p, q)'
    PROVE  SlotsInv'
<1> SUFFICES ASSUME NEW x \in Player, x \notin UNION torn' PROVE Few(WillHold', x)
  BY DEF SlotsInv
<1>1. Few(WillHold, x) /\ \A y \in Player : {x, y} \notin torn'
  BY DEF IInv, SlotsInv
<1>2. ASSUME NEW y \in Player, NEW s \in {Sent, Received}, Says(WillHold', x, y, s) PROVE Says(WillHold, x, y, s)
  <2>1. CASE {x, y} # {p, q}
    BY <1>2, <2>1 DEF Elsewhere, Status
  <2>2. CASE {x, y} = {p, q}
    <3>1. (x = p /\ y = q) \/ (x = q /\ y = p)
      BY <2>2
    <3> QED BY <1>1, <1>2, <2>2, <3>1 DEF Settled
  <2> QED BY <2>1, <2>2
<1> QED BY <1>1, <1>2, FewerStep

LEMMA OneMore ==
    ASSUME NEW A, NEW B, NEW x, NEW n \in Nat, B \subseteq A \cup {x}, IsFiniteSet(A), Cardinality(A) < n
    PROVE  IsFiniteSet(B) /\ Cardinality(B) <= n
<1>1. /\ IsFiniteSet(A \cup {x}) /\ Cardinality(A) \in Nat /\ Cardinality(A \cup {x}) <= Cardinality(A) + 1
      /\ Cardinality(A \cup {x}) \in Nat
  BY FS_AddElement, FS_CardinalityType
<1> DEFINE C == A \cup {x}
<1>2. IsFiniteSet(B) /\ Cardinality(B) <= Cardinality(C) /\ Cardinality(B) \in Nat
  <2>1. IsFiniteSet(C) /\ B \in SUBSET C
    BY <1>1
  <2> HIDE DEF C
  <2> QED BY <2>1, FS_Subset, FS_CardinalityType
<1> QED BY <1>1, <1>2

\* A request takes a slot that is left.
LEMMA RequestSlots ==
    ASSUME IInv, NEW p \in Player, NEW q \in Player, SendRequest(p, q)
    PROVE  SlotsInv'
<1>0. /\ torn' = torn /\ p \in loaded /\ q \in loaded /\ TypeInv
      /\ Cardinality(outgoing[p]) < OutgoingSlots /\ Cardinality(incoming[q]) < IncomingSlots
      /\ Accepted \in Status /\ Sent \in Status /\ Received \in Status
      /\ Accepted # Sent /\ Accepted # Received /\ Sent # Received
  BY DEF SendRequest, Both, HasOutgoingSlotsLeft, HasIncomingSlotsLeft, IInv, Status, Accepted, Sent, Received
<1> SUFFICES ASSUME NEW x \in Player, x \notin UNION torn PROVE Few(WillHold', x)
  BY <1>0 DEF SlotsInv
<1> DEFINE sent == {y \in Player : Says(WillHold, x, y, Sent)}
           received == {y \in Player : Says(WillHold, x, y, Received)}
           sent2 == {y \in Player : Says(WillHold', x, y, Sent)}
           received2 == {y \in Player : Says(WillHold', x, y, Received)}
<1>1. \A y \in Player : {x, y} \notin torn
  OBVIOUS
<1>2. /\ IsFiniteSet(sent) /\ Cardinality(sent) <= OutgoingSlots
      /\ IsFiniteSet(received) /\ Cardinality(received) <= IncomingSlots
  BY DEF IInv, SlotsInv, Few
<1>3. x \in loaded => sent = outgoing[x] /\ received = incoming[x]
  BY <1>0, <1>1 DEF IInv, MemoryInv, TypeInv, Knows
<1>4. ASSUME NEW y \in Player
      PROVE  /\ Says(WillHold', x, y, Sent) => Says(WillHold, x, y, Sent) \/ (x = p /\ y = q)
             /\ Says(WillHold', x, y, Received) => Says(WillHold, x, y, Received) \/ (x = q /\ y = p)
  <2>1. CASE {x, y} # {p, q}
    <3>1. Elsewhere(p, q)
      BY SendRequestStep
    <3>2. \A s \in Status : Says(WillHold', x, y, s) <=> Says(WillHold, x, y, s)
      BY <2>1, <3>1 DEF Elsewhere
    <3> QED BY <1>0, <3>2
  <2>2. CASE {x, y} = {p, q}
    <3>1. ((x = p /\ y = q) \/ (x = q /\ y = p)) /\ {p, q} \notin torn'
      BY <1>0, <1>1, <2>2
    <3>2. \A s \in Status : /\ Says(WillHold', p, q, s) <=> s = Sent \/ (p = q /\ s = Received)
                            /\ Says(WillHold', q, p, s) <=> s = Received \/ (p = q /\ s = Sent)
      BY <3>1, SendRequestStep
    <3> QED BY <1>0, <3>1, <3>2
  <2> QED BY <2>1, <2>2
<1>5. /\ x = p => sent2 \subseteq sent \cup {q} /\ Cardinality(sent) < OutgoingSlots
      /\ x # p => sent2 \in SUBSET sent
      /\ x = q => received2 \subseteq received \cup {p} /\ Cardinality(received) < IncomingSlots
      /\ x # q => received2 \in SUBSET received
  BY <1>0, <1>3, <1>4
<1> HIDE DEF sent, received, sent2, received2
<1>6. IsFiniteSet(sent2) /\ Cardinality(sent2) <= OutgoingSlots
  <2>1. CASE x = p
    BY <1>2, <1>5, <2>1, OneMore, SlotsAssumption
  <2>2. CASE x # p
    <3>1. /\ IsFiniteSet(sent2) /\ Cardinality(sent2) <= Cardinality(sent)
          /\ Cardinality(sent) \in Nat /\ Cardinality(sent2) \in Nat
      BY <1>2, <1>5, <2>2, FS_Subset, FS_CardinalityType
    <3> QED BY <1>2, <3>1, SlotsAssumption
  <2> QED BY <2>1, <2>2
<1>7. IsFiniteSet(received2) /\ Cardinality(received2) <= IncomingSlots
  <2>1. CASE x = q
    BY <1>2, <1>5, <2>1, OneMore, SlotsAssumption
  <2>2. CASE x # q
    <3>1. /\ IsFiniteSet(received2) /\ Cardinality(received2) <= Cardinality(received)
          /\ Cardinality(received) \in Nat /\ Cardinality(received2) \in Nat
      BY <1>2, <1>5, <2>2, FS_Subset, FS_CardinalityType
    <3> QED BY <1>2, <3>1, SlotsAssumption
  <2> QED BY <2>1, <2>2
<1> QED BY <1>6, <1>7 DEF Few, sent2, received2

-----------------------------------------------------------------------------
(* The theorems                                                            *)

LEMMA InitInv == Init => IInv
<1> SUFFICES ASSUME Init PROVE IInv
  OBVIOUS
<1>1. TypeInv /\ UnloadedInv /\ MemoryInv
  BY DEF Init, TypeInv, UnloadedInv, MemoryInv
<1>2. WillHold = {}
  <2>1. rows = {} /\ queue = <<>>
    BY DEF Init
  <2> QED BY <2>1, WillHoldIs, AfterEmpty
<1>3. \A x, y, s : ~Says(WillHold, x, y, s)
  BY <1>2 DEF Says
<1>4. TableInv
  BY <1>3 DEF TableInv, Agreeing
<1>5. SlotsInv
  <2>1. ASSUME NEW p \in Player PROVE Few(WillHold, p)
    <3>1. {q \in Player : Says(WillHold, p, q, Sent)} = {} /\ {q \in Player : Says(WillHold, p, q, Received)} = {}
      BY <1>3
    <3>2. IsFiniteSet({}) /\ Cardinality({}) = 0
      BY FS_EmptySet
    <3> QED BY <3>1, <3>2, SlotsAssumption DEF Few
  <2> QED BY <2>1 DEF SlotsInv
<1> QED BY <1>1, <1>4, <1>5 DEF IInv

\* What does not touch memory, and not what the table will be.
LEMMA SameInv ==
    ASSUME IInv, TypeInv', UNCHANGED <<loaded, memory, torn>>, WillHold' = WillHold
    PROVE  IInv'
<1>1. \A x, y, s : Knows(x, y, s)' <=> Knows(x, y, s)
  BY DEF Knows, memory
<1>2. MemoryInv'
  BY <1>1 DEF IInv, MemoryInv
<1>3. UnloadedInv' /\ TableInv' /\ SlotsInv'
  BY DEF IInv, UnloadedInv, TableInv, SlotsInv, memory
<1> QED BY <1>2, <1>3 DEF IInv

LEMMA NextInv == IInv /\ Next => IInv'
<1> SUFFICES ASSUME IInv, Next PROVE IInv'
  OBVIOUS
<1>0. TypeInv
  BY DEF IInv
<1>1. CASE Execute
  <2>1. Head(queue) \in Write /\ Tail(queue) \in Seq(Write) /\ rows \in SUBSET Row
    BY <1>0, <1>1 DEF Execute, TypeInv
  <2>2. rows' \in SUBSET Row /\ queue' \in Seq(Write)
    BY <1>1, <2>1, ExecutedIs DEF Execute
  <2>3. TypeInv'
    BY <1>0, <1>1, <2>2 DEF Execute, TypeInv, memory
  <2> QED BY <1>0, <1>1, <2>3, ExecuteStep, SameInv DEF Execute
<1>2. CASE Restart
  BY <1>2, RestartStep DEF IInv
<1>3. ASSUME NEW p \in Player, Load(p) PROVE IInv'
  BY <1>3, LoadStep DEF IInv
<1>4. ASSUME NEW p \in Player, NEW q \in Player, SendRequest(p, q) PROVE IInv'
  <2>1. loaded' = loaded /\ torn \subseteq torn' /\ p \in loaded /\ q \in loaded
    BY <1>4 DEF SendRequest, Both
  <2>2. TypeInv' /\ TableInv' /\ MemoryInv'
    BY <1>4, <2>1, SendRequestStep, PairStep
  <2>3. UnloadedInv'
    BY <1>0, <1>4, <2>1 DEF SendRequest, IInv, UnloadedInv, TypeInv
  <2> QED BY <1>4, <2>2, <2>3, RequestSlots DEF IInv
<1>5. ASSUME NEW p \in Player, NEW q \in Player, Accept(p, q) PROVE IInv'
  <2>1. loaded' = loaded /\ torn \subseteq torn' /\ p \in loaded /\ q \in loaded
    BY <1>5 DEF Accept, Both
  <2>2. TypeInv' /\ TableInv' /\ MemoryInv' /\ SlotsInv'
    BY <1>5, <2>1, AcceptStep, PairStep, SettledSlots
  <2>3. UnloadedInv'
    <3>1. \A x \in Player \ {p, q} : friends'[x] = friends[x] /\ outgoing'[x] = outgoing[x] /\ incoming'[x] = incoming[x]
      BY <1>0, <1>5 DEF Accept, TypeInv
    <3> QED BY <2>1, <3>1 DEF IInv, UnloadedInv
  <2> QED BY <2>2, <2>3 DEF IInv
<1>6. ASSUME NEW p \in Player, NEW q \in Player, NEW order, TakeBack(p, q, order) PROVE IInv'
  <2>1. loaded' = loaded /\ torn \subseteq torn' /\ p \in loaded /\ q \in loaded
    BY <1>6 DEF TakeBack, Both
  <2>2. TypeInv' /\ TableInv' /\ MemoryInv' /\ SlotsInv'
    BY <1>6, <2>1, TakeBackStep, PairStep, SettledSlots
  <2>3. UnloadedInv'
    <3>1. \A x \in Player \ {p, q} : friends'[x] = friends[x] /\ outgoing'[x] = outgoing[x] /\ incoming'[x] = incoming[x]
      BY <1>0, <1>6 DEF TakeBack, TypeInv
    <3> QED BY <2>1, <3>1 DEF IInv, UnloadedInv
  <2> QED BY <2>2, <2>3 DEF IInv
<1>7. ASSUME NEW p \in Player, NEW q \in Player, Remove(p, q) PROVE IInv'
  <2>1. loaded' = loaded /\ p \in loaded /\ q \in loaded
    BY <1>7 DEF Remove, Both
  <2>2. TypeInv' /\ TableInv' /\ MemoryInv' /\ SlotsInv'
    BY <1>7, <2>1, RemoveStep, PairStep, SettledSlots
  <2>3. UnloadedInv'
    <3>1. \A x \in Player \ {p, q} : friends'[x] = friends[x] /\ outgoing'[x] = outgoing[x] /\ incoming'[x] = incoming[x]
      BY <1>0, <1>7 DEF Remove, TypeInv
    <3> QED BY <2>1, <3>1 DEF IInv, UnloadedInv
  <2> QED BY <2>2, <2>3 DEF IInv
<1> QED BY <1>1, <1>2, <1>3, <1>4, <1>5, <1>6, <1>7 DEF Next, Deny, Cancel

LEMMA Invariant == Spec => []IInv
<1>1. IInv /\ UNCHANGED vars => IInv'
  <2> SUFFICES ASSUME IInv, UNCHANGED vars PROVE IInv'
    OBVIOUS
  <2>1. UNCHANGED <<loaded, memory, torn, rows, queue, friends, outgoing, incoming>>
    BY DEF vars, memory
  <2>2. TypeInv' /\ WillHold' = WillHold
    BY <2>1 DEF IInv, TypeInv, WillHold
  <2> QED BY <2>1, <2>2, SameInv
<1> QED BY <1>1, InitInv, NextInv, PTL DEF Spec

\* The two sides of a relation agree in memory, unless a race or a removal of a
\* mere request tore them (the handlers of the lobby, FriendManager).
THEOREM MutualCorrect == Spec => []Mutual
<1>1. IInv => Mutual
  <2> SUFFICES ASSUME IInv, NEW p \in loaded, NEW q \in loaded, {p, q} \notin torn
               PROVE  (q \in friends[p] <=> p \in friends[q]) /\ (q \in outgoing[p] <=> p \in incoming[q])
    BY DEF Mutual
  <2> QED BY PairIs
<1> QED BY <1>1, Invariant, PTL

\* Nobody who is not in a torn pair has more requests than slots, also not after
\* he was read again (hasOutgoingSlotsLeft, hasIncomingSlotsLeft).
THEOREM SlotsCorrect == Spec => []WithinSlots
<1>1. IInv => WithinSlots
  <2> SUFFICES ASSUME IInv, NEW p \in Player, p \notin UNION torn
               PROVE  Cardinality(outgoing[p]) <= OutgoingSlots /\ Cardinality(incoming[p]) <= IncomingSlots
    BY DEF WithinSlots
  <2>1. CASE p \notin loaded
    <3>1. outgoing[p] = {} /\ incoming[p] = {}
      BY <2>1 DEF IInv, UnloadedInv
    <3>2. Cardinality({}) = 0
      BY FS_EmptySet
    <3> QED BY <3>1, <3>2, SlotsAssumption
  <2>2. CASE p \in loaded
    <3>1. \A q \in Player : {p, q} \notin torn
      OBVIOUS
    <3>2. Sent \in Status /\ Received \in Status /\ Accepted # Sent /\ Accepted # Received /\ Sent # Received
      BY DEF Status, Accepted, Sent, Received
    <3>3. \A q \in Player : /\ Says(WillHold, p, q, Sent) <=> q \in outgoing[p]
                            /\ Says(WillHold, p, q, Received) <=> q \in incoming[p]
      BY <2>2, <3>1, <3>2 DEF IInv, MemoryInv, Knows
    <3>4. /\ outgoing[p] = {q \in Player : Says(WillHold, p, q, Sent)}
          /\ incoming[p] = {q \in Player : Says(WillHold, p, q, Received)}
      BY <3>3 DEF IInv, TypeInv
    <3> QED BY <3>4 DEF IInv, SlotsInv, Few
  <2> QED BY <2>1, <2>2
<1> QED BY <1>1, Invariant, PTL

\* What is in memory of a player is what the table will say of him once the queue
\* is worked off (FriendManager, DatabaseDispatcher).
THEOREM RowsFollowCorrect == Spec => []RowsFollow
<1>1. IInv => RowsFollow
  <2> SUFFICES ASSUME IInv, NEW p \in loaded, NEW q \in Player, {p, q} \notin torn
               PROVE  {r.status : r \in About(WillHold, RowOf(p, q, Accepted))} =
                          (IF q \in friends[p] THEN {Accepted} ELSE {})
                          \cup (IF q \in outgoing[p] THEN {Sent} ELSE {})
                          \cup (IF q \in incoming[p] THEN {Received} ELSE {})
    BY DEF RowsFollow
  <2>1. WillHold \in SUBSET Row
    BY WillHoldRows DEF IInv
  <2>2. {r.status : r \in About(WillHold, RowOf(p, q, Accepted))} = {s \in Status : Says(WillHold, p, q, s)}
    BY <2>1 DEF About, Same, RowOf, Row, Says
  <2>3. \A s \in Status : Says(WillHold, p, q, s) <=> Knows(p, q, s)
    BY DEF IInv, MemoryInv
  <2>4. {s \in Status : Knows(p, q, s)} =
            (IF q \in friends[p] THEN {Accepted} ELSE {})
            \cup (IF q \in outgoing[p] THEN {Sent} ELSE {})
            \cup (IF q \in incoming[p] THEN {Received} ELSE {})
    BY DEF Knows, Status
  <2> QED BY <2>2, <2>3, <2>4
<1> QED BY <1>1, Invariant, PTL

\* The rows of the two sides will agree once the queue is worked off, whoever is
\* in memory, and whatever is lost by a restart (Restart, DatabaseDispatcher).
THEOREM RowsMutualCorrect == Spec => []RowsMutual
<1>1. IInv => RowsMutual
  <2> SUFFICES ASSUME IInv, NEW r \in WillHold, {r.from, r.to} \notin torn
               PROVE  RowOf(r.to, r.from, CASE r.status = Accepted -> Accepted
                                            [] r.status = Sent -> Received
                                            [] r.status = Received -> Sent) \in WillHold
    BY DEF RowsMutual
  <2>0. r \in Row /\ Accepted # Sent /\ Accepted # Received /\ Sent # Received
    BY WillHoldRows DEF IInv, Accepted, Sent, Received
  <2>1. r.from \in Player /\ r.to \in Player /\ r.status \in Status /\ r = RowOf(r.from, r.to, r.status)
    BY <2>0 DEF Row, RowOf
  <2>2. {r.to, r.from} = {r.from, r.to}
    OBVIOUS
  <2>3. Agreeing(WillHold, r.from, r.to) /\ Agreeing(WillHold, r.to, r.from)
    BY <2>1, <2>2 DEF IInv, TableInv
  <2>4. CASE r.status = Accepted
    BY <2>0, <2>1, <2>3, <2>4 DEF Agreeing, Says
  <2>5. CASE r.status = Sent
    BY <2>0, <2>1, <2>3, <2>5 DEF Agreeing, Says
  <2>6. CASE r.status = Received
    BY <2>0, <2>1, <2>3, <2>6 DEF Agreeing, Says
  <2> QED BY <2>1, <2>4, <2>5, <2>6 DEF Status
<1> QED BY <1>1, Invariant, PTL
-----------------------------------------------------------------------------
(* Friends implements Friendship                                           *)

\* Who asked whom and who are friends, by a table, but for some pairs.
AskedIn(t, except) ==
    LET open == {r \in t : r.status # Accepted /\ {r.from, r.to} \notin except}
    IN {IF r.status = Sent THEN <<r.from, r.to>> ELSE <<r.to, r.from>> : r \in open}
BefriendedIn(t, except) == {{r.from, r.to} : r \in {x \in t : x.status = Accepted}} \ except

LEMMA MappingIs ==
    /\ Asked = AskedIn(WillHold, torn) /\ Befriended = BefriendedIn(WillHold, torn)
    /\ Asked' = AskedIn(WillHold', torn') /\ Befriended' = BefriendedIn(WillHold', torn')
BY DEF Asked, Befriended, AskedIn, BefriendedIn

\* When two sets of pairs are the same.
LEMMA SameSets ==
    ASSUME NEW A, NEW B, \A x : x \in A <=> x \in B
    PROVE  A = B
  OBVIOUS

LEMMA AskedInIs ==
    ASSUME NEW t \in SUBSET Row, NEW except
    PROVE  /\ AskedIn(t, except) \subseteq Player \X Player
           /\ \A x, y \in Player : <<x, y>> \in AskedIn(t, except) <=>
                  {x, y} \notin except /\ (Says(t, x, y, Sent) \/ Says(t, y, x, Received))
<1> DEFINE open == {r \in t : r.status # Accepted /\ {r.from, r.to} \notin except}
           Who(r) == IF r.status = Sent THEN <<r.from, r.to>> ELSE <<r.to, r.from>>
<1>0. /\ Accepted # Sent /\ Accepted # Received /\ Sent # Received
      /\ Status = {Accepted, Sent, Received}
  BY DEF Status, Accepted, Sent, Received
<1>1. AskedIn(t, except) = {Who(r) : r \in open}
  BY DEF AskedIn
<1>2. \A r \in open : /\ r \in t /\ r.from \in Player /\ r.to \in Player
                      /\ r = RowOf(r.from, r.to, r.status) /\ r.status \in {Sent, Received}
                      /\ {r.from, r.to} \notin except
  BY <1>0 DEF Row, RowOf
<1>3. \A r \in open : Who(r) \in Player \X Player
  BY <1>2
<1>4. ASSUME NEW x \in Player, NEW y \in Player, NEW r \in open, <<x, y>> = Who(r)
      PROVE  {x, y} \notin except /\ (Says(t, x, y, Sent) \/ Says(t, y, x, Received))
  <2>1. CASE r.status = Sent
    BY <1>2, <1>4, <2>1 DEF Says
  <2>2. CASE r.status # Sent
    <3>1. r.status = Received /\ x = r.to /\ y = r.from /\ {x, y} = {r.from, r.to}
      BY <1>2, <1>4, <2>2
    <3> QED BY <1>2, <3>1 DEF Says
  <2> QED BY <2>1, <2>2
<1>5. ASSUME NEW x \in Player, NEW y \in Player, {x, y} \notin except, Says(t, x, y, Sent)
      PROVE  \E r \in open : <<x, y>> = Who(r)
  <2>1. /\ RowOf(x, y, Sent) \in t /\ RowOf(x, y, Sent).status = Sent
        /\ RowOf(x, y, Sent).from = x /\ RowOf(x, y, Sent).to = y
    BY <1>5 DEF Says, RowOf
  <2> QED BY <1>0, <1>5, <2>1
<1>6. ASSUME NEW x \in Player, NEW y \in Player, {x, y} \notin except, Says(t, y, x, Received)
      PROVE  \E r \in open : <<x, y>> = Who(r)
  <2>1. /\ RowOf(y, x, Received) \in t /\ RowOf(y, x, Received).status = Received
        /\ RowOf(y, x, Received).from = y /\ RowOf(y, x, Received).to = x /\ {y, x} = {x, y}
    BY <1>6 DEF Says, RowOf
  <2> QED BY <1>0, <1>6, <2>1
<1> HIDE DEF open, Who
<1> QED BY <1>1, <1>3, <1>4, <1>5, <1>6

LEMMA BefriendedInIs ==
    ASSUME NEW t \in SUBSET Row, NEW except
    PROVE  /\ \A s \in BefriendedIn(t, except) : \E x, y \in Player : s = {x, y}
           /\ \A x, y \in Player : {x, y} \in BefriendedIn(t, except) <=>
                  {x, y} \notin except /\ (Says(t, x, y, Accepted) \/ Says(t, y, x, Accepted))
<1> DEFINE friendly == {r \in t : r.status = Accepted}
<1>1. BefriendedIn(t, except) = {{r.from, r.to} : r \in friendly} \ except
  BY DEF BefriendedIn
<1>2. \A r \in friendly : /\ r \in t /\ r.from \in Player /\ r.to \in Player
                          /\ r = RowOf(r.from, r.to, Accepted)
  BY DEF Row, RowOf
<1>3. ASSUME NEW x \in Player, NEW y \in Player, NEW r \in friendly, {x, y} = {r.from, r.to}
      PROVE  Says(t, x, y, Accepted) \/ Says(t, y, x, Accepted)
  <2>1. (x = r.from /\ y = r.to) \/ (x = r.to /\ y = r.from)
    BY <1>3
  <2> QED BY <1>2, <2>1 DEF Says
<1>4. ASSUME NEW x \in Player, NEW y \in Player, Says(t, x, y, Accepted)
      PROVE  \E r \in friendly : {x, y} = {r.from, r.to}
  <2>1. /\ RowOf(x, y, Accepted) \in t /\ RowOf(x, y, Accepted).status = Accepted
        /\ RowOf(x, y, Accepted).from = x /\ RowOf(x, y, Accepted).to = y
    BY <1>4 DEF Says, RowOf
  <2> QED BY <2>1
<1> HIDE DEF friendly
<1>5. \A x, y \in Player : {x, y} = {y, x}
  OBVIOUS
<1>6. \A s : s \in BefriendedIn(t, except) <=> s \notin except /\ \E r \in friendly : s = {r.from, r.to}
  BY <1>1
<1>7. \A s \in BefriendedIn(t, except) : \E x, y \in Player : s = {x, y}
  BY <1>2, <1>6
<1>8. ASSUME NEW x \in Player, NEW y \in Player
      PROVE  (\E r \in friendly : {x, y} = {r.from, r.to}) <=> Says(t, x, y, Accepted) \/ Says(t, y, x, Accepted)
  <2>1. Says(t, y, x, Accepted) => \E r \in friendly : {y, x} = {r.from, r.to}
    BY <1>4
  <2>2. {y, x} = {x, y}
    BY <1>5
  <2>3. Says(t, y, x, Accepted) => \E r \in friendly : {x, y} = {r.from, r.to}
    BY <2>1, <2>2
  <2> QED BY <1>3, <1>4, <2>3, Zenon
<1>9. ASSUME NEW x \in Player, NEW y \in Player
      PROVE  {x, y} \in BefriendedIn(t, except) <=>
                 {x, y} \notin except /\ (Says(t, x, y, Accepted) \/ Says(t, y, x, Accepted))
  <2>1. {x, y} \in BefriendedIn(t, except) <=>
            {x, y} \notin except /\ \E r \in friendly : {x, y} = {r.from, r.to}
    BY <1>6
  <2> QED BY <1>8, <2>1, Zenon
<1> QED BY <1>7, <1>9, Zenon

\* Of a pair that agrees, each row says it.
LEMMA AgreeingIs ==
    ASSUME NEW t \in SUBSET Row, NEW except, NEW p \in Player, NEW q \in Player, {p, q} \notin except,
           Agreeing(t, p, q), Agreeing(t, q, p)
    PROVE  /\ <<p, q>> \in AskedIn(t, except) <=> Says(t, p, q, Sent)
           /\ <<q, p>> \in AskedIn(t, except) <=> Says(t, p, q, Received)
           /\ {p, q} \in BefriendedIn(t, except) <=> Says(t, p, q, Accepted)
<1>1. {q, p} = {p, q}
  OBVIOUS
<1> QED BY <1>1, AskedInIs, BefriendedInIs DEF Agreeing

\* Sets of pairs that are the same but for two pairs.
LEMMA PairLeaves ==
    ASSUME NEW S, NEW T, NEW X, NEW a, NEW b, S \subseteq X, T \subseteq X,
           \A e \in X : e \notin {a, b} => (e \in T <=> e \in S), a \notin T, a # b => b \notin S /\ b \notin T
    PROVE  T = S \ {a}
<1>1. ASSUME NEW e, e \in T PROVE e \in S \ {a}
  BY <1>1
<1>2. ASSUME NEW e, e \in S \ {a} PROVE e \in T
  BY <1>2
<1> QED BY <1>1, <1>2

LEMMA PairEnters ==
    ASSUME NEW S, NEW T, NEW X, NEW a, NEW b, S \subseteq X, T \subseteq X,
           \A e \in X : e \notin {a, b} => (e \in T <=> e \in S), a \in T, a # b => b \notin S /\ b \notin T
    PROVE  T = S \cup {a}
<1>1. ASSUME NEW e, e \in T PROVE e \in S \cup {a}
  BY <1>1
<1>2. ASSUME NEW e, e \in S \cup {a} PROVE e \in T
  BY <1>2
<1> QED BY <1>1, <1>2

\* A step about one pair.
LEMMA OnePair ==
    ASSUME TypeInv, TypeInv', NEW p \in Player, NEW q \in Player, Elsewhere(p, q), torn' = torn
    PROVE  /\ \A a \in Player \X Player : a \notin {<<p, q>>, <<q, p>>} => (a \in Asked' <=> a \in Asked)
           /\ Asked \subseteq Player \X Player /\ Asked' \subseteq Player \X Player
           /\ \A s : s # {p, q} => (s \in Befriended' <=> s \in Befriended)
           /\ /\ <<p, q>> \in Asked' <=> <<p, q>> \in Asked
              /\ <<q, p>> \in Asked' <=> <<q, p>> \in Asked
              => Asked' = Asked
           /\ ({p, q} \in Befriended' <=> {p, q} \in Befriended) => Befriended' = Befriended
<1>0. WillHold \in SUBSET Row /\ WillHold' \in SUBSET Row
  <2>1. TypeInv' => WillHold' \in SUBSET Row
    BY AfterUnconcerned DEF TypeInv, WillHold, After
  <2> QED BY <2>1, WillHoldRows
<1>1. Accepted \in Status /\ Sent \in Status /\ Received \in Status
  BY DEF Status
<1>2. ASSUME NEW x \in Player, NEW y \in Player, {x, y} # {p, q}
      PROVE  /\ <<x, y>> \in Asked' <=> <<x, y>> \in Asked
             /\ {x, y} \in Befriended' <=> {x, y} \in Befriended
  <2>1. {y, x} = {x, y}
    OBVIOUS
  <2>2. \A s \in Status : /\ Says(WillHold', x, y, s) <=> Says(WillHold, x, y, s)
                          /\ Says(WillHold', y, x, s) <=> Says(WillHold, y, x, s)
    BY <1>2, <2>1 DEF Elsewhere
  <2>3. <<x, y>> \in Asked' <=> <<x, y>> \in Asked
    BY <1>0, <1>1, <2>2, AskedInIs, MappingIs
  <2>4. {x, y} \in Befriended' <=> {x, y} \in Befriended
    BY <1>0, <1>1, <2>2, BefriendedInIs, MappingIs
  <2> QED BY <2>3, <2>4
<1>3. ASSUME NEW x \in Player, NEW y \in Player, <<x, y>> \notin {<<p, q>>, <<q, p>>}
      PROVE  <<x, y>> \in Asked' <=> <<x, y>> \in Asked
  <2>1. {x, y} # {p, q}
    BY <1>3
  <2> QED BY <1>2, <2>1
<1>4. Asked \subseteq Player \X Player /\ Asked' \subseteq Player \X Player
  BY <1>0, AskedInIs, MappingIs
<1>5. ASSUME NEW s, s # {p, q} PROVE s \in Befriended' <=> s \in Befriended
  <2>1. ASSUME NEW x \in Player, NEW y \in Player, s = {x, y} PROVE s \in Befriended' <=> s \in Befriended
    <3>1. {x, y} \in Befriended' <=> {x, y} \in Befriended
      BY <1>2, <1>5, <2>1
    <3> QED BY <2>1, <3>1
  <2>2. CASE ~\E x, y \in Player : s = {x, y}
    <3>1. /\ \A u \in BefriendedIn(WillHold, torn) : \E x, y \in Player : u = {x, y}
          /\ \A u \in BefriendedIn(WillHold', torn') : \E x, y \in Player : u = {x, y}
      BY <1>0, BefriendedInIs
    <3>2. s \notin Befriended /\ s \notin Befriended'
      BY <2>2, <3>1, MappingIs
    <3> QED BY <3>2
  <2> QED BY <2>1, <2>2
<1>6. \A a \in Player \X Player : a \notin {<<p, q>>, <<q, p>>} => (a \in Asked' <=> a \in Asked)
  <2>1. \A a \in Player \X Player : \E x, y \in Player : a = <<x, y>>
    OBVIOUS
  <2> QED BY <1>3, <2>1
<1>7. ASSUME <<p, q>> \in Asked' <=> <<p, q>> \in Asked, <<q, p>> \in Asked' <=> <<q, p>> \in Asked
      PROVE  Asked' = Asked
  <2>1. ASSUME NEW a PROVE a \in Asked' <=> a \in Asked
    <3>1. CASE a \in {<<p, q>>, <<q, p>>}
      BY <1>7, <3>1
    <3>2. CASE a \notin {<<p, q>>, <<q, p>>}
      BY <1>4, <1>6, <3>2
    <3> QED BY <3>1, <3>2
  <2> QED BY <2>1, SameSets
<1>8. ASSUME {p, q} \in Befriended' <=> {p, q} \in Befriended PROVE Befriended' = Befriended
  <2>1. ASSUME NEW s PROVE s \in Befriended' <=> s \in Befriended
    <3>1. CASE s = {p, q}
      BY <1>8, <3>1
    <3>2. CASE s # {p, q}
      BY <1>5, <3>2
    <3> QED BY <3>1, <3>2
  <2> QED BY <2>1, SameSets
<1> QED BY <1>4, <1>5, <1>6, <1>7, <1>8

\* Nothing is promised of a pair that is torn.
LEMMA TornPair ==
    ASSUME TypeInv, TypeInv', NEW p \in Player, NEW q \in Player, Elsewhere(p, q), torn' = torn,
           {p, q} \in torn
    PROVE  UNCHANGED F!vars
<1>0. WillHold \in SUBSET Row /\ WillHold' \in SUBSET Row
  <2>1. TypeInv' => WillHold' \in SUBSET Row
    BY AfterUnconcerned DEF TypeInv, WillHold, After
  <2> QED BY <2>1, WillHoldRows
<1>2. {q, p} = {p, q}
  OBVIOUS
<1>3. /\ <<p, q>> \notin Asked /\ <<q, p>> \notin Asked /\ <<p, q>> \notin Asked' /\ <<q, p>> \notin Asked'
      /\ {p, q} \notin Befriended /\ {p, q} \notin Befriended'
  BY <1>0, <1>2, AskedInIs, BefriendedInIs, MappingIs
<1>4. Asked' = Asked
  BY <1>3, OnePair
<1>5. Befriended' = Befriended
  BY <1>3, OnePair
<1> QED BY <1>4, <1>5 DEF F!vars

\* What is said of a pair that is not torn is what memory knows, and so it is after a step
\* that makes it fit.
LEMMA PairBefore ==
    ASSUME IInv, NEW p \in loaded, NEW q \in loaded, {p, q} \notin torn
    PROVE  /\ <<p, q>> \in Asked <=> q \in outgoing[p]
           /\ <<q, p>> \in Asked <=> q \in incoming[p]
           /\ {p, q} \in Befriended <=> q \in friends[p]
<1>0. /\ {q, p} = {p, q} /\ p \in Player /\ q \in Player /\ WillHold \in SUBSET Row
      /\ Accepted \in Status /\ Sent \in Status /\ Received \in Status
      /\ Accepted # Sent /\ Accepted # Received /\ Sent # Received
  BY WillHoldRows DEF IInv, TypeInv, Status, Accepted, Sent, Received
<1>1. Agreeing(WillHold, p, q) /\ Agreeing(WillHold, q, p)
  BY <1>0 DEF IInv, TableInv
<1>2. \A s \in Status : Says(WillHold, p, q, s) <=> Knows(p, q, s)
  BY <1>0, PairIs
<1>3. /\ Knows(p, q, Accepted) <=> q \in friends[p]
      /\ Knows(p, q, Sent) <=> q \in outgoing[p]
      /\ Knows(p, q, Received) <=> q \in incoming[p]
  BY <1>0 DEF Knows
<1> QED BY <1>0, <1>1, <1>2, <1>3, AgreeingIs, MappingIs

LEMMA PairAfter ==
    ASSUME TypeInv', NEW p \in Player, NEW q \in Player, {p, q} \notin torn', Fits(p, q)', Fits(q, p)'
    PROVE  /\ <<p, q>> \in Asked' <=> q \in outgoing'[p]
           /\ <<q, p>> \in Asked' <=> q \in incoming'[p]
           /\ {p, q} \in Befriended' <=> q \in friends'[p]
<1>0. /\ Accepted \in Status /\ Sent \in Status /\ Received \in Status
      /\ Accepted # Sent /\ Accepted # Received /\ Sent # Received
  BY DEF Status, Accepted, Sent, Received
<1>1. WillHold' \in SUBSET Row
  BY AfterUnconcerned DEF TypeInv, WillHold, After
<1>2. Agreeing(WillHold', p, q) /\ Agreeing(WillHold', q, p) /\ \A s \in Status : Says(WillHold', p, q, s) <=> Knows(p, q, s)'
  BY DEF Fits
<1>3. /\ Knows(p, q, Accepted)' <=> q \in friends'[p]
      /\ Knows(p, q, Sent)' <=> q \in outgoing'[p]
      /\ Knows(p, q, Received)' <=> q \in incoming'[p]
  BY <1>0 DEF Knows
<1> QED BY <1>0, <1>1, <1>2, <1>3, AgreeingIs, MappingIs

LEMMA SendRequestAsks ==
    ASSUME IInv, NEW p \in Player, NEW q \in Player, SendRequest(p, q)
    PROVE  F!Ask(p, q) \/ UNCHANGED F!vars
<1>0. /\ TypeInv /\ TypeInv' /\ Elsewhere(p, q) /\ torn' = torn /\ p \in loaded /\ q \in loaded
      /\ {p, q} \notin torn => Fits(p, q)' /\ Fits(q, p)'
  BY SendRequestStep DEF IInv, SendRequest, Both
<1>1. CASE {p, q} \notin torn
  <2>1. /\ outgoing' = [outgoing EXCEPT ![p] = @ \cup {q}] /\ incoming' = [incoming EXCEPT ![q] = @ \cup {p}]
        /\ friends' = friends /\ ~Contains(p, q)
    BY DEF SendRequest
  <2>2. <<p, q>> \notin Asked /\ <<q, p>> \notin Asked /\ {p, q} \notin Befriended
    BY <1>0, <1>1, <2>1, PairBefore DEF Contains
  <2>3. <<p, q>> \in Asked' /\ (p # q => <<q, p>> \notin Asked') /\ {p, q} \notin Befriended'
    BY <1>0, <1>1, <2>1, PairAfter DEF TypeInv, Contains
  <2>9. /\ Asked \subseteq Player \X Player /\ Asked' \subseteq Player \X Player
        /\ \A a \in Player \X Player : a \notin {<<p, q>>, <<q, p>>} => (a \in Asked' <=> a \in Asked)
    BY <1>0, OnePair
  <2>10. <<p, q>> # <<q, p>> => p # q
    OBVIOUS
  <2>4. Asked' = Asked \cup {<<p, q>>}
    BY <2>2, <2>3, <2>9, <2>10, PairEnters
  <2>5. Befriended' = Befriended
    BY <1>0, <2>2, <2>3, OnePair
  <2> QED BY <1>0, <1>1, <2>2, <2>4, <2>5 DEF F!Ask
<1>2. CASE {p, q} \in torn
  BY <1>0, <1>2, TornPair
<1> QED BY <1>1, <1>2

LEMMA AcceptAccepts ==
    ASSUME IInv, NEW p \in Player, NEW q \in Player, Accept(p, q)
    PROVE  F!Accept(p, q) \/ UNCHANGED F!vars
<1>0. /\ TypeInv /\ TypeInv' /\ Elsewhere(p, q) /\ torn' = torn /\ p \in loaded /\ q \in loaded
      /\ {p, q} \notin torn => Fits(p, q)' /\ Fits(q, p)'
  BY AcceptStep DEF IInv, Accept, Both
<1>1. CASE {p, q} \notin torn
  <2>1. /\ q \in incoming[p] \/ p \in outgoing[q]
        /\ friends' = [x \in Player |->
                          friends[x] \cup (IF q \in incoming[p] /\ x = p THEN {q} ELSE {})
                                     \cup (IF p \in outgoing[q] /\ x = q THEN {p} ELSE {})]
        /\ incoming' = [incoming EXCEPT ![p] = @ \ {q}]
        /\ outgoing' = [outgoing EXCEPT ![q] = @ \ {p}]
    BY DEF Accept
  <2>2. q \in incoming[p] /\ <<q, p>> \in Asked
    BY <1>0, <1>1, <2>1, PairIs, PairBefore
  <2>3. p # q => q \notin outgoing[p] /\ <<p, q>> \notin Asked
    BY <1>0, <1>1, <2>2, PairIs, PairBefore
  <2>4. q \notin incoming'[p] /\ (p # q => q \notin outgoing'[p]) /\ q \in friends'[p]
    BY <1>0, <2>1, <2>2, <2>3 DEF TypeInv
  <2>5. <<q, p>> \notin Asked' /\ (p # q => <<p, q>> \notin Asked') /\ {p, q} \in Befriended'
    BY <1>0, <1>1, <2>4, PairAfter
  <2>9. /\ Asked \subseteq Player \X Player /\ Asked' \subseteq Player \X Player
        /\ \A a \in Player \X Player : a \notin {<<q, p>>, <<p, q>>} => (a \in Asked' <=> a \in Asked)
    BY <1>0, OnePair
  <2>10. <<q, p>> # <<p, q>> => p # q
    OBVIOUS
  <2>6. Asked' = Asked \ {<<q, p>>}
    BY <2>3, <2>5, <2>9, <2>10, PairLeaves
  <2>7. Befriended' = Befriended \cup {{p, q}}
    BY <1>0, <2>5, OnePair
  <2> QED BY <1>0, <2>2, <2>6, <2>7 DEF F!Accept
<1>2. CASE {p, q} \in torn
  BY <1>0, <1>2, TornPair
<1> QED BY <1>1, <1>2

LEMMA TakeBackTakesBack ==
    ASSUME IInv, NEW p \in Player, NEW q \in Player, NEW order, TakeBack(p, q, order)
    PROVE  F!TakeBack(q, p) \/ UNCHANGED F!vars
<1>0. /\ TypeInv /\ TypeInv' /\ Elsewhere(p, q) /\ torn' = torn /\ p \in loaded /\ q \in loaded
      /\ {p, q} \notin torn => Fits(p, q)' /\ Fits(q, p)'
  BY TakeBackStep DEF IInv, TakeBack, Both
<1>1. CASE {p, q} \notin torn
  <2>1. /\ q \in incoming[p] \/ p \in outgoing[q]
        /\ incoming' = [incoming EXCEPT ![p] = @ \ {q}] /\ friends' = friends
        /\ outgoing' = [outgoing EXCEPT ![q] = @ \ {p}]
    BY DEF TakeBack
  <2>2. q \in incoming[p] /\ <<q, p>> \in Asked
    BY <1>0, <1>1, <2>1, PairIs, PairBefore
  <2>3. p # q => q \notin outgoing[p] /\ <<p, q>> \notin Asked
    BY <1>0, <1>1, <2>2, PairIs, PairBefore
  <2>4. q \notin incoming'[p] /\ (p # q => q \notin outgoing'[p])
    BY <1>0, <2>1, <2>2, <2>3 DEF TypeInv
  <2>5. <<q, p>> \notin Asked' /\ (p # q => <<p, q>> \notin Asked')
    BY <1>0, <1>1, <2>4, PairAfter
  <2>6. {p, q} \in Befriended' <=> {p, q} \in Befriended
    BY <1>0, <1>1, <2>1, PairAfter, PairBefore
  <2>9. /\ Asked \subseteq Player \X Player /\ Asked' \subseteq Player \X Player
        /\ \A a \in Player \X Player : a \notin {<<q, p>>, <<p, q>>} => (a \in Asked' <=> a \in Asked)
    BY <1>0, OnePair
  <2>10. <<q, p>> # <<p, q>> => p # q
    OBVIOUS
  <2>7. Asked' = Asked \ {<<q, p>>}
    BY <2>3, <2>5, <2>9, <2>10, PairLeaves
  <2>8. Befriended' = Befriended
    BY <1>0, <2>6, OnePair
  <2> QED BY <1>0, <2>2, <2>7, <2>8 DEF F!TakeBack
<1>2. CASE {p, q} \in torn
  BY <1>0, <1>2, TornPair
<1> QED BY <1>1, <1>2

\* What comes of a race is that pairs are torn; of others the table will hold what it
\* would have held.
LEMMA OthersStay ==
    ASSUME TypeInv, TypeInv', torn \subseteq torn',
           \A x, y \in Player : {x, y} \notin torn' =>
               \A s \in Status : Says(WillHold', x, y, s) <=> Says(WillHold, x, y, s)
    PROVE  F!Tear
<1>0. /\ WillHold \in SUBSET Row /\ WillHold' \in SUBSET Row /\ torn' \in SUBSET SUBSET Player
      /\ Accepted \in Status /\ Sent \in Status /\ Received \in Status
  <2>1. TypeInv' => WillHold' \in SUBSET Row
    BY AfterUnconcerned DEF TypeInv, WillHold, After
  <2> QED BY <2>1, WillHoldRows DEF Status, TypeInv
<1>1. ASSUME NEW x \in Player, NEW y \in Player
      PROVE  /\ <<x, y>> \in Asked' <=> <<x, y>> \in Asked /\ {x, y} \notin torn'
             /\ {x, y} \in Befriended' <=> {x, y} \in Befriended /\ {x, y} \notin torn'
  <2>1. {y, x} = {x, y}
    OBVIOUS
  <2>2. {x, y} \notin torn' =>
            \A s \in Status : /\ Says(WillHold', x, y, s) <=> Says(WillHold, x, y, s)
                              /\ Says(WillHold', y, x, s) <=> Says(WillHold, y, x, s)
    BY <2>1
  <2>3. /\ <<x, y>> \in Asked' <=> {x, y} \notin torn' /\ (Says(WillHold', x, y, Sent) \/ Says(WillHold', y, x, Received))
        /\ <<x, y>> \in Asked <=> {x, y} \notin torn /\ (Says(WillHold, x, y, Sent) \/ Says(WillHold, y, x, Received))
    BY <1>0, AskedInIs, MappingIs
  <2>4. /\ {x, y} \in Befriended' <=> {x, y} \notin torn' /\ (Says(WillHold', x, y, Accepted) \/ Says(WillHold', y, x, Accepted))
        /\ {x, y} \in Befriended <=> {x, y} \notin torn /\ (Says(WillHold, x, y, Accepted) \/ Says(WillHold, y, x, Accepted))
    BY <1>0, BefriendedInIs, MappingIs
  <2> QED BY <1>0, <2>2, <2>3, <2>4
<1>2. Asked \subseteq Player \X Player /\ Asked' \subseteq Player \X Player
  BY <1>0, AskedInIs, MappingIs
<1>3. Asked' = {a \in Asked : {a[1], a[2]} \notin torn'}
  <2>1. \A a \in Player \X Player : a[1] \in Player /\ a[2] \in Player /\ a = <<a[1], a[2]>>
    OBVIOUS
  <2>2. \A a \in Player \X Player : a \in Asked' <=> a \in Asked /\ {a[1], a[2]} \notin torn'
    BY <1>1, <2>1
  <2> QED BY <1>2, <2>2
<1>4. Befriended' = Befriended \ torn'
  <2>1. ASSUME NEW s PROVE s \in Befriended' <=> s \in Befriended /\ s \notin torn'
    <3>1. CASE \E x, y \in Player : s = {x, y}
      BY <1>1, <3>1
    <3>2. CASE ~\E x, y \in Player : s = {x, y}
      <4>1. s \notin BefriendedIn(WillHold, torn) /\ s \notin BefriendedIn(WillHold', torn')
        BY <1>0, <3>2, BefriendedInIs
      <4> QED BY <4>1, MappingIs
    <3> QED BY <3>1, <3>2
  <2> QED BY <2>1
<1> QED BY <1>0, <1>3, <1>4 DEF F!Tear

LEMMA RemoveParts ==
    ASSUME IInv, NEW p \in Player, NEW q \in Player, Remove(p, q)
    PROVE  F!Next \/ UNCHANGED F!vars
<1>0. /\ TypeInv /\ TypeInv' /\ Elsewhere(p, q) /\ p \in loaded /\ q \in loaded
      /\ torn \subseteq torn'
      /\ {p, q} \notin torn' => Fits(p, q)' /\ Fits(q, p)'
  BY RemoveStep DEF IInv, Remove, Both
<1>1. CASE Contains(p, q) /\ q \notin friends[p]
  <2>1. {p, q} \in torn'
    BY <1>1 DEF Remove, Tears
  <2>2. \A x, y \in Player : {x, y} \notin torn' =>
            \A s \in Status : Says(WillHold', x, y, s) <=> Says(WillHold, x, y, s)
    BY <1>0, <2>1 DEF Elsewhere
  <2>3. F!Tear
    BY <1>0, <2>2, OthersStay
  <2> QED BY <2>3 DEF F!Next
<1>2. CASE ~(Contains(p, q) /\ q \notin friends[p])
  <2>0. torn' = torn
    BY <1>2 DEF Remove, Tears
  <2>1. CASE {p, q} \in torn
    BY <1>0, <2>0, <2>1, TornPair
  <2>2. CASE {p, q} \notin torn
    <3>1. /\ UNCHANGED <<outgoing, incoming>>
          /\ friends' = [x \in Player |-> CASE x = p -> friends[p] \ {q}
                                            [] x = q -> friends[q] \ {p}
                                            [] OTHER -> friends[x]]
      BY DEF Remove
    <3>2. friends'[p] = friends[p] \ {q}
      BY <3>1
    <3>3. /\ <<p, q>> \in Asked' <=> <<p, q>> \in Asked
          /\ <<q, p>> \in Asked' <=> <<q, p>> \in Asked
          /\ {p, q} \notin Befriended'
      BY <1>0, <2>0, <2>2, <3>1, <3>2, PairBefore, PairAfter
    <3>4. Asked' = Asked
      BY <1>0, <2>0, <3>3, OnePair
    <3>5. Befriended' = Befriended \ {{p, q}}
      BY <1>0, <2>0, <3>3, OnePair
    <3>6. CASE {p, q} \in Befriended
      <4>1. F!Part(p, q)
        BY <2>0, <3>4, <3>5, <3>6 DEF F!Part
      <4> QED BY <4>1 DEF F!Next
    <3>7. CASE {p, q} \notin Befriended
      BY <2>0, <3>4, <3>5, <3>7 DEF F!vars
    <3> QED BY <3>6, <3>7
  <2> QED BY <2>1, <2>2
<1> QED BY <1>1, <1>2

LEMMA ByConsentStep == IInv /\ IInv' /\ [Next]_vars => [F!Next]_(F!vars)
<1> SUFFICES ASSUME IInv, IInv', [Next]_vars PROVE F!Next \/ UNCHANGED F!vars
  OBVIOUS
<1>0. TypeInv /\ TypeInv'
  BY DEF IInv
<1>1. ASSUME WillHold' = WillHold, torn' = torn PROVE UNCHANGED F!vars
  <2>1. Asked' = Asked /\ Befriended' = Befriended
    BY <1>1, MappingIs
  <2> QED BY <1>1, <2>1 DEF F!vars
<1>2. CASE Execute
  BY <1>0, <1>1, <1>2, ExecuteStep DEF Execute
<1>3. CASE Restart
  <2>1. rows' = rows /\ queue' = <<>> /\ torn' = torn \cup UNION {Queued(p) : p \in Player}
    BY <1>3 DEF Restart, Tears
  <2>2. WillHold' = rows
    <3>1. WillHold' = After(rows', queue')
      BY DEF WillHold, After
    <3> QED BY <2>1, <3>1, AfterEmpty
  <2>3. \A x, y \in Player : {x, y} \notin torn' =>
            \A s \in Status : Says(WillHold', x, y, s) <=> Says(WillHold, x, y, s)
    BY <1>0, <2>1, <2>2, QueuedIs
  <2>4. F!Tear
    BY <1>0, <2>1, <2>3, OthersStay
  <2> QED BY <2>4 DEF F!Next
<1>4. ASSUME NEW p \in Player, Load(p) PROVE F!Next
  <2>1. rows' = rows /\ queue' = queue /\ torn \subseteq torn'
    BY <1>4 DEF Load, Tears
  <2>2. WillHold' = WillHold
    BY <2>1 DEF WillHold
  <2>3. F!Tear
    BY <1>0, <2>1, <2>2, OthersStay
  <2> QED BY <2>3 DEF F!Next
<1>5. ASSUME NEW p \in Player, NEW q \in Player, SendRequest(p, q) PROVE F!Next \/ UNCHANGED F!vars
  BY <1>5, SendRequestAsks DEF F!Next
<1>6. ASSUME NEW p \in Player, NEW q \in Player, Accept(p, q) PROVE F!Next \/ UNCHANGED F!vars
  BY <1>6, AcceptAccepts DEF F!Next
<1>7. ASSUME NEW p \in Player, NEW q \in Player, NEW order, TakeBack(p, q, order) PROVE F!Next \/ UNCHANGED F!vars
  BY <1>7, TakeBackTakesBack DEF F!Next
<1>8. ASSUME NEW p \in Player, NEW q \in Player, Remove(p, q) PROVE F!Next \/ UNCHANGED F!vars
  BY <1>8, RemoveParts
<1>9. CASE UNCHANGED vars
  <2>1. rows' = rows /\ queue' = queue /\ torn' = torn
    BY <1>9 DEF vars
  <2>2. WillHold' = WillHold
    BY <2>1 DEF WillHold
  <2> QED BY <1>1, <2>1, <2>2
<1> QED BY <1>2, <1>3, <1>4, <1>5, <1>6, <1>7, <1>8, <1>9 DEF Next, Deny, Cancel

\* FriendManager, its queue of writes and restarts keep what Friendship promises: two
\* become friends only by a request and its acceptance, whichever row one looks at.
THEOREM ByConsentCorrect == Spec => ByConsent
<1>1. Init => F!Init
  <2> SUFFICES ASSUME Init PROVE F!Init
    OBVIOUS
  <2>1. WillHold = {} /\ torn = {}
    <3>1. rows = {} /\ queue = <<>> /\ torn = {}
      BY DEF Init
    <3> QED BY <3>1, WillHoldIs, AfterEmpty
  <2> QED BY <2>1 DEF F!Init, Asked, Befriended
<1> QED BY <1>1, ByConsentStep, Invariant, PTL DEF Spec, ByConsent, F!Spec
=============================================================================
