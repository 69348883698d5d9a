----------------------------- MODULE CardsProofs -----------------------------
(***************************************************************************)
(* The safety properties of Cards, for any players, finitely many cards,   *)
(* and any places and bounds.                                              *)
(***************************************************************************)
EXTENDS Cards, FiniteSetTheorems, SequenceTheorems, WellFoundedInduction, TLAPS

Row == [owner : Player, opened : BOOLEAN]
RowOf(p, opened) == [owner |-> p, opened |-> opened]
Table == [Card -> Row \cup {None}]
Write == [do : {"give", "open", "save"}, who : Player, what : SUBSET Card]

TypeInv ==
    /\ loaded \in SUBSET Player
    /\ cards \in [Player -> SUBSET Card]
    /\ gifts \in [Player -> SUBSET Card]
    /\ worn \in [Player -> SUBSET Card]
    /\ rows \in Table
    /\ wornRows \in [Player -> SUBSET Card]
    /\ queue \in Seq(Write)
    /\ reread \in SUBSET Card /\ strayed \in SUBSET Card

\* The cards that the properties are about.
Known == Card \ (reread \cup strayed)

\* Of who is not in memory, nothing is.
UnloadedInv == \A p \in Player \ loaded : cards[p] = {} /\ gifts[p] = {} /\ worn[p] = {}

\* The table after each write of the queue.
Stages(t, q) ==
    LET after[i \in 0..Len(q)] == IF i = 0 THEN t ELSE Executed(after[i - 1], q[i])
    IN after

\* What is in memory is what the table will hold.
MemoryInv ==
    \A p \in loaded, c \in Known :
        /\ c \in cards[p] <=> WillHold[c] = RowOf(p, TRUE)
        /\ c \in gifts[p] <=> WillHold[c] = RowOf(p, FALSE)

\* Inventories keep to their places in the table, of whoever is in memory or not.
HeldIn(table, p) == {c \in Known : table[c] \in {RowOf(p, TRUE), RowOf(p, FALSE)}}
GiftsIn(table, p) == {c \in Known : table[c] = RowOf(p, FALSE)}
SpaceInv ==
    \A p \in Player : /\ Cardinality(HeldIn(WillHold, p)) <= Space
                      /\ Cardinality(GiftsIn(WillHold, p)) <= GiftSpace

\* Who wears a card has it, and no row refers to one that is not there...
WornInv ==
    \A p \in Player :
        /\ worn[p] \cap Known \subseteq cards[p]
        /\ \A c \in wornRows[p] : rows[c] # None

\* ...and what is saved now or will be is his who wears it, from then on, unless a
\* later save takes it off.
IsSave(q, i, p) == q[i].do = "save" /\ q[i].who = p
Saved(has, q, i, p) == IF i = 0 THEN has ELSE IF IsSave(q, i, p) THEN q[i].what ELSE {}
TakenOff(q, i, p, c) == \E j \in (i + 1)..Len(q) : IsSave(q, j, p) /\ c \notin q[j].what
Safe(t, has, q, p, c) ==
    \A i \in 0..Len(q) : \A k \in i..Len(q) :
        c \in Saved(has, q, i, p) =>
            Stages(t, q)[k][c] \in {None, RowOf(p, TRUE)} \/ TakenOff(q, i, p, c)
SavedInv == \A p \in Player, c \in Known : Safe(rows, wornRows[p], queue, p, c)

IInv == TypeInv /\ UnloadedInv /\ MemoryInv /\ SpaceInv /\ WornInv /\ SavedInv
-----------------------------------------------------------------------------
(* The table while writes are executed                                     *)

\* h is the table after each of them.
Runs(t, q, h) ==
    /\ DOMAIN h = 0..Len(q)
    /\ h[0] = t
    /\ \A i \in 1..Len(q) : h[i] = Executed(h[i - 1], q[i])
IsRun(t, q, h) == h = [i \in 0..Len(q) |-> IF i = 0 THEN t ELSE Executed(h[i - 1], q[i])]

LEMMA NaturalSets ==
    ASSUME NEW S, 0 \in S, \A n \in Nat : n \in S => n + 1 \in S
    PROVE  Nat \subseteq S
<1> SUFFICES ASSUME Nat \ S # {} PROVE FALSE
  OBVIOUS
<1> DEFINE R == OpToRel(<, Nat)
           T == Nat \ S
<1>1. T \subseteq Nat /\ T # {}
  OBVIOUS
<1>2. PICK k \in T : \A y \in T : ~(<<y, k>> \in R)
  <2> HIDE DEF T, R
  <2> QED BY <1>1, NatLessThanWellFounded, WFMin, Zenon DEF R
<1>3. k - 1 \in Nat /\ k \in Nat /\ (k - 1) + 1 = k
  <2> HIDE DEF R
  <2> QED BY <1>2
<1>4. k - 1 \in S
  <2>1. <<k - 1, k>> \in R
    BY <1>3 DEF OpToRel
  <2> QED BY <1>2, <1>3, <2>1
<1> QED BY <1>2, <1>3, <1>4

LEMMA OneRun ==
    ASSUME NEW t, NEW q \in Seq(Write), NEW g, NEW h, Runs(t, q, g), Runs(t, q, h)
    PROVE  \A k \in 0..Len(q) : g[k] = h[k]
<1> DEFINE S == {i \in Nat : i \in 0..Len(q) => g[i] = h[i]}
<1>0. Len(q) \in Nat
  OBVIOUS
<1>1. 0 \in S
  BY DEF Runs
<1>2. ASSUME NEW n \in Nat, n \in S PROVE n + 1 \in S
  BY <1>0, <1>2 DEF Runs
<1>3. Nat \subseteq S
  <2> HIDE DEF S
  <2> QED BY <1>1, <1>2, NaturalSets
<1> QED BY <1>0, <1>3

LEMMA RunsAppend ==
    ASSUME NEW t, NEW q \in Seq(Write), NEW h, Runs(t, q, h), NEW w \in Write
    PROVE  \E g : Runs(t, Append(q, w), g) /\ g[Len(q) + 1] = Executed(h[Len(q)], w)
<1> DEFINE v == Append(q, w)
           g == [i \in 0..Len(q) + 1 |-> IF i = Len(q) + 1 THEN Executed(h[Len(q)], w) ELSE h[i]]
<1>1. /\ Len(q) \in Nat /\ Len(v) = Len(q) + 1 /\ v[Len(q) + 1] = w
      /\ \A i \in 1..Len(q) : v[i] = q[i]
  OBVIOUS
<1> HIDE DEF v
<1>2. g[0] = t /\ DOMAIN g = 0..Len(v) /\ g[Len(q) + 1] = Executed(h[Len(q)], w)
  BY <1>1 DEF Runs
<1>3. ASSUME NEW i \in 1..Len(v) PROVE g[i] = Executed(g[i - 1], v[i])
  <2>1. CASE i = Len(q) + 1
    BY <1>1, <2>1
  <2>2. CASE i # Len(q) + 1
    <3>1. i \in 1..Len(q) /\ i - 1 \in 0..Len(q) /\ i - 1 # Len(q) + 1
      BY <1>1, <2>2
    <3>2. g[i] = h[i] /\ g[i - 1] = h[i - 1] /\ v[i] = q[i]
      BY <1>1, <3>1
    <3> QED BY <3>1, <3>2 DEF Runs
  <2> QED BY <2>1, <2>2
<1> HIDE DEF g
<1>4. Runs(t, v, g)
  BY <1>2, <1>3 DEF Runs
<1> QED BY <1>2, <1>4 DEF v

\* Every queue can be executed.
LEMMA RunExists ==
    ASSUME NEW t, NEW q \in Seq(Write)
    PROVE  \E h : Runs(t, q, h)
<1> DEFINE S == {n \in Nat : \A v \in Seq(Write) : Len(v) = n => \E h : Runs(t, v, h)}
<1>1. 0 \in S
  <2>1. ASSUME NEW v \in Seq(Write), Len(v) = 0 PROVE \E h : Runs(t, v, h)
    <3>1. Runs(t, v, [i \in 0..0 |-> t])
      BY <2>1 DEF Runs
    <3> QED BY <3>1
  <2> QED BY <2>1
<1>2. ASSUME NEW n \in Nat, n \in S PROVE n + 1 \in S
  <2>1. ASSUME NEW v \in Seq(Write), Len(v) = n + 1 PROVE \E h : Runs(t, v, h)
    <3>0. v # <<>>
      BY <2>1
    <3>1. PICK u \in Seq(Write), w \in Write : v = Append(u, w)
      BY <3>0, SequenceEmptyOrAppend
    <3>2. Len(u) = n
      BY <2>1, <3>1
    <3>3. PICK h : Runs(t, u, h)
      BY <1>2, <3>2
    <3>4. \E g : Runs(t, Append(u, w), g)
      BY <3>3, RunsAppend
    <3> QED BY <3>1, <3>4
  <2> QED BY <2>1
<1>3. Nat \subseteq S
  <2> HIDE DEF S
  <2> QED BY <1>1, <1>2, NaturalSets
<1> QED BY <1>3

LEMMA StagesRun ==
    ASSUME NEW t, NEW q \in Seq(Write)
    PROVE  Runs(t, q, Stages(t, q))
<1> DEFINE f == CHOOSE g : g = [i \in 0..Len(q) |-> IF i = 0 THEN t ELSE Executed(g[i - 1], q[i])]
<1>0. Len(q) \in Nat
  OBVIOUS
<1>1. \E g : IsRun(t, q, g)
  <2>1. PICK h : Runs(t, q, h)
    BY RunExists
  <2> DEFINE g == [i \in 0..Len(q) |-> h[i]]
  <2>2. \A i \in 0..Len(q) : g[i] = IF i = 0 THEN t ELSE Executed(g[i - 1], q[i])
    BY <1>0, <2>1 DEF Runs
  <2>3. g = [i \in 0..Len(q) |-> g[i]]
    OBVIOUS
  <2> HIDE DEF g
  <2>4. IsRun(t, q, g)
    BY <2>2, <2>3 DEF IsRun
  <2> QED BY <2>4
<1>2. IsRun(t, q, f)
  BY <1>1 DEF IsRun
<1>3. Stages(t, q) = f
  BY DEF Stages
<1> HIDE DEF f
<1> QED BY <1>0, <1>2, <1>3 DEF IsRun, Runs

LEMMA WillHoldIs == WillHold = Stages(rows, queue)[Len(queue)]
  BY DEF WillHold, Stages

LEMMA StagesAppend ==
    ASSUME NEW t, NEW q \in Seq(Write), NEW w \in Write
    PROVE  /\ Append(q, w) \in Seq(Write) /\ Len(Append(q, w)) = Len(q) + 1
           /\ \A k \in 0..Len(q) : Stages(t, Append(q, w))[k] = Stages(t, q)[k]
           /\ Stages(t, Append(q, w))[Len(q) + 1] = Executed(Stages(t, q)[Len(q)], w)
<1> DEFINE v == Append(q, w)
           g == Stages(t, v)
           h == [k \in 0..Len(q) |-> g[k]]
<1>1. /\ v \in Seq(Write) /\ Len(v) = Len(q) + 1 /\ Len(q) \in Nat /\ v[Len(q) + 1] = w
      /\ \A i \in 1..Len(q) : v[i] = q[i]
  OBVIOUS
<1> HIDE DEF v
<1>2. Runs(t, v, g)
  BY <1>1, StagesRun
<1> HIDE DEF g
<1>3. g[0] = t /\ \A i \in 1..Len(q) + 1 : g[i] = Executed(g[i - 1], v[i])
  BY <1>1, <1>2 DEF Runs
<1>4. Runs(t, q, h)
  <2>1. h[0] = t /\ DOMAIN h = 0..Len(q)
    BY <1>1, <1>3
  <2>2. ASSUME NEW i \in 1..Len(q) PROVE h[i] = Executed(h[i - 1], q[i])
    <3>1. i \in 0..Len(q) /\ i - 1 \in 0..Len(q) /\ i \in 1..Len(q) + 1
      BY <1>1
    <3> QED BY <1>1, <1>3, <3>1
  <2> HIDE DEF h
  <2> QED BY <2>1, <2>2 DEF Runs
<1>5. \A k \in 0..Len(q) : h[k] = Stages(t, q)[k]
  <2> HIDE DEF h
  <2> QED BY <1>4, StagesRun, OneRun
<1>6. \A k \in 0..Len(q) : g[k] = Stages(t, q)[k]
  BY <1>5
<1> HIDE DEF h
<1>7. g[Len(q) + 1] = Executed(g[Len(q)], w)
  <2>1. Len(q) + 1 \in 1..Len(q) + 1 /\ (Len(q) + 1) - 1 = Len(q)
    BY <1>1
  <2> QED BY <1>1, <1>3, <2>1
<1>8. g[Len(q)] = Stages(t, q)[Len(q)]
  BY <1>1, <1>6
<1> QED BY <1>1, <1>6, <1>7, <1>8 DEF g, v

LEMMA StagesTail ==
    ASSUME NEW t, NEW q \in Seq(Write), q # <<>>
    PROVE  \A k \in 0..Len(q) - 1 : Stages(Executed(t, Head(q)), Tail(q))[k] = Stages(t, q)[k + 1]
<1> DEFINE v == Tail(q)
           h == Stages(t, q)
           g == [i \in 0..Len(v) |-> h[i + 1]]
<1>1. Runs(t, q, h)
  BY StagesRun
<1>2. /\ v \in Seq(Write) /\ Len(q) \in Nat /\ Len(q) >= 1 /\ Len(v) = Len(q) - 1 /\ Head(q) = q[1]
      /\ \A i \in 1..Len(v) : v[i] = q[i + 1]
  OBVIOUS
<1> HIDE DEF v, h
<1>3. g[0] = Executed(t, Head(q)) /\ DOMAIN g = 0..Len(v)
  BY <1>1, <1>2 DEF Runs
<1>4. ASSUME NEW i \in 1..Len(v) PROVE g[i] = Executed(g[i - 1], v[i])
  <2>1. i + 1 \in 1..Len(q) /\ (i + 1) - 1 = i /\ i - 1 \in 0..Len(v) /\ (i - 1) + 1 = i /\ i \in 0..Len(v)
    BY <1>2
  <2>2. h[i + 1] = Executed(h[i], q[i + 1])
    BY <1>1, <2>1 DEF Runs
  <2> QED BY <1>2, <2>1, <2>2
<1>5. \A k \in 0..Len(v) : g[k] = h[k + 1]
  OBVIOUS
<1> HIDE DEF g
<1>6. Runs(Executed(t, Head(q)), v, g)
  BY <1>3, <1>4 DEF Runs
<1>7. \A k \in 0..Len(v) : g[k] = Stages(Executed(t, Head(q)), v)[k]
  <2> DEFINE u == Executed(t, Head(q))
  <2> HIDE DEF u
  <2>1. Runs(u, v, Stages(u, v))
    BY <1>2, StagesRun
  <2>2. Runs(u, v, g)
    BY <1>6 DEF u
  <2>3. \A k \in 0..Len(v) : g[k] = Stages(u, v)[k]
    <3>1. v \in Seq(Write)
      BY <1>2
    <3> HIDE DEF g
    <3> QED BY <2>1, <2>2, <3>1, OneRun
  <2> QED BY <2>3 DEF u
<1>8. \A k \in 0..Len(q) - 1 : Stages(Executed(t, Head(q)), v)[k] = h[k + 1]
  BY <1>2, <1>5, <1>7
<1> QED BY <1>8 DEF v, h

\* Which card a write changes.
Changes(w, c) == w.do # "save" /\ c \in w.what

LEMMA ExecutedIs ==
    ASSUME NEW table \in Table, NEW w \in Write
    PROVE  /\ Executed(table, w) \in Table
           /\ \A c \in Card :
                /\ ~Changes(w, c) => Executed(table, w)[c] = table[c]
                /\ table[c] = None <=> Executed(table, w)[c] = None
                /\ \A other \in Table : other[c] = table[c] => Executed(other, w)[c] = Executed(table, w)[c]
<1> DEFINE Becomes(r, c) == IF w.do = "save" \/ c \notin w.what \/ r = None THEN r
                            ELSE IF w.do = "give" THEN [owner |-> w.who, opened |-> FALSE]
                            ELSE [r EXCEPT !.opened = TRUE]
<1>1. \A u \in Table : \A c \in Card : Executed(u, w)[c] = Becomes(u[c], c)
  BY DEF Executed
<1>2. \A r \in Row \cup {None}, c \in Card : Becomes(r, c) \in Row \cup {None}
  BY DEF Row, Write
<1>3. Executed(table, w) = [c \in Card |-> Becomes(table[c], c)]
  BY DEF Executed
<1>4. Executed(table, w) \in Table
  <2> HIDE DEF Becomes
  <2> QED BY <1>2, <1>3 DEF Table
<1>5. \A c \in Card : /\ ~Changes(w, c) => Becomes(table[c], c) = table[c]
                      /\ table[c] = None <=> Becomes(table[c], c) = None
  <2>1. \A r \in Row, c \in Card : Becomes(r, c) \in Row
    BY DEF Row, Write
  <2>2. None \notin Row /\ \A c \in Card : table[c] \in Row \cup {None}
    BY CardAssumption DEF Row, Table
  <2>3. \A c \in Card : Becomes(None, c) = None
    OBVIOUS
  <2>4. \A c \in Card : ~Changes(w, c) => Becomes(table[c], c) = table[c]
    BY DEF Changes
  <2> HIDE DEF Becomes
  <2> QED BY <2>1, <2>2, <2>3, <2>4
<1> HIDE DEF Becomes
<1> QED BY <1>1, <1>4, <1>5

\* Each card's row depends on its own only, stays as it is without writes about it,
\* and does not come back.
LEMMA StagesOfCard ==
    ASSUME NEW t \in Table, NEW q \in Seq(Write), NEW k \in 0..Len(q)
    PROVE  /\ Stages(t, q)[k] \in Table
           /\ \A c \in Card :
                /\ (\A i \in 1..Len(q) : ~Changes(q[i], c)) => Stages(t, q)[k][c] = t[c]
                /\ t[c] = None => Stages(t, q)[k][c] = None
                /\ \A u \in Table : u[c] = t[c] => Stages(u, q)[k][c] = Stages(t, q)[k][c]
<1> DEFINE h == Stages(t, q)
           Good(n) == /\ h[n] \in Table
                      /\ \A c \in Card :
                          /\ (\A i \in 1..Len(q) : ~Changes(q[i], c)) => h[n][c] = t[c]
                          /\ t[c] = None => h[n][c] = None
                          /\ \A u \in Table : u[c] = t[c] =>
                                Stages(u, q)[n] \in Table /\ Stages(u, q)[n][c] = h[n][c]
           S == {n \in Nat : n \in 0..Len(q) => Good(n)}
<1>0. Len(q) \in Nat /\ (\A i \in 1..Len(q) : q[i] \in Write) /\ Runs(t, q, h) /\ \A u : Runs(u, q, Stages(u, q))
  BY StagesRun
<1> HIDE DEF h
<1>1. 0 \in S
  BY <1>0 DEF Runs
<1>2. ASSUME NEW n \in Nat, n \in S PROVE n + 1 \in S
  <2> SUFFICES ASSUME n + 1 \in 0..Len(q) PROVE Good(n + 1)
    OBVIOUS
  <2>1. n + 1 \in 1..Len(q) /\ n \in 0..Len(q) /\ (n + 1) - 1 = n
    BY <1>0
  <2>2. Good(n)
    BY <1>2, <2>1
  <2> DEFINE w == q[n + 1]
  <2>3. h[n + 1] = Executed(h[n], w) /\ w \in Write /\ \A u : Stages(u, q)[n + 1] = Executed(Stages(u, q)[n], w)
    BY <1>0, <2>1 DEF Runs
  <2> HIDE DEF S, w
  <2>4. h[n] \in Table
    BY <2>2
  <2>5. h[n + 1] \in Table
    BY <2>3, <2>4, ExecutedIs
  <2>6. ASSUME NEW c \in Card
        PROVE  /\ (\A i \in 1..Len(q) : ~Changes(q[i], c)) => h[n + 1][c] = t[c]
               /\ t[c] = None => h[n + 1][c] = None
               /\ \A u \in Table : u[c] = t[c] =>
                      Stages(u, q)[n + 1] \in Table /\ Stages(u, q)[n + 1][c] = h[n + 1][c]
    <3>1. /\ ~Changes(w, c) => h[n + 1][c] = h[n][c]
          /\ h[n][c] = None => h[n + 1][c] = None
          /\ \A other \in Table : other[c] = h[n][c] => Executed(other, w)[c] = h[n + 1][c]
      BY <2>3, <2>4, ExecutedIs
    <3>2. (\A i \in 1..Len(q) : ~Changes(q[i], c)) => ~Changes(w, c)
      BY <2>1 DEF w
    <3>3. ASSUME NEW u \in Table, u[c] = t[c]
          PROVE  Stages(u, q)[n + 1] \in Table /\ Stages(u, q)[n + 1][c] = h[n + 1][c]
      <4>1. Stages(u, q)[n] \in Table /\ Stages(u, q)[n][c] = h[n][c]
        BY <2>2, <3>3
      <4>2. Stages(u, q)[n + 1] = Executed(Stages(u, q)[n], w)
        BY <2>3
      <4>3. Executed(Stages(u, q)[n], w)[c] = h[n + 1][c]
        BY <3>1, <4>1
      <4>4. Executed(Stages(u, q)[n], w) \in Table
        BY <2>3, <4>1, ExecutedIs
      <4> QED BY <4>2, <4>3, <4>4
    <3> QED BY <2>2, <3>1, <3>2, <3>3
  <2> QED BY <2>5, <2>6
<1>3. Nat \subseteq S
  <2> HIDE DEF S
  <2> QED BY <1>1, <1>2, NaturalSets
<1> QED BY <1>0, <1>3 DEF h
-----------------------------------------------------------------------------
(* What the invariant says, and steps that leave parts of it alone         *)

LEMMA Rows ==
    /\ None \notin Row
    /\ \A p, q \in Player, x, y \in BOOLEAN : RowOf(p, x) = RowOf(q, y) <=> p = q /\ x = y
    /\ \A p \in Player, x \in BOOLEAN : RowOf(p, x) \in Row /\ RowOf(p, x) # None
  BY CardAssumption DEF Row, RowOf

LEMMA QueuedIs ==
    ASSUME TypeInv
    PROVE  /\ Queued \subseteq Card
           /\ WillHold \in Table
           /\ \A i \in 1..Len(queue) : queue[i] \in Write /\ About(queue[i]) \subseteq Queued
           /\ \A c \in Card : c \notin Queued => WillHold[c] = rows[c]
           /\ \A c \in Card : rows[c] = None => WillHold[c] = None
<1>0. Len(queue) \in Nat /\ rows \in Table /\ queue \in Seq(Write) /\ wornRows \in [Player -> SUBSET Card]
  BY DEF TypeInv
<1>1. \A i \in 1..Len(queue) : queue[i] \in Write /\ About(queue[i]) \subseteq Queued
  BY <1>0 DEF Queued
<1>2. \A w \in Write : About(w) \subseteq Card
  BY <1>0 DEF About, Write
<1>3. Queued \subseteq Card
  BY <1>1, <1>2 DEF Queued
<1>4. ASSUME NEW c \in Card, c \notin Queued
      PROVE  \A i \in 1..Len(queue) : ~Changes(queue[i], c)
  BY <1>1, <1>4 DEF Changes, About
<1>5. Len(queue) \in 0..Len(queue)
  BY <1>0
<1> QED BY <1>0, <1>1, <1>3, <1>4, <1>5, StagesOfCard, WillHoldIs

LEMMA WillHoldNext == WillHold' = Stages(rows', queue')[Len(queue')]
  BY DEF WillHold, Stages

LEMMA DispatchOne ==
    ASSUME TypeInv, NEW w \in Write, rows' = rows, queue' = queue \o <<w>>
    PROVE  /\ queue' = Append(queue, w) /\ queue' \in Seq(Write)
           /\ WillHold' = Executed(WillHold, w)
<1>0. queue \in Seq(Write)
  BY DEF TypeInv
<1>1. queue' = Append(queue, w)
  BY <1>0
<1>2. /\ Append(queue, w) \in Seq(Write) /\ Len(Append(queue, w)) = Len(queue) + 1
      /\ Stages(rows, Append(queue, w))[Len(queue) + 1] = Executed(Stages(rows, queue)[Len(queue)], w)
  BY <1>0, StagesAppend
<1> QED BY <1>1, <1>2, WillHoldIs, WillHoldNext

LEMMA DispatchTwo ==
    ASSUME TypeInv, NEW v \in Write, NEW w \in Write, rows' = rows, queue' = queue \o <<v, w>>
    PROVE  /\ queue' = Append(Append(queue, v), w) /\ queue' \in Seq(Write)
           /\ WillHold' = Executed(Executed(WillHold, v), w)
<1>0. queue \in Seq(Write)
  BY DEF TypeInv
<1>1. queue' = Append(Append(queue, v), w)
  BY <1>0
<1> DEFINE u == Append(queue, v)
<1>2. /\ u \in Seq(Write) /\ Len(u) = Len(queue) + 1
      /\ Stages(rows, u)[Len(queue) + 1] = Executed(Stages(rows, queue)[Len(queue)], v)
  BY <1>0, StagesAppend
<1> HIDE DEF u
<1>3. /\ Append(u, w) \in Seq(Write) /\ Len(Append(u, w)) = Len(u) + 1
      /\ Stages(rows, Append(u, w))[Len(u) + 1] = Executed(Stages(rows, u)[Len(u)], w)
  BY <1>2, StagesAppend
<1>4. queue' = Append(u, w)
  BY <1>1 DEF u
<1>5. WillHold' = Executed(Stages(rows, u)[Len(u)], w)
  BY <1>3, <1>4, WillHoldNext
<1> QED BY <1>1, <1>2, <1>3, <1>4, <1>5, WillHoldIs

\* Fewer cards in a known state.
LEMMA FewerHeld ==
    ASSUME TypeInv, SpaceInv, NEW p \in Player, Known' \subseteq Known,
           \A c \in Known' :
              /\ WillHold'[c] \in {RowOf(p, TRUE), RowOf(p, FALSE)} =>
                    WillHold[c] \in {RowOf(p, TRUE), RowOf(p, FALSE)}
              /\ WillHold'[c] = RowOf(p, FALSE) => WillHold[c] = RowOf(p, FALSE)
    PROVE  /\ Cardinality(HeldIn(WillHold, p)') <= Space
           /\ Cardinality(GiftsIn(WillHold, p)') <= GiftSpace
<1> DEFINE h == HeldIn(WillHold, p)
           g == GiftsIn(WillHold, p)
           h2 == HeldIn(WillHold, p)'
           g2 == GiftsIn(WillHold, p)'
<1>1. h2 \in SUBSET h /\ g2 \in SUBSET g
  BY DEF HeldIn, GiftsIn
<1>2. IsFiniteSet(h) /\ IsFiniteSet(g)
  BY CardAssumption, FS_Subset DEF HeldIn, GiftsIn, Known
<1>3. Cardinality(h) <= Space /\ Cardinality(g) <= GiftSpace
  BY DEF SpaceInv
<1> HIDE DEF h, g, h2, g2
<1>4. /\ Cardinality(h2) <= Cardinality(h) /\ Cardinality(g2) <= Cardinality(g)
      /\ Cardinality(h) \in Nat /\ Cardinality(g) \in Nat /\ Cardinality(h2) \in Nat /\ Cardinality(g2) \in Nat
  BY <1>1, <1>2, FS_Subset, FS_CardinalityType
<1>5. Cardinality(h2) <= Space /\ Cardinality(g2) <= GiftSpace
  BY <1>3, <1>4, SpaceAssumption
<1> QED BY <1>5 DEF h2, g2

LEMMA SameSpace ==
    ASSUME IInv, Known' \subseteq Known, \A c \in Known' : WillHold'[c] = WillHold[c]
    PROVE  SpaceInv'
  BY FewerHeld DEF IInv, SpaceInv

LEMMA SameMemory ==
    ASSUME IInv, Known' \subseteq Known, \A c \in Known' : WillHold'[c] = WillHold[c],
           loaded' \subseteq loaded,
           \A p \in loaded' : cards'[p] = cards[p] /\ gifts'[p] = gifts[p]
    PROVE  MemoryInv'
  BY DEF IInv, MemoryInv

LEMMA SameSaved ==
    ASSUME IInv, Known' \subseteq Known, rows' = rows, wornRows' = wornRows, queue' = queue
    PROVE  SavedInv'
<1> SUFFICES ASSUME NEW p \in Player, NEW c \in Known' PROVE Safe(rows', wornRows'[p], queue', p, c)
  BY DEF SavedInv
<1>1. Safe(rows, wornRows[p], queue, p, c)
  BY DEF IInv, SavedInv
<1> QED BY <1>1

\* A write at the end of the queue.
LEMMA AppendSafe ==
    ASSUME NEW t, NEW has, NEW q \in Seq(Write), NEW w \in Write, NEW p \in Player, NEW c \in Card,
           Safe(t, has, q, p, c),
           LET last == Stages(t, q)[Len(q)][c]
               next == Executed(Stages(t, q)[Len(q)], w)[c]
           IN /\ next = last \/ next \in {None, RowOf(p, TRUE)}
              /\ w.do = "save" /\ w.who = p /\ c \in w.what => next \in {None, RowOf(p, TRUE)}
    PROVE  Safe(t, has, Append(q, w), p, c)
<1> DEFINE v == Append(q, w)
           n == Len(q)
<1>1. /\ v \in Seq(Write) /\ Len(v) = n + 1 /\ n \in Nat /\ v[n + 1] = w
      /\ \A i \in 1..n : v[i] = q[i]
  OBVIOUS
<1>2. /\ \A k \in 0..n : Stages(t, v)[k] = Stages(t, q)[k]
      /\ Stages(t, v)[n + 1] = Executed(Stages(t, q)[n], w)
  BY StagesAppend
<1> HIDE DEF v
<1> SUFFICES ASSUME NEW i \in 0..Len(v), NEW k \in i..Len(v), c \in Saved(has, v, i, p)
             PROVE  Stages(t, v)[k][c] \in {None, RowOf(p, TRUE)} \/ TakenOff(v, i, p, c)
  BY DEF Safe, v
<1>3. CASE i = n + 1
  <2>1. k = n + 1 /\ i # 0
    BY <1>1, <1>3
  <2>2. w.do = "save" /\ w.who = p /\ c \in w.what
    BY <1>1, <1>3, <2>1 DEF Saved, IsSave
  <2> QED BY <1>2, <2>1, <2>2
<1>4. CASE i # n + 1
  <2>1. i \in 0..n /\ c \in Saved(has, q, i, p)
    BY <1>1, <1>4 DEF Saved, IsSave
  <2>2. TakenOff(q, i, p, c) => TakenOff(v, i, p, c)
    BY <1>1, <2>1 DEF TakenOff, IsSave
  <2>3. \A l \in i..n : Stages(t, q)[l][c] \in {None, RowOf(p, TRUE)} \/ TakenOff(q, i, p, c)
    BY <2>1 DEF Safe
  <2>4. CASE k = n + 1
    <3>1. n \in i..n
      BY <1>1, <2>1
    <3> QED BY <1>2, <2>2, <2>3, <2>4, <3>1
  <2>5. CASE k # n + 1
    <3>1. k \in i..n /\ k \in 0..n
      BY <1>1, <2>1, <2>5
    <3> QED BY <1>2, <2>2, <2>3, <3>1
  <2> QED BY <2>4, <2>5
<1> QED BY <1>3, <1>4

LEMMA SameTable == ASSUME rows' = rows, queue' = queue PROVE WillHold' = WillHold
  BY WillHoldIs, WillHoldNext

LEMMA SameKnown == ASSUME UNCHANGED history PROVE Known' = Known /\ reread' = reread /\ strayed' = strayed
  BY DEF history, Known

LEMMA AstrayIs ==
    ASSUME NEW read \in SUBSET Card, NEW stray \in SUBSET Card, Astray(read, stray), TypeInv
    PROVE  /\ reread' \in SUBSET Card /\ strayed' \in SUBSET Card
           /\ Known' = Known \ (read \cup stray)
  BY DEF Astray, Known, TypeInv

\* What is saved of a player is his.
LEMMA SaveInv ==
    ASSUME IInv, NEW p \in loaded, queue' = queue \o <<Save(p)>>, rows' = rows, wornRows' = wornRows,
           UNCHANGED history
    PROVE  SavedInv' /\ queue' \in Seq(Write) /\ \A c \in Card : WillHold'[c] = WillHold[c]
<1> DEFINE w == Save(p)
<1>0. /\ TypeInv /\ p \in Player /\ Known' = Known /\ WillHold \in Table /\ queue \in Seq(Write)
      /\ Known \subseteq Card /\ WillHold = Stages(rows, queue)[Len(queue)]
  BY SameKnown, QueuedIs, WillHoldIs DEF IInv, TypeInv, Known
<1>1. w \in Write /\ w.do = "save" /\ w.who = p /\ w.what = worn[p]
  BY <1>0 DEF Save, Write, TypeInv
<1> HIDE DEF w
<1>2. queue' = Append(queue, w) /\ queue' \in Seq(Write) /\ WillHold' = Executed(WillHold, w)
  BY <1>0, <1>1, DispatchOne DEF w
<1>3. \A c \in Card : Executed(WillHold, w)[c] = WillHold[c]
  BY <1>0, <1>1, ExecutedIs DEF Changes
<1>4. ASSUME NEW x \in Player, NEW c \in Known
      PROVE  Safe(rows, wornRows[x], Append(queue, w), x, c)
  <2>1. Safe(rows, wornRows[x], queue, x, c)
    BY DEF IInv, SavedInv
  <2>2. x = p /\ c \in worn[p] => WillHold[c] = RowOf(p, TRUE)
    BY DEF IInv, WornInv, MemoryInv
  <2>3. LET last == Stages(rows, queue)[Len(queue)][c]
            next == Executed(Stages(rows, queue)[Len(queue)], w)[c]
        IN /\ next = last \/ next \in {None, RowOf(x, TRUE)}
           /\ w.do = "save" /\ w.who = x /\ c \in w.what => next \in {None, RowOf(x, TRUE)}
    BY <1>0, <1>1, <1>3, <2>2
  <2> QED BY <1>0, <1>1, <2>1, <2>3, AppendSafe
<1>5. SavedInv'
  BY <1>0, <1>2, <1>4 DEF SavedInv
<1> QED BY <1>2, <1>3, <1>5

LEMMA FinishRoundInv ==
    ASSUME IInv, NEW p \in Player, FinishRound(p)
    PROVE  IInv'
<1>1. /\ p \in loaded /\ queue' = queue \o <<Save(p)>> /\ UNCHANGED <<rows, wornRows>> /\ UNCHANGED history
      /\ UNCHANGED <<loaded, cards, gifts, worn>> /\ Known' = Known /\ reread' = reread /\ strayed' = strayed
  BY SameKnown DEF FinishRound, Dispatch, memory, tables
<1>2. SavedInv' /\ queue' \in Seq(Write) /\ \A c \in Card : WillHold'[c] = WillHold[c]
  BY <1>1, SaveInv
<1>3. TypeInv' /\ UnloadedInv' /\ WornInv'
  BY <1>1, <1>2 DEF IInv, TypeInv, UnloadedInv, WornInv
<1>4. \A c \in Known' : WillHold'[c] = WillHold[c]
  BY <1>2 DEF Known
<1>5. MemoryInv' /\ SpaceInv'
  BY <1>1, <1>4, SameMemory, SameSpace
<1> QED BY <1>2, <1>3, <1>5 DEF IInv

LEMMA CloseInv ==
    ASSUME IInv, NEW p \in Player, Close(p)
    PROVE  IInv'
<1>1. /\ p \in loaded /\ loaded' = loaded \ {p}
      /\ cards' = [cards EXCEPT ![p] = {}] /\ gifts' = [gifts EXCEPT ![p] = {}] /\ worn' = [worn EXCEPT ![p] = {}]
      /\ queue' = queue \o <<Save(p)>> /\ UNCHANGED <<rows, wornRows>> /\ UNCHANGED history
      /\ Known' = Known /\ reread' = reread /\ strayed' = strayed
  BY SameKnown DEF Close, Forget, Dispatch, tables
<1>2. SavedInv' /\ queue' \in Seq(Write) /\ \A c \in Card : WillHold'[c] = WillHold[c]
  BY <1>1, SaveInv
<1>3. TypeInv' /\ UnloadedInv' /\ WornInv'
  BY <1>1, <1>2 DEF IInv, TypeInv, UnloadedInv, WornInv
<1>4. \A c \in Known' : WillHold'[c] = WillHold[c]
  BY <1>2 DEF Known
<1>5. \A x \in loaded' : cards'[x] = cards[x] /\ gifts'[x] = gifts[x]
  BY <1>1 DEF IInv, TypeInv
<1>6. MemoryInv' /\ SpaceInv'
  BY <1>1, <1>4, <1>5, SameMemory, SameSpace
<1> QED BY <1>2, <1>3, <1>6 DEF IInv

LEMMA WearInv ==
    ASSUME IInv, NEW p \in Player, NEW what \in SUBSET Card, Wear(p, what)
    PROVE  IInv'
<1>1. /\ what \subseteq cards[p] /\ worn' = [worn EXCEPT ![p] = what] /\ p \in loaded
      /\ UNCHANGED <<loaded, cards, gifts, rows, wornRows, queue>> /\ UNCHANGED history
      /\ Known' = Known /\ reread' = reread /\ strayed' = strayed
  BY SameKnown DEF Wear, tables
<1>2. WillHold' = WillHold
  BY <1>1, SameTable
<1>3. TypeInv' /\ UnloadedInv' /\ WornInv'
  BY <1>1 DEF IInv, TypeInv, UnloadedInv, WornInv
<1>4. MemoryInv' /\ SpaceInv' /\ SavedInv'
  BY <1>1, <1>2, SameMemory, SameSpace, SameSaved
<1> QED BY <1>3, <1>4 DEF IInv

\* What is saved now, and no write is queued about, is his who wears it.
LEMMA SavedNow ==
    ASSUME IInv, NEW p \in Player, NEW c \in Known, c \notin Queued, c \in wornRows[p]
    PROVE  rows[c] = RowOf(p, TRUE)
<1>0. /\ TypeInv /\ Len(queue) \in Nat /\ queue \in Seq(Write) /\ rows[c] # None
      /\ Safe(rows, wornRows[p], queue, p, c)
  BY DEF IInv, SavedInv, WornInv, TypeInv
<1>1. Stages(rows, queue)[0] = rows
  BY <1>0, StagesRun DEF Runs
<1>2. Stages(rows, queue)[0][c] \in {None, RowOf(p, TRUE)} \/ TakenOff(queue, 0, p, c)
  <2>1. 0 \in 0..Len(queue) /\ c \in Saved(wornRows[p], queue, 0, p)
    BY <1>0 DEF Saved
  <2> QED BY <1>0, <2>1 DEF Safe
<1>3. ~TakenOff(queue, 0, p, c)
  <2> SUFFICES ASSUME NEW j \in 1..Len(queue), IsSave(queue, j, p), c \notin queue[j].what PROVE FALSE
    BY DEF TakenOff
  <2>1. c \in About(queue[j])
    BY DEF About, IsSave
  <2> QED BY <1>0, <2>1, QueuedIs
<1> QED BY <1>0, <1>1, <1>2, <1>3

\* Who is read from the table has what it will hold, but for cards about which a
\* write is queued; and wears what is his.
LEMMA LoadInv ==
    ASSUME IInv, NEW p \in Player, Load(p)
    PROVE  IInv'
<1>0. TypeInv /\ Queued \subseteq Card /\ Known \subseteq Card
  BY QueuedIs DEF IInv, Known
<1>1. /\ loaded' = loaded \cup {p}
      /\ cards' = [cards EXCEPT ![p] = Of(p, TRUE)] /\ gifts' = [gifts EXCEPT ![p] = Of(p, FALSE)]
      /\ worn' = [worn EXCEPT ![p] = wornRows[p]] /\ Astray(Queued, {})
      /\ UNCHANGED <<rows, wornRows, queue>>
  BY DEF Load, tables
<1>2. Known' = Known \ Queued /\ reread' \in SUBSET Card /\ strayed' \in SUBSET Card
  <2>1. {} \in SUBSET Card /\ Queued \in SUBSET Card /\ Astray(Queued, {})
    BY <1>0, <1>1
  <2>2. Known' = Known \ (Queued \cup {}) /\ reread' \in SUBSET Card /\ strayed' \in SUBSET Card
    BY <1>0, <2>1, AstrayIs
  <2> QED BY <2>2
<1>3. WillHold' = WillHold
  BY <1>1, SameTable
<1>4. TypeInv' /\ UnloadedInv'
  BY <1>1, <1>2 DEF IInv, TypeInv, UnloadedInv, Of
<1>5. MemoryInv'
  <2> SUFFICES ASSUME NEW x \in loaded', NEW c \in Known'
               PROVE  /\ c \in cards'[x] <=> WillHold[c] = RowOf(x, TRUE)
                      /\ c \in gifts'[x] <=> WillHold[c] = RowOf(x, FALSE)
    BY <1>3 DEF MemoryInv
  <2>0. x \in Player /\ c \in Known /\ c \in Card /\ c \notin Queued
    BY <1>0, <1>1, <1>2 DEF TypeInv
  <2>1. CASE x = p
    <3>1. cards'[x] = Of(p, TRUE) /\ gifts'[x] = Of(p, FALSE)
      BY <1>0, <1>1, <2>1 DEF TypeInv
    <3>2. WillHold[c] = rows[c]
      BY <1>0, <2>0, QueuedIs
    <3> QED BY <2>0, <2>1, <3>1, <3>2 DEF Of, RowOf
  <2>2. CASE x # p
    BY <1>0, <1>1, <2>0, <2>2 DEF IInv, TypeInv, MemoryInv
  <2> QED BY <2>1, <2>2
<1>6. WornInv'
  <2> SUFFICES ASSUME NEW x \in Player
               PROVE  /\ worn'[x] \cap Known' \subseteq cards'[x]
                      /\ \A c \in wornRows[x] : rows[c] # None
    BY <1>1 DEF WornInv
  <2>1. \A c \in wornRows[x] : rows[c] # None
    BY DEF IInv, WornInv
  <2>2. CASE x # p
    BY <1>0, <1>1, <1>2, <2>1, <2>2 DEF IInv, TypeInv, WornInv
  <2>3. CASE x = p
    <3> SUFFICES ASSUME NEW c \in wornRows[p] \cap Known' PROVE c \in Of(p, TRUE)
      BY <1>0, <1>1, <2>1, <2>3 DEF TypeInv
    <3>1. c \in Known /\ c \notin Queued /\ c \in Card
      BY <1>0, <1>2
    <3> QED BY <2>1, <2>3, <3>1, SavedNow DEF Of, RowOf
  <2> QED BY <2>1, <2>2, <2>3
<1>7. SpaceInv' /\ SavedInv'
  BY <1>1, <1>2, <1>3, SameSpace, SameSaved
<1> QED BY <1>4, <1>5, <1>6, <1>7 DEF IInv

\* A restart loses the writes in the queue.
LEMMA RestartInv ==
    ASSUME IInv, Restart
    PROVE  IInv'
<1>0. TypeInv /\ Queued \subseteq Card /\ Known \subseteq Card /\ rows \in Table
  BY QueuedIs DEF IInv, Known, TypeInv
<1>1. /\ loaded' = {} /\ cards' = Nobodys /\ gifts' = Nobodys /\ worn' = Nobodys /\ queue' = <<>>
      /\ Astray(Queued, {}) /\ UNCHANGED <<rows, wornRows>>
  BY DEF Restart, tables
<1>2. Known' = Known \ Queued /\ reread' \in SUBSET Card /\ strayed' \in SUBSET Card
  <2>1. {} \in SUBSET Card /\ Queued \in SUBSET Card /\ Astray(Queued, {})
    BY <1>0, <1>1
  <2>2. Known' = Known \ (Queued \cup {}) /\ reread' \in SUBSET Card /\ strayed' \in SUBSET Card
    BY <1>0, <2>1, AstrayIs
  <2> QED BY <2>2
<1>3. Stages(rows, <<>>)[0] = rows /\ Len(<<>>) = 0 /\ <<>> \in Seq(Write)
  <2>1. <<>> \in Seq(Write) /\ Len(<<>>) = 0
    OBVIOUS
  <2> QED BY <2>1, StagesRun DEF Runs
<1>4. WillHold' = rows
  BY <1>1, <1>3, WillHoldNext
<1>5. \A c \in Known' : WillHold'[c] = WillHold[c]
  BY <1>0, <1>2, <1>4, QueuedIs
<1>6. TypeInv' /\ UnloadedInv' /\ WornInv' /\ MemoryInv'
  BY <1>1, <1>2, <1>3 DEF IInv, TypeInv, UnloadedInv, WornInv, MemoryInv, Nobodys
<1>7. SpaceInv'
  BY <1>2, <1>5, SameSpace
<1>8. SavedInv'
  <2> SUFFICES ASSUME NEW p \in Player, NEW c \in Known' PROVE Safe(rows, wornRows[p], <<>>, p, c)
    BY <1>1 DEF SavedInv
  <2>1. c \in Known /\ c \notin Queued
    BY <1>2
  <2>2. c \in wornRows[p] => rows[c] = RowOf(p, TRUE)
    BY <2>1, SavedNow
  <2> SUFFICES ASSUME NEW i \in 0..0, NEW k \in i..0, c \in Saved(wornRows[p], <<>>, i, p)
               PROVE  Stages(rows, <<>>)[k][c] \in {None, RowOf(p, TRUE)}
    BY <1>3 DEF Safe
  <2>3. i = 0 /\ k = 0 /\ c \in wornRows[p]
    BY DEF Saved
  <2> QED BY <1>3, <2>2, <2>3
<1> QED BY <1>6, <1>7, <1>8 DEF IInv

\* A step of the database.  What a refused save would have taken off goes astray.
LEMMA ExecuteInv ==
    ASSUME IInv, Execute
    PROVE  IInv'
<1> DEFINE w == Head(queue)
           refused == w.do = "save" /\ \E c \in w.what : rows[c] = None
           v == Tail(queue)
           n == Len(queue)
           stray == IF refused THEN About(w) ELSE {}
<1>0. /\ TypeInv /\ rows \in Table /\ queue \in Seq(Write) /\ queue # <<>> /\ Known \subseteq Card
      /\ wornRows \in [Player -> SUBSET Card]
  BY DEF Execute, IInv, TypeInv, Known
<1>1. /\ n \in Nat /\ n >= 1 /\ w \in Write /\ w = queue[1] /\ v \in Seq(Write) /\ Len(v) = n - 1
      /\ \A i \in 1..Len(v) : v[i] = queue[i + 1]
  BY <1>0
<1>2. /\ rows' = Executed(rows, w) /\ queue' = v /\ Astray({}, stray)
      /\ wornRows' = IF w.do = "save" /\ ~refused THEN [wornRows EXCEPT ![w.who] = w.what] ELSE wornRows
      /\ UNCHANGED <<loaded, cards, gifts, worn>>
  BY DEF Execute, memory
<1>3. \A k \in 0..n - 1 : Stages(rows', v)[k] = Stages(rows, queue)[k + 1]
  BY <1>0, <1>2, StagesTail
<1>4. About(w) \in SUBSET Card
  BY <1>0, <1>1 DEF About, Write
<1> HIDE DEF w, v, n
<1>5. reread' \in SUBSET Card /\ strayed' \in SUBSET Card /\ Known' = Known \ stray
  <2>1. {} \in SUBSET Card /\ stray \in SUBSET Card
    BY <1>4
  <2> HIDE DEF stray
  <2>2. reread' \in SUBSET Card /\ strayed' \in SUBSET Card /\ Known' = Known \ ({} \cup stray)
    BY <1>0, <1>2, <2>1, AstrayIs
  <2> QED BY <2>2
<1>6. /\ rows' \in Table /\ wornRows' \in [Player -> SUBSET Card]
      /\ \A c \in Card : rows'[c] = None <=> rows[c] = None
  <2>1. Executed(rows, w) \in Table /\ \A c \in Card : Executed(rows, w)[c] = None <=> rows[c] = None
    BY <1>0, <1>1, ExecutedIs
  <2>2. w.who \in Player /\ w.what \in SUBSET Card
    BY <1>1 DEF Write
  <2> QED BY <1>0, <1>2, <2>1, <2>2
<1>7. WillHold' = WillHold
  <2>1. n - 1 \in 0..n - 1 /\ (n - 1) + 1 = n
    BY <1>1
  <2>2. WillHold' = Stages(rows', v)[n - 1]
    BY <1>1, <1>2, WillHoldNext
  <2>3. WillHold = Stages(rows, queue)[n]
    BY WillHoldIs DEF n
  <2> QED BY <1>3, <2>1, <2>2, <2>3
<1>8. TypeInv' /\ UnloadedInv'
  BY <1>1, <1>2, <1>5, <1>6 DEF IInv, TypeInv, UnloadedInv
<1>9. MemoryInv' /\ SpaceInv'
  BY <1>2, <1>5, <1>7, SameMemory, SameSpace
<1>10. WornInv'
  <2> SUFFICES ASSUME NEW p \in Player
               PROVE  /\ worn[p] \cap Known' \subseteq cards[p]
                      /\ \A c \in wornRows'[p] : rows'[c] # None
    BY <1>2 DEF WornInv
  <2>1. worn[p] \cap Known' \subseteq cards[p] /\ \A c \in wornRows[p] : rows[c] # None
    BY <1>5 DEF IInv, WornInv
  <2>2. wornRows[p] \subseteq Card /\ wornRows'[p] \subseteq Card
    BY <1>0, <1>6
  <2>3. CASE wornRows'[p] = wornRows[p]
    BY <1>6, <2>1, <2>2, <2>3
  <2>4. CASE wornRows'[p] # wornRows[p]
    <3>1. ~refused /\ w.do = "save" /\ wornRows'[p] = w.what
      BY <1>0, <1>2, <2>4
    <3> QED BY <1>6, <2>1, <2>2, <3>1
  <2> QED BY <2>3, <2>4
<1>11. SavedInv'
  <2> SUFFICES ASSUME NEW p \in Player, NEW c \in Known',
                      NEW i \in 0..n - 1, NEW k \in i..n - 1, c \in Saved(wornRows'[p], v, i, p)
               PROVE  Stages(rows', v)[k][c] \in {None, RowOf(p, TRUE)} \/ TakenOff(v, i, p, c)
    BY <1>1, <1>2 DEF SavedInv, Safe
  <2>1. c \in Known /\ c \notin stray /\ Safe(rows, wornRows[p], queue, p, c)
    BY <1>5 DEF IInv, SavedInv
  <2>2. /\ k + 1 \in 0..n /\ i + 1 \in 0..n /\ k + 1 \in (i + 1)..n /\ k + 1 \in 0..n /\ k \in 0..n - 1
        /\ 0 \in 0..n /\ k + 1 \in 0..n
    BY <1>1
  <2>3. Stages(rows', v)[k] = Stages(rows, queue)[k + 1]
    BY <1>3, <2>2
  <2>4. CASE c \in Saved(wornRows[p], queue, i + 1, p)
    <3>1. Stages(rows, queue)[k + 1][c] \in {None, RowOf(p, TRUE)} \/ TakenOff(queue, i + 1, p, c)
      BY <2>1, <2>2, <2>4 DEF Safe, n
    <3>2. TakenOff(queue, i + 1, p, c) => TakenOff(v, i, p, c)
      <4> SUFFICES ASSUME NEW j \in (i + 1) + 1..n, IsSave(queue, j, p), c \notin queue[j].what
                   PROVE  TakenOff(v, i, p, c)
        BY DEF TakenOff, n
      <4>1. j - 1 \in (i + 1)..Len(v) /\ j - 1 \in 1..Len(v) /\ (j - 1) + 1 = j
        BY <1>1
      <4>2. v[j - 1] = queue[j]
        BY <1>1, <4>1
      <4> QED BY <4>1, <4>2 DEF TakenOff, IsSave
    <3> QED BY <2>3, <3>1, <3>2
  <2>5. CASE c \notin Saved(wornRows[p], queue, i + 1, p)
    <3>1. i = 0
      <4> SUFFICES ASSUME i # 0 PROVE FALSE
        OBVIOUS
      <4>1. i \in 1..Len(v) /\ i + 1 # 0
        BY <1>1
      <4>2. v[i] = queue[i + 1]
        BY <1>1, <4>1
      <4> QED BY <2>5, <4>1, <4>2 DEF Saved, IsSave
    <3>2. c \in wornRows'[p] /\ (IsSave(queue, 1, p) => c \notin w.what)
      BY <1>1, <2>5, <3>1 DEF Saved
    <3>3. c \in wornRows[p] /\ ~(w.do = "save" /\ w.who = p /\ ~refused)
      BY <1>0, <1>1, <1>2, <3>2 DEF IsSave
    <3>4. ~(IsSave(queue, 1, p) /\ c \notin queue[1].what)
      <4> SUFFICES ASSUME IsSave(queue, 1, p), c \notin queue[1].what PROVE FALSE
        OBVIOUS
      <4>1. w.do = "save" /\ w.who = p /\ c \notin w.what /\ refused
        BY <1>1, <3>3 DEF IsSave
      <4>2. c \in About(w)
        BY <3>3, <4>1 DEF About
      <4> QED BY <2>1, <4>1, <4>2
    <3>5. Stages(rows, queue)[k + 1][c] \in {None, RowOf(p, TRUE)} \/ TakenOff(queue, 0, p, c)
      BY <2>1, <2>2, <3>3 DEF Safe, Saved, n
    <3>6. TakenOff(queue, 0, p, c) => TakenOff(v, 0, p, c)
      <4> SUFFICES ASSUME NEW j \in 1..n, IsSave(queue, j, p), c \notin queue[j].what
                   PROVE  TakenOff(v, 0, p, c)
        BY DEF TakenOff, n
      <4>1. j # 1
        BY <3>4
      <4>2. j - 1 \in 1..Len(v) /\ (j - 1) + 1 = j
        BY <1>1, <4>1
      <4>3. v[j - 1] = queue[j]
        BY <1>1, <4>2
      <4> QED BY <4>2, <4>3 DEF TakenOff, IsSave
    <3> QED BY <2>3, <3>1, <3>5, <3>6
  <2> QED BY <2>4, <2>5
<1> QED BY <1>8, <1>9, <1>10, <1>11 DEF IInv
-----------------------------------------------------------------------------
(* Cards come and go                                                       *)

LEMMA Smaller ==
    ASSUME NEW A, NEW B \in SUBSET Card, A \subseteq B, NEW n \in Nat, Cardinality(B) <= n
    PROVE  Cardinality(A) <= n
<1>1. IsFiniteSet(B) /\ A \in SUBSET B
  BY CardAssumption, FS_Subset
<1>2. IsFiniteSet(A) /\ Cardinality(A) <= Cardinality(B) /\ Cardinality(A) \in Nat /\ Cardinality(B) \in Nat
  BY <1>1, FS_Subset, FS_CardinalityType
<1> QED BY <1>2

LEMMA OneMore ==
    ASSUME NEW A \in SUBSET Card, NEW c \in Card, NEW n \in Nat, Cardinality(A) < n
    PROVE  Cardinality(A \cup {c}) <= n
<1>1. IsFiniteSet(A)
  BY CardAssumption, FS_Subset
<1>2. /\ IsFiniteSet(A \cup {c})
      /\ Cardinality(A \cup {c}) = IF c \in A THEN Cardinality(A) ELSE Cardinality(A) + 1
  BY <1>1, FS_AddElement
<1>3. Cardinality(A) \in Nat
  BY <1>1, FS_CardinalityType
<1> QED BY <1>2, <1>3

\* What a player holds is what the table will say, of the cards the properties are about.
LEMMA HeldIs ==
    ASSUME IInv, NEW p \in loaded
    PROVE  /\ HeldIn(WillHold, p) = Held(p) \cap Known /\ GiftsIn(WillHold, p) = gifts[p] \cap Known
           /\ Held(p) \in SUBSET Card /\ gifts[p] \in SUBSET Card
  BY DEF IInv, TypeInv, MemoryInv, Held, HeldIn, GiftsIn

\* A change of the table while the queue stays.
LEMMA ChangedSafe ==
    ASSUME IInv, NEW p \in Player, NEW c \in Known, NEW t \in Table,
           \/ t[c] = rows[c] \/ t[c] = None
           \/ \A i \in 0..Len(queue) : c \notin Saved(wornRows[p], queue, i, p)
    PROVE  Safe(t, wornRows[p], queue, p, c)
<1>0. /\ rows \in Table /\ queue \in Seq(Write) /\ c \in Card /\ Len(queue) \in Nat
      /\ Safe(rows, wornRows[p], queue, p, c)
  BY DEF IInv, TypeInv, SavedInv, Known
<1> SUFFICES ASSUME NEW i \in 0..Len(queue), NEW k \in i..Len(queue), c \in Saved(wornRows[p], queue, i, p)
             PROVE  Stages(t, queue)[k][c] \in {None, RowOf(p, TRUE)} \/ TakenOff(queue, i, p, c)
  BY DEF Safe
<1>1. k \in 0..Len(queue)
  BY <1>0
<1>2. t[c] = None => Stages(t, queue)[k][c] = None
  BY <1>0, <1>1, StagesOfCard
<1>3. t[c] = rows[c] => Stages(t, queue)[k][c] = Stages(rows, queue)[k][c]
  BY <1>0, <1>1, StagesOfCard
<1>4. Stages(rows, queue)[k][c] \in {None, RowOf(p, TRUE)} \/ TakenOff(queue, i, p, c)
  BY <1>0 DEF Safe
<1> QED BY <1>2, <1>3, <1>4

LEMMA ChangedIs ==
    ASSUME TypeInv, rows' \in Table, queue' = queue
    PROVE  \A c \in Card :
              /\ rows'[c] = rows[c] => WillHold'[c] = WillHold[c]
              /\ rows'[c] = None => WillHold'[c] = None
              /\ c \notin Queued => WillHold'[c] = rows'[c]
<1>0. /\ rows \in Table /\ queue \in Seq(Write) /\ Len(queue) \in 0..Len(queue)
      /\ \A i \in 1..Len(queue) : queue[i] \in Write /\ About(queue[i]) \subseteq Queued
  BY QueuedIs DEF TypeInv
<1>1. WillHold = Stages(rows, queue)[Len(queue)] /\ WillHold' = Stages(rows', queue)[Len(queue)]
  BY WillHoldIs, WillHoldNext
<1>2. ASSUME NEW c \in Card
      PROVE  /\ rows'[c] = rows[c] => WillHold'[c] = WillHold[c]
             /\ rows'[c] = None => WillHold'[c] = None
             /\ c \notin Queued => WillHold'[c] = rows'[c]
  <2>1. c \notin Queued => \A i \in 1..Len(queue) : ~Changes(queue[i], c)
    BY <1>0 DEF Changes, About
  <2> DEFINE t == rows'
  <2>2. t \in Table
    OBVIOUS
  <2> HIDE DEF t
  <2>3. /\ (\A i \in 1..Len(queue) : ~Changes(queue[i], c)) => Stages(t, queue)[Len(queue)][c] = t[c]
        /\ t[c] = None => Stages(t, queue)[Len(queue)][c] = None
        /\ rows[c] = t[c] => Stages(rows, queue)[Len(queue)][c] = Stages(t, queue)[Len(queue)][c]
    BY <1>0, <2>2, StagesOfCard
  <2> QED BY <1>1, <2>1, <2>3 DEF t
<1> QED BY <1>2

\* The number of a new row is not in anybody's hands, nor will it be saved.
LEMMA UnusedIs ==
    ASSUME IInv, NEW c \in Unused
    PROVE  /\ c \in Known /\ c \notin Queued /\ rows[c] = None
           /\ \A p \in Player : c \notin cards[p] /\ c \notin gifts[p]
           /\ \A p \in Player : \A i \in 0..Len(queue) : c \notin Saved(wornRows[p], queue, i, p)
<1>1. /\ c \in Known /\ c \notin Queued /\ rows[c] = None /\ c \in Card
      /\ \A p \in Player : c \notin cards[p] /\ c \notin gifts[p]
  BY DEF Unused, Known
<1>2. \A p \in Player : c \notin wornRows[p]
  BY <1>1 DEF IInv, WornInv
<1>3. ASSUME NEW p \in Player, NEW i \in 1..Len(queue), IsSave(queue, i, p) PROVE c \notin queue[i].what
  <2>1. About(queue[i]) \subseteq Queued
    BY QueuedIs DEF IInv
  <2> QED BY <1>1, <1>2, <1>3, <2>1 DEF About, IsSave
<1>4. Len(queue) \in Nat
  BY DEF IInv, TypeInv
<1> QED BY <1>1, <1>2, <1>3, <1>4 DEF Saved

\* New cards, of which the inventory keeps some; there is room for these.
LEMMA DrawInv ==
    ASSUME IInv, NEW p \in loaded, NEW new \in SUBSET Unused, NEW kept \in SUBSET new,
           Cardinality(Held(p) \cup kept) <= Space,
           Inserted(new, p), cards' = [cards EXCEPT ![p] = @ \cup kept], Astray({}, new \ kept),
           UNCHANGED <<loaded, gifts, worn, wornRows, queue>>
    PROVE  IInv'
<1>0. /\ TypeInv /\ rows \in Table /\ new \subseteq Card /\ p \in Player
      /\ rows' = [c \in Card |-> IF c \in new THEN RowOf(p, TRUE) ELSE rows[c]]
  BY DEF IInv, TypeInv, Unused, Inserted, RowOf
<1>1. reread' \in SUBSET Card /\ strayed' \in SUBSET Card /\ Known' = Known \ (new \ kept) /\ Known \subseteq Card
  <2>1. {} \in SUBSET Card /\ new \ kept \in SUBSET Card
    BY <1>0
  <2>2. reread' \in SUBSET Card /\ strayed' \in SUBSET Card /\ Known' = Known \ ({} \cup (new \ kept))
    BY <1>0, <2>1, AstrayIs
  <2> QED BY <2>2 DEF Known
<1>2. rows' \in Table
  BY <1>0, Rows DEF Table
<1>3. \A c \in new : /\ c \in Known /\ c \notin Queued /\ rows[c] = None /\ WillHold[c] = None
                     /\ \A x \in Player : c \notin cards[x] /\ c \notin gifts[x]
  BY <1>0, UnusedIs, QueuedIs
<1>4. \A c \in Card : WillHold'[c] = IF c \in new THEN RowOf(p, TRUE) ELSE WillHold[c]
  BY <1>0, <1>2, <1>3, ChangedIs
<1>5. TypeInv' /\ UnloadedInv'
  BY <1>0, <1>1, <1>2 DEF IInv, TypeInv, UnloadedInv
<1>6. MemoryInv'
  <2> SUFFICES ASSUME NEW x \in loaded, NEW c \in Known'
               PROVE  /\ c \in cards'[x] <=> WillHold'[c] = RowOf(x, TRUE)
                      /\ c \in gifts[x] <=> WillHold'[c] = RowOf(x, FALSE)
    BY DEF MemoryInv
  <2>1. x \in Player /\ c \in Card /\ c \in Known /\ (c \in new => c \in kept)
    BY <1>0, <1>1 DEF TypeInv
  <2>2. c \in cards'[x] <=> c \in cards[x] \/ (x = p /\ c \in kept)
    <3>1. cards'[x] = IF x = p THEN cards[x] \cup kept ELSE cards[x]
      BY <1>0, <2>1 DEF TypeInv
    <3>2. CASE x = p
      BY <3>1, <3>2
    <3>3. CASE x # p
      BY <3>1, <3>3
    <3> QED BY <3>2, <3>3
  <2>3. c \in cards[x] <=> WillHold[c] = RowOf(x, TRUE)
    BY <2>1 DEF IInv, MemoryInv
  <2>4. c \in gifts[x] <=> WillHold[c] = RowOf(x, FALSE)
    BY <2>1 DEF IInv, MemoryInv
  <2>5. CASE c \in new
    <3>1. WillHold'[c] = RowOf(p, TRUE) /\ c \notin cards[x] /\ c \notin gifts[x] /\ c \in kept
      BY <1>3, <1>4, <2>1, <2>5
    <3>2. (RowOf(p, TRUE) = RowOf(x, TRUE) <=> x = p) /\ RowOf(p, TRUE) # RowOf(x, FALSE)
      BY <1>0, <2>1, Rows
    <3>3. c \in cards'[x] <=> WillHold'[c] = RowOf(x, TRUE)
      BY <2>2, <3>1, <3>2, Zenon
    <3>4. c \in gifts[x] <=> WillHold'[c] = RowOf(x, FALSE)
      BY <3>1, <3>2, Zenon
    <3> QED BY <3>3, <3>4
  <2>6. CASE c \notin new
    <3>1. WillHold'[c] = WillHold[c] /\ c \notin kept
      BY <1>4, <2>1, <2>6
    <3>2. c \in cards'[x] <=> WillHold'[c] = RowOf(x, TRUE)
      BY <2>2, <2>3, <3>1, Zenon
    <3>3. c \in gifts[x] <=> WillHold'[c] = RowOf(x, FALSE)
      BY <2>4, <3>1, Zenon
    <3> QED BY <3>2, <3>3
  <2> QED BY <2>5, <2>6
<1>7. WornInv'
  <2>1. \A x \in Player : cards[x] \subseteq cards'[x]
    BY <1>0 DEF TypeInv
  <2>2. \A c \in Card : rows[c] # None => rows'[c] # None
    BY <1>0, Rows
  <2>3. \A x \in Player : wornRows[x] \subseteq Card
    BY <1>0 DEF TypeInv
  <2> QED BY <1>1, <2>1, <2>2, <2>3 DEF IInv, WornInv
<1>8. SavedInv'
  <2> SUFFICES ASSUME NEW x \in Player, NEW c \in Known' PROVE Safe(rows', wornRows[x], queue, x, c)
    BY DEF SavedInv
  <2>1. c \in Known /\ c \in Card
    BY <1>1
  <2>2. \/ rows'[c] = rows[c]
        \/ \A i \in 0..Len(queue) : c \notin Saved(wornRows[x], queue, i, x)
    BY <1>0, <2>1, UnusedIs
  <2> QED BY <1>2, <2>1, <2>2, ChangedSafe
<1>9. SpaceInv'
  <2> SUFFICES ASSUME NEW x \in Player
               PROVE  /\ Cardinality(HeldIn(WillHold, x)') <= Space
                      /\ Cardinality(GiftsIn(WillHold, x)') <= GiftSpace
    BY DEF SpaceInv
  <2>1. HeldIn(WillHold, x) \in SUBSET Card /\ GiftsIn(WillHold, x) \in SUBSET Card
    BY <1>1 DEF HeldIn, GiftsIn
  <2>2. Cardinality(HeldIn(WillHold, x)) <= Space /\ Cardinality(GiftsIn(WillHold, x)) <= GiftSpace
    BY DEF IInv, SpaceInv
  <2>0. /\ RowOf(p, TRUE) # RowOf(x, FALSE) /\ (x # p => RowOf(p, TRUE) # RowOf(x, TRUE))
        /\ \A c \in Known' : c \in Known /\ c \in Card
    BY <1>0, <1>1, Rows
  <2>3. GiftsIn(WillHold, x)' \subseteq GiftsIn(WillHold, x)
    BY <1>4, <2>0 DEF GiftsIn
  <2>4. Cardinality(GiftsIn(WillHold, x)') <= GiftSpace
    BY <2>1, <2>2, <2>3, Smaller, SpaceAssumption
  <2>5. CASE x = p
    <3>1. HeldIn(WillHold, x)' \subseteq Held(p) \cup kept
      <4> SUFFICES ASSUME NEW c \in Known', WillHold'[c] \in {RowOf(p, TRUE), RowOf(p, FALSE)}
                   PROVE  c \in Held(p) \cup kept
        BY <2>5 DEF HeldIn
      <4>1. CASE c \in new
        BY <1>1, <4>1
      <4>2. CASE c \notin new
        <5>1. c \in HeldIn(WillHold, p)
          BY <1>1, <1>4, <4>2 DEF HeldIn
        <5> QED BY <5>1, HeldIs
      <4> QED BY <4>1, <4>2
    <3>2. Held(p) \cup kept \in SUBSET Card
      BY <1>0, HeldIs
    <3> QED BY <2>4, <3>1, <3>2, Smaller, SpaceAssumption
  <2>6. CASE x # p
    <3>1. HeldIn(WillHold, x)' \subseteq HeldIn(WillHold, x)
      BY <1>4, <2>0, <2>6 DEF HeldIn
    <3> QED BY <2>1, <2>2, <2>4, <3>1, Smaller, SpaceAssumption
  <2> QED BY <2>5, <2>6
<1> QED BY <1>5, <1>6, <1>7, <1>8, <1>9 DEF IInv

LEMMA BuyInv ==
    ASSUME IInv, NEW p \in Player, Buy(p)
    PROVE  IInv'
<1>1. PICK c \in Unused : Inserted({c}, p) /\ cards' = [cards EXCEPT ![p] = @ \cup {c}]
  BY DEF Buy
<1>2. /\ p \in loaded /\ Cardinality(Held(p)) < Space /\ c \in Card
      /\ UNCHANGED <<loaded, gifts, worn, wornRows, queue>> /\ UNCHANGED <<reread, strayed>>
  BY DEF Buy, HasSpace, history, Unused
<1>3. Cardinality(Held(p) \cup {c}) <= Space
  BY <1>2, HeldIs, OneMore, SpaceAssumption
<1>4. Astray({}, {c} \ {c})
  BY <1>2 DEF Astray
<1>5. {c} \in SUBSET Unused /\ {c} \in SUBSET {c}
  OBVIOUS
<1> QED BY <1>1, <1>2, <1>3, <1>4, <1>5, DrawInv

LEMMA UseCraneInv ==
    ASSUME IInv, NEW p \in Player, UseCrane(p)
    PROVE  IInv'
<1>1. PICK new \in SUBSET Unused :
        /\ Inserted(new, p)
        /\ \E kept \in SUBSET new : /\ Cardinality(Held(p) \cup kept) <= Space
                                    /\ cards' = [cards EXCEPT ![p] = @ \cup kept] /\ Astray({}, new \ kept)
  BY DEF UseCrane
<1>2. p \in loaded /\ UNCHANGED <<loaded, gifts, worn, wornRows, queue>>
  BY DEF UseCrane
<1> QED BY <1>1, <1>2, DrawInv
\* A card is deleted, or was not to be.
LEMMA DeleteInv ==
    ASSUME IInv, NEW p \in Player, NEW c \in Card, Delete(p, c)
    PROVE  IInv'
<1> DEFINE done == rows[c] # None /\ rows[c].owner = p /\ \A q \in Player : c \notin wornRows[q]
           stray == IF done THEN {} ELSE {c}
<1>0. /\ TypeInv /\ rows \in Table /\ Known \subseteq Card /\ stray \in SUBSET Card /\ WillHold \in Table
  BY QueuedIs DEF IInv, TypeInv, Known
<1>1. /\ c \in cards[p] /\ c \notin worn[p] /\ cards' = [cards EXCEPT ![p] = @ \ {c}]
      /\ UNCHANGED <<loaded, gifts, worn, wornRows, queue>>
      /\ Astray({}, stray)
      /\ done => rows' = [rows EXCEPT ![c] = None]
      /\ ~done => rows' = rows
  BY DEF Delete
<1>2. reread' \in SUBSET Card /\ strayed' \in SUBSET Card /\ Known' = Known \ stray
  <2> HIDE DEF stray
  <2>1. {} \in SUBSET Card
    OBVIOUS
  <2>2. reread' \in SUBSET Card /\ strayed' \in SUBSET Card /\ Known' = Known \ ({} \cup stray)
    BY <1>0, <1>1, <2>1, AstrayIs
  <2> QED BY <2>2
<1>3. /\ p \in loaded /\ (c \in Known' => done)
      /\ \A x \in Player, d \in Card : d \in cards'[x] <=> d \in cards[x] /\ ~(x = p /\ d = c)
  BY <1>0, <1>1, <1>2 DEF IInv, UnloadedInv, TypeInv
<1>4. /\ rows' \in Table
      /\ \A d \in Card : d # c => rows'[d] = rows[d]
      /\ done => rows'[c] = None
  BY <1>0, <1>1 DEF Table
<1>5. /\ \A d \in Card : d # c => WillHold'[d] = WillHold[d]
      /\ done => WillHold'[c] = None
  BY <1>0, <1>1, <1>4, ChangedIs
<1> HIDE DEF done, stray
<1>6. Known' \subseteq Known
  BY <1>2
<1>7. TypeInv' /\ UnloadedInv'
  BY <1>0, <1>1, <1>2, <1>4 DEF IInv, TypeInv, UnloadedInv
<1>8. MemoryInv'
  <2> SUFFICES ASSUME NEW x \in loaded, NEW d \in Known'
               PROVE  /\ d \in cards'[x] <=> WillHold'[d] = RowOf(x, TRUE)
                      /\ d \in gifts[x] <=> WillHold'[d] = RowOf(x, FALSE)
    BY <1>1 DEF MemoryInv
  <2>1. /\ x \in Player /\ d \in Card
        /\ d \in cards[x] <=> WillHold[d] = RowOf(x, TRUE)
        /\ d \in gifts[x] <=> WillHold[d] = RowOf(x, FALSE)
    BY <1>0, <1>6 DEF IInv, MemoryInv, TypeInv
  <2>2. d \in cards'[x] <=> d \in cards[x] /\ ~(x = p /\ d = c)
    BY <1>3, <2>1
  <2>3. CASE d # c
    <3>1. WillHold'[d] = WillHold[d]
      BY <1>5, <2>1, <2>3
    <3> QED BY <2>1, <2>2, <2>3, <3>1
  <2>4. CASE d = c
    <3>1. WillHold'[d] = None /\ WillHold[d] = RowOf(p, TRUE)
      BY <1>1, <1>3, <1>5, <1>6, <2>4 DEF IInv, MemoryInv
    <3>2. /\ None # RowOf(x, TRUE) /\ None # RowOf(x, FALSE) /\ RowOf(p, TRUE) # RowOf(x, FALSE)
          /\ (RowOf(p, TRUE) = RowOf(x, TRUE) => x = p)
      BY <2>1, Rows
    <3> QED BY <2>1, <2>2, <2>4, <3>1, <3>2
  <2> QED BY <2>3, <2>4
<1>9. WornInv'
  <2> SUFFICES ASSUME NEW x \in Player
               PROVE  /\ \A d \in worn[x] \cap Known' : d \in cards'[x]
                      /\ \A d \in wornRows[x] : rows'[d] # None
    BY <1>1 DEF WornInv
  <2>1. /\ worn[x] \cap Known \subseteq cards[x] /\ wornRows[x] \subseteq Card
        /\ \A d \in wornRows[x] : rows[d] # None
    BY <1>0 DEF IInv, WornInv, TypeInv
  <2>2. c \in wornRows[x] => rows'[c] = rows[c]
    BY <1>1 DEF done
  <2> QED BY <1>0, <1>1, <1>3, <1>4, <1>6, <2>1, <2>2
<1>10. SavedInv'
  <2> SUFFICES ASSUME NEW x \in Player, NEW d \in Known' PROVE Safe(rows', wornRows[x], queue, x, d)
    BY <1>1 DEF SavedInv
  <2>1. rows'[d] = rows[d] \/ rows'[d] = None
    BY <1>0, <1>3, <1>4, <1>6
  <2> QED BY <1>4, <1>6, <2>1, ChangedSafe
<1>11. SpaceInv'
  <2> SUFFICES ASSUME NEW x \in Player
               PROVE  /\ Cardinality(HeldIn(WillHold, x)') <= Space
                      /\ Cardinality(GiftsIn(WillHold, x)') <= GiftSpace
    BY DEF SpaceInv
  <2>1. \A d \in Known' : WillHold'[d] = WillHold[d] \/ WillHold'[d] = None
    BY <1>0, <1>3, <1>5, <1>6
  <2>2. None # RowOf(x, TRUE) /\ None # RowOf(x, FALSE)
    BY Rows
  <2> QED BY <1>6, <2>1, <2>2, FewerHeld DEF IInv
<1> QED BY <1>7, <1>8, <1>9, <1>10, <1>11 DEF IInv
-----------------------------------------------------------------------------
(* Gifts                                                                   *)

\* Whatever save of a player had the card, a later one takes it off.
Off(has, q, p, c) == \A i \in 0..Len(q) : c \in Saved(has, q, i, p) => TakenOff(q, i, p, c)

LEMMA OffIs ==
    ASSUME NEW t, NEW has, NEW q \in Seq(Write), NEW p, NEW c
    PROVE  /\ Off(has, q, p, c) => Safe(t, has, q, p, c)
           /\ Safe(t, has, q, p, c) /\ Stages(t, q)[Len(q)][c] \notin {None, RowOf(p, TRUE)} => Off(has, q, p, c)
<1>1. Len(q) \in Nat
  OBVIOUS
<1>2. \A i \in 0..Len(q) : Len(q) \in i..Len(q)
  BY <1>1
<1> QED BY <1>2 DEF Off, Safe

LEMMA AppendOff ==
    ASSUME NEW has, NEW q \in Seq(Write), NEW w \in Write, NEW p, NEW c,
           IF w.do = "save" /\ w.who = p THEN c \notin w.what ELSE Off(has, q, p, c)
    PROVE  Off(has, Append(q, w), p, c)
<1> DEFINE v == Append(q, w)
           n == Len(q)
<1>1. /\ v \in Seq(Write) /\ Len(v) = n + 1 /\ n \in Nat /\ v[n + 1] = w
      /\ \A i \in 1..n : v[i] = q[i]
  OBVIOUS
<1> HIDE DEF v
<1> SUFFICES ASSUME NEW i \in 0..Len(v), c \in Saved(has, v, i, p)
             PROVE  TakenOff(v, i, p, c)
  BY DEF Off, v
<1>2. IsSave(v, n + 1, p) <=> w.do = "save" /\ w.who = p
  BY <1>1 DEF IsSave
<1>3. i # n + 1
  <2> SUFFICES ASSUME i = n + 1 PROVE FALSE
    OBVIOUS
  <2>1. i # 0 /\ v[i] = w
    BY <1>1
  <2> QED BY <1>2, <2>1 DEF Saved
<1>4. i \in 0..n /\ c \in Saved(has, q, i, p)
  BY <1>1, <1>3 DEF Saved, IsSave
<1>5. CASE IsSave(v, n + 1, p)
  <2>1. n + 1 \in (i + 1)..Len(v)
    BY <1>1, <1>4
  <2> QED BY <1>1, <1>2, <1>5, <2>1 DEF TakenOff
<1>6. CASE ~IsSave(v, n + 1, p)
  <2>1. TakenOff(q, i, p, c)
    BY <1>2, <1>4, <1>6 DEF Off
  <2> QED BY <1>1, <1>4, <2>1 DEF TakenOff, IsSave
<1> QED BY <1>5, <1>6

\* What the two writes about gifts do to a table.
LEMMA GiftWrites ==
    ASSUME NEW p \in Player, NEW c \in Card
    PROVE  /\ Give(c, p) \in Write /\ Open(c, p) \in Write /\ Give(c, p).do # "save" /\ Open(c, p).do # "save"
           /\ \A table \in Table :
                /\ \A d \in Card : d # c => /\ Executed(table, Give(c, p))[d] = table[d]
                                            /\ Executed(table, Open(c, p))[d] = table[d]
                /\ table[c] # None => Executed(table, Give(c, p))[c] = RowOf(p, FALSE)
                /\ table[c] = RowOf(p, FALSE) => Executed(table, Open(c, p))[c] = RowOf(p, TRUE)
<1>1. Give(c, p) \in Write /\ Open(c, p) \in Write /\ Give(c, p).do # "save" /\ Open(c, p).do # "save"
  BY DEF Write, Give, Open
<1>2. \A table \in Table : table[c] # None => Executed(table, Give(c, p))[c] = RowOf(p, FALSE)
  BY DEF Executed, Give, RowOf
<1>3. \A table \in Table : table[c] = RowOf(p, FALSE) => Executed(table, Open(c, p))[c] = RowOf(p, TRUE)
  <2>1. RowOf(p, FALSE) # None
    BY Rows
  <2> DEFINE Opened(r) == [r EXCEPT !.opened = TRUE]
  <2>2. \A table \in Table : table[c] # None => Executed(table, Open(c, p))[c] = Opened(table[c])
    BY DEF Executed, Open
  <2>3. Opened(RowOf(p, FALSE)) = RowOf(p, TRUE)
    <3>1. \A r \in Row : Opened(r) \in Row /\ Opened(r).owner = r.owner /\ Opened(r).opened = TRUE
      BY DEF Row
    <3>2. RowOf(p, FALSE) \in Row /\ RowOf(p, FALSE).owner = p
      BY DEF RowOf, Row
    <3>3. \A r \in Row : r.owner = p /\ r.opened = TRUE => r = RowOf(p, TRUE)
      BY DEF RowOf, Row
    <3> HIDE DEF Opened
    <3> QED BY <3>1, <3>2, <3>3
  <2> HIDE DEF Opened
  <2> QED BY <2>1, <2>2, <2>3
<1>4. \A d \in Card : d # c => ~Changes(Give(c, p), d) /\ ~Changes(Open(c, p), d)
  BY DEF Changes, Give, Open
<1> QED BY <1>1, <1>2, <1>3, <1>4, ExecutedIs

\* A gift is opened: in memory at once, in the table when its turn comes.
LEMMA OpenGiftInv ==
    ASSUME IInv, NEW p \in Player, NEW c \in Card, OpenGift(p, c)
    PROVE  IInv'
<1> DEFINE w == Open(c, p)
<1>0. /\ TypeInv /\ Known \subseteq Card /\ WillHold \in Table /\ queue \in Seq(Write) /\ loaded \subseteq Player
      /\ WillHold = Stages(rows, queue)[Len(queue)]
  BY QueuedIs, WillHoldIs DEF IInv, TypeInv, Known
<1>1. /\ c \in gifts[p] /\ gifts' = [gifts EXCEPT ![p] = @ \ {c}] /\ cards' = [cards EXCEPT ![p] = @ \cup {c}]
      /\ queue' = queue \o <<w>> /\ UNCHANGED <<loaded, worn, rows, wornRows>>
      /\ Known' = Known /\ reread' = reread /\ strayed' = strayed
  BY SameKnown DEF OpenGift, Dispatch, tables
<1>2. p \in loaded
  BY <1>1 DEF IInv, UnloadedInv
<1>3. /\ w \in Write /\ w.do # "save"
      /\ \A d \in Card : d # c => Executed(WillHold, w)[d] = WillHold[d]
      /\ WillHold[c] = RowOf(p, FALSE) => Executed(WillHold, w)[c] = RowOf(p, TRUE)
  BY <1>0, GiftWrites
<1> HIDE DEF w
<1>4. queue' = Append(queue, w) /\ queue' \in Seq(Write) /\ WillHold' = Executed(WillHold, w)
  BY <1>0, <1>1, <1>3, DispatchOne
<1>5. ASSUME c \in Known PROVE WillHold[c] = RowOf(p, FALSE) /\ WillHold'[c] = RowOf(p, TRUE)
  BY <1>1, <1>2, <1>3, <1>4, <1>5 DEF IInv, MemoryInv
<1>6. \A d \in Card : d # c => WillHold'[d] = WillHold[d]
  BY <1>3, <1>4
<1>7. /\ \A x \in Player, d \in Card : d \in cards'[x] <=> d \in cards[x] \/ (x = p /\ d = c)
      /\ \A x \in Player, d \in Card : d \in gifts'[x] <=> d \in gifts[x] /\ ~(x = p /\ d = c)
  BY <1>0, <1>1 DEF TypeInv
<1>8. TypeInv' /\ UnloadedInv' /\ WornInv'
  <2>1. TypeInv' /\ UnloadedInv'
    BY <1>0, <1>1, <1>2, <1>4 DEF IInv, TypeInv, UnloadedInv
  <2>2. WornInv'
    BY <1>0, <1>1, <1>7 DEF IInv, WornInv
  <2> QED BY <2>1, <2>2
<1>9. MemoryInv'
  <2> SUFFICES ASSUME NEW x \in loaded, NEW d \in Known
               PROVE  /\ d \in cards'[x] <=> WillHold'[d] = RowOf(x, TRUE)
                      /\ d \in gifts'[x] <=> WillHold'[d] = RowOf(x, FALSE)
    BY <1>1 DEF MemoryInv
  <2>1. /\ x \in Player /\ d \in Card
        /\ d \in cards[x] <=> WillHold[d] = RowOf(x, TRUE)
        /\ d \in gifts[x] <=> WillHold[d] = RowOf(x, FALSE)
    BY <1>0 DEF IInv, MemoryInv
  <2>2. /\ d \in cards'[x] <=> d \in cards[x] \/ (x = p /\ d = c)
        /\ d \in gifts'[x] <=> d \in gifts[x] /\ ~(x = p /\ d = c)
    BY <1>7, <2>1
  <2>3. CASE d # c
    <3>1. WillHold'[d] = WillHold[d]
      BY <1>6, <2>1, <2>3
    <3> QED BY <2>1, <2>2, <2>3, <3>1
  <2>4. CASE d = c
    <3>1. WillHold[d] = RowOf(p, FALSE) /\ WillHold'[d] = RowOf(p, TRUE)
      BY <1>5, <2>4
    <3>2. /\ RowOf(p, TRUE) # RowOf(x, FALSE) /\ RowOf(p, FALSE) # RowOf(x, TRUE)
          /\ (RowOf(p, TRUE) = RowOf(x, TRUE) <=> x = p) /\ (RowOf(p, FALSE) = RowOf(x, FALSE) <=> x = p)
      BY <2>1, Rows
    <3>3. d \in cards'[x] <=> WillHold'[d] = RowOf(x, TRUE)
      BY <2>1, <2>2, <2>4, <3>1, <3>2, Zenon
    <3>4. d \in gifts'[x] <=> WillHold'[d] = RowOf(x, FALSE)
      BY <2>1, <2>2, <2>4, <3>1, <3>2, Zenon
    <3> QED BY <3>3, <3>4
  <2> QED BY <2>3, <2>4
<1>10. SavedInv'
  <2> SUFFICES ASSUME NEW x \in Player, NEW d \in Known
               PROVE  Safe(rows, wornRows[x], Append(queue, w), x, d)
    BY <1>1, <1>4 DEF SavedInv
  <2>1. Safe(rows, wornRows[x], queue, x, d) /\ d \in Card
    BY <1>0 DEF IInv, SavedInv
  <2>2. CASE d = c /\ x # p
    <3>1. WillHold[d] \notin {None, RowOf(x, TRUE)}
      BY <1>5, <2>2, Rows
    <3>2. Off(wornRows[x], queue, x, d)
      BY <1>0, <2>1, <3>1, OffIs
    <3>3. Off(wornRows[x], Append(queue, w), x, d)
      BY <1>0, <1>3, <3>2, AppendOff
    <3> QED BY <1>4, <3>3, OffIs
  <2>3. CASE ~(d = c /\ x # p)
    <3>1. Executed(WillHold, w)[d] = WillHold[d] \/ Executed(WillHold, w)[d] = RowOf(x, TRUE)
      BY <1>3, <1>4, <1>5, <2>1, <2>3
    <3> QED BY <1>0, <1>3, <2>1, <3>1, AppendSafe
  <2> QED BY <2>2, <2>3
<1>11. SpaceInv'
  <2> SUFFICES ASSUME NEW x \in Player
               PROVE  /\ Cardinality(HeldIn(WillHold, x)') <= Space
                      /\ Cardinality(GiftsIn(WillHold, x)') <= GiftSpace
    BY DEF SpaceInv
  <2>1. /\ RowOf(p, TRUE) # RowOf(x, FALSE) /\ (RowOf(p, TRUE) = RowOf(x, TRUE) => x = p)
    BY Rows
  <2>2. \A d \in Known :
           /\ WillHold'[d] \in {RowOf(x, TRUE), RowOf(x, FALSE)} =>
                 WillHold[d] \in {RowOf(x, TRUE), RowOf(x, FALSE)}
           /\ WillHold'[d] = RowOf(x, FALSE) => WillHold[d] = RowOf(x, FALSE)
    BY <1>0, <1>5, <1>6, <2>1
  <2> QED BY <1>1, <2>2, FewerHeld DEF IInv
<1> QED BY <1>8, <1>9, <1>10, <1>11 DEF IInv

\* A gift is on its way: who made it is saved without it, which a card that is worn
\* elsewhere would not survive.
LEMMA GiftCardInv ==
    ASSUME IInv, NEW p \in Player, NEW q \in Player, NEW c \in Card, GiftCard(p, q, c)
    PROVE  IInv'
<1> DEFINE v == Give(c, q)
           w == Save(p)
           u == Append(queue, v)
<1>0. /\ TypeInv /\ Known \subseteq Card /\ WillHold \in Table /\ queue \in Seq(Write) /\ loaded \subseteq Player
      /\ WillHold = Stages(rows, queue)[Len(queue)] /\ worn[p] \in SUBSET Card
  BY QueuedIs, WillHoldIs DEF IInv, TypeInv, Known
<1>1. /\ p \in loaded /\ q \in loaded /\ p # q /\ c \in cards[p] /\ c \notin worn[p]
      /\ Cardinality(Held(q)) < Space /\ Cardinality(gifts[q]) < GiftSpace
      /\ cards' = [cards EXCEPT ![p] = @ \ {c}] /\ gifts' = [gifts EXCEPT ![q] = @ \cup {c}]
      /\ queue' = queue \o <<v, w>> /\ UNCHANGED <<loaded, worn, rows, wornRows>>
      /\ Known' = Known /\ reread' = reread /\ strayed' = strayed
  BY SameKnown DEF GiftCard, HasSpace, HasGiftSpace, Dispatch, tables
<1>2. w \in Write /\ w.do = "save" /\ w.who = p /\ w.what = worn[p]
  BY <1>0 DEF Save, Write
<1>3. /\ v \in Write /\ v.do # "save"
      /\ \A d \in Card : d # c => Executed(WillHold, v)[d] = WillHold[d]
      /\ WillHold[c] # None => Executed(WillHold, v)[c] = RowOf(q, FALSE)
  BY <1>0, GiftWrites
<1> HIDE DEF v, w
<1>4. queue' = Append(u, w) /\ queue' \in Seq(Write) /\ WillHold' = Executed(Executed(WillHold, v), w)
  BY <1>0, <1>1, <1>2, <1>3, DispatchTwo
<1>5. u \in Seq(Write) /\ Stages(rows, u)[Len(u)] = Executed(WillHold, v)
  BY <1>0, <1>3, StagesAppend
<1>6. \A d \in Card : WillHold'[d] = Executed(WillHold, v)[d]
  BY <1>0, <1>2, <1>3, <1>4, ExecutedIs DEF Changes
<1> HIDE DEF u
<1>7. ASSUME c \in Known PROVE WillHold[c] = RowOf(p, TRUE) /\ WillHold'[c] = RowOf(q, FALSE)
  <2>1. WillHold[c] = RowOf(p, TRUE)
    BY <1>1, <1>7 DEF IInv, MemoryInv
  <2> QED BY <1>3, <1>6, <2>1, Rows
<1>8. \A d \in Card : d # c => WillHold'[d] = WillHold[d]
  BY <1>3, <1>6
<1>9. /\ \A x \in Player, d \in Card : d \in cards'[x] <=> d \in cards[x] /\ ~(x = p /\ d = c)
      /\ \A x \in Player, d \in Card : d \in gifts'[x] <=> d \in gifts[x] \/ (x = q /\ d = c)
  BY <1>0, <1>1 DEF TypeInv
<1>10. TypeInv' /\ UnloadedInv' /\ WornInv'
  <2>1. TypeInv' /\ UnloadedInv'
    BY <1>0, <1>1, <1>4 DEF IInv, TypeInv, UnloadedInv
  <2>2. WornInv'
    BY <1>0, <1>1, <1>9 DEF IInv, WornInv
  <2> QED BY <2>1, <2>2
<1>11. MemoryInv'
  <2> SUFFICES ASSUME NEW x \in loaded, NEW d \in Known
               PROVE  /\ d \in cards'[x] <=> WillHold'[d] = RowOf(x, TRUE)
                      /\ d \in gifts'[x] <=> WillHold'[d] = RowOf(x, FALSE)
    BY <1>1 DEF MemoryInv
  <2>1. /\ x \in Player /\ d \in Card
        /\ d \in cards[x] <=> WillHold[d] = RowOf(x, TRUE)
        /\ d \in gifts[x] <=> WillHold[d] = RowOf(x, FALSE)
    BY <1>0 DEF IInv, MemoryInv
  <2>2. /\ d \in cards'[x] <=> d \in cards[x] /\ ~(x = p /\ d = c)
        /\ d \in gifts'[x] <=> d \in gifts[x] \/ (x = q /\ d = c)
    BY <1>9, <2>1
  <2>3. CASE d # c
    <3>1. WillHold'[d] = WillHold[d]
      BY <1>8, <2>1, <2>3
    <3> QED BY <2>1, <2>2, <2>3, <3>1
  <2>4. CASE d = c
    <3>1. WillHold[d] = RowOf(p, TRUE) /\ WillHold'[d] = RowOf(q, FALSE)
      BY <1>7, <2>4
    <3>2. /\ RowOf(q, FALSE) # RowOf(x, TRUE) /\ RowOf(p, TRUE) # RowOf(x, FALSE)
          /\ (RowOf(p, TRUE) = RowOf(x, TRUE) <=> x = p) /\ (RowOf(q, FALSE) = RowOf(x, FALSE) <=> x = q)
      BY <2>1, Rows
    <3>3. d \in cards'[x] <=> WillHold'[d] = RowOf(x, TRUE)
      BY <2>1, <2>2, <2>4, <3>1, <3>2, Zenon
    <3>4. d \in gifts'[x] <=> WillHold'[d] = RowOf(x, FALSE)
      BY <2>1, <2>2, <2>4, <3>1, <3>2, Zenon
    <3> QED BY <3>3, <3>4
  <2> QED BY <2>3, <2>4
<1>12. SavedInv'
  <2> SUFFICES ASSUME NEW x \in Player, NEW d \in Known
               PROVE  Safe(rows, wornRows[x], Append(u, w), x, d)
    BY <1>1, <1>4 DEF SavedInv
  <2>1. Safe(rows, wornRows[x], queue, x, d) /\ d \in Card
    BY <1>0 DEF IInv, SavedInv
  <2>2. CASE d = c
    <3>1. Off(wornRows[x], Append(u, w), x, d)
      <4>1. CASE x = p
        BY <1>1, <1>2, <1>5, <2>2, <4>1, AppendOff
      <4>2. CASE x # p
        <5>1. WillHold[d] \notin {None, RowOf(x, TRUE)}
          <6>1. WillHold[d] = RowOf(p, TRUE)
            BY <1>7, <2>2
          <6>2. RowOf(p, TRUE) # None /\ RowOf(p, TRUE) # RowOf(x, TRUE)
            BY <4>2, Rows
          <6> QED BY <6>1, <6>2
        <5>2. Off(wornRows[x], queue, x, d)
          BY <1>0, <2>1, <5>1, OffIs
        <5>3. Off(wornRows[x], u, x, d)
          BY <1>0, <1>3, <5>2, AppendOff DEF u
        <5> QED BY <1>2, <1>5, <4>2, <5>3, AppendOff
      <4> QED BY <4>1, <4>2
    <3> QED BY <1>4, <3>1, OffIs
  <2>3. CASE d # c
    <3>1. Executed(WillHold, v)[d] = WillHold[d] /\ Executed(Executed(WillHold, v), w)[d] = WillHold[d]
      BY <1>3, <1>4, <1>8, <2>1, <2>3
    <3>2. Safe(rows, wornRows[x], u, x, d)
      BY <1>0, <1>3, <2>1, <3>1, AppendSafe DEF u
    <3>3. x = p /\ d \in worn[p] => WillHold[d] = RowOf(x, TRUE)
      BY <1>1 DEF IInv, WornInv, MemoryInv
    <3>4. LET last == Stages(rows, u)[Len(u)][d]
              next == Executed(Stages(rows, u)[Len(u)], w)[d]
          IN /\ next = last \/ next \in {None, RowOf(x, TRUE)}
             /\ w.do = "save" /\ w.who = x /\ d \in w.what => next \in {None, RowOf(x, TRUE)}
      BY <1>2, <1>5, <3>1, <3>3
    <3> QED BY <1>2, <1>5, <2>1, <3>2, <3>4, AppendSafe
  <2> QED BY <2>2, <2>3
<1>13. SpaceInv'
  <2> SUFFICES ASSUME NEW x \in Player
               PROVE  /\ Cardinality(HeldIn(WillHold, x)') <= Space
                      /\ Cardinality(GiftsIn(WillHold, x)') <= GiftSpace
    BY DEF SpaceInv
  <2>1. CASE x = q
    <3>1. /\ Held(q) \in SUBSET Card /\ gifts[q] \in SUBSET Card
          /\ HeldIn(WillHold, q) \subseteq Held(q) /\ GiftsIn(WillHold, q) \subseteq gifts[q]
      BY <1>1, HeldIs
    <3>2. HeldIn(WillHold, x)' \subseteq Held(q) \cup {c} /\ GiftsIn(WillHold, x)' \subseteq gifts[q] \cup {c}
      BY <1>0, <1>1, <1>8, <2>1, <3>1 DEF HeldIn, GiftsIn
    <3>3. Cardinality(Held(q) \cup {c}) <= Space /\ Cardinality(gifts[q] \cup {c}) <= GiftSpace
      BY <1>1, <3>1, OneMore, SpaceAssumption
    <3>4. Held(q) \cup {c} \in SUBSET Card /\ gifts[q] \cup {c} \in SUBSET Card
      BY <3>1
    <3> QED BY <3>2, <3>3, <3>4, Smaller, SpaceAssumption
  <2>2. CASE x # q
    <3>1. /\ RowOf(q, FALSE) # RowOf(x, TRUE) /\ RowOf(q, FALSE) # RowOf(x, FALSE)
      BY <2>2, Rows
    <3>2. \A d \in Known :
             /\ WillHold'[d] \in {RowOf(x, TRUE), RowOf(x, FALSE)} =>
                   WillHold[d] \in {RowOf(x, TRUE), RowOf(x, FALSE)}
             /\ WillHold'[d] = RowOf(x, FALSE) => WillHold[d] = RowOf(x, FALSE)
      BY <1>0, <1>7, <1>8, <3>1
    <3> QED BY <1>1, <3>2, FewerHeld DEF IInv
  <2> QED BY <2>1, <2>2
<1> QED BY <1>10, <1>11, <1>12, <1>13 DEF IInv
-----------------------------------------------------------------------------
(* The theorems                                                            *)

LEMMA InitInv == Init => IInv
<1> SUFFICES ASSUME Init PROVE IInv
  OBVIOUS
<1>1. Stages(rows, <<>>)[0] = rows /\ Len(<<>>) = 0 /\ <<>> \in Seq(Write)
  <2>1. <<>> \in Seq(Write) /\ Len(<<>>) = 0
    OBVIOUS
  <2> QED BY <2>1, StagesRun DEF Runs
<1>2. WillHold = rows /\ \A c \in Card : rows[c] = None
  BY <1>1, WillHoldIs DEF Init
<1>3. TypeInv /\ UnloadedInv /\ MemoryInv /\ WornInv
  BY <1>1 DEF Init, Nobodys, TypeInv, UnloadedInv, MemoryInv, WornInv, Table
<1>4. SpaceInv
  <2>1. ASSUME NEW p \in Player PROVE HeldIn(WillHold, p) = {} /\ GiftsIn(WillHold, p) = {}
    <3>1. \A c \in Known : WillHold[c] = None
      BY <1>2 DEF Known
    <3>2. None # RowOf(p, TRUE) /\ None # RowOf(p, FALSE)
      BY Rows
    <3> QED BY <3>1, <3>2 DEF HeldIn, GiftsIn
  <2> QED BY <2>1, FS_EmptySet, SpaceAssumption DEF SpaceInv
<1>5. SavedInv
  <2>1. \A p \in Player, c \in Known, i \in 0..0 : c \notin Saved(wornRows[p], <<>>, i, p)
    BY DEF Saved, Init, Nobodys
  <2> QED BY <1>1, <2>1 DEF SavedInv, Safe, Init
<1> QED BY <1>3, <1>4, <1>5 DEF IInv

LEMMA StutterInv == IInv /\ UNCHANGED vars => IInv'
<1> SUFFICES ASSUME IInv, UNCHANGED vars PROVE IInv'
  OBVIOUS
<1>1. /\ UNCHANGED <<loaded, cards, gifts, worn, rows, wornRows, queue>> /\ UNCHANGED history
      /\ Known' = Known /\ reread' = reread /\ strayed' = strayed
  <2>1. UNCHANGED <<loaded, cards, gifts, worn, rows, wornRows, queue>> /\ UNCHANGED history
    BY DEF vars, memory, tables
  <2> QED BY <2>1, SameKnown
<1>2. WillHold' = WillHold
  BY <1>1, SameTable
<1>3. TypeInv' /\ UnloadedInv' /\ WornInv'
  BY <1>1 DEF IInv, TypeInv, UnloadedInv, WornInv
<1>4. MemoryInv' /\ SpaceInv' /\ SavedInv'
  BY <1>1, <1>2, SameMemory, SameSpace, SameSaved
<1> QED BY <1>3, <1>4 DEF IInv

LEMMA NextInv == IInv /\ [Next]_vars => IInv'
<1> SUFFICES ASSUME IInv, [Next]_vars PROVE IInv'
  OBVIOUS
<1>1. CASE Execute
  BY <1>1, ExecuteInv
<1>2. CASE Restart
  BY <1>2, RestartInv
<1>3. CASE \E p \in Player : Load(p) \/ Close(p) \/ Buy(p) \/ UseCrane(p) \/ FinishRound(p)
  BY <1>3, LoadInv, CloseInv, BuyInv, UseCraneInv, FinishRoundInv
<1>4. CASE \E p \in Player, c \in Card : Delete(p, c) \/ OpenGift(p, c)
  BY <1>4, DeleteInv, OpenGiftInv
<1>5. CASE \E p, q \in Player, c \in Card : GiftCard(p, q, c)
  BY <1>5, GiftCardInv
<1>6. CASE \E p \in Player, what \in SUBSET Card : Wear(p, what)
  BY <1>6, WearInv
<1>7. CASE UNCHANGED vars
  BY <1>7, StutterInv
<1> QED BY <1>1, <1>2, <1>3, <1>4, <1>5, <1>6, <1>7 DEF Next

\* The invariant holds always.
THEOREM Invariant == Spec => []IInv
<1>1. Init => IInv
  BY InitInv
<1>2. IInv /\ [Next]_vars => IInv'
  BY NextInv
<1> QED BY <1>1, <1>2, PTL DEF Spec

\* EquipmentManager and InventoryManager agree with player_equipment and player_items:
\* who wears a card has it, and no row of equipment refers to a deleted card.
THEOREM WornHeldCorrect == Spec => []WornHeld
<1>1. IInv => WornHeld
  <2> SUFFICES ASSUME IInv PROVE WornHeld
    OBVIOUS
  <2>1. /\ \A p \in Player : worn[p] \subseteq Card
        /\ \A p \in Player : worn[p] \cap Known \subseteq cards[p] /\ \A c \in wornRows[p] : rows[c] # None
    BY DEF IInv, TypeInv, WornInv
  <2> QED BY <2>1 DEF WornHeld, Known
<1> QED BY <1>1, Invariant, PTL

\* What InventoryManager has in memory is what player_items will say once
\* DatabaseDispatcher has worked off its queue, whatever the order of deletions made
\* at once and gifts that wait.
THEOREM RowsFollowCorrect == Spec => []RowsFollow
<1>1. IInv => RowsFollow
  BY DEF IInv, MemoryInv, RowsFollow, Known, RowOf
<1> QED BY <1>1, Invariant, PTL

\* No inventory exceeds its places, nor its places for gifts, although hasSpace,
\* hasGiftSpace and UseCraneEvent look before the rows are written.
THEOREM WithinSpaceCorrect == Spec => []WithinSpace
<1>1. IInv => WithinSpace
  <2> SUFFICES ASSUME IInv, NEW p \in Player
               PROVE  /\ Cardinality(Held(p) \ (reread \cup strayed)) <= Space
                      /\ Cardinality(gifts[p] \ (reread \cup strayed)) <= GiftSpace
    BY DEF WithinSpace
  <2>1. CASE p \in loaded
    <3>1. /\ HeldIn(WillHold, p) = Held(p) \cap Known /\ GiftsIn(WillHold, p) = gifts[p] \cap Known
          /\ Held(p) \in SUBSET Card /\ gifts[p] \in SUBSET Card
      BY <2>1, HeldIs
    <3>2. /\ Held(p) \ (reread \cup strayed) = HeldIn(WillHold, p)
          /\ gifts[p] \ (reread \cup strayed) = GiftsIn(WillHold, p)
      BY <3>1 DEF Known
    <3> QED BY <3>2 DEF IInv, SpaceInv
  <2>2. CASE p \notin loaded
    <3>1. Held(p) \ (reread \cup strayed) = {} /\ gifts[p] \ (reread \cup strayed) = {}
      BY <2>2 DEF IInv, UnloadedInv, Held
    <3> QED BY <3>1, FS_EmptySet, SpaceAssumption
  <2> QED BY <2>1, <2>2
<1> QED BY <1>1, Invariant, PTL
-----------------------------------------------------------------------------
(* Cards implements Ownership                                              *)

\* Whose each card is, before and after a step.
LEMMA OwnerIs ==
    ASSUME TypeInv
    PROVE  /\ Owner = [c \in Card |-> IF c \in Known THEN WillHold[c] ELSE None]
           /\ Owner' = [c \in Card |-> IF c \in Known' THEN WillHold'[c] ELSE None]
           /\ Owner \in Table
           /\ Known \subseteq Card
<1>1. /\ Owner = [c \in Card |-> IF c \in Known THEN WillHold[c] ELSE None]
      /\ Owner' = [c \in Card |-> IF c \in Known' THEN WillHold'[c] ELSE None]
  BY DEF Owner, Known
<1>2. WillHold \in Table
  BY QueuedIs
<1> QED BY <1>1, <1>2 DEF Table, Known

\* A step after which the table will hold what it would have held.
LEMMA NothingHandedOn ==
    ASSUME TypeInv, reread' = reread, strayed' = strayed, \A c \in Known : WillHold'[c] = WillHold[c]
    PROVE  UNCHANGED O!vars
<1>1. Known' = Known /\ Known \subseteq Card
  BY DEF Known
<1>2. Owner' = Owner
  BY <1>1, OwnerIs
<1> QED BY <1>2 DEF O!vars

\* The same, with cards that go astray.
LEMMA OnlyAstray ==
    ASSUME TypeInv, NEW read \in SUBSET Card, NEW stray \in SUBSET Card, Astray(read, stray),
           \A c \in Known' : WillHold'[c] = WillHold[c]
    PROVE  O!GoAstray
<1> DEFINE some == read \cup stray
<1>1. Known' = Known \ some /\ Known \subseteq Card
  BY AstrayIs DEF Known
<1>2. reread' \cup strayed' = reread \cup strayed \cup some
  BY DEF Astray
<1>3. some \in SUBSET Card
  OBVIOUS
<1> HIDE DEF some
<1>4. ASSUME NEW c \in Card
      PROVE  (IF c \in Known' THEN WillHold'[c] ELSE None) = IF c \in some THEN None ELSE Owner[c]
  <2>1. Owner[c] = IF c \in Known THEN WillHold[c] ELSE None
    BY OwnerIs
  <2> QED BY <1>1, <2>1
<1>5. Owner' = [c \in Card |-> IF c \in some THEN None ELSE Owner[c]]
  BY <1>4, OwnerIs
<1> QED BY <1>2, <1>3, <1>5 DEF O!GoAstray

\* Cards are sold, of which the inventory keeps some.
LEMMA DrawSells ==
    ASSUME IInv, NEW p \in loaded, NEW new \in SUBSET Unused, NEW kept \in SUBSET new,
           Inserted(new, p), Astray({}, new \ kept), queue' = queue
    PROVE  O!Sell(p)
<1>0. /\ TypeInv /\ rows \in Table /\ new \subseteq Card /\ p \in Player
      /\ rows' = [c \in Card |-> IF c \in new THEN RowOf(p, TRUE) ELSE rows[c]]
  BY DEF IInv, TypeInv, Unused, Inserted, RowOf
<1> DEFINE missing == new \ kept
<1>1. Known' = Known \ missing /\ Known \subseteq Card /\ missing \in SUBSET new
  <2>1. {} \in SUBSET Card /\ missing \in SUBSET Card
    BY <1>0
  <2>2. Known' = Known \ ({} \cup missing)
    BY <1>0, <2>1, AstrayIs
  <2> QED BY <2>2 DEF Known
<1>2. rows' \in Table
  BY <1>0, Rows DEF Table
<1>3. \A c \in new : c \in Known /\ c \notin Queued /\ WillHold[c] = None
  BY <1>0, UnusedIs, QueuedIs
<1>4. \A c \in Card : WillHold'[c] = IF c \in new THEN RowOf(p, TRUE) ELSE WillHold[c]
  BY <1>0, <1>2, <1>3, ChangedIs
<1>5. reread' \cup strayed' = reread \cup strayed \cup missing
  BY DEF Astray
<1> HIDE DEF missing
<1>6. ASSUME NEW c \in Card
      PROVE  (IF c \in Known' THEN WillHold'[c] ELSE None)
             = IF c \in new \ missing THEN O!Own(p) ELSE Owner[c]
  <2>1. Owner[c] = IF c \in Known THEN WillHold[c] ELSE None
    BY <1>0, OwnerIs
  <2>2. O!Own(p) = RowOf(p, TRUE)
    BY DEF O!Own, RowOf
  <2> QED BY <1>1, <1>3, <1>4, <2>1, <2>2
<1>7. Owner' = [c \in Card |-> IF c \in new \ missing THEN O!Own(p) ELSE Owner[c]]
  BY <1>0, <1>6, OwnerIs
<1>8. new \in SUBSET (Card \ (reread \cup strayed)) /\ \A c \in new : Owner[c] = None
  <2>1. \A c \in new : c \in Card /\ Owner[c] = IF c \in Known THEN WillHold[c] ELSE None
    BY <1>0, OwnerIs
  <2> QED BY <1>3, <2>1 DEF Known
<1>9. missing \in SUBSET Card /\ missing \subseteq new
  BY <1>0, <1>1
<1> QED BY <1>5, <1>7, <1>8, <1>9 DEF O!Sell

\* One card changes hands, and others do not.
LEMMA OneHandedOn ==
    ASSUME TypeInv, NEW c \in Known, NEW to, UNCHANGED history,
           WillHold'[c] = to, \A d \in Card : d # c => WillHold'[d] = WillHold[d]
    PROVE  /\ Owner' = [Owner EXCEPT ![c] = to]
           /\ Owner[c] = WillHold[c]
           /\ (reread \cup strayed)' = reread \cup strayed
<1>1. Known' = Known /\ Known \subseteq Card /\ reread' = reread /\ strayed' = strayed
  BY SameKnown DEF Known
<1>2. Owner[c] = WillHold[c]
  BY <1>1, OwnerIs
<1>3. ASSUME NEW d \in Card
      PROVE  (IF d \in Known' THEN WillHold'[d] ELSE None) = IF d = c THEN to ELSE Owner[d]
  BY <1>1, OwnerIs
<1>4. [Owner EXCEPT ![c] = to] = [d \in Card |-> IF d = c THEN to ELSE Owner[d]]
  BY OwnerIs DEF Table
<1>5. Owner' = [d \in Card |-> IF d = c THEN to ELSE Owner[d]]
  BY <1>3, OwnerIs
<1> QED BY <1>1, <1>2, <1>4, <1>5

\* Nobody's card but that of a step to be is handed on.
LEMMA UnknownHandedOn ==
    ASSUME TypeInv, NEW c \in Card \ Known, UNCHANGED history,
           \A d \in Card : d # c => WillHold'[d] = WillHold[d]
    PROVE  UNCHANGED O!vars
<1>1. \A d \in Known : WillHold'[d] = WillHold[d]
  BY DEF Known
<1> QED BY <1>1, SameKnown, NothingHandedOn

LEMMA DeleteHandsOn ==
    ASSUME IInv, NEW p \in Player, NEW c \in Card, Delete(p, c)
    PROVE  O!Next \/ UNCHANGED O!vars
<1> DEFINE done == rows[c] # None /\ rows[c].owner = p /\ \A q \in Player : c \notin wornRows[q]
<1>0. TypeInv /\ rows \in Table /\ c \in cards[p] /\ queue' = queue
  BY DEF IInv, TypeInv, Delete
<1>1. CASE done
  <2>1. rows' = [rows EXCEPT ![c] = None] /\ UNCHANGED history
    BY <1>1 DEF Delete, Astray, history
  <2>2. rows' \in Table /\ (\A d \in Card : d # c => rows'[d] = rows[d]) /\ rows'[c] = None
    BY <1>0, <2>1 DEF Table
  <2>3. (\A d \in Card : d # c => WillHold'[d] = WillHold[d]) /\ WillHold'[c] = None
    BY <1>0, <2>2, ChangedIs
  <2>4. CASE c \in Known
    <3>1. WillHold[c] = RowOf(p, TRUE)
      BY <1>0, <2>4 DEF IInv, UnloadedInv, MemoryInv
    <3>2. /\ Owner' = [Owner EXCEPT ![c] = None] /\ Owner[c] = WillHold[c]
          /\ (reread \cup strayed)' = reread \cup strayed
      BY <1>0, <2>1, <2>3, <2>4, OneHandedOn
    <3>3. O!Delete(p, c)
      BY <3>1, <3>2 DEF O!Delete, O!Own, RowOf
    <3> QED BY <3>3 DEF O!Next
  <2>5. CASE c \notin Known
    BY <1>0, <2>1, <2>3, <2>5, UnknownHandedOn
  <2> QED BY <2>4, <2>5
<1>2. CASE ~done
  <2>1. rows' = rows /\ Astray({}, {c})
    BY <1>2 DEF Delete
  <2>2. WillHold' = WillHold
    BY <1>0, <2>1, SameTable
  <2>3. {} \in SUBSET Card /\ {c} \in SUBSET Card
    OBVIOUS
  <2>4. O!GoAstray
    BY <1>0, <2>1, <2>2, <2>3, OnlyAstray
  <2> QED BY <2>4 DEF O!Next
<1> QED BY <1>1, <1>2

LEMMA OpenGiftHandsOn ==
    ASSUME IInv, NEW p \in Player, NEW c \in Card, OpenGift(p, c)
    PROVE  O!Next \/ UNCHANGED O!vars
<1> DEFINE w == Open(c, p)
<1>0. TypeInv /\ WillHold \in Table
  BY QueuedIs DEF IInv
<1>1. c \in gifts[p] /\ queue' = queue \o <<w>> /\ rows' = rows /\ UNCHANGED history
  BY DEF OpenGift, Dispatch, tables
<1>2. p \in loaded
  BY <1>1 DEF IInv, UnloadedInv
<1>3. /\ w \in Write
      /\ \A d \in Card : d # c => Executed(WillHold, w)[d] = WillHold[d]
      /\ WillHold[c] = RowOf(p, FALSE) => Executed(WillHold, w)[c] = RowOf(p, TRUE)
  BY <1>0, GiftWrites
<1> HIDE DEF w
<1>4. WillHold' = Executed(WillHold, w)
  BY <1>0, <1>1, <1>3, DispatchOne
<1>5. CASE c \in Known
  <2>1. WillHold[c] = RowOf(p, FALSE) /\ WillHold'[c] = RowOf(p, TRUE)
    BY <1>1, <1>2, <1>3, <1>4, <1>5 DEF IInv, MemoryInv
  <2>2. /\ Owner' = [Owner EXCEPT ![c] = RowOf(p, TRUE)] /\ Owner[c] = WillHold[c]
        /\ (reread \cup strayed)' = reread \cup strayed
    BY <1>0, <1>1, <1>3, <1>4, <1>5, <2>1, OneHandedOn
  <2>3. O!Open(p, c)
    BY <2>1, <2>2 DEF O!Open, O!Own, O!Gift, RowOf
  <2> QED BY <2>3 DEF O!Next
<1>6. CASE c \notin Known
  BY <1>0, <1>1, <1>3, <1>4, <1>6, UnknownHandedOn
<1> QED BY <1>5, <1>6

LEMMA GiftCardHandsOn ==
    ASSUME IInv, NEW p \in Player, NEW q \in Player, NEW c \in Card, GiftCard(p, q, c)
    PROVE  O!Next \/ UNCHANGED O!vars
<1> DEFINE v == Give(c, q)
           w == Save(p)
<1>0. TypeInv /\ WillHold \in Table /\ worn[p] \in SUBSET Card
  BY QueuedIs DEF IInv, TypeInv
<1>1. /\ p \in loaded /\ p # q /\ c \in cards[p]
      /\ queue' = queue \o <<v, w>> /\ rows' = rows /\ UNCHANGED history
  BY DEF GiftCard, Dispatch, tables
<1>2. w \in Write /\ w.do = "save"
  BY <1>0 DEF Save, Write
<1>3. /\ v \in Write
      /\ \A d \in Card : d # c => Executed(WillHold, v)[d] = WillHold[d]
      /\ WillHold[c] # None => Executed(WillHold, v)[c] = RowOf(q, FALSE)
  BY <1>0, GiftWrites
<1> HIDE DEF v, w
<1>4. WillHold' = Executed(Executed(WillHold, v), w)
  BY <1>0, <1>1, <1>2, <1>3, DispatchTwo
<1>5. Executed(WillHold, v) \in Table
  BY <1>0, <1>3, ExecutedIs
<1>6. \A d \in Card : WillHold'[d] = Executed(WillHold, v)[d]
  BY <1>2, <1>4, <1>5, ExecutedIs DEF Changes
<1>7. \A d \in Card : d # c => WillHold'[d] = WillHold[d]
  BY <1>3, <1>6
<1>8. CASE c \in Known
  <2>1. WillHold[c] = RowOf(p, TRUE) /\ RowOf(p, TRUE) # None
    BY <1>1, <1>8, Rows DEF IInv, MemoryInv
  <2>2. WillHold'[c] = RowOf(q, FALSE)
    BY <1>3, <1>6, <2>1
  <2>3. /\ Owner' = [Owner EXCEPT ![c] = RowOf(q, FALSE)] /\ Owner[c] = WillHold[c]
        /\ (reread \cup strayed)' = reread \cup strayed
    BY <1>0, <1>1, <1>7, <1>8, <2>2, OneHandedOn
  <2>4. O!Give(p, q, c)
    BY <1>1, <2>1, <2>3 DEF O!Give, O!Own, O!Gift, RowOf
  <2> QED BY <2>4 DEF O!Next
<1>9. CASE c \notin Known
  BY <1>0, <1>1, <1>7, <1>9, UnknownHandedOn
<1> QED BY <1>8, <1>9

\* The queue of writes, logins and restarts hand nothing on, but cards may go astray.
LEMMA ExecuteHandsOn ==
    ASSUME IInv, Execute
    PROVE  O!Next
<1> DEFINE w == Head(queue)
           stray == IF w.do = "save" /\ \E c \in w.what : rows[c] = None THEN About(w) ELSE {}
           n == Len(queue)
<1>0. TypeInv /\ rows \in Table /\ queue \in Seq(Write) /\ queue # <<>> /\ wornRows \in [Player -> SUBSET Card]
  BY DEF Execute, IInv, TypeInv
<1>1. n \in Nat /\ n >= 1 /\ w \in Write /\ Len(Tail(queue)) = n - 1
  BY <1>0
<1>2. rows' = Executed(rows, w) /\ queue' = Tail(queue) /\ Astray({}, stray)
  BY DEF Execute
<1>3. WillHold' = WillHold
  <2>1. \A k \in 0..n - 1 : Stages(rows', Tail(queue))[k] = Stages(rows, queue)[k + 1]
    BY <1>0, <1>2, StagesTail
  <2>2. n - 1 \in 0..n - 1 /\ (n - 1) + 1 = n
    BY <1>1
  <2>3. WillHold' = Stages(rows', Tail(queue))[n - 1]
    BY <1>1, <1>2, WillHoldNext
  <2> QED BY <2>1, <2>2, <2>3, WillHoldIs
<1>4. {} \in SUBSET Card /\ stray \in SUBSET Card
  BY <1>0, <1>1 DEF About, Write
<1> HIDE DEF w, stray, n
<1>5. O!GoAstray
  BY <1>0, <1>2, <1>3, <1>4, OnlyAstray
<1> QED BY <1>5 DEF O!Next

LEMMA ReadAstray ==
    ASSUME IInv, Astray(Queued, {}), rows' = rows, queue' = queue \/ queue' = <<>>
    PROVE  O!Next
<1>0. TypeInv /\ Queued \in SUBSET Card /\ {} \in SUBSET Card /\ rows \in Table
  BY QueuedIs DEF IInv, TypeInv
<1>1. Known' = Known \ (Queued \cup {}) /\ Known \subseteq Card
  BY <1>0, AstrayIs DEF Known
<1>2. CASE queue' = queue
  <2>1. WillHold' = WillHold
    BY <1>2, SameTable
  <2>2. O!GoAstray
    BY <1>0, <2>1, OnlyAstray
  <2> QED BY <2>2 DEF O!Next
<1>3. CASE queue' = <<>>
  <2>1. Stages(rows, <<>>)[0] = rows /\ Len(<<>>) = 0
    <3>1. <<>> \in Seq(Write) /\ Len(<<>>) = 0
      OBVIOUS
    <3> QED BY <3>1, StagesRun DEF Runs
  <2>2. WillHold' = rows
    BY <1>3, <2>1, WillHoldNext
  <2>3. \A c \in Known' : WillHold'[c] = WillHold[c]
    BY <1>0, <1>1, <2>2, QueuedIs
  <2>4. O!GoAstray
    BY <1>0, <2>3, OnlyAstray
  <2> QED BY <2>4 DEF O!Next
<1> QED BY <1>2, <1>3

LEMMA SaveHandsNothingOn ==
    ASSUME IInv, NEW p \in loaded, Dispatch(<<Save(p)>>), UNCHANGED <<tables, history>>
    PROVE  UNCHANGED O!vars
<1>0. TypeInv /\ WillHold \in Table /\ worn[p] \in SUBSET Card /\ p \in Player
  BY QueuedIs DEF IInv, TypeInv
<1> DEFINE w == Save(p)
<1>1. w \in Write /\ w.do = "save"
  BY <1>0 DEF Save, Write
<1> HIDE DEF w
<1>2. WillHold' = Executed(WillHold, w)
  BY <1>0, <1>1, DispatchOne DEF Dispatch, tables, w
<1>3. \A c \in Known : WillHold'[c] = WillHold[c]
  BY <1>0, <1>1, <1>2, ExecutedIs DEF Changes, Known
<1> QED BY <1>0, <1>3, NothingHandedOn DEF history

LEMMA HandedOnStep == IInv /\ [Next]_vars => [O!Next]_(O!vars)
<1> SUFFICES ASSUME IInv, [Next]_vars PROVE O!Next \/ UNCHANGED O!vars
  OBVIOUS
<1>0. TypeInv /\ loaded \subseteq Player
  BY DEF IInv, TypeInv
<1>1. CASE Execute
  BY <1>1, ExecuteHandsOn
<1>2. CASE Restart
  BY <1>2, ReadAstray DEF Restart, tables
<1>3. ASSUME NEW p \in Player, Load(p) PROVE O!Next
  BY <1>3, ReadAstray DEF Load, tables
<1>4. ASSUME NEW p \in Player, Close(p) \/ FinishRound(p) PROVE UNCHANGED O!vars
  BY <1>4, SaveHandsNothingOn DEF Close, FinishRound
<1>5. ASSUME NEW p \in Player, Buy(p) PROVE O!Next
  <2>1. PICK c \in Unused : Inserted({c}, p)
    BY <1>5 DEF Buy
  <2>2. Astray({}, {c} \ {c}) /\ {c} \in SUBSET Unused /\ {c} \in SUBSET {c} /\ p \in loaded /\ queue' = queue
    BY <1>5 DEF Buy, Astray, history
  <2>3. O!Sell(p)
    BY <2>1, <2>2, DrawSells
  <2> QED BY <2>3 DEF O!Next
<1>6. ASSUME NEW p \in Player, UseCrane(p) PROVE O!Next
  <2>1. PICK new \in SUBSET Unused : Inserted(new, p) /\ \E kept \in SUBSET new : Astray({}, new \ kept)
    BY <1>6 DEF UseCrane
  <2>2. O!Sell(p)
    BY <1>6, <2>1, DrawSells DEF UseCrane
  <2> QED BY <2>2 DEF O!Next
<1>7. CASE \E p \in Player, c \in Card : Delete(p, c) \/ OpenGift(p, c)
  BY <1>7, DeleteHandsOn, OpenGiftHandsOn
<1>8. CASE \E p, q \in Player, c \in Card : GiftCard(p, q, c)
  BY <1>8, GiftCardHandsOn
<1>9. ASSUME NEW p \in Player, NEW what \in SUBSET Card, Wear(p, what) PROVE UNCHANGED O!vars
  <2>1. WillHold' = WillHold
    BY <1>9, SameTable DEF Wear, tables
  <2> QED BY <1>0, <1>9, <2>1, NothingHandedOn DEF Wear, history
<1>10. CASE UNCHANGED vars
  <2>1. WillHold' = WillHold
    BY <1>10, SameTable DEF vars, tables
  <2> QED BY <1>0, <1>10, <2>1, NothingHandedOn DEF vars, history
<1> QED BY <1>1, <1>2, <1>3, <1>4, <1>5, <1>6, <1>7, <1>8, <1>9, <1>10 DEF Next

\* InventoryManager, ShopManager, the crane, the queue of writes and restarts keep
\* what Ownership promises: a card is sold when it is nobody's, has one owner, and goes
\* to another only as a gift of his.
THEOREM HandedOnCorrect == Spec => HandedOn
<1>1. Init => O!Init
  <2> SUFFICES ASSUME Init PROVE O!Init
    OBVIOUS
  <2>1. IInv /\ queue = <<>> /\ reread \cup strayed = {} /\ \A c \in Card : rows[c] = None
    BY InitInv DEF Init
  <2>2. \A c \in Card : WillHold[c] = None
    BY <2>1, QueuedIs DEF IInv
  <2>3. Owner = [c \in Card |-> None]
    BY <2>1, <2>2 DEF Owner
  <2> QED BY <2>1, <2>3 DEF O!Init
<1> QED BY <1>1, HandedOnStep, Invariant, PTL DEF Spec, HandedOn, O!Spec
=============================================================================
