---------------------------- MODULE SquaresProofs ----------------------------
(***************************************************************************)
(* The safety properties of Squares, for any accounts, Player objects,     *)
(* squares and numbers, and any capacity.                                  *)
(***************************************************************************)
EXTENDS Squares, FiniteSetTheorems, TLAPS

Job == [do : {"idle", "join", "close"}, obj : Object \cup {None}, sq : Square \cup {None},
        to : Number \cup {NoNumber}, pc : Pc]

TypeOK ==
    /\ listed \in [Number -> Square \cup {None}]
    /\ players \in [Square -> SUBSET Object]
    /\ at \in [Object -> Square \cup {None}]
    /\ online \in SUBSET Object
    /\ current \in [Account -> Object \cup {None}]
    /\ conn \in SUBSET Object
    /\ job \in [Thread -> Job]
    /\ raced \in SUBSET Object
    /\ contended \in SUBSET Number

Removing == {"erase", "empty", "last", "delete"}
Adding == {"check", "insert", "enter"}

\* What a thread that has work has been given: the lobby's only closes, and the
\* steps on a square have one.
JobOK(t) ==
    /\ job[t].do = "idle" => job[t] = Idle
    /\ job[t].do # "idle" => job[t].obj \in Object
    /\ job[t].do = "join" => t = "square"
    /\ job[t].do = "close" => job[t].pc \in {"look"} \cup Removing
    /\ job[t].pc \in Removing \cup Adding \cup {"leave"} => job[t].sq \in Square
    /\ job[t].pc = "look" => job[t].sq = None
    /\ job[t].pc \in {"erase", "empty", "last", "delete", "leave"} /\ Joins(t) => job[t].to \in Number
    /\ job[t].pc = "look" /\ Joins(t) => job[t].to \in Number

NumbersOK == \A i \in Number : listed[i] # None => Id[listed[i]] = i

TypeInv == TypeOK /\ NumbersOK /\ \A t \in Thread : JobOK(t)

\* There is room for the player about to be inserted: no one else inserts.
CapacityInv ==
    /\ \A s \in Square : IsFiniteSet(players[s]) /\ Cardinality(players[s]) <= Capacity
    /\ \A t \in Thread : job[t].pc = "insert" => Cardinality(players[Sq(t)]) < Capacity

In(o) == {s \in Square : o \in players[s]}

\* A player who is in a square knows it, but for the moment between Square::add's
\* two steps...
Known(o, s) == at[o] = s \/ \E t \in Thread : job[t].pc = "enter" /\ Obj(t) = o /\ Sq(t) = s

\* ...and one who changes squares is in none from Erase to Insert.
PlaceInv ==
    /\ \A o \in Object : \A s \in In(o) : Known(o, s)
    /\ \A t \in Thread : Joins(t) =>
          /\ job[t].pc \in {"empty", "last", "delete", "leave", "find", "check", "insert"}
                => In(Obj(t)) = {}
          /\ job[t].pc \in {"erase", "enter"} => In(Obj(t)) \subseteq {Sq(t)}

\* Those who are about to be somewhere are online, or known to be late; the square
\* that a closed player is erased from is the only one he is in.
ClosedInv ==
    /\ conn \subseteq online \cup raced
    /\ \A t \in Thread :
          /\ Joins(t) => Obj(t) \in online \cup raced
          /\ job[t].do = "close" =>
                /\ Obj(t) \notin online
                /\ Obj(t) \notin raced =>
                      /\ job[t].pc = "erase" => In(Obj(t)) \subseteq {Sq(t)}
                      /\ job[t].pc \in {"empty", "last", "delete"} => In(Obj(t)) = {}

\* The square that a thread empties or fills is on the list, unless the other
\* thread has dealt with one of its number, and it is empty when it goes.
ListInv ==
    /\ DealtWithByBoth \subseteq contended
    /\ \A t \in Thread :
          job[t].pc \in Removing \cup {"check", "insert"} /\ Id[Sq(t)] \notin contended =>
              /\ listed[Id[Sq(t)]] = Sq(t)
              /\ job[t].pc \in {"last", "delete"} => players[Sq(t)] = {}

IInv ==
    /\ TypeInv /\ CapacityInv /\ PlaceInv /\ ClosedInv /\ ListInv
    /\ ClosedPlayersGone /\ PlayersInListedSquares

-----------------------------------------------------------------------------
(* Types                                                                   *)

LEMMA InitTypes == Init => TypeInv
<1> SUFFICES ASSUME Init PROVE TypeInv
  OBVIOUS
<1> DEFINE first == CHOOSE q \in Square : \A i \in Number : Id[q] <= i
<1>1. first \in Square
  BY NumbersAssumption
<1>2. listed = [i \in Number |-> IF i = Id[first] THEN first ELSE None]
  BY DEF Init
<1> HIDE DEF first
<1>3. listed \in [Number -> Square \cup {None}] /\ NumbersOK
  BY <1>1, <1>2, NumbersAssumption, NullAssumption DEF NumbersOK
<1>4. job \in [Thread -> Job] /\ \A t \in Thread : job[t] = Idle
  BY DEF Init, Job, Idle, Pc
<1>5. \A t \in Thread : JobOK(t)
  BY <1>4 DEF JobOK, Idle, Joins, Removing, Adding
<1> QED BY <1>3, <1>4, <1>5 DEF Init, TypeInv, TypeOK

\* A thread goes on with a job of its own; the other's is as it was.
LEMMA ProceedIs ==
    ASSUME job \in [Thread -> Job], NEW t \in Thread, NEW j \in Job, Proceed(t, j)
    PROVE  job' \in [Thread -> Job] /\ job'[t] = j /\ \A u \in Thread \ {t} : job'[u] = job[u]
BY DEF Proceed

LEMMA GoToIs ==
    ASSUME job \in [Thread -> Job], NEW t \in Thread, NEW pc \in Pc, GoTo(t, pc)
    PROVE  /\ job' \in [Thread -> Job] /\ \A u \in Thread \ {t} : job'[u] = job[u]
           /\ job'[t].pc = pc /\ job'[t].do = job[t].do /\ job'[t].obj = job[t].obj
           /\ job'[t].sq = job[t].sq /\ job'[t].to = job[t].to
<1>1. [job[t] EXCEPT !.pc = pc] \in Job
  BY DEF Job
<1> QED BY <1>1, ProceedIs DEF GoTo, Job

LEMMA GoToInIs ==
    ASSUME job \in [Thread -> Job], NEW t \in Thread, NEW pc \in Pc, NEW s \in Square, GoToIn(t, pc, s)
    PROVE  /\ job' \in [Thread -> Job] /\ \A u \in Thread \ {t} : job'[u] = job[u]
           /\ job'[t].pc = pc /\ job'[t].do = job[t].do /\ job'[t].obj = job[t].obj
           /\ job'[t].sq = s /\ job'[t].to = job[t].to
<1> DEFINE j == [job[t] EXCEPT !.pc = pc, !.sq = s]
<1>1. /\ j \in Job /\ j.pc = pc /\ j.do = job[t].do /\ j.obj = job[t].obj
      /\ j.sq = s /\ j.to = job[t].to
  BY DEF Job
<1>2. Proceed(t, j)
  BY DEF GoToIn
<1> HIDE DEF j
<1> QED BY <1>1, <1>2, ProceedIs

LEMMA AddsIs ==
    ASSUME job \in [Thread -> Job], NEW t \in Thread, NEW s \in Square, Adds(t, s)
    PROVE  /\ job' \in [Thread -> Job] /\ \A u \in Thread \ {t} : job'[u] = job[u]
           /\ job'[t].pc = "check" /\ job'[t].do = job[t].do /\ job'[t].obj = job[t].obj
           /\ job'[t].sq = s
<1> DEFINE j == [job[t] EXCEPT !.pc = "check", !.sq = s, !.to = NoNumber]
<1>1. j \in Job /\ j.pc = "check" /\ j.do = job[t].do /\ j.obj = job[t].obj /\ j.sq = s
  BY DEF Job, Pc
<1>2. Proceed(t, j)
  BY DEF Adds
<1> HIDE DEF j
<1> QED BY <1>1, <1>2, ProceedIs

LEMMA IdleJob == Idle \in Job
BY DEF Idle, Job, Pc

LEMMA SquareOfType ==
    ASSUME TypeOK, NEW o \in Object, SquareOf(o) # None
    PROVE  SquareOf(o) \in Square /\ SquareOf(o) = at[o]
BY DEF TypeOK, SquareOf

\* Find takes a listed square, or puts a new one under a free number.
LEMMA FindCases ==
    ASSUME NEW t \in Thread, Find(t)
    PROVE  \/ \E i \in Listed : Adds(t, listed[i]) /\ UNCHANGED squareVars
           \/ \E s \in Square : /\ listed[Id[s]] = None /\ Fresh(s)
                              /\ Create(s) /\ Adds(t, s) /\ UNCHANGED <<players, at>>
<1>1. CASE \E i \in Listed : Adds(t, listed[i]) /\ UNCHANGED squareVars
  BY <1>1
<1>2. CASE ~\E i \in Listed : Adds(t, listed[i]) /\ UNCHANGED squareVars
  <2>1. PICK i \in Number :
            /\ i \in Number \ Listed
            /\ Unused(i) # {}
            /\ Create(CHOOSE q \in Unused(i) : TRUE) /\ Adds(t, CHOOSE q \in Unused(i) : TRUE)
            /\ UNCHANGED <<players, at>>
    BY <1>2, Zenon DEF Find
  <2>2. PICK s \in Unused(i) : s = CHOOSE q \in Unused(i) : TRUE
    BY <2>1
  <2>3. s \in Square /\ Id[s] = i /\ Fresh(s) /\ listed[i] = None
    BY <2>1, <2>2 DEF Listed, Unused
  <2> QED BY <2>1, <2>2, <2>3
<1> QED BY <1>1, <1>2

\* What the types need of the step of a job: the thread's own job, and the rest.
LEMMA JobStepTypes ==
    ASSUME TypeInv, NEW t \in Thread, job' \in [Thread -> Job],
           \A u \in Thread \ {t} : job'[u] = job[u], JobOK(t)',
           listed' \in [Number -> Square \cup {None}], NumbersOK',
           players' \in [Square -> SUBSET Object], at' \in [Object -> Square \cup {None}],
           UNCHANGED playerVars, contended' \in SUBSET Number
    PROVE  TypeInv'
<1>1. ASSUME NEW u \in Thread PROVE JobOK(u)'
  BY DEF TypeInv, JobOK, Joins
<1>2. TypeOK'
  BY DEF TypeInv, TypeOK, playerVars
<1> QED BY <1>1, <1>2 DEF TypeInv

\* The end of Square::remove.
LEMMA RemovedTypes ==
    ASSUME TypeInv, NEW t \in Thread, At(t, "empty") \/ At(t, "last") \/ At(t, "delete"), Removed(t)
    PROVE  /\ job' \in [Thread -> Job] /\ \A u \in Thread \ {t} : job'[u] = job[u]
           /\ JobOK(t)' /\ at' \in [Object -> Square \cup {None}]
<1>1. CASE Joins(t)
  BY <1>1, GoToIs DEF TypeInv, TypeOK, JobOK, Joins, Removed, At, Pc, Removing, Adding
<1>2. CASE ~Joins(t)
  BY <1>2, IdleJob, ProceedIs DEF TypeInv, TypeOK, JobOK, Joins, Removed, At, Idle, Removing, Adding
<1> QED BY <1>1, <1>2

LEMMA TypeStep == TypeInv /\ Next => TypeInv'
<1> SUFFICES ASSUME TypeInv, Next PROVE TypeInv'
  OBVIOUS
<1>0. TypeOK /\ NumbersOK /\ \A t \in Thread : JobOK(t)
  BY DEF TypeInv
<1>a. /\ listed \in [Number -> Square \cup {None}] /\ players \in [Square -> SUBSET Object]
      /\ at \in [Object -> Square \cup {None}] /\ job \in [Thread -> Job]
  BY <1>0 DEF TypeOK
<1>c. contended' \in SUBSET Number
  BY <1>0 DEF Next, TypeOK, DealtWithByBoth
<1>d. ASSUME UNCHANGED listed PROVE NumbersOK' /\ listed' \in [Number -> Square \cup {None}]
  BY <1>0, <1>a, <1>d DEF NumbersOK
<1>1. ASSUME NEW o \in Object, Login(o) PROVE TypeInv'
  BY <1>0, <1>1, <1>c, OwnerAssumption DEF TypeInv, TypeOK, NumbersOK, JobOK, Joins, Login, Expired
<1>2. ASSUME NEW o \in Object, ConnectRequest(o) PROVE TypeInv'
  BY <1>0, <1>2, <1>c DEF TypeInv, TypeOK, NumbersOK, JobOK, Joins, ConnectRequest, squareVars
<1>3. ASSUME NEW t \in Thread, NEW o \in Object, Close(t, o) PROVE TypeInv'
  <2> DEFINE j == [do |-> "close", obj |-> o, sq |-> None, to |-> NoNumber, pc |-> "look"]
  <2>1. j \in Job
    BY DEF Job, Pc
  <2>2. job' \in [Thread -> Job] /\ job'[t] = j /\ \A u \in Thread \ {t} : job'[u] = job[u]
    BY <1>a, <1>3, <2>1, ProceedIs DEF Close
  <2>3. \A u \in Thread : JobOK(u)'
    BY <1>0, <2>2 DEF JobOK, Joins, Removing, Adding
  <2> QED BY <1>0, <1>3, <1>c, <1>d, <2>2, <2>3 DEF TypeInv, TypeOK, Close, squareVars
<1>4. ASSUME NEW o \in Object, Disconnect(o) PROVE TypeInv'
  BY <1>0, <1>4, <1>c DEF TypeInv, TypeOK, NumbersOK, JobOK, Joins, Disconnect, squareVars
<1>5. ASSUME NEW o \in Object, NEW i \in Number, JoinSquare(o, i) PROVE TypeInv'
  <2> DEFINE j == [do |-> "join", obj |-> o, sq |-> None, to |-> i, pc |-> "look"]
  <2>1. j \in Job /\ "square" \in Thread
    BY DEF Job, Pc, Thread
  <2>2. job' \in [Thread -> Job] /\ job'["square"] = j
        /\ \A u \in Thread \ {"square"} : job'[u] = job[u]
    BY <1>a, <1>5, <2>1, ProceedIs DEF JoinSquare
  <2>3. JobOK("square")'
    BY <2>2 DEF JobOK, Joins, Removing, Adding
  <2> QED BY <1>5, <1>a, <1>c, <1>d, <2>1, <2>2, <2>3, JobStepTypes DEF JoinSquare, squareVars
<1>6. ASSUME NEW t \in Thread, Look(t) PROVE TypeInv'
  <2>1. Obj(t) \in Object
    BY <1>0, <1>6 DEF Look, At, Obj, JobOK
  <2>2. \/ Proceed(t, Idle)
        \/ Joins(t) /\ GoTo(t, "find")
        \/ SquareOf(Obj(t)) \in Square /\ GoToIn(t, "erase", SquareOf(Obj(t)))
    BY <1>0, <1>6, <2>1, SquareOfType DEF Look
  <2>3. UNCHANGED <<squareVars, playerVars>> /\ job[t].pc = "look" /\ job[t] # Idle
    BY <1>6 DEF Look, At
  <2>4. /\ job' \in [Thread -> Job] /\ \A u \in Thread \ {t} : job'[u] = job[u]
        /\ JobOK(t)'
    <3>1. CASE Proceed(t, Idle)
      BY <1>a, <3>1, IdleJob, ProceedIs DEF JobOK, Joins, Idle, Removing, Adding
    <3>2. CASE Joins(t) /\ GoTo(t, "find")
      BY <1>0, <1>a, <2>1, <3>2, GoToIs DEF JobOK, Joins, Pc, Obj, Removing, Adding
    <3>3. CASE SquareOf(Obj(t)) \in Square /\ GoToIn(t, "erase", SquareOf(Obj(t)))
      BY <1>0, <1>a, <2>1, <2>3, <3>3, GoToInIs DEF JobOK, Joins, Pc, Obj, Removing, Adding
    <3> QED BY <2>2, <3>1, <3>2, <3>3
  <2> QED BY <1>a, <1>c, <1>d, <2>3, <2>4, JobStepTypes DEF squareVars
<1>7. ASSUME NEW t \in Thread, Erase(t) PROVE TypeInv'
  <2>1. /\ job' \in [Thread -> Job] /\ \A u \in Thread \ {t} : job'[u] = job[u]
        /\ JobOK(t)'
    BY <1>0, <1>a, <1>7, GoToIs DEF Erase, At, JobOK, Joins, Pc, Removing, Adding
  <2>2. players' \in [Square -> SUBSET Object] /\ at' \in [Object -> Square \cup {None}]
    BY <1>a, <1>7 DEF Erase, Expired
  <2> QED BY <1>7, <1>c, <1>d, <2>1, <2>2, JobStepTypes DEF Erase
<1>8. ASSUME NEW t \in Thread, Empty(t) \/ Last(t) PROVE TypeInv'
  <2>1. CASE Removed(t)
    BY <1>a, <1>8, <1>c, <1>d, <2>1, RemovedTypes, JobStepTypes DEF Empty, Last
  <2>2. CASE (GoTo(t, "last") \/ GoTo(t, "delete")) /\ UNCHANGED at
    <3>1. /\ job' \in [Thread -> Job] /\ \A u \in Thread \ {t} : job'[u] = job[u]
          /\ JobOK(t)'
      BY <1>0, <1>a, <1>8, <2>2, GoToIs DEF Empty, Last, At, JobOK, Joins, Pc, Removing, Adding
    <3> QED BY <1>a, <1>8, <1>c, <1>d, <2>2, <3>1, JobStepTypes DEF Empty, Last
  <2> QED BY <1>8, <2>1, <2>2 DEF Empty, Last
<1>9. ASSUME NEW t \in Thread, Delete(t) PROVE TypeInv'
  <2>1. listed' \in [Number -> Square \cup {None}] /\ NumbersOK'
    BY <1>0, <1>a, <1>9 DEF Delete, NumbersOK
  <2> QED BY <1>a, <1>9, <1>c, <2>1, RemovedTypes, JobStepTypes DEF Delete
<1>10. ASSUME NEW t \in Thread, Leave(t) PROVE TypeInv'
  <2>1. job[t] # Idle /\ job[t].pc = "leave" /\ job[t].obj \in Object
    BY <1>0, <1>10 DEF Leave, At, JobOK
  <2>2. job[t].do = "join" /\ job[t].to \in Number
    BY <1>0, <1>a, <2>1 DEF JobOK, Joins, Job, Removing
  <2>3. at' \in [Object -> Square \cup {None}]
    BY <1>a, <1>10 DEF Leave
  <2>4. /\ job' \in [Thread -> Job] /\ \A u \in Thread \ {t} : job'[u] = job[u]
        /\ JobOK(t)'
    <3>1. CASE Proceed(t, Idle)
      BY <1>a, <3>1, IdleJob, ProceedIs DEF JobOK, Joins, Idle, Removing, Adding
    <3>2. ASSUME NEW s \in Square, Adds(t, s) PROVE <2>4!1 /\ <2>4!2
      BY <1>0, <1>a, <2>1, <2>2, <3>2, AddsIs DEF JobOK, Joins, Removing, Adding
    <3> QED BY <1>10, <1>a, <2>2, <3>1, <3>2 DEF Leave
  <2> QED BY <1>10, <1>a, <1>c, <1>d, <2>3, <2>4, JobStepTypes DEF Leave
<1>11. ASSUME NEW t \in Thread, Find(t) PROVE TypeInv'
  <2>1. ASSUME NEW s \in Square, Adds(t, s)
        PROVE  /\ job' \in [Thread -> Job] /\ \A u \in Thread \ {t} : job'[u] = job[u]
               /\ JobOK(t)'
    BY <1>0, <1>a, <1>11, <2>1, AddsIs DEF Find, At, JobOK, Joins, Removing, Adding
  <2>2. CASE \E i \in Listed : Adds(t, listed[i]) /\ UNCHANGED squareVars
    BY <1>a, <1>11, <1>c, <1>d, <2>1, <2>2, JobStepTypes DEF Find, Listed, squareVars
  <2>3. CASE \E s \in Square : Create(s) /\ Adds(t, s) /\ UNCHANGED <<players, at>>
    <3>1. PICK s \in Square : Create(s) /\ Adds(t, s) /\ UNCHANGED <<players, at>>
      BY <2>3
    <3>2. listed' \in [Number -> Square \cup {None}] /\ NumbersOK'
      BY <1>0, <1>a, <3>1, NumbersAssumption DEF Create, NumbersOK
    <3> QED BY <1>a, <1>11, <1>c, <2>1, <3>1, <3>2, JobStepTypes DEF Find
  <2> QED BY <1>11, <2>2, <2>3, FindCases
<1>12. ASSUME NEW t \in Thread, Check(t) PROVE TypeInv'
  <2>1. /\ job' \in [Thread -> Job] /\ \A u \in Thread \ {t} : job'[u] = job[u]
        /\ JobOK(t)'
    <3>1. CASE Proceed(t, Idle)
      BY <1>a, <3>1, IdleJob, ProceedIs DEF JobOK, Joins, Idle, Removing, Adding
    <3>2. CASE GoTo(t, "insert")
      BY <1>0, <1>a, <1>12, <3>2, GoToIs DEF Check, At, JobOK, Joins, Pc, Removing, Adding
    <3> QED BY <1>12, <3>1, <3>2 DEF Check
  <2> QED BY <1>12, <1>a, <1>c, <1>d, <2>1, JobStepTypes DEF Check, squareVars
<1>13. ASSUME NEW t \in Thread, Insert(t) PROVE TypeInv'
  <2>1. /\ job' \in [Thread -> Job] /\ \A u \in Thread \ {t} : job'[u] = job[u]
        /\ JobOK(t)'
    BY <1>0, <1>a, <1>13, GoToIs DEF Insert, At, JobOK, Joins, Pc, Removing, Adding
  <2>2. Obj(t) \in Object
    BY <1>0, <1>13 DEF Insert, At, Obj, JobOK
  <2>3. players' \in [Square -> SUBSET Object] /\ at' \in [Object -> Square \cup {None}]
    BY <1>a, <1>13, <2>2 DEF Insert, Expired
  <2> QED BY <1>13, <1>c, <1>d, <2>1, <2>3, JobStepTypes DEF Insert
<1>14. ASSUME NEW t \in Thread, Enter(t) PROVE TypeInv'
  <2>1. /\ job' \in [Thread -> Job] /\ \A u \in Thread \ {t} : job'[u] = job[u]
        /\ JobOK(t)'
    BY <1>a, <1>14, IdleJob, ProceedIs DEF Enter, JobOK, Joins, Idle, Removing, Adding
  <2>2. Sq(t) \in Square
    BY <1>0, <1>14 DEF Enter, At, Sq, JobOK, Adding
  <2>3. at' \in [Object -> Square \cup {None}]
    BY <1>a, <1>14, <2>2 DEF Enter
  <2> QED BY <1>14, <1>a, <1>c, <1>d, <2>1, <2>3, JobStepTypes DEF Enter
<1> QED BY <1>1, <1>2, <1>3, <1>4, <1>5, <1>6, <1>7, <1>8, <1>9, <1>10, <1>11, <1>12, <1>13, <1>14
        DEF Next, Step

-----------------------------------------------------------------------------
(* What a step does to the job of a thread                                 *)

\* The thread u goes on with its job, at pc.
GoesTo(u, pc) ==
    /\ job[u] # Idle /\ job'[u].pc = pc
    /\ job'[u].do = job[u].do /\ job'[u].obj = job[u].obj

\* It takes up a square that is on the list, which it may have put there.
TakesUp(u, s) ==
    /\ s \in Square /\ GoesTo(u, "check") /\ Sq(u)' = s /\ listed'[Id[s]] = s
    /\ \/ UNCHANGED listed
       \/ Create(s) /\ Fresh(s) /\ listed[Id[s]] = None

JobStep(u) ==
    \/ job'[u] = job[u]
    \/ /\ job'[u] = Idle /\ job[u].pc # "erase"
       /\ job[u].pc = "enter" => Enter(u)
       /\ job[u].pc = "look" => SquareOf(Obj(u)) = None
    \/ /\ job[u] = Idle /\ job'[u].pc = "look" /\ job'[u].sq = None
       /\ \/ job'[u].do = "close" /\ \E o \in Object : Close(u, o) /\ job'[u].obj = o
          \/ job'[u].do = "join" /\ \E o \in Object : o \in conn /\ job'[u].obj = o
    \/ Look(u) /\ GoesTo(u, "find") /\ Joins(u) /\ SquareOf(Obj(u)) = None
    \/ Look(u) /\ GoesTo(u, "erase") /\ SquareOf(Obj(u)) \in Square /\ Sq(u)' = SquareOf(Obj(u))
    \/ Erase(u) /\ GoesTo(u, "empty") /\ Sq(u)' = Sq(u)
    \/ Empty(u) /\ GoesTo(u, "last") /\ Sq(u)' = Sq(u) /\ players[Sq(u)] = {}
    \/ Last(u) /\ GoesTo(u, "delete") /\ Sq(u)' = Sq(u)
    \/ (Empty(u) \/ Last(u) \/ Delete(u)) /\ Joins(u) /\ GoesTo(u, "leave") /\ Sq(u)' = Sq(u)
    \/ Leave(u) /\ TakesUp(u, Sq(u)')
    \/ Find(u) /\ TakesUp(u, Sq(u)')
    \/ /\ Check(u) /\ GoesTo(u, "insert") /\ Sq(u)' = Sq(u)
       /\ ~(Cardinality(players[Sq(u)]) >= Capacity)
    \/ Insert(u) /\ GoesTo(u, "enter") /\ Sq(u)' = Sq(u)

LEMMA RemovedJob ==
    ASSUME TypeInv, NEW t \in Thread, At(t, "empty") \/ At(t, "last") \/ At(t, "delete"), Removed(t)
    PROVE  /\ \A u \in Thread \ {t} : job'[u] = job[u]
           /\ \/ job'[t] = Idle /\ job[t].pc \notin {"enter", "look", "erase"}
              \/ Joins(t) /\ GoesTo(t, "leave") /\ Sq(t)' = Sq(t) /\ UNCHANGED at
<1>1. CASE Joins(t)
  BY <1>1, GoToIs DEF TypeInv, TypeOK, Removed, At, Pc, Sq, GoesTo
<1>2. CASE ~Joins(t)
  BY <1>2, IdleJob, ProceedIs DEF TypeInv, TypeOK, Removed, At
<1> QED BY <1>1, <1>2

LEMMA JobSteps == ASSUME TypeInv, Step, NEW u \in Thread PROVE JobStep(u)
<1>0. job \in [Thread -> Job] /\ NumbersOK /\ listed \in [Number -> Square \cup {None}]
      /\ Thread = {"lobby", "square"}
  BY DEF TypeInv, TypeOK, Thread
<1>1. ASSUME NEW o \in Object, Login(o) \/ ConnectRequest(o) \/ Disconnect(o) PROVE JobStep(u)
  BY <1>1 DEF JobStep, Login, ConnectRequest, Disconnect
<1>2. ASSUME NEW t \in Thread, NEW o \in Object, Close(t, o) PROVE JobStep(u)
  <2> DEFINE j == [do |-> "close", obj |-> o, sq |-> None, to |-> NoNumber, pc |-> "look"]
  <2>1. j \in Job
    BY DEF Job, Pc
  <2>2. job' \in [Thread -> Job] /\ job'[t] = j /\ \A v \in Thread \ {t} : job'[v] = job[v]
    BY <1>0, <1>2, <2>1, ProceedIs DEF Close
  <2>3. /\ job[t] = Idle /\ job'[t].pc = "look" /\ job'[t].sq = None
        /\ job'[t].do = "close" /\ job'[t].obj = o
    BY <1>2, <2>2 DEF Close, Free
  <2> QED BY <1>2, <2>2, <2>3 DEF JobStep
<1>3. ASSUME NEW o \in Object, NEW i \in Number, JoinSquare(o, i) PROVE JobStep(u)
  <2> DEFINE j == [do |-> "join", obj |-> o, sq |-> None, to |-> i, pc |-> "look"]
  <2>1. j \in Job
    BY DEF Job, Pc
  <2>2. job'["square"] = j /\ \A v \in Thread \ {"square"} : job'[v] = job[v]
    BY <1>0, <1>3, <2>1, ProceedIs DEF JoinSquare
  <2> QED BY <1>3, <2>2 DEF JobStep, JoinSquare, Free
<1>4. ASSUME NEW t \in Thread, Look(t) PROVE JobStep(u)
  <2>1. Obj(t) \in Object /\ job[t] # Idle /\ job[t].pc = "look"
    BY <1>4 DEF Look, At, Obj, TypeInv, JobOK
  <2>2. CASE SquareOf(Obj(t)) = None /\ Proceed(t, Idle)
    BY <1>0, <2>1, <2>2, ProceedIs, IdleJob DEF JobStep
  <2>3. CASE SquareOf(Obj(t)) = None /\ Joins(t) /\ GoTo(t, "find")
    BY <1>0, <1>4, <2>1, <2>3, GoToIs DEF JobStep, GoesTo, Pc
  <2>4. CASE SquareOf(Obj(t)) # None /\ GoToIn(t, "erase", SquareOf(Obj(t)))
    <3>1. SquareOf(Obj(t)) \in Square
      BY <2>1, <2>4, SquareOfType DEF TypeInv
    <3> QED BY <1>0, <1>4, <2>1, <2>4, <3>1, GoToInIs DEF JobStep, GoesTo, Pc, Sq
  <2> QED BY <1>4, <2>2, <2>3, <2>4 DEF Look
<1>5. ASSUME NEW t \in Thread, Erase(t) PROVE JobStep(u)
  BY <1>0, <1>5, GoToIs DEF JobStep, GoesTo, Erase, At, Pc, Sq
<1>6. ASSUME NEW t \in Thread, Empty(t) \/ Last(t) \/ Delete(t) PROVE JobStep(u)
  <2>1. CASE Removed(t)
    BY <1>6, <2>1, RemovedJob DEF JobStep, Empty, Last, Delete
  <2>2. CASE Empty(t) /\ players[Sq(t)] = {} /\ GoTo(t, "last")
    BY <1>0, <2>2, GoToIs DEF JobStep, GoesTo, Empty, At, Pc, Sq
  <2>3. CASE Last(t) /\ GoTo(t, "delete")
    BY <1>0, <2>3, GoToIs DEF JobStep, GoesTo, Last, At, Pc, Sq
  <2> QED BY <1>6, <2>1, <2>2, <2>3 DEF Empty, Last, Delete
<1>7. ASSUME NEW t \in Thread, Leave(t) PROVE JobStep(u)
  <2>1. CASE Proceed(t, Idle)
    BY <1>0, <1>7, <2>1, ProceedIs, IdleJob DEF JobStep, Leave, At
  <2>2. ASSUME NEW s \in Square, s = listed[job[t].to], Adds(t, s) PROVE JobStep(u)
    <3>1. job[t] # Idle /\ job[t].pc = "leave" /\ UNCHANGED listed
      BY <1>7 DEF Leave, At
    <3>2. job[t].to \in Number
      BY <1>0, <3>1 DEF TypeInv, JobOK, Joins, Job, Removing
    <3>3. listed[Id[s]] = s
      BY <1>0, <2>2, <3>2, NullAssumption DEF NumbersOK
    <3> QED BY <1>0, <1>7, <2>2, <3>1, <3>3, AddsIs DEF JobStep, TakesUp, GoesTo, Sq
  <2>3. job[t].to \in Number
    BY <1>0, <1>7 DEF Leave, At, TypeInv, JobOK, Joins, Job, Removing
  <2> QED BY <1>0, <1>7, <2>1, <2>2, <2>3 DEF Leave
<1>8. ASSUME NEW t \in Thread, Find(t) PROVE JobStep(u)
  <2>1. job[t] # Idle
    BY <1>8 DEF Find, At
  <2>2. CASE \E i \in Listed : Adds(t, listed[i]) /\ UNCHANGED squareVars
    <3>1. PICK i \in Listed : Adds(t, listed[i]) /\ UNCHANGED squareVars
      BY <2>2
    <3>2. listed[i] \in Square /\ listed[Id[listed[i]]] = listed[i]
      BY <1>0, <3>1 DEF Listed, NumbersOK
    <3> QED BY <1>0, <1>8, <2>1, <3>1, <3>2, AddsIs DEF JobStep, TakesUp, GoesTo, Sq, squareVars
  <2>3. ASSUME NEW s \in Square, listed[Id[s]] = None, Fresh(s), Create(s), Adds(t, s) PROVE JobStep(u)
    <3>1. listed'[Id[s]] = s
      BY <1>0, <2>3, NumbersAssumption DEF Create
    <3> QED BY <1>0, <1>8, <2>1, <2>3, <3>1, AddsIs DEF JobStep, TakesUp, GoesTo, Sq
  <2> QED BY <1>8, <2>2, <2>3, FindCases
<1>9. ASSUME NEW t \in Thread, Check(t) PROVE JobStep(u)
  <2>1. CASE Proceed(t, Idle)
    BY <1>0, <1>9, <2>1, ProceedIs, IdleJob DEF JobStep, Check, At
  <2>2. CASE ~(Cardinality(players[Sq(t)]) >= Capacity) /\ GoTo(t, "insert")
    BY <1>0, <1>9, <2>2, GoToIs DEF JobStep, GoesTo, Check, At, Pc, Sq
  <2> QED BY <1>9, <2>1, <2>2 DEF Check
<1>10. ASSUME NEW t \in Thread, Insert(t) PROVE JobStep(u)
  BY <1>0, <1>10, GoToIs DEF JobStep, GoesTo, Insert, At, Pc, Sq
<1>11. ASSUME NEW t \in Thread, Enter(t) PROVE JobStep(u)
  BY <1>0, <1>11, ProceedIs, IdleJob DEF JobStep, Enter, At
<1> QED BY <1>1, <1>2, <1>3, <1>4, <1>5, <1>6, <1>7, <1>8, <1>9, <1>10, <1>11 DEF Step

\* Only the square thread joins squares, and who is past looking has a job.
LEMMA OneJoins ==
    ASSUME TypeInv, NEW t \in Thread, NEW u \in Thread, Joins(t) PROVE Joins(u) => t = u
BY DEF TypeInv, JobOK, Joins

LEMMA AddingJoins ==
    ASSUME TypeInv, NEW t \in Thread, job[t].pc \in Adding \cup {"leave", "find"}
    PROVE  Joins(t) /\ job[t] # Idle /\ Obj(t) \in Object
BY DEF TypeInv, TypeOK, JobOK, Joins, Job, Obj, Idle, Adding, Removing

\* The players of squares change in Erase and Insert, which know their square.
LEMMA EraseIs ==
    ASSUME TypeInv, NEW t \in Thread, Erase(t)
    PROVE  /\ Sq(t) \in Square /\ Obj(t) \in Object /\ job[t].pc = "erase" /\ job[t] # Idle
           /\ job'[t].pc = "empty" /\ \A u \in Thread \ {t} : job'[u] = job[u]
           /\ \A s \in Square : players'[s] = IF s = Sq(t) THEN players[s] \ EntriesOf(Obj(t), s)
                                                          ELSE players[s]
           /\ \A q \in Object : at'[q] = IF q \in EntriesOf(Obj(t), Sq(t)) \ {Obj(t)} THEN None ELSE at[q]
<1>1. Sq(t) \in Square /\ Obj(t) \in Object /\ job[t].pc = "erase" /\ job[t] # Idle
  BY DEF TypeInv, JobOK, Erase, At, Sq, Obj, Removing
<1>2. job'[t].pc = "empty" /\ \A u \in Thread \ {t} : job'[u] = job[u]
  BY GoToIs DEF TypeInv, TypeOK, Erase, Pc
<1>3. players \in [Square -> SUBSET Object]
  BY DEF TypeInv, TypeOK
<1> QED BY <1>1, <1>2, <1>3 DEF Erase, Expired

LEMMA InsertIs ==
    ASSUME TypeInv, NEW t \in Thread, Insert(t)
    PROVE  /\ Sq(t) \in Square /\ Obj(t) \in Object /\ job[t].pc = "insert" /\ Joins(t)
           /\ job'[t].pc = "enter" /\ Sq(t)' = Sq(t) /\ Obj(t)' = Obj(t)
           /\ \A u \in Thread \ {t} : job'[u] = job[u]
           /\ \A s \in Square : players'[s] = IF s = Sq(t)
                                              THEN (players[s] \ EntriesOf(Obj(t), s)) \cup {Obj(t)}
                                              ELSE players[s]
           /\ \A q \in Object : at'[q] = IF q \in EntriesOf(Obj(t), Sq(t)) THEN None ELSE at[q]
<1>1. job[t].pc = "insert"
  BY DEF Insert, At
<1>2. Sq(t) \in Square /\ Obj(t) \in Object /\ Joins(t)
  BY <1>1, AddingJoins DEF TypeInv, JobOK, Sq, Adding
<1>3. /\ job'[t].pc = "enter" /\ Sq(t)' = Sq(t) /\ Obj(t)' = Obj(t)
      /\ \A u \in Thread \ {t} : job'[u] = job[u]
  BY GoToIs DEF TypeInv, TypeOK, Insert, Pc, Sq, Obj
<1>4. players \in [Square -> SUBSET Object]
  BY DEF TypeInv, TypeOK
<1> QED BY <1>1, <1>2, <1>3, <1>4 DEF Insert, Expired

\* The jobs of two threads go on one at a time.
LEMMA Alone ==
    ASSUME TypeInv, NEW t \in Thread,
           \/ Look(t) \/ Erase(t) \/ Empty(t) \/ Last(t) \/ Delete(t) \/ Leave(t) \/ Find(t)
           \/ Check(t) \/ Insert(t) \/ Enter(t) \/ \E o \in Object : Close(t, o)
    PROVE  \A u \in Thread \ {t} : job'[u] = job[u]
<1>1. ASSUME NEW j, Proceed(t, j) PROVE \A u \in Thread \ {t} : job'[u] = job[u]
  BY <1>1 DEF Proceed, TypeInv, TypeOK
<1>2. CASE Find(t)
  BY <1>1, <1>2, FindCases DEF Adds
<1>3. CASE Empty(t) \/ Last(t) \/ Delete(t)
  BY <1>1, <1>3 DEF Empty, Last, Delete, Removed, GoTo
<1> QED BY <1>1, <1>2, <1>3 DEF Look, Erase, Leave, Check, Insert, Enter, Close, GoTo, GoToIn, Adds

LEMMA PlayersSteps ==
    ASSUME Step PROVE UNCHANGED players \/ \E t \in Thread : Erase(t) \/ Insert(t)
BY DEF Step, Login, ConnectRequest, Close, Disconnect, JoinSquare, Look, Empty, Last, Delete, Leave, Find,
   Check, Enter, squareVars

-----------------------------------------------------------------------------
(* The capacity of a square                                                *)

LEMMA CapacityStep == TypeInv /\ CapacityInv /\ Next => CapacityInv'
<1> SUFFICES ASSUME TypeInv, CapacityInv, Step PROVE CapacityInv'
  BY DEF Next
<1> USE LimitsAssumption
<1>1. CASE UNCHANGED players
  <2>1. ASSUME NEW u \in Thread, job'[u].pc = "insert"
        PROVE  Cardinality(players[Sq(u)']) < Capacity
    <3>1. JobStep(u)
      BY JobSteps
    <3>2. CASE job'[u] = job[u]
      BY <2>1, <3>2 DEF CapacityInv, Sq
    <3>3. CASE Check(u) /\ Sq(u)' = Sq(u) /\ ~(Cardinality(players[Sq(u)]) >= Capacity)
      <4>1. Sq(u) \in Square
        BY <3>3 DEF Check, At, Sq, TypeInv, JobOK, Adding
      <4>2. Cardinality(players[Sq(u)]) \in Nat
        BY <4>1, FS_CardinalityType DEF CapacityInv
      <4> QED BY <3>3, <4>2
    <3> QED BY <2>1, <3>1, <3>2, <3>3 DEF JobStep, GoesTo, TakesUp, Idle
  <2> QED BY <1>1, <2>1 DEF CapacityInv
<1>2. ASSUME NEW t \in Thread, Erase(t) PROVE CapacityInv'
  <2>1. \A s \in Square : players'[s] \subseteq players[s]
    BY <1>2, EraseIs
  <2>2. ASSUME NEW s \in Square
        PROVE  /\ IsFiniteSet(players'[s]) /\ Cardinality(players'[s]) \in Nat /\ Cardinality(players[s]) \in Nat
               /\ Cardinality(players'[s]) <= Cardinality(players[s])
    <3>1. IsFiniteSet(players[s]) /\ players'[s] \in SUBSET players[s]
      BY <2>1 DEF CapacityInv
    <3>2. IsFiniteSet(players'[s]) /\ Cardinality(players'[s]) <= Cardinality(players[s])
      BY <3>1, FS_Subset
    <3> QED BY <3>1, <3>2, FS_CardinalityType
  <2>3. ASSUME NEW u \in Thread, job'[u].pc = "insert" PROVE job'[u] = job[u] /\ Sq(u) \in Square
    BY <1>2, <2>3, EraseIs DEF Sq, TypeInv, JobOK, Adding
  <2> QED BY <2>2, <2>3 DEF CapacityInv, Sq
<1>3. ASSUME NEW t \in Thread, Insert(t) PROVE CapacityInv'
  <2>1. Sq(t) \in Square /\ IsFiniteSet(players[Sq(t)]) /\ Cardinality(players[Sq(t)]) < Capacity
    BY <1>3, InsertIs DEF CapacityInv
  <2> DEFINE rest == players[Sq(t)] \ EntriesOf(Obj(t), Sq(t))
  <2>2. IsFiniteSet(rest) /\ Cardinality(rest) \in Nat /\ Cardinality(rest) < Capacity
    BY <2>1, FS_Subset, FS_CardinalityType
  <2>3. IsFiniteSet(rest \cup {Obj(t)}) /\ Cardinality(rest \cup {Obj(t)}) <= Capacity
    <3>1. /\ IsFiniteSet(rest \cup {Obj(t)})
          /\ \/ Cardinality(rest \cup {Obj(t)}) = Cardinality(rest)
             \/ Cardinality(rest \cup {Obj(t)}) = Cardinality(rest) + 1
      BY <2>2, FS_AddElement
    <3> HIDE DEF rest
    <3> QED BY <2>2, <3>1
  <2>4. \A s \in Square : players'[s] = IF s = Sq(t) THEN rest \cup {Obj(t)} ELSE players[s]
    BY <1>3, InsertIs
  <2>5. \A s \in Square : IsFiniteSet(players'[s]) /\ Cardinality(players'[s]) <= Capacity
    BY <2>3, <2>4 DEF CapacityInv
  <2>6. ASSUME NEW u \in Thread PROVE job'[u].pc # "insert"
    <3>1. CASE u = t
      BY <1>3, <3>1, InsertIs
    <3>2. CASE u # t /\ job'[u].pc = "insert"
      BY <1>3, <3>2, InsertIs, AddingJoins, OneJoins DEF Adding
    <3> QED BY <3>1, <3>2
  <2> QED BY <2>5, <2>6 DEF CapacityInv
<1> QED BY <1>1, <1>2, <1>3, PlayersSteps

-----------------------------------------------------------------------------
(* The square of a player                                                  *)

LEMMA OneSquare == TypeInv /\ PlaceInv => OneSquareEach
<1> SUFFICES ASSUME TypeInv, PlaceInv, NEW s \in Square, NEW q \in Square, s # q,
                    NEW o \in players[s], o \in players[q]
             PROVE  FALSE
  BY DEF OneSquareEach
<1>1. o \in Object /\ s \in In(o) /\ q \in In(o)
  BY DEF TypeInv, TypeOK, In
<1>2. ASSUME NEW t \in Thread, job[t].pc = "enter", Obj(t) = o PROVE FALSE
  BY <1>1, <1>2, AddingJoins DEF PlaceInv, Adding
<1> QED BY <1>1, <1>2 DEF PlaceInv, Known

\* Who is not being let into a square is in the one that he knows of, or in none.
LEMMA Knows ==
    ASSUME TypeInv, PlaceInv, NEW o \in Object,
           \A t \in Thread : ~(job[t].pc = "enter" /\ Obj(t) = o)
    PROVE  In(o) = {} \/ (at[o] \in Square /\ In(o) = {at[o]} /\ SquareOf(o) = at[o])
<1>1. \A s \in In(o) : s = at[o]
  BY DEF PlaceInv, Known
<1> QED BY <1>1, NullAssumption DEF In, SquareOf

\* Where the players of other squares are is left alone.
LEMMA StaysIn ==
    ASSUME TypeInv, Step, NEW o \in Object, \A t \in Thread : Insert(t) => Obj(t) # o
    PROVE  In(o)' \subseteq In(o)
<1>1. CASE UNCHANGED players
  BY <1>1 DEF In
<1>2. ASSUME NEW t \in Thread, Erase(t) PROVE In(o)' \subseteq In(o)
  BY <1>2, EraseIs DEF In
<1>3. ASSUME NEW t \in Thread, Insert(t) PROVE In(o)' \subseteq In(o)
  <2>1. o # Obj(t)
    BY <1>3
  <2> QED BY <1>3, <2>1, InsertIs DEF In
<1> QED BY <1>1, <1>2, <1>3, PlayersSteps

LEMMA KnownPlaces ==
    ASSUME TypeInv, PlaceInv, Step, NEW o \in Object, NEW s \in Square, o \in players'[s]
    PROVE  Known(o, s)'
<1> DEFINE Entering(t) == job[t].pc = "enter" /\ Obj(t) = o /\ Sq(t) = s
<1>a. at \in [Object -> Square \cup {None}] /\ players \in [Square -> SUBSET Object]
  BY DEF TypeInv, TypeOK
<1>b. ASSUME o \in players[s] PROVE at[o] = s \/ \E t \in Thread : Entering(t)
  BY <1>b DEF PlaceInv, Known, In
<1>c. ASSUME o \in players[s], at'[o] = at[o], \A t \in Thread : Entering(t) => job'[t] = job[t]
      PROVE  Known(o, s)'
  BY <1>b, <1>c DEF Known, Obj, Sq
<1>1. ASSUME NEW q \in Object, Login(q) PROVE Known(o, s)'
  <2>1. o # q /\ at'[o] = at[o] /\ UNCHANGED <<players, job>>
    BY <1>1, <1>a DEF Login, NewObject, Expired
  <2> QED BY <1>c, <2>1
<1>2. ASSUME NEW q \in Object, ConnectRequest(q) \/ Disconnect(q) PROVE Known(o, s)'
  BY <1>2, <1>c DEF ConnectRequest, Disconnect, squareVars
<1>3. ASSUME NEW t \in Thread, NEW q \in Object, Close(t, q) PROVE Known(o, s)'
  <2>1. \A u \in Thread \ {t} : job'[u] = job[u]
    BY <1>3, Alone
  <2>2. job[t].pc # "enter"
    BY <1>3 DEF Close, Free, Idle
  <2> QED BY <1>3, <1>c, <2>1, <2>2 DEF Close, squareVars
<1>4. ASSUME NEW q \in Object, NEW i \in Number, JoinSquare(q, i) PROVE Known(o, s)'
  BY <1>4, <1>c DEF JoinSquare, Free, Proceed, Idle, squareVars, TypeInv, TypeOK
<1>5. ASSUME NEW t \in Thread, Look(t) \/ Find(t) \/ Check(t) PROVE Known(o, s)'
  <2>1. UNCHANGED <<players, at>> /\ job[t].pc # "enter"
    BY <1>5 DEF Look, Find, Check, At, squareVars
  <2> QED BY <1>5, <1>c, <2>1, Alone
<1>6. ASSUME NEW t \in Thread, Erase(t) PROVE Known(o, s)'
  <2>1. o \in players[s] /\ ~(s = Sq(t) /\ o \in EntriesOf(Obj(t), s))
    BY <1>6, EraseIs
  <2>2. o \notin EntriesOf(Obj(t), Sq(t))
    BY <1>6, <2>1, EraseIs, OneSquare DEF OneSquareEach, EntriesOf
  <2> QED BY <1>6, <1>c, <2>1, <2>2, EraseIs
<1>7. ASSUME NEW t \in Thread, Empty(t) \/ Last(t) \/ Delete(t) PROVE Known(o, s)'
  <2>1. UNCHANGED players /\ job[t].pc # "enter" /\ Sq(t) \in Square
    BY <1>7 DEF Empty, Last, Delete, At, TypeInv, JobOK, Sq, Removing
  <2>2. \/ UNCHANGED at
        \/ /\ Obj(t) \notin players[Sq(t)] /\ at[Obj(t)] = Sq(t)
           /\ at' = [at EXCEPT ![Obj(t)] = None]
    BY <1>7 DEF Empty, Last, Delete, Removed
  <2>3. \A u \in Thread : Entering(u) => job'[u] = job[u]
    BY <1>7, <2>1, Alone
  <2>4. CASE at'[o] = at[o]
    BY <1>c, <2>1, <2>3, <2>4
  <2>5. CASE at'[o] # at[o]
    <3>1. o = Obj(t) /\ at[o] = Sq(t) /\ o \notin players[Sq(t)]
      BY <2>2, <2>5, <1>a
    <3>2. \E u \in Thread : Entering(u)
      BY <1>b, <2>1, <3>1
    <3>3. PICK u \in Thread : Entering(u)
      BY <3>2
    <3>4. job'[u] = job[u]
      BY <2>3, <3>3
    <3> QED BY <3>3, <3>4 DEF Known, Obj, Sq
  <2> QED BY <2>4, <2>5
<1>8. ASSUME NEW t \in Thread, Leave(t) PROVE Known(o, s)'
  <2>1. job[t].pc = "leave" /\ UNCHANGED players /\ at' = [at EXCEPT ![Obj(t)] = None]
    BY <1>8 DEF Leave, At
  <2>2. In(Obj(t)) = {}
    BY <2>1, AddingJoins DEF PlaceInv
  <2>3. o # Obj(t)
    BY <2>1, <2>2 DEF In
  <2> QED BY <1>8, <1>a, <1>c, <2>1, <2>3, Alone
<1>9. ASSUME NEW t \in Thread, Insert(t) PROVE Known(o, s)'
  <2>1. CASE o = Obj(t)
    <3>1. In(o) = {}
      BY <1>9, <2>1, InsertIs DEF PlaceInv
    <3>2. s = Sq(t)
      BY <1>9, <3>1, InsertIs DEF In
    <3> QED BY <1>9, <2>1, <3>2, InsertIs DEF Known
  <2>2. CASE o # Obj(t)
    <3>1. o \in players[s] /\ ~(s = Sq(t) /\ o \in EntriesOf(Obj(t), s))
      <4>1. players'[s] = IF s = Sq(t) THEN (players[s] \ EntriesOf(Obj(t), s)) \cup {Obj(t)}
                                       ELSE players[s]
        BY <1>9, InsertIs
      <4> QED BY <2>2, <4>1
    <3>2. o \notin EntriesOf(Obj(t), Sq(t))
      BY <1>9, <3>1, InsertIs, OneSquare DEF OneSquareEach, EntriesOf
    <3> QED BY <1>9, <1>c, <2>2, <3>1, <3>2, InsertIs
  <2> QED BY <2>1, <2>2
<1>10. ASSUME NEW t \in Thread, Enter(t) PROVE Known(o, s)'
  <2>1. /\ job[t].pc = "enter" /\ Obj(t) \in Object /\ UNCHANGED players
        /\ at' = [at EXCEPT ![Obj(t)] = Sq(t)]
    BY <1>10, AddingJoins DEF Enter, At, Adding
  <2>2. CASE o = Obj(t)
    <3>1. In(o) \subseteq {Sq(t)}
      BY <2>1, <2>2, AddingJoins DEF PlaceInv, Adding
    <3> QED BY <1>a, <2>1, <2>2, <3>1 DEF In, Known
  <2>3. CASE o # Obj(t)
    BY <1>10, <1>a, <1>c, <2>1, <2>3, Alone
  <2> QED BY <2>2, <2>3
<1> QED BY <1>1, <1>2, <1>3, <1>4, <1>5, <1>6, <1>7, <1>8, <1>9, <1>10 DEF Step

LEMMA PlaceStep == TypeInv /\ PlaceInv /\ Next => PlaceInv'
<1> SUFFICES ASSUME TypeInv, PlaceInv, Step PROVE PlaceInv'
  BY DEF Next
<1>1. \A o \in Object : \A s \in In(o)' : Known(o, s)'
  BY KnownPlaces DEF In
<1> DEFINE Away == {"empty", "last", "delete", "leave", "find", "check", "insert"}
<1>2. ASSUME NEW u \in Thread, Joins(u)'
      PROVE  /\ job'[u].pc \in Away => In(Obj(u))' = {}
             /\ job'[u].pc \in {"erase", "enter"} => In(Obj(u))' \subseteq {Sq(u)'}
  <2>1. JobStep(u)
    BY JobSteps
  <2>2. CASE job'[u] = job[u]
    <3>1. \A t \in Thread : Insert(t) => t # u
      BY <2>2, InsertIs
    <3>2. Joins(u) /\ Obj(u)' = Obj(u) /\ Sq(u)' = Sq(u)
      BY <1>2, <2>2 DEF Joins, Obj, Sq
    <3>3. In(Obj(u))' \subseteq In(Obj(u))
      <4>1. CASE job[u] = Idle
        BY <3>2, <4>1 DEF Joins, Idle
      <4>2. CASE job[u] # Idle
        <5>1. Obj(u) \in Object /\ \A t \in Thread : ~Insert(t)
          BY <3>1, <3>2, <4>2, InsertIs, OneJoins DEF TypeInv, JobOK, Obj, Joins
        <5> QED BY <5>1, <3>2, StaysIn DEF In
      <4> QED BY <4>1, <4>2
    <3> QED BY <2>2, <3>2, <3>3 DEF PlaceInv
  <2>3. ASSUME job[u] # Idle, Obj(u)' = Obj(u), Joins(u), job[u].pc # "enter"
        PROVE  Obj(u) \in Object /\ \A t \in Thread : ~(job[t].pc = "enter" /\ Obj(t) = Obj(u))
    BY <2>3, OneJoins, AddingJoins DEF TypeInv, JobOK, Obj, Joins, Adding
  <2>4. CASE /\ job[u] = Idle /\ job'[u].pc = "look"
    BY <2>4
  <2>5. CASE Look(u) /\ GoesTo(u, "find") /\ Joins(u) /\ SquareOf(Obj(u)) = None
    <3>1. In(Obj(u)) = {}
      BY <2>3, <2>5, Knows, NullAssumption DEF Look, At, GoesTo, Obj
    <3>2. UNCHANGED players /\ Obj(u)' = Obj(u) /\ job'[u].pc = "find"
      BY <2>5 DEF Look, squareVars, GoesTo, Obj
    <3> QED BY <3>1, <3>2 DEF In
  <2>6. CASE Look(u) /\ GoesTo(u, "erase") /\ Sq(u)' = SquareOf(Obj(u))
    <3>1. In(Obj(u)) \subseteq {SquareOf(Obj(u))}
      BY <1>2, <2>3, <2>6, Knows DEF Look, At, GoesTo, Obj, Joins
    <3>2. UNCHANGED players /\ Obj(u)' = Obj(u) /\ job'[u].pc = "erase"
      BY <2>6 DEF Look, squareVars, GoesTo, Obj
    <3> QED BY <2>6, <3>1, <3>2 DEF In
  <2>7. CASE Erase(u) /\ GoesTo(u, "empty")
    <3>1. In(Obj(u)) \subseteq {Sq(u)}
      BY <1>2, <2>7 DEF PlaceInv, Erase, At, GoesTo, Joins
    <3>2. \A s \in Square : Obj(u) \notin players'[s]
      BY <2>7, <3>1, EraseIs DEF In, EntriesOf
    <3> QED BY <2>7, <3>2 DEF In, GoesTo, Obj
  <2>8. CASE /\ Empty(u) \/ Last(u) \/ Delete(u) \/ Leave(u) \/ Find(u) \/ Check(u)
             /\ \E pc \in Away : GoesTo(u, pc)
    <3>1. In(Obj(u)) = {}
      BY <1>2, <2>8 DEF PlaceInv, Empty, Last, Delete, Leave, Find, Check, At, GoesTo, Joins
    <3>2. UNCHANGED players
      BY <2>8 DEF Empty, Last, Delete, Leave, Find, Check, squareVars
    <3>3. Obj(u)' = Obj(u) /\ job'[u].pc \in Away
      BY <2>8 DEF GoesTo, Obj
    <3> QED BY <3>1, <3>2, <3>3 DEF In
  <2>9. CASE Insert(u)
    <3>1. In(Obj(u)) = {}
      BY <2>9, InsertIs DEF PlaceInv
    <3>2. In(Obj(u))' \subseteq {Sq(u)}
      BY <2>9, <3>1, InsertIs DEF In
    <3> QED BY <2>9, <3>2, InsertIs
  <2> QED BY <1>2, <2>1, <2>2, <2>4, <2>5, <2>6, <2>7, <2>8, <2>9 DEF JobStep, TakesUp, Joins, Idle
<1> QED BY <1>1, <1>2 DEF PlaceInv

-----------------------------------------------------------------------------
(* Closed players                                                          *)

\* Who is joining is online, or was closed too late.
LEMMA JoinersKnown ==
    ASSUME TypeInv, ClosedInv, NEW t \in Thread, job[t].pc \in Adding \cup {"leave", "find"}
    PROVE  Obj(t) \in online \cup raced
BY AddingJoins DEF ClosedInv

LEMMA ClosedStep ==
    TypeInv /\ PlaceInv /\ ClosedInv /\ ClosedPlayersGone /\ Next => ClosedInv' /\ ClosedPlayersGone'
<1> SUFFICES ASSUME TypeInv, PlaceInv, ClosedInv, ClosedPlayersGone, Next
             PROVE  ClosedInv' /\ ClosedPlayersGone'
  OBVIOUS
<1>s. Step
  BY DEF Next
<1>0. /\ players \in [Square -> SUBSET Object] /\ job \in [Thread -> Job]
      /\ online \subseteq Object /\ raced \subseteq Object /\ conn \subseteq Object
  BY DEF TypeInv, TypeOK
<1>t. TypeInv'
  BY TypeStep DEF Next
<1>1. ASSUME NEW o \in Object, Login(o) PROVE ClosedInv' /\ ClosedPlayersGone'
  <2>1. /\ online' = online \cup {o} /\ raced' = raced \ {o} /\ UNCHANGED <<conn, players, job>>
        /\ \A t \in Thread : Obj(t) # o
    BY <1>1 DEF Login, NewObject
  <2> QED BY <2>1, <1>0 DEF ClosedInv, ClosedPlayersGone, Joins, Obj, Sq, In
<1>2. ASSUME NEW o \in Object, ConnectRequest(o) \/ Disconnect(o) PROVE ClosedInv' /\ ClosedPlayersGone'
  <2>1. /\ conn' \subseteq conn \cup {o} /\ raced \subseteq raced' /\ UNCHANGED <<online, players, job>>
        /\ o \in conn' => o \in online \cup raced'
    BY <1>2 DEF ConnectRequest, Disconnect, squareVars, ClosedInv
  <2> QED BY <2>1 DEF ClosedInv, ClosedPlayersGone, Joins, Obj, Sq, In
<1>3. ASSUME NEW t \in Thread, NEW o \in Object, Close(t, o) PROVE ClosedInv' /\ ClosedPlayersGone'
  <2> DEFINE j == [do |-> "close", obj |-> o, sq |-> None, to |-> NoNumber, pc |-> "look"]
  <2>1. /\ online' = online \ {o} /\ conn' = conn \ {o} /\ UNCHANGED players /\ job[t] = Idle
        /\ raced' = IF \E u \in Thread : Obj(u) = o THEN raced \cup {o} ELSE raced
    BY <1>3 DEF Close, squareVars, Free
  <2>2. job'[t] = j /\ \A u \in Thread \ {t} : job'[u] = job[u]
    BY <1>0, <1>3 DEF Close, Proceed
  <2>3. ASSUME NEW u \in Thread, u # t
        PROVE  /\ Joins(u)' => Obj(u)' \in online' \cup raced'
               /\ job'[u].do = "close" =>
                     /\ Obj(u)' \notin online'
                     /\ Obj(u)' \notin raced' =>
                           /\ job'[u].pc = "erase" => In(Obj(u))' \subseteq {Sq(u)'}
                           /\ job'[u].pc \in {"empty", "last", "delete"} => In(Obj(u))' = {}
    BY <2>1, <2>2, <2>3 DEF ClosedInv, Joins, Obj, Sq, In
  <2>4. ClosedInv'
    BY <2>1, <2>2, <2>3 DEF ClosedInv, Joins, Obj
  <2>5. ClosedPlayersGone'
    BY <2>1, <2>2, NullAssumption, <1>0 DEF ClosedPlayersGone, Obj, Idle
  <2> QED BY <2>4, <2>5
<1>4. ASSUME UNCHANGED playerVars PROVE ClosedInv' /\ ClosedPlayersGone'
  <2>1. UNCHANGED <<online, conn, raced>>
    BY <1>4 DEF playerVars
  <2>2. ASSUME NEW o \in Object, o \notin online \cup raced PROVE In(o)' \subseteq In(o)
    BY <1>s, <2>2, StaysIn, InsertIs, JoinersKnown DEF Adding
  <2>3. ASSUME NEW o \in Object, o \notin online \cup raced
        PROVE  In(o) = {} \/ (at[o] \in Square /\ In(o) = {at[o]} /\ SquareOf(o) = at[o])
    <3>1. \A t \in Thread : ~(job[t].pc = "enter" /\ Obj(t) = o)
      BY <2>3, JoinersKnown DEF Adding
    <3> QED BY <3>1, Knows
  <2>4. ASSUME NEW u \in Thread, Joins(u)' PROVE Obj(u)' \in online \cup raced
    <3>1. CASE job'[u] = Idle
      BY <2>4, <3>1 DEF Joins, Idle
    <3>2. CASE job'[u].do = job[u].do /\ job'[u].obj = job[u].obj
      BY <2>4, <3>2 DEF ClosedInv, Joins, Obj
    <3>3. CASE \E o \in Object : o \in conn /\ job'[u].obj = o
      BY <3>3 DEF ClosedInv, Obj
    <3> QED BY <1>s, <2>4, <3>1, <3>2, <3>3, JobSteps DEF JobStep, TakesUp, GoesTo, Joins
  <2>5. ASSUME NEW u \in Thread, job'[u].do = "close"
        PROVE  /\ Obj(u)' \notin online
               /\ Obj(u)' \notin raced =>
                     /\ job'[u].pc = "erase" => In(Obj(u))' \subseteq {Sq(u)'}
                     /\ job'[u].pc \in {"empty", "last", "delete"} => In(Obj(u))' = {}
    <3> DEFINE Away == {"empty", "last", "delete"}
    <3>1. JobStep(u)
      BY <1>s, JobSteps
    <3>2. Obj(u)' \in Object
      BY <1>t, <2>5 DEF TypeInv, JobOK, Obj
    <3>3. CASE job'[u] = job[u]
      <4>1. Obj(u) \notin online /\ Obj(u)' = Obj(u) /\ Sq(u)' = Sq(u)
        BY <2>5, <3>3 DEF ClosedInv, Obj, Sq
      <4>2. ASSUME Obj(u) \notin raced PROVE In(Obj(u))' \subseteq In(Obj(u))
        BY <2>2, <3>2, <4>1, <4>2 DEF In
      <4> QED BY <2>5, <3>3, <4>1, <4>2 DEF ClosedInv
    <3>4. CASE \E o \in Object : Close(u, o)
      BY <2>1, <3>4 DEF Close
    <3>5. ASSUME NEW pc, GoesTo(u, pc)
          PROVE  /\ Obj(u)' = Obj(u) /\ Obj(u) \in Object /\ Obj(u) \notin online /\ job[u].do = "close"
                 /\ job'[u].pc = pc
      BY <2>5, <3>2, <3>5 DEF GoesTo, ClosedInv, Obj
    <3>6. CASE Look(u) /\ GoesTo(u, "erase") /\ Sq(u)' = SquareOf(Obj(u))
      <4>1. Obj(u) \notin raced => In(Obj(u)) \subseteq {SquareOf(Obj(u))}
        BY <2>3, <3>5, <3>6
      <4> QED BY <3>5, <3>6, <4>1 DEF In, Look, squareVars
    <3>7. CASE Erase(u) /\ GoesTo(u, "empty")
      <4>1. Obj(u) \notin raced => In(Obj(u)) \subseteq {Sq(u)}
        BY <3>5, <3>7 DEF ClosedInv, Erase, At
      <4>2. Obj(u) \notin raced => \A s \in Square : Obj(u) \notin players'[s]
        BY <3>7, <4>1, EraseIs DEF In, EntriesOf
      <4> QED BY <3>5, <3>7, <4>2 DEF In
    <3>8. CASE (Empty(u) \/ Last(u)) /\ \E pc \in Away : GoesTo(u, pc)
      <4>1. Obj(u) \notin raced => In(Obj(u)) = {}
        BY <3>5, <3>8 DEF ClosedInv, Empty, Last, At
      <4>2. UNCHANGED players
        BY <3>8 DEF Empty, Last
      <4>3. Obj(u)' = Obj(u) /\ Obj(u) \notin online /\ job'[u].pc \in Away
        BY <3>5, <3>8
      <4> QED BY <4>1, <4>2, <4>3 DEF In
    <3>9. CASE Joins(u) /\ \E pc : GoesTo(u, pc)
      BY <3>5, <3>9 DEF Joins
    <3>10. CASE \E pc \in Adding : GoesTo(u, pc)
      <4>1. job'[u].pc \in Adding
        BY <3>10 DEF GoesTo
      <4> QED BY <1>t, <2>5, <4>1 DEF TypeInv, JobOK, Adding, Removing
    <3> QED BY <2>5, <3>1, <3>3, <3>4, <3>6, <3>7, <3>8, <3>9, <3>10 DEF JobStep, TakesUp, Idle, Adding
  <2>6. ASSUME NEW s \in Square, NEW o \in players'[s], o \notin online, o \notin raced
        PROVE  \E t \in Thread : Obj(t)' = o
    <3>1. o \in Object
      BY <1>t, <2>6 DEF TypeInv, TypeOK
    <3>2. o \in players[s]
      BY <2>2, <2>6, <3>1 DEF In
    <3>3. PICK t \in Thread : Obj(t) = o
      BY <2>6, <3>2 DEF ClosedPlayersGone
    <3>4. job[t].do = "close" /\ job[t] # Idle
      BY <1>0, <2>6, <3>1, <3>3, NullAssumption DEF ClosedInv, Joins, Obj, Job, Idle, TypeInv, JobOK
    <3>5. CASE job'[t] = Idle
      <4>1. job[t].pc \in {"look", "empty", "last", "delete"}
        BY <1>s, <3>4, <3>5, JobSteps DEF JobStep, GoesTo, TakesUp, Idle, TypeInv, JobOK, Removing
      <4>2. job[t].pc = "look" => SquareOf(o) = None
        BY <1>s, <3>3, <3>4, <3>5, JobSteps DEF JobStep, GoesTo, TakesUp, Idle
      <4>3. In(o) = {}
        BY <2>3, <2>6, <3>1, <3>3, <3>4, <4>1, <4>2, NullAssumption DEF ClosedInv
      <4> QED BY <3>2, <4>3 DEF In
    <3>6. CASE job'[t] # Idle
      BY <1>s, <3>3, <3>4, <3>6, JobSteps DEF JobStep, GoesTo, TakesUp, Obj
    <3> QED BY <3>5, <3>6
  <2>7. ClosedPlayersGone'
    BY <2>1, <2>6 DEF ClosedPlayersGone
  <2> QED BY <2>1, <2>4, <2>5, <2>7 DEF ClosedInv
<1> QED BY <1>s, <1>1, <1>2, <1>3, <1>4 DEF Step, JoinSquare, Look, Erase, Empty, Last, Delete, Leave, Find,
        Check, Insert, Enter

-----------------------------------------------------------------------------
(* Squares on the list                                                     *)

\* The list changes in Delete and in Find, when it creates a square.
LEMMA ListedSteps ==
    ASSUME TypeInv, Step
    PROVE  \/ UNCHANGED listed
           \/ \E t \in Thread : Delete(t)
           \/ \E t \in Thread, s \in Square :
                 /\ Find(t) /\ job'[t].pc = "check" /\ Sq(t)' = s
                 /\ listed[Id[s]] = None /\ listed' = [listed EXCEPT ![Id[s]] = s]
<1>1. ASSUME NEW t \in Thread, Find(t)
      PROVE  \/ UNCHANGED listed
             \/ \E s \in Square : /\ job'[t].pc = "check" /\ Sq(t)' = s /\ listed[Id[s]] = None
                                /\ listed' = [listed EXCEPT ![Id[s]] = s]
  <2>1. ASSUME NEW s \in Square, listed[Id[s]] = None, Create(s), Adds(t, s)
        PROVE  /\ job'[t].pc = "check" /\ Sq(t)' = s /\ listed[Id[s]] = None
               /\ listed' = [listed EXCEPT ![Id[s]] = s]
    BY <2>1, AddsIs DEF TypeInv, TypeOK, Create, Sq
  <2> QED BY <1>1, <2>1, FindCases DEF squareVars
<1> QED BY <1>1 DEF Step, Login, ConnectRequest, Close, Disconnect, JoinSquare, Look, Erase, Empty, Last,
        Leave, Check, Insert, Enter, squareVars

\* Two threads that deal with squares of one number are known to.
LEMMA BothDeal ==
    ASSUME TypeInv, NEW t \in Thread, NEW u \in Thread, t # u, Sq(t) \in Square, Sq(u) \in Square,
           Id[Sq(t)] = Id[Sq(u)]
    PROVE  Id[Sq(t)] \in DealtWithByBoth
BY NumbersAssumption, NullAssumption DEF DealtWithByBoth, Thread

LEMMA ListStep ==
    TypeInv /\ ListInv /\ PlayersInListedSquares /\ Next => ListInv' /\ PlayersInListedSquares'
<1> SUFFICES ASSUME TypeInv, ListInv, PlayersInListedSquares, Next
             PROVE  ListInv' /\ PlayersInListedSquares'
  OBVIOUS
<1>0. Step /\ contended' = contended \cup DealtWithByBoth'
  BY DEF Next
<1>t. TypeInv'
  BY TypeStep
<1>l. listed \in [Number -> Square \cup {None}] /\ Id \in [Square -> Number]
  BY NumbersAssumption DEF TypeInv, TypeOK
<1> DEFINE Deals(t) == job[t].pc \in Removing \cup {"check", "insert"}
<1>d. ASSUME NEW t \in Thread, Deals(t), Id[Sq(t)] \notin contended
      PROVE  /\ Sq(t) \in Square /\ listed[Id[Sq(t)]] = Sq(t)
             /\ job[t].pc \in {"last", "delete"} => players[Sq(t)] = {}
  BY <1>d DEF ListInv, TypeInv, JobOK, Sq, Adding
\* What was on the list stays, as long as no other thread is known to interfere.
<1>1. ASSUME NEW s \in Square, listed[Id[s]] = s, Id[s] \notin contended',
             \A t \in Thread : ~(Delete(t) /\ Sq(t) = s)
      PROVE  listed'[Id[s]] = s
  <2>1. ASSUME NEW t \in Thread, Delete(t) PROVE listed'[Id[s]] = s
    <3>1. Sq(t) \in Square /\ Deals(t) /\ listed' = [listed EXCEPT ![Id[Sq(t)]] = None]
      BY <2>1 DEF Delete, At, Sq, TypeInv, JobOK, Removing
    <3>2. CASE Id[Sq(t)] = Id[s]
      BY <1>0, <1>1, <1>d, <2>1, <3>1, <3>2
    <3>3. CASE Id[Sq(t)] # Id[s]
      BY <1>1, <1>l, <3>1, <3>3
    <3> QED BY <3>2, <3>3
  <2>2. ASSUME NEW q \in Square, listed[Id[q]] = None, listed' = [listed EXCEPT ![Id[q]] = q]
        PROVE  listed'[Id[s]] = s
    BY <1>1, <1>l, <2>2, NullAssumption
  <2> QED BY <1>0, <1>1, <2>1, <2>2, ListedSteps
\* What a thread deals with stays on the list until it deletes it.
<1>2. ASSUME NEW u \in Thread, Deals(u), Id[Sq(u)] \notin contended', ~Delete(u)
      PROVE  Sq(u) \in Square /\ listed'[Id[Sq(u)]] = Sq(u)
  <2>1. Sq(u) \in Square /\ listed[Id[Sq(u)]] = Sq(u)
    BY <1>0, <1>2, <1>d
  <2>2. ASSUME NEW t \in Thread, Delete(t), Sq(t) = Sq(u) PROVE FALSE
    <3>1. t # u
      BY <1>2, <2>2
    <3> QED BY <1>0, <1>2, <2>1, <2>2, <3>1, BothDeal DEF ListInv
  <2> QED BY <1>1, <1>2, <2>1, <2>2
\* A square that is empty when a thread is about to delete it stays so.
<1>3. ASSUME NEW u \in Thread, job[u].pc \in {"empty", "last", "delete"}, Id[Sq(u)] \notin contended',
             players[Sq(u)] = {}
      PROVE  players'[Sq(u)] = {}
  <2>1. Sq(u) \in Square
    BY <1>3 DEF TypeInv, JobOK, Sq, Removing
  <2>2. ASSUME NEW t \in Thread, Insert(t) PROVE Sq(t) # Sq(u)
    BY <1>0, <1>3, <2>1, <2>2, InsertIs, BothDeal DEF ListInv
  <2>3. ASSUME NEW t \in Thread, Insert(t) PROVE players'[Sq(u)] = players[Sq(u)]
    BY <2>1, <2>2, <2>3, InsertIs
  <2>4. ASSUME NEW t \in Thread, Erase(t) PROVE players'[Sq(u)] \subseteq players[Sq(u)]
    BY <2>1, <2>4, EraseIs
  <2> QED BY <1>0, <1>3, <2>3, <2>4, PlayersSteps
<1>4. ASSUME NEW s \in Square, players'[s] # {}, Id[s] \notin contended' PROVE listed'[Id[s]] = s
  <2>1. CASE players[s] # {}
    <3>1. listed[Id[s]] = s
      BY <1>0, <1>4, <2>1 DEF PlayersInListedSquares
    <3>2. ASSUME NEW t \in Thread, Delete(t), Sq(t) = s PROVE FALSE
      BY <1>0, <1>4, <1>d, <2>1, <3>2 DEF Delete, At, Removing
    <3> QED BY <1>1, <1>4, <3>1, <3>2
  <2>2. CASE players[s] = {}
    <3>1. PICK t \in Thread : Insert(t) /\ Sq(t) = s
      BY <1>0, <1>4, <2>2, PlayersSteps, EraseIs, InsertIs
    <3>2. Deals(t) /\ ~Delete(t)
      BY <3>1, InsertIs DEF Delete, At
    <3> QED BY <1>2, <1>4, <3>1, <3>2
  <2> QED BY <2>1, <2>2
<1>5. ASSUME NEW u \in Thread, Deals(u)', Id[Sq(u)'] \notin contended'
      PROVE  /\ listed'[Id[Sq(u)']] = Sq(u)'
             /\ job'[u].pc \in {"last", "delete"} => players'[Sq(u)'] = {}
  <2>1. JobStep(u)
    BY <1>0, JobSteps
  <2>2. CASE job'[u] = job[u]
    <3>1. Deals(u) /\ Sq(u)' = Sq(u) /\ job'[u].pc = job[u].pc
      BY <1>5, <2>2 DEF Sq
    <3>2. ~Delete(u)
      BY <2>2, RemovedJob DEF Delete, At, GoesTo
    <3> QED BY <1>0, <1>2, <1>3, <1>5, <1>d, <3>1, <3>2
  <2>3. CASE Look(u) /\ GoesTo(u, "erase") /\ SquareOf(Obj(u)) \in Square /\ Sq(u)' = SquareOf(Obj(u))
    <3> DEFINE s == SquareOf(Obj(u))
    <3>1. s \in Square /\ Sq(u)' = s /\ job[u].pc = "look" /\ UNCHANGED <<listed, players>>
      BY <2>3 DEF Look, At, squareVars
    <3>2. CASE Obj(u) \in players[s]
      <4>1. listed[Id[s]] = s
        BY <1>0, <1>5, <3>1, <3>2 DEF PlayersInListedSquares
      <4> QED BY <2>3, <3>1, <4>1 DEF GoesTo
    <3>3. CASE Obj(u) \notin players[s]
      <4>1. PICK v \in Thread : Sq(v) = s /\ job[v].pc # "look"
        BY <3>1, <3>3, NullAssumption DEF SquareOf
      <4>2. v # u /\ Sq(v)' = s
        BY <2>3, <3>1, <4>1, Alone DEF Sq
      <4>3. Id[s] \in DealtWithByBoth'
        BY <1>l, <3>1, <4>2, NullAssumption DEF DealtWithByBoth, Thread
      <4> QED BY <1>0, <1>5, <3>1, <4>3
    <3> QED BY <3>2, <3>3
  <2>4. CASE Erase(u) \/ Check(u)
    <3>1. Deals(u) /\ ~Delete(u) /\ job'[u].pc \notin {"last", "delete"} /\ Sq(u)' = Sq(u)
      BY <1>5, <2>1, <2>4 DEF JobStep, Erase, Check, Look, Empty, Last, Delete, Leave, Find, Insert, At,
         GoesTo, TakesUp, Removing, Idle, Adding, Sq
    <3> QED BY <1>2, <1>5, <3>1
  <2>5. CASE Empty(u) /\ GoesTo(u, "last") /\ Sq(u)' = Sq(u) /\ players[Sq(u)] = {}
    <3>1. job[u].pc = "empty" /\ ~Delete(u)
      BY <2>5 DEF Empty, At, Delete
    <3> QED BY <1>2, <1>3, <1>5, <2>5, <3>1 DEF Removing
  <2>6. CASE Last(u) /\ GoesTo(u, "delete") /\ Sq(u)' = Sq(u)
    <3>1. job[u].pc = "last" /\ ~Delete(u)
      BY <2>6 DEF Last, At, Delete
    <3> QED BY <1>0, <1>2, <1>3, <1>5, <1>d, <2>6, <3>1 DEF Removing
  <2>7. CASE TakesUp(u, Sq(u)')
    BY <2>7 DEF TakesUp, GoesTo
  <2>8. ASSUME NEW pc \in {"look", "find", "leave", "enter"}, job'[u].pc = pc PROVE FALSE
    BY <1>5, <2>8 DEF Removing
  <2> QED BY <2>1, <2>2, <2>3, <2>4, <2>5, <2>6, <2>7, <2>8 DEF JobStep, GoesTo, Idle
<1> QED BY <1>0, <1>4, <1>5 DEF ListInv, PlayersInListedSquares

-----------------------------------------------------------------------------
(* Theorems                                                                *)

LEMMA InitInv == Init => IInv
<1> SUFFICES ASSUME Init PROVE IInv
  OBVIOUS
<1>1. TypeInv
  BY InitTypes
<1>2. \A s \in Square : players[s] = {}
  BY DEF Init
<1>3. \A t \in Thread : job[t] = Idle
  BY DEF Init
<1>4. CapacityInv
  BY <1>2, <1>3, FS_EmptySet, LimitsAssumption DEF CapacityInv, Idle
<1>5. PlaceInv /\ ClosedInv
  BY <1>2, <1>3 DEF Init, PlaceInv, ClosedInv, In, Joins, Idle
<1>6. ListInv
  BY <1>3 DEF ListInv, DealtWithByBoth, Idle, Removing, Sq, Thread
<1> QED BY <1>1, <1>2, <1>4, <1>5, <1>6 DEF IInv, ClosedPlayersGone, PlayersInListedSquares

LEMMA StutterInv == IInv /\ UNCHANGED vars => IInv'
BY DEF IInv, TypeInv, TypeOK, NumbersOK, JobOK, CapacityInv, PlaceInv, Known, In, ClosedInv, ListInv,
   DealtWithByBoth, ClosedPlayersGone, PlayersInListedSquares, Joins, Obj, Sq, vars, squareVars, playerVars

LEMMA Invariant == Spec => []IInv
<1>1. IInv /\ Next => IInv'
  BY TypeStep, CapacityStep, PlaceStep, ClosedStep, ListStep DEF IInv
<1> QED BY InitInv, StutterInv, <1>1, PTL DEF Spec

\* "50 players max": the check and the insertion are apart, but one thread only
\* lets players into squares, so that no one takes the place in between.
THEOREM CapacityCorrect == Spec => []SquareWithinCapacity
<1>1. IInv => SquareWithinCapacity
  BY DEF IInv, CapacityInv, SquareWithinCapacity
<1> QED BY Invariant, <1>1, PTL

\* A player who changes squares is out of the one before he is let into the other.
THEOREM OneSquareCorrect == Spec => []OneSquareEach
<1>1. IInv => OneSquareEach
  BY OneSquare DEF IInv
<1> QED BY Invariant, <1>1, PTL

\* Only who is closed while he joins, or connects after it, stays behind.
THEOREM ClosedGoneCorrect == Spec => []ClosedPlayersGone
<1>1. IInv => ClosedPlayersGone
  BY DEF IInv
<1> QED BY Invariant, <1>1, PTL

\* A square is taken off the list with players in it only after both threads
\* have dealt with squares of its number at once.
THEOREM ListedCorrect == Spec => []PlayersInListedSquares
<1>1. IInv => PlayersInListedSquares
  BY DEF IInv
<1> QED BY Invariant, <1>1, PTL
=============================================================================
