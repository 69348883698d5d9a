---------------------------- MODULE AccountsProofs ----------------------------
(***************************************************************************)
(* The safety properties of Accounts, for any accounts, Player objects and *)
(* changes of money.                                                       *)
(***************************************************************************)
EXTENDS Accounts, WellFoundedInduction, SequenceTheorems, TLAPS

Job == [do : Doing, pc : Pc, acc : Account \cup {None}, obj : Object \cup {None},
        new : Object \cup {None}, seen : SUBSET Change]
Write == [acc : Account, val : SUBSET Change]

MemoryOK ==
    /\ players \in [Account -> Object \cup {None}]
    /\ named \in [Account -> Object \cup {None}]
    /\ cached \in [Account -> Object \cup {None}]
    /\ closed \in SUBSET Object /\ online \in SUBSET Object /\ seated \in SUBSET Object
MoneyOK ==
    /\ purse \in [Object -> SUBSET Change]
    /\ stored \in [Account -> SUBSET Change]
    /\ queue \in Seq(Write) /\ batch \in Seq(Write)
    /\ made \in [Account -> SUBSET Change]
HistoryOK ==
    /\ newest \in [Account -> Object \cup {None}]
    /\ moderated \in SUBSET Object
    /\ crossed \in SUBSET Account /\ raced \in SUBSET Account

\* The steps of each job, and what it has been given for them.
JobOK(t) ==
    /\ Does(t, "nothing") => job[t] = Idle
    /\ Does(t, "login") => t = "lobby" /\ job[t].pc \in {"close", "save", "invalidate", "read", "publish"}
    /\ Does(t, "disconnect") => job[t].pc \in {"look", "close", "save", "erase", "cache"}
    /\ Does(t, "kick") => job[t].pc \in {"close", "save"}
    /\ Does(t, "ban") => job[t].pc \in {"try", "load", "store", "close", "save"}
    /\ Does(t, "lookup") => job[t].pc \in {"try", "load", "store"}
    /\ Does(t, "change") => job[t].pc \in {"write", "update"}
    /\ ~Does(t, "nothing") => job[t].acc \in Account
    /\ Obj(t) # None => Acc(Obj(t)) = job[t].acc
    /\ job[t].new # None => Acc(job[t].new) = job[t].acc
    /\ job[t].pc \in {"look", "close", "save", "erase", "cache", "write", "update"} => Obj(t) \in Object
    /\ job[t].pc \in {"try", "load", "store"} => Obj(t) = None
    /\ job[t].new # None <=> Does(t, "login") \/ job[t].pc \in {"load", "store"}
JobsOK == job \in [Thread -> Job] /\ \A t \in Thread : JobOK(t)

\* Each account is found under its own objects.
Owns(a, o) == o = None \/ Acc(o) = a
OwnObjects ==
    \A a \in Account : Owns(a, players[a]) /\ Owns(a, named[a]) /\ Owns(a, cached[a]) /\ Owns(a, newest[a])

TypeInv == MemoryOK /\ MoneyOK /\ HistoryOK /\ JobsOK /\ OwnObjects

\* An object that a thread is about to make known is not known yet, and no other
\* thread is about to make it known.
Known(o) ==
    \/ o \in online \cup seated
    \/ \E a \in Account : o \in {players[a], named[a], cached[a]}
    \/ \E t \in Thread : Obj(t) = o
NewInv ==
    \A t \in Thread : job[t].new # None =>
        ~Known(job[t].new) /\ \A u \in Thread \ {t} : job[u].new # job[t].new

\* The lobby replaces the player that the account had when it came, who is closed
\* by then: nobody else removes him meanwhile.
LoginInv ==
    \A t \in Thread : Does(t, "login") =>
        /\ players[job[t].acc] = Obj(t)
        /\ job[t].pc \in {"save", "invalidate", "read", "publish"} => Obj(t) \in closed \cup {None}
        /\ job[t].pc = "publish" => job[t].new \notin closed

\* A thread that removes a player removes him, or nobody.
Removes(t) ==
    LET o == Obj(t) a == job[t].acc
    IN /\ job[t].pc = "look" => o \in closed \/ a \in crossed \/ players[a] = o
       /\ job[t].pc \in {"close", "save", "erase"} => a \in crossed \/ players[a] \in {o, None}
       /\ job[t].pc \in {"save", "erase", "cache"} => o \in closed
       /\ job[t].pc = "cache" => players[a] # o
RemovalInv ==
    /\ closed \cap online = {}
    /\ \A t \in Thread : Does(t, "disconnect") => Removes(t)

\* Who closed a player who is still found has not yet removed or replaced him.
Closer(t, o) ==
    /\ Obj(t) = o
    /\ \/ Does(t, "disconnect") /\ job[t].pc \in {"close", "save", "erase"}
       \/ Does(t, "login")
ClosedInv ==
    \A a \in Account :
        players[a] \in closed => players[a] \in moderated \/ \E t \in Thread : Closer(t, players[a])

\* The money of an account that is not raced: its last object holds all that was
\* made, one thread at most changes it, and the last write is, or is about to be,
\* of this object.
Spends(t, a) == job[t].pc \in {"write", "update"} /\ job[t].acc = a
Kept(a) ==
    /\ newest[a] # None => made[a] \subseteq purse[newest[a]]
    /\ \A t \in Thread : Spends(t, a) =>
          /\ Obj(t) = newest[a]
          /\ job[t].pc = "write" => job[t].seen = purse[newest[a]]
          /\ \A u \in Thread : Spends(u, a) => u = t
    /\ made[a] \subseteq WillBeStored(a) \/ \E t \in Thread : Spends(t, a) /\ job[t].pc = "update"
MoneyInv == \A a \in Account \ raced : Kept(a)

IInv == TypeInv /\ NewInv /\ LoginInv /\ RemovalInv /\ ClosedInv /\ MoneyInv /\ ConnectedIsOnline /\ NamesAgree

-----------------------------------------------------------------------------
(* What a step does to the job of a thread                                 *)

USE DEF Acc

LEMMA GoesIs ==
    ASSUME job \in [Thread -> Job], NEW t \in Thread, NEW j \in Job, Goes(t, j)
    PROVE  job' \in [Thread -> Job] /\ job'[t] = j /\ \A u \in Thread \ {t} : job'[u] = job[u]
BY DEF Goes

\* The thread t goes on with its job, at pc.
GoesOn(t, pc) ==
    /\ job'[t].pc = pc /\ job'[t].do = job[t].do /\ job'[t].acc = job[t].acc
    /\ job'[t].obj = job[t].obj /\ job'[t].new = job[t].new /\ job'[t].seen = job[t].seen
Alone(t) == job' \in [Thread -> Job] /\ \A u \in Thread \ {t} : job'[u] = job[u]

LEMMA ToIs ==
    ASSUME job \in [Thread -> Job], NEW t \in Thread, NEW pc \in Pc, To(t, pc)
    PROVE  Alone(t) /\ GoesOn(t, pc)
<1> DEFINE j == [job[t] EXCEPT !.pc = pc]
<1>1. /\ j \in Job /\ j.pc = pc /\ j.do = job[t].do /\ j.acc = job[t].acc
      /\ j.obj = job[t].obj /\ j.new = job[t].new /\ j.seen = job[t].seen
  BY DEF Job
<1>2. Goes(t, j)
  BY DEF To
<1> HIDE DEF j
<1> QED BY <1>1, <1>2, GoesIs DEF Alone, GoesOn

LEMMA DoneIs ==
    ASSUME job \in [Thread -> Job], NEW t \in Thread, Done(t)
    PROVE  Alone(t) /\ job'[t] = Idle
<1>1. Idle \in Job
  BY DEF Idle, Job, Doing, Pc
<1> QED BY <1>1, GoesIs DEF Done, Alone

LEMMA StartsIs ==
    ASSUME job \in [Thread -> Job], NEW t \in Thread, NEW do \in Doing, NEW pc \in Pc,
           NEW a \in Account, NEW o \in Object \cup {None}, Starts(t, do, pc, a, o)
    PROVE  /\ Alone(t) /\ job[t] = Idle
           /\ job'[t].do = do /\ job'[t].pc = pc /\ job'[t].acc = a /\ job'[t].obj = o /\ job'[t].new = None
<1> DEFINE j == [Idle EXCEPT !.do = do, !.pc = pc, !.acc = a, !.obj = o]
<1>1. j \in Job /\ j.do = do /\ j.pc = pc /\ j.acc = a /\ j.obj = o /\ j.new = None
  BY DEF Job, Idle
<1>2. Goes(t, j) /\ job[t] = Idle
  BY DEF Starts, Free
<1> HIDE DEF j
<1> QED BY <1>1, <1>2, GoesIs DEF Alone

LEMMA AfterCloseIs ==
    ASSUME job \in [Thread -> Job], NEW t \in Thread, AfterClose(t)
    PROVE  /\ Alone(t)
           /\ \/ Does(t, "login") /\ GoesOn(t, "invalidate")
              \/ Does(t, "disconnect") /\ GoesOn(t, "erase")
              \/ ~Does(t, "login") /\ ~Does(t, "disconnect") /\ job'[t] = Idle
<1>1. CASE Does(t, "login")
  BY <1>1, ToIs DEF AfterClose, Does, Pc
<1>2. CASE Does(t, "disconnect")
  BY <1>2, ToIs DEF AfterClose, Does, Pc
<1>3. CASE ~Does(t, "login") /\ ~Does(t, "disconnect")
  BY <1>3, DoneIs DEF AfterClose
<1> QED BY <1>1, <1>2, <1>3

LEMMA FoundIs ==
    ASSUME job \in [Thread -> Job], NEW t \in Thread, NEW o \in Object, Found(t, o)
    PROVE  /\ Alone(t)
           /\ \/ /\ Does(t, "ban") /\ job'[t].pc = "close" /\ job'[t].do = "ban"
                 /\ job'[t].acc = job[t].acc /\ job'[t].obj = o /\ job'[t].new = None
              \/ ~Does(t, "ban") /\ job'[t] = Idle
<1>1. CASE Does(t, "ban")
  <2> DEFINE j == [job[t] EXCEPT !.pc = "close", !.obj = o, !.new = None]
  <2>1. /\ j \in Job /\ j.pc = "close" /\ j.do = "ban" /\ j.acc = job[t].acc /\ j.obj = o
        /\ j.new = None
    BY <1>1 DEF Job, Pc, Does
  <2>2. Goes(t, j)
    BY <1>1 DEF Found
  <2> HIDE DEF j
  <2> QED BY <1>1, <2>1, <2>2, GoesIs DEF Alone
<1>2. CASE ~Does(t, "ban")
  BY <1>2, DoneIs DEF Found
<1> QED BY <1>1, <1>2

\* A job begins...
Begins(t) ==
    /\ job[t] = Idle
    /\ \/ \E o \in online : /\ Disconnect(t, o) /\ job'[t].do = "disconnect" /\ job'[t].pc = "look"
                           /\ job'[t].acc = Acc(o) /\ job'[t].obj = o /\ job'[t].new = None
       \/ \E a \in Account : \E o \in {players[a], named[a]} \ {None} :
             /\ Kick(a) /\ job'[t].do = "kick" /\ job'[t].pc = "close"
             /\ job'[t].acc = a /\ job'[t].obj = o /\ job'[t].new = None
       \/ \E o \in Object :
             /\ Login(o) /\ t = "lobby" /\ job'[t].do = "login" /\ job'[t].acc = Acc(o) /\ job'[t].new = o
             /\ job'[t].obj = players[Acc(o)]
             /\ job'[t].pc = IF players[Acc(o)] = None THEN "invalidate" ELSE "close"
       \/ \E a \in Account, do \in {"lookup", "ban"} :
             /\ GetPlayer(t, do, a) /\ job'[t].do = do /\ job'[t].acc = a /\ job'[t].new = None
             /\ \/ job'[t].obj = None /\ job'[t].pc = "try"
                \/ job'[t].obj = named[a] /\ named[a] # None /\ do = "ban" /\ job'[t].pc = "close"
       \/ \E o \in online \cup seated :
             /\ ChangeMoney(t, o) /\ job'[t].do = "change" /\ job'[t].pc = "write" /\ job'[t].acc = Acc(o)
             /\ job'[t].obj = o /\ job'[t].new = None /\ job'[t].seen = purse[o]

\* ...goes on, when Player::close is through, or otherwise...
IsThrough(t) == (Close(t) /\ Obj(t) \in closed) \/ Save(t)
Continues(t) ==
    \/ Look(t) /\ Obj(t) \notin closed /\ GoesOn(t, "close")
    \/ Close(t) /\ Obj(t) \notin closed /\ GoesOn(t, "save")
    \/ IsThrough(t) /\ Does(t, "login") /\ GoesOn(t, "invalidate")
    \/ IsThrough(t) /\ Does(t, "disconnect") /\ GoesOn(t, "erase")
    \/ Erase(t) /\ GoesOn(t, "cache")
    \/ Invalidate /\ t = "lobby" /\ GoesOn(t, "read")
    \/ Read /\ t = "lobby" /\ GoesOn(t, "publish")
    \/ /\ TryGet(t) /\ cached[job[t].acc] # None /\ Does(t, "ban") /\ job'[t].do = "ban"
       /\ job'[t].pc = "close" /\ job'[t].acc = job[t].acc /\ job'[t].obj = cached[job[t].acc]
       /\ job'[t].new = None
    \/ /\ TryGet(t) /\ job'[t].do = job[t].do /\ job'[t].pc = "load" /\ job'[t].acc = job[t].acc
       /\ job'[t].obj = job[t].obj /\ job'[t].new \in Object
       /\ Acc(job'[t].new) = job[t].acc /\ Fresh(job'[t].new)
    \/ Load(t) /\ GoesOn(t, "store")
    \/ /\ Store(t) /\ Does(t, "ban") /\ job'[t].do = "ban" /\ job'[t].pc = "close"
       /\ job'[t].acc = job[t].acc /\ job'[t].obj = job[t].new /\ job'[t].new = None
    \/ WriteMoney(t) /\ GoesOn(t, "update")

\* ...and ends.
Ends(t) ==
    /\ job'[t] = Idle
    /\ \/ Look(t) /\ Obj(t) \in closed
       \/ IsThrough(t) /\ ~Does(t, "login") /\ ~Does(t, "disconnect")
       \/ CachePlayer(t) \/ TryGet(t) \/ Store(t) \/ Update(t)
       \/ Publish /\ t = "lobby"

Moves(t) == Begins(t) \/ Continues(t) \/ Ends(t)

LEMMA JobSteps ==
    ASSUME TypeInv, Next
    PROVE  \/ UNCHANGED job
           \/ \E t \in Thread : Alone(t) /\ Moves(t)
<1> DEFINE Goal == UNCHANGED job \/ \E t \in Thread : Alone(t) /\ Moves(t)
<1>0. /\ job \in [Thread -> Job] /\ "lobby" \in Thread /\ "square" \in Thread
      /\ players \in [Account -> Object \cup {None}] /\ named \in [Account -> Object \cup {None}]
      /\ cached \in [Account -> Object \cup {None}]
      /\ online \in SUBSET Object /\ seated \in SUBSET Object /\ purse \in [Object -> SUBSET Change]
      /\ \A o \in Object : Acc(o) \in Account
      /\ \A t \in Thread : job[t] \in Job /\ JobOK(t)
  BY OwnerAssumption DEF TypeInv, JobsOK, MemoryOK, MoneyOK, Thread, Acc
<1>1. ASSUME NEW t \in Thread, Look(t) PROVE Goal
  <2>1. Alone(t) /\ ((Obj(t) \in closed /\ job'[t] = Idle) \/ (Obj(t) \notin closed /\ GoesOn(t, "close")))
    BY <1>0, <1>1, ToIs, DoneIs DEF Look, Pc
  <2> QED BY <1>1, <2>1 DEF Moves, Continues, Ends
<1>2. ASSUME NEW t \in Thread, Close(t) PROVE Goal
  <2>1. CASE Obj(t) \in closed
    BY <1>0, <1>2, <2>1, AfterCloseIs DEF Close, IsThrough, Moves, Continues, Ends
  <2>2. CASE Obj(t) \notin closed
    BY <1>0, <1>2, <2>2, ToIs DEF Close, Pc, Moves, Continues
  <2> QED BY <2>1, <2>2
<1>3. ASSUME NEW t \in Thread, Save(t) PROVE Goal
  BY <1>0, <1>3, AfterCloseIs DEF Save, IsThrough, Moves, Continues, Ends
<1>4. ASSUME NEW t \in Thread, Erase(t) PROVE Goal
  BY <1>0, <1>4, ToIs DEF Erase, Pc, Moves, Continues
<1>5. ASSUME NEW t \in Thread, CachePlayer(t) PROVE Goal
  BY <1>0, <1>5, DoneIs DEF CachePlayer, Moves, Ends
<1>6. ASSUME NEW t \in Thread, TryGet(t) PROVE Goal
  <2>0. job[t].pc = "try"
    BY <1>6 DEF TryGet, At
  <2>1. job[t].acc \in Account
    BY <1>0, <2>0 DEF JobOK, Idle, Does
  <2>2. CASE cached[job[t].acc] # None
    <3>1. cached[job[t].acc] \in Object /\ Found(t, cached[job[t].acc])
      BY <1>0, <1>6, <2>1, <2>2 DEF TryGet
    <3> QED BY <1>0, <1>6, <2>2, <3>1, FoundIs DEF Moves, Continues, Ends
  <2>3. CASE cached[job[t].acc] = None
    <3>1. PICK o \in Object : /\ Acc(o) = job[t].acc /\ Fresh(o)
                              /\ Goes(t, [job[t] EXCEPT !.pc = "load", !.new = o])
      BY <1>6, <2>3 DEF TryGet
    <3> DEFINE j == [job[t] EXCEPT !.pc = "load", !.new = o]
    <3>2. /\ j \in Job /\ j.pc = "load" /\ j.do = job[t].do /\ j.acc = job[t].acc
          /\ j.obj = job[t].obj /\ j.new = o
      BY <1>0 DEF Job, Pc
    <3>3. Goes(t, j)
      BY <3>1
    <3> HIDE DEF j
    <3>4. Alone(t) /\ job'[t] = j
      BY <1>0, <3>2, <3>3, GoesIs DEF Alone
    <3> QED BY <1>6, <3>1, <3>2, <3>4 DEF Moves, Continues
  <2> QED BY <2>2, <2>3
<1>7. ASSUME NEW t \in Thread, Load(t) PROVE Goal
  BY <1>0, <1>7, ToIs DEF Load, Pc, Moves, Continues
<1>8. ASSUME NEW t \in Thread, Store(t) PROVE Goal
  <2>1. job[t].new \in Object
    BY <1>0, <1>8 DEF Store, At, JobOK, Job
  <2> QED BY <1>0, <1>8, <2>1, FoundIs DEF Store, Moves, Continues, Ends
<1>9. ASSUME NEW t \in Thread, WriteMoney(t) PROVE Goal
  BY <1>0, <1>9, ToIs DEF WriteMoney, Pc, Moves, Continues
<1>10. ASSUME NEW t \in Thread, Update(t) PROVE Goal
  BY <1>0, <1>10, DoneIs DEF Update, Moves, Ends
<1>11. CASE Invalidate \/ Read
  BY <1>0, <1>11, ToIs DEF Invalidate, Read, Pc, Moves, Continues
<1>12. CASE Publish
  BY <1>0, <1>12, DoneIs DEF Publish, Moves, Ends
<1>13. ASSUME NEW t \in Thread, NEW o \in Object, Disconnect(t, o) PROVE Goal
  <2>1. /\ Alone(t) /\ job[t] = Idle /\ job'[t].do = "disconnect" /\ job'[t].pc = "look"
        /\ job'[t].acc = Acc(o) /\ job'[t].obj = o /\ job'[t].new = None /\ o \in online
    BY <1>0, <1>13, StartsIs DEF Disconnect, Doing, Pc
  <2> QED BY <1>13, <2>1 DEF Moves, Begins
<1>14. ASSUME NEW a \in Account, Kick(a) PROVE Goal
  <2>1. PICK o \in {players[a], named[a]} \ {None} : Starts("square", "kick", "close", a, o)
    BY <1>14 DEF Kick
  <2>2. /\ Alone("square") /\ job["square"] = Idle /\ job'["square"].do = "kick"
        /\ job'["square"].pc = "close" /\ job'["square"].acc = a /\ job'["square"].obj = o
        /\ job'["square"].new = None
    BY <1>0, <2>1, StartsIs DEF Doing, Pc
  <2> QED BY <1>0, <1>14, <2>2 DEF Moves, Begins
<1>15. ASSUME NEW o \in Object, Login(o) PROVE Goal
  <2> DEFINE old == players[Acc(o)]
             j == [do |-> "login", pc |-> IF old = None THEN "invalidate" ELSE "close",
                   acc |-> Acc(o), obj |-> old, new |-> o, seen |-> {}]
  <2>1. j \in Job
    BY <1>0 DEF Job, Doing, Pc
  <2>2. Goes("lobby", j) /\ job["lobby"] = Idle
    BY <1>15 DEF Login, Free
  <2>3. Alone("lobby") /\ job'["lobby"] = j
    BY <1>0, <2>1, <2>2, GoesIs DEF Alone
  <2> QED BY <1>0, <1>15, <2>2, <2>3 DEF Moves, Begins
<1>16. ASSUME NEW t \in Thread, NEW do \in {"lookup", "ban"}, NEW a \in Account, GetPlayer(t, do, a)
       PROVE  Goal
  <2> DEFINE o == IF do = "ban" THEN named[a] ELSE players[a]
  <2>1. o \in Object \cup {None} /\ Starts(t, do, IF o = None THEN "try" ELSE "close", a, o)
        /\ (o # None => do = "ban")
    BY <1>0, <1>16 DEF GetPlayer
  <2>2. /\ Alone(t) /\ job[t] = Idle /\ job'[t].do = do /\ job'[t].acc = a /\ job'[t].obj = o
        /\ job'[t].pc = (IF o = None THEN "try" ELSE "close") /\ job'[t].new = None
    BY <1>0, <2>1, StartsIs DEF Doing, Pc
  <2> QED BY <1>16, <2>1, <2>2 DEF Moves, Begins
<1>17. ASSUME NEW t \in Thread, NEW o \in Object, ChangeMoney(t, o) PROVE Goal
  <2> DEFINE j == [Idle EXCEPT !.do = "change", !.pc = "write", !.acc = Acc(o), !.obj = o, !.seen = purse[o]]
  <2>1. /\ j \in Job /\ j.do = "change" /\ j.pc = "write" /\ j.acc = Acc(o) /\ j.obj = o /\ j.new = None
        /\ j.seen = purse[o]
    BY <1>0 DEF Job, Idle, Doing, Pc
  <2>2. Goes(t, j) /\ job[t] = Idle /\ o \in online \cup seated
    BY <1>17 DEF ChangeMoney, Free
  <2> HIDE DEF j
  <2>3. Alone(t) /\ job'[t] = j
    BY <1>0, <2>1, <2>2, GoesIs DEF Alone
  <2> QED BY <1>17, <2>1, <2>2, <2>3 DEF Moves, Begins
<1>18. CASE (\E a \in Account : Sit(a)) \/ (\E o \in Object : Stand(o)) \/ TakeBatch \/ Execute \/ ExecuteAll
  BY <1>18 DEF Sit, Stand, TakeBatch, Execute, ExecuteAll
<1> QED BY <1>1, <1>2, <1>3, <1>4, <1>5, <1>6, <1>7, <1>8, <1>9, <1>10, <1>11, <1>12, <1>13, <1>14,
        <1>15, <1>16, <1>17, <1>18 DEF Next, Step

-----------------------------------------------------------------------------
(* The queue of writes                                                     *)

\* A set of numbers up to n has a greatest one: among the differences to n there
\* is a smallest one.
LEMMA LastOf ==
    ASSUME NEW n \in Nat, NEW S \in SUBSET (1..n), S # {}
    PROVE  \E i \in S : \A j \in S : j <= i
<1> DEFINE R == OpToRel(<, Nat)
           T == {k \in Nat : k <= n /\ n - k \in S}
<1>1. T \subseteq Nat /\ T # {}
  <2>1. PICK i \in S : TRUE
    OBVIOUS
  <2>2. n - i \in Nat /\ n - (n - i) = i
    BY <2>1
  <2> QED BY <2>2
<1>2. PICK k \in T : \A y \in T : ~(<<y, k>> \in R)
  <2> HIDE DEF T, R
  <2> QED BY <1>1, NatLessThanWellFounded, WFMin, Zenon DEF R
<1>3. ASSUME NEW y \in T PROVE ~(y < k)
  <2>1. ASSUME y < k PROVE <<y, k>> \in R
    BY <2>1 DEF OpToRel
  <2> QED BY <1>2, <2>1
<1>4. ASSUME NEW j \in S PROVE j <= n - k
  <2>1. n - j \in T
    OBVIOUS
  <2>2. ~(n - j < k)
    BY <1>3, <2>1
  <2> QED BY <2>2
<1> QED BY <1>4

\* The last write of an account in w.
IsLast(a, w, i) == i \in 1..Len(w) /\ w[i].acc = a /\ \A j \in 1..Len(w) : w[j].acc = a => j <= i

LEMMA LastExists ==
    ASSUME NEW w \in Seq(Write), NEW a, \E i \in 1..Len(w) : w[i].acc = a
    PROVE  \E i \in 1..Len(w) : IsLast(a, w, i)
<1> DEFINE S == {i \in 1..Len(w) : w[i].acc = a}
<1>1. \E i \in S : \A j \in S : j <= i
  <2>1. S \in SUBSET (1..Len(w)) /\ S # {} /\ Len(w) \in Nat
    OBVIOUS
  <2> HIDE DEF S
  <2> QED BY <2>1, LastOf
<1> QED BY <1>1 DEF IsLast

LEMMA LastUnique ==
    ASSUME NEW w \in Seq(Write), NEW a, NEW i, NEW j, IsLast(a, w, i), IsLast(a, w, j)
    PROVE  i = j
BY DEF IsLast

LEMMA LastWriteIs ==
    ASSUME NEW w \in Seq(Write), NEW a, NEW i, IsLast(a, w, i)
    PROVE  LastWrite(a, w) = w[i].val
<1> DEFINE of == {k \in 1..Len(w) : w[k].acc = a}
           m == CHOOSE k \in of : \A j \in of : j <= k
<1>1. i \in of /\ \A j \in of : j <= i
  BY DEF IsLast
<1>2. m \in of /\ \A j \in of : j <= m
  <2> HIDE DEF of
  <2> QED BY <1>1
<1>3. m = i
  BY <1>1, <1>2
<1> QED BY <1>3 DEF LastWrite

\* :database stores the last write of each account.
LEMMA ExecuteAllIs ==
    ASSUME TypeInv, ExecuteAll, NEW a \in Account
    PROVE  stored'[a] = IF Written(a) THEN LastWrite(a, queue) ELSE stored[a]
<1> DEFINE last(b) == CHOOSE i \in 1..Len(queue) :
                          queue[i].acc = b /\ \A j \in i + 1..Len(queue) : queue[j].acc # b
<1>0. queue \in Seq(Write)
  BY DEF TypeInv, MoneyOK
<1>1. ASSUME Written(a) PROVE queue[last(a)].val = LastWrite(a, queue)
  <2>1. PICK i \in 1..Len(queue) : IsLast(a, queue, i)
    BY <1>0, <1>1, LastExists DEF Written
  <2>2. queue[i].acc = a /\ \A j \in i + 1..Len(queue) : queue[j].acc # a
    BY <1>0, <2>1 DEF IsLast
  <2>3. /\ last(a) \in 1..Len(queue) /\ queue[last(a)].acc = a
        /\ \A j \in last(a) + 1..Len(queue) : queue[j].acc # a
    BY <2>1, <2>2
  <2>4. IsLast(a, queue, last(a))
    <3> DEFINE l == last(a)
    <3> HIDE DEF last
    <3>1. ASSUME NEW j \in 1..Len(queue), queue[j].acc = a PROVE j <= l
      BY <1>0, <2>3, <3>1
    <3> QED BY <2>3, <3>1 DEF IsLast
  <2> HIDE DEF last
  <2> QED BY <1>0, <2>4, LastWriteIs
<1>2. stored'[a] = IF Written(a) THEN queue[last(a)].val ELSE stored[a]
  BY DEF ExecuteAll
<1> QED BY <1>1, <1>2

-----------------------------------------------------------------------------
(* Types                                                                   *)

LEMMA InitTypes == Init => TypeInv
<1> SUFFICES ASSUME Init PROVE TypeInv
  OBVIOUS
<1>1. Idle \in Job
  BY DEF Idle, Job, Doing, Pc
<1>2. JobsOK
  BY <1>1 DEF Init, JobsOK, JobOK, Does, Obj, Idle
<1>3. <<>> \in Seq(Write)
  OBVIOUS
<1> QED BY <1>2, <1>3 DEF Init, TypeInv, MemoryOK, MoneyOK, HistoryOK, OwnObjects, Owns

LEMMA JobsStep == TypeInv /\ Next => JobsOK'
<1> SUFFICES ASSUME TypeInv, Next PROVE JobsOK'
  OBVIOUS
<1>0. /\ JobsOK /\ OwnObjects
      /\ players \in [Account -> Object \cup {None}] /\ named \in [Account -> Object \cup {None}]
      /\ cached \in [Account -> Object \cup {None}]
      /\ online \in SUBSET Object /\ seated \in SUBSET Object
      /\ \A o \in Object : Acc(o) \in Account
      /\ None \notin Object
  BY OwnerAssumption, NullAssumption DEF TypeInv, MemoryOK, Acc
<1>1. CASE UNCHANGED job
  BY <1>0, <1>1 DEF JobsOK, JobOK, Does, Obj
<1>2. ASSUME NEW t \in Thread, Alone(t), Moves(t) PROVE JobsOK'
  <2>1. ASSUME NEW u \in Thread \ {t} PROVE JobOK(u)'
    BY <1>0, <1>2, <2>1 DEF Alone, JobsOK, JobOK, Does, Obj
  <2>2. ASSUME Begins(t) PROVE JobOK(t)'
    BY <1>0, <2>2 DEF Begins, JobOK, Does, Obj, OwnObjects, Owns
  <2>3. ASSUME Continues(t) PROVE JobOK(t)'
    <3>1. JobOK(t) /\ job[t] \in Job
      BY <1>0 DEF JobsOK
    <3>2. CASE Look(t) /\ GoesOn(t, "close")
      BY <3>1, <3>2 DEF Look, At, GoesOn, JobOK, Does, Obj, Idle
    <3>3. CASE Close(t) /\ GoesOn(t, "save")
      BY <3>1, <3>3 DEF Close, At, GoesOn, JobOK, Does, Obj, Idle
    <3>4. CASE Does(t, "login") /\ GoesOn(t, "invalidate")
      BY <3>1, <3>4 DEF GoesOn, JobOK, Does, Obj
    <3>5. CASE IsThrough(t) /\ Does(t, "disconnect") /\ GoesOn(t, "erase")
      BY <3>1, <3>5 DEF IsThrough, Close, Save, At, GoesOn, JobOK, Does, Obj
    <3>6. CASE Erase(t) /\ GoesOn(t, "cache")
      BY <3>1, <3>6 DEF Erase, At, GoesOn, JobOK, Does, Obj, Idle, Job, Doing
    <3>7. CASE (Invalidate /\ t = "lobby" /\ GoesOn(t, "read")) \/ (Read /\ t = "lobby" /\ GoesOn(t, "publish"))
      <4>1. Does(t, "login")
        BY <3>1, <3>7 DEF Invalidate, Read, At, JobOK, Does, Idle, Job, Doing
      <4> QED BY <3>1, <3>7, <4>1 DEF GoesOn, JobOK, Does, Obj
    <3>8. CASE TryGet(t)
      <4>1. job[t].pc = "try" /\ (Does(t, "ban") \/ Does(t, "lookup")) /\ job[t].acc \in Account
        <5>1. job[t].pc = "try"
          BY <3>8 DEF TryGet, At
        <5> QED BY <3>1, <5>1 DEF JobOK, Does, Idle, Job, Doing
      <4>2. /\ job'[t].do = job[t].do /\ job'[t].acc = job[t].acc
            /\ \/ /\ Does(t, "ban") /\ job'[t].pc = "close" /\ job'[t].new = None
                  /\ job'[t].obj = cached[job[t].acc] /\ cached[job[t].acc] # None
               \/ /\ job'[t].pc = "load" /\ job'[t].obj = None /\ job'[t].new \in Object
                  /\ Acc(job'[t].new) = job[t].acc
        <5>1. /\ ~Look(t) /\ ~Close(t) /\ ~IsThrough(t) /\ ~Erase(t) /\ ~Load(t) /\ ~Store(t)
              /\ ~WriteMoney(t) /\ (t = "lobby" => ~Invalidate /\ ~Read)
          BY <4>1 DEF Look, Close, IsThrough, Save, Erase, Invalidate, Read, Load, Store, WriteMoney, At
        <5> QED BY <2>3, <3>1, <4>1, <5>1 DEF Continues, JobOK, Does, Obj
      <4> QED BY <1>0, <4>1, <4>2 DEF JobOK, Does, Obj, OwnObjects, Owns
    <3>9. CASE Load(t) /\ GoesOn(t, "store")
      <4>1. job[t].pc = "load" /\ (Does(t, "ban") \/ Does(t, "lookup"))
        BY <3>1, <3>9 DEF Load, At, JobOK, Does, Idle, Job, Doing
      <4> QED BY <3>1, <3>9, <4>1 DEF GoesOn, JobOK, Does, Obj
    <3>10. CASE Store(t) /\ Does(t, "ban") /\ job'[t].do = "ban"
               /\ job'[t].pc = "close" /\ job'[t].acc = job[t].acc /\ job'[t].obj = job[t].new /\ job'[t].new = None
      <4>1. job[t].pc = "store" /\ job[t].new \in Object /\ Acc(job[t].new) = job[t].acc /\ job[t].acc \in Account
        BY <3>1, <3>10 DEF Store, At, JobOK, Does, Job
      <4> QED BY <3>10, <4>1 DEF JobOK, Does, Obj
    <3>11. CASE WriteMoney(t) /\ GoesOn(t, "update")
      <4>1. job[t].pc = "write" /\ Does(t, "change")
        BY <3>1, <3>11 DEF WriteMoney, At, JobOK, Does, Idle, Job, Doing
      <4> QED BY <3>1, <3>11, <4>1 DEF GoesOn, JobOK, Does, Obj
    <3> QED BY <2>3, <3>2, <3>3, <3>4, <3>5, <3>6, <3>7, <3>8, <3>9, <3>10, <3>11 DEF Continues
  <2>4. ASSUME Ends(t) PROVE JobOK(t)'
    BY <2>4 DEF Ends, JobOK, Does, Obj, Idle
  <2>5. JobOK(t)'
    BY <1>2, <2>2, <2>3, <2>4 DEF Moves
  <2> QED BY <1>2, <2>1, <2>5 DEF Alone, JobsOK
<1> QED BY <1>1, <1>2, JobSteps

\* What a thread has at each step.
LEMMA BusyIs ==
    ASSUME JobsOK, NEW t \in Thread
    PROVE  /\ job[t].pc # "start" => job[t].acc \in Account /\ ~Does(t, "nothing")
           /\ job[t].pc \in {"look", "close", "save", "erase", "cache", "write", "update"} =>
                 Obj(t) \in Object /\ Acc(Obj(t)) = job[t].acc
           /\ job[t].pc \in {"invalidate", "read", "publish", "load", "store"} =>
                 job[t].new \in Object /\ Acc(job[t].new) = job[t].acc
           /\ job[t].pc \in {"look", "erase", "cache"} => Does(t, "disconnect")
           /\ job[t].pc \in {"invalidate", "read", "publish"} => Does(t, "login")
           /\ job[t].pc \in {"write", "update"} => Does(t, "change")
           /\ job[t].pc \in {"try", "load", "store"} => Does(t, "ban") \/ Does(t, "lookup")
<1>1. job[t] \in Job /\ JobOK(t)
  BY DEF JobsOK
<1>2. job[t].pc # "start" => ~Does(t, "nothing")
  BY <1>1 DEF JobOK, Idle
<1> QED BY <1>1, <1>2, NullAssumption DEF JobOK, Job, Doing, Does, Obj

LEMMA MemoryStep == TypeInv /\ Next => MemoryOK' /\ OwnObjects'
<1> SUFFICES ASSUME TypeInv, Next PROVE MemoryOK' /\ OwnObjects'
  OBVIOUS
<1>0. MemoryOK /\ JobsOK /\ OwnObjects /\ HistoryOK /\ "lobby" \in Thread
  BY DEF TypeInv, Thread
<1> USE OwnerAssumption, NullAssumption
<1>1. CASE UNCHANGED <<players, named, cached, closed, online, seated, newest>>
  BY <1>0, <1>1 DEF MemoryOK, OwnObjects, Owns
<1>2. ASSUME NEW t \in Thread, Close(t) PROVE MemoryOK' /\ OwnObjects'
  <2>1. Obj(t) \in Object
    BY <1>0, <1>2, BusyIs DEF Close, At
  <2> QED BY <1>0, <1>2, <2>1 DEF Close, MemoryOK, OwnObjects, Owns
<1>3. ASSUME NEW t \in Thread, Erase(t) PROVE MemoryOK' /\ OwnObjects'
  BY <1>0, <1>3 DEF Erase, history, MemoryOK, OwnObjects, Owns
<1>4. ASSUME NEW t \in Thread, CachePlayer(t) PROVE MemoryOK' /\ OwnObjects'
  <2>1. Obj(t) \in Object /\ Acc(Obj(t)) \in Account
    BY <1>0, <1>4, BusyIs DEF CachePlayer, At
  <2> QED BY <1>0, <1>4, <2>1 DEF CachePlayer, history, MemoryOK, OwnObjects, Owns
<1>5. CASE Invalidate
  BY <1>0, <1>5 DEF Invalidate, history, MemoryOK, OwnObjects, Owns
<1>6. CASE Read
  <2>1. job["lobby"].new \in Object /\ Acc(job["lobby"].new) = job["lobby"].acc
    BY <1>0, <1>6, BusyIs DEF Read, At
  <2> QED BY <1>0, <1>6, <2>1 DEF Read, HistoryOK, MemoryOK, OwnObjects, Owns
<1>7. CASE Publish
  <2>1. job["lobby"].new \in Object
    BY <1>0, <1>7, BusyIs DEF Publish, At
  <2> QED BY <1>0, <1>7, <2>1 DEF Publish, MemoryOK, OwnObjects, Owns
<1>8. ASSUME NEW t \in Thread, Load(t) PROVE MemoryOK' /\ OwnObjects'
  BY <1>0, <1>8 DEF Load, HistoryOK, MemoryOK, OwnObjects, Owns
<1>9. ASSUME NEW t \in Thread, Store(t) PROVE MemoryOK' /\ OwnObjects'
  <2>1. job[t].new \in Object /\ Acc(job[t].new) = job[t].acc
    BY <1>0, <1>9, BusyIs DEF Store, At
  <2> QED BY <1>0, <1>9, <2>1 DEF Store, history, MemoryOK, OwnObjects, Owns
<1>10. ASSUME NEW a \in Account, Sit(a) PROVE MemoryOK' /\ OwnObjects'
  BY <1>0, <1>10 DEF Sit, history, MemoryOK, OwnObjects, Owns
<1>11. ASSUME NEW o \in Object, Stand(o) PROVE MemoryOK' /\ OwnObjects'
  BY <1>0, <1>11 DEF Stand, history, MemoryOK, OwnObjects, Owns
<1> QED BY <1>1, <1>2, <1>3, <1>4, <1>5, <1>6, <1>7, <1>8, <1>9, <1>10, <1>11
        DEF Next, Step, Look, Save, TryGet, WriteMoney, Update, Disconnect, Kick, Login, GetPlayer, ChangeMoney,
            TakeBatch, Execute, ExecuteAll, memory, history

LEMMA HistoryStep == TypeInv /\ Next => HistoryOK'
<1> SUFFICES ASSUME TypeInv, Next PROVE HistoryOK'
  OBVIOUS
<1>0. JobsOK /\ HistoryOK /\ batch \in Seq(Write) /\ "lobby" \in Thread /\ online \in SUBSET Object
      /\ seated \in SUBSET Object
  BY DEF TypeInv, MemoryOK, MoneyOK, Thread
<1> USE OwnerAssumption
<1>1. CASE UNCHANGED <<history, raced>>
  BY <1>0, <1>1 DEF HistoryOK, history
<1>2. ASSUME NEW t \in Thread, Close(t) \/ Save(t) PROVE HistoryOK'
  <2>1. Obj(t) \in Object
    BY <1>0, <1>2, BusyIs DEF Close, Save, At
  <2> QED BY <1>0, <1>2, <2>1 DEF Close, Save, HistoryOK, history
<1>3. CASE Read
  <2>1. job["lobby"].new \in Object /\ job["lobby"].acc \in Account
    BY <1>0, <1>3, BusyIs DEF Read, At
  <2> QED BY <1>0, <1>3, <2>1 DEF Read, HistoryOK
<1>4. CASE Publish
  <2>1. job["lobby"].new \in Object
    BY <1>0, <1>4, BusyIs DEF Publish, At
  <2> QED BY <1>0, <1>4, <2>1 DEF Publish, HistoryOK
<1>5. ASSUME NEW t \in Thread, Load(t) PROVE HistoryOK'
  BY <1>0, <1>5 DEF Load, HistoryOK
<1>6. ASSUME NEW t \in Thread, NEW o \in Object, ChangeMoney(t, o) PROVE HistoryOK'
  BY <1>0, <1>6 DEF ChangeMoney, HistoryOK, history
<1>7. CASE ExecuteAll
  <2>1. \A i \in 1..Len(batch) : batch[i].acc \in Account
    <3>1. \A i \in 1..Len(batch) : batch[i] \in Write
      BY <1>0
    <3> QED BY <3>1 DEF Write
  <2> QED BY <1>0, <1>7, <2>1 DEF ExecuteAll, HistoryOK, history
<1> QED BY <1>1, <1>2, <1>3, <1>4, <1>5, <1>6, <1>7
        DEF Next, Step, Look, Erase, CachePlayer, TryGet, Store, WriteMoney, Update, Invalidate, Disconnect,
            Kick, Login, GetPlayer, Sit, Stand, TakeBatch, Execute, history

LEMMA MoneyStep == TypeInv /\ Next => MoneyOK'
<1> SUFFICES ASSUME TypeInv, Next PROVE MoneyOK'
  OBVIOUS
<1>0. JobsOK /\ MoneyOK /\ "lobby" \in Thread
  BY DEF TypeInv, Thread
<1> USE OwnerAssumption
<1>1. CASE UNCHANGED <<purse, stored, queue, batch, made>>
  BY <1>0, <1>1 DEF MoneyOK
<1>2. ASSUME NEW t \in Thread, Save(t) \/ Update(t) PROVE MoneyOK'
  <2>1. Obj(t) \in Object /\ job[t].acc = Acc(Obj(t)) /\ Acc(Obj(t)) \in Account
    BY <1>0, <1>2, BusyIs DEF Save, Update, At
  <2>2. [acc |-> Acc(Obj(t)), val |-> purse[Obj(t)]] \in Write
    BY <1>0, <2>1 DEF MoneyOK, Write
  <2>3. queue' = Append(queue, [acc |-> Acc(Obj(t)), val |-> purse[Obj(t)]])
        /\ UNCHANGED <<purse, stored, batch, made>>
    BY <1>2, <2>1 DEF Save, Update, memory, history
  <2> QED BY <1>0, <2>2, <2>3 DEF MoneyOK
<1>3. CASE Read
  <2>1. job["lobby"].new \in Object /\ job["lobby"].acc \in Account
    BY <1>0, <1>3, BusyIs DEF Read, At
  <2> QED BY <1>0, <1>3, <2>1 DEF Read, MoneyOK, database
<1>4. ASSUME NEW t \in Thread, Load(t) PROVE MoneyOK'
  <2>1. job[t].new \in Object /\ job[t].acc \in Account
    BY <1>0, <1>4, BusyIs DEF Load, At
  <2> QED BY <1>0, <1>4, <2>1 DEF Load, MoneyOK, database
<1>5. ASSUME NEW t \in Thread, WriteMoney(t) PROVE MoneyOK'
  <2>1. job[t].seen \in SUBSET Change
    BY <1>0 DEF JobsOK, Job
  <2>2. PICK c \in Change :
            /\ purse' = [purse EXCEPT ![Obj(t)] = job[t].seen \cup {c}]
            /\ made' = [made EXCEPT ![job[t].acc] = @ \cup {c}]
    BY <1>5 DEF WriteMoney
  <2>3. purse' \in [Object -> SUBSET Change] /\ made' \in [Account -> SUBSET Change]
    BY <1>0, <2>1, <2>2 DEF MoneyOK
  <2> QED BY <1>0, <1>5, <2>3 DEF WriteMoney, MoneyOK, database
<1>6. CASE TakeBatch
  BY <1>0, <1>6 DEF TakeBatch, MoneyOK
<1>7. CASE Execute
  <2>1. Head(batch) \in Write /\ Tail(batch) \in Seq(Write)
    BY <1>0, <1>7 DEF Execute, MoneyOK
  <2> QED BY <1>0, <1>7, <2>1 DEF Execute, MoneyOK, Write
<1>8. CASE ExecuteAll
  <2>1. ASSUME NEW a \in Account PROVE stored'[a] \in SUBSET Change
    <3>1. CASE Written(a)
      <4>1. PICK i \in 1..Len(queue) : IsLast(a, queue, i)
        BY <1>0, <3>1, LastExists DEF Written, MoneyOK
      <4>2. stored'[a] = queue[i].val
        BY <1>0, <1>8, <3>1, <4>1, LastWriteIs, ExecuteAllIs DEF MoneyOK
      <4>3. queue[i] \in Write
        BY <1>0, <4>1 DEF MoneyOK
      <4> QED BY <4>2, <4>3 DEF Write
    <3>2. CASE ~Written(a)
      BY <1>0, <1>8, <3>2, ExecuteAllIs DEF MoneyOK
    <3> QED BY <3>1, <3>2
  <2>2. stored' = [a \in Account |-> stored'[a]]
    BY <1>8 DEF ExecuteAll
  <2>3. stored' \in [Account -> SUBSET Change]
    BY <2>1, <2>2
  <2>4. queue' = <<>> /\ UNCHANGED <<purse, batch, made>>
    BY <1>8 DEF ExecuteAll
  <2> QED BY <1>0, <2>3, <2>4 DEF MoneyOK
<1> QED BY <1>1, <1>2, <1>3, <1>4, <1>5, <1>6, <1>7, <1>8
        DEF Next, Step, Look, Close, Erase, CachePlayer, TryGet, Store, Invalidate, Publish, Disconnect,
            Kick, Login, GetPlayer, ChangeMoney, Sit, Stand, database

LEMMA TypeStep == TypeInv /\ Next => TypeInv'
BY JobsStep, MemoryStep, HistoryStep, MoneyStep DEF TypeInv

-----------------------------------------------------------------------------
(* What a step does to the memory that the threads share                   *)

LEMMA PlayersMove == Next => UNCHANGED <<players, named>> \/ Publish \/ \E t \in Thread : Erase(t)
BY DEF Next, Step, Look, Close, Save, CachePlayer, TryGet, Load, Store, WriteMoney, Update, Invalidate, Read,
       Disconnect, Kick, Login, GetPlayer, Sit, Stand, ChangeMoney, TakeBatch, Execute, ExecuteAll, memory

LEMMA CachedMove == Next => UNCHANGED cached \/ Invalidate \/ \E t \in Thread : CachePlayer(t) \/ Store(t)
BY DEF Next, Step, Look, Close, Save, Erase, TryGet, Load, WriteMoney, Update, Read, Publish,
       Disconnect, Kick, Login, GetPlayer, Sit, Stand, ChangeMoney, TakeBatch, Execute, ExecuteAll, memory

LEMMA ClosedMove ==
    Next => UNCHANGED <<closed, moderated>> \/ Read \/ \E t \in Thread : (Close(t) /\ Obj(t) \notin closed) \/ Load(t)
BY DEF Next, Step, Look, Close, Save, Erase, CachePlayer, TryGet, Store, WriteMoney, Update, Invalidate, Publish,
       Disconnect, Kick, Login, GetPlayer, Sit, Stand, ChangeMoney, TakeBatch, Execute, ExecuteAll, memory, history

LEMMA OnlineMove == Next => UNCHANGED online \/ Publish \/ \E t \in Thread : Close(t) /\ Obj(t) \notin closed
BY DEF Next, Step, Look, Close, Save, Erase, CachePlayer, TryGet, Load, Store, WriteMoney, Update, Invalidate, Read,
       Disconnect, Kick, Login, GetPlayer, Sit, Stand, ChangeMoney, TakeBatch, Execute, ExecuteAll, memory

LEMMA SeatedMove == Next => UNCHANGED seated \/ (\E a \in Account : Sit(a)) \/ \E o \in Object : Stand(o)
BY DEF Next, Step, Look, Close, Save, Erase, CachePlayer, TryGet, Load, Store, WriteMoney, Update, Invalidate, Read,
       Publish, Disconnect, Kick, Login, GetPlayer, ChangeMoney, TakeBatch, Execute, ExecuteAll, memory

LEMMA CrossedMove == Next => UNCHANGED crossed \/ Publish
BY DEF Next, Step, Look, Close, Save, Erase, CachePlayer, TryGet, Load, Store, WriteMoney, Update, Invalidate, Read,
       Disconnect, Kick, Login, GetPlayer, Sit, Stand, ChangeMoney, TakeBatch, Execute, ExecuteAll, history

LEMMA PublishIs ==
    ASSUME TypeInv, Publish
    PROVE  LET o == job["lobby"].new
           IN /\ o \in Object /\ Acc(o) = job["lobby"].acc /\ Acc(o) \in Account /\ Does("lobby", "login")
              /\ \A a \in Account : /\ players'[a] = IF a = Acc(o) THEN o ELSE players[a]
                                    /\ named'[a] = IF a = Acc(o) THEN o ELSE named[a]
              /\ Alone("lobby") /\ job'["lobby"] = Idle
              /\ online' = online \cup {o} /\ UNCHANGED <<closed, moderated>>
              /\ crossed' = IF \E t \in Thread : Removing(t, Acc(o)) THEN crossed \cup {Acc(o)} ELSE crossed
<1>1. JobsOK /\ MemoryOK /\ "lobby" \in Thread /\ job["lobby"].pc = "publish"
  BY DEF TypeInv, Thread, Publish, At
<1>2. /\ job["lobby"].new \in Object /\ Acc(job["lobby"].new) = job["lobby"].acc
      /\ Acc(job["lobby"].new) \in Account /\ Does("lobby", "login")
  BY <1>1, BusyIs
<1>3. Alone("lobby") /\ job'["lobby"] = Idle
  BY <1>1, DoneIs DEF Publish, JobsOK
<1> QED BY <1>1, <1>2, <1>3 DEF Publish, MemoryOK

LEMMA EraseIs ==
    ASSUME TypeInv, NEW t \in Thread, Erase(t)
    PROVE  /\ Obj(t) \in Object /\ Acc(Obj(t)) = job[t].acc /\ Acc(Obj(t)) \in Account
           /\ Does(t, "disconnect") /\ job[t].pc = "erase" /\ ~PlayersLocked(t)
           /\ \A a \in Account :
                 /\ players'[a] = IF a = Acc(Obj(t)) THEN None ELSE players[a]
                 /\ named'[a] = IF a = Acc(Obj(t)) /\ a \notin Capital THEN None ELSE named[a]
           /\ Alone(t) /\ GoesOn(t, "cache")
           /\ UNCHANGED <<closed, online, crossed, moderated>>
<1>1. JobsOK /\ MemoryOK /\ job[t].pc = "erase"
  BY DEF TypeInv, Erase, At
<1>2. /\ Obj(t) \in Object /\ Acc(Obj(t)) = job[t].acc /\ Acc(Obj(t)) \in Account /\ Does(t, "disconnect")
  BY <1>1, BusyIs
<1>3. Alone(t) /\ GoesOn(t, "cache")
  BY <1>1, ToIs DEF Erase, JobsOK, Pc
<1> QED BY <1>1, <1>2, <1>3 DEF Erase, MemoryOK, history

LEMMA CloseIs ==
    ASSUME TypeInv, NEW t \in Thread, Close(t), Obj(t) \notin closed
    PROVE  /\ Obj(t) \in Object /\ job[t].pc = "close"
           /\ closed' = closed \cup {Obj(t)} /\ online' = online \ {Obj(t)}
           /\ moderated' = IF job[t].do \in {"kick", "ban"} THEN moderated \cup {Obj(t)} ELSE moderated
           /\ Alone(t) /\ GoesOn(t, "save")
           /\ UNCHANGED <<players, named, cached, seated, crossed>>
<1>1. JobsOK /\ job[t].pc = "close"
  BY DEF TypeInv, Close, At
<1>2. Obj(t) \in Object
  BY <1>1, BusyIs
<1>3. Alone(t) /\ GoesOn(t, "save")
  BY <1>1, ToIs DEF Close, JobsOK, Pc
<1> QED BY <1>1, <1>2, <1>3 DEF Close

\* An object that a thread makes open again is its new one.
Opens(t) == (t = "lobby" /\ Read) \/ Load(t)
LEMMA OpensIs ==
    ASSUME TypeInv, NEW t \in Thread, Opens(t)
    PROVE  /\ job[t].new \in Object /\ Acc(job[t].new) = job[t].acc /\ job[t].acc \in Account
           /\ closed' = closed \ {job[t].new} /\ moderated' = moderated \ {job[t].new}
           /\ Alone(t) /\ (GoesOn(t, "publish") \/ GoesOn(t, "store"))
           /\ (Does(t, "login") => GoesOn(t, "publish"))
           /\ UNCHANGED <<players, named, cached, online, seated, crossed>>
<1>1. JobsOK /\ job[t].pc \in {"read", "load"}
  BY DEF TypeInv, Opens, Read, Load, At
<1>2. job[t].new \in Object /\ Acc(job[t].new) = job[t].acc /\ job[t].acc \in Account
  BY <1>1, BusyIs
<1>3. Alone(t) /\ (GoesOn(t, "publish") \/ GoesOn(t, "store")) /\ (Does(t, "login") => GoesOn(t, "publish"))
  <2>1. CASE Read /\ t = "lobby"
    BY <1>1, <2>1, ToIs DEF Read, JobsOK, Pc
  <2>2. CASE Load(t)
    <3>1. Alone(t) /\ GoesOn(t, "store")
      BY <1>1, <2>2, ToIs DEF Load, JobsOK, Pc
    <3>2. ~Does(t, "login")
      BY <1>1, <2>2, BusyIs DEF Load, At, Does
    <3> QED BY <3>1, <3>2
  <2> QED BY <2>1, <2>2 DEF Opens
<1> QED BY <1>2, <1>3 DEF Opens, Read, Load

-----------------------------------------------------------------------------
(* New objects                                                             *)

\* What becomes known was known, or was the new object of a thread that has done
\* with it.
LEMMA KnownStep ==
    ASSUME TypeInv, Next, NEW o \in Object, Known(o)'
    PROVE  Known(o) \/ \E t \in Thread : job[t].new = o /\ job'[t].new = None
<1> DEFINE Goal == Known(o) \/ \E t \in Thread : job[t].new = o /\ job'[t].new = None
<1>0. TypeInv /\ MemoryOK /\ JobsOK /\ "lobby" \in Thread /\ o # None
  BY NullAssumption DEF TypeInv, Thread
<1>1. CASE o \in online'
  <2>1. CASE Publish
    BY <1>0, <1>1, <2>1, PublishIs DEF Known, Idle
  <2>2. CASE ~Publish
    BY <1>0, <1>1, <2>2, OnlineMove, CloseIs DEF Known
  <2> QED BY <2>1, <2>2
<1>2. CASE o \in seated'
  BY <1>0, <1>2, SeatedMove DEF Sit, Stand, Known
<1>3. ASSUME NEW a \in Account, o \in {players'[a], named'[a]} PROVE Goal
  <2>1. CASE UNCHANGED <<players, named>>
    BY <1>3, <2>1 DEF Known
  <2>2. CASE Publish
    BY <1>0, <1>3, <2>2, PublishIs DEF Known, Idle
  <2>3. ASSUME NEW t \in Thread, Erase(t) PROVE Goal
    BY <1>0, <1>3, <2>3, EraseIs DEF Known
  <2> QED BY <2>1, <2>2, <2>3, PlayersMove
<1>4. ASSUME NEW a \in Account, o = cached'[a] PROVE Goal
  <2>1. CASE UNCHANGED cached
    BY <1>4, <2>1 DEF Known
  <2>2. CASE Invalidate
    BY <1>0, <1>4, <2>2 DEF Invalidate, MemoryOK, Known
  <2>3. ASSUME NEW t \in Thread, CachePlayer(t) PROVE Goal
    BY <1>0, <1>4, <2>3 DEF CachePlayer, MemoryOK, Known
  <2>4. ASSUME NEW t \in Thread, Store(t) PROVE Goal
    <3>1. job[t].new \in Object
      BY <1>0, <2>4, BusyIs DEF Store, At
    <3>2. job'[t].new = None
      BY <1>0, <2>4, <3>1, FoundIs DEF Store, JobsOK, Idle
    <3> QED BY <1>0, <1>4, <2>4, <3>2 DEF Store, MemoryOK, Known
  <2> QED BY <2>1, <2>2, <2>3, <2>4, CachedMove
<1>5. ASSUME NEW u \in Thread, job'[u].obj = o PROVE Goal
  <2>1. CASE job'[u].obj = job[u].obj
    BY <1>5, <2>1 DEF Known, Obj
  <2>2. CASE job'[u].obj # job[u].obj
    <3>1. PICK t \in Thread : Alone(t) /\ Moves(t)
      BY <2>2, JobSteps
    <3>2. t = u
      BY <2>2, <3>1 DEF Alone
    <3>3. CASE Begins(u)
      <4>1. \A x \in Object : Acc(x) \in Account
        BY OwnerAssumption
      <4> QED BY <1>0, <1>5, <3>3, <4>1 DEF Begins, Known
    <3>4. CASE Continues(u)
      <4>1. CASE TryGet(u) /\ job'[u].obj = cached[job[u].acc]
        <5>1. job[u].acc \in Account
          BY <1>0, <4>1, BusyIs DEF TryGet, At
        <5> QED BY <1>5, <4>1, <5>1 DEF Known
      <4>2. CASE Store(u) /\ job'[u].obj = job[u].new /\ job'[u].new = None
        BY <1>5, <4>2
      <4> QED BY <2>2, <3>4, <4>1, <4>2 DEF Continues, GoesOn
    <3>5. CASE Ends(u)
      BY <1>0, <1>5, <3>5 DEF Ends, Idle
    <3> QED BY <3>1, <3>2, <3>3, <3>4, <3>5 DEF Moves
  <2> QED BY <2>1, <2>2
<1> QED BY <1>1, <1>2, <1>3, <1>4, <1>5 DEF Known, Obj

\* A thread gets a new object that nothing refers to.
LEMMA NewIs ==
    ASSUME TypeInv, Next, NEW t \in Thread, job'[t].new # None
    PROVE  job'[t].new = job[t].new \/ (Alone(t) /\ job'[t].new \in Object /\ Fresh(job'[t].new))
<1> SUFFICES ASSUME job'[t].new # job[t].new
             PROVE  Alone(t) /\ job'[t].new \in Object /\ Fresh(job'[t].new)
  OBVIOUS
<1>1. PICK u \in Thread : Alone(u) /\ Moves(u)
  BY JobSteps
<1>2. u = t
  BY <1>1 DEF Alone
<1>3. CASE Begins(t)
  BY <1>1, <1>2, <1>3 DEF Begins, Login
<1>4. CASE Continues(t)
  BY <1>1, <1>2, <1>4 DEF Continues, GoesOn
<1>5. CASE Ends(t)
  BY <1>5 DEF Ends, Idle
<1> QED BY <1>1, <1>2, <1>3, <1>4, <1>5 DEF Moves

LEMMA NewStep == TypeInv /\ NewInv /\ Next => NewInv'
<1> SUFFICES ASSUME TypeInv, NewInv, Next PROVE NewInv'
  OBVIOUS
<1>1. ASSUME NEW t \in Thread, NEW n \in Object, job'[t].new = n
      PROVE  ~Known(n)' /\ \A u \in Thread \ {t} : job'[u].new # n
  <2>0. n # None
    BY NullAssumption
  <2>1. CASE n = job[t].new
    <3>1. ~Known(n) /\ \A u \in Thread \ {t} : job[u].new # n
      BY <2>0, <2>1 DEF NewInv
    <3>2. ~Fresh(n)
      BY <2>1 DEF Fresh
    <3>3. ~Known(n)'
      BY <1>1, <2>0, <3>1, KnownStep
    <3> QED BY <2>0, <3>1, <3>2, <3>3, NewIs
  <2>2. CASE Alone(t) /\ Fresh(n)
    <3>1. ~Known(n) /\ \A u \in Thread : job[u].new # n
      BY <2>2 DEF Fresh, Known, Obj
    <3>2. ~Known(n)'
      BY <3>1, KnownStep
    <3> QED BY <2>2, <3>1, <3>2 DEF Alone
  <2> QED BY <1>1, <2>0, <2>1, <2>2, NewIs
<1>2. \A t \in Thread : job'[t].new \in Object \cup {None}
  <2>1. JobsOK'
    BY TypeStep DEF TypeInv
  <2> QED BY <2>1 DEF JobsOK, Job
<1> QED BY <1>1, <1>2 DEF NewInv, Known, Obj

-----------------------------------------------------------------------------
(* Logins, removals and who is online                                      *)

LEMMA LoginStep == TypeInv /\ NewInv /\ LoginInv /\ Next => LoginInv'
<1> SUFFICES ASSUME TypeInv, NewInv, LoginInv, Next, NEW t \in Thread, job'[t].do = "login"
             PROVE  /\ players'[job'[t].acc] = job'[t].obj
                    /\ job'[t].pc \in {"save", "invalidate", "read", "publish"} => job'[t].obj \in closed' \cup {None}
                    /\ job'[t].pc = "publish" => job'[t].new \notin closed'
  BY DEF LoginInv, Does, Obj
<1> DEFINE a == job'[t].acc
           Goal == /\ players'[a] = job'[t].obj
                   /\ job'[t].pc \in {"save", "invalidate", "read", "publish"} => job'[t].obj \in closed' \cup {None}
                   /\ job'[t].pc = "publish" => job'[t].new \notin closed'
<1>0. JobsOK /\ JobsOK' /\ MemoryOK /\ OwnObjects /\ "lobby" \in Thread
  BY TypeStep DEF TypeInv, Thread
<1>1. t = "lobby" /\ a \in Account
  BY <1>0 DEF JobsOK, JobOK, Does
<1>2. ASSUME job'[t] = job[t] PROVE Goal
  <2>1. Does(t, "login") /\ a = job[t].acc
    BY <1>2 DEF Does
  <2>2. players'[a] = players[a]
    <3>1. ~Publish
      BY <1>0, <1>1, <1>2, PublishIs DEF Idle
    <3>2. ASSUME NEW u \in Thread, Erase(u) PROVE FALSE
      <4>1. u # t
        BY <2>1, <3>2, EraseIs DEF Does
      <4> QED BY <2>1, <3>2, <4>1, EraseIs DEF PlayersLocked
    <3> QED BY <3>1, <3>2, PlayersMove
  <2>3. ASSUME NEW u \in Thread, Close(u), Obj(u) \notin closed PROVE Goal
    <3>1. closed' = closed \cup {Obj(u)} /\ Obj(u) # None
      BY <2>3, CloseIs, NullAssumption
    <3>2. job[t].new # None => job[t].new # Obj(u)
      BY DEF NewInv, Known
    <3> QED BY <1>2, <2>1, <2>2, <3>1, <3>2 DEF LoginInv, Obj
  <2>4. ASSUME NEW u \in Thread, Opens(u) PROVE Goal
    <3>1. closed' = closed \ {job[u].new} /\ job[u].new \in Object
      BY <2>4, OpensIs
    <3>2. Obj(t) # job[u].new
      BY <3>1, NullAssumption DEF NewInv, Known
    <3> QED BY <1>2, <2>1, <2>2, <3>1, <3>2 DEF LoginInv, Obj
  <2>5. CASE UNCHANGED closed
    BY <1>2, <2>1, <2>2, <2>5 DEF LoginInv, Obj
  <2> QED BY <1>0, <2>3, <2>4, <2>5, ClosedMove DEF Opens
<1>3. ASSUME Alone(t), Begins(t) PROVE Goal
  <2>1. PICK o \in Object :
             /\ Login(o) /\ job'[t].acc = Acc(o) /\ job'[t].obj = players[Acc(o)]
             /\ job'[t].pc = IF players[Acc(o)] = None THEN "invalidate" ELSE "close"
    BY <1>3 DEF Begins
  <2>2. UNCHANGED players
    BY <2>1 DEF Login, memory
  <2> QED BY <2>1, <2>2
<1>4. ASSUME Alone(t), Continues(t) PROVE Goal
  <2>1. CASE Close(t) /\ Obj(t) \notin closed /\ GoesOn(t, "save")
    BY <2>1, CloseIs DEF GoesOn, LoginInv, Does, Obj
  <2>2. CASE IsThrough(t) /\ GoesOn(t, "invalidate")
    <3>1. /\ UNCHANGED <<players, closed>>
          /\ Obj(t) \in closed \/ job[t].pc = "save"
      BY <2>2 DEF IsThrough, Close, Save, At, memory
    <3> QED BY <2>2, <3>1 DEF GoesOn, LoginInv, Does, Obj
  <2>3. CASE Invalidate /\ GoesOn(t, "read")
    BY <1>1, <2>3 DEF Invalidate, At, GoesOn, LoginInv, Does, Obj
  <2>4. CASE Read /\ GoesOn(t, "publish")
    <3>1. /\ UNCHANGED players /\ closed' = closed \ {job[t].new} /\ job[t].pc = "read"
          /\ job[t].new \in Object
      BY <1>0, <1>1, <2>4, OpensIs DEF Opens, Read, At
    <3>2. Obj(t) # job[t].new
      BY <3>1, NullAssumption DEF NewInv, Known
    <3> QED BY <2>4, <3>1, <3>2 DEF GoesOn, LoginInv, Does, Obj
  <2>6. job'[t].pc \in {"close", "save", "invalidate", "read", "publish"}
    BY <1>0 DEF JobsOK, JobOK, Does
  <2>7. CASE Look(t) \/ Erase(t) \/ TryGet(t) \/ Load(t) \/ Store(t) \/ WriteMoney(t)
    <3>1. ~Does(t, "login")
      BY <1>0, <2>7, BusyIs DEF Look, Erase, TryGet, Load, Store, WriteMoney, At, Does
    <3>2. job'[t].do # "login"
      <4>1. job'[t].do = job[t].do \/ job'[t].do = "ban"
        BY <1>4 DEF Continues, GoesOn, Does
      <4> QED BY <3>1, <4>1 DEF Does
    <3> QED BY <3>2
  <2> QED BY <1>4, <2>1, <2>2, <2>3, <2>4, <2>6, <2>7 DEF Continues, GoesOn
<1>5. ASSUME Ends(t) PROVE FALSE
  BY <1>5 DEF Ends, Idle
<1> QED BY <1>2, <1>3, <1>4, <1>5, JobSteps DEF Alone, Moves

LEMMA DisjointStep == TypeInv /\ LoginInv /\ RemovalInv /\ Next => (closed \cap online = {})'
<1> SUFFICES ASSUME TypeInv, LoginInv, RemovalInv, Next PROVE closed' \cap online' = {}
  OBVIOUS
<1>0. JobsOK /\ closed \cap online = {} /\ "lobby" \in Thread
  BY DEF TypeInv, RemovalInv, Removes, Thread
<1>1. CASE Publish
  <2>1. job["lobby"].pc = "publish" /\ Does("lobby", "login")
    BY <1>0, <1>1, BusyIs DEF Publish, At
  <2> QED BY <1>0, <1>1, <2>1, PublishIs DEF LoginInv
<1>2. ASSUME NEW t \in Thread, Close(t), Obj(t) \notin closed PROVE closed' \cap online' = {}
  BY <1>0, <1>2, CloseIs
<1>3. ASSUME NEW t \in Thread, Opens(t) PROVE closed' \cap online' = {}
  BY <1>0, <1>3, OpensIs
<1>4. CASE UNCHANGED <<closed, online>>
  BY <1>0, <1>4
<1> QED BY <1>0, <1>1, <1>2, <1>3, <1>4, ClosedMove, OnlineMove, PublishIs, CloseIs DEF Opens, Read, Load

LEMMA RemovalStep ==
    TypeInv /\ NewInv /\ LoginInv /\ RemovalInv /\ ConnectedIsOnline /\ Next => RemovalInv'
<1> SUFFICES ASSUME TypeInv, NewInv, LoginInv, RemovalInv, ConnectedIsOnline, Next,
                    NEW t \in Thread, job'[t].do = "disconnect"
             PROVE  Removes(t)'
  BY DisjointStep DEF RemovalInv, Removes, Does, Obj
<1>0. /\ JobsOK /\ JobsOK' /\ MemoryOK /\ OwnObjects /\ "lobby" \in Thread
      /\ job'[t].obj \in Object /\ job'[t].acc \in Account /\ Acc(job'[t].obj) = job'[t].acc
  <2>1. JobsOK /\ JobsOK' /\ MemoryOK /\ OwnObjects /\ "lobby" \in Thread
    BY TypeStep DEF TypeInv, Thread
  <2>2. job'[t].pc \in {"look", "close", "save", "erase", "cache"} /\ JobOK(t)'
    BY <2>1 DEF JobsOK, JobOK, Does
  <2> QED BY <2>1, <2>2, NullAssumption DEF JobOK, Does, Obj
<1>1. CASE job'[t] = job[t]
  <2>0. Does(t, "disconnect") /\ Removes(t) /\ Obj(t) \in Object /\ job[t].acc \in Account /\ Acc(Obj(t)) = job[t].acc
    BY <1>0, <1>1 DEF RemovalInv, Removes, Does, Obj
  <2>1. ASSUME NEW u \in Thread, Erase(u) PROVE Removes(t)'
    <3>1. /\ \A a \in Account : players'[a] = IF a = Acc(Obj(u)) THEN None ELSE players[a]
          /\ UNCHANGED <<closed, crossed>>
      BY <2>1, EraseIs
    <3>2. /\ Obj(u) \in closed /\ Obj(u) \in Object
          /\ Acc(Obj(u)) \in crossed \/ players[Acc(Obj(u))] \in {Obj(u), None}
      BY <2>1, EraseIs DEF RemovalInv, Removes
    <3> QED BY <1>1, <2>0, <3>1, <3>2, NullAssumption DEF Removes, Obj
  <2>2. CASE Publish
    <3> DEFINE n == job["lobby"].new
    <3>1. /\ \A a \in Account : players'[a] = IF a = Acc(n) THEN n ELSE players[a]
          /\ UNCHANGED closed /\ crossed \subseteq crossed'
          /\ Removing(t, Acc(n)) => Acc(n) \in crossed'
          /\ n \in Object /\ Acc(n) = job["lobby"].acc /\ Does("lobby", "login") /\ job["lobby"].pc = "publish"
      BY <2>2, PublishIs DEF Publish, At
    <3>2. Obj(t) # n
      BY <1>0, <3>1, NullAssumption DEF NewInv, Known
    <3>3. players[Acc(n)] \in closed \cup {None}
      BY <1>0, <3>1 DEF LoginInv
    <3> HIDE DEF n
    <3> QED BY <1>1, <2>0, <3>1, <3>2, <3>3, NullAssumption DEF Removes, Removing, Does, Obj
  <2>3. ASSUME UNCHANGED <<players, named>>, ~Publish PROVE Removes(t)'
    <3>0. UNCHANGED crossed
      BY <2>3, CrossedMove
    <3>1. ASSUME NEW u \in Thread, Close(u), Obj(u) \notin closed PROVE Removes(t)'
      BY <1>1, <2>0, <2>3, <3>0, <3>1, CloseIs DEF Removes, Obj
    <3>2. ASSUME NEW u \in Thread, Opens(u) PROVE Removes(t)'
      <4>1. closed' = closed \ {job[u].new} /\ job[u].new \in Object
        BY <3>2, OpensIs
      <4>2. Obj(t) # job[u].new
        BY <4>1, NullAssumption DEF NewInv, Known
      <4> QED BY <1>1, <2>0, <2>3, <3>0, <4>1, <4>2 DEF Removes, Obj
    <3>3. CASE UNCHANGED closed
      BY <1>1, <2>0, <2>3, <3>0, <3>3 DEF Removes, Obj
    <3> QED BY <1>0, <3>1, <3>2, <3>3, ClosedMove DEF Opens
  <2> QED BY <2>1, <2>2, <2>3, PlayersMove
<1>2. CASE Begins(t)
  <2>1. PICK o \in online : /\ Disconnect(t, o) /\ job'[t].pc = "look"
                            /\ job'[t].acc = Acc(o) /\ job'[t].obj = o
    BY <1>2 DEF Begins
  <2>2. UNCHANGED <<players, closed, crossed>>
    BY <2>1 DEF Disconnect, memory, history
  <2> QED BY <2>1, <2>2 DEF ConnectedIsOnline, Removes, Obj
<1>3. CASE Continues(t)
  <2>1. CASE Look(t) /\ Obj(t) \notin closed /\ GoesOn(t, "close")
    <3>1. UNCHANGED <<players, closed, crossed>> /\ job[t].pc = "look" /\ Does(t, "disconnect")
      BY <2>1 DEF Look, At, memory, history, GoesOn, Does
    <3> QED BY <2>1, <3>1 DEF GoesOn, Removes, RemovalInv, Obj
  <2>2. CASE Close(t) /\ Obj(t) \notin closed /\ GoesOn(t, "save")
    <3>1. Does(t, "disconnect")
      BY <2>2 DEF GoesOn, Does
    <3> QED BY <2>2, <3>1, CloseIs DEF GoesOn, Removes, RemovalInv, Obj
  <2>3. CASE IsThrough(t) /\ GoesOn(t, "erase")
    <3>1. /\ UNCHANGED <<players, closed, crossed>> /\ Does(t, "disconnect")
          /\ job[t].pc = "save" \/ (job[t].pc = "close" /\ Obj(t) \in closed)
      BY <2>3 DEF IsThrough, Close, Save, At, memory, history, GoesOn, Does
    <3> QED BY <2>3, <3>1 DEF GoesOn, Removes, RemovalInv, Obj
  <2>4. CASE Erase(t) /\ GoesOn(t, "cache")
    <3>1. Obj(t) \in closed
      BY <2>4, EraseIs DEF RemovalInv, Removes
    <3> QED BY <2>4, <3>1, EraseIs, NullAssumption DEF GoesOn, Removes, Obj
  <2>5. CASE IsThrough(t) /\ GoesOn(t, "invalidate")
    BY <1>0, <2>5 DEF GoesOn, JobsOK, JobOK, Does
  <2>6. CASE Invalidate \/ Read \/ TryGet(t) \/ Load(t) \/ Store(t) \/ WriteMoney(t)
    <3>1. ~Does(t, "disconnect") \/ job'[t] = job[t]
      <4>1. CASE Invalidate \/ Read
        BY <1>0, <4>1, BusyIs, ToIs DEF Invalidate, Read, At, Does, JobsOK, Pc, Alone
      <4>2. CASE TryGet(t) \/ Load(t) \/ Store(t) \/ WriteMoney(t)
        BY <1>0, <4>2, BusyIs DEF TryGet, Load, Store, WriteMoney, At, Does
      <4> QED BY <2>6, <4>1, <4>2
    <3>2. job'[t].do = job[t].do \/ job'[t].do = "ban"
      BY <1>3 DEF Continues, GoesOn, Does
    <3> QED BY <1>1, <3>1, <3>2 DEF Does
  <2> QED BY <1>3, <2>1, <2>2, <2>3, <2>4, <2>5, <2>6 DEF Continues
<1>4. CASE Ends(t)
  BY <1>4 DEF Ends, Idle
<1> QED BY <1>1, <1>2, <1>3, <1>4, JobSteps DEF Alone, Moves

LEMMA ConnectedStep ==
    TypeInv /\ LoginInv /\ RemovalInv /\ ConnectedIsOnline /\ Next => ConnectedIsOnline'
<1> SUFFICES ASSUME TypeInv, LoginInv, RemovalInv, ConnectedIsOnline, Next, NEW o \in online'
             PROVE  players'[Acc(o)] = o \/ Acc(o) \in crossed'
  BY DEF ConnectedIsOnline
<1>0. JobsOK /\ MemoryOK /\ MemoryOK' /\ "lobby" \in Thread /\ o \in Object /\ Acc(o) \in Account
  BY TypeStep, OwnerAssumption DEF TypeInv, Thread, MemoryOK
<1>1. CASE Publish
  <2> DEFINE n == job["lobby"].new
  <2>1. /\ \A a \in Account : players'[a] = IF a = Acc(n) THEN n ELSE players[a]
        /\ online' = online \cup {n} /\ crossed \subseteq crossed'
        /\ Acc(n) = job["lobby"].acc /\ Does("lobby", "login") /\ job["lobby"].pc = "publish"
    BY <1>1, PublishIs DEF Publish, At
  <2>2. players[Acc(n)] \in closed \cup {None}
    BY <1>0, <2>1 DEF LoginInv
  <2>3. closed \cap online = {}
    BY DEF RemovalInv, Removes
  <2> HIDE DEF n
  <2> QED BY <1>0, <2>1, <2>2, <2>3, NullAssumption DEF ConnectedIsOnline
<1>2. ASSUME ~Publish PROVE players'[Acc(o)] = o \/ Acc(o) \in crossed'
  <2>1. o \in online
    BY <1>2, OnlineMove, CloseIs
  <2>2. UNCHANGED crossed /\ (players[Acc(o)] = o \/ Acc(o) \in crossed)
    BY <1>2, <2>1, CrossedMove DEF ConnectedIsOnline
  <2>3. ASSUME NEW t \in Thread, Erase(t) PROVE players'[Acc(o)] = o \/ Acc(o) \in crossed
    <3>1. /\ Obj(t) \in closed
          /\ Acc(Obj(t)) \in crossed \/ players[Acc(Obj(t))] \in {Obj(t), None}
      BY <2>3, EraseIs DEF RemovalInv, Removes
    <3>2. o # Obj(t)
      BY <2>1, <3>1 DEF RemovalInv, Removes
    <3> QED BY <1>0, <2>2, <2>3, <3>1, <3>2, EraseIs, NullAssumption
  <2> QED BY <1>2, <2>2, <2>3, PlayersMove
<1> QED BY <1>1, <1>2

LEMMA NamesStep == TypeInv /\ NamesAgree /\ Next => NamesAgree'
<1> SUFFICES ASSUME TypeInv, NamesAgree, Next PROVE NamesAgree'
  OBVIOUS
<1>1. CASE Publish
  BY <1>1, PublishIs DEF NamesAgree
<1>2. ASSUME NEW t \in Thread, Erase(t) PROVE NamesAgree'
  BY <1>2, EraseIs DEF NamesAgree
<1>3. CASE UNCHANGED <<players, named>>
  BY <1>3 DEF NamesAgree
<1> QED BY <1>1, <1>2, <1>3, PlayersMove

LEMMA ClosedStep == TypeInv /\ NewInv /\ LoginInv /\ RemovalInv /\ ClosedInv /\ Next => ClosedInv'
<1> SUFFICES ASSUME TypeInv, NewInv, LoginInv, RemovalInv, ClosedInv, Next,
                    NEW a \in Account, NEW q, q = players'[a], q \in closed'
             PROVE  q \in moderated' \/ \E t \in Thread : Closer(t, q)'
  BY DEF ClosedInv, Closer, Does, Obj
<1>0. JobsOK /\ MemoryOK /\ MemoryOK' /\ "lobby" \in Thread /\ None \notin closed'
  BY TypeStep, NullAssumption DEF TypeInv, Thread, MemoryOK
<1>1. q = players[a]
  <2>1. CASE Publish
    <3>1. job["lobby"].new \notin closed'
      BY <1>0, <2>1, PublishIs DEF Publish, At, LoginInv
    <3> QED BY <2>1, <3>1, PublishIs
  <2>2. ASSUME NEW t \in Thread, Erase(t) PROVE q = players[a]
    BY <1>0, <2>2, EraseIs
  <2> QED BY <2>1, <2>2, PlayersMove
<1>2. CASE q \notin closed
  <2>1. PICK t \in Thread : Close(t) /\ Obj(t) \notin closed
    BY <1>0, <1>1, <1>2, ClosedMove, OpensIs DEF Opens
  <2>2. /\ q = Obj(t) /\ job[t].pc = "close" /\ GoesOn(t, "save")
        /\ moderated' = IF job[t].do \in {"kick", "ban"} THEN moderated \cup {Obj(t)} ELSE moderated
    BY <1>1, <1>2, <2>1, CloseIs
  <2>3. job[t].do \in {"login", "disconnect", "kick", "ban"}
    BY <1>0, <2>2 DEF JobsOK, JobOK, Job, Doing, Does, Idle
  <2> QED BY <1>1, <2>2, <2>3 DEF GoesOn, Closer, Does, Obj
<1>3. CASE q \in closed
  <2>0. q \in Object
    BY <1>3 DEF TypeInv, MemoryOK
  <2>1. ASSUME q \in moderated PROVE q \in moderated'
    <3>1. ASSUME NEW u \in Thread, Opens(u) PROVE q \in moderated'
      BY <2>0, <2>1, <3>1, OpensIs, NullAssumption DEF NewInv, Known
    <3> QED BY <1>0, <2>1, <3>1, ClosedMove, CloseIs DEF Opens
  <2>2. ASSUME NEW t \in Thread, Closer(t, q) PROVE Closer(t, q)'
    <3>0. JobOK(t) /\ (Does(t, "login") \/ Does(t, "disconnect")) /\ Obj(t) = q
      BY <1>0, <2>2 DEF JobsOK, Closer
    <3>1. CASE job'[t] = job[t]
      BY <1>1, <2>2, <3>1 DEF Closer, Does, Obj
    <3>2. CASE Begins(t)
      BY <3>0, <3>2 DEF Begins, Idle, Does
    <3>3. CASE Continues(t)
      <4>1. ASSUME Erase(t) PROVE FALSE
        <5>1. players'[Acc(q)] = None /\ Acc(q) = a
          BY <1>3, <2>0, <3>0, <4>1, EraseIs, NullAssumption DEF TypeInv, OwnObjects, Owns
        <5> QED BY <1>0, <5>1
      <4>2. ASSUME TryGet(t) \/ Load(t) \/ Store(t) \/ WriteMoney(t) PROVE FALSE
        BY <1>0, <3>0, <4>2, BusyIs DEF TryGet, Load, Store, WriteMoney, At, Does
      <4>3. ASSUME Look(t) PROVE FALSE
        BY <1>0, <2>2, <4>3, BusyIs DEF Look, At, Closer, Does
      <4>4. /\ job'[t].do = job[t].do /\ job'[t].obj = job[t].obj
            /\ job[t].do = "login" \/ job'[t].pc \in {"save", "erase"}
        <5>1. CASE Invalidate /\ t = "lobby" /\ GoesOn(t, "read")
          BY <1>0, <5>1, BusyIs DEF Invalidate, At, GoesOn, Does
        <5>2. CASE Read /\ t = "lobby" /\ GoesOn(t, "publish")
          BY <1>0, <5>2, BusyIs DEF Read, At, GoesOn, Does
        <5>3. CASE GoesOn(t, "save") \/ GoesOn(t, "erase") \/ (Does(t, "login") /\ GoesOn(t, "invalidate"))
          BY <5>3 DEF GoesOn, Does
        <5> QED BY <3>3, <4>1, <4>2, <4>3, <5>1, <5>2, <5>3 DEF Continues
      <4> QED BY <1>1, <3>0, <4>4 DEF Closer, Does, Obj
    <3>4. CASE Ends(t)
      <4>1. CASE Publish /\ t = "lobby"
        <5>1. players[job[t].acc] = Obj(t) /\ Acc(q) = job[t].acc /\ Acc(q) = a
          BY <1>0, <2>0, <3>0, <4>1, PublishIs, NullAssumption DEF LoginInv, JobOK, TypeInv, OwnObjects, Owns
        <5>2. job[t].new \notin closed' /\ players'[a] = job[t].new
          BY <1>0, <4>1, <5>1, PublishIs DEF Publish, At, LoginInv
        <5> QED BY <5>2
      <4>2. CASE ~(Publish /\ t = "lobby")
        <5>1. job[t].pc \in {"look", "cache", "try", "store", "update"}
          BY <3>0, <3>4, <4>2 DEF Ends, Look, CachePlayer, TryGet, Store, Update, At
        <5>2. job[t].pc \notin {"look", "cache", "try", "store", "update"}
          BY <1>0, <2>2, BusyIs DEF Closer, Does
        <5> QED BY <5>1, <5>2
      <4> QED BY <4>1, <4>2
    <3> QED BY <3>1, <3>2, <3>3, <3>4, JobSteps DEF Alone, Moves
  <2> QED BY <1>1, <1>3, <2>1, <2>2 DEF ClosedInv
<1> QED BY <1>2, <1>3

-----------------------------------------------------------------------------
(* What the database will hold                                             *)

LEMMA LastAppend ==
    ASSUME NEW w \in Seq(Write), NEW e \in Write, NEW a
    PROVE  LET v == Append(w, e)
           IN /\ v \in Seq(Write)
              /\ e.acc = a => IsLast(a, v, Len(w) + 1)
              /\ e.acc # a => \A i : IsLast(a, w, i) => IsLast(a, v, i)
              /\ e.acc # a => \A i \in 1..Len(v) : v[i].acc = a => i \in 1..Len(w) /\ w[i].acc = a
<1> DEFINE v == Append(w, e)
<1>1. /\ v \in Seq(Write) /\ Len(v) = Len(w) + 1 /\ Len(w) \in Nat /\ v[Len(w) + 1] = e
      /\ \A i \in 1..Len(w) : v[i] = w[i]
  OBVIOUS
<1> HIDE DEF v
<1>2. \A i \in 1..Len(v) : i \in 1..Len(w) \/ i = Len(w) + 1
  BY <1>1
<1>3. \A i \in 1..Len(w) : i \in 1..Len(v)
  BY <1>1
<1>4. ASSUME e.acc = a PROVE IsLast(a, v, Len(w) + 1)
  BY <1>1, <1>4 DEF IsLast
<1>5. ASSUME e.acc # a, NEW i, IsLast(a, w, i) PROVE IsLast(a, v, i)
  BY <1>1, <1>2, <1>3, <1>5 DEF IsLast
<1>6. ASSUME e.acc # a, NEW i \in 1..Len(v), v[i].acc = a PROVE i \in 1..Len(w) /\ w[i].acc = a
  BY <1>1, <1>2, <1>6
<1> QED BY <1>1, <1>4, <1>5, <1>6 DEF v

LEMMA LastTail ==
    ASSUME NEW w \in Seq(Write), w # <<>>, NEW a
    PROVE  /\ Tail(w) \in Seq(Write) /\ Head(w) \in Write
           /\ \A i : IsLast(a, Tail(w), i) => IsLast(a, w, i + 1)
           /\ (\A i \in 1..Len(Tail(w)) : Tail(w)[i].acc # a) =>
                 /\ Head(w).acc = a => IsLast(a, w, 1)
                 /\ Head(w).acc # a => \A i \in 1..Len(w) : w[i].acc # a
           /\ \A i \in 1..Len(Tail(w)) : Tail(w)[i].acc = a => i + 1 \in 1..Len(w) /\ w[i + 1].acc = a
<1> DEFINE v == Tail(w)
<1>1. /\ v \in Seq(Write) /\ Len(v) = Len(w) - 1 /\ Len(w) \in Nat /\ Len(w) >= 1
      /\ Head(w) = w[1] /\ Head(w) \in Write
      /\ \A i \in 1..Len(v) : v[i] = w[i + 1]
  OBVIOUS
<1> HIDE DEF v
<1>2. \A i \in 1..Len(w) : i = 1 \/ (i - 1 \in 1..Len(v) /\ w[i] = v[i - 1])
  BY <1>1
<1>3. \A i \in 1..Len(v) : i + 1 \in 1..Len(w) /\ w[i + 1] = v[i]
  BY <1>1
<1>4. ASSUME NEW i, IsLast(a, v, i) PROVE IsLast(a, w, i + 1)
  <2>1. i \in 1..Len(v) /\ v[i].acc = a /\ \A j \in 1..Len(v) : v[j].acc = a => j <= i
    BY <1>4 DEF IsLast
  <2>2. ASSUME NEW j \in 1..Len(w), w[j].acc = a PROVE j <= i + 1
    BY <1>1, <1>2, <2>1, <2>2
  <2> QED BY <1>3, <2>1, <2>2 DEF IsLast
<1>5. ASSUME \A i \in 1..Len(v) : v[i].acc # a
      PROVE  /\ Head(w).acc = a => IsLast(a, w, 1)
             /\ Head(w).acc # a => \A i \in 1..Len(w) : w[i].acc # a
  BY <1>1, <1>2, <1>5 DEF IsLast
<1> QED BY <1>1, <1>3, <1>4, <1>5 DEF v

\* The same last write of a in two sequences.
LEMMA SameLast ==
    ASSUME NEW v \in Seq(Write), NEW w \in Seq(Write), NEW a, NEW i, NEW j,
           IsLast(a, v, i), IsLast(a, w, j), v[i] = w[j]
    PROVE  LastWrite(a, v) = LastWrite(a, w)
BY LastWriteIs

\* A row is queued.
LEMMA QueuedIs ==
    ASSUME MoneyOK, NEW e \in Write, queue' = Append(queue, e), UNCHANGED <<batch, stored>>, NEW a
    PROVE  WillBeStored(a)' = IF e.acc = a THEN e.val ELSE WillBeStored(a)
<1>0. queue \in Seq(Write) /\ queue' \in Seq(Write)
  BY LastAppend DEF MoneyOK
<1>1. CASE e.acc = a
  <2> DEFINE l == Len(queue) + 1
  <2>1. IsLast(a, queue', l) /\ queue'[l] = e
    BY <1>0, <1>1, LastAppend
  <2> HIDE DEF l
  <2>2. LastWrite(a, queue') = queue'[l].val
    BY <1>0, <2>1, LastWriteIs
  <2>3. Written(a)'
    BY <2>1 DEF Written, IsLast
  <2> QED BY <1>1, <2>1, <2>2, <2>3 DEF WillBeStored
<1>2. CASE e.acc # a
  <2>1. CASE Written(a)
    <3>1. PICK i \in 1..Len(queue) : IsLast(a, queue, i)
      BY <1>0, <2>1, LastExists DEF Written
    <3>2. IsLast(a, queue', i) /\ queue'[i] = queue[i]
      BY <1>0, <1>2, <3>1, LastAppend
    <3>3. LastWrite(a, queue') = LastWrite(a, queue)
      BY <1>0, <3>1, <3>2, SameLast
    <3>4. Written(a)'
      BY <3>2 DEF Written, IsLast
    <3> QED BY <1>2, <2>1, <3>3, <3>4 DEF WillBeStored
  <2>2. CASE ~Written(a)
    <3>1. ~Written(a)' /\ Unwritten(a)' = Unwritten(a)
      BY <1>0, <1>2, <2>2, LastAppend DEF Written, Unwritten
    <3> QED BY <1>2, <2>2, <3>1 DEF WillBeStored
  <2> QED BY <2>1, <2>2
<1> QED BY <1>1, <1>2

LEMMA TakenIs ==
    ASSUME MoneyOK, TakeBatch, NEW a
    PROVE  WillBeStored(a)' = WillBeStored(a)
<1>1. batch = <<>> /\ batch' = queue /\ queue' = <<>> /\ stored' = stored
  BY DEF TakeBatch
<1>2. ~Written(a)' /\ (Unwritten(a)' <=> Written(a)) /\ (Unwritten(a) <=> Written(a))
  BY <1>1 DEF Written, Unwritten
<1>3. LastWrite(a, batch)' = LastWrite(a, queue)
  BY <1>1
<1> QED BY <1>1, <1>2, <1>3 DEF WillBeStored

LEMMA ExecutedIs ==
    ASSUME MoneyOK, Execute, NEW a \in Account
    PROVE  WillBeStored(a)' = WillBeStored(a)
<1>0. /\ batch \in Seq(Write) /\ batch # <<>> /\ batch' = Tail(batch) /\ batch' \in Seq(Write) /\ UNCHANGED queue
      /\ stored'[a] = IF Head(batch).acc = a THEN Head(batch).val ELSE stored[a]
  BY LastTail DEF MoneyOK, Execute
<1>1. Written(a)' = Written(a) /\ LastWrite(a, queue)' = LastWrite(a, queue)
  BY <1>0 DEF Written
<1>2. CASE Written(a)
  BY <1>1, <1>2 DEF WillBeStored
<1>3. CASE ~Written(a) /\ \E i \in 1..Len(batch') : batch'[i].acc = a
  <2>1. PICK i \in 1..Len(batch') : IsLast(a, batch', i)
    BY <1>0, <1>3, LastExists
  <2> DEFINE j == i + 1
  <2>2. batch'[i] = batch[j]
    BY <1>0
  <2>3. IsLast(a, batch, j)
    BY <1>0, <2>1, LastTail
  <2> HIDE DEF j
  <2>4. LastWrite(a, batch') = LastWrite(a, batch)
    BY <1>0, <2>1, <2>2, <2>3, SameLast
  <2>5. Unwritten(a) /\ Unwritten(a)'
    BY <1>3, <2>3 DEF Unwritten, IsLast
  <2> QED BY <1>1, <1>3, <2>4, <2>5 DEF WillBeStored
<1>4. CASE ~Written(a) /\ \A i \in 1..Len(batch') : batch'[i].acc # a
  <2>1. ~Written(a)' /\ ~Unwritten(a)'
    BY <1>1, <1>4 DEF Unwritten
  <2>2. CASE Head(batch).acc = a
    <3>0. \A i \in 1..Len(Tail(batch)) : Tail(batch)[i].acc # a
      BY <1>0, <1>4
    <3>1. IsLast(a, batch, 1)
      BY <1>0, <2>2, <3>0, LastTail
    <3>2. Unwritten(a) /\ LastWrite(a, batch) = Head(batch).val
      BY <1>0, <3>1, LastWriteIs DEF Unwritten, IsLast
    <3> QED BY <1>0, <1>4, <2>1, <2>2, <3>2 DEF WillBeStored
  <2>3. CASE Head(batch).acc # a
    <3>0. \A i \in 1..Len(Tail(batch)) : Tail(batch)[i].acc # a
      BY <1>0, <1>4
    <3>1. ~Unwritten(a)
      BY <1>0, <1>4, <2>3, <3>0, LastTail DEF Unwritten
    <3> QED BY <1>0, <1>4, <2>1, <2>3, <3>1 DEF WillBeStored
  <2> QED BY <2>2, <2>3
<1> QED BY <1>2, <1>3, <1>4

LEMMA AllExecutedIs ==
    ASSUME TypeInv, ExecuteAll, NEW a \in Account, a \notin raced'
    PROVE  WillBeStored(a)' = WillBeStored(a)
<1>1. queue' = <<>> /\ UNCHANGED batch /\ \A i \in 1..Len(batch) : batch[i].acc # a
  BY DEF ExecuteAll
<1>2. ~Written(a)' /\ ~Unwritten(a)' /\ (Unwritten(a) <=> Written(a))
  BY <1>1 DEF Written, Unwritten
<1>3. stored'[a] = IF Written(a) THEN LastWrite(a, queue) ELSE stored[a]
  BY ExecuteAllIs
<1> QED BY <1>2, <1>3 DEF WillBeStored

-----------------------------------------------------------------------------
(* Money                                                                   *)

\* Who begins to change money, goes on with it, or is done with it.
Changes == \E t \in Thread : (\E o \in Object : ChangeMoney(t, o)) \/ WriteMoney(t) \/ Update(t)

\* Nobody else is concerned by the other steps.
LEMMA SpendersStay ==
    ASSUME TypeInv, Next, ~Changes, NEW t \in Thread,
           job[t].pc \in {"write", "update"} \/ job'[t].pc \in {"write", "update"}
    PROVE  job'[t] = job[t]
<1> SUFFICES ASSUME job'[t] # job[t] PROVE FALSE
  OBVIOUS
<1>0. /\ JobsOK /\ Alone(t) /\ Moves(t) /\ online \cup seated \in SUBSET Object
      /\ \A o \in Object : ~ChangeMoney(t, o)
      /\ ~WriteMoney(t) /\ ~Update(t)
  BY JobSteps DEF Alone, TypeInv, MemoryOK, Changes
<1>1. CASE Begins(t)
  BY <1>0, <1>1 DEF Begins, Idle
<1>2. CASE Continues(t)
  <2>1. job'[t].pc \notin {"write", "update"}
    BY <1>0, <1>2 DEF Continues, GoesOn
  <2>2. ~Look(t) /\ ~Close(t) /\ ~Save(t) /\ ~Erase(t) /\ ~TryGet(t) /\ ~Load(t) /\ ~Store(t)
        /\ ~(t = "lobby" /\ Invalidate) /\ ~(t = "lobby" /\ Read)
    BY <2>1 DEF Look, Close, Save, Erase, TryGet, Load, Store, Invalidate, Read, At
  <2> QED BY <1>0, <1>2, <2>2 DEF Continues, IsThrough
<1>3. CASE Ends(t)
  <2>1. job'[t].pc = "start"
    BY <1>3 DEF Ends, Idle
  <2>2. ~Look(t) /\ ~Close(t) /\ ~Save(t) /\ ~CachePlayer(t) /\ ~TryGet(t) /\ ~Store(t)
        /\ ~(t = "lobby" /\ Publish)
    BY <2>1 DEF Look, Close, Save, CachePlayer, TryGet, Store, Publish, At
  <2> QED BY <1>0, <1>3, <2>2 DEF Ends, IsThrough
<1> QED BY <1>0, <1>1, <1>2, <1>3 DEF Moves

LEMMA RacedGrows == Next => raced \subseteq raced'
BY DEF Next, Step, Look, Close, Save, Erase, CachePlayer, TryGet, Load, Store, WriteMoney, Update, Invalidate, Read,
       Publish, Disconnect, Kick, Login, GetPlayer, Sit, Stand, ChangeMoney, TakeBatch, Execute, ExecuteAll

\* What keeps an account's money as it is.
LEMMA KeptSame ==
    ASSUME NEW a \in Account, Kept(a),
           \A t \in Thread : Spends(t, a) \/ Spends(t, a)' => job'[t] = job[t],
           newest'[a] = newest[a], made'[a] = made[a],
           newest[a] # None => purse'[newest[a]] = purse[newest[a]],
           made[a] \subseteq WillBeStored(a) => made[a] \subseteq WillBeStored(a)',
           newest[a] = None => \A t \in Thread : ~Spends(t, a)
    PROVE  Kept(a)'
<1>1. \A t \in Thread : Spends(t, a)' <=> Spends(t, a)
  BY DEF Spends
<1>2. made'[a] \subseteq WillBeStored(a)' \/ \E t \in Thread : Spends(t, a)' /\ job'[t].pc = "update"
  BY <1>1 DEF Kept
<1>3. ASSUME NEW t \in Thread, Spends(t, a)'
      PROVE  /\ job'[t].obj = newest'[a]
             /\ job'[t].pc = "write" => job'[t].seen = purse'[newest'[a]]
             /\ \A u \in Thread : Spends(u, a)' => u = t
  BY <1>1, <1>3 DEF Kept, Obj
<1> QED BY <1>2, <1>3 DEF Kept, Obj

LEMMA MoneyOfStep ==
    ASSUME TypeInv, NewInv, MoneyInv, Next, NEW a \in Account, a \notin raced'
    PROVE  Kept(a)'
<1>0. /\ JobsOK /\ MoneyOK /\ OwnObjects /\ HistoryOK /\ MemoryOK /\ "lobby" \in Thread
      /\ Kept(a) /\ a \notin raced
  BY RacedGrows DEF TypeInv, MoneyInv, Thread
<1>1. newest[a] = None => \A t \in Thread : ~Spends(t, a)
  BY <1>0, BusyIs, NullAssumption DEF Kept, Spends
<1>2. newest[a] # None => newest[a] \in Object /\ Acc(newest[a]) = a
  BY <1>0 DEF HistoryOK, OwnObjects, Owns
<1>3. ASSUME NEW t \in Thread, NEW o \in Object, ChangeMoney(t, o) PROVE Kept(a)'
  <2>1. /\ Alone(t) /\ job[t] = Idle
        /\ job'[t].pc = "write" /\ job'[t].acc = Acc(o) /\ job'[t].obj = o /\ job'[t].seen = purse[o]
    <3> DEFINE j == [Idle EXCEPT !.do = "change", !.pc = "write", !.acc = Acc(o), !.obj = o, !.seen = purse[o]]
    <3>1. j \in Job /\ j.pc = "write" /\ j.acc = Acc(o) /\ j.obj = o /\ j.seen = purse[o]
      BY <1>0, OwnerAssumption DEF Job, Idle, Doing, Pc, MoneyOK
    <3>2. Goes(t, j) /\ job[t] = Idle
      BY <1>3 DEF ChangeMoney, Free
    <3> HIDE DEF j
    <3> QED BY <1>0, <3>1, <3>2, GoesIs DEF JobsOK, Alone
  <2>2. UNCHANGED <<purse, stored, queue, batch, made, newest>>
    BY <1>3 DEF ChangeMoney, database, history
  <2>3. WillBeStored(a)' = WillBeStored(a)
    BY <2>2 DEF WillBeStored, Written, Unwritten
  <2>4. CASE Acc(o) # a
    <3>1. \A u \in Thread : Spends(u, a) \/ Spends(u, a)' => job'[u] = job[u]
      BY <2>1, <2>4 DEF Alone, Spends, Idle
    <3> QED BY <1>0, <1>1, <2>2, <2>3, <3>1, KeptSame
  <2>5. CASE Acc(o) = a
    <3>1. newest[a] = o /\ ~Changing(a)
      BY <1>3, <2>5 DEF ChangeMoney
    <3>2. \A u \in Thread : ~Spends(u, a)
      BY <3>1 DEF Changing, Spends
    <3>3. \A u \in Thread : Spends(u, a)' => u = t
      BY <2>1, <3>2 DEF Alone, Spends
    <3>4. made'[a] \subseteq WillBeStored(a)'
      BY <1>0, <2>2, <2>3, <3>2 DEF Kept
    <3>5. newest'[a] # None => made'[a] \subseteq purse'[newest'[a]]
      BY <1>0, <2>2 DEF Kept
    <3>6. ASSUME NEW u \in Thread, Spends(u, a)'
          PROVE  /\ job'[u].obj = newest'[a]
                 /\ job'[u].pc = "write" => job'[u].seen = purse'[newest'[a]]
                 /\ \A w \in Thread : Spends(w, a)' => w = u
      BY <2>1, <2>2, <3>1, <3>3, <3>6
    <3> QED BY <3>4, <3>5, <3>6 DEF Kept, Obj
  <2> QED BY <2>4, <2>5
<1>4. ASSUME NEW t \in Thread, WriteMoney(t) PROVE Kept(a)'
  <2>1. PICK c \in Change :
            /\ purse' = [purse EXCEPT ![Obj(t)] = job[t].seen \cup {c}]
            /\ made' = [made EXCEPT ![job[t].acc] = @ \cup {c}]
    BY <1>4 DEF WriteMoney
  <2>2. /\ job[t].pc = "write" /\ Obj(t) \in Object /\ Acc(Obj(t)) = job[t].acc /\ job[t].acc \in Account
        /\ Alone(t) /\ GoesOn(t, "update")
    BY <1>0, <1>4, BusyIs, ToIs DEF WriteMoney, At, JobsOK, Pc
  <2>3. UNCHANGED <<stored, queue, batch, newest>>
    BY <1>4 DEF WriteMoney, database, history
  <2>4. WillBeStored(a)' = WillBeStored(a)
    BY <2>3 DEF WillBeStored, Written, Unwritten
  <2>5. CASE job[t].acc # a
    <3>1. \A u \in Thread : Spends(u, a) \/ Spends(u, a)' => job'[u] = job[u]
      BY <2>2, <2>5 DEF Alone, GoesOn, Spends
    <3>2. made'[a] = made[a] /\ (newest[a] # None => purse'[newest[a]] = purse[newest[a]])
      BY <1>0, <1>2, <2>1, <2>2, <2>5 DEF MoneyOK
    <3> QED BY <1>0, <1>1, <2>3, <2>4, <3>1, <3>2, KeptSame
  <2>6. CASE job[t].acc = a
    <3>1. Spends(t, a) /\ Spends(t, a)'
      BY <2>2, <2>6 DEF Spends, GoesOn
    <3>2. Obj(t) = newest[a] /\ job[t].seen = purse[newest[a]] /\ \A u \in Thread : Spends(u, a) => u = t
      BY <1>0, <2>2, <3>1 DEF Kept
    <3>3. purse'[newest[a]] = purse[newest[a]] \cup {c} /\ made'[a] = made[a] \cup {c}
      BY <1>0, <2>1, <2>2, <2>6, <3>2 DEF MoneyOK
    <3>4. made'[a] \subseteq purse'[newest'[a]]
      BY <1>0, <2>2, <2>3, <3>2, <3>3, NullAssumption DEF Kept
    <3>5. \A u \in Thread : Spends(u, a)' => u = t
      BY <2>2, <3>2 DEF Alone, Spends
    <3>6. job'[t].obj = newest'[a] /\ job'[t].pc = "update"
      BY <2>2, <2>3, <3>2 DEF GoesOn, Obj
    <3> QED BY <3>1, <3>4, <3>5, <3>6 DEF Kept, Obj
  <2> QED BY <2>5, <2>6
<1>5. ASSUME NEW t \in Thread, Update(t) PROVE Kept(a)'
  <2> DEFINE e == [acc |-> job[t].acc, val |-> purse[Obj(t)]]
  <2>1. /\ job[t].pc = "update" /\ Obj(t) \in Object /\ job[t].acc \in Account
        /\ Alone(t) /\ job'[t] = Idle
    BY <1>0, <1>5, BusyIs, DoneIs DEF Update, At, JobsOK
  <2>2. /\ UNCHANGED <<purse, stored, batch, made, newest>>
        /\ queue' = Append(queue, e)
    BY <1>5 DEF Update, history
  <2>3. e \in Write /\ e.acc = job[t].acc /\ e.val = purse[Obj(t)]
    BY <1>0, <2>1 DEF Write, MoneyOK
  <2> HIDE DEF e
  <2>4. WillBeStored(a)' = IF job[t].acc = a THEN purse[Obj(t)] ELSE WillBeStored(a)
    BY <1>0, <2>2, <2>3, QueuedIs
  <2>5. CASE job[t].acc # a
    <3>1. \A u \in Thread : Spends(u, a) \/ Spends(u, a)' => job'[u] = job[u]
      BY <2>1, <2>5 DEF Alone, Spends, Idle
    <3> QED BY <1>0, <1>1, <2>2, <2>4, <2>5, <3>1, KeptSame
  <2>6. CASE job[t].acc = a
    <3>1. Spends(t, a)
      BY <2>1, <2>6 DEF Spends
    <3>2. Obj(t) = newest[a] /\ \A u \in Thread : Spends(u, a) => u = t
      BY <1>0, <3>1 DEF Kept
    <3>3. \A u \in Thread : ~Spends(u, a)'
      BY <2>1, <3>2 DEF Alone, Spends, Idle
    <3>4. made'[a] \subseteq purse'[newest'[a]] /\ made'[a] \subseteq WillBeStored(a)'
      BY <1>0, <2>1, <2>2, <2>4, <2>6, <3>2, NullAssumption DEF Kept
    <3> QED BY <3>3, <3>4 DEF Kept
  <2> QED BY <2>5, <2>6
<1>6. ASSUME ~Changes PROVE Kept(a)'
  <2>1. \A t \in Thread : Spends(t, a) \/ Spends(t, a)' => job'[t] = job[t]
    BY <1>6, SpendersStay DEF Spends
  <2>2. ASSUME UNCHANGED <<purse, made, newest>>, WillBeStored(a)' = WillBeStored(a) PROVE Kept(a)'
    BY <1>0, <1>1, <2>1, <2>2, KeptSame
  <2>3. ASSUME NEW t \in Thread, Save(t) PROVE Kept(a)'
    <3> DEFINE e == [acc |-> Acc(Obj(t)), val |-> purse[Obj(t)]]
    <3>1. Obj(t) \in Object /\ Acc(Obj(t)) \in Account
      BY <1>0, <2>3, BusyIs, OwnerAssumption DEF Save, At
    <3>2. /\ UNCHANGED <<purse, stored, batch, made, newest>>
          /\ queue' = Append(queue, e)
          /\ Acc(Obj(t)) = a => newest[a] = Obj(t)
      BY <2>3 DEF Save, history
    <3>3. e \in Write /\ e.acc = Acc(Obj(t)) /\ e.val = purse[Obj(t)]
      BY <1>0, <3>1 DEF Write, MoneyOK
    <3> HIDE DEF e
    <3>4. WillBeStored(a)' = IF Acc(Obj(t)) = a THEN purse[Obj(t)] ELSE WillBeStored(a)
      BY <1>0, <3>2, <3>3, QueuedIs
    <3>5. made[a] \subseteq WillBeStored(a) => made[a] \subseteq WillBeStored(a)'
      BY <1>0, <3>1, <3>2, <3>4, NullAssumption DEF Kept
    <3> QED BY <1>0, <1>1, <2>1, <3>2, <3>5, KeptSame
  <2>4. CASE Read
    <3> DEFINE n == job["lobby"].new
    <3>1. n \in Object /\ Acc(n) = job["lobby"].acc /\ job["lobby"].acc \in Account
      BY <1>0, <2>4, BusyIs DEF Read, At
    <3>2. /\ UNCHANGED <<stored, queue, batch, made>>
          /\ purse' = [purse EXCEPT ![n] = stored[Acc(n)]]
          /\ newest' = [newest EXCEPT ![Acc(n)] = n]
          /\ Acc(n) = a => ~Unwritten(a) /\ ~Changing(a)
      BY <2>4, <3>1 DEF Read, database
    <3>3. WillBeStored(a)' = WillBeStored(a)
      BY <3>2 DEF WillBeStored, Written, Unwritten
    <3> HIDE DEF n
    <3>4. CASE Acc(n) # a
      <4>1. newest'[a] = newest[a] /\ (newest[a] # None => purse'[newest[a]] = purse[newest[a]])
        BY <1>0, <1>2, <3>1, <3>2, <3>4 DEF MoneyOK, HistoryOK
      <4> QED BY <1>0, <1>1, <2>1, <3>2, <3>3, <4>1, KeptSame
    <3>5. CASE Acc(n) = a
      <4>1. \A t \in Thread : ~Spends(t, a) /\ ~Spends(t, a)'
        BY <2>1, <3>2, <3>5 DEF Changing, Spends
      <4>2. WillBeStored(a) = stored[a]
        BY <3>2, <3>5 DEF WillBeStored, Unwritten
      <4>3. made'[a] \subseteq WillBeStored(a)' /\ made'[a] \subseteq stored[a]
        BY <1>0, <3>2, <3>3, <4>1, <4>2 DEF Kept
      <4>4. newest'[a] = n /\ purse'[n] = stored[a]
        BY <1>0, <3>1, <3>2, <3>5 DEF MoneyOK, HistoryOK
      <4> QED BY <4>1, <4>3, <4>4 DEF Kept
    <3> QED BY <3>4, <3>5
  <2>5. ASSUME NEW t \in Thread, Load(t) PROVE Kept(a)'
    <3> DEFINE n == job[t].new
    <3>1. n \in Object /\ n # None
      BY <1>0, <2>5, BusyIs, NullAssumption DEF Load, At
    <3>2. /\ UNCHANGED <<stored, queue, batch, made>>
          /\ purse' = [purse EXCEPT ![n] = stored[job[t].acc]]
          /\ newest'[a] = IF newest[a] = n THEN None ELSE newest[a]
      BY <2>5 DEF Load, database
    <3>3. WillBeStored(a)' = WillBeStored(a)
      BY <3>2 DEF WillBeStored, Written, Unwritten
    <3>4. \A u \in Thread : Obj(u) # n
      BY <3>1 DEF NewInv, Known
    <3> HIDE DEF n
    <3>5. CASE newest[a] # n
      <4>1. newest'[a] = newest[a] /\ (newest[a] # None => purse'[newest[a]] = purse[newest[a]])
        BY <1>0, <1>2, <3>1, <3>2, <3>5 DEF MoneyOK
      <4> QED BY <1>0, <1>1, <2>1, <3>2, <3>3, <4>1, KeptSame
    <3>6. CASE newest[a] = n
      <4>1. \A u \in Thread : ~Spends(u, a) /\ ~Spends(u, a)'
        BY <1>0, <2>1, <3>4, <3>6 DEF Kept, Spends
      <4>2. newest'[a] = None /\ made'[a] \subseteq WillBeStored(a)'
        BY <1>0, <3>2, <3>3, <3>6, <4>1 DEF Kept
      <4> QED BY <4>1, <4>2 DEF Kept
    <3> QED BY <3>5, <3>6
  <2>6. CASE TakeBatch
    BY <1>0, <2>2, <2>6, TakenIs DEF TakeBatch, history
  <2>7. CASE Execute
    BY <1>0, <2>2, <2>7, ExecutedIs DEF Execute, history
  <2>8. CASE ExecuteAll
    BY <1>0, <2>2, <2>8, AllExecutedIs DEF ExecuteAll, history
  <2>9. CASE UNCHANGED <<purse, made, newest, queue, batch, stored>>
    <3>1. WillBeStored(a)' = WillBeStored(a)
      BY <2>9 DEF WillBeStored, Written, Unwritten
    <3> QED BY <2>2, <2>9, <3>1
  <2> QED BY <1>6, <2>3, <2>4, <2>5, <2>6, <2>7, <2>8, <2>9
          DEF Changes, Next, Step, Look, Close, Erase, CachePlayer, TryGet, Store, Invalidate, Publish, Disconnect,
              Kick, Login, GetPlayer, Sit, Stand, database, history
<1> QED BY <1>3, <1>4, <1>5, <1>6 DEF Changes

LEMMA MoneyInvStep == TypeInv /\ NewInv /\ MoneyInv /\ Next => MoneyInv'
<1> SUFFICES ASSUME TypeInv, NewInv, MoneyInv, Next, NEW a \in Account, a \notin raced' PROVE Kept(a)'
  BY DEF MoneyInv
<1> QED BY MoneyOfStep

-----------------------------------------------------------------------------
(* The theorems                                                            *)

LEMMA InitInv == Init => IInv
<1> SUFFICES ASSUME Init PROVE IInv
  OBVIOUS
<1>1. TypeInv
  BY InitTypes
<1>2. \A t \in Thread : job[t] = Idle
  BY DEF Init
<1>3. NewInv /\ LoginInv /\ ConnectedIsOnline /\ NamesAgree /\ ClosedInv /\ RemovalInv
  BY <1>2, NullAssumption DEF Init, NewInv, LoginInv, ConnectedIsOnline, NamesAgree, ClosedInv, RemovalInv, Removes, Idle, Does
<1>4. MoneyInv
  BY <1>2 DEF Init, MoneyInv, Kept, Spends, Idle
<1> QED BY <1>1, <1>3, <1>4 DEF IInv

LEMMA StutterInv == IInv /\ UNCHANGED vars => IInv'
<1> SUFFICES ASSUME IInv, UNCHANGED vars PROVE IInv'
  OBVIOUS
<1>0. UNCHANGED <<players, named, cached, closed, online, seated, purse, stored, queue, batch, job, made,
                  newest, moderated, crossed, raced>>
  BY DEF vars, memory, database, history
<1>1. TypeInv'
  BY <1>0 DEF IInv, TypeInv, MemoryOK, MoneyOK, HistoryOK, JobsOK, JobOK, OwnObjects, Owns, Does, Obj
<1>2. NewInv' /\ LoginInv' /\ RemovalInv' /\ ConnectedIsOnline' /\ NamesAgree'
  BY <1>0 DEF IInv, NewInv, Known, LoginInv, RemovalInv, Removes, ConnectedIsOnline, NamesAgree, Does, Obj
<1>3. ClosedInv'
  BY <1>0 DEF IInv, ClosedInv, Closer, Does, Obj
<1>4. MoneyInv'
  BY <1>0 DEF IInv, MoneyInv, Kept, Spends, Obj, WillBeStored, Written, Unwritten
<1> QED BY <1>1, <1>2, <1>3, <1>4 DEF IInv

LEMMA Invariant == Spec => []IInv
<1>1. IInv /\ Next => IInv'
  BY TypeStep, NewStep, LoginStep, RemovalStep, ClosedStep, ConnectedStep, NamesStep, MoneyInvStep DEF IInv
<1> QED BY <1>1, InitInv, StutterInv, PTL DEF Spec

\* Who is found by nickname is who is found by number, but for the nicknames that
\* removeClient does not find (Game::removeClient, getOnlinePlayer).
THEOREM NamesCorrect == Spec => []NamesAgree
<1>1. IInv => NamesAgree
  BY DEF IInv
<1> QED BY <1>1, Invariant, PTL

\* A connected player is online, unless his login crossed the removal of an older
\* object of his (createPlayer, removeClient).
THEOREM ConnectedCorrect == Spec => []ConnectedIsOnline
<1>1. IInv => ConnectedIsOnline
  BY DEF IInv
<1> QED BY <1>1, Invariant, PTL

\* Who is online is open, unless a moderator closed him or he is about to be
\* removed or replaced (Player::close and its callers).
THEOREM OpenCorrect == Spec => []OnlineIsOpen
<1>1. IInv => OnlineIsOpen
  BY DEF IInv, ClosedInv, Closer, OnlineIsOpen, Does
<1> QED BY <1>1, Invariant, PTL

\* No change of money is lost to the database, unless one of the races that the
\* history names was run (addDon, removeDon, close, createPlayer, :database).
THEOREM ChangesCorrect == Spec => []ChangesKept
<1>1. IInv => ChangesKept
  <2> SUFFICES ASSUME MoneyInv, NEW a \in Account \ raced, ~Changing(a)
               PROVE  made[a] \subseteq WillBeStored(a)
    BY DEF IInv, ChangesKept
  <2>1. \A t \in Thread : ~Spends(t, a)
    BY DEF Changing, Spends
  <2> QED BY <2>1 DEF MoneyInv, Kept
<1> QED BY <1>1, Invariant, PTL
=============================================================================
