------------------------------ MODULE Accounts ------------------------------
(***************************************************************************)
(* Player objects and the accounts they stand for: who is online, what is  *)
(* cached, and what of the money in memory reaches the database.           *)
(*                                                                         *)
(* Three threads use the objects.  The lobby's logs players in             *)
(* (Game::createPlayer), sells to them, and closes the object of one whose *)
(* lobby connection is lost; the square's closes the one whose square      *)
(* connection is lost, and executes the commands of moderators; the room   *)
(* server's pays those who play.  They do not read and write the database  *)
(* alike: rows are read at once, but written by the thread of              *)
(* DatabaseDispatcher, which takes a batch of the queue at a time.         *)
(*                                                                         *)
(* A purse is the set of the changes an amount of money has seen, so that  *)
(* a change that is lost shows.  Each thread handles one event at a time   *)
(* (its job), in steps that the other threads may come between.            *)
(***************************************************************************)
EXTENDS Naturals, Sequences, FiniteSets

CONSTANTS
    Account,      \* player ids
    Object,       \* Player objects
    Owner,        \* the account of each
    Capital,      \* the accounts whose nickname has a capital letter
    Change,       \* the changes of money, each made once
    QueueBound,   \* the longest queue of writes considered
    Requests,     \* whether players of whom nothing is in memory are looked up
    None

ASSUME OwnerAssumption == Owner \in [Object -> Account]
ASSUME CapitalAssumption == Capital \subseteq Account
ASSUME QueueAssumption == QueueBound \in Nat \ {0}
ASSUME RequestsAssumption == Requests \in BOOLEAN
ASSUME NullAssumption == None \notin Object

Thread == {"lobby", "square", "room"}

VARIABLES
    players,      \* Game::m_players
    named,        \* Game::m_playersByNickname
    cached,       \* PlayerCacheManager::m_playersById
    closed,       \* Player::m_isClosed
    online,       \* the objects with an open lobby connection
    seated,       \* the objects that game connections refer to
    purse,        \* Player::m_don
    stored,       \* the column of the database
    queue,        \* DatabaseDispatcher::m_queries
    batch,        \* the writes that DatabaseDispatcher::run has taken
    job,          \* what each thread is doing
    made,         \* history: the changes made to each account
    newest,       \* history: the object of the account's last login
    moderated,    \* history: objects that a moderator closed
    crossed,      \* history: accounts that logged in during a removeClient
    raced         \* history: accounts of which a change may be lost

memory == <<players, named, cached, closed, online, seated>>
database == <<stored, queue, batch>>
history == <<newest, moderated, crossed>>
vars == <<memory, purse, database, job, made, history, raced>>

Acc(o) == Owner[o]

Doing == {"nothing", "login", "disconnect", "kick", "ban", "lookup", "change"}
Pc == {"start", "look", "close", "save", "erase", "cache", "invalidate", "read", "publish",
       "try", "load", "store", "write", "update"}
Idle == [do |-> "nothing", pc |-> "start", acc |-> None, obj |-> None, new |-> None, seen |-> {}]
Init ==
    /\ players = [a \in Account |-> None]
    /\ named = [a \in Account |-> None]
    /\ cached = [a \in Account |-> None]
    /\ closed = {} /\ online = {} /\ seated = {}
    /\ purse = [o \in Object |-> {}]
    /\ stored = [a \in Account |-> {}]
    /\ queue = <<>> /\ batch = <<>>
    /\ job = [t \in Thread |-> Idle]
    /\ made = [a \in Account |-> {}]
    /\ newest = [a \in Account |-> None]
    /\ moderated = {} /\ crossed = {} /\ raced = {}

-----------------------------------------------------------------------------
(* Jobs                                                                    *)

At(t, pc) == job[t].pc = pc
Does(t, do) == job[t].do = do
Obj(t) == job[t].obj
Free(t) == job[t] = Idle

Goes(t, j) == job' = [job EXCEPT ![t] = j]
Starts(t, do, pc, a, o) ==
    /\ Free(t)
    /\ Goes(t, [Idle EXCEPT !.do = do, !.pc = pc, !.acc = a, !.obj = o])
To(t, pc) == Goes(t, [job[t] EXCEPT !.pc = pc])
Done(t) == Goes(t, Idle)

\* Game::m_playerMx, which createPlayer holds from end to end.
PlayersLocked(t) == \E u \in Thread \ {t} : Does(u, "login")

\* An object that nothing refers to: one that is yet to be made.
Fresh(o) ==
    /\ o \notin online \cup seated
    /\ \A a \in Account : o \notin {players[a], named[a], cached[a]}
    /\ \A t \in Thread : job[t].obj # o /\ job[t].new # o

Written(a) == \E i \in 1..Len(queue) : queue[i].acc = a
Unwritten(a) == Written(a) \/ \E i \in 1..Len(batch) : batch[i].acc = a

\* Somebody is between reading and saving money of the account.
Changing(a) == \E t \in Thread : job[t].pc \in {"write", "update", "save"} /\ job[t].acc = a

\* A thread that has found a player of the account open is about to remove him.
Removing(t, a) ==
    Does(t, "disconnect") /\ job[t].acc = a /\ job[t].pc \in {"close", "save", "erase"}

-----------------------------------------------------------------------------
(* Player::close                                                           *)

\* Where the caller of close goes on: createPlayer makes the new object,
\* the handlers of lost connections call removeClient, the commands are done.
AfterCloseForgotten(t) == IF Does(t, "login") THEN To(t, "invalidate") ELSE Done(t)
AfterClose(t) ==
    CASE Does(t, "login") -> To(t, "invalidate")
      [] Does(t, "disconnect") -> To(t, "erase")
      [] OTHER -> Done(t)

\* Game::onLobbyConnectionClosed and onSquareConnectionClosed.
LookUnchecked(t) ==
    /\ At(t, "look")
    /\ To(t, "close")
    /\ UNCHANGED <<memory, purse, database, made, history, raced>>
Look(t) ==
    /\ At(t, "look")
    /\ IF Obj(t) \in closed THEN Done(t) ELSE To(t, "close")
    /\ UNCHANGED <<memory, purse, database, made, history, raced>>

\* The critical section of Player::close.  The connections it closes find the
\* player closed.
Close(t) ==
    /\ At(t, "close")
    /\ IF Obj(t) \in closed
       THEN AfterClose(t) /\ UNCHANGED <<closed, online, moderated>>
       ELSE /\ closed' = closed \cup {Obj(t)}
            /\ online' = online \ {Obj(t)}
            /\ moderated' = IF job[t].do \in {"kick", "ban"} THEN moderated \cup {Obj(t)} ELSE moderated
            /\ To(t, "save")
    /\ UNCHANGED <<players, named, cached, seated, purse, database, made, newest, crossed, raced>>

\* Player::update: the whole row is queued.  It is outdated if the object is not
\* the one that the account uses.
Save(t) ==
    /\ At(t, "save")
    /\ Len(queue) < QueueBound
    /\ queue' = Append(queue, [acc |-> Acc(Obj(t)), val |-> purse[Obj(t)]])
    /\ AfterClose(t)
    /\ raced' = IF newest[Acc(Obj(t))] # Obj(t) THEN raced \cup {Acc(Obj(t))} ELSE raced
    /\ UNCHANGED <<memory, purse, stored, batch, made, history>>

\* Game::removeClient: whatever object the account has is erased, and its entry
\* by nickname, which is there in lower case and looked for as it is written...
Erase(t) ==
    /\ At(t, "erase")
    /\ ~PlayersLocked(t)
    /\ players' = [players EXCEPT ![Acc(Obj(t))] = None]
    /\ named' = [a \in Account |-> IF a = Acc(Obj(t)) /\ a \notin Capital THEN None ELSE named[a]]
    /\ To(t, "cache")
    /\ UNCHANGED <<cached, closed, online, seated, purse, database, made, history, raced>>

\* ...and the closed one is cached.
CachePlayer(t) ==
    /\ At(t, "cache")
    /\ cached' = [cached EXCEPT ![Acc(Obj(t))] = Obj(t)]
    /\ Done(t)
    /\ UNCHANGED <<players, named, closed, online, seated, purse, database, made, history, raced>>

\* A connection of o is lost, to the lobby or to the square.
Disconnect(t, o) ==
    /\ t \in {"lobby", "square"}
    /\ o \in online
    /\ Starts(t, "disconnect", "look", Acc(o), o)
    /\ UNCHANGED <<memory, purse, database, made, history, raced>>

\* :disconnect_id and :disconnect, the one by number and the other by nickname.
Kick(a) ==
    /\ ~PlayersLocked("square")
    /\ \E o \in {players[a], named[a]} \ {None} : Starts("square", "kick", "close", a, o)
    /\ UNCHANGED <<memory, purse, database, made, history, raced>>

-----------------------------------------------------------------------------
(* Game::createPlayer                                                      *)

Login(o) ==
    /\ Fresh(o)
    /\ Free("lobby")
    /\ LET old == players[Acc(o)]
       IN Goes("lobby", [do |-> "login", pc |-> IF old = None THEN "invalidate" ELSE "close",
                         acc |-> Acc(o), obj |-> old, new |-> o, seen |-> {}])
    /\ UNCHANGED <<memory, purse, database, made, history, raced>>

Invalidate ==
    /\ At("lobby", "invalidate")
    /\ cached' = [cached EXCEPT ![job["lobby"].acc] = None]
    /\ To("lobby", "read")
    /\ UNCHANGED <<players, named, closed, online, seated, purse, database, made, history, raced>>

\* Player::initialize: the row is read, whatever writes are still queued.
Read ==
    /\ At("lobby", "read")
    /\ LET a == job["lobby"].acc
           o == job["lobby"].new
       IN /\ purse' = [purse EXCEPT ![o] = stored[a]]
          /\ closed' = closed \ {o}
          /\ newest' = [newest EXCEPT ![a] = o]
          /\ moderated' = moderated \ {o}
          /\ raced' = IF Unwritten(a) \/ Changing(a) THEN raced \cup {a} ELSE raced
    /\ To("lobby", "publish")
    /\ UNCHANGED <<players, named, cached, online, seated, database, made, crossed>>

PublishById ==
    /\ At("lobby", "publish")
    /\ LET o == job["lobby"].new
       IN /\ players' = [players EXCEPT ![Acc(o)] = o]
          /\ online' = online \cup {o}
          /\ crossed' = IF \E t \in Thread : Removing(t, Acc(o)) THEN crossed \cup {Acc(o)} ELSE crossed
    /\ Done("lobby")
    /\ UNCHANGED <<named, cached, closed, seated, purse, database, made, newest, moderated, raced>>
Publish ==
    /\ At("lobby", "publish")
    /\ LET o == job["lobby"].new
       IN /\ players' = [players EXCEPT ![Acc(o)] = o]
          /\ named' = [named EXCEPT ![Acc(o)] = o]
          /\ online' = online \cup {o}
          /\ crossed' = IF \E t \in Thread : Removing(t, Acc(o)) THEN crossed \cup {Acc(o)} ELSE crossed
    /\ Done("lobby")
    /\ UNCHANGED <<cached, closed, seated, purse, database, made, newest, moderated, raced>>

-----------------------------------------------------------------------------
(* Game::getPlayer                                                         *)

\* What is done with the player found.
Found(t, o) ==
    IF Does(t, "ban")
    THEN Goes(t, [job[t] EXCEPT !.pc = "close", !.obj = o, !.new = None])
    ELSE Done(t)

\* For :ban, or to look at somebody who may be offline.
GetPlayer(t, do, a) ==
    /\ <<t, do>> \in {<<"lobby", "lookup">>, <<"square", "lookup">>, <<"square", "ban">>}
    /\ ~PlayersLocked(t)
    /\ Requests
    /\ LET o == IF do = "ban" THEN named[a] ELSE players[a]
       IN /\ Starts(t, do, IF o = None THEN "try" ELSE "close", a, o)
          /\ o # None => do = "ban"
    /\ UNCHANGED <<memory, purse, database, made, history, raced>>

TryGet(t) ==
    /\ At(t, "try")
    /\ IF cached[job[t].acc] # None
       THEN Found(t, cached[job[t].acc])
       ELSE \E o \in Object :
                /\ Acc(o) = job[t].acc /\ Fresh(o)
                /\ Goes(t, [job[t] EXCEPT !.pc = "load", !.new = o])
    /\ UNCHANGED <<memory, purse, database, made, history, raced>>

\* PlayerCacheManager::cache reads the row...
Load(t) ==
    /\ At(t, "load")
    /\ purse' = [purse EXCEPT ![job[t].new] = stored[job[t].acc]]
    /\ closed' = closed \ {job[t].new}
    /\ moderated' = moderated \ {job[t].new}
    /\ newest' = [a \in Account |-> IF newest[a] = job[t].new THEN None ELSE newest[a]]
    /\ To(t, "store")
    /\ UNCHANGED <<players, named, cached, online, seated, database, made, crossed, raced>>

\* ...and keeps the object.
Store(t) ==
    /\ At(t, "store")
    /\ cached' = [cached EXCEPT ![job[t].acc] = job[t].new]
    /\ Found(t, job[t].new)
    /\ UNCHANGED <<players, named, closed, online, seated, purse, database, made, history, raced>>

-----------------------------------------------------------------------------
(* Money                                                                   *)

\* RoomServer::createConnection.
Sit(a) ==
    /\ Free("room")
    /\ ~PlayersLocked("room")
    /\ players[a] # None
    /\ seated' = seated \cup {players[a]}
    /\ UNCHANGED <<players, named, cached, closed, online, purse, database, job, made, history, raced>>

\* The game connection is disposed of.
Stand(o) ==
    /\ Free("room")
    /\ seated' = seated \ {o}
    /\ o \in seated
    /\ UNCHANGED <<players, named, cached, closed, online, purse, database, job, made, history, raced>>

\* Player::addDon and removeDon, of a player who buys in the lobby or is paid
\* for a match: the amount is read...
ChangeMoney(t, o) ==
    /\ \/ t = "lobby" /\ o \in online
       \/ t = "room" /\ o \in seated
    /\ Free(t)
    /\ Cardinality(Change \ UNION {made[a] : a \in Account}) > Cardinality({u \in Thread : At(u, "write")})
    /\ Goes(t, [Idle EXCEPT !.do = "change", !.pc = "write", !.acc = Acc(o), !.obj = o, !.seen = purse[o]])
    /\ raced' = IF newest[Acc(o)] # o \/ Changing(Acc(o)) THEN raced \cup {Acc(o)} ELSE raced
    /\ UNCHANGED <<memory, purse, database, made, history>>

\* ...written...
WriteMoneyUnsaved(t) ==
    /\ At(t, "write")
    /\ \E c \in Change :
        /\ \A a \in Account : c \notin made[a]
        /\ purse' = [purse EXCEPT ![Obj(t)] = job[t].seen \cup {c}]
        /\ made' = [made EXCEPT ![job[t].acc] = @ \cup {c}]
    /\ Done(t)
    /\ UNCHANGED <<memory, database, history, raced>>

WriteMoney(t) ==
    /\ At(t, "write")
    /\ \E c \in Change :
        /\ \A a \in Account : c \notin made[a]
        /\ purse' = [purse EXCEPT ![Obj(t)] = job[t].seen \cup {c}]
        /\ made' = [made EXCEPT ![job[t].acc] = @ \cup {c}]
    /\ To(t, "update")
    /\ UNCHANGED <<memory, database, history, raced>>

\* ...and the row is queued.
Update(t) ==
    /\ At(t, "update")
    /\ Len(queue) < QueueBound
    /\ queue' = Append(queue, [acc |-> job[t].acc, val |-> purse[Obj(t)]])
    /\ Done(t)
    /\ UNCHANGED <<memory, purse, stored, batch, made, history, raced>>

-----------------------------------------------------------------------------
(* DatabaseDispatcher                                                      *)

TakeBatch ==
    /\ batch = <<>> /\ queue # <<>>
    /\ batch' = queue /\ queue' = <<>>
    /\ UNCHANGED <<memory, purse, stored, job, made, history, raced>>

Execute ==
    /\ batch # <<>>
    /\ stored' = [stored EXCEPT ![Head(batch).acc] = Head(batch).val]
    /\ batch' = Tail(batch)
    /\ UNCHANGED <<memory, purse, queue, job, made, history, raced>>

\* :database has the square's thread execute the queue, past a batch that is
\* still being executed.
ExecuteAll ==
    /\ Free("square")
    /\ queue # <<>>
    /\ LET last(a) == CHOOSE i \in 1..Len(queue) :
                          queue[i].acc = a /\ \A j \in i + 1..Len(queue) : queue[j].acc # a
       IN stored' = [a \in Account |-> IF Written(a) THEN queue[last(a)].val ELSE stored[a]]
    /\ queue' = <<>>
    /\ raced' = raced \cup {batch[i].acc : i \in 1..Len(batch)}
    /\ UNCHANGED <<memory, purse, batch, job, made, history>>

-----------------------------------------------------------------------------

Step(t) ==
    Look(t) \/ Close(t) \/ Save(t) \/ Erase(t) \/ CachePlayer(t) \/ TryGet(t)
    \/ Load(t) \/ Store(t) \/ WriteMoney(t) \/ Update(t)

Next ==
    \/ \E t \in Thread : Step(t)
    \/ Invalidate \/ Read \/ Publish
    \/ \E t \in Thread, o \in Object : Disconnect(t, o)
    \/ \E a \in Account : Kick(a)
    \/ \E o \in Object : Login(o)
    \/ \E t \in Thread, do \in {"lookup", "ban"}, a \in Account : GetPlayer(t, do, a)
    \/ \E a \in Account : Sit(a)
    \/ \E o \in Object : Stand(o)
    \/ \E t \in Thread, o \in Object : ChangeMoney(t, o)
    \/ TakeBatch \/ Execute \/ ExecuteAll

Spec == Init /\ [][Next]_vars

-----------------------------------------------------------------------------
(* Properties                                                              *)

\* A player who has a connection to the lobby is online under his account, unless
\* he logged in while the square's thread removed the object he had before.
ConnectedIsOnline ==
    \A o \in online : players[Acc(o)] = o \/ Acc(o) \in crossed

\* Who is online is not closed, except by a moderator, or while whoever closed
\* him goes on to remove him or replace him.
OnlineIsOpen ==
    \A a \in Account :
        players[a] \in closed =>
            \/ players[a] \in moderated
            \/ \E t \in Thread : Obj(t) = players[a] /\ job[t].do \in {"disconnect", "login"}

\* Who is found by nickname is who is found by number, except that one with a
\* capital letter in his nickname is still found by it when he is gone.
NamesAgree ==
    \A a \in Account : named[a] = players[a] \/ (a \in Capital /\ players[a] = None)

\* What the database holds once it has caught up.
LastWrite(a, writes) ==
    LET of == {i \in 1..Len(writes) : writes[i].acc = a}
    IN writes[CHOOSE i \in of : \A j \in of : j <= i].val
WillBeStored(a) ==
    IF Written(a) THEN LastWrite(a, queue)
    ELSE IF Unwritten(a) THEN LastWrite(a, batch)
    ELSE stored[a]

\* Every change of an account's money reaches the database, unless one of the
\* races below was run.
ChangesKept ==
    \A a \in Account \ raced : ~Changing(a) => made[a] \subseteq WillBeStored(a)
=============================================================================
