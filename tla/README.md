# QPang Essence: the game server in TLA+

This directory specifies the server of the third-person shooter QPang
("Essence" emulator, C++): what its threads, connections, rooms and matches do,
and what must hold of them whatever the order of events. The modules are
translated from the code under `src/src/`; paths below are relative to that
directory, and `qpang/` stands for `essence.game/qpang/`.

    RoomLifecycle        rooms, members and game connections
      RoomLifecycleProofs    its theorems
    Match                one room and the matches played in it
      MatchProofs            its theorems
    Settlement           what a match promises those who take part in it;
                         Match implements it
    Combat               deaths, the essence and the VIPs inside a match
      CombatProofs           its theorems
    Accounts             Player objects, the cache, money and deferred writes
      AccountsProofs         its theorems
    Friends              friends and requests: both sides, in memory and stored
      FriendsProofs          its theorems
    Friendship           what players may count on; Friends implements it
    Cards                cards, gifts and what is worn, in memory and stored
      CardsProofs            its theorems
    Ownership            what the owner of a card may count on; Cards implements it
    Squares              the squares, and who is in which
      SquaresProofs          its theorems
    Locks                the mutexes, and the order the threads take them in
    Transport            TNL's packets, acks and guaranteed events
      TransportProofs        its theorems

Each but Settlement, Friendship and Ownership, which the modules that implement
them instantiate, has a module MC*name* with its instance for TLC.

## 1. The system

### Processes and threads

The authentication server is a process of its own; it checks a password and
leaves a session uuid in the database. The game server has these threads:

| thread | runs | code |
|---|---|---|
| lobby | TCP server on 8005: login, inventory, shop, friends, crane | `essence.core/.../QpangServer.cpp`, `essence.game/packets/lobby` |
| square | TCP server on 8012: squares (the 3D chat rooms), chat, commands | `essence.game/packets/square` |
| room | `RoomServer::run`: all game connections (TNL over UDP), rooms and matches, with a tick each second | `qpang/room` |
| writer | `DatabaseDispatcher::run`: the deferred writes | `essence.core/core/database` |

Each of the first three handles its events one at a time, so interleavings
happen between the threads, and in the order in which the network delivers
events to one thread. TNL delivers an event of kind `GuaranteedOrdered` in
order, one of kind `Guaranteed` once but in any order (Transport shows how far): leaving a room
(`CGExit`) and everything about a match (`CGGameState`) are of the second kind,
joining a room (`CGRoom`) of the first.

### Components

| component | state | operations | hard because | correct when |
|---|---|---|---|---|
| **Room server** (`RoomServer`, `GameConnection`) | the registry account -> connection, the queue of accounts to dispose of | authenticate, terminate, dispose | the queue names accounts and the registry may change before it is worked off; a handler may disconnect its own connection and go on | no dead connection is forgotten; its member leaves |
| **Room list** (`RoomManager`) | number -> room, GAME_MAX_ROOMS | create, remove, find | rooms are removed by number, numbers are used again | the list offers live rooms under their own number, and loses none |
| **Room** (`Room`, `RoomPlayer`) | members, master, rules, teams, ready flags | create, join, leave, kick, close, ready, team, rules, start | a player may join twice or elsewhere without leaving; rules change between joins | there is a master exactly when there are members; teams stay even |
| **Match** (`RoomSession`, `RoomSessionPlayer`) | players, leavers, scores, clock | start, enter, leave, spectate, tick, finish | entry is asynchronous; leaving may end the match; a leaver may return | everyone is settled once; nobody else is |
| **Game modes** | essence, VIPs | tick, kill, mode applied | holders and VIPs die, leave and time out | somebody who plays carries the essence, or it comes back; VIPs play, in their team |
| **Combat** | health, ammunition, effects, entities | hit, tick, respawn | an effect may kill when its owner has gone, or while it is walked | the dead wait for their respawn |
| **Online players** (`Game`, `Player`, cache) | id -> Player, name -> Player, cache | login, duplicate login, kick, logout | the old object closes while the new one is built, on two threads | an account that is connected is online, as one object |
| **Persistence** | queue of writes, tables | dispatch, execute, select | selects do not wait for queued writes | a login reads what was last written |
| **Inventory, equipment, shop, crane** | cards, gifts, equipment, money | buy, use, gift, open, equip, expire | three threads change it under two mutexes | equipped cards are owned; a card has one owner; money is not lost |
| **Friends** | three lists on each side | request, accept, deny, remove | two sides changed one after the other | both sides agree |
| **Squares** | list of squares, their players | join, leave, list, close | the last player of two squares leaves on two threads | there is always a square; nobody is in a removed one |
| **Mutexes** | who holds which, how often | take, release, by hand | three threads take the same ones in different orders | no thread waits in a circle; none keeps a lock |
| **Transport** (TNL) | window, ack mask, queues of events, at both ends | post, send, receive, notify, ping | packets are lost, repeated and late; numbers on the wire are short | guaranteed events are processed once, the ordered ones in order |
| **Login attempts** | failures by IP | login | expiry against the limit | a limit that is reached holds for its cooldown |

Components call each other directly: a handler of the room thread reaches the
`Player` through its connection, `Player` points weakly at its `RoomPlayer` and
`SquarePlayer`, settlement calls inventory, statistics and persistence, a
duplicate login closes the old `Player` from the lobby's thread.

The hazards behind the last two columns are listed, with their lines, in
`PROJECT.json`.

## 2. What is modelled

### RoomLifecycle

One action per handler of the room thread (`Connect`, `CreateConnection`,
`CreateRoom`, `JoinRoom`, `LeaveRoom`, `KickPlayer`, `CloseRoom`,
`DisposeConnection`, ...), and two for the other threads (`CreatePlayer`,
`RemoveClient`). Objects are told apart from the numbers that name them,
because that is where this code can go wrong: a `Login` is a `Player` object,
several of which may belong to one account; a `Room` is a room object, a
`RoomId` the number it is listed under; a member is the connection of its
`RoomPlayer`. A weak pointer is modelled by what it points at and whether that
is still there (`InRoom`).

* A packet may carry several events. The handler of one may disconnect its own
  connection, and the rest of the packet is still delivered: `draining` is the
  connection for which this is so, and while it is, nothing else runs.
* The disposal loop of `RoomServer::tick` runs one turn per action, since the
  other threads may log players in and out between two turns (`disposing`).
* Two history variables name the exceptions to the properties: `closedIds`, the
  numbers that `:close` was executed on, and `strayed`, the players who entered a
  second room or authenticated a second connection before the first was disposed
  of. Neither influences any action.
* `MaxRooms` is GAME_MAX_ROOMS; `MaxPlayers` is the limit of a room, which Match
  varies.
* Not in the model: passwords and titles, event rooms, level limits (a refused
  password changes nothing; the refusals that disconnect are there), the second
  that passes between two ticks.
* `:close` is typed in the room here. Typed in the square, it runs on the
  square's thread with the same effect, and with the deadlock listed as a hazard.

### Match and Settlement

One room, with the `RoomPlayer` of each member (team, ready, playing,
spectating) and the `RoomSession` under way (players, their teams, who
spectates, leavers). Scores and the clock become the *phase* of the match:
`open`; `closing`, when `isAlmostFinished` says so; `due`, when the next tick
ends it. Only a death match can fall back from `closing` to `open`, when its
leader goes (`PhaseWithout`).

* `GAME_WAITING_PLAYERS` is in flight from the moment the client is told to load
  (`loading`) and may arrive at any time, in another match too. A client that was
  told twice before it answered is taken to answer once.
* `:spectate` runs on the square's thread: its checks and its effect are two
  actions (`SpectateRequested`, `SpectateApplied`).
* `Stray` stands for a member who entered another room or logged in again; what
  he sends no longer reaches this room, but he is in it until he is kicked.
  `Restless` names the players who do that, or join the room again.
* `Commander` names the game masters: `:force_start` and `:force_start_all` start a
  match as the master does (`Start`), `:finish` ends one. They are typed in the
  square; that `Room::start` and `RoomSession::finish` test a flag without a lock,
  while the room's thread may be doing the same, is not modelled.
* `leavers` counts entries, so that a player listed twice would be seen.
* `settlements` is a history variable: how often `RoomSessionPlayer::stop`
  settled each player in the match.
* When the room is empty `CreateRoom` may create the next one. The room that an
  unended match was forgotten with is not followed further.

`Settlement` is the abstract specification: players take part, depart, come back
or give up their part, and when the match ends all who took part are settled
once, at once. `SettlesOnce` states that Match implements it with the
refinement mapping `Taking` (in the session and not spectating: `in`; else with
an entry among the leavers: `left`).

`Abandon` is the one end of a match without settlement that the code has: a
death match in which only spectators remain, who then empty the room. Nobody is
told; those who had left it lose what they would have got.

### Squares

`SquareManager`'s list (`listed`), the players of each `Square` (`players`), the
weak pointer of a `Player` to his `SquarePlayer` (`at`), and two threads. The
square thread handles `JOIN_SQUARE` and lost square connections; the lobby
thread closes `Player` objects; `:disconnect` and `:ban` close one from the square's.
The list and each square have a mutex that is held for a single operation, so a
thread's work is a *job* whose steps are those operations:

| step | code |
|---|---|
| `Look` | `getSquarePlayer` in `JoinSquare`, `m_squarePlayer.lock` in `Player::close` |
| `Erase`, `Empty` | `Square::remove`: the entry of the account goes, then: is the square empty? |
| `Last`, `Delete` | `SquareManager::close`: is it the last? before the lock; the erasure by number, under it |
| `Leave` | `leaveSquare`, and the lookup of the square to join |
| `Find` | `getAvailableSquare`, with `create`, under the lock of the list |
| `Check`, `Insert`, `Enter` | `Square::add`: is it full? the entry; `Player::enterSquare` |

* A pointer to a `SquarePlayer` is good as long as a square lists it or a thread
  that leaves the square holds on to it (`SquareOf`).
* An account has one `Player` object after the other. `current` is the one that
  `Game::getPlayer` finds; `removeClient` is the matter of Accounts, and `Late` names
  the objects that a client connects to although they are closed already.
* `m_isClosed` of a square is never set by the server, and is left out; so are
  positions, chat, emotes and what the clients are told.
* `raced` and `contended` are history variables. They name the only ways in
  which a closed player stays behind in a square, and a square with players
  loses its place on the list, and the invariants say that these are all.

### Combat

The inside of one match of Protect The Essence or VIP. A player who comes back
gets a new `RoomSessionPlayer` in the place of the old one, so an object is told
apart from the player (`Of`, `Owner`); the old one is there (`used`) until the
last reference to it goes (`Vanish`), and what refers to it weakly then finds
nothing: the owner of an effect becomes `None`.

* `Tick` is the mode's tick, after which `TickPlayer` runs once for each player
  who has something to do, in the order of `m_players` (an unordered map: `Order`
  is one of its orders). The room server's thread does nothing else in between.
* A hit is taken or not, and what it takes off is left open: the model has the
  hits that kill (`Kill`, `Fall`) and those that leave an effect (`AddEffect`).
* CGHitEssence does not look at the mode, and may come late, in the next match: a
  player of VIP may hold an essence that nothing there takes away when he dies.
* CGGameState and CGHit are `Guaranteed`, CGHitEssence is `GuaranteedOrdered`: each
  action of a client needs only what its handler looks at, which may be an
  object that has left the match (`current`).
* The clocks of the essence and of the VIPs are ages: `EssenceAges`, `VipAges`.
* Whether a player spectates is taken as it was when he entered. A match may end
  at any time outside a tick (`TickEnds`); a kill that ends it comes to that.
* The history variables are `astray`, objects that took the essence after they
  had left, or were replaced by a return, and `forsaken`, players killed by nobody.

### Accounts

`Player` objects of accounts, the maps of `Game` by number and by nickname, the
cache, and what becomes of an account's money: a *purse* is the set of the changes
made to an amount, so that a lost change shows. The lobby's, the square's and
the room server's thread each handle one event at a time, in steps that others may
come between; `createPlayer` holds `m_playerMx` from end to end (`PlayersLocked`).

| steps | code |
|---|---|
| `Disconnect`, `Look`, `Close`, `Save`, `Erase`, `CachePlayer` | a lost connection: `onLobbyConnectionClosed`, `onSquareConnectionClosed`, `Player::close`, `removeClient` |
| `Kick`, `GetPlayer` with "ban" | the commands of a moderator |
| `Login`, `Close`, `Save`, `Invalidate`, `Read`, `Publish` | `createPlayer`, which closes the old object itself |
| `GetPlayer`, `TryGet`, `Load`, `Store` | `getPlayer` and the cache, for somebody offline |
| `ChangeMoney`, `WriteMoney`, `Update` | `addDon`, `removeDon`, `update` |
| `TakeBatch`, `Execute`, `ExecuteAll` | `DatabaseDispatcher::run` and `executeAll` |

`crossed`, `moderated` and `raced` are history variables that name the races in
which a login, a lookup or a change loses; the invariants say that there are no
others. A new login takes any object that nothing refers to.

### Friends and Friendship

Both sides of each relation in memory, one row for each side in the table, and
the writes that are queued. The handlers run one at a time on the lobby's
thread, each as one action that makes both sides' changes in the order of the
code; between them the writer executes a write (`Execute`), somebody logs in or
is looked up (`Load`), or the server stops (`Restart`), which loses what is
queued. `torn` names the pairs that were read before their rows were written,
or of which a row was deleted by `remove` while a request stayed.
A request to oneself passes when the nickname is typed in other letters than it is
written in (`Lettered`). What `:database` writes past a batch is left to Accounts.

`Friendship` is what the two may count on: one asks, the other accepts, whoever asked
or was asked takes the request back, either friend parts; and two may be torn apart.
`ByConsent` states that Friends implements it. Who asked whom (`Asked`) and who are
friends (`Befriended`) is read off the table that there will be when the queue is
worked off, **by either of the two rows**: a pair are friends if one row says so. A
handler that changed one side only, or in the wrong order, would show a friendship
or a request that Friendship does not know; a write, a login and a restart
must come to nothing, or to a tearing.

### Cards and Ownership

Who has which card as his own or as a gift, what he wears, the tables
`player_items` and `player_equipment`, and the queue. Some changes go to the table at
once (`Buy`, `UseCrane`, `Delete`), others through the queue (`GiftCard`,
`OpenGift`, `FinishRound`, `Close`); a row that `player_equipment` refers to can
not be deleted, and an update of it that refers to a deleted row is refused.
A number of a row is not used again. `reread` names cards read while a write
about them was queued, `strayed` those whose row did not follow.
`EquipmentManager::save` queues an update for each of a player's characters; the
model has one character, and so one write.
What a card is, how long it lasts, its price and who may wear it are left out;
the mutexes of the inventory are in Locks.

`Ownership` is what the owner of a card may count on: cards that are nobody's are sold,
an owner gives one to another, who opens it, or deletes one; and cards go astray, of
which nothing is promised any more. `HandedOn` states that Cards implements it,
an owner (`Owner`) being who the table says when the queue is worked off, and nobody for a
card astray. Though a handler changes memory, a row at once and a row later, each
of its steps is one change of hands, and the queue makes none.

### Locks

An operation is the sequence of mutexes it takes and releases, written down as a
sequence of steps (`Under(l, steps)` is a lock guard around steps); three threads
begin any of their operations whenever they have none. The locks of one player
stand for everybody's; a gift needs those of another (`theirs`). Recursive
mutexes may be taken again by their holder, the others may not. What the code locks
and unlocks by hand is written so, each way out an operation of its own: of
`RoomSession::removePlayer`, `leaveUnplayed` for who is not in the match,
`leaveSpectating`, `leaveRoom` and `leaveAndFinish`. The room
server's operations all run under `m_connMx`, which is why its many inversions
are harmless among themselves. Mutexes under which no other is taken (dispatcher,
cache, squares, equipment) cannot be part of a circle and are left out.

### Transport

Both ends of a connection, with TNL's notify protocol (`NetConnection`) and its
events (`EventConnection`) as they are in `src/dependencies/tnl`: the numbers
of packets, acks and events are cut to their bits on the wire and restored by
the receiver (`Unwrapped`); the ack mask is sent in units; each packet has a
note of what it carried until its fate is known (`notifyQueue`).

* The network is a set of packets. `Receive` leaves a packet there, so that it may
  come again; one that is never received is lost; one is dropped when it is more
  than `Delay` packets late, which the numbers on the wire rely on.
* The client is taken to run the same code. Its window is the fixed one (the
  room server sets no rates), and pings and acks are sent when the code may do so.
* `swallowed` are the guaranteed events of a packet that a ping or an ack with the
  same number has overtaken: the packet is then acknowledged and never read. The
  comment in `tnlNetEvent.h:52-60` promises that a guaranteed event always arrives.
* The handshake, encryption, strings, ghosts and unguaranteed events are left out.
  RoomLifecycle has the connections that are accepted and dropped.

## 3. The runs

| run | instance | shows |
|---|---|---|
| rooms | 2 accounts, 2 connections, 2 rooms on 1 number, fair server | MasterIsMember, ListedRoomsAreLive, MembersReachable, RoomsStayListed, DeadConnectionsQueued, DisposalLeavesRoom, DeadMembersLeave |
| match_rules | 2 players, DM, TDM and PTE, 2 or 4 places, one may spectate, rejoin or stray, start and end matches by command, fair clock and tick | SessionTeamIsRoomTeam, EveryoneHasATeam, TimedMatchEnds |
| match_settlement | 3 players, TDM, one may rejoin or stray | SessionWithinRoom, ListedForSettlementOnce, SettlesOnce, TeamsStayEven |
| match_late_entry | 2 players | NoLateEntry fails |
| combat | 2 against 1, PTE and VIP, one comes back while his effects on the other last (in VIP those of the yellow one's weapons), one may spectate, fair tick and clock | DeadRespawn, EssenceCarried, VipsPlay, EssenceReturns |
| accounts | 1 account, 2 Player objects, 1 change, 3 threads and the writer | ConnectedIsOnline, OnlineIsOpen, NamesAgree, ChangesKept |
| friends | 2 players, who may ask themselves too, 1 slot for requests each way | Mutual, WithinSlots, RowsFollow, RowsMutual, ByConsent |
| cards | 2 players with 2 places, 3 cards, one player wears them | WornHeld, RowsFollow, WithinSpace, HandedOn |
| squares | 2 accounts, one of which logs in twice, squares of 1 place, 2 numbers | SquareWithinCapacity, OneSquareEach, ClosedPlayersGone, PlayersInListedSquares |
| square_last | 2 accounts, a second square opened for the second player | LastSquareStays fails |
| locks | all operations of the three threads | KnownDeadlocks, NothingKept |
| transport | 3 ordered events one way, 1 unordered the other, a window of 4, packet numbers modulo 8, event numbers modulo 2 | TypeOK, ProcessedOnceInOrder, NothingLost |

Every property of a passing run is broken by a bug planted in a definition
(`PROJECT.json`, "mutants"); the mutated forms stand next to the definitions.

**Bounds.**
*RoomLifecycle*: its hazards need a number that is used again (two room objects on
one number), a second connection of an account and a second member to become
master or to be closed out; the instance has each. An account with two Player
objects is covered by the theorems, and in Accounts.
*Match*: a third player is needed for a match that goes on after a departure, for a
team of two and for a mode change with several to place; two are enough for the
rules and for late entry. A death match of three with two spectators and the
refinement is beyond the time of a run; match_rules has death matches and
spectators with two players. No counter needs a bound: `leavers` and
`settlements` are bounded by `ListedForSettlementOnce` and by each match
starting them anew.
*Combat*: somebody must come back while the team he left goes on, and the essence
and a VIP's place must pass to another: two players against one. One effect at a
time (`EffectBound`) is enough for the death it causes; two objects for the
player who comes back, one for each of the others. Who may be hit, whose VIP
grows old, whose effects kill, and whose events about the essence come, are limited by
mode to what these cases need (`Mortal`, `Aging`, `Harmful`, `Carrying`). An effect
outlives its owner's object only on somebody else, so in Protect The Essence the player
who comes back hurts another: `None` is then the owner of an effect, and the one who is
killed for nobody (`forsaken`) may be the holder of the essence. Late events about the
essence in a match of VIP (`Carrying`) are beyond the time of the run; the theorems have
them.
*Accounts*: the second object of the account is the one that replaces or is looked up
beside the first; its nickname has a capital letter. Two queued writes let one
overtake the other (`QueueBound`); a thread waits when the queue is full.
*Friends* and *Cards*: three writes wait at most, or two; one pair may be torn and one
card go astray (`TornBound`, `AstrayBound`), since what has gone wrong is out of the
properties' reach already. A request to oneself takes a slot from the other. Three cards
fill one inventory and leave one to be given; a gift never finds the gifts full
but with the rest.
*Squares*: a second `Player` object replaces the entry of the first; a square of one
place is filled while it is being joined; three `Square` objects to a number are
one on the list, one that a thread still holds and a new one.
*Transport*: the ratios of the numbers are kept, not their size (`Window` 4 for 32,
sequence numbers modulo 8 for 2048 and 1024, events modulo 2 for 128);
`WindowAssumption` says what the real ones must fulfil, and they do. Both
start at 6, so that the numbers of packets wrap around, and the third event has the
number of the first. At most two packets are under way (`NetBound`), none later
than three (`Delay`); the server sends three packets of data and the client one
(`MaxSend`). A packet has up to `Room` events. The mask is
cut (`Clamped`) only when an end has received more than a window of packets without
learning that its acks arrived; with two packets under way that is beyond the time of a
run, and `TypeOKCorrect` covers it.

**Symmetry** is used in runs of invariants and action properties only, never
with liveness, and only over players or objects that the instance does not tell
apart; where an action makes *some* unused object, or a CHOOSE takes one, the
objects are interchangeable. The models without a deadlock check can really stop:
members who strayed may hold every connection, or a closed room for ever; every
`Player` object of an instance of Squares may have stayed behind in a square; the
threads of Locks may wait for one another.

**Fairness.** `RoomServer::run` loops for ever: the rest of a packet is
delivered (weak fairness of `PacketDone`), and each turn of the loop ends with a
tick that runs the queued disposals; as packets may come again and again in
between, disposal is enabled infinitely often rather than continuously (strong
fairness of `DisposeConnection`). In Match the clock runs (`Progress`) and a
listed room is ticked every second (`MatchTick`); in Combat, too, the tick and the
time since the essence was dropped. Nothing is assumed of clients. Locks,
Accounts, Friends, Cards, Squares and Transport state no liveness: a `std::mutex`
promises no waiter his turn, threads that have no work left simply stop, and the
events of a connection are only as live as the network.

**Type invariants** are checked where they say something the other properties do
not, in Transport. Those of RoomLifecycle and Match (`TypeOK`), and of Accounts,
Friends, Cards, Squares and Combat (`TypeInv`, a part of the invariant of each) are
proved instead; Locks has none.

### Findings

* **Late entry** (`match_late_entry`). The README of the server promises that it
  "prevents players from joining late game and losing items". `CGReady` refuses
  a player when the match is almost over, but he enters only when his client has
  loaded, and `RoomSession::addPlayer` looks at nothing. The trace: the match
  starts, a second player gets ready in time, the match becomes almost finished,
  his client reports that it has loaded, and he is in.
* **The last square** (`square_last`). "We can't remove the last square" says
  `SquareManager::close`, and reads the number of squares before its lock. The
  last player of one square is closed on the lobby's thread while the last of the
  other leaves it: both see two squares, both erase theirs. The next player to
  enter finds none and makes one.

What the properties of the passing runs name as exceptions is what the code does,
too. The exceptions are part of the property, so that a further one would show:

* *Rooms*: members who joined a second room without leaving the first, and numbers
  that `:close` was executed on (`strayed`, `closedIds`).
* *Spectators*: `:spectate` insists that "the game must be in session" on the square's
  thread; the match may end on the room server's before the flags are set. The
  player is then ready, playing and spectating in a room without a match
  (`SpectateRequested`, `SpectateApplied`).
* *Combat*: a player who comes back without leaving replaces his object, and the
  old one keeps the essence or the place of VIP; a pick-up that is delivered after
  its sender has left gives him the essence; an effect whose owner is gone kills
  for nobody, and the dead stays dead. A spectator may become VIP when he spawns.
  A `Drop` that comes when the essence is back in its place leaves it where it is.
  A next VIP who dies and leaves keeps the search for another from starting.
* *Accounts*: a login while `removeClient` runs on the square's thread leaves the new
  object out of the players online; a kicked or banned player stays among them,
  closed; money changed on two threads at once, or while an old object or an older
  row is still to be written, is lost.
* *Friends*, *Cards*: whoever is read from the tables before the queue is worked off
  keeps what he read; the crane inserts rows that a full inventory refuses; a
  card is deleted in memory that the table keeps.
* *Locks*: six pairs of mutexes are taken in both orders (`Inversions`), among them a
  gift to oneself, which locks the same inventory twice.
* *Transport*: packets overtaken by a ping or an ack (`swallowed`). Once an ordered
  event is lost so, those after it wait for it; when the numbers come round, a
  later one is taken for it.

Some things were met while reading and are not in a module: loops that erase from
the container they walk (`PlayerEffectManager.cpp:35`, `RoomSession.cpp:292`,
`EquipmentManager.cpp:464`), undefined whenever they are reached; the results of a
death match, written inside a loop over winners that also counts the losers
(`RoomSession.cpp:263`); and `:finish`, which tests `m_isFinished` on the
square's thread and may settle a match that its room's tick is just settling.

## 4. What is proved

`RoomLifecycleProofs` proves, for every set of accounts, Player objects,
connections and rooms and every limit, and from the assumptions on the constants
only (`OwnerAssumption`, `LimitsAssumption`, `NullAssumption`):

| theorem | states |
|---|---|
| TypeCorrect | `Spec => []TypeOK` |
| MasterCorrect | `Spec => []MasterIsMember` |
| RoomListCorrect | `Spec => []ListedRoomsAreLive` |
| RoomsOnlyClosed | `Spec => []RoomsStayListed` |
| DisposalQueueCorrect | `Spec => []DeadConnectionsQueued` |
| MembersStayReachable | `Spec => []MembersReachable` |
| DisposalLeaves | `Spec => DisposalLeavesRoom` |

All follow from one inductive invariant, `IInv == TypeOK /\ RoomInv /\ ConnInv`.
`RoomInv` puts the three properties of rooms together: each needs the others,
since a room is taken off the list when it has no master and the number it is
taken off by is its own. `ConnInv` adds to the two properties of connections
what makes them inductive: a `Player` object that is online belongs to its
account (`OnlineOwned`), the connection in the registry or in a room is one
whose Player object belongs to that account (`ConnectionsOwned`), and an
authenticated connection that is alive without being in the registry belongs
to a player who strayed (`SpareConnectionsStray`). Lemmas say what `AddPlayer`
and `RemovePlayer` do to each half; `InductiveInvariant` has one step per action.

`MatchProofs` proves, for every set of players (and of those who may spectate or
stray), every choice of modes, goals and limits, from `LimitsAssumption` and
`ModesAssumption`, and for the sizes of teams a finite set of players
(`PlayersAssumption`):

| theorem | states |
|---|---|
| TypeCorrect | `Spec => []TypeOK` |
| SessionCorrect | `Spec => []SessionWithinRoom` |
| ListedOnceCorrect | `Spec => []ListedForSettlementOnce` |
| EveryoneHasATeamCorrect | `Spec => []EveryoneHasATeam` |
| SessionTeamCorrect | `Spec => []SessionTeamIsRoomTeam` |
| SettlesOnceCorrect | `Spec => SettlesOnce`, which is `Settlement!Spec` |
| TeamsStayEvenCorrect | `Spec => TeamsStayEven` |

The inductive invariant is `IInv == TypeInv /\ SessionInv /\ TeamInv`. `TypeInv`
adds to the types that a member spectates only while he plays: `unreadyAll`
clears the spectating flag of those who play only, and the end of a match leaves
no spectators because of it. `SessionInv` puts `SessionWithinRoom` and
`ListedForSettlementOnce` together: that nobody is on a list when a match starts
is what makes the lists right while it lasts. `TeamInv` rests on both: a team may
only change where the player is not in the session with his flags set. Lemmas
say what the end of a match, a departure and an entry do to each part.

The refinement maps a player to "in" when he is in the session and does not
spectate, to "left" when he is a leaver, to "out" otherwise. `StartMatch` is
`Begin`; an entry is `TakePart`, `GiveUp` (of one who turned spectator) or a
stutter; a departure is `Depart`, `End` when it leaves no opponents, or a
stutter; `MatchTick` and `EndedByKill` are `End`; a new room after one that
spectators emptied is `Abandon`; all other actions leave what Settlement sees
alone. That `End` settles once is `ListedForSettlementOnce` before the step.

`TeamsStayEven` needs no invariant but the types: no step but the creation of a room, a join, a
change of team and a change of mode adds anybody to a team, and each of these
looks at the cardinalities it changes. Lemmas bound a team by the room, and the
two teams together (`DisjointSizes`); `BalanceBalances` follows `balancePlayers`.

`SquaresProofs` proves, for every set of accounts, Player objects, squares and
numbers, and any capacity, from the assumptions of Squares:

| theorem | states |
|---|---|
| CapacityCorrect | `Spec => []SquareWithinCapacity` |
| OneSquareCorrect | `Spec => []OneSquareEach` |
| ClosedGoneCorrect | `Spec => []ClosedPlayersGone` |
| ListedCorrect | `Spec => []PlayersInListedSquares` |

The threads keep what they saw in their jobs, so the invariant says for each step
of a job what is still true of it. `CapacityInv`: between `Check` and `Insert`
nobody else inserts, since only the square's thread joins squares. `PlaceInv`: whoever
is listed by a square points at it, but between `Insert` and `Enter`; whoever
changes squares is in none from `Erase` to `Insert`. `ClosedInv`: a player about to be
somewhere is online or `raced`. `ListInv`: the square that a thread empties or fills
is on the list as long as the other thread has not dealt with one of its number.

`AccountsProofs` proves, for every set of accounts, objects and changes, from the
assumptions of Accounts:

| theorem | states |
|---|---|
| NamesCorrect | `Spec => []NamesAgree` |
| ConnectedCorrect | `Spec => []ConnectedIsOnline` |
| OpenCorrect | `Spec => []OnlineIsOpen` |
| ChangesCorrect | `Spec => []ChangesKept` |

Its invariant ties what a thread is about to do to the object that it holds.
`NewInv`: an object not published yet is known to one thread only. `LoginInv`: the
account whose player a login replaces still has that player, which is where
`m_playerMx` is needed from end to end. `RemovalInv`: who removes a player finds him
or nobody, but where a login crossed him. `ClosedInv`: a closed player who is still
found has somebody at work on him. `MoneyInv`: of an account that is not raced, the
newest object holds all changes, one thread at most changes it, and the last of
the writes for the account has them all or is still to be dispatched.

`FriendsProofs` proves, for every set of players, any slots and bounds:

| theorem | states |
|---|---|
| MutualCorrect | `Spec => []Mutual` |
| SlotsCorrect | `Spec => []WithinSlots` |
| RowsFollowCorrect | `Spec => []RowsFollow` |
| RowsMutualCorrect | `Spec => []RowsMutual` |
| ByConsentCorrect | `Spec => ByConsent`, which is `Friendship!Spec` |

All is said of the table that there will be (`WillHold`), since it is there when a
player is not in memory: the two sides agree in it (`TableInv`), memory is what it
says (`MemoryInv`), and requests keep to their slots in it (`SlotsInv`). That who
reads the table too early only tears the pairs that a queued write is about is
the lemma that the rest hangs on: a row no write is about is the same before and after
the queue.

For the refinement, `TableInv` lets either row stand for a pair, so that what is
asked and who are friends can be said of the table before and after a step from the
rows of the one pair that it changes (`PairBefore`, `PairAfter`; `OthersStay` for the
others). `SendRequest` is `Ask`, `Accept` is `Accept`, `Deny` and `Cancel` are `TakeBack`,
each a stutter for a torn pair; `Remove` is `Part`, a `Tear` when a mere request
stood, or a stutter; `Load` and `Restart` are `Tear`; `Execute` is a stutter. That the
request which is accepted is in the table to be, and the one that is sent is not, is
`MemoryInv`, before the step and after it.

`CombatProofs` proves, for every set of players and objects, any teams, and any
order in which the players are ticked, from the assumptions of Combat:

| theorem | states |
|---|---|
| DeadRespawnCorrect | `Spec => []DeadRespawn` |
| EssenceCarriedCorrect | `Spec => []EssenceCarried` |
| VipsPlayCorrect | `Spec => []VipsPlay` |

The properties become predicates of a match (`Waits`, `EssenceOK`, `VipsOK`), because
a handler goes through several matches on its way (a kill drops the essence, takes
the VIP's place, respawns); lemmas follow them through each operator. `UsedInv` says
that nothing is remembered of an object that is gone, `TickInv` that the
players who are still to be ticked are in the match.

`CardsProofs` proves, for every set of players, every finite set of cards and any
places and bounds, from the assumptions of Cards (`CardAssumption`: the numbers of
rows have a width):

| theorem | states |
|---|---|
| WornHeldCorrect | `Spec => []WornHeld` |
| RowsFollowCorrect | `Spec => []RowsFollow` |
| WithinSpaceCorrect | `Spec => []WithinSpace` |
| HandedOnCorrect | `Spec => HandedOn`, which is `Ownership!Spec` |

As in Friends, memory is what the table will hold (`MemoryInv`) and inventories keep
to their places in the table (`SpaceInv`), also of those who are not in memory.
`WornHeld` is not inductive: whoever is read wears what `player_equipment` says
while a gift may be on its way. `SavedInv` follows the queue: what the row
of a player says now, or any queued save of his will make it say, is his at each
later stage of the table, or has no row any more, or a later save takes it off. A gift
keeps this because who makes it is saved after it.

In the refinement `Buy` and `UseCrane` are `Sell`, with what a full inventory refuses
among the cards that go astray; `GiftCard` is `Give` and `OpenGift` is `Open`, of a card
whose owner memory knows rightly (`MemoryInv`), or of one astray, a stutter; `Delete` is
`Delete`, or `GoAstray` when the row refuses; `Load` and `Restart` are `GoAstray` of what
was queued, and `Execute` of a refused save, which else is a stutter; and so are `Wear` and
what saves it (`SaveHandsNothingOn`).

`TransportProofs` proves, for any windows, any delay, any room in a packet and any
numbers of events, from `EndAssumption`, `WindowAssumption` and `PostsAssumption`:

| theorem | states |
|---|---|
| DirectionsCorrect | `Spec => []IInv` |
| TypeOKCorrect | `Spec => []TypeOK` |
| ProcessedOnceInOrderCorrect | `Spec => []ProcessedOnceInOrder` |
| NothingLostCorrect | `Spec => []NothingLost` |

The invariant looks at what goes each way by itself (`Direction`), and says of the
sender, the receiver and the packets under way:

* `Sender`: an event that is not acknowledged is in one place only, the queue, the
  note of one packet or the list of those acknowledged early, and the numbers in
  the notes are within `EventWindow` of the last acknowledged one.
* `KnownInv`: of each note, the bit of the receiver's ack mask tells the truth. If
  it is set, the packet's events were read or swallowed (`Told`); if it is not,
  none of them was and none will be (`Missed`), so that sending them again does
  not make the receiver process one twice.
* `HeaderOf`: the same holds of the mask in every header that is under way,
  although it was written earlier: the bits only move with the numbers, and what
  was read since then has higher ones. `PacketOf`: what is in a packet is what the
  note says.
* `NumbersInv`: the numbers of packets that the ends know of each other are less
  than `Window` apart, and a packet is less than `Delay` behind. Hence
  `Window + Delay <= SeqMod` and `AckMod`, and `EventWindow <= EventMod`, which is what
  `SeqIs`, `AckIs` and `RestoresIs` need: the bits on the wire are then taken for the
  number they were cut from, or for one that is too new to be accepted.
* `ReceiverInv`: what was processed is `0, 1, ...` up to `nextRecvEvent`.

The `Delay` is an assumption on the network that the code does not check. An ordered
event that was swallowed stays missing, and the sender goes on: once it is a whole
`EventMod` ahead, the receiver takes a number for an earlier one. `Healthy` says that
the receiver has not come to a swallowed event yet. Which ordered events it has is
claimed up to there only; that it processes their numbers in order, and no unordered
event twice, always.

`NotifyStep` has what one notify does, `NotifiedIs` all those of a header, by
induction along them; `SentSide`, `SideKept` and `HeardSide` are a direction when a
packet is sent, when its receiver reads one, and when its sender hears of it.

An induction along a queue, a list or the notifies of a header is done with
well-founded induction on sets of numbers (`NaturalSets`), which needs no operator
as parameter; recursive functions (`WillHold`, `AllInOrder`, `Notified`) are thus
within reach.

Three liveness properties, `DeadMembersLeave`, `TimedMatchEnds` and `EssenceReturns`,
stay with TLC, as liveness and ENABLED are out of the prover's reach. `KnownDeadlocks`
and `NothingKept` of Locks stay with it as well: the only constant of Locks is the
set of the operations that may be run, the run has them all, and every behaviour of
fewer is one of these. All other properties of the passing runs are proved.
`PROJECT.json` lists each theorem with the property it states. No module declares a
RECURSIVE operator.

## 5. Plan

1. **Match**: `:unlimited`, and the race of a command with the room's thread.
2. **Results**: who wins, loses and draws, over the players and leavers that
   Settlement hands over.

### Not modelled

* *Authentication server*: one handler on one thread counts failed logins by
  address; its password hash is a library's.
* *Items of a match*: they heal or refill, and nothing else depends on them.
* *Lobby and square connections*, *encryption*, *libtomcrypt*: packet framing and
  third-party code; the callbacks appear as actions of the modules.
* *Statistics, levels, achievements*: sums over the counters of a match, whose
  interesting property, to be applied once, is Settlement's.
* *Static data* (weapons, spawns, channels, shop list, leaderboard): loaded and read.
* *Skills and PvE*: the server does not implement them.
