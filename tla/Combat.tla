------------------------------- MODULE Combat -------------------------------
(***************************************************************************)
(* What goes on inside a match of Protect The Essence or VIP: hits, traps, *)
(* effects that go on hurting, deaths and respawns, the essence, and the   *)
(* VIPs of the two teams, while players leave the match and come back.     *)
(*                                                                         *)
(* A player who comes back gets a new RoomSessionPlayer.  The old one goes *)
(* when nothing refers to it any more; the pointers of a RoomPlayer and of *)
(* an effect are weak, the others keep it.                                 *)
(*                                                                         *)
(* The room server's thread does one thing at a time.  Health is some or   *)
(* none, a clock is what the code asks of it, and a player who may not be  *)
(* hit for a while (isInvincible) is not told from one who was missed.     *)
(***************************************************************************)
EXTENDS Naturals, Sequences, FiniteSets

CONSTANTS
    Player,
    Order,           \* the players, in the order of m_players
    Of,              \* the RoomSessionPlayers of each, used again when they are gone
    None,            \* no object, and the owner of an effect who is gone
    Mode,            \* of "PTE" and "VIP"
    TeamOf,          \* the team each player chose: 1 blue, 2 yellow
    Restless,        \* those whose GAME_WAITING_PLAYERS may come twice
    Watching,        \* those who may spectate
    Harmful,         \* those whose weapons leave effects, by mode
    Mortal,          \* and those who may be hit
    Carrying,        \* those whose events about the essence come, by mode
    Aging,           \* the teams whose VIP may grow old
    EffectBound      \* the most effects considered at a time

Team == {1, 2}
Obj == UNION {Of[p] : p \in Player}

ASSUME PlayerAssumption ==
    /\ TeamOf \in [Player -> Team] /\ Aging \subseteq Team
    /\ Restless \cup Watching \subseteq Player
    /\ Harmful \in [Mode -> SUBSET Player] /\ Mortal \in [Mode -> SUBSET Player]
    /\ Carrying \in [Mode -> SUBSET Player]
    /\ Order \in Seq(Player) /\ Player \subseteq {Order[i] : i \in 1..Len(Order)}
ASSUME ObjectAssumption ==
    /\ None \notin Obj
    /\ \A p, q \in Player : p # q => Of[p] \cap Of[q] = {}
ASSUME ModeAssumption == Mode \subseteq {"PTE", "VIP"}

VARIABLES
    mode,            \* RoomSession::m_gameMode
    match,           \* the RoomSession, and what its players are in it
    used,            \* the objects that are there
    spectating,      \* RoomSessionPlayer::m_isSpectating
    current,         \* RoomPlayer::m_roomSessionPlayer, by player
    toTick,          \* those whose tick is still to come in the tick under way
    astray           \* history: objects that took the essence when they had left,
                     \* or were replaced in the match by that of a return

vars == <<mode, match, used, spectating, current, toTick, astray>>

NewMatch ==
    [players |-> [p \in Player |-> None],           \* m_players
     leavers |-> {},
     started |-> {},                                 \* m_isPlaying
     dead |-> {}, respawning |-> {},
     effects |-> [o \in Obj |-> {}],                 \* the owners of those on o
     forsaken |-> {},                                \* history: killed by nobody
     holder |-> None, isReset |-> TRUE, dropAge |-> "none",
     away |-> FALSE,                                 \* m_essencePosition is not its spawn
     vip |-> [t \in Team |-> None], next |-> [t \in Team |-> None],
     vipAge |-> [t \in Team |-> "none"]]             \* "none", "new", "over 50", "over 100"

Init ==
    /\ mode \in Mode
    /\ match = NewMatch
    /\ used = {}
    /\ spectating = {}
    /\ current = [p \in Player |-> None]
    /\ toTick = {}
    /\ astray = {}

Owner(o) == CHOOSE p \in Player : o \in Of[p]
InMatch(m) == {m.players[p] : p \in Player} \ {None}
Referred(m) ==
    (InMatch(m) \cup m.leavers \cup {m.holder}
        \cup {m.vip[t] : t \in Team} \cup {m.next[t] : t \in Team}) \ {None}

\* RoomSession::finish and Room::finish: every reference is given up.
Finish ==
    /\ mode' \in Mode
    /\ match' = NewMatch
    /\ used' = {}
    /\ spectating' = {}
    /\ current' = [p \in Player |-> None]
    /\ astray' = {}

Continue(m) ==
    /\ match' = m
    /\ UNCHANGED <<mode, used, spectating, current>>

\* The thread is in no tick.
Idle == toTick = {} /\ toTick' = {}

-----------------------------------------------------------------------------
(* The essence and the VIPs                                                *)

SetEssenceHolderUndated(m, o) == [m EXCEPT !.holder = o, !.isReset = FALSE]
SetEssenceHolder(m, o) ==
    IF o = None THEN [m EXCEPT !.holder = None, !.dropAge = "new"]
    ELSE [m EXCEPT !.holder = o, !.dropAge = "none", !.isReset = FALSE]

ResetEssence(m) == [m EXCEPT !.isReset = TRUE, !.away = FALSE]

SetVip(m, t, o) ==
    [m EXCEPT !.vip[t] = o, !.next[t] = None,
              !.vipAge[t] = IF o = None THEN "none" ELSE "new"]

\* Who may be the next VIP of a team: its dead but for the VIP.
FindEligibleVip(m, t) ==
    {o \in InMatch(m) \ spectating :
        TeamOf[Owner(o)] = t /\ o \in m.dead /\ \A u \in Team : o # m.vip[u]}

\* RoomSession::spawnPlayer.  Whether someone becomes the VIP is decided when he
\* respawns; it is not asked whether he spectates.
BecomesVip(m, o, t) ==
    \/ m.vip[t] = None /\ TeamOf[Owner(o)] = t
    \/ o = m.next[t] /\ (m.vipAge[t] = "over 100" \/ m.vip[t] \in m.dead)
SpawnPlayer(m, o) ==
    LET alive == [m EXCEPT !.dead = @ \ {o}]
    IN IF mode # "VIP" THEN alive
       ELSE IF BecomesVip(alive, o, 1) THEN SetVip(alive, 1, o)
       ELSE IF BecomesVip(alive, o, 2) THEN SetVip(alive, 2, o)
       ELSE alive

\* onPlayerKill of the modes and GameMode::onPlayerKill, but for the scores.
OnPlayerKillKeepsEssence(m, o) ==
    [m EXCEPT !.effects[o] = {}, !.respawning = @ \cup {o}]
OnPlayerKill(m, o) ==
    LET dropped == IF mode = "PTE" /\ o = m.holder THEN SetEssenceHolder(m, None) ELSE m
    IN [dropped EXCEPT !.effects[o] = {}, !.respawning = @ \cup {o}]

-----------------------------------------------------------------------------
(* Coming and going                                                        *)

\* RoomSession::addPlayer: CGGameState GAME_WAITING_PLAYERS.
AddPlayer(p, spectates) ==
    /\ Idle
    /\ match.players[p] # None => p \in Restless
    /\ Of[p] \ used # {}
    /\ spectates => p \in Watching
    /\ LET o == CHOOSE x \in Of[p] : x \notin used
           left == match.leavers \cap Of[p]
       IN /\ match' = [match EXCEPT
                !.players[p] = o,
                !.leavers = IF spectates THEN @ ELSE @ \ left]
          /\ used' = used \cup {o}
          /\ spectating' = IF spectates THEN spectating \cup {o} ELSE spectating
          /\ current' = [current EXCEPT ![p] = o]
          /\ astray' = astray \cup ({match.players[p]} \ {None})
    /\ UNCHANGED mode

\* RoomSession::removePlayer.
LeftKeepsRoles(m, p) ==
    LET o == m.players[p]
    IN [m EXCEPT !.players[p] = None, !.leavers = IF o \in spectating THEN @ ELSE @ \cup {o}]
Left(m, p) ==
    LET o == m.players[p]
        dropped == IF o = m.holder THEN SetEssenceHolder(m, None) ELSE m
        resigned == IF o = m.vip[1] THEN SetVip(dropped, 1, None)
                    ELSE IF o = m.vip[2] THEN SetVip(dropped, 2, None) ELSE dropped
    IN [resigned EXCEPT !.players[p] = None,
                        !.leavers = IF o \in spectating THEN @ ELSE @ \cup {o}]
RemovePlayer(p) ==
    /\ Idle
    /\ match.players[p] # None
    /\ LET m == Left(match, p)
           left(t) == {o \in InMatch(m) \ spectating : TeamOf[Owner(o)] = t}
       IN IF match.players[p] \notin spectating /\ \E t \in Team : left(t) = {}
          THEN Finish
          ELSE Continue(m) /\ UNCHANGED astray

\* The last reference to an object, that of an event which waits to be delivered
\* maybe, goes: what refers to it weakly finds nothing.
Vanish(o) ==
    /\ Idle
    /\ o \in used \ Referred(match)
    /\ used' = used \ {o}
    /\ spectating' = spectating \ {o}
    /\ current' = [p \in Player |-> IF current[p] = o THEN None ELSE current[p]]
    /\ astray' = astray \ {o}
    /\ match' = [match EXCEPT
            !.started = @ \ {o}, !.dead = @ \ {o}, !.respawning = @ \ {o},
            !.forsaken = @ \ {o},
            !.effects = [x \in Obj |->
                IF x = o THEN {}
                ELSE {IF y = o THEN None ELSE y : y \in match.effects[x]}]]
    /\ UNCHANGED mode

-----------------------------------------------------------------------------
(* What the clients send.  An event may reach the server when its sender   *)
(* has left: CGGameState and CGHit are Guaranteed, CGHitEssence is         *)
(* GuaranteedOrdered, so that each may overtake the others.                *)

Sends(p) == current[p] # None /\ current[p] \notin spectating

\* CGHit: of another player, who must be in the match, or of oneself.
Target(p, q) == IF p = q THEN current[p] ELSE match.players[q]
Hit(p) == {Target(p, q) : q \in Mortal[mode]} \ (match.dead \cup {None})

\* The weapon kills; one who is dead himself still does so with a bomb.
Kill(o) ==
    /\ Idle
    /\ \E p \in Player : Sends(p) /\ o \in Hit(p)
    /\ Continue(OnPlayerKill([match EXCEPT !.dead = @ \cup {o}], o))
    /\ UNCHANGED astray

\* The weapon leaves an effect, also on the player's own team.
AddEffect(p, o) ==
    /\ Idle /\ Sends(p) /\ p \in Harmful[mode]
    /\ o \in Hit(p)
    /\ Cardinality(UNION {{x} \X match.effects[x] : x \in Obj}) < EffectBound
    /\ Continue([match EXCEPT !.effects[o] = @ \cup {current[p]}])
    /\ UNCHANGED astray

\* The trap that is a fall kills whoever is alive; the essence of its holder goes
\* back to its place.
Fall(o) ==
    /\ Idle
    /\ \E p \in Player : Sends(p) /\ current[p] \notin match.dead /\ o \in Hit(p)
    /\ LET m == IF o = match.holder THEN ResetEssence(match) ELSE match
       IN Continue(OnPlayerKill([m EXCEPT !.dead = @ \cup {o}], o))
    /\ UNCHANGED astray

\* CGHitEssence, in whatever mode: it may come late, when the next match has begun.
PickUp(p) ==
    /\ Idle /\ Sends(p) /\ p \in Carrying[mode]
    /\ match.holder = None
    /\ current[p] \notin match.dead
    /\ Continue(SetEssenceHolder(match, current[p]))
    /\ astray' = IF current[p] \in InMatch(match) THEN astray ELSE astray \cup {current[p]}

Drop(p) ==
    /\ Idle /\ Sends(p) /\ p \in Carrying[mode]
    /\ match.holder = None
    /\ Continue([match EXCEPT !.away = TRUE])
    /\ UNCHANGED astray

Throw(p) ==
    /\ Idle /\ Sends(p) /\ p \in Carrying[mode]
    /\ match.holder # None /\ Owner(match.holder) = p
    /\ Continue(SetEssenceHolder(match, None))
    /\ UNCHANGED astray

-----------------------------------------------------------------------------
(* Time                                                                    *)

\* The time since the essence was dropped exceeds 20 s, and that since a VIP was
\* set 50 s or 100 s.
EssenceAges ==
    /\ match.dropAge = "new"
    /\ Continue([match EXCEPT !.dropAge = "over 20"])
    /\ UNCHANGED <<toTick, astray>>
VipAges(t) ==
    /\ t \in Aging /\ match.vipAge[t] \in {"new", "over 50"}
    /\ Continue([match EXCEPT !.vipAge[t] = IF @ = "new" THEN "over 50" ELSE "over 100"])
    /\ UNCHANGED <<toTick, astray>>

\* ProtectTheEssence::tick, but for the points.
TickOfEssence(m) ==
    IF ~m.isReset /\ m.holder = None /\ m.dropAge = "over 20" THEN ResetEssence(m) ELSE m

\* Vip::tick: unless the one found before still waits, another is found.
Looks(m, t) ==
    /\ m.vipAge[t] \in {"over 50", "over 100"}
    /\ ~(m.next[t] # None /\ m.next[t] \in m.dead)
Found(m, t) ==
    IF ~Looks(m, t) THEN {m.next[t]}
    ELSE IF FindEligibleVip(m, t) = {} THEN {None} ELSE FindEligibleVip(m, t)
TicksOfVip(m) ==
    {[m EXCEPT !.next = [t \in Team |-> IF t = 1 THEN blue ELSE yellow]] :
        blue \in Found(m, 1), yellow \in Found(m, 2)}

\* RoomSessionPlayer::tick, in its order: the player starts when the wait is over...
Starts(m, o) ==
    IF o \in m.started THEN {m} ELSE {m, SpawnPlayer([m EXCEPT !.started = @ \cup {o}], o)}

\* ...an effect ends, or kills: for its owner if he is still there, else for nobody...
HurtUnowned(m, o) ==
    {m} \cup IF o \notin m.started \/ o \in m.dead THEN {}
             ELSE {[m EXCEPT !.effects[o] = @ \ {e}] : e \in m.effects[o]}
                  \cup {[m EXCEPT !.dead = @ \cup {o}] : e \in m.effects[o]}
Hurt(m, o) ==
    {m} \cup IF o \notin m.started \/ o \in m.dead THEN {}
             ELSE {[m EXCEPT !.effects[o] = @ \ {e}] : e \in m.effects[o]}
                  \cup {OnPlayerKill([m EXCEPT !.dead = @ \cup {o}], o) :
                            e \in m.effects[o] \ {None}}
                  \cup {[m EXCEPT !.dead = @ \cup {o}, !.forsaken = @ \cup {o}] :
                            e \in m.effects[o] \cap {None}}

\* ...and respawns when its time has come.
Respawns(m, o) ==
    IF o \notin m.respawning THEN {m}
    ELSE {m, SpawnPlayer([m EXCEPT !.respawning = @ \ {o}], o)}

PlayerTicks(m, o) ==
    UNION {Respawns(h, o) : h \in UNION {Hurt(b, o) : b \in Starts(m, o)}}
Before(p, q) == \E i, j \in DOMAIN Order : i <= j /\ Order[i] = p /\ Order[j] = q
TickPlayer ==
    /\ \E p \in toTick :
        /\ \A q \in toTick : Before(p, q)
        /\ \E m \in PlayerTicks(match, match.players[p]) : Continue(m)
        /\ toTick' = toTick \ {p}
    /\ UNCHANGED astray

\* Who waits for nothing is passed over: no other's tick gives him something to do.
HasToTick(p) ==
    LET o == match.players[p]
    IN o # None /\ (o \notin match.started \/ match.effects[o] # {} \/ o \in match.respawning)

\* RoomSession::tick: first the mode, then the players in the order of the map.
Tick ==
    /\ toTick = {}
    /\ \E m \in IF mode = "PTE" THEN {TickOfEssence(match)} ELSE TicksOfVip(match) :
        Continue(m)
    /\ toTick' = {p \in Player : HasToTick(p)}
    /\ UNCHANGED astray

\* The goal is reached or the time is up, which the handler of a kill may find first.
TickEnds == Idle /\ Finish

Next ==
    \/ \E p \in Player, spectates \in BOOLEAN : AddPlayer(p, spectates)
    \/ \E p \in Player : RemovePlayer(p) \/ PickUp(p) \/ Drop(p) \/ Throw(p)
    \/ \E p \in Player, o \in Obj : AddEffect(p, o)
    \/ \E o \in Obj : Kill(o) \/ Fall(o) \/ Vanish(o)
    \/ EssenceAges
    \/ \E t \in Team : VipAges(t)
    \/ Tick \/ TickPlayer
    \/ TickEnds

Spec == Init /\ [][Next]_vars

\* The room server ticks its rooms over and over, and time goes on.
Fairness == WF_vars(Tick \/ TickPlayer) /\ WF_vars(EssenceAges)

FairSpec == Spec /\ Fairness

-----------------------------------------------------------------------------
(* Properties                                                              *)

\* Who is dead in the match waits for his respawn: every way to die starts that wait
\* but one.  The effect of somebody whose object is gone, for he came back to the
\* match, kills without a killer: the dead stays dead until he leaves.
DeadRespawn == (InMatch(match) \cap match.dead) \subseteq match.respawning \cup match.forsaken

\* The essence is carried by somebody in the match, and in Protect The Essence by
\* somebody alive: who leaves or dies drops it.  Three are not seen to: who picked it up
\* by an event that came when he had left, who came back without leaving, and who was
\* killed by nobody.  VIP takes it from nobody who dies, and its tick ignores it.
EssenceCarried ==
    match.holder # None =>
        /\ match.holder \in InMatch(match) \cup astray
        /\ mode = "PTE" /\ match.holder \in InMatch(match) \cap match.dead =>
              match.holder \in match.forsaken

\* The VIPs are in the match, each for his own team, and are not to be the next too.
VipsPlay ==
    \A t \in Team :
        /\ match.vip[t] # None =>
            /\ match.vip[t] \in InMatch(match) \cup astray
            /\ TeamOf[Owner(match.vip[t])] = t
            /\ match.vip[t] # match.next[t]
        /\ match.next[t] # None => TeamOf[Owner(match.next[t])] = t /\ match.vip[t] # None

\* In Protect The Essence an essence that lies about is picked up, or goes back to its
\* place, or the match is over; one moved by a Drop when it was back already stays where it is.
LiesAbout == match.holder = None /\ match.away
EssenceReturns == (mode = "PTE" /\ LiesAbout /\ ~match.isReset) ~> ~LiesAbout
=============================================================================
