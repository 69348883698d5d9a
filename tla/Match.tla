------------------------------- MODULE Match -------------------------------
(***************************************************************************)
(* One game room of QPang Essence and the matches played in it: Room with  *)
(* its RoomPlayers (team, ready, playing, spectating), and RoomSession,    *)
(* the match under way, with its RoomSessionPlayers and its leavers.       *)
(*                                                                         *)
(* A player is in the room, gets ready, is told to load the map when the   *)
(* match starts (or at once when it is under way), and enters the session  *)
(* when his client answers GAME_WAITING_PLAYERS.  The answer travels with  *)
(* TNL's Guaranteed, unordered delivery: it may come after anything else   *)
(* the player does, and in a later match.  The match ends when its goal is *)
(* reached or when a departure leaves no opponents; everyone who took part *)
(* and did not spectate is then settled, by RoomSessionPlayer::stop.       *)
(*                                                                         *)
(* Scores and the clock are reduced to the phase of the match; how players *)
(* come to be in a room, and connections, are modelled in RoomLifecycle.   *)
(***************************************************************************)
EXTENDS Naturals, FiniteSets

CONSTANTS
    Player,           \* account ids
    Modes,            \* the game modes in play, a subset of GameMode::Mode
    Goals,            \* the goals in play: TRUE points, FALSE time
    Limits,           \* the numbers of places PLAYERS_ROOM can set
    InitialLimit,     \* Room::m_maxPlayers of a new room
    Spectator,        \* those a game master makes :spectate
    Commander,        \* game masters, who may start and end matches
    Restless,         \* those who join again, or another room, before the
                      \* room's thread has handled their leaving
    NoPlayer

\* The code's limits are 4, 8, 12 and 16: even numbers, the last the initial.
ASSUME LimitsAssumption ==
    /\ Limits \subseteq {n \in Nat : n > 0 /\ n % 2 = 0}
    /\ InitialLimit \in Limits
ASSUME ModesAssumption ==
    Modes # {} /\ Modes \subseteq {"DM", "TDM", "PTE", "VIP"} /\ Goals \subseteq BOOLEAN
ASSUME InputsAssumption == Spectator \cup Commander \cup Restless \subseteq Player
ASSUME PlayersAssumption == IsFiniteSet(Player)
ASSUME NullAssumption == NoPlayer \notin Player

VARIABLES
    \* the room
    members,      \* Room::m_players
    here,         \* the members whose Player::m_roomPlayer is in this room:
                  \* not those who entered another one, or logged in again
    master,       \* Room::m_masterPlayerId
    listed,       \* RoomManager lists the room
    mode,         \* Room::m_mode
    limit,        \* Room::m_maxPlayers
    isPoints,     \* Room::m_isPointsGame
    team,         \* RoomPlayer::m_team: 0 none, 1 blue, 2 yellow
    ready,        \* RoomPlayer::m_isReady
    playing,      \* RoomPlayer::m_isPlaying
    spectating,   \* RoomPlayer::m_isSpectating
    \* the match
    inMatch,      \* Room::m_isPlaying, and m_roomSession is set
    session,      \* RoomSession::m_players
    sTeam,        \* RoomSessionPlayer::m_team
    sSpectating,  \* RoomSessionPlayer::m_isSpectating
    leavers,      \* RoomSession::m_leavers: the entries each player has
    phase,        \* "open", "closing" once isAlmostFinished, "due" when the
                  \* next tick ends the match
    \* in flight
    loading,      \* the players whose GAME_WAITING_PLAYERS is to come
    watching,     \* :spectate commands between their checks and their effect
    late,         \* history: those told to load while the match was under way
                  \* who have not entered it yet
    settlements   \* history: the times each player was settled in the match,
                  \* or in the last one

ruleVars == <<listed, mode, limit, isPoints>>
flagVars == <<ready, playing, spectating>>
matchVars == <<inMatch, session, sTeam, sSpectating, leavers, phase, late, settlements>>
vars == <<members, here, master, ruleVars, team, flagVars, matchVars, loading, watching>>

Phase == {"open", "closing", "due"}
NoTeam == [p \in Player |-> 0]
Nobody == [p \in Player |-> 0]

TypeOK ==
    /\ members \subseteq Player /\ here \subseteq members
    /\ master \in Player \cup {NoPlayer}
    /\ listed \in BOOLEAN
    /\ mode \in Modes
    /\ limit \in Limits
    /\ isPoints \in BOOLEAN
    /\ team \in [Player -> 0..2]
    /\ ready \subseteq members
    /\ playing \subseteq members
    /\ spectating \subseteq members
    /\ inMatch \in BOOLEAN
    /\ session \subseteq Player
    /\ sTeam \in [Player -> 0..2]
    /\ sSpectating \subseteq session
    /\ leavers \in [Player -> Nat]
    /\ phase \in Phase
    /\ loading \subseteq Player
    /\ watching \subseteq members
    /\ late \subseteq loading
    /\ settlements \in [Player -> Nat]

\* Before any room was created, or since the last one was emptied.
Init ==
    /\ members = {} /\ here = {} /\ master = NoPlayer
    /\ listed = FALSE
    /\ mode \in Modes
    /\ limit = InitialLimit
    /\ isPoints = FALSE
    /\ team = NoTeam
    /\ ready = {} /\ playing = {} /\ spectating = {}
    /\ inMatch = FALSE /\ session = {} /\ sTeam = NoTeam /\ sSpectating = {}
    /\ leavers = Nobody /\ phase = "open" /\ late = {}
    /\ settlements = Nobody
    /\ loading = {} /\ watching = {}

-----------------------------------------------------------------------------
(* Teams                                                                   *)

IsTeamMode(m) == m # "DM"
InTeam(t) == {p \in members : team[p] = t}
SessionTeam(t, ps) == {p \in ps \ sSpectating : sTeam[p] = t}

\* Room::getAvailableTeam.
AvailableTeam ==
    IF ~IsTeamMode(mode) THEN 0
    ELSE IF Cardinality(InTeam(2)) * 2 >= Cardinality(members) THEN 1 ELSE 2

\* Room::isTeamAvailable.
TeamAvailableAtLimit(t) == Cardinality(InTeam(t)) * 2 <= limit
TeamAvailable(t) == Cardinality(InTeam(t)) * 2 < limit

\* Room::canStartInTeam, for a match under way.
CanStartInTeam(t) ==
    LET own == Cardinality(SessionTeam(IF t = 1 THEN 1 ELSE 2, session))
        other == Cardinality(SessionTeam(IF t = 1 THEN 2 ELSE 1, session))
    IN ~IsTeamMode(mode) \/ own = 0 \/ own - 1 < other

\* Room::balancePlayers: the members without a team go to yellow until it has
\* half of the room, the others to blue, in no particular order.
NotBalanced(m) == {team}
Balanced(m) ==
    IF ~IsTeamMode(m) THEN {NoTeam}
    ELSE LET n == Cardinality(members)
             yellow == Cardinality(InTeam(2))
             missing == IF 2 * yellow >= n THEN 0 ELSE (n + 1) \div 2 - yellow
             new == IF missing < Cardinality(InTeam(0)) THEN missing
                                                        ELSE Cardinality(InTeam(0))
         IN {[p \in Player |-> IF p \notin InTeam(0) THEN team[p]
                               ELSE IF p \in ys THEN 2 ELSE 1] :
                ys \in {s \in SUBSET InTeam(0) : Cardinality(s) = new}}

\* Room::unreadyAll.
UnreadyAll ==
    /\ ready' = {}
    /\ playing' = {}
    /\ spectating' = spectating \ playing

-----------------------------------------------------------------------------
(* The match                                                               *)

\* RoomSession::clear, and m_roomSession.reset().
ClearMatch ==
    /\ inMatch' = FALSE
    /\ session' = {} /\ sTeam' = NoTeam /\ sSpectating' = {}
    /\ leavers' = Nobody
    /\ phase' = "open"
    /\ late' = {}

\* RoomSession::finish and Room::finish, for the session players ss and the
\* leavers lv: the leavers are settled first, then those who still play.
FinishLeaversOnly(ss, lv) ==
    /\ ClearMatch
    /\ settlements' = lv
    /\ UnreadyAll
Finish(ss, lv) ==
    /\ ClearMatch
    /\ settlements' = [p \in Player |-> lv[p] + IF p \in ss \ sSpectating THEN 1 ELSE 0]
    /\ UnreadyAll

\* The top score of a death match can drop when a session player goes or his
\* place in the session is taken anew.
PhaseWithout(p) ==
    IF isPoints /\ ~IsTeamMode(mode) /\ p \in session /\ phase = "closing"
    THEN {"open", "closing"} ELSE {phase}

\* No opponents are left when p quits.  Spectators count as opponents in a
\* death match, and one who spectates ends nothing.
EndsMatch(p) ==
    /\ p \in session \ sSpectating
    /\ IF IsTeamMode(mode)
       THEN \E t \in {1, 2} : SessionTeam(t, session \ {p}) = {}
       ELSE Cardinality(session \ {p}) <= 1

\* RoomSession::removePlayer, when a match is under way and p is in it, and the
\* loss of p's ready, playing and spectating flags that goes with it in both
\* its callers.
QuitMatch(p) ==
    LET lv == IF p \in session \ sSpectating THEN [leavers EXCEPT ![p] = @ + 1] ELSE leavers
    IN IF EndsMatch(p)
       THEN Finish(session \ {p}, lv)
       ELSE /\ session' = session \ {p}
            /\ sTeam' = [sTeam EXCEPT ![p] = 0]
            /\ sSpectating' = sSpectating \ {p}
            /\ leavers' = lv
            /\ phase' \in PhaseWithout(p)
            /\ ready' = ready \ {p}
            /\ playing' = playing \ {p}
            /\ spectating' = spectating \ {p}
            /\ UNCHANGED <<inMatch, late, settlements>>

\* RoomSession::addPlayer.  A leaver who comes back to play is a leaver no more.
EnterMatchStillLeaver(p) ==
    /\ session' = session \cup {p}
    /\ sTeam' = [sTeam EXCEPT ![p] = team[p]]
    /\ sSpectating' = IF p \in spectating THEN sSpectating \cup {p} ELSE sSpectating \ {p}
    /\ phase' \in PhaseWithout(p)
    /\ late' = late \ {p}
    /\ UNCHANGED <<inMatch, leavers, settlements>>
EnterMatch(p) ==
    /\ session' = session \cup {p}
    /\ sTeam' = [sTeam EXCEPT ![p] = team[p]]
    /\ sSpectating' = IF p \in spectating THEN sSpectating \cup {p} ELSE sSpectating \ {p}
    /\ leavers' = IF p \notin spectating /\ leavers[p] > 0
                  THEN [leavers EXCEPT ![p] = @ - 1] ELSE leavers
    /\ phase' \in PhaseWithout(p)
    /\ late' = late \ {p}
    /\ UNCHANGED <<inMatch, settlements>>

-----------------------------------------------------------------------------
(* Coming and going                                                        *)

\* CGRoom CREATE_ROOM, once the room modelled before is empty.
CreateRoom(p, m) ==
    /\ members = {}
    /\ members' = {p} /\ here' = {p} /\ master' = p
    /\ listed' = TRUE
    /\ mode' = m
    /\ limit' = InitialLimit
    /\ isPoints' = FALSE
    /\ team' = [team EXCEPT ![p] = IF IsTeamMode(m) THEN 1 ELSE 0]
    /\ ClearMatch
    /\ UNCHANGED <<flagVars, settlements, loading, watching>>

\* CGRoom JOIN_ROOM: a new RoomPlayer, also for one who is a member already;
\* his place in the session is not touched.
JoinRoom(p) ==
    /\ listed
    /\ p \in members => p \in Restless
    /\ Cardinality(members) < limit
    /\ members' = members \cup {p}
    /\ here' = here \cup {p}
    /\ team' = [team EXCEPT ![p] = AvailableTeam]
    /\ ready' = ready \ {p}
    /\ playing' = playing \ {p}
    /\ spectating' = spectating \ {p}
    /\ watching' = watching \ {p}
    /\ UNCHANGED <<master, ruleVars, matchVars, loading>>

\* A member enters another room, or logs in again: his Player object no longer
\* leads to this room, and only a kick takes him out of it.
Stray(p) ==
    /\ p \in Restless \cap here
    /\ here' = here \ {p}
    /\ UNCHANGED <<members, master, ruleVars, team, flagVars, matchVars, loading, watching>>

\* Room::removePlayer.
RemovePlayerKeepsSession(p) ==
    /\ members' = members \ {p}
    /\ here' = here \ {p}
    /\ master' \in IF p # master THEN {master}
                   ELSE IF members = {p} THEN {NoPlayer} ELSE members \ {p}
    /\ listed' = (listed /\ members # {p})
    /\ team' = [team EXCEPT ![p] = 0]
    /\ watching' = watching \ {p}
    /\ ready' = ready \ {p}
    /\ playing' = playing \ {p}
    /\ spectating' = spectating \ {p}
    /\ UNCHANGED <<mode, limit, isPoints, matchVars, loading>>
RemovePlayer(p) ==
    /\ members' = members \ {p}
    /\ here' = here \ {p}
    /\ master' \in IF p # master THEN {master}
                   ELSE IF members = {p} THEN {NoPlayer} ELSE members \ {p}
    /\ listed' = (listed /\ members # {p})
    /\ team' = [team EXCEPT ![p] = 0]
    /\ watching' = watching \ {p}
    /\ QuitMatch(p)
    /\ UNCHANGED <<mode, limit, isPoints, loading>>

\* CGExit LEAVE, and the disposal of the player's connection.
LeaveRoom(p) == p \in here /\ RemovePlayer(p)

\* CGExit KICK.
KickPlayer(q, p) == q \in here /\ q = master /\ p \in members /\ RemovePlayer(p)

\* The :close command; the members leave when their connections are disposed
\* of, and meanwhile RoomManager ticks the room no more.
CloseRoom(p) ==
    /\ p \in here
    /\ listed' = FALSE
    /\ UNCHANGED <<members, here, master, mode, limit, isPoints, team, flagVars, matchVars,
                   loading, watching>>

-----------------------------------------------------------------------------
(* The lobby of the room                                                   *)

\* CGReady UNREADY.
Unready(p) ==
    /\ p \in here \ playing
    /\ ready' = ready \ {p}
    /\ UNCHANGED <<members, here, master, ruleVars, team, playing, spectating, matchVars,
                   loading, watching>>

\* CGReady READY before a match.
Ready(p) ==
    /\ p \in here \ playing
    /\ ~inMatch
    /\ ready' = ready \cup {p}
    /\ UNCHANGED <<members, here, master, ruleVars, team, playing, spectating, matchVars,
                   loading, watching>>

\* CGReady READY during a match that has room in the player's team and is not
\* almost finished: he loads at once.
ReadyInMatch(p) ==
    /\ p \in here \ playing
    /\ inMatch
    /\ CanStartInTeam(team[p])
    /\ phase = "open"
    /\ ready' = ready \cup {p}
    /\ playing' = playing \cup {p}
    /\ loading' = loading \cup {p}
    /\ late' = late \cup {p}
    /\ UNCHANGED <<members, here, master, ruleVars, team, spectating, inMatch, session, sTeam,
                   sSpectating, leavers, phase, settlements, watching>>

\* CGPlayerChange TEAM, which does not look at the mode.
ChangeTeamWhilePlaying(p, t) ==
    /\ p \in here
    /\ TeamAvailable(t)
    /\ team' = [team EXCEPT ![p] = t]
    /\ UNCHANGED <<members, here, master, ruleVars, flagVars, matchVars, loading, watching>>
ChangeTeam(p, t) ==
    /\ p \in here \ playing
    /\ TeamAvailable(t)
    /\ team' = [team EXCEPT ![p] = t]
    /\ UNCHANGED <<members, here, master, ruleVars, flagVars, matchVars, loading, watching>>

\* The master may change the rules between matches.
MayChangeRules(p) == p \in here /\ p = master /\ ~inMatch

\* CGRoom MODE_ROOM: PTE and VIP are played on time.
SetMode(p, m) ==
    /\ MayChangeRules(p)
    /\ mode' = m
    /\ isPoints' = (isPoints /\ m \notin {"PTE", "VIP"})
    /\ team' \in Balanced(m)
    /\ UnreadyAll
    /\ UNCHANGED <<members, here, master, listed, limit, matchVars, loading, watching>>

\* CGRoom SET_POINTS and SET_TIME.
SetGoal(p, points) ==
    /\ MayChangeRules(p)
    /\ isPoints' = points
    /\ UNCHANGED <<members, here, master, listed, mode, limit, team, flagVars, matchVars,
                   loading, watching>>

\* CGRoom PLAYERS_ROOM, which does not look at how many there are.
SetMaxPlayers(p, n) ==
    /\ MayChangeRules(p)
    /\ limit' = n
    /\ UNCHANGED <<members, here, master, listed, mode, isPoints, team, flagVars, matchVars,
                   loading, watching>>

\* CGRoom TOGGLE_MELEE.
SetMeleeOnly(p) ==
    /\ MayChangeRules(p)
    /\ UnreadyAll
    /\ UNCHANGED <<members, here, master, ruleVars, team, matchVars, loading, watching>>

-----------------------------------------------------------------------------
(* The course of a match                                                   *)

\* Room::start, for those who are then told to load.  A short goal is almost
\* reached from the beginning, and a goal of no points is reached.
Start(starters) ==
    /\ ~inMatch
    /\ inMatch' = TRUE
    /\ phase' \in IF isPoints THEN Phase ELSE {"open", "closing"}
    /\ settlements' = Nobody
    /\ ready' = ready \cup starters
    /\ playing' = playing \cup starters
    /\ loading' = loading \cup starters
    /\ UNCHANGED <<members, here, master, ruleVars, team, spectating,
                   session, sTeam, sSpectating, leavers, late, watching>>

ReadyToStart == {p \in members : p \in ready \/ p = master}

\* CGStart.
StartMatch(p) == p \in here /\ p = master /\ Start(ReadyToStart)

\* The :force_start command of any game master in the room, for those who are
\* ready, and :force_start_all, which makes everybody ready.
ForceStart(p) == p \in Commander \cap here /\ Start(ReadyToStart)
ForceStartAll(p) == p \in Commander \cap here /\ Start(members)

\* CGGameState GAME_WAITING_PLAYERS: the client has loaded.  Nothing of what
\* CGReady looked at is looked at again.
GameWaitingPlayers(p) ==
    /\ p \in loading
    /\ loading' = loading \ {p}
    /\ IF p \in here /\ inMatch
       THEN EnterMatch(p)
       ELSE /\ late' = late \ {p}
            /\ UNCHANGED <<inMatch, session, sTeam, sSpectating, leavers, phase, settlements>>
    /\ UNCHANGED <<members, here, master, ruleVars, team, flagVars, watching>>

\* CGGameState LEAVE_GAME: back from the match, or from loading it, to the
\* lobby of the room.
LeaveGame(p) ==
    /\ p \in here
    /\ QuitMatch(p)
    /\ UNCHANGED <<members, here, master, ruleVars, team, loading, watching>>

\* The :spectate command of a game master checks on the square's thread that
\* the player is neither ready nor playing and that a match is under way...
SpectateRequested(p) ==
    /\ p \in Spectator \cap here
    /\ p \notin ready \cup playing
    /\ inMatch
    /\ watching' = watching \cup {p}
    /\ UNCHANGED <<members, here, master, ruleVars, team, flagVars, matchVars, loading>>

\* ...and then makes him load it, whatever the room's thread did in between.
SpectateApplied(p) ==
    /\ p \in watching
    /\ watching' = watching \ {p}
    /\ ready' = ready \cup {p}
    /\ playing' = playing \cup {p}
    /\ spectating' = spectating \cup {p}
    /\ loading' = loading \cup {p}
    /\ UNCHANGED <<members, here, master, ruleVars, team, matchVars>>

\* Time passes, scores rise.  In PTE a lead that the time left cannot make up
\* for decides the match at any moment.
Progress ==
    /\ inMatch
    /\ phase' \in IF isPoints
                  THEN IF session \ sSpectating = {} THEN {}
                       ELSE IF mode = "PTE" THEN {"closing", "due"} ELSE {"closing"}
                  ELSE {"closing", "due"}
    /\ phase = "open" \/ phase' = "due"
    /\ phase' # phase
    /\ UNCHANGED <<members, here, master, ruleVars, team, flagVars, inMatch, session, sTeam,
                   sSpectating, leavers, late, settlements, loading, watching>>

\* RoomSession::tick finds the goal reached.  Only a listed room is ticked.
MatchTickForgetsTime ==
    /\ inMatch
    /\ listed
    /\ isPoints
    /\ phase = "due"
    /\ Finish(session, leavers)
    /\ UNCHANGED <<members, here, master, ruleVars, team, loading, watching>>
MatchTick ==
    /\ inMatch
    /\ listed
    /\ phase = "due"
    /\ Finish(session, leavers)
    /\ UNCHANGED <<members, here, master, ruleVars, team, loading, watching>>

\* GameMode::onPlayerKill finds the goal reached: with the point just scored in
\* a match on points.
EndedByKill(p) ==
    /\ inMatch
    /\ p \in here /\ p \in session \ sSpectating
    /\ phase = "due" \/ (isPoints /\ phase = "closing")
    /\ Finish(session, leavers)
    /\ UNCHANGED <<members, here, master, ruleVars, team, loading, watching>>

\* The :finish command.  RoomSession::finish does nothing when the match is over
\* by the time the square's thread calls it.
FinishMatch(p) ==
    /\ p \in Commander \cap here
    /\ inMatch
    /\ Finish(session, leavers)
    /\ UNCHANGED <<members, here, master, ruleVars, team, loading, watching>>

Next ==
    \/ \E p \in Player, m \in Modes : CreateRoom(p, m)
    \/ \E p \in Player : JoinRoom(p)
    \/ \E p \in Player : Stray(p)
    \/ \E p \in Player : LeaveRoom(p)
    \/ \E q \in Player, p \in Player : KickPlayer(q, p)
    \/ \E p \in Player : CloseRoom(p)
    \/ \E p \in Player : Unready(p)
    \/ \E p \in Player : Ready(p)
    \/ \E p \in Player : ReadyInMatch(p)
    \/ \E p \in Player, t \in {1, 2} : ChangeTeam(p, t)
    \/ \E p \in Player, m \in Modes : SetMode(p, m)
    \/ \E p \in Player, points \in Goals : SetGoal(p, points)
    \/ \E p \in Player, n \in Limits : SetMaxPlayers(p, n)
    \/ \E p \in Player : SetMeleeOnly(p)
    \/ \E p \in Player : StartMatch(p)
    \/ \E p \in Player : ForceStart(p)
    \/ \E p \in Player : ForceStartAll(p)
    \/ \E p \in Player : GameWaitingPlayers(p)
    \/ \E p \in Player : LeaveGame(p)
    \/ \E p \in Player : SpectateRequested(p)
    \/ \E p \in Player : SpectateApplied(p)
    \/ Progress
    \/ MatchTick
    \/ \E p \in Player : EndedByKill(p)
    \/ \E p \in Player : FinishMatch(p)

Spec == Init /\ [][Next]_vars

\* The clock runs, and RoomServer::tick reaches RoomSession::tick each second.
Fairness == WF_vars(Progress) /\ WF_vars(MatchTick)

FairSpec == Spec /\ Fairness

-----------------------------------------------------------------------------
(* Properties                                                              *)

\* Whoever is in the session is a member of the room: no departure, whatever
\* else it ends, leaves a RoomSessionPlayer behind that would be sent events
\* and be settled; and without a match under way nobody is in a session.
SessionWithinRoom ==
    /\ session \subseteq members
    /\ ~inMatch => session = {} /\ leavers = Nobody

\* However often a player leaves a match, comes back, rejoins the room or turns
\* spectator, he is in at most one of the two lists that finish() settles,
\* players who do not spectate and leavers, and there but once.
ListedForSettlementOnce ==
    \A p \in Player : leavers[p] + (IF p \in session \ sSpectating THEN 1 ELSE 0) <= 1

\* In a team mode every member and everyone in the session is blue or yellow,
\* after whatever changes of mode: a player of no team would keep neither side
\* alive in removePlayer, and count for yellow in addPointsForTeam.
EveryoneHasATeam ==
    IsTeamMode(mode) =>
        /\ \A p \in members : team[p] \in {1, 2}
        /\ \A p \in session : sTeam[p] \in {1, 2}

\* A player in the match plays there for the team the room shows him in; one
\* who entered without being told to play, by an answer that came late, may
\* differ until he loads again.
SessionTeamIsRoomTeam ==
    \A p \in (session \cap playing \cap here) \ loading : sTeam[p] = team[p]

\* "Team balancing": a team grows, by joining, choosing or a change of mode,
\* only up to half of the places of the room, or half of those who are in it
\* when the places were reduced below that.
TeamsStayEven ==
    [][members # {} => \A t \in {1, 2} :
          Cardinality(InTeam(t)') > Cardinality(InTeam(t))
              => \/ 2 * Cardinality(InTeam(t)') <= limit'
                 \/ 2 * Cardinality(InTeam(t)') <= Cardinality(members') + 1]_vars

\* A match on time ends, unless its room was closed or emptied.
TimedMatchEnds ==
    (inMatch /\ ~isPoints) ~> (~inMatch \/ ~listed)

\* "Prevents players from joining late game": nobody who was not there when a
\* match started enters it once it is almost finished.
NoLateEntry ==
    [][\A p \in late : p \notin session /\ p \in session' => phase = "open"]_vars

\* What is promised of the settlement of a match: module Settlement.
Taking ==
    [p \in Player |-> IF p \in session \ sSpectating THEN "in"
                      ELSE IF leavers[p] > 0 THEN "left" ELSE "out"]
S == INSTANCE Settlement WITH on <- inMatch, part <- Taking, settled <- settlements
SettlesOnce == S!Spec
=============================================================================
