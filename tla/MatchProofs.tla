---------------------------- MODULE MatchProofs ----------------------------
(***************************************************************************)
(* Proofs about Match, for any set of players, any choice of modes, goals  *)
(* and limits.                                                             *)
(***************************************************************************)
EXTENDS Match, FiniteSetTheorems, TLAPS

\* A member spectates only while he plays.
SpectatorsPlay == spectating \subseteq playing

TypeInv == TypeOK /\ SpectatorsPlay

\* The end of a match leaves nobody ready, playing or spectating, and the
\* session as it is before a match.
LEMMA FinishTypes ==
    ASSUME TypeInv, NEW ss, NEW lv \in [Player -> Nat], Finish(ss, lv)
    PROVE  /\ ready' = {} /\ playing' = {} /\ spectating' = {}
           /\ inMatch' = FALSE /\ session' = {} /\ sSpectating' = {} /\ late' = {}
           /\ sTeam' \in [Player -> 0..2]
           /\ leavers' \in [Player -> Nat]
           /\ phase' \in Phase
           /\ settlements' \in [Player -> Nat]
<1>1. spectating' = {}
  BY DEF TypeInv, SpectatorsPlay, Finish, UnreadyAll
<1>2. settlements' \in [Player -> Nat]
  <2>1. \A p \in Player : lv[p] + (IF p \in ss \ sSpectating THEN 1 ELSE 0) \in Nat
    OBVIOUS
  <2>2. settlements' = [p \in Player |-> lv[p] + IF p \in ss \ sSpectating THEN 1 ELSE 0]
    BY DEF Finish
  <2> QED BY <2>1, <2>2, Zenon
<1>3. sTeam' \in [Player -> 0..2]
  BY DEF Finish, ClearMatch, NoTeam
<1>4. leavers' \in [Player -> Nat]
  BY DEF Finish, ClearMatch, Nobody
<1> QED BY <1>1, <1>2, <1>3, <1>4 DEF Finish, ClearMatch, UnreadyAll, Phase

\* Leaving the match, ending it or not, keeps the types, and takes the player
\* out of the session and the flags that go with it.
LEMMA QuitMatchTypes ==
    ASSUME TypeInv, NEW p \in Player, QuitMatch(p)
    PROVE  /\ ready' \subseteq ready \ {p}
           /\ playing' \subseteq playing \ {p}
           /\ spectating' \subseteq playing'
           /\ inMatch' \in BOOLEAN
           /\ session' \subseteq session \ {p}
           /\ sTeam' \in [Player -> 0..2]
           /\ sSpectating' \subseteq session'
           /\ leavers' \in [Player -> Nat]
           /\ phase' \in Phase
           /\ late' \subseteq late
           /\ settlements' \in [Player -> Nat]
<1> USE DEF TypeInv, TypeOK, SpectatorsPlay
<1> DEFINE lv == IF p \in session \ sSpectating THEN [leavers EXCEPT ![p] = @ + 1] ELSE leavers
<1>1. lv \in [Player -> Nat]
  OBVIOUS
<1>2. CASE EndsMatch(p)
  <2>1. Finish(session \ {p}, lv)
    BY <1>2 DEF QuitMatch
  <2> QED
    BY <1>1, <2>1, FinishTypes
<1>3. CASE ~EndsMatch(p)
  BY <1>1, <1>3 DEF QuitMatch, PhaseWithout, Phase
<1> QED BY <1>2, <1>3

\* Leaving the room keeps the types.
LEMMA RemovePlayerTypes ==
    ASSUME TypeInv, NEW p \in Player, p \in members, RemovePlayer(p)
    PROVE  TypeInv'
<1> USE DEF TypeInv, TypeOK, SpectatorsPlay
<1>1. QuitMatch(p)
  BY DEF RemovePlayer
<1>2. master' \in Player \cup {NoPlayer}
  BY DEF RemovePlayer
<1> QED BY <1>1, <1>2, QuitMatchTypes DEF RemovePlayer

\* Every step keeps the types, and lets a member spectate only while he plays.
THEOREM TypeStep == TypeInv /\ [Next]_vars => TypeInv'
<1> SUFFICES ASSUME TypeInv, [Next]_vars PROVE TypeInv'
  OBVIOUS
<1> USE DEF TypeInv, TypeOK, SpectatorsPlay
<1>1. ASSUME NEW p \in Player, NEW m \in Modes, CreateRoom(p, m) PROVE TypeInv'
  <2>1. sTeam' \in [Player -> 0..2] /\ leavers' \in [Player -> Nat]
    BY <1>1 DEF CreateRoom, ClearMatch, NoTeam, Nobody
  <2>2. team' \in [Player -> 0..2]
    BY <1>1 DEF CreateRoom
  <2> QED
    BY <1>1, <2>1, <2>2, LimitsAssumption DEF CreateRoom, ClearMatch, flagVars, Phase
<1>2. ASSUME NEW p \in Player, JoinRoom(p) PROVE TypeInv'
  BY <1>2 DEF JoinRoom, AvailableTeam, matchVars, ruleVars
<1>3. ASSUME NEW p \in Player, Stray(p) PROVE TypeInv'
  BY <1>3 DEF Stray, matchVars, ruleVars, flagVars
<1>4. ASSUME NEW p \in Player, LeaveRoom(p) PROVE TypeInv'
  BY <1>4, RemovePlayerTypes DEF LeaveRoom
<1>5. ASSUME NEW q \in Player, NEW p \in Player, KickPlayer(q, p) PROVE TypeInv'
  BY <1>5, RemovePlayerTypes DEF KickPlayer
<1>6. ASSUME NEW p \in Player, CloseRoom(p) PROVE TypeInv'
  BY <1>6 DEF CloseRoom, matchVars, flagVars
<1>7. ASSUME NEW p \in Player, Unready(p) PROVE TypeInv'
  BY <1>7 DEF Unready, matchVars, ruleVars
<1>8. ASSUME NEW p \in Player, Ready(p) PROVE TypeInv'
  BY <1>8 DEF Ready, matchVars, ruleVars
<1>9. ASSUME NEW p \in Player, ReadyInMatch(p) PROVE TypeInv'
  BY <1>9 DEF ReadyInMatch, ruleVars
<1>10. ASSUME NEW p \in Player, NEW t \in {1, 2}, ChangeTeam(p, t) PROVE TypeInv'
  BY <1>10 DEF ChangeTeam, matchVars, ruleVars, flagVars
<1>11. ASSUME NEW p \in Player, NEW m \in Modes, SetMode(p, m) PROVE TypeInv'
  <2>1. team' \in [Player -> 0..2]
    BY <1>11 DEF SetMode, Balanced, NoTeam
  <2> QED BY <1>11, <2>1 DEF SetMode, UnreadyAll, matchVars
<1>12. ASSUME NEW p \in Player, NEW points \in Goals, SetGoal(p, points) PROVE TypeInv'
  BY <1>12, ModesAssumption DEF SetGoal, matchVars, flagVars
<1>13. ASSUME NEW p \in Player, NEW n \in Limits, SetMaxPlayers(p, n) PROVE TypeInv'
  BY <1>13 DEF SetMaxPlayers, matchVars, flagVars
<1>14. ASSUME NEW p \in Player, SetMeleeOnly(p) PROVE TypeInv'
  BY <1>14 DEF SetMeleeOnly, UnreadyAll, matchVars, ruleVars
<1>15. ASSUME NEW starters \in SUBSET members, Start(starters) PROVE TypeInv'
  BY <1>15 DEF Start, ruleVars, Phase, Nobody
<1>a. ASSUME NEW p \in Player, StartMatch(p) \/ ForceStart(p) \/ ForceStartAll(p) PROVE TypeInv'
  BY <1>a, <1>15 DEF StartMatch, ForceStart, ForceStartAll, ReadyToStart
<1>16. ASSUME NEW p \in Player, GameWaitingPlayers(p) PROVE TypeInv'
  BY <1>16 DEF GameWaitingPlayers, EnterMatch, PhaseWithout, ruleVars, flagVars, Phase
<1>17. ASSUME NEW p \in Player, LeaveGame(p) PROVE TypeInv'
  BY <1>17, QuitMatchTypes DEF LeaveGame, ruleVars
<1>18. ASSUME NEW p \in Player, SpectateRequested(p) PROVE TypeInv'
  BY <1>18 DEF SpectateRequested, matchVars, ruleVars, flagVars
<1>19. ASSUME NEW p \in Player, SpectateApplied(p) PROVE TypeInv'
  BY <1>19 DEF SpectateApplied, matchVars, ruleVars
<1>20. CASE Progress
  BY <1>20 DEF Progress, ruleVars, flagVars, Phase
<1>21. CASE /\ Finish(session, leavers)
            /\ UNCHANGED <<members, here, master, ruleVars, team, loading, watching>>
  BY <1>21, FinishTypes DEF ruleVars
<1>22. CASE MatchTick
  BY <1>21, <1>22 DEF MatchTick
<1>23. ASSUME NEW p \in Player, EndedByKill(p) \/ FinishMatch(p) PROVE TypeInv'
  BY <1>21, <1>23 DEF EndedByKill, FinishMatch
<1>24. CASE UNCHANGED vars
  BY <1>24 DEF vars, matchVars, ruleVars, flagVars
<1> QED BY <1>1, <1>2, <1>3, <1>4, <1>5, <1>6, <1>7, <1>8, <1>9, <1>10, <1>11, <1>12, <1>13,
          <1>14, <1>a, <1>16, <1>17, <1>18, <1>19, <1>20, <1>22, <1>23, <1>24 DEF Next

\* The initial state has the types, and nobody spectates.
LEMMA InitTypes == Init => TypeInv
<1>1. NoTeam \in [Player -> 0..2] /\ Nobody \in [Player -> Nat]
  BY DEF NoTeam, Nobody
<1> QED BY <1>1, LimitsAssumption DEF Init, TypeInv, TypeOK, SpectatorsPlay, Phase

\* Every variable keeps its type.
THEOREM TypeCorrect == Spec => []TypeOK
<1>1. TypeInv => TypeOK
  BY DEF TypeInv
<1> QED BY <1>1, InitTypes, TypeStep, PTL DEF Spec

-----------------------------------------------------------------------------
(* Who is in the match, and on which side                                  *)

SessionInv == SessionWithinRoom /\ ListedForSettlementOnce
TeamInv == EveryoneHasATeam /\ SessionTeamIsRoomTeam
IInv == TypeInv /\ SessionInv /\ TeamInv

\* A player is on the leavers' list at most once, and not at all while he plays.
LEMMA ListedOnceFacts ==
    ASSUME TypeInv, ListedForSettlementOnce, NEW p \in Player
    PROVE  /\ leavers[p] \in {0, 1}
           /\ p \in session \ sSpectating => leavers[p] = 0
<1>1. leavers[p] \in Nat
  BY DEF TypeInv, TypeOK
<1>2. leavers[p] + (IF p \in session \ sSpectating THEN 1 ELSE 0) <= 1
  BY DEF ListedForSettlementOnce
<1> QED BY <1>1, <1>2

\* The end of a match empties both lists.
LEMMA FinishSession ==
    ASSUME NEW ss, NEW lv, Finish(ss, lv)
    PROVE  SessionInv' /\ session' = {}
  BY DEF Finish, ClearMatch, Nobody, SessionInv, SessionWithinRoom, ListedForSettlementOnce

\* Leaving the match moves the player from one list to the other, unless he
\* was in the other or in none.
LEMMA QuitMatchSession ==
    ASSUME TypeInv, SessionInv, NEW p \in Player, QuitMatch(p),
           members' = members \/ members' = members \ {p}
    PROVE  SessionInv' /\ session' \subseteq session \ {p}
<1> DEFINE lv == IF p \in session \ sSpectating THEN [leavers EXCEPT ![p] = @ + 1] ELSE leavers
<1>1. CASE EndsMatch(p)
  <2>1. Finish(session \ {p}, lv)
    BY <1>1 DEF QuitMatch
  <2> QED BY <2>1, FinishSession
<1>2. CASE ~EndsMatch(p)
  <2>1. /\ session' = session \ {p}
        /\ sSpectating' = sSpectating \ {p}
        /\ leavers' = lv
        /\ inMatch' = inMatch
    BY <1>2 DEF QuitMatch
  <2>2. SessionWithinRoom'
    BY <2>1 DEF SessionInv, SessionWithinRoom
  <2>3. ListedForSettlementOnce'
    <3> SUFFICES ASSUME NEW q \in Player
                 PROVE  leavers'[q] + (IF q \in session' \ sSpectating' THEN 1 ELSE 0) <= 1
      BY DEF ListedForSettlementOnce
    <3>1. leavers[q] \in {0, 1} /\ (q \in session \ sSpectating => leavers[q] = 0)
      BY ListedOnceFacts DEF SessionInv
    <3>2. CASE q = p
      BY <2>1, <3>1, <3>2 DEF TypeInv, TypeOK
    <3>3. CASE q # p
      BY <2>1, <3>1, <3>3 DEF TypeInv, TypeOK
    <3> QED BY <3>2, <3>3
  <2> QED BY <2>1, <2>2, <2>3 DEF SessionInv
<1> QED BY <1>1, <1>2

\* Entering the match takes a leaver who plays off the leavers' list.
LEMMA EnterMatchSession ==
    ASSUME TypeInv, SessionInv, NEW p \in members, p \in Player, inMatch,
           EnterMatch(p), members' = members
    PROVE  SessionInv'
<1>1. SessionWithinRoom'
  BY DEF SessionInv, SessionWithinRoom, EnterMatch
<1>2. ListedForSettlementOnce'
  <2> SUFFICES ASSUME NEW q \in Player
               PROVE  leavers'[q] + (IF q \in session' \ sSpectating' THEN 1 ELSE 0) <= 1
    BY DEF ListedForSettlementOnce
  <2>1. leavers[q] \in {0, 1} /\ (q \in session \ sSpectating => leavers[q] = 0)
    BY ListedOnceFacts DEF SessionInv
  <2>2. CASE q = p
    BY <2>1, <2>2 DEF EnterMatch, TypeInv, TypeOK
  <2>3. CASE q # p
    BY <2>1, <2>3 DEF EnterMatch, TypeInv, TypeOK
  <2> QED BY <2>2, <2>3
<1> QED BY <1>1, <1>2 DEF SessionInv

\* Every step keeps the session within the room and each player in at most one
\* of the lists that are settled.
LEMMA SessionStep == TypeInv /\ SessionInv /\ [Next]_vars => SessionInv'
<1> SUFFICES ASSUME TypeInv, SessionInv, [Next]_vars PROVE SessionInv'
  OBVIOUS
<1> DEFINE SessionUnchanged == UNCHANGED <<inMatch, session, sSpectating, leavers>>
<1>a. ASSUME SessionUnchanged, members \subseteq members' PROVE SessionInv'
  BY <1>a DEF SessionInv, SessionWithinRoom, ListedForSettlementOnce
<1>1. ASSUME NEW p \in Player, NEW m \in Modes, CreateRoom(p, m) PROVE SessionInv'
  BY <1>1 DEF CreateRoom, ClearMatch, Nobody, SessionInv, SessionWithinRoom, ListedForSettlementOnce
<1>2. ASSUME NEW p \in Player, JoinRoom(p) PROVE SessionInv'
  BY <1>2, <1>a DEF JoinRoom, matchVars
<1>3. ASSUME NEW p \in Player, RemovePlayer(p) PROVE SessionInv'
  BY <1>3, QuitMatchSession DEF RemovePlayer
<1>4. CASE \E p \in Player : LeaveRoom(p)
  BY <1>4, <1>3 DEF LeaveRoom
<1>5. CASE \E q \in Player, p \in Player : KickPlayer(q, p)
  BY <1>5, <1>3 DEF KickPlayer
<1>6. CASE \/ \E p \in Player : Stray(p) \/ CloseRoom(p) \/ Unready(p) \/ Ready(p)
           \/ \E p \in Player : ReadyInMatch(p) \/ SetMeleeOnly(p)
           \/ \E p \in Player : SpectateRequested(p) \/ SpectateApplied(p)
           \/ \E p \in Player, t \in {1, 2} : ChangeTeam(p, t)
  BY <1>6, <1>a DEF Stray, CloseRoom, Unready, Ready, ReadyInMatch, SetMeleeOnly,
       SpectateRequested, SpectateApplied, ChangeTeam, matchVars
<1>7. CASE \/ \E p \in Player, m \in Modes : SetMode(p, m)
           \/ \E p \in Player, points \in Goals : SetGoal(p, points)
           \/ \E p \in Player, n \in Limits : SetMaxPlayers(p, n)
           \/ Progress
  BY <1>7, <1>a DEF SetMode, SetGoal, SetMaxPlayers, Progress, matchVars
<1>8. ASSUME NEW p \in Player, StartMatch(p) \/ ForceStart(p) \/ ForceStartAll(p)
      PROVE  SessionInv'
  BY <1>8 DEF StartMatch, ForceStart, ForceStartAll, Start, SessionInv, SessionWithinRoom, ListedForSettlementOnce
<1>9. ASSUME NEW p \in Player, GameWaitingPlayers(p) PROVE SessionInv'
  <2>1. CASE p \in here /\ inMatch
    <3>1. p \in members
      BY <2>1 DEF TypeInv, TypeOK
    <3> QED BY <1>9, <2>1, <3>1, EnterMatchSession DEF GameWaitingPlayers
  <2>2. CASE ~(p \in here /\ inMatch)
    BY <1>9, <2>2, <1>a DEF GameWaitingPlayers
  <2> QED BY <2>1, <2>2
<1>10. ASSUME NEW p \in Player, LeaveGame(p) PROVE SessionInv'
  BY <1>10, QuitMatchSession DEF LeaveGame
<1>11. CASE MatchTick \/ \E p \in Player : EndedByKill(p) \/ FinishMatch(p)
  BY <1>11, FinishSession DEF MatchTick, EndedByKill, FinishMatch
<1>12. CASE UNCHANGED vars
  BY <1>12, <1>a DEF vars, matchVars
<1> QED BY <1>1, <1>2, <1>4, <1>5, <1>6, <1>7, <1>8, <1>9, <1>10, <1>11, <1>12 DEF Next

\* Whoever joins or is distributed over the teams gets one in a team mode.
LEMMA TeamsGiven ==
    ASSUME TypeInv
    PROVE  /\ IsTeamMode(mode) => AvailableTeam \in {1, 2}
           /\ \A m \in Modes : IsTeamMode(m) =>
                 \A b \in Balanced(m), p \in members : b[p] \in {1, 2}
<1>1. IsTeamMode(mode) => AvailableTeam \in {1, 2}
  BY DEF AvailableTeam
<1>2. ASSUME NEW m \in Modes, IsTeamMode(m), NEW b \in Balanced(m), NEW p \in members
      PROVE  b[p] \in {1, 2}
  <2>1. PICK ys : b = [q \in Player |-> IF q \notin InTeam(0) THEN team[q]
                                        ELSE IF q \in ys THEN 2 ELSE 1]
    BY <1>2 DEF Balanced
  <2>2. p \in Player /\ team[p] \in 0..2
    BY DEF TypeInv, TypeOK
  <2>3. p \notin InTeam(0) => team[p] # 0
    BY DEF InTeam
  <2> QED BY <2>1, <2>2, <2>3
<1> QED BY <1>1, <1>2

\* Leaving the match, and perhaps the room, gives nobody another team.
LEMMA QuitMatchTeams ==
    ASSUME TypeInv, SessionInv, TeamInv, NEW p \in Player, QuitMatch(p),
           UNCHANGED <<mode, loading>>,
           \/ UNCHANGED <<members, here, team>>
           \/ /\ members' = members \ {p}
              /\ here' = here \ {p}
              /\ team' = [team EXCEPT ![p] = 0]
    PROVE  TeamInv'
<1>1. /\ session' \subseteq session \ {p}
      /\ playing' \subseteq playing \ {p}
      /\ here' \subseteq here
      /\ members' \subseteq members
      /\ p \in members' => team' = team
  BY QuitMatchSession, QuitMatchTypes DEF TypeInv, TypeOK
<1>2. \A q \in Player \ {p} : team'[q] = team[q]
  BY DEF TypeInv, TypeOK
<1>3. \A q \in session' : sTeam'[q] = sTeam[q]
  <2>1. CASE EndsMatch(p)
    BY <2>1, FinishSession DEF QuitMatch
  <2>2. CASE ~EndsMatch(p)
    BY <2>2, <1>1 DEF QuitMatch, TypeInv, TypeOK
  <2> QED BY <2>1, <2>2
<1>4. EveryoneHasATeam'
  BY <1>1, <1>2, <1>3 DEF TeamInv, EveryoneHasATeam, IsTeamMode, TypeInv, TypeOK
<1>5. SessionTeamIsRoomTeam'
  BY <1>1, <1>2, <1>3 DEF TeamInv, SessionTeamIsRoomTeam, TypeInv, TypeOK
<1> QED BY <1>4, <1>5 DEF TeamInv

\* Every step leaves everybody with the team he has to have.
LEMMA TeamStep == TypeInv /\ SessionInv /\ TeamInv /\ [Next]_vars => TeamInv'
<1> SUFFICES ASSUME TypeInv, SessionInv, TeamInv, [Next]_vars PROVE TeamInv'
  OBVIOUS
<1>a. ASSUME UNCHANGED <<members, mode, team, session, sTeam>>, here' \subseteq here,
             playing' \ loading' \subseteq playing \ loading
      PROVE  TeamInv'
  BY <1>a DEF TeamInv, EveryoneHasATeam, SessionTeamIsRoomTeam
<1>b. ASSUME UNCHANGED <<members, mode, team>>, session' = {} PROVE TeamInv'
  BY <1>b DEF TeamInv, EveryoneHasATeam, SessionTeamIsRoomTeam
<1>1. ASSUME NEW p \in Player, NEW m \in Modes, CreateRoom(p, m) PROVE TeamInv'
  <2>1. members' = {p} /\ session' = {} /\ mode' = m
    BY <1>1 DEF CreateRoom, ClearMatch
  <2>2. IsTeamMode(m) => team'[p] = 1
    BY <1>1 DEF CreateRoom, TypeInv, TypeOK
  <2> QED BY <2>1, <2>2 DEF TeamInv, EveryoneHasATeam, SessionTeamIsRoomTeam, IsTeamMode
<1>2. ASSUME NEW p \in Player, JoinRoom(p) PROVE TeamInv'
  <2>1. /\ members' = members \cup {p}
        /\ here' = here \cup {p}
        /\ playing' = playing \ {p}
        /\ UNCHANGED <<mode, session, sTeam, loading>>
    BY <1>2 DEF JoinRoom, ruleVars, matchVars
  <2>2. team'[p] = AvailableTeam /\ \A q \in Player \ {p} : team'[q] = team[q]
    BY <1>2 DEF JoinRoom, TypeInv, TypeOK
  <2>3. EveryoneHasATeam'
    BY <2>1, <2>2, TeamsGiven DEF TeamInv, EveryoneHasATeam, IsTeamMode, TypeInv, TypeOK
  <2>4. SessionTeamIsRoomTeam'
    BY <2>1, <2>2 DEF TeamInv, SessionTeamIsRoomTeam, TypeInv, TypeOK
  <2> QED BY <2>3, <2>4 DEF TeamInv
<1>3. ASSUME NEW p \in Player, RemovePlayer(p) PROVE TeamInv'
  BY <1>3, QuitMatchTeams DEF RemovePlayer
<1>4. CASE \E p \in Player : LeaveRoom(p)
  BY <1>4, <1>3 DEF LeaveRoom
<1>5. CASE \E q \in Player, p \in Player : KickPlayer(q, p)
  BY <1>5, <1>3 DEF KickPlayer
<1>6. ASSUME NEW p \in Player,
             \/ Stray(p) \/ CloseRoom(p) \/ Unready(p) \/ Ready(p) \/ ReadyInMatch(p)
             \/ SetMeleeOnly(p) \/ SpectateRequested(p) \/ SpectateApplied(p)
      PROVE  TeamInv'
  BY <1>6, <1>a DEF Stray, CloseRoom, Unready, Ready, ReadyInMatch, SetMeleeOnly, UnreadyAll,
       SpectateRequested, SpectateApplied, matchVars, ruleVars, flagVars
<1>7. ASSUME NEW p \in Player, NEW t \in {1, 2}, ChangeTeam(p, t) PROVE TeamInv'
  <2>1. /\ p \notin playing
        /\ team'[p] = t /\ \A q \in Player \ {p} : team'[q] = team[q]
        /\ UNCHANGED <<members, here, mode, playing, session, sTeam, loading>>
    BY <1>7 DEF ChangeTeam, ruleVars, flagVars, matchVars, TypeInv, TypeOK
  <2> QED
    BY <2>1 DEF TeamInv, EveryoneHasATeam, SessionTeamIsRoomTeam, IsTeamMode, TypeInv, TypeOK
<1>8. ASSUME NEW p \in Player, NEW m \in Modes, SetMode(p, m) PROVE TeamInv'
  <2>1. /\ mode' = m
        /\ team' \in Balanced(m)
        /\ members' = members
        /\ session' = {}
    BY <1>8 DEF SetMode, MayChangeRules, matchVars, SessionInv, SessionWithinRoom
  <2> QED BY <2>1, TeamsGiven DEF TeamInv, EveryoneHasATeam, SessionTeamIsRoomTeam, IsTeamMode
<1>9. CASE \/ \E p \in Player, points \in Goals : SetGoal(p, points)
           \/ \E p \in Player, n \in Limits : SetMaxPlayers(p, n)
           \/ Progress
  BY <1>9, <1>a DEF SetGoal, SetMaxPlayers, Progress, matchVars, flagVars, ruleVars
<1>10. ASSUME NEW p \in Player, StartMatch(p) \/ ForceStart(p) \/ ForceStartAll(p)
       PROVE  TeamInv'
  BY <1>10, <1>b DEF StartMatch, ForceStart, ForceStartAll, Start, ruleVars, SessionInv, SessionWithinRoom
<1>11. ASSUME NEW p \in Player, GameWaitingPlayers(p) PROVE TeamInv'
  <2>1. loading' = loading \ {p} /\ UNCHANGED <<members, here, mode, team, playing>>
    BY <1>11 DEF GameWaitingPlayers, ruleVars, flagVars
  <2>2. CASE p \in here /\ inMatch
    <3>1. /\ p \in members
          /\ session' = session \cup {p}
          /\ sTeam'[p] = team[p] /\ \A q \in Player \ {p} : sTeam'[q] = sTeam[q]
      BY <1>11, <2>2 DEF GameWaitingPlayers, EnterMatch, TypeInv, TypeOK
    <3>2. EveryoneHasATeam'
      BY <2>1, <3>1 DEF TeamInv, EveryoneHasATeam, IsTeamMode, TypeInv, TypeOK
    <3>3. SessionTeamIsRoomTeam'
      BY <2>1, <3>1 DEF TeamInv, SessionTeamIsRoomTeam, TypeInv, TypeOK
    <3> QED BY <3>2, <3>3 DEF TeamInv
  <2>3. CASE ~inMatch
    BY <1>11, <2>1, <2>3, <1>b DEF GameWaitingPlayers, SessionInv, SessionWithinRoom
  <2>4. CASE p \notin here
    BY <1>11, <2>1, <2>4 DEF GameWaitingPlayers, TeamInv, EveryoneHasATeam, SessionTeamIsRoomTeam,
         IsTeamMode
  <2> QED BY <2>2, <2>3, <2>4
<1>12. ASSUME NEW p \in Player, LeaveGame(p) PROVE TeamInv'
  BY <1>12, QuitMatchTeams DEF LeaveGame, ruleVars
<1>13. CASE MatchTick \/ \E p \in Player : EndedByKill(p) \/ FinishMatch(p)
  BY <1>13, <1>b, FinishSession DEF MatchTick, EndedByKill, FinishMatch, ruleVars
<1>14. CASE UNCHANGED vars
  BY <1>14, <1>a DEF vars, matchVars, ruleVars, flagVars
<1> QED BY <1>1, <1>2, <1>4, <1>5, <1>6, <1>7, <1>8, <1>9, <1>10, <1>11, <1>12, <1>13,
          <1>14 DEF Next

\* The three parts are inductive together.
THEOREM InductiveInvariant == Spec => []IInv
<1>1. Init => IInv
  <2> SUFFICES ASSUME Init PROVE IInv
    OBVIOUS
  <2>1. TypeInv
    BY InitTypes
  <2>2. SessionInv /\ TeamInv
    BY DEF Init, SessionInv, TeamInv, SessionWithinRoom, ListedForSettlementOnce,
         EveryoneHasATeam, SessionTeamIsRoomTeam, Nobody
  <2> QED BY <2>1, <2>2 DEF IInv
<1>2. IInv /\ [Next]_vars => IInv'
  BY TypeStep, SessionStep, TeamStep DEF IInv
<1> QED BY <1>1, <1>2, PTL DEF Spec

\* Departures, whatever else they end, leave nobody behind in the session.
THEOREM SessionCorrect == Spec => []SessionWithinRoom
<1>1. IInv => SessionWithinRoom
  BY DEF IInv, SessionInv
<1> QED BY <1>1, InductiveInvariant, PTL

\* However players come and go, finish() meets each of them at most once.
THEOREM ListedOnceCorrect == Spec => []ListedForSettlementOnce
<1>1. IInv => ListedForSettlementOnce
  BY DEF IInv, SessionInv
<1> QED BY <1>1, InductiveInvariant, PTL

\* In a team mode nobody is without a team, in the room or in the match.
THEOREM EveryoneHasATeamCorrect == Spec => []EveryoneHasATeam
<1>1. IInv => EveryoneHasATeam
  BY DEF IInv, TeamInv
<1> QED BY <1>1, InductiveInvariant, PTL

\* A player who plays does so for the team the room shows him in.
THEOREM SessionTeamCorrect == Spec => []SessionTeamIsRoomTeam
<1>1. IInv => SessionTeamIsRoomTeam
  BY DEF IInv, TeamInv
<1> QED BY <1>1, InductiveInvariant, PTL

-----------------------------------------------------------------------------
(* Match implements Settlement                                             *)

\* Settlement sees only the two lists, whether a match is under way and who
\* was settled.
LEMMA UnseenStep ==
    ASSUME UNCHANGED <<inMatch, session, sSpectating, leavers, settlements>>
    PROVE  UNCHANGED S!vars
  BY DEF S!vars, Taking

\* A player with a part of his own; the others keep theirs.
LEMMA PartChanged ==
    ASSUME NEW p \in Player, NEW part,
           \A q \in Player \ {p} :
              /\ q \in session' \ sSpectating' <=> q \in session \ sSpectating
              /\ leavers'[q] = leavers[q],
           part = Taking'[p]
    PROVE  Taking' = [Taking EXCEPT ![p] = part]
<1>1. \A q \in Player \ {p} : Taking'[q] = Taking[q]
  BY DEF Taking
<1>2. Taking = [q \in Player |-> Taking[q]] /\ Taking' = [q \in Player |-> Taking'[q]]
  BY DEF Taking
<1> QED BY <1>1, <1>2

\* With no match under way nobody has a part in it.
LEMMA NoMatchNoPart ==
    ASSUME SessionWithinRoom, ~inMatch
    PROVE  Taking = S!Out
  BY DEF SessionWithinRoom, Nobody, Taking, S!Out

\* However a match ends, whoever was listed is settled once.
LEMMA FinishImplementsEnd ==
    ASSUME TypeInv, inMatch, NEW last,
           \/ last = Taking
           \/ \E p \in Player : Taking[p] = "in" /\ last = [Taking EXCEPT ![p] = "left"],
           NEW ss, NEW lv \in [Player -> Nat], Finish(ss, lv),
           \A p \in Player : /\ lv[p] \in {0, 1}
                             /\ p \in ss \ sSpectating => lv[p] = 0
                             /\ last[p] = "out" <=> p \notin ss \ sSpectating /\ lv[p] = 0
    PROVE  S!End
<1>1. inMatch' = FALSE /\ Taking' = S!Out
  BY DEF Finish, ClearMatch, Nobody, Taking, S!Out
<1>2. settlements' = [p \in Player |-> lv[p] + IF p \in ss \ sSpectating THEN 1 ELSE 0]
  BY DEF Finish
<1>3. \A p \in Player : lv[p] + (IF p \in ss \ sSpectating THEN 1 ELSE 0)
                           = IF last[p] = "out" THEN 0 ELSE 1
  OBVIOUS
<1>4. settlements' = [p \in Player |-> IF last[p] = "out" THEN 0 ELSE 1]
  BY <1>2, <1>3
<1>5. last \in {Taking} \cup {[Taking EXCEPT ![p] = "left"] :
                                 p \in {q \in Player : Taking[q] = "in"}}
  OBVIOUS
<1> QED BY <1>1, <1>4, <1>5 DEF S!End

\* A departure is that of one who takes part, of one who does not, or the end.
LEMMA QuitMatchImplements ==
    ASSUME TypeInv, SessionInv, NEW p \in Player, QuitMatch(p)
    PROVE  [S!Next]_(S!vars)
<1> DEFINE lv == IF p \in session \ sSpectating THEN [leavers EXCEPT ![p] = @ + 1] ELSE leavers
<1>1. \A q \in Player : leavers[q] \in {0, 1} /\ (q \in session \ sSpectating => leavers[q] = 0)
  BY ListedOnceFacts DEF SessionInv
<1>2. CASE EndsMatch(p)
  <2>1. p \in session \ sSpectating /\ inMatch
    BY <1>2 DEF EndsMatch, SessionInv, SessionWithinRoom, TypeInv, TypeOK
  <2>2. Finish(session \ {p}, lv)
    BY <1>2 DEF QuitMatch
  <2>3. Taking[p] = "in"
    BY <2>1 DEF Taking
  <2>4. lv \in [Player -> Nat]
    BY DEF TypeInv, TypeOK
  <2>5. lv[p] = 1 /\ \A q \in Player \ {p} : lv[q] = leavers[q]
    BY <1>1, <2>1 DEF TypeInv, TypeOK
  <2> DEFINE last == [Taking EXCEPT ![p] = "left"]
  <2>6. last[p] = "left" /\ \A q \in Player \ {p} : last[q] = Taking[q]
    BY DEF Taking
  <2>7. \A q \in Player : /\ lv[q] \in {0, 1}
                          /\ q \in (session \ {p}) \ sSpectating => lv[q] = 0
                          /\ last[q] = "out" <=> q \notin (session \ {p}) \ sSpectating /\ lv[q] = 0
    <3> SUFFICES ASSUME NEW q \in Player
                 PROVE  /\ lv[q] \in {0, 1}
                        /\ q \in (session \ {p}) \ sSpectating => lv[q] = 0
                        /\ last[q] = "out" <=> q \notin (session \ {p}) \ sSpectating /\ lv[q] = 0
      OBVIOUS
    <3>1. CASE q = p
      BY <2>5, <2>6, <3>1
    <3>2. CASE q # p
      <4> HIDE DEF lv, last
      <4> QED BY <1>1, <2>5, <2>6, <3>2 DEF Taking
    <3> QED BY <3>1, <3>2
  <2>8. \E r \in Player : Taking[r] = "in" /\ last = [Taking EXCEPT ![r] = "left"]
    BY <2>3
  <2> HIDE DEF lv, last
  <2>9. S!End
    BY <2>1, <2>2, <2>4, <2>7, <2>8, FinishImplementsEnd
  <2> QED BY <2>9 DEF S!Next
<1>3. CASE ~EndsMatch(p)
  <2>1. /\ session' = session \ {p}
        /\ sSpectating' = sSpectating \ {p}
        /\ leavers' = lv
        /\ UNCHANGED <<inMatch, settlements>>
    BY <1>3 DEF QuitMatch
  <2>2. CASE p \in session \ sSpectating
    <3>1. leavers'[p] = 1 /\ \A q \in Player \ {p} : leavers'[q] = leavers[q]
      BY <1>1, <2>1, <2>2 DEF TypeInv, TypeOK
    <3>2. Taking[p] = "in" /\ Taking'[p] = "left"
      BY <2>1, <2>2, <3>1 DEF Taking
    <3>3. Taking' = [Taking EXCEPT ![p] = "left"]
      BY <2>1, <3>1, <3>2, PartChanged
    <3> QED BY <2>1, <3>2, <3>3 DEF S!Next, S!Depart
  <2>3. CASE p \notin session \ sSpectating
    BY <2>1, <2>3 DEF S!vars, Taking
  <2> QED BY <2>2, <2>3
<1> QED BY <1>2, <1>3

\* Entering is to take part, to give it up for spectating, or neither.
LEMMA EnterMatchImplements ==
    ASSUME TypeInv, SessionInv, NEW p \in Player, inMatch, EnterMatch(p)
    PROVE  [S!Next]_(S!vars)
<1>1. /\ UNCHANGED <<inMatch, settlements>>
      /\ \A q \in Player \ {p} :
            /\ q \in session' \ sSpectating' <=> q \in session \ sSpectating
            /\ leavers'[q] = leavers[q]
  BY DEF EnterMatch, TypeInv, TypeOK
<1>2. leavers[p] \in {0, 1} /\ (p \in session \ sSpectating => leavers[p] = 0)
  BY ListedOnceFacts DEF SessionInv
<1>3. ASSUME Taking'[p] = Taking[p] PROVE UNCHANGED S!vars
  <2>1. Taking' = [Taking EXCEPT ![p] = Taking[p]]
    BY <1>1, <1>3, PartChanged
  <2>2. Taking' = Taking
    BY <2>1 DEF Taking
  <2> QED BY <1>1, <2>2 DEF S!vars
<1>4. CASE p \notin spectating
  <2>1. Taking'[p] = "in"
    BY <1>4 DEF EnterMatch, Taking
  <2>2. Taking' = [Taking EXCEPT ![p] = "in"]
    BY <1>1, <2>1, PartChanged
  <2>3. CASE Taking[p] # "in"
    BY <1>1, <2>2, <2>3 DEF S!Next, S!TakePart
  <2> QED BY <1>3, <2>1, <2>3
<1>5. CASE p \in spectating
  <2>1. p \notin session' \ sSpectating' /\ leavers' = leavers
    BY <1>5 DEF EnterMatch
  <2>2. CASE p \in session \ sSpectating
    <3>1. Taking[p] = "in" /\ Taking'[p] = "out"
      BY <1>2, <2>1, <2>2 DEF Taking
    <3>2. Taking' = [Taking EXCEPT ![p] = "out"]
      BY <1>1, <3>1, PartChanged
    <3> QED BY <1>1, <3>1, <3>2 DEF S!Next, S!GiveUp
  <2>3. CASE p \notin session \ sSpectating
    <3>1. Taking'[p] = Taking[p]
      BY <2>1, <2>3 DEF Taking
    <3> QED BY <1>3, <3>1
  <2> QED BY <2>2, <2>3
<1> QED BY <1>4, <1>5

\* Every step of Match is one of Settlement, or leaves alone what it sees.
LEMMA SettlementStep == IInv /\ [Next]_vars => [S!Next]_(S!vars)
<1> SUFFICES ASSUME TypeInv, SessionInv, [Next]_vars PROVE [S!Next]_(S!vars)
  BY DEF IInv
<1>1. ASSUME NEW p \in Player, NEW m \in Modes, CreateRoom(p, m) PROVE [S!Next]_(S!vars)
  <2>1. inMatch' = FALSE /\ Taking' = S!Out /\ settlements' = settlements
    BY <1>1 DEF CreateRoom, ClearMatch, Nobody, Taking, S!Out
  <2>2. CASE inMatch
    <3>1. \A q \in Player : Taking[q] # "in"
      BY <1>1 DEF CreateRoom, SessionInv, SessionWithinRoom, Taking
    <3> QED BY <2>1, <2>2, <3>1 DEF S!Next, S!Abandon
  <2>3. CASE ~inMatch
    BY <2>1, <2>3, NoMatchNoPart DEF S!vars, SessionInv, TypeInv, TypeOK
  <2> QED BY <2>2, <2>3
<1>2. ASSUME NEW p \in Player,
             \/ JoinRoom(p) \/ Stray(p) \/ CloseRoom(p) \/ Unready(p) \/ Ready(p)
             \/ ReadyInMatch(p) \/ SetMeleeOnly(p) \/ SpectateRequested(p) \/ SpectateApplied(p)
      PROVE  UNCHANGED S!vars
  BY <1>2, UnseenStep DEF JoinRoom, Stray, CloseRoom, Unready, Ready, ReadyInMatch,
       SetMeleeOnly, SpectateRequested, SpectateApplied, matchVars
<1>3. CASE \/ \E p \in Player, t \in {1, 2} : ChangeTeam(p, t)
           \/ \E p \in Player, m \in Modes : SetMode(p, m)
           \/ \E p \in Player, points \in Goals : SetGoal(p, points)
           \/ \E p \in Player, n \in Limits : SetMaxPlayers(p, n)
           \/ Progress
  BY <1>3, UnseenStep DEF ChangeTeam, SetMode, SetGoal, SetMaxPlayers, Progress, matchVars
<1>4. ASSUME NEW p \in Player, LeaveRoom(p) \/ LeaveGame(p) \/ \E q \in Player : KickPlayer(q, p)
      PROVE  [S!Next]_(S!vars)
  BY <1>4, QuitMatchImplements DEF LeaveRoom, KickPlayer, RemovePlayer, LeaveGame
<1>5. ASSUME NEW p \in Player, StartMatch(p) \/ ForceStart(p) \/ ForceStartAll(p)
      PROVE  S!Begin
  <2>1. /\ ~inMatch /\ inMatch' = TRUE
        /\ settlements' = Nobody
        /\ UNCHANGED <<session, sSpectating, leavers>>
    BY <1>5 DEF StartMatch, ForceStart, ForceStartAll, Start
  <2> QED BY <2>1 DEF S!Begin, S!None, Nobody, Taking
<1>6. ASSUME NEW p \in Player, GameWaitingPlayers(p) PROVE [S!Next]_(S!vars)
  <2>1. CASE p \in here /\ inMatch
    BY <1>6, <2>1, EnterMatchImplements DEF GameWaitingPlayers
  <2>2. CASE ~(p \in here /\ inMatch)
    BY <1>6, <2>2, UnseenStep DEF GameWaitingPlayers
  <2> QED BY <2>1, <2>2
<1>7. ASSUME inMatch, Finish(session, leavers) PROVE S!End
  <2>1. \A q \in Player : leavers[q] \in {0, 1} /\ (q \in session \ sSpectating => leavers[q] = 0)
    BY ListedOnceFacts DEF SessionInv
  <2>2. \A q \in Player : Taking[q] = "out" <=> q \notin session \ sSpectating /\ leavers[q] = 0
    BY <2>1 DEF Taking
  <2>3. leavers \in [Player -> Nat]
    BY DEF TypeInv, TypeOK
  <2> QED BY <1>7, <2>1, <2>2, <2>3, FinishImplementsEnd
<1>8. CASE MatchTick \/ \E p \in Player : EndedByKill(p) \/ FinishMatch(p)
  BY <1>8, <1>7 DEF MatchTick, EndedByKill, FinishMatch, S!Next
<1>9. CASE UNCHANGED vars
  BY <1>9, UnseenStep DEF vars, matchVars
<1> QED BY <1>1, <1>2, <1>3, <1>4, <1>5, <1>6, <1>8, <1>9 DEF Next, S!Next

\* Whoever takes part in a match is settled exactly once, when it ends, and
\* nobody else ever is: Match implements Settlement.
THEOREM SettlesOnceCorrect == Spec => SettlesOnce
<1>1. Init => S!Init
  BY DEF Init, S!Init, S!Out, S!None, Nobody, Taking
<1> QED BY <1>1, SettlementStep, InductiveInvariant, PTL DEF Spec, SettlesOnce, S!Spec

-----------------------------------------------------------------------------
\* The balance of the teams.

\* Sets of players have a size.
LEMMA Sizes ==
    ASSUME NEW A \in SUBSET Player
    PROVE  IsFiniteSet(A) /\ Cardinality(A) \in Nat
<1>1. IsFiniteSet(A)
  BY FS_Subset, PlayersAssumption
<1> QED BY <1>1, FS_CardinalityType

LEMMA SmallerSize ==
    ASSUME NEW A \in SUBSET Player, NEW B \in SUBSET A
    PROVE  Cardinality(B) <= Cardinality(A)
BY Sizes, FS_Subset

LEMMA OneMore ==
    ASSUME NEW A \in SUBSET Player, NEW p \in Player
    PROVE  Cardinality(A \cup {p}) <= Cardinality(A) + 1
BY Sizes, FS_AddElement

\* Two teams are not larger than the room they share.
LEMMA DisjointSizes ==
    ASSUME NEW AB \in SUBSET Player, NEW A \in SUBSET AB, NEW B \in SUBSET AB, A \cap B = {}
    PROVE  Cardinality(A) + Cardinality(B) <= Cardinality(AB)
<1>1. Cardinality(A \cup B) = Cardinality(A) + Cardinality(B) - Cardinality({})
  BY Sizes, FS_Union
<1>2. Cardinality(A \cup B) <= Cardinality(AB)
  BY SmallerSize
<1> QED BY <1>1, <1>2, Sizes, FS_EmptySet

\* The places of a room can be shared by two teams of the same size.
LEMMA LimitEven == TypeInv => \E k \in Nat : limit = 2 * k
BY LimitsAssumption DEF TypeInv, TypeOK

\* What TeamsStayEven says of a step and of team t.
Balances(t) ==
    Cardinality(InTeam(t)') > Cardinality(InTeam(t))
        => \/ 2 * Cardinality(InTeam(t)') <= limit'
           \/ 2 * Cardinality(InTeam(t)') <= Cardinality(members') + 1

LEMMA TeamShrinks ==
    ASSUME TypeInv, NEW t \in {1, 2}, InTeam(t)' \subseteq InTeam(t)
    PROVE  Balances(t)
<1>1. InTeam(t) \in SUBSET Player
  BY DEF InTeam, TypeInv, TypeOK
<1>2. Cardinality(InTeam(t)') <= Cardinality(InTeam(t))
  BY <1>1, SmallerSize
<1>3. Cardinality(InTeam(t)) \in Nat /\ Cardinality(InTeam(t)') \in Nat
  BY <1>1, Sizes
<1> QED BY <1>2, <1>3 DEF Balances

\* Who joins gets yellow when it has less than half of the members, else blue; also
\* when he was a member already.
LEMMA JoinBalances ==
    ASSUME TypeInv, TypeInv', NEW p \in Player, JoinRoom(p), NEW t \in {1, 2}
    PROVE  Balances(t)
<1>0. /\ members \in SUBSET Player /\ members' = members \cup {p} /\ limit' = limit
      /\ InTeam(1) \in SUBSET members /\ InTeam(2) \in SUBSET members
      /\ InTeam(1) \cap InTeam(2) = {}
      /\ Cardinality(members) < limit
  BY DEF TypeInv, TypeOK, JoinRoom, InTeam, ruleVars
<1> DEFINE n == Cardinality(members)
           size(u) == Cardinality(InTeam(u))
<1>1. n \in Nat /\ size(1) \in Nat /\ size(2) \in Nat
  BY <1>0, Sizes
<1>2. Cardinality(members') \in Nat /\ Cardinality(members') >= n
  BY <1>0, Sizes, SmallerSize
<1>3. CASE t # AvailableTeam
  <2>1. InTeam(t)' \subseteq InTeam(t)
    BY <1>0, <1>3 DEF JoinRoom, InTeam, TypeInv, TypeOK
  <2> QED BY <2>1, TeamShrinks
<1>4. CASE t = AvailableTeam
  <2>1. InTeam(t)' \in SUBSET (InTeam(t) \cup {p})
    BY <1>0, <1>4 DEF JoinRoom, InTeam, TypeInv, TypeOK
  <2>2. InTeam(t) \cup {p} \in SUBSET Player
    BY <1>0
  <2>3. Cardinality(InTeam(t)') \in Nat /\ Cardinality(InTeam(t)') <= size(t) + 1
    <3>1. Cardinality(InTeam(t)') <= Cardinality(InTeam(t) \cup {p})
      BY <2>1, <2>2, SmallerSize
    <3>2. Cardinality(InTeam(t) \cup {p}) <= size(t) + 1
      BY <1>0, OneMore
    <3> QED BY <3>1, <3>2, <2>1, <2>2, <1>1, Sizes
  <2>4. CASE t = 2
    <3>1. 2 * size(2) < n
      BY <1>4, <2>4, <1>1 DEF AvailableTeam
    <3> QED BY <3>1, <2>3, <2>4, <1>1, <1>2 DEF Balances
  <2>5. CASE t = 1
    <3>1. 2 * size(2) >= n
      BY <1>4, <2>5, <1>1 DEF AvailableTeam
    <3>2. size(1) + size(2) <= n
      BY <1>0, DisjointSizes
    <3>3. PICK k \in Nat : limit = 2 * k
      BY LimitEven
    <3>4. 2 * size(1) <= n
      BY <3>1, <3>2, <1>1
    <3>5. CASE 2 * size(1) = n
      <4>1. 2 * (size(1) + 1) <= limit
        BY <3>3, <3>5, <1>0, <1>1
      <4> QED BY <4>1, <2>3, <2>5, <1>0, <1>1, <3>3 DEF Balances
    <3>6. CASE 2 * size(1) < n
      BY <3>6, <2>3, <2>5, <1>1, <1>2 DEF Balances
    <3> QED BY <3>4, <3>5, <3>6, <1>1
  <2> QED BY <2>4, <2>5
<1> QED BY <1>3, <1>4

\* A player chooses a team that has less than half of the places.
LEMMA ChangeBalances ==
    ASSUME TypeInv, NEW p \in Player, NEW u \in {1, 2}, ChangeTeam(p, u), NEW t \in {1, 2}
    PROVE  Balances(t)
<1>0. /\ InTeam(t) \in SUBSET Player /\ limit' = limit
      /\ InTeam(t)' \in SUBSET (InTeam(t) \cup (IF t = u THEN {p} ELSE {}))
  BY DEF TypeInv, TypeOK, ChangeTeam, InTeam, ruleVars
<1>1. CASE t # u
  BY <1>0, <1>1, TeamShrinks
<1>2. CASE t = u
  <2>1. Cardinality(InTeam(t)) \in Nat /\ Cardinality(InTeam(t)') \in Nat
    BY <1>0, Sizes
  <2>2. Cardinality(InTeam(t)') <= Cardinality(InTeam(t)) + 1
    <3>1. InTeam(t) \cup {p} \in SUBSET Player
      BY <1>0
    <3>2. Cardinality(InTeam(t)') <= Cardinality(InTeam(t) \cup {p})
      BY <1>0, <1>2, <3>1, SmallerSize
    <3> QED BY <3>1, <3>2, <1>0, <2>1, Sizes, OneMore
  <2>3. Cardinality(InTeam(t)) * 2 < limit
    BY <1>2 DEF ChangeTeam, TeamAvailable
  <2>4. PICK k \in Nat : limit = 2 * k
    BY LimitEven
  <2> QED BY <2>1, <2>2, <2>3, <2>4, <1>0 DEF Balances
<1> QED BY <1>1, <1>2

\* A change of mode fills yellow up to half of the members, and blue with the rest.
LEMMA BalanceBalances ==
    ASSUME TypeInv, NEW m \in Modes, team' \in Balanced(m), members' = members,
           NEW t \in {1, 2}
    PROVE  Balances(t)
<1>0. /\ members \in SUBSET Player
      /\ \A u \in 0..2 : InTeam(u) \in SUBSET members
      /\ \A u, v \in 0..2 : u # v => InTeam(u) \cap InTeam(v) = {}
  BY DEF TypeInv, TypeOK, InTeam
<1> DEFINE n == Cardinality(members)
           size(u) == Cardinality(InTeam(u))
<1>1. n \in Nat /\ size(0) \in Nat /\ size(1) \in Nat /\ size(2) \in Nat
  BY <1>0, Sizes
<1>2. CASE ~IsTeamMode(m)
  <2>1. InTeam(t)' = {}
    BY <1>2 DEF Balanced, NoTeam, InTeam, TypeInv, TypeOK
  <2> QED BY <2>1, TeamShrinks
<1>3. CASE IsTeamMode(m)
  <2> DEFINE missing == IF 2 * size(2) >= n THEN 0 ELSE (n + 1) \div 2 - size(2)
             new == IF missing < size(0) THEN missing ELSE size(0)
  <2>1. PICK ys \in SUBSET InTeam(0) :
            /\ Cardinality(ys) = new
            /\ team' = [p \in Player |-> IF p \notin InTeam(0) THEN team[p]
                                         ELSE IF p \in ys THEN 2 ELSE 1]
    BY <1>3 DEF Balanced
  <2> DEFINE blue == InTeam(1) \cup (InTeam(0) \ ys)
             yellow == InTeam(2) \cup ys
  <2>2. InTeam(1)' = blue /\ InTeam(2)' = yellow
    BY <2>1, <1>0 DEF InTeam, TypeInv, TypeOK
  <2>3. blue \in SUBSET members /\ yellow \in SUBSET members /\ blue \cap yellow = {}
    BY <1>0
  <2>4. Cardinality(blue) \in Nat /\ Cardinality(yellow) \in Nat
    BY <2>3, <1>0, Sizes
  <2>5. Cardinality(blue) + Cardinality(yellow) <= n
    BY <2>3, <1>0, DisjointSizes
  <2>6. Cardinality(yellow) = size(2) + new
    <3>1. Cardinality(yellow) = size(2) + Cardinality(ys) - Cardinality(InTeam(2) \cap ys)
      BY <1>0, Sizes, FS_Union
    <3>2. InTeam(2) \cap ys = {}
      BY <1>0
    <3>3. Cardinality(InTeam(2) \cap ys) = 0
      BY <3>2, FS_EmptySet
    <3>4. Cardinality(ys) = new
      BY <2>1
    <3>5. new \in Nat
      BY <1>1
    <3> HIDE DEF yellow, new, size
    <3> QED BY <3>1, <3>3, <3>4, <3>5, <1>1
  <2>7. missing \in Nat /\ new \in Nat
    BY <1>1
  <2> HIDE DEF blue, yellow
  <2>8. CASE t = 2
    <3>1. CASE missing = 0
      BY <3>1, <2>2, <2>4, <2>6, <2>8, <1>1 DEF Balances
    <3>2. CASE missing # 0
      <4>1. Cardinality(yellow) <= (n + 1) \div 2
        BY <3>2, <2>6, <1>1
      <4> QED BY <4>1, <2>2, <2>4, <2>8, <1>1 DEF Balances
    <3> QED BY <3>1, <3>2
  <2>9. CASE t = 1
    <3>1. CASE new = size(0)
      <4>1. ys = InTeam(0)
        BY <3>1, <2>1, <1>0, FS_Subset, Sizes
      <4>2. InTeam(1)' = InTeam(1)
        BY <4>1, <2>2 DEF blue
      <4> QED BY <4>2, <2>9, TeamShrinks
    <3>2. CASE new # size(0)
      <4>1. new = missing
        BY <3>2
      <4>2. 2 * Cardinality(yellow) >= n
        BY <4>1, <2>6, <1>1
      <4> QED BY <4>2, <2>2, <2>4, <2>5, <2>9, <1>1 DEF Balances
    <3> QED BY <3>1, <3>2
  <2> QED BY <2>8, <2>9
<1> QED BY <1>2, <1>3

\* Every step that is not the creation of a room keeps the teams even.
LEMMA TeamsStep ==
    ASSUME TypeInv, TypeInv', [Next]_vars, members # {}, NEW t \in {1, 2}
    PROVE  Balances(t)
<1>1. ASSUME NEW p \in Player, JoinRoom(p) PROVE Balances(t)
  BY <1>1, JoinBalances
<1>2. ASSUME NEW p \in Player, NEW u \in {1, 2}, ChangeTeam(p, u) PROVE Balances(t)
  BY <1>2, ChangeBalances
<1>3. ASSUME NEW p \in Player, NEW m \in Modes, SetMode(p, m) PROVE Balances(t)
  BY <1>3, BalanceBalances DEF SetMode
<1>4. ASSUME NEW p \in Player, RemovePlayer(p) PROVE Balances(t)
  <2>1. InTeam(t)' \subseteq InTeam(t)
    BY <1>4 DEF RemovePlayer, InTeam, TypeInv, TypeOK
  <2> QED BY <2>1, TeamShrinks
<1>5. ASSUME UNCHANGED <<members, team>> PROVE Balances(t)
  <2>1. InTeam(t)' = InTeam(t)
    BY <1>5 DEF InTeam
  <2> QED BY <2>1, TeamShrinks
<1>6. ASSUME NEW p \in Player, \/ Stray(p) \/ CloseRoom(p) \/ Unready(p) \/ Ready(p)
                               \/ ReadyInMatch(p) \/ SetMeleeOnly(p) \/ StartMatch(p)
                               \/ ForceStart(p) \/ ForceStartAll(p) \/ GameWaitingPlayers(p)
                               \/ LeaveGame(p) \/ SpectateRequested(p) \/ SpectateApplied(p)
                               \/ EndedByKill(p) \/ FinishMatch(p)
      PROVE  Balances(t)
  BY <1>5, <1>6 DEF Stray, CloseRoom, Unready, Ready, ReadyInMatch, SetMeleeOnly, StartMatch,
       ForceStart, ForceStartAll, Start, GameWaitingPlayers, LeaveGame, SpectateRequested,
       SpectateApplied, EndedByKill, FinishMatch
<1>7. ASSUME \/ \E p \in Player, points \in Goals : SetGoal(p, points)
             \/ \E p \in Player, k \in Limits : SetMaxPlayers(p, k)
             \/ Progress \/ MatchTick \/ UNCHANGED vars
      PROVE  Balances(t)
  BY <1>5, <1>7 DEF SetGoal, SetMaxPlayers, Progress, MatchTick, vars
<1>8. \A p \in Player, m \in Modes : ~CreateRoom(p, m)
  BY DEF CreateRoom
<1> QED BY <1>1, <1>2, <1>3, <1>4, <1>6, <1>7, <1>8 DEF Next, LeaveRoom, KickPlayer

\* No team grows beyond half of the places or of those who are in the room, whatever
\* the master changes and whoever leaves, strays, or joins again.
THEOREM TeamsStayEvenCorrect == Spec => TeamsStayEven
<1>1. TypeInv /\ TypeInv' /\ [Next]_vars
        => [members # {} => \A t \in {1, 2} :
              Cardinality(InTeam(t)') > Cardinality(InTeam(t))
                  => \/ 2 * Cardinality(InTeam(t)') <= limit'
                     \/ 2 * Cardinality(InTeam(t)') <= Cardinality(members') + 1]_vars
  BY TeamsStep DEF Balances
<1>2. Spec => []TypeInv
  BY InitTypes, TypeStep, PTL DEF Spec
<1> QED BY <1>1, <1>2, PTL DEF Spec, TeamsStayEven
=============================================================================
