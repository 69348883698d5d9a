---------------------------- MODULE CombatProofs ----------------------------
(***************************************************************************)
(* The safety properties of Combat, for any players, objects, teams and    *)
(* order of ticks, and any number of effects.                              *)
(***************************************************************************)
EXTENDS Combat, TLAPS

Maybe == Obj \cup {None}

Matches ==
    [players : [Player -> Maybe], leavers : SUBSET Obj, started : SUBSET Obj, dead : SUBSET Obj,
     respawning : SUBSET Obj, effects : [Obj -> SUBSET Maybe], forsaken : SUBSET Obj,
     holder : Maybe, isReset : BOOLEAN, dropAge : {"none", "new", "over 20"}, away : BOOLEAN,
     vip : [Team -> Maybe], next : [Team -> Maybe],
     vipAge : [Team -> {"none", "new", "over 50", "over 100"}]]

TypeInv ==
    /\ mode \in Mode
    /\ match \in Matches
    /\ used \in SUBSET Obj
    /\ spectating \in SUBSET Obj
    /\ current \in [Player -> Maybe]
    /\ toTick \in SUBSET Player
    /\ astray \in SUBSET Obj

\* Of an object that is not there nothing is known, so that it can be used anew.
UsedInv ==
    /\ match.dead \subseteq used
    /\ InMatch(match) \subseteq used
    /\ \A p \in Player : current[p] # None => current[p] \in used

\* Nobody leaves the match while its players are ticked.
TickInv == \A p \in toTick : match.players[p] # None

\* The properties, of a match between two steps of a tick as well; only a VIP that is
\* there grows old.
Waits(m) == (InMatch(m) \cap m.dead) \subseteq m.respawning \cup m.forsaken

EssenceOK(m) ==
    /\ m.holder # None => m.holder \in InMatch(m) \cup astray
    /\ mode = "PTE" /\ m.holder # None /\ m.holder \in InMatch(m) \cap m.dead =>
          m.holder \in m.forsaken

VipsOK(m) ==
    \A t \in Team :
        /\ m.vip[t] # None =>
            /\ m.vip[t] \in InMatch(m) \cup astray
            /\ TeamOf[Owner(m.vip[t])] = t
            /\ m.vip[t] # m.next[t]
        /\ m.next[t] # None => TeamOf[Owner(m.next[t])] = t /\ m.vip[t] # None
        /\ m.vipAge[t] # "none" => m.vip[t] # None

IInv == TypeInv /\ UsedInv /\ TickInv /\ Waits(match) /\ EssenceOK(match) /\ VipsOK(match)

-----------------------------------------------------------------------------
(* What the operators do                                                   *)

\* The properties of a match that are about its players.
Sound(m) == m \in Matches /\ Waits(m) /\ EssenceOK(m) /\ VipsOK(m)

LEMMA NewMatchIs == Sound(NewMatch) /\ NewMatch.dead = {} /\ InMatch(NewMatch) = {}
<1>1. /\ NewMatch \in Matches
      /\ NewMatch.dead = {} /\ NewMatch.holder = None
      /\ NewMatch.players = [p \in Player |-> None]
      /\ NewMatch.vip = [t \in Team |-> None] /\ NewMatch.next = [t \in Team |-> None]
      /\ NewMatch.vipAge = [t \in Team |-> "none"]
  BY DEF NewMatch, Matches, Maybe
<1> HIDE DEF NewMatch
<1>2. InMatch(NewMatch) = {}
  BY <1>1 DEF InMatch
<1> QED BY <1>1, <1>2 DEF Sound, Waits, EssenceOK, VipsOK

LEMMA InMatchIs ==
    ASSUME NEW m \in Matches
    PROVE  /\ InMatch(m) \subseteq Obj
           /\ \A p \in Player : m.players[p] # None => m.players[p] \in InMatch(m)
           /\ \A n \in Matches : n.players = m.players => InMatch(n) = InMatch(m)
<1>1. m.players \in [Player -> Maybe]
  BY DEF Matches
<1> QED BY <1>1 DEF InMatch, Maybe

\* Setting a VIP of the team's keeps what must hold of VIPs.
LEMMA SetVipSound ==
    ASSUME NEW m \in Matches, NEW t \in Team, NEW o \in Maybe, VipsOK(m), EssenceOK(m),
           o # None => o \in InMatch(m) /\ TeamOf[Owner(o)] = t
    PROVE  /\ SetVip(m, t, o) \in Matches /\ SetVip(m, t, o).players = m.players
           /\ EssenceOK(SetVip(m, t, o)) /\ VipsOK(SetVip(m, t, o))
           /\ SetVip(m, t, o).dead = m.dead /\ SetVip(m, t, o).respawning = m.respawning
           /\ SetVip(m, t, o).forsaken = m.forsaken
           /\ SetVip(m, t, o).holder = m.holder
           /\ SetVip(m, t, o).vip = [m.vip EXCEPT ![t] = o]
<1> DEFINE n == SetVip(m, t, o)
<1>0. /\ None \in Maybe
      /\ m.vip \in [Team -> Maybe] /\ m.next \in [Team -> Maybe]
      /\ m.vipAge \in [Team -> {"none", "new", "over 50", "over 100"}]
  BY DEF Matches, Maybe
<1>1. /\ n.vip = [m.vip EXCEPT ![t] = o] /\ n.next = [m.next EXCEPT ![t] = None]
      /\ n.vipAge = [m.vipAge EXCEPT ![t] = IF o = None THEN "none" ELSE "new"]
      /\ n.players = m.players /\ n.dead = m.dead /\ n.respawning = m.respawning
      /\ n.forsaken = m.forsaken /\ n.holder = m.holder
  BY DEF SetVip, Matches
<1>2. n \in Matches
  <2>1. /\ [m.vip EXCEPT ![t] = o] \in [Team -> Maybe] /\ [m.next EXCEPT ![t] = None] \in [Team -> Maybe]
        /\ [m.vipAge EXCEPT ![t] = IF o = None THEN "none" ELSE "new"]
              \in [Team -> {"none", "new", "over 50", "over 100"}]
    BY <1>0
  <2> QED BY <2>1 DEF SetVip, Matches
<1> HIDE DEF n
<1>3. InMatch(n) = InMatch(m)
  BY <1>1, <1>2, InMatchIs
<1>4. EssenceOK(n)
  BY <1>1, <1>3 DEF EssenceOK
<1>5. VipsOK(n)
  <2> SUFFICES ASSUME NEW u \in Team
               PROVE  /\ n.vip[u] # None =>
                           /\ n.vip[u] \in InMatch(n) \cup astray
                           /\ TeamOf[Owner(n.vip[u])] = u
                           /\ n.vip[u] # n.next[u]
                      /\ n.next[u] # None => TeamOf[Owner(n.next[u])] = u /\ n.vip[u] # None
                      /\ n.vipAge[u] # "none" => n.vip[u] # None
    BY DEF VipsOK
  <2>1. CASE u = t
    BY <1>0, <1>1, <1>3, <2>1
  <2>2. CASE u # t
    <3>1. n.vip[u] = m.vip[u] /\ n.next[u] = m.next[u] /\ n.vipAge[u] = m.vipAge[u]
      BY <1>0, <1>1, <2>2
    <3> QED BY <1>3, <3>1 DEF VipsOK
  <2> QED BY <2>1, <2>2
<1> QED BY <1>1, <1>2, <1>4, <1>5 DEF n

\* Who starts or respawns is alive, whoever becomes the VIP.
LEMMA SpawnSound ==
    ASSUME NEW m \in Matches, NEW o \in InMatch(m), EssenceOK(m), VipsOK(m),
           (InMatch(m) \cap m.dead) \ {o} \subseteq m.respawning \cup m.forsaken
    PROVE  Sound(SpawnPlayer(m, o)) /\ SpawnPlayer(m, o).players = m.players
           /\ SpawnPlayer(m, o).dead \subseteq m.dead
<1> DEFINE alive == [m EXCEPT !.dead = @ \ {o}]
<1>0. /\ alive \in Matches /\ alive.players = m.players /\ alive.dead = m.dead \ {o}
      /\ alive.respawning = m.respawning /\ alive.forsaken = m.forsaken /\ alive.holder = m.holder
      /\ alive.vip = m.vip /\ alive.next = m.next /\ alive.vipAge = m.vipAge
  BY DEF Matches
<1>1. SpawnPlayer(m, o) = IF mode # "VIP" THEN alive
                          ELSE IF BecomesVip(alive, o, 1) THEN SetVip(alive, 1, o)
                          ELSE IF BecomesVip(alive, o, 2) THEN SetVip(alive, 2, o)
                          ELSE alive
  BY DEF SpawnPlayer
<1> HIDE DEF alive
<1>2. o \in Obj /\ o # None /\ InMatch(alive) = InMatch(m)
  BY <1>0, InMatchIs DEF InMatch
<1>3. Sound(alive)
  <2>1. Waits(alive) /\ EssenceOK(alive)
    BY <1>0, <1>2 DEF Waits, EssenceOK
  <2>2. VipsOK(alive)
    BY <1>0, <1>2 DEF VipsOK
  <2> QED BY <1>0, <2>1, <2>2 DEF Sound
<1>4. ASSUME NEW t \in Team, BecomesVip(alive, o, t)
      PROVE  /\ Sound(SetVip(alive, t, o)) /\ SetVip(alive, t, o).players = m.players
             /\ SetVip(alive, t, o).dead = m.dead \ {o}
  <2>1. TeamOf[Owner(o)] = t
    BY <1>2, <1>3, <1>4 DEF BecomesVip, Sound, VipsOK
  <2> DEFINE n == SetVip(alive, t, o)
  <2>2. /\ n \in Matches /\ n.players = alive.players /\ EssenceOK(n) /\ VipsOK(n)
        /\ n.dead = alive.dead /\ n.respawning = alive.respawning /\ n.forsaken = alive.forsaken
    <3>1. o \in Maybe /\ o \in InMatch(alive) /\ VipsOK(alive) /\ EssenceOK(alive)
      BY <1>2, <1>3 DEF Maybe, Sound
    <3>2. \A v \in Maybe : (v # None => v \in InMatch(alive) /\ TeamOf[Owner(v)] = t) =>
            LET x == SetVip(alive, t, v)
            IN /\ x \in Matches /\ x.players = alive.players /\ EssenceOK(x) /\ VipsOK(x)
               /\ x.dead = alive.dead /\ x.respawning = alive.respawning /\ x.forsaken = alive.forsaken
      BY <1>0, <3>1, SetVipSound
    <3> QED BY <2>1, <3>1, <3>2
  <2> HIDE DEF n
  <2>3. Waits(n)
    BY <1>0, <1>3, <2>2, InMatchIs DEF Waits, Sound
  <2>4. Sound(n)
    BY <2>2, <2>3 DEF Sound
  <2> QED BY <1>0, <2>2, <2>4 DEF n
<1> QED BY <1>0, <1>1, <1>3, <1>4 DEF Team

LEMMA SetEssenceHolderIs ==
    ASSUME NEW m \in Matches, NEW o \in Maybe
    PROVE  LET n == SetEssenceHolder(m, o)
           IN /\ n \in Matches /\ n.players = m.players /\ n.dead = m.dead
              /\ n.respawning = m.respawning /\ n.forsaken = m.forsaken
              /\ n.holder = o /\ n.vip = m.vip /\ n.next = m.next /\ n.vipAge = m.vipAge
  BY DEF SetEssenceHolder, Matches, Maybe

\* Who is killed drops the essence and waits for his respawn.
LEMMA KillSound ==
    ASSUME NEW m, Sound(m), NEW o \in Obj, None \notin Obj
    PROVE  LET n == OnPlayerKill([m EXCEPT !.dead = @ \cup {o}], o)
           IN Sound(n) /\ n.players = m.players /\ n.dead = m.dead \cup {o}
<1> DEFINE k == [m EXCEPT !.dead = @ \cup {o}]
           d == IF mode = "PTE" /\ o = k.holder THEN SetEssenceHolder(k, None) ELSE k
           n == OnPlayerKill(k, o)
<1>0. m \in Matches /\ Waits(m) /\ EssenceOK(m) /\ VipsOK(m)
  BY DEF Sound
<1>1. /\ k \in Matches /\ k.players = m.players /\ k.dead = m.dead \cup {o}
      /\ k.respawning = m.respawning /\ k.forsaken = m.forsaken /\ k.holder = m.holder
      /\ k.vip = m.vip /\ k.next = m.next /\ k.vipAge = m.vipAge
  BY <1>0 DEF Matches
<1>2. n = [d EXCEPT !.effects[o] = {}, !.respawning = @ \cup {o}]
  BY DEF OnPlayerKill
<1> HIDE DEF k
<1>3. /\ d \in Matches /\ d.players = m.players /\ d.dead = m.dead \cup {o}
      /\ d.respawning = m.respawning /\ d.forsaken = m.forsaken
      /\ d.holder = IF mode = "PTE" /\ o = m.holder THEN None ELSE m.holder
      /\ d.vip = m.vip /\ d.next = m.next /\ d.vipAge = m.vipAge
  BY <1>1, SetEssenceHolderIs DEF Maybe
<1> HIDE DEF d
<1>4. /\ n \in Matches /\ n.players = m.players /\ n.dead = m.dead \cup {o}
      /\ n.respawning = m.respawning \cup {o} /\ n.forsaken = m.forsaken /\ n.holder = d.holder
      /\ n.vip = m.vip /\ n.next = m.next /\ n.vipAge = m.vipAge
  <2>1. d.effects \in [Obj -> SUBSET Maybe] /\ d.respawning \in SUBSET Obj
    BY <1>3 DEF Matches
  <2>2. [d.effects EXCEPT ![o] = {}] \in [Obj -> SUBSET Maybe]
    BY <2>1
  <2>3. n.effects = [d.effects EXCEPT ![o] = {}] /\ n.respawning = d.respawning \cup {o}
    BY <1>2, <1>3 DEF Matches
  <2> QED BY <1>2, <1>3, <2>1, <2>2 DEF Matches
<1> HIDE DEF n
<1>5. InMatch(n) = InMatch(m)
  BY <1>0, <1>4, InMatchIs
<1>6. Waits(n)
  BY <1>0, <1>4, <1>5 DEF Waits
<1>7. EssenceOK(n)
  BY <1>0, <1>3, <1>4, <1>5 DEF EssenceOK
<1>8. VipsOK(n)
  BY <1>0, <1>4, <1>5 DEF VipsOK
<1> QED BY <1>4, <1>6, <1>7, <1>8 DEF Sound, n, k
-----------------------------------------------------------------------------
(* A tick                                                                  *)

LEMMA StartsSound ==
    ASSUME NEW m, Sound(m), NEW o \in InMatch(m), NEW n \in Starts(m, o)
    PROVE  Sound(n) /\ n.players = m.players /\ n.dead \subseteq m.dead
<1> DEFINE s == [m EXCEPT !.started = @ \cup {o}]
<1>0. m \in Matches /\ o \in Obj
  BY InMatchIs DEF Sound
<1>1. /\ s \in Matches /\ s.players = m.players /\ s.dead = m.dead
      /\ s.respawning = m.respawning /\ s.forsaken = m.forsaken /\ s.holder = m.holder
      /\ s.vip = m.vip /\ s.next = m.next /\ s.vipAge = m.vipAge
  BY <1>0 DEF Matches
<1>2. n = m \/ n = SpawnPlayer(s, o)
  BY DEF Starts
<1> HIDE DEF s
<1>3. InMatch(s) = InMatch(m)
  BY <1>0, <1>1, InMatchIs
<1>4. Waits(s) /\ EssenceOK(s) /\ VipsOK(s)
  <2>1. Waits(s) /\ EssenceOK(s)
    BY <1>1, <1>3 DEF Waits, EssenceOK, Sound
  <2>2. VipsOK(s)
    BY <1>1, <1>3 DEF VipsOK, Sound
  <2> QED BY <2>1, <2>2
<1>5. Sound(SpawnPlayer(s, o)) /\ SpawnPlayer(s, o).players = s.players
      /\ SpawnPlayer(s, o).dead \subseteq s.dead
  <2>1. (InMatch(s) \cap s.dead) \ {o} \subseteq s.respawning \cup s.forsaken
    BY <1>4 DEF Waits
  <2> QED BY <1>1, <1>3, <1>4, <2>1, SpawnSound
<1> QED BY <1>1, <1>2, <1>5

LEMMA RespawnsSound ==
    ASSUME NEW m, Sound(m), NEW o \in InMatch(m), NEW n \in Respawns(m, o)
    PROVE  Sound(n) /\ n.players = m.players /\ n.dead \subseteq m.dead
<1> DEFINE s == [m EXCEPT !.respawning = @ \ {o}]
<1>0. m \in Matches /\ o \in Obj
  BY InMatchIs DEF Sound
<1>1. /\ s \in Matches /\ s.players = m.players /\ s.dead = m.dead
      /\ s.respawning = m.respawning \ {o} /\ s.forsaken = m.forsaken /\ s.holder = m.holder
      /\ s.vip = m.vip /\ s.next = m.next /\ s.vipAge = m.vipAge
  BY <1>0 DEF Matches
<1>2. n = m \/ n = SpawnPlayer(s, o)
  BY DEF Respawns
<1> HIDE DEF s
<1>3. InMatch(s) = InMatch(m)
  BY <1>0, <1>1, InMatchIs
<1>4. /\ EssenceOK(s)
      /\ (InMatch(s) \cap s.dead) \ {o} \subseteq s.respawning \cup s.forsaken
  BY <1>1, <1>3 DEF Waits, EssenceOK, Sound
<1>5. VipsOK(s)
  BY <1>1, <1>3 DEF VipsOK, Sound
<1> QED BY <1>1, <1>2, <1>3, <1>4, <1>5, SpawnSound

LEMMA HurtSound ==
    ASSUME NEW m, Sound(m), NEW o \in InMatch(m), NEW n \in Hurt(m, o)
    PROVE  Sound(n) /\ n.players = m.players /\ n.dead \subseteq m.dead \cup {o}
<1>0. m \in Matches /\ o \in Obj /\ None \notin Obj
  BY InMatchIs, ObjectAssumption DEF Sound
<1>1. \/ n = m
      \/ \E e \in m.effects[o] : n = [m EXCEPT !.effects[o] = @ \ {e}]
      \/ n = OnPlayerKill([m EXCEPT !.dead = @ \cup {o}], o)
      \/ n = [m EXCEPT !.dead = @ \cup {o}, !.forsaken = @ \cup {o}]
  BY DEF Hurt
<1>2. CASE n = m
  BY <1>2
<1>3. CASE \E e \in m.effects[o] : n = [m EXCEPT !.effects[o] = @ \ {e}]
  <2>1. PICK e \in m.effects[o] : n = [m EXCEPT !.effects[o] = @ \ {e}]
    BY <1>3
  <2> DEFINE f == [m.effects EXCEPT ![o] = @ \ {e}]
  <2>2. f \in [Obj -> SUBSET Maybe]
    BY <1>0 DEF Matches
  <2>3. n.effects = f /\ n = [m EXCEPT !.effects = f]
    BY <1>0, <2>1 DEF Matches
  <2> HIDE DEF f
  <2>4. /\ n \in Matches /\ n.players = m.players /\ n.dead = m.dead
        /\ n.respawning = m.respawning /\ n.forsaken = m.forsaken /\ n.holder = m.holder
        /\ n.vip = m.vip /\ n.next = m.next /\ n.vipAge = m.vipAge
    BY <1>0, <2>2, <2>3 DEF Matches
  <2>5. InMatch(n) = InMatch(m)
    BY <1>0, <2>4, InMatchIs
  <2>6. Waits(n) /\ EssenceOK(n)
    BY <2>4, <2>5 DEF Waits, EssenceOK, Sound
  <2>7. VipsOK(n)
    BY <2>4, <2>5 DEF VipsOK, Sound
  <2> QED BY <2>4, <2>6, <2>7 DEF Sound
<1>4. CASE n = OnPlayerKill([m EXCEPT !.dead = @ \cup {o}], o)
  BY <1>0, <1>4, KillSound
<1>5. CASE n = [m EXCEPT !.dead = @ \cup {o}, !.forsaken = @ \cup {o}]
  <2>1. /\ n \in Matches /\ n.players = m.players /\ n.dead = m.dead \cup {o}
        /\ n.respawning = m.respawning /\ n.forsaken = m.forsaken \cup {o} /\ n.holder = m.holder
        /\ n.vip = m.vip /\ n.next = m.next /\ n.vipAge = m.vipAge
    BY <1>0, <1>5 DEF Matches
  <2>2. InMatch(n) = InMatch(m)
    BY <1>0, <2>1, InMatchIs
  <2>3. Waits(n) /\ EssenceOK(n)
    BY <2>1, <2>2 DEF Waits, EssenceOK, Sound
  <2>4. VipsOK(n)
    BY <2>1, <2>2 DEF VipsOK, Sound
  <2> QED BY <2>1, <2>3, <2>4 DEF Sound
<1> QED BY <1>1, <1>2, <1>3, <1>4, <1>5

\* A player's tick keeps the properties of the match, and kills nobody else.
LEMMA PlayerTicksSound ==
    ASSUME NEW m, Sound(m), NEW o \in InMatch(m), NEW n \in PlayerTicks(m, o)
    PROVE  Sound(n) /\ n.players = m.players /\ n.dead \subseteq m.dead \cup {o}
<1>1. PICK b \in Starts(m, o) : \E h \in Hurt(b, o) : n \in Respawns(h, o)
  BY DEF PlayerTicks
<1>2. PICK h \in Hurt(b, o) : n \in Respawns(h, o)
  BY <1>1
<1>3. Sound(b) /\ b.players = m.players /\ b.dead \subseteq m.dead /\ o \in InMatch(b)
  BY StartsSound, InMatchIs DEF Sound
<1>4. Sound(h) /\ h.players = m.players /\ h.dead \subseteq m.dead \cup {o} /\ o \in InMatch(h)
  <2>1. Sound(h) /\ h.players = b.players /\ h.dead \subseteq b.dead \cup {o}
    BY <1>3, HurtSound
  <2> QED BY <1>3, <2>1, InMatchIs DEF Sound
<1>5. Sound(n) /\ n.players = h.players /\ n.dead \subseteq h.dead
  BY <1>2, <1>4, RespawnsSound
<1> QED BY <1>4, <1>5
-----------------------------------------------------------------------------
(* The steps                                                               *)

LEMMA MatchSound ==
    ASSUME IInv
    PROVE  Sound(match) /\ match \in Matches /\ None \notin Obj
  BY ObjectAssumption DEF IInv, TypeInv, Sound

\* A step that neither adds nor removes players keeps the invariant if it keeps the
\* properties of the match.
LEMMA ContinueInv ==
    ASSUME IInv, NEW m, Continue(m), Sound(m), m.players = match.players, m.dead \subseteq used,
           toTick' \in SUBSET Player, \A p \in toTick' : match.players[p] # None,
           astray' = astray
    PROVE  IInv'
<1>1. match' = m /\ UNCHANGED <<mode, used, spectating, current, astray>> /\ m \in Matches
  BY DEF Continue, Sound
<1>2. TypeInv'
  BY <1>1 DEF IInv, TypeInv
<1>3. UsedInv'
  <2>1. InMatch(match)' = InMatch(match)
    BY <1>1, MatchSound, InMatchIs DEF InMatch
  <2> QED BY <1>1, <2>1 DEF IInv, UsedInv
<1>4. TickInv'
  BY <1>1 DEF TickInv
<1>5. Waits(match)' /\ EssenceOK(match)' /\ VipsOK(match)'
  BY <1>1 DEF Sound, Waits, EssenceOK, VipsOK, InMatch
<1> QED BY <1>2, <1>3, <1>4, <1>5 DEF IInv

\* A change of what no property of the match is about.
LEMMA IdleInv ==
    ASSUME IInv, NEW m \in Matches, Continue(m), m.players = match.players, m.dead = match.dead,
           m.respawning = match.respawning, m.forsaken = match.forsaken,
           m.holder \in {match.holder, None}, m.vip = match.vip, m.next = match.next,
           \A t \in Team : m.vipAge[t] # "none" => match.vipAge[t] # "none",
           toTick' = toTick, astray' = astray
    PROVE  IInv'
<1>1. InMatch(m) = InMatch(match)
  BY MatchSound, InMatchIs
<1>2. Waits(m) /\ EssenceOK(m)
  BY <1>1, MatchSound DEF Sound, Waits, EssenceOK
<1>3. VipsOK(m)
  BY <1>1, MatchSound DEF Sound, VipsOK
<1>4. Sound(m) /\ m.dead \subseteq used
  BY <1>2, <1>3 DEF Sound, IInv, UsedInv
<1> QED BY <1>4, ContinueInv DEF IInv, TypeInv, TickInv

\* Room::finish and RoomSession::finish.
LEMMA FinishInv ==
    ASSUME IInv, Idle, Finish
    PROVE  IInv'
<1>1. /\ mode' \in Mode /\ match' = NewMatch /\ used' = {} /\ spectating' = {}
      /\ current' = [p \in Player |-> None] /\ astray' = {} /\ toTick' = {}
  BY DEF Finish, Idle
<1>2. /\ NewMatch \in Matches /\ NewMatch.dead = {} /\ InMatch(NewMatch) = {} /\ NewMatch.holder = None
      /\ NewMatch.vip = [t \in Team |-> None] /\ NewMatch.next = [t \in Team |-> None]
      /\ NewMatch.vipAge = [t \in Team |-> "none"]
  BY NewMatchIs DEF Sound, NewMatch
<1>3. InMatch(match)' = {}
  BY <1>1, <1>2 DEF InMatch
<1>4. TypeInv' /\ UsedInv' /\ TickInv'
  BY <1>1, <1>2, <1>3 DEF TypeInv, UsedInv, TickInv, Maybe
<1>5. Waits(match)' /\ EssenceOK(match)' /\ VipsOK(match)'
  BY <1>1, <1>2, <1>3 DEF Waits, EssenceOK, VipsOK
<1> QED BY <1>4, <1>5 DEF IInv

\* Who comes is alive; the essence and the VIPs of whom he replaces are astray.
LEMMA AddInv ==
    ASSUME IInv, NEW p \in Player, NEW spectates \in BOOLEAN, AddPlayer(p, spectates)
    PROVE  IInv'
<1> DEFINE o == CHOOSE x \in Of[p] : x \notin used
           leavers == IF spectates THEN match.leavers ELSE match.leavers \ (match.leavers \cap Of[p])
<1>0. /\ match' = [match EXCEPT !.players[p] = o, !.leavers = leavers]
      /\ used' = used \cup {o}
      /\ spectating' = IF spectates THEN spectating \cup {o} ELSE spectating
      /\ current' = [current EXCEPT ![p] = o]
      /\ astray' = astray \cup ({match.players[p]} \ {None})
      /\ mode' = mode /\ toTick = {} /\ toTick' = {}
      /\ Of[p] \ used # {}
  BY DEF AddPlayer, Idle
<1>1. o \in Obj /\ o \notin used /\ o # None
  <2>1. o \in Of[p] /\ o \notin used
    BY <1>0
  <2> HIDE DEF o
  <2> QED BY <2>1, ObjectAssumption DEF Obj
<1> HIDE DEF o
<1>2. match.players \in [Player -> Maybe] /\ match \in Matches /\ leavers \in SUBSET Obj
  BY MatchSound DEF Matches
<1> HIDE DEF leavers
<1>3. /\ match' \in Matches /\ match'.players = [match.players EXCEPT ![p] = o]
      /\ match'.dead = match.dead /\ match'.respawning = match.respawning
      /\ match'.forsaken = match.forsaken /\ match'.holder = match.holder /\ match'.vip = match.vip
      /\ match'.next = match.next /\ match'.vipAge = match.vipAge
  <2>1. [match.players EXCEPT ![p] = o] \in [Player -> Maybe]
    BY <1>1, <1>2 DEF Maybe
  <2> QED BY <1>0, <1>2, <2>1 DEF Matches
<1>4. InMatch(match)' \subseteq InMatch(match) \cup {o} /\ InMatch(match) \cup astray \subseteq InMatch(match)' \cup astray'
  BY <1>0, <1>1, <1>2, <1>3 DEF InMatch
<1>5. TypeInv'
  <2>1. current' \in [Player -> Maybe] /\ astray' \in SUBSET Obj
    BY <1>0, <1>1, <1>2 DEF IInv, TypeInv, Maybe
  <2> QED BY <1>0, <1>1, <1>3, <2>1 DEF IInv, TypeInv
<1>6. UsedInv'
  BY <1>0, <1>3, <1>4 DEF IInv, UsedInv, TypeInv
<1>7. TickInv'
  BY <1>0 DEF TickInv
<1>8. o \notin match.dead
  BY <1>1 DEF IInv, UsedInv
<1>9. Waits(match)' /\ EssenceOK(match)'
  BY <1>0, <1>3, <1>4, <1>8, MatchSound DEF Sound, Waits, EssenceOK
<1>10. VipsOK(match)'
  BY <1>0, <1>3, <1>4, MatchSound DEF Sound, VipsOK
<1> QED BY <1>5, <1>6, <1>7, <1>9, <1>10 DEF IInv

\* Who leaves takes neither the essence nor his role as a VIP with him.
LEMMA LeftIs ==
    ASSUME IInv, NEW p \in Player, match.players[p] # None
    PROVE  LET n == Left(match, p)
               o == match.players[p]
           IN /\ n \in Matches /\ n.players = [match.players EXCEPT ![p] = None]
              /\ n.dead = match.dead /\ n.respawning = match.respawning /\ n.forsaken = match.forsaken
              /\ n.holder = IF match.holder = o THEN None ELSE match.holder
              /\ \A t \in Team : /\ n.vip[t] \in {match.vip[t], None} \ {o}
                                 /\ n.vip[t] # None => n.next[t] = match.next[t]
                                 /\ n.next[t] # None => n.next[t] = match.next[t]
                                 /\ n.vip[t] = None /\ match.vip[t] # None => n.next[t] = None /\ n.vipAge[t] = "none"
                                 /\ n.vipAge[t] # "none" => match.vipAge[t] # "none"
<1> DEFINE o == match.players[p]
           d == IF o = match.holder THEN SetEssenceHolder(match, None) ELSE match
           r == IF o = d.vip[1] THEN SetVip(d, 1, None)
                ELSE IF o = d.vip[2] THEN SetVip(d, 2, None) ELSE d
           n == Left(match, p)
           leavers == IF o \in spectating THEN r.leavers ELSE r.leavers \cup {o}
<1>0. /\ match \in Matches /\ o \in Obj /\ match.players \in [Player -> Maybe] /\ o \in InMatch(match)
      /\ EssenceOK(match) /\ VipsOK(match) /\ 1 \in Team /\ 2 \in Team /\ None \in Maybe
  BY MatchSound, InMatchIs DEF Sound, Matches, Team, Maybe
<1>1. n = [r EXCEPT !.players[p] = None, !.leavers = leavers]
  <2>1. d.vip = match.vip
    BY <1>0, SetEssenceHolderIs
  <2> QED BY <2>1 DEF Left
<1> HIDE DEF o
<1>2. /\ d \in Matches /\ d.players = match.players /\ d.dead = match.dead
      /\ d.respawning = match.respawning /\ d.forsaken = match.forsaken
      /\ d.holder = (IF o = match.holder THEN None ELSE match.holder)
      /\ d.vip = match.vip /\ d.next = match.next /\ d.vipAge = match.vipAge
  BY <1>0, SetEssenceHolderIs
<1> HIDE DEF d
<1>3. InMatch(d) = InMatch(match) /\ EssenceOK(d) /\ VipsOK(d)
  <2>1. InMatch(d) = InMatch(match)
    BY <1>0, <1>2, InMatchIs
  <2>2. EssenceOK(d)
    BY <1>0, <1>2, <2>1 DEF EssenceOK
  <2>3. VipsOK(d)
    BY <1>0, <1>2, <2>1 DEF VipsOK
  <2> QED BY <2>1, <2>2, <2>3
<1>4. ASSUME NEW t \in Team
      PROVE  LET v == SetVip(d, t, None)
             IN /\ v \in Matches /\ v.players = d.players /\ v.dead = d.dead
                /\ v.respawning = d.respawning /\ v.forsaken = d.forsaken /\ v.holder = d.holder
                /\ v.vip = [d.vip EXCEPT ![t] = None] /\ v.next = [d.next EXCEPT ![t] = None]
                /\ v.vipAge = [d.vipAge EXCEPT ![t] = "none"]
  <2>1. /\ d.vip \in [Team -> Maybe] /\ d.next \in [Team -> Maybe]
        /\ d.vipAge \in [Team -> {"none", "new", "over 50", "over 100"}]
    BY <1>2 DEF Matches
  <2>2. /\ [d.vip EXCEPT ![t] = None] \in [Team -> Maybe] /\ [d.next EXCEPT ![t] = None] \in [Team -> Maybe]
        /\ [d.vipAge EXCEPT ![t] = "none"] \in [Team -> {"none", "new", "over 50", "over 100"}]
    BY <1>0, <2>1
  <2> QED BY <1>2, <2>2 DEF SetVip, Matches
<1>5. /\ r \in Matches /\ r.players = d.players /\ r.dead = d.dead
      /\ r.respawning = d.respawning /\ r.forsaken = d.forsaken /\ r.holder = d.holder
  BY <1>0, <1>2, <1>4
<1>6. d.vip \in [Team -> Maybe] /\ d.next \in [Team -> Maybe] /\ DOMAIN d.vipAge = Team
  BY <1>2 DEF Matches
<1>7. \/ r = d /\ o # d.vip[1] /\ o # d.vip[2]
      \/ \E t \in Team : r = SetVip(d, t, None) /\ o = d.vip[t]
  BY <1>0
<1> HIDE DEF r, leavers
<1>8. ASSUME NEW t \in Team
      PROVE  /\ r.vip[t] \in {d.vip[t], None} \ {o}
             /\ r.vip[t] # None => r.next[t] = d.next[t]
             /\ r.next[t] # None => r.next[t] = d.next[t]
             /\ r.vip[t] = None /\ d.vip[t] # None => r.next[t] = None /\ r.vipAge[t] = "none"
             /\ r.vipAge[t] # "none" => d.vipAge[t] # "none"
  <2>1. o # None
    BY <1>0, MatchSound
  <2>2. CASE r = d /\ o # d.vip[1] /\ o # d.vip[2]
    BY <2>2 DEF Team
  <2>3. CASE \E u \in Team : r = SetVip(d, u, None) /\ o = d.vip[u]
    <3>1. PICK u \in Team : r = SetVip(d, u, None) /\ o = d.vip[u]
      BY <2>3
    <3>2. /\ r.vip = [d.vip EXCEPT ![u] = None] /\ r.next = [d.next EXCEPT ![u] = None]
          /\ r.vipAge = [d.vipAge EXCEPT ![u] = "none"]
      BY <1>4, <3>1
    <3>3. u # t => d.vip[t] # o
      BY <1>3, <2>1, <3>1 DEF VipsOK
    <3> QED BY <1>6, <2>1, <3>2, <3>3
  <2> QED BY <1>7, <2>2, <2>3
<1>9. /\ n \in Matches /\ n.players = [r.players EXCEPT ![p] = None] /\ n.dead = r.dead
      /\ n.respawning = r.respawning /\ n.forsaken = r.forsaken /\ n.holder = r.holder
      /\ n.vip = r.vip /\ n.next = r.next /\ n.vipAge = r.vipAge
  <2>1. [r.players EXCEPT ![p] = None] \in [Player -> Maybe]
    BY <1>0, <1>2, <1>5
  <2>2. leavers \in SUBSET Obj
    BY <1>0, <1>5 DEF Matches, leavers
  <2> HIDE DEF n
  <2> QED BY <1>1, <1>5, <2>1, <2>2 DEF Matches
<1> HIDE DEF n
<1> QED BY <1>2, <1>5, <1>8, <1>9 DEF n, o

LEMMA RemoveInv ==
    ASSUME IInv, NEW p \in Player, RemovePlayer(p)
    PROVE  IInv'
<1> DEFINE o == match.players[p]
           n == Left(match, p)
<1>0. /\ Idle /\ o # None /\ match \in Matches /\ match.players \in [Player -> Maybe]
      /\ \/ Finish
         \/ match' = n /\ UNCHANGED <<mode, used, spectating, current, astray>>
  BY MatchSound DEF RemovePlayer, Continue, Matches
<1>1. CASE Finish
  BY <1>0, <1>1, FinishInv
<1>2. CASE match' = n /\ UNCHANGED <<mode, used, spectating, current, astray>>
  <2>1. /\ n \in Matches /\ n.players = [match.players EXCEPT ![p] = None]
        /\ n.dead = match.dead /\ n.respawning = match.respawning /\ n.forsaken = match.forsaken
        /\ n.holder = IF match.holder = o THEN None ELSE match.holder
        /\ \A t \in Team : /\ n.vip[t] \in {match.vip[t], None} \ {o}
                           /\ n.vip[t] # None => n.next[t] = match.next[t]
                           /\ n.next[t] # None => n.next[t] = match.next[t]
                           /\ n.vip[t] = None /\ match.vip[t] # None => n.next[t] = None /\ n.vipAge[t] = "none"
                           /\ n.vipAge[t] # "none" => match.vipAge[t] # "none"
    BY <1>0, LeftIs
  <2> HIDE DEF n
  <2>2. InMatch(match)' = InMatch(n)
    BY <1>2 DEF InMatch
  <2>3. InMatch(n) \subseteq InMatch(match) /\ InMatch(match) \subseteq InMatch(n) \cup {o}
    <3>1. \A q \in Player : n.players[q] = IF q = p THEN None ELSE match.players[q]
      BY <1>0, <2>1
    <3> QED BY <3>1 DEF InMatch
  <2>4. TypeInv' /\ UsedInv' /\ TickInv'
    BY <1>0, <1>2, <2>1, <2>2, <2>3 DEF IInv, TypeInv, UsedInv, TickInv, Idle
  <2>5. Waits(n) /\ EssenceOK(n)
    BY <2>1, <2>3, MatchSound DEF Sound, Waits, EssenceOK
  <2>6. VipsOK(n)
    <3> SUFFICES ASSUME NEW t \in Team
                 PROVE  /\ n.vip[t] # None =>
                             /\ n.vip[t] \in InMatch(n) \cup astray
                             /\ TeamOf[Owner(n.vip[t])] = t
                             /\ n.vip[t] # n.next[t]
                        /\ n.next[t] # None => TeamOf[Owner(n.next[t])] = t /\ n.vip[t] # None
                        /\ n.vipAge[t] # "none" => n.vip[t] # None
      BY DEF VipsOK
    <3>1. /\ match.vip[t] # None =>
                /\ match.vip[t] \in InMatch(match) \cup astray
                /\ TeamOf[Owner(match.vip[t])] = t
                /\ match.vip[t] # match.next[t]
          /\ match.next[t] # None => TeamOf[Owner(match.next[t])] = t /\ match.vip[t] # None
          /\ match.vipAge[t] # "none" => match.vip[t] # None
      BY MatchSound DEF Sound, VipsOK
    <3> QED BY <2>1, <2>3, <3>1
  <2> QED BY <1>2, <2>2, <2>4, <2>5, <2>6 DEF IInv, Waits, EssenceOK, VipsOK
<1> QED BY <1>0, <1>1, <1>2

\* An object that nothing refers to is neither in the match nor has a role in it.
LEMMA VanishInv ==
    ASSUME IInv, NEW o \in Obj, Vanish(o)
    PROVE  IInv'
<1> DEFINE left == [x \in Obj |-> IF x = o THEN {}
                                  ELSE {IF y = o THEN None ELSE y : y \in match.effects[x]}]
<1>0. /\ match \in Matches /\ None \notin Obj /\ toTick = {} /\ toTick' = {} /\ mode' = mode
      /\ o \notin Referred(match) /\ used' = used \ {o} /\ spectating' = spectating \ {o}
      /\ current' = [p \in Player |-> IF current[p] = o THEN None ELSE current[p]]
      /\ astray' = astray \ {o}
      /\ match' = [match EXCEPT
            !.started = @ \ {o}, !.dead = @ \ {o}, !.respawning = @ \ {o}, !.forsaken = @ \ {o},
            !.effects = left]
  BY MatchSound DEF Vanish, Idle
<1>1. left \in [Obj -> SUBSET Maybe]
  <2>1. \A x \in Obj : match.effects[x] \subseteq Maybe
    BY <1>0 DEF Matches
  <2>2. \A x \in Obj : {IF y = o THEN None ELSE y : y \in match.effects[x]} \subseteq Maybe
    BY <2>1 DEF Maybe
  <2> QED BY <2>2
<1> HIDE DEF left
<1>2. /\ match' \in Matches /\ match'.players = match.players /\ match'.dead = match.dead \ {o}
      /\ match'.respawning = match.respawning \ {o} /\ match'.forsaken = match.forsaken \ {o}
      /\ match'.holder = match.holder /\ match'.vip = match.vip /\ match'.next = match.next
      /\ match'.vipAge = match.vipAge
  BY <1>0, <1>1 DEF Matches
<1>3. InMatch(match)' = InMatch(match)
  BY <1>2 DEF InMatch
<1>4. /\ o \notin InMatch(match) /\ o # match.holder
      /\ \A t \in Team : o # match.vip[t]
  BY <1>0 DEF Referred
<1>5. TypeInv'
  BY <1>0, <1>2 DEF IInv, TypeInv, Maybe
<1>6. UsedInv' /\ TickInv'
  BY <1>0, <1>2, <1>3, <1>4 DEF IInv, UsedInv, TickInv
<1>7. Waits(match)' /\ EssenceOK(match)'
  BY <1>0, <1>2, <1>3, <1>4, MatchSound DEF Sound, Waits, EssenceOK
<1>8. VipsOK(match)'
  BY <1>0, <1>2, <1>3, <1>4, MatchSound DEF Sound, VipsOK
<1> QED BY <1>5, <1>6, <1>7, <1>8 DEF IInv

LEMMA PickUpInv ==
    ASSUME IInv, NEW p \in Player, PickUp(p)
    PROVE  IInv'
<1> DEFINE o == current[p]
           n == SetEssenceHolder(match, o)
<1>0. /\ o # None /\ o \notin match.dead /\ o \in Maybe /\ match \in Matches
      /\ match' = n /\ UNCHANGED <<mode, used, spectating, current, toTick>>
      /\ astray' = IF o \in InMatch(match) THEN astray ELSE astray \cup {o}
      /\ o \in Obj
  BY MatchSound DEF PickUp, Sends, Continue, Idle, IInv, TypeInv, Maybe
<1> HIDE DEF o
<1>1. /\ n \in Matches /\ n.players = match.players /\ n.dead = match.dead
      /\ n.respawning = match.respawning /\ n.forsaken = match.forsaken /\ n.holder = o
      /\ n.vip = match.vip /\ n.next = match.next /\ n.vipAge = match.vipAge
  BY <1>0, SetEssenceHolderIs
<1> HIDE DEF n
<1>2. InMatch(match)' = InMatch(match)
  BY <1>0, <1>1 DEF InMatch
<1>3. TypeInv' /\ UsedInv' /\ TickInv'
  BY <1>0, <1>1, <1>2 DEF IInv, TypeInv, UsedInv, TickInv
<1>4. Waits(match)' /\ EssenceOK(match)'
  BY <1>0, <1>1, <1>2, MatchSound DEF Sound, Waits, EssenceOK
<1>5. VipsOK(match)'
  BY <1>0, <1>1, <1>2, MatchSound DEF Sound, VipsOK
<1> QED BY <1>3, <1>4, <1>5 DEF IInv

\* The other events of the clients.
LEMMA HitIs ==
    ASSUME IInv, NEW p \in Player, NEW o \in Hit(p)
    PROVE  o \in used
<1>1. PICK q \in Mortal[mode] : o = Target(p, q) /\ o # None
  BY DEF Hit
<1>2. q \in Player
  BY PlayerAssumption DEF IInv, TypeInv
<1>3. CASE p = q
  BY <1>1, <1>3 DEF Target, IInv, UsedInv
<1>4. CASE p # q
  BY <1>1, <1>2, <1>4, MatchSound, InMatchIs DEF Target, IInv, UsedInv
<1> QED BY <1>3, <1>4
LEMMA HarmlessEventsInv ==
    ASSUME IInv, NEW p \in Player,
           \/ \E o \in Obj : AddEffect(p, o)
           \/ Drop(p)
           \/ Throw(p)
    PROVE  IInv'
<1>0. match \in Matches /\ None \in Maybe
  BY MatchSound DEF Maybe
<1>1. CASE \E o \in Obj : AddEffect(p, o)
  <2>1. PICK o \in Obj : AddEffect(p, o)
    BY <1>1
  <2> DEFINE hurt == [match.effects EXCEPT ![o] = @ \cup {current[p]}]
             m == [match EXCEPT !.effects = hurt]
  <2>2. hurt \in [Obj -> SUBSET Maybe]
    <3>1. match.effects \in [Obj -> SUBSET Maybe] /\ current[p] \in Maybe
      BY <1>0 DEF IInv, TypeInv, Matches
    <3> QED BY <3>1
  <2>3. Continue(m) /\ toTick' = toTick /\ astray' = astray
    <3>1. [match EXCEPT !.effects[o] = @ \cup {current[p]}] = m
      BY <1>0 DEF Matches
    <3> QED BY <2>1, <3>1 DEF AddEffect, Idle
  <2> HIDE DEF hurt
  <2>4. /\ m \in Matches /\ m.players = match.players /\ m.dead = match.dead
        /\ m.respawning = match.respawning /\ m.forsaken = match.forsaken /\ m.holder = match.holder
        /\ m.vip = match.vip /\ m.next = match.next /\ m.vipAge = match.vipAge
    BY <1>0, <2>2 DEF Matches
  <2> HIDE DEF m
  <2> QED BY <2>3, <2>4, IdleInv
<1>2. CASE Drop(p)
  <2> DEFINE m == [match EXCEPT !.away = TRUE]
  <2>1. Continue(m) /\ toTick' = toTick /\ astray' = astray
    BY <1>2 DEF Drop, Idle
  <2>2. /\ m \in Matches /\ m.players = match.players /\ m.dead = match.dead
        /\ m.respawning = match.respawning /\ m.forsaken = match.forsaken /\ m.holder = match.holder
        /\ m.vip = match.vip /\ m.next = match.next /\ m.vipAge = match.vipAge
    BY <1>0 DEF Matches
  <2> HIDE DEF m
  <2> QED BY <2>1, <2>2, IdleInv
<1>3. CASE Throw(p)
  <2> DEFINE m == SetEssenceHolder(match, None)
  <2>1. Continue(m) /\ toTick' = toTick /\ astray' = astray
    BY <1>3 DEF Throw, Idle
  <2>2. /\ m \in Matches /\ m.players = match.players /\ m.dead = match.dead
        /\ m.respawning = match.respawning /\ m.forsaken = match.forsaken /\ m.holder = None
        /\ m.vip = match.vip /\ m.next = match.next /\ m.vipAge = match.vipAge
    BY <1>0, SetEssenceHolderIs
  <2> HIDE DEF m
  <2> QED BY <2>1, <2>2, IdleInv
<1> QED BY <1>1, <1>2, <1>3

LEMMA ResetEssenceIs ==
    ASSUME NEW m \in Matches
    PROVE  LET n == ResetEssence(m)
           IN /\ n \in Matches /\ n.players = m.players /\ n.dead = m.dead
              /\ n.respawning = m.respawning /\ n.forsaken = m.forsaken /\ n.holder = m.holder
              /\ n.vip = m.vip /\ n.next = m.next /\ n.vipAge = m.vipAge
  BY DEF ResetEssence, Matches

\* A weapon or a fall kills.
LEMMA DeathInv ==
    ASSUME IInv, NEW o \in Obj, Kill(o) \/ Fall(o)
    PROVE  IInv'
<1> DEFINE k == OnPlayerKill([match EXCEPT !.dead = @ \cup {o}], o)
           f == IF o = match.holder THEN ResetEssence(match) ELSE match
           l == OnPlayerKill([f EXCEPT !.dead = @ \cup {o}], o)
<1>0. match \in Matches /\ Sound(match) /\ None \notin Obj /\ match.dead \subseteq used
  BY MatchSound DEF IInv, UsedInv
<1>1. /\ toTick = {} /\ toTick' = {} /\ astray' = astray
      /\ \E p \in Player : o \in Hit(p)
      /\ Continue(k) \/ Continue(l)
  BY DEF Kill, Fall, Idle
<1>2. o \in used
  BY <1>1, HitIs
<1> HIDE DEF f
<1>3. Sound(f) /\ f.players = match.players /\ f.dead = match.dead
  <2>1. /\ f \in Matches /\ f.players = match.players /\ f.dead = match.dead
        /\ f.respawning = match.respawning /\ f.forsaken = match.forsaken /\ f.holder = match.holder
        /\ f.vip = match.vip /\ f.next = match.next /\ f.vipAge = match.vipAge
    BY <1>0, ResetEssenceIs DEF f
  <2>2. InMatch(f) = InMatch(match)
    BY <1>0, <2>1, InMatchIs
  <2>3. Waits(f) /\ EssenceOK(f)
    BY <1>0, <2>1, <2>2 DEF Waits, EssenceOK, Sound
  <2>4. VipsOK(f)
    BY <1>0, <2>1, <2>2 DEF VipsOK, Sound
  <2> QED BY <2>1, <2>3, <2>4 DEF Sound
<1>4. Sound(k) /\ k.players = match.players /\ k.dead = match.dead \cup {o}
  BY <1>0, KillSound
<1>5. Sound(l) /\ l.players = match.players /\ l.dead = match.dead \cup {o}
  BY <1>0, <1>3, KillSound
<1> HIDE DEF k, l
<1>6. PICK x \in {k, l} : Continue(x)
  BY <1>1
<1> QED BY <1>0, <1>1, <1>2, <1>4, <1>5, <1>6, ContinueInv

LEMMA TimeInv ==
    ASSUME IInv, EssenceAges \/ \E t \in Team : VipAges(t)
    PROVE  IInv'
<1>0. match \in Matches
  BY MatchSound
<1>1. CASE EssenceAges
  <2> DEFINE m == [match EXCEPT !.dropAge = "over 20"]
  <2>1. Continue(m) /\ toTick' = toTick /\ astray' = astray
    BY <1>1 DEF EssenceAges
  <2>2. /\ m \in Matches /\ m.players = match.players /\ m.dead = match.dead
        /\ m.respawning = match.respawning /\ m.forsaken = match.forsaken /\ m.holder = match.holder
        /\ m.vip = match.vip /\ m.next = match.next /\ m.vipAge = match.vipAge
    BY <1>0 DEF Matches
  <2> HIDE DEF m
  <2> QED BY <2>1, <2>2, IdleInv
<1>2. CASE \E t \in Team : VipAges(t)
  <2>1. PICK t \in Team : VipAges(t)
    BY <1>2
  <2> DEFINE age == [match.vipAge EXCEPT ![t] = IF @ = "new" THEN "over 50" ELSE "over 100"]
             m == [match EXCEPT !.vipAge = age]
  <2>2. match.vipAge \in [Team -> {"none", "new", "over 50", "over 100"}]
    BY <1>0 DEF Matches
  <2>3. Continue(m) /\ toTick' = toTick /\ astray' = astray /\ match.vipAge[t] # "none"
    <3>1. [match EXCEPT !.vipAge[t] = IF @ = "new" THEN "over 50" ELSE "over 100"] = m
      BY <1>0 DEF Matches
    <3> QED BY <2>1, <3>1 DEF VipAges
  <2>4. /\ age \in [Team -> {"none", "new", "over 50", "over 100"}]
        /\ \A u \in Team : age[u] # "none" => match.vipAge[u] # "none"
    BY <2>2, <2>3
  <2> HIDE DEF age
  <2>5. /\ m \in Matches /\ m.players = match.players /\ m.dead = match.dead
        /\ m.respawning = match.respawning /\ m.forsaken = match.forsaken /\ m.holder = match.holder
        /\ m.vip = match.vip /\ m.next = match.next /\ m.vipAge = age
    BY <1>0, <2>4 DEF Matches
  <2> HIDE DEF m
  <2> QED BY <2>3, <2>4, <2>5, IdleInv
<1> QED BY <1>1, <1>2

\* The next VIP is looked for among those of the team who are not VIPs, and only
\* while the team has a VIP.
LEMMA TickOfModeSound ==
    ASSUME IInv, NEW m \in IF mode = "PTE" THEN {TickOfEssence(match)} ELSE TicksOfVip(match)
    PROVE  Sound(m) /\ m.players = match.players /\ m.dead = match.dead
<1>0. match \in Matches /\ Sound(match) /\ None \notin Obj
  BY MatchSound
<1>1. CASE mode = "PTE"
  <2>1. /\ m \in Matches /\ m.players = match.players /\ m.dead = match.dead
        /\ m.respawning = match.respawning /\ m.forsaken = match.forsaken /\ m.holder = match.holder
        /\ m.vip = match.vip /\ m.next = match.next /\ m.vipAge = match.vipAge
    BY <1>0, <1>1, ResetEssenceIs DEF TickOfEssence
  <2>2. InMatch(m) = InMatch(match)
    BY <1>0, <2>1, InMatchIs
  <2>3. Waits(m) /\ EssenceOK(m)
    BY <1>0, <2>1, <2>2 DEF Waits, EssenceOK, Sound
  <2>4. VipsOK(m)
    BY <1>0, <2>1, <2>2 DEF VipsOK, Sound
  <2> QED BY <2>1, <2>3, <2>4 DEF Sound
<1>2. CASE mode # "PTE"
  <2>1. PICK blue \in Found(match, 1), yellow \in Found(match, 2) :
            m = [match EXCEPT !.next = [t \in Team |-> IF t = 1 THEN blue ELSE yellow]]
    BY <1>2 DEF TicksOfVip
  <2> DEFINE next == [t \in Team |-> IF t = 1 THEN blue ELSE yellow]
  <2>2. ASSUME NEW t \in Team
        PROVE  /\ next[t] \in Found(match, t)
               /\ next[t] \in Maybe
               /\ next[t] # None => /\ TeamOf[Owner(next[t])] = t /\ match.vip[t] # None
                                    /\ next[t] # match.vip[t]
    <3>1. next[t] \in Found(match, t)
      BY <2>1 DEF Team
    <3> HIDE DEF next
    <3>2. CASE next[t] = match.next[t]
      <4>1. match.next \in [Team -> Maybe]
        BY <1>0 DEF Matches
      <4> QED BY <1>0, <3>1, <3>2, <4>1 DEF Sound, VipsOK
    <3>3. CASE next[t] # match.next[t]
      <4>1. Looks(match, t) /\ (next[t] = None \/ next[t] \in FindEligibleVip(match, t))
        BY <3>1, <3>3 DEF Found
      <4>2. match.vip[t] # None
        BY <1>0, <4>1 DEF Looks, Sound, VipsOK
      <4> QED BY <1>0, <3>1, <4>1, <4>2, InMatchIs DEF FindEligibleVip, Maybe
    <3> QED BY <3>2, <3>3
  <2>3. next \in [Team -> Maybe] /\ m = [match EXCEPT !.next = next]
    BY <2>1, <2>2
  <2> HIDE DEF next
  <2>4. /\ m \in Matches /\ m.players = match.players /\ m.dead = match.dead
        /\ m.respawning = match.respawning /\ m.forsaken = match.forsaken /\ m.holder = match.holder
        /\ m.vip = match.vip /\ m.next = next /\ m.vipAge = match.vipAge
    BY <1>0, <2>3 DEF Matches
  <2>5. InMatch(m) = InMatch(match)
    BY <1>0, <2>4, InMatchIs
  <2>6. Waits(m) /\ EssenceOK(m)
    BY <1>0, <2>4, <2>5 DEF Waits, EssenceOK, Sound
  <2>7. VipsOK(m)
    BY <1>0, <2>2, <2>4, <2>5 DEF VipsOK, Sound
  <2> QED BY <2>4, <2>6, <2>7 DEF Sound
<1> QED BY <1>1, <1>2

LEMMA TicksInv ==
    ASSUME IInv, Tick \/ TickPlayer
    PROVE  IInv'
<1>0. match \in Matches /\ Sound(match) /\ match.dead \subseteq used /\ InMatch(match) \subseteq used
  BY MatchSound DEF IInv, UsedInv
<1>1. CASE Tick
  <2>1. PICK m \in IF mode = "PTE" THEN {TickOfEssence(match)} ELSE TicksOfVip(match) : Continue(m)
    BY <1>1 DEF Tick
  <2>2. toTick' = {p \in Player : HasToTick(p)} /\ astray' = astray
    BY <1>1 DEF Tick
  <2>3. \A p \in toTick' : match.players[p] # None
    BY <2>2 DEF HasToTick
  <2>4. Sound(m) /\ m.players = match.players /\ m.dead = match.dead
    BY <2>1, TickOfModeSound
  <2> QED BY <1>0, <2>1, <2>2, <2>3, <2>4, ContinueInv
<1>2. CASE TickPlayer
  <2>1. PICK p \in toTick : /\ \E m \in PlayerTicks(match, match.players[p]) : Continue(m)
                            /\ toTick' = toTick \ {p}
    BY <1>2 DEF TickPlayer
  <2>2. PICK m \in PlayerTicks(match, match.players[p]) : Continue(m)
    BY <2>1
  <2>3. p \in Player /\ match.players[p] # None /\ astray' = astray
        /\ toTick' \in SUBSET Player /\ \A q \in toTick' : match.players[q] # None
    BY <1>2, <2>1 DEF IInv, TypeInv, TickInv, TickPlayer
  <2>4. match.players[p] \in InMatch(match)
    BY <1>0, <2>3, InMatchIs
  <2>5. Sound(m) /\ m.players = match.players /\ m.dead \subseteq match.dead \cup {match.players[p]}
    BY <1>0, <2>2, <2>4, PlayerTicksSound
  <2> QED BY <1>0, <2>2, <2>3, <2>4, <2>5, ContinueInv
<1> QED BY <1>1, <1>2

-----------------------------------------------------------------------------
(* The theorems                                                            *)

LEMMA InitInv == Init => IInv
<1> SUFFICES ASSUME Init PROVE IInv
  OBVIOUS
<1>1. /\ match = NewMatch /\ Sound(NewMatch) /\ NewMatch.dead = {} /\ InMatch(NewMatch) = {}
  BY NewMatchIs DEF Init
<1> QED BY <1>1 DEF Init, IInv, TypeInv, UsedInv, TickInv, Sound, Maybe

LEMMA NextInv == IInv /\ [Next]_vars => IInv'
<1> SUFFICES ASSUME IInv, [Next]_vars PROVE IInv'
  OBVIOUS
<1>1. CASE UNCHANGED vars
  BY <1>1 DEF vars, IInv, TypeInv, UsedInv, TickInv, Waits, EssenceOK, VipsOK, InMatch
<1>2. CASE \E p \in Player, spectates \in BOOLEAN : AddPlayer(p, spectates)
  BY <1>2, AddInv
<1>3. CASE \E p \in Player : RemovePlayer(p)
  BY <1>3, RemoveInv
<1>4. CASE \E p \in Player : PickUp(p)
  BY <1>4, PickUpInv
<1>5. CASE \E p \in Player : Drop(p) \/ Throw(p) \/ \E o \in Obj : AddEffect(p, o)
  BY <1>5, HarmlessEventsInv
<1>6. CASE \E o \in Obj : Kill(o) \/ Fall(o)
  BY <1>6, DeathInv
<1>7. CASE \E o \in Obj : Vanish(o)
  BY <1>7, VanishInv
<1>8. CASE EssenceAges \/ \E t \in Team : VipAges(t)
  BY <1>8, TimeInv
<1>9. CASE Tick \/ TickPlayer
  BY <1>9, TicksInv
<1>10. CASE TickEnds
  BY <1>10, FinishInv DEF TickEnds
<1> QED BY <1>1, <1>2, <1>3, <1>4, <1>5, <1>6, <1>7, <1>8, <1>9, <1>10 DEF Next

LEMMA Invariant == Spec => []IInv
  BY InitInv, NextInv, PTL DEF Spec

\* Who is dead in the match waits for his respawn, unless somebody whose object is
\* gone killed him (RoomSessionPlayer::tick, PlayerEffectManager::tick).
THEOREM DeadRespawnCorrect == Spec => []DeadRespawn
<1>1. IInv => DeadRespawn
  BY DEF IInv, Waits, DeadRespawn
<1> QED BY <1>1, Invariant, PTL

\* Whoever carries the essence is in the match and alive, but for the three cases
\* (CGHitEssence, RoomSession::addPlayer, PlayerEffectManager::tick).
THEOREM EssenceCarriedCorrect == Spec => []EssenceCarried
<1>1. IInv => EssenceCarried
  BY DEF IInv, EssenceOK, EssenceCarried
<1> QED BY <1>1, Invariant, PTL

\* A VIP is in the match and of his team, and its next VIP is another of the team
\* (Vip::tick, RoomSession::spawnPlayer, RoomSession::removePlayer).
THEOREM VipsPlayCorrect == Spec => []VipsPlay
<1>1. IInv => VipsPlay
  BY DEF IInv, VipsOK, VipsPlay
<1> QED BY <1>1, Invariant, PTL
=============================================================================
