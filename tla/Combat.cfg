\* Two blue players and a yellow one.  One of the blue comes back, also without
\* leaving, while the effects of his weapons last on the other, or in VIP those of the
\* yellow one's weapons; the yellow one may spectate.
SPECIFICATION FairSpec
CONSTANTS
    p1 = p1  p2 = p2  p3 = p3
    None = None
    Player = {p1, p2, p3}
    Order <- MCOrder
    Of <- MCOf
    Mode = {"PTE", "VIP"}
    TeamOf <- MCTeamOf
    Restless = {p1}
    Watching = {p3}
    Harmful <- MCHarmful
    Mortal <- MCMortal
    Carrying <- MCCarrying
    Aging = {1}
    EffectBound = 1
INVARIANTS
    DeadRespawn
    EssenceCarried
    VipsPlay
PROPERTIES
    EssenceReturns
