SPECIFICATION FairSpec
CONSTANTS
    Gens = {g1, g2}
    TickGens = {t1, t2, t3}
    MaxWorld = 3
    MaxKills = 1
    Unread = Unread
    Failed = Failed
INVARIANTS
    TypeOK
    LoadingHasItsLoad
    OneTickChain
PROPERTIES
    NeverOlder
    FreshAfterKill
    LoadingSettles
    AutoConverges
