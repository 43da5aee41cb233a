SPECIFICATION TuiSpec
CONSTANTS
    Gens = {g1, g2}
    TickGens = {t1, t2}
    MaxWorld = 2
    MaxKills = 1
    Unread = Unread
    Failed = Failed
    V6 = {9}
    Listings <- Viewed
    Queries = {0}
    Heights = {14}
    UserKeys = {"r", "x", "y", "j"}
SYMMETRY GenSymmetry
PROPERTIES
    KilledIsAsked
