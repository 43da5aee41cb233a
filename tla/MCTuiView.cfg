SPECIFICATION TuiSpec
CONSTANTS
    Gens = {g1, g2}
    TickGens = {t1, t2}
    MaxWorld = 2
    MaxKills = 0
    Unread = Unread
    Failed = Failed
    V6 = {9}
    Listings <- Viewed
    Queries = {0, 2}
    Heights = {14}
    UserKeys = {"/", "s", "S", "p", "4", "l", "enter", "j", "click", "y", "q"}
SYMMETRY GenSymmetry
INVARIANTS
    RowsAreCurrent
    SelectionOnPage
PROPERTIES
    SelectionStays
