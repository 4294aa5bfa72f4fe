SPECIFICATION Spec
CONSTANTS
    a = a
    b = b
    c = c
    i1 = i1
    i2 = i2
    i3 = i3
    i4 = i4
    Members = {a, b, c}
    Items <- MCItems
    Cardless = {i4}
    InitDeck = {i1}
    Kinds <- MCKinds
    Rankings <- MCRankings
    Window = 2
    Shared = 1
    Threshold = 1
    Nobody = Nobody
    MaxRequests = 3
INVARIANTS TypeOK NeverAskedTwice DecksRepeatNothing LikedReachesAll EverybodyServed
 
SYMMETRY RecommenderSymmetry
VIEW RecommenderView
CONSTRAINT RecommenderBound
CHECK_DEADLOCK FALSE
