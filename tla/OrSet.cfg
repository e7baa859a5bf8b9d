SPECIFICATION FairSpec
CONSTANTS
    Device = {d1, d2, d3}
    Elem = {e1, e2}
    MaxAdds = 2
INVARIANTS
    TypeOK
    HoldsWhatWasSeen
PROPERTIES
    EventuallyAlike
