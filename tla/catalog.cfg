SPECIFICATION Spec
CONSTANTS
    ann = ann
    bob = bob
    helper1 = helper1
    market = market
    Character = {ann, bob}
    Helper = {helper1}
    Stage = {market}
    Builtin = 1
    Lists <- FoundLists
    MaxFaults = 2
    MaxQuits = 1
    MaxSaves = 1
    Gone = Gone
    Nobody = Nobody
INVARIANTS RemovesTheConfirmed ChoicesFollowCharacters SafeToRetry
CHECK_DEADLOCK FALSE
