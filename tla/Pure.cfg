SPECIFICATION Spec
CONSTANTS
    MaxOctet = 2
    RDHSIZE = 9
    UBUF_MAXSPACE = 128
    MaxArg = 4
    MaxText = 5
    Names = {2, 30, 50}
    MaxNames = 3
    PacketSizes = {64, 66}
INVARIANTS
    PathMeant
    PathGuarded
    AddressFound
    RightsProved
    ListingRead
    ListingMixed
    StartsSane
CHECK_DEADLOCK FALSE
