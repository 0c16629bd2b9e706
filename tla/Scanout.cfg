SPECIFICATION Spec
CONSTANTS
    TilesX = 2
    TilesY = 1
    MacroX = 2
    MacroY = 2
    MAX_RECTS = 1
    Contents = {red, blue}
    Sizes = {hd}
    NoSize = NoSize
    NoHash = NoHash
    Unknown = Unknown
    Black = Black
    RingSlots = 3
    KeyframePresentations = 3
    DeltaPresentations = 1
    DamageFrames = 3
    CarrierCounts = {1}
    BlankHoldsBracket = TRUE
    SeqMod = 3
INVARIANTS
    RingSettled
    LedgerHonest
    BodiesAreCurrent
PROPERTY StillDesktopIsDelivered
