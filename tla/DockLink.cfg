\* Every coefficient is driven to its extreme in both signs by pixels, in luma
\* and in chroma; planes give each last position the tree codes differently
\* (0, the ends of its categories, 63) to the three planes independently.  A
\* half of one block carries the difference from one half to the next.
\* Of a dock's connectors three have monitors, two of them on one endpoint where
\* there are four.
SPECIFICATION LinkSpec
CONSTANTS
    STRIP_ROW_BLOCKS = 1
    Lasts = {0, 1, 7, 32, 62, 63}
    Fillers = {0, 21}
    Connectors = {1, 2, 3}
INVARIANTS
    DockReadsTheStrip
    PictureComesBack
    ModeIsAsAsked
    RingIsAllocated
CHECK_DEADLOCK FALSE
