\* A 3 x 4 grid of strips, every one of its 4096 debt vectors.  A checkerboard
\* needs six rectangles, so a budget of four is both met and exceeded.  Two
\* strips of 2030 bytes pass the stride cap together; 4062 is the longest strip
\* a record holds alone and 4064 the first that none can hold.  The carriers
\* are of the docks' real sizes.
SPECIFICATION FrameSpec
CONSTANTS
    TilesX = 3
    TilesY = 4
    MacroX = 2
    MacroY = 2
    MAX_RECTS = 4
    Bases = {54, 2030}
    Others = {1022, 4062, 4064}
    OddOnes = {0, 11}
    MAX_FRAMES = 2
INVARIANTS
    ClipsDescribeTheDebt
    DockReadsTheFrame
    MapDescribesTheSurface
    CarriersMatchTheCapture
PROPERTIES
    SlotsFollowOneAnother
CHECK_DEADLOCK FALSE
