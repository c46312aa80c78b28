\* Every motion of the mouse over a screen of nine points, while the main loop runs.
SPECIFICATION Spec
CONSTANTS
    screen_size <- MCScreenSize
    LayerSizes <- MCLayerSizes
    LayerPositions <- MCLayerPositions
    Arrow <- MCArrow
    CounterRect <- MCCounterRect
    ConsoleRects <- MCConsoleRects
    TestRange = 2
    CounterBits = 2
    Motions <- MCMotions
INVARIANTS
    ScreenShowsStack
    DraggedUnderPointer
