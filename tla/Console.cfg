\* Three rows of two characters, and texts that scroll several times.
\* At the bound on the lines nothing more happens.
SPECIFICATION ConsoleSpec
CONSTANTS
    rows = 3
    columns = 2
    Glyphs = {"a", "b"}
    MaxLines = 5
INVARIANTS
    ShowsLastLines
    DamageCovers
CHECK_DEADLOCK FALSE
