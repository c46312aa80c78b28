------------------------------ MODULE Console -------------------------------
(***************************************************************************)
(* The two consoles (kernel/graphics/console.cpp): Console, which keeps    *)
(* its text and redraws it all to scroll, and FastConsole, which keeps     *)
(* only its pixels and scrolls them.  Both are given the same text here.   *)
(*                                                                         *)
(* A cell of the screen is the set of the glyphs drawn there since it was  *)
(* last filled with the background: a legible cell holds at most one.      *)
(***************************************************************************)
EXTENDS Integers, Sequences, Pixels

CONSTANTS
    rows, columns,  \* 25 and 80 in the code
    Glyphs,         \* the characters of the text, other than '\n'
    MaxLines        \* bound on the lines of the text put out

ASSUME GridAssumption == rows \in Nat \ {0} /\ columns \in Nat \ {0} /\ MaxLines \in Nat

Newline == "newline"
Rows == 0..(rows - 1)
Columns == 0..(columns - 1)
Cells == Rows \X Columns
Blank == [cell \in Cells |-> {}]

VARIABLES
    lines,          \* the text put out so far, in lines of at most `columns` characters
    \* Console: its buffer_ (a character is a set of at most one), its screen and cursor
    buffer, slow, slow_row, slow_column,
    \* FastConsole: its layer and cursor, what is seen of the layer, and the Painter's damage
    fast, fast_row, fast_column, seen, damage,
    writing         \* inside put_string

slow_console == <<buffer, slow, slow_row, slow_column>>
fast_console == <<fast, fast_row, fast_column, damage>>
console_vars == <<lines, slow_console, fast_console, seen, writing>>

NoDamage == RectOf(<<0, 0>>, <<0, 0>>)

ConsoleInit ==
    /\ lines = <<<<>>>> /\ writing = FALSE
    /\ buffer = Blank /\ slow = Blank /\ slow_row = 0 /\ slow_column = 0
    /\ fast = Blank /\ fast_row = 0 /\ fast_column = 0
    /\ seen = Blank /\ damage = NoDamage

-----------------------------------------------------------------------------
Scrolled(cells) ==
    [cell \in Cells |-> IF cell[1] = rows - 1 THEN {} ELSE cells[<<cell[1] + 1, cell[2]>>]]

Drawn(cells, row, column, char) == [cells EXCEPT ![<<row, column>>] = @ \cup {char}]

HasRowBelow(row) == row < rows - 1

\* Console::new_line.  At the last row the text is moved up and redrawn.
slow_new_line(con) ==
    IF HasRowBelow(con.row)
    THEN [buffer |-> con.buffer, screen |-> con.screen, row |-> con.row + 1, column |-> 0]
    ELSE [buffer |-> Scrolled(con.buffer), screen |-> Scrolled(con.buffer),
          row |-> con.row, column |-> 0]

\* One round of Console::put_string
slow_put(con, char) ==
    LET room == IF con.column < columns THEN con ELSE slow_new_line(con)
    IN  IF char = Newline
        THEN slow_new_line(con)
        ELSE [buffer |-> [room.buffer EXCEPT ![<<room.row, room.column>>] = {char}],
              screen |-> Drawn(room.screen, room.row, room.column, char),
              row |-> room.row, column |-> room.column + 1]

\* Painter::raw_damage, in cells; nothing is damaged before the first call.
raw_damage(old, rect) == IF old = NoDamage THEN rect ELSE merge(old, rect)

\* A bug to be told from the code: the cleared row is not part of the damage.
ScrollDamageShort == RectOf(<<0, 0>>, <<columns, max(1, rows - 1)>>)

\* copy_y of all rows but the first, and the filled rectangle of the last
ScrollDamage == merge(RectOf(<<0, 0>>, <<columns, rows - 1>>),
                      RectOf(<<0, rows - 1>>, <<columns, rows>>))

\* A bug to be told from the code: the last row is not cleared.
fast_scrolled_not_cleared(cells) ==
    [cell \in Cells |-> IF cell[1] = rows - 1 THEN cells[cell] ELSE cells[<<cell[1] + 1, cell[2]>>]]

\* The pixels of the scrolled layer
fast_scrolled(cells) == Scrolled(cells)

\* FastConsole::new_line
fast_new_line(con) ==
    IF HasRowBelow(con.row)
    THEN [screen |-> con.screen, row |-> con.row + 1, column |-> 0, damage |-> con.damage]
    ELSE [screen |-> fast_scrolled(con.screen), row |-> con.row, column |-> 0,
          damage |-> raw_damage(con.damage, ScrollDamage)]

\* One round of FastConsole::put_string
fast_put(con, char) ==
    LET room == IF con.column < columns THEN con ELSE fast_new_line(con)
        rect == RectOf(<<room.column, room.row>>, <<room.column + 1, room.row + 1>>)
    IN  IF char = Newline
        THEN fast_new_line(con)
        ELSE [screen |-> Drawn(room.screen, room.row, room.column, char),
              row |-> room.row, column |-> room.column + 1,
              damage |-> raw_damage(room.damage, rect)]

\* The text with one more character: a line ends at a newline, and when one more
\* character follows than fits.
WithChar(char) ==
    IF char = Newline THEN Append(lines, <<>>)
    ELSE IF Len(lines[Len(lines)]) = columns THEN Append(lines, <<char>>)
    ELSE [lines EXCEPT ![Len(lines)] = Append(@, char)]

Put(char) ==
    /\ Len(lines) < MaxLines
    /\ writing' = TRUE
    /\ lines' = WithChar(char)
    /\ LET con == slow_put([buffer |-> buffer, screen |-> slow, row |-> slow_row,
                            column |-> slow_column], char)
       IN  /\ buffer' = con.buffer /\ slow' = con.screen
           /\ slow_row' = con.row /\ slow_column' = con.column
    /\ LET con == fast_put([screen |-> fast, row |-> fast_row, column |-> fast_column,
                            damage |-> damage], char)
       IN  /\ fast' = con.screen /\ damage' = con.damage
           /\ fast_row' = con.row /\ fast_column' = con.column
    /\ UNCHANGED seen

\* The Painter is destroyed at the end of put_string: the damaged part of the layer
\* is copied to the screen.
PainterEnd ==
    /\ writing /\ writing' = FALSE
    /\ seen' = [cell \in Cells |-> IF includes_point(damage, <<cell[2], cell[1]>>)
                                   THEN fast[cell] ELSE seen[cell]]
    /\ damage' = NoDamage
    /\ UNCHANGED <<lines, slow_console, fast, fast_row, fast_column>>

ConsoleNext == PainterEnd \/ \E char \in Glyphs \cup {Newline} : Put(char)

ConsoleSpec == ConsoleInit /\ [][ConsoleNext]_console_vars

-----------------------------------------------------------------------------
(* Properties                                                               *)

\* The last `rows` lines of the text, as cells
LastLines ==
    LET first == max(0, Len(lines) - rows)
    IN  [cell \in Cells |->
            LET n == first + cell[1] + 1
            IN  IF n <= Len(lines) /\ cell[2] < Len(lines[n]) THEN {lines[n][cell[2] + 1]} ELSE {}]

\* Both consoles show the last lines of the text, whatever the positions of newlines
\* and line ends, and no glyph is drawn over another one although FastConsole never
\* clears a cell before it draws there (new_line clears whole rows).
ShowsLastLines == slow = LastLines /\ fast = LastLines /\ buffer = slow

\* When put_string returns, the screen shows what is in the layer: the rectangle that
\* Painter collects contains everything that was drawn or scrolled.
DamageCovers == ~writing => seen = fast
=============================================================================
