--------------------------- MODULE ConsoleProofs ----------------------------
(***************************************************************************)
(* For every number of tasks, every screen and every set of messages: the  *)
(* cursor stays on the screen until two tasks move it at the same time.    *)
(***************************************************************************)
EXTENDS Console, TLAPS

Steps == {"idle", "index_row", "column_load", "row_load", "newline"} \cup Moving

TtyTypes ==
    /\ tty_row \in Nat /\ tty_column \in Nat
    /\ at \in [Task -> Steps]
    /\ tmp \in [Task -> Nat]
    /\ raced \in BOOLEAN

OnScreen == tty_row < framebuf_height /\ tty_column < framebuf_width

\* Where the cursor is while t uses or moves it.  A newline may set the column to
\* zero behind its back, so there are only upper bounds.
MovingBounds(t) ==
    /\ at[t] = "index_column" => tmp[t] = tty_row * framebuf_width /\ OnScreen
    /\ at[t] = "store" => tmp[t] \in Index /\ OnScreen
    /\ at[t] = "column_store" => tmp[t] <= framebuf_width /\ OnScreen
    /\ at[t] \in {"column_test", "column_zero"} =>
        tty_column <= framebuf_width /\ tty_row < framebuf_height
    /\ at[t] = "row_store" => tmp[t] <= framebuf_height /\ OnScreen
    /\ at[t] \in {"row_test", "scroll", "last_row"} =>
        tty_row <= framebuf_height /\ tty_column < framebuf_width

\* As long as the tasks have not raced, at most one of them moves the cursor,
\* and between the moves it is on the screen.
CursorInv ==
    ~ raced =>
        /\ \A t, u \in Task : at[t] \in Moving /\ at[u] \in Moving => t = u
        /\ (\A t \in Task : at[t] \notin Moving) => OnScreen
        /\ \A t \in Task : MovingBounds(t)

TtyInv == TtyTypes /\ CursorInv

\* The index of a cell.
LEMMA CellIndex ==
  ASSUME NEW row \in Nat, NEW col \in Nat, row < framebuf_height, col < framebuf_width
  PROVE  row * framebuf_width + col \in Index
<1> DEFINE h == framebuf_height
           w == framebuf_width
<1>1. h \in Nat /\ w \in Nat
  BY TerminalAssumption
<1>2. PICK d \in Nat : h = (row + 1) + d
  <2>1. h - (row + 1) \in Nat /\ h = (row + 1) + (h - (row + 1))
    BY <1>1
  <2> QED BY <2>1
<1>3. h * w = (row * w + w) + d * w /\ d * w \in Nat /\ row * w \in Nat
  BY <1>1, <1>2
<1> QED
  <2> DEFINE a == row * w
             b == d * w
  <2> HIDE DEF a, b
  <2>1. h * w = (a + w) + b /\ a \in Nat /\ b \in Nat
    BY <1>3 DEF a, b
  <2>2. a + col \in 0 .. h * w - 1
    BY <1>1, <2>1
  <2> QED BY <2>2 DEF Index, a

\* The terminal starts with the cursor in the first cell.
LEMMA TtyInitInv == TtyInit => TtyInv
<1> SUFFICES ASSUME TtyInit PROVE TtyInv
  BY Zenon
<1>1. TtyTypes
  BY Zenon DEF TtyInit, TtyTypes, Steps
<1>2. \A t \in Task : at[t] = "idle"
  BY Zenon DEF TtyInit
<1>3. OnScreen
  BY TerminalAssumption DEF TtyInit, OnScreen
<1> QED
  BY <1>1, <1>2, <1>3, Zenon DEF TtyInv, CursorInv, MovingBounds, Moving

\* The types, for every step of the terminal.
LEMMA TtyStepTypes ==
  ASSUME TtyTypes, NEW t \in Task, tty_step(t)
  PROVE  TtyTypes'
<1> USE TerminalAssumption DEF TtyTypes, cursor, ghost, Goto, Keep
<1>1. CASE index_row(t)
  <2>1. tty_row * framebuf_width \in Nat
    OBVIOUS
  <2> QED
    BY <1>1, <2>1 DEF index_row, Entering, Steps, Moving
<1>13. CASE index_column(t)
  BY <1>13 DEF index_column, Steps, Moving
<1>2. CASE putchar_store(t)
  BY <1>2, Zenon DEF putchar_store, Steps
<1>3. CASE column_load(t)
  BY <1>3 DEF column_load, Entering, Steps, Moving
<1>4. CASE column_store(t)
  BY <1>4, Zenon DEF column_store, Steps, Moving
<1>5. CASE column_test(t)
  BY <1>5, Zenon DEF column_test, Steps, Moving
<1>6. CASE column_zero(t)
  BY <1>6, Zenon DEF column_zero, Steps
<1>7. CASE row_load(t)
  BY <1>7 DEF row_load, Entering, Steps, Moving
<1>8. CASE row_store(t)
  BY <1>8, Zenon DEF row_store, Steps, Moving
<1>9. CASE row_test(t)
  BY <1>9, Zenon DEF row_test, AfterRow, Steps, Moving
<1>10. CASE scroll(t)
  BY <1>10, Zenon DEF scroll, Steps, Moving
<1>11. CASE last_row(t)
  BY <1>11 DEF last_row, AfterRow, Steps
<1>12. CASE newline(t)
  BY <1>12, Zenon DEF newline, Steps
<1> QED
  BY <1>1, <1>2, <1>3, <1>4, <1>5, <1>6, <1>7, <1>8, <1>9, <1>10, <1>11, <1>12, <1>13
     DEF tty_step, tty_putchar, tty_adjust_indices, tty_adjust_row

\* The cursor, for every step of the terminal.
LEMMA TtyStepCursor ==
  ASSUME TtyInv, NEW t \in Task, tty_step(t)
  PROVE  CursorInv'
<1> USE TerminalAssumption
    DEF TtyInv, TtyTypes, CursorInv, OnScreen, MovingBounds, cursor, ghost, Goto, Keep, Steps, Moving
<1>1. CASE index_row(t)
  <2> SUFFICES ASSUME ~ raced' PROVE CursorInv'
    BY Zenon
  <2>1. ~ raced /\ \A u \in Task : u # t => at[u] \notin Moving
    BY <1>1, Zenon DEF index_row, Entering
  <2>2. at[t] \notin Moving
    BY <1>1, Zenon DEF index_row
  <2>3. OnScreen
    BY <2>1, <2>2, Zenon
  <2>4. \A u \in Task : at'[u] \in Moving => u = t
    BY <1>1, <2>1, Zenon DEF index_row
  <2>5. MovingBounds(t)'
    BY <1>1, <2>3 DEF index_row
  <2>6. \A u \in Task : MovingBounds(u)'
    BY <2>4, <2>5, Zenon
  <2>7. at'[t] \in Moving
    BY <1>1, Zenon DEF index_row
  <2> QED
    BY <2>4, <2>6, <2>7, Zenon
<1>13. CASE index_column(t)
  <2> SUFFICES ASSUME ~ raced' PROVE CursorInv'
    BY Zenon
  <2>1. ~ raced /\ tmp'[t] = tty_row * framebuf_width + tty_column /\ OnScreen
    BY <1>13, Zenon DEF index_column
  <2>2. tty_row \in Nat /\ tty_column \in Nat /\ tty_row < framebuf_height
        /\ tty_column < framebuf_width
    BY <2>1, Zenon
  <2>3. tty_row * framebuf_width + tty_column \in Index
    BY <2>2, CellIndex, Zenon
  <2> QED
    BY <1>13, <2>1, <2>3 DEF index_column
<1>2. CASE putchar_store(t)
  BY <1>2 DEF putchar_store
<1>3. CASE column_load(t)
  <2> SUFFICES ASSUME ~ raced' PROVE CursorInv'
    BY Zenon
  <2>1. ~ raced /\ \A u \in Task : u # t => at[u] \notin Moving
    BY <1>3, Zenon DEF column_load, Entering
  <2>2. at[t] \notin Moving
    BY <1>3, Zenon DEF column_load
  <2>3. OnScreen
    BY <2>1, <2>2, Zenon
  <2>4. \A u \in Task : at'[u] \in Moving => u = t
    BY <1>3, <2>1, Zenon DEF column_load
  <2>5. MovingBounds(t)'
    BY <1>3, <2>3 DEF column_load
  <2>6. \A u \in Task : MovingBounds(u)'
    BY <2>4, <2>5, Zenon
  <2>7. at'[t] \in Moving
    BY <1>3, Zenon DEF column_load
  <2> QED
    BY <2>4, <2>6, <2>7, Zenon
<1>4. CASE column_store(t)
  BY <1>4 DEF column_store
<1>5. CASE column_test(t)
  BY <1>5 DEF column_test, ColumnAtEnd
<1>6. CASE column_zero(t)
  BY <1>6 DEF column_zero
<1>7. CASE row_load(t)
  <2> SUFFICES ASSUME ~ raced' PROVE CursorInv'
    BY Zenon
  <2>1. ~ raced /\ \A u \in Task : u # t => at[u] \notin Moving
    BY <1>7, Zenon DEF row_load, Entering
  <2>2. at[t] \notin Moving
    BY <1>7, Zenon DEF row_load
  <2>3. OnScreen
    BY <2>1, <2>2, Zenon
  <2>4. \A u \in Task : at'[u] \in Moving => u = t
    BY <1>7, <2>1, Zenon DEF row_load
  <2>5. MovingBounds(t)'
    BY <1>7, <2>3 DEF row_load
  <2>6. \A u \in Task : MovingBounds(u)'
    BY <2>4, <2>5, Zenon
  <2>7. at'[t] \in Moving
    BY <1>7, Zenon DEF row_load
  <2> QED
    BY <2>4, <2>6, <2>7, Zenon
<1>8. CASE row_store(t)
  BY <1>8 DEF row_store
<1>9. CASE row_test(t)
  BY <1>9 DEF row_test, AfterRow
<1>10. CASE scroll(t)
  BY <1>10 DEF scroll
<1>11. CASE last_row(t)
  BY <1>11 DEF last_row, AfterRow
<1>12. CASE newline(t)
  BY <1>12 DEF newline
<1> QED
  BY <1>1, <1>2, <1>3, <1>4, <1>5, <1>6, <1>7, <1>8, <1>9, <1>10, <1>11, <1>12, <1>13,
     Zenon DEF tty_step, tty_putchar, tty_adjust_indices, tty_adjust_row

\* A task begins a character: the cursor does not move.
LEMMA TtyPutsInv ==
  ASSUME TtyInv, NEW t \in Task, NEW ch, tty_puts(t, ch)
  PROVE  TtyInv'
  BY DEF TtyInv, TtyTypes, CursorInv, OnScreen, MovingBounds, cursor, Goto, Steps, Moving,
         tty_puts

\* The invariant implies what the runs check.
LEMMA InvOnScreen == TtyInv => CursorOnScreen
<1> SUFFICES ASSUME TtyInv, ~ raced PROVE CursorOnScreen
  BY Zenon DEF CursorOnScreen
<1>1. CASE \A t \in Task : at[t] \notin Moving
  <2>1. \A t \in Task : at[t] # "store"
    BY <1>1, Zenon DEF Moving
  <2> QED
    BY <1>1, <2>1, TerminalAssumption DEF TtyInv, TtyTypes, CursorInv, OnScreen, CursorOnScreen
<1>2. CASE \E t \in Task : at[t] \in Moving
  <2>1. PICK t \in Task : at[t] \in Moving
    BY <1>2, Zenon
  <2> QED
    BY <1>2, <2>1, TerminalAssumption
       DEF TtyInv, TtyTypes, CursorInv, MovingBounds, OnScreen, CursorOnScreen, Moving
<1> QED
  BY <1>1, <1>2, Zenon

\* The terminal of tty.c, whatever is printed: a character is stored outside the
\* frame buffer, or the cursor left there, only if two tasks were between the
\* load and the last use of a coordinate (tty_putchar, tty_adjust_indices,
\* tty_adjust_row) at the same time.
THEOREM TerminalCursor == TtySpec => []CursorOnScreen
<1>1. TtyInv /\ [TtyNext]_tty => TtyInv'
  <2> SUFFICES ASSUME TtyInv, [TtyNext]_tty PROVE TtyInv'
    BY Zenon
  <2>1. CASE UNCHANGED tty
    BY <2>1, Zenon DEF tty, cursor, task, ghost, TtyInv, TtyTypes, CursorInv, OnScreen, MovingBounds
  <2>2. ASSUME NEW t \in Task, tty_step(t) PROVE TtyInv'
    BY <2>2, TtyStepTypes, TtyStepCursor, Zenon DEF TtyInv
  <2>3. ASSUME NEW t \in Task, NEW ch, tty_puts(t, ch) PROVE TtyInv'
    BY <2>3, TtyPutsInv, Zenon
  <2> QED
    BY <2>1, <2>2, <2>3, Zenon DEF TtyNext
<1> QED
  BY <1>1, TtyInitInv, InvOnScreen, PTL DEF TtySpec

\* Tasks that call vprintk use the terminal as its specification allows: every
\* step of a call is a step of the terminal or leaves it alone.
THEOREM ConsoleUsesTerminal == Spec => TtySpec
<1>1. Init => TtyInit
  BY Zenon DEF Init
<1>2. [Next]_vars => [TtyNext]_tty
  <2> SUFFICES ASSUME [Next]_vars PROVE [TtyNext]_tty
    BY Zenon
  <2>1. CASE UNCHANGED vars
    BY <2>1, Zenon DEF vars
  <2>2. ASSUME NEW t \in Task, vprintk(t) PROVE [TtyNext]_tty
    BY <2>2, Zenon DEF vprintk, print, literal, conversion, return, TtyNext
  <2>3. CASE Returned
    BY <2>3, Zenon DEF Returned, vars
  <2> QED
    BY <2>1, <2>2, <2>3, Zenon DEF Next
<1> QED
  BY <1>1, <1>2, PTL DEF Spec, TtySpec

\* Hence the cursor stays on the screen, whatever formats, arguments and
\* messages the tasks print, until two of them race for it.
THEOREM ConsoleCursor == Spec => []CursorOnScreen
  BY TerminalCursor, ConsoleUsesTerminal, PTL
=============================================================================
