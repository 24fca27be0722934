------------------------------ MODULE Terminal ------------------------------
(***************************************************************************)
(* The terminal of arch/i386/tty.c: a cursor and the cells of the frame    *)
(* buffer, which all tasks and interrupt handlers change without a lock.   *)
(* A task that prints a character can lose the CPU at any instruction; its *)
(* steps are the loads and stores of tty_row and tty_column, compiled      *)
(* without optimisation.  The cells scroll in one step.                    *)
(***************************************************************************)
EXTENDS Integers, Sequences

CONSTANTS Task,             \* what prints: tasks and interrupt handlers
          Blank,            \* vga_entry(' ', default_tty_color)
          Newline,          \* the character '\n'
          framebuf_height, framebuf_width

ASSUME TerminalAssumption ==
    /\ framebuf_height \in Nat \ {0}
    /\ framebuf_width \in Nat \ {0}

VARIABLES tty_row, tty_column,
          vga_memory,       \* the cells of the frame buffer
          at,               \* task -> its next step in tty_puts
          c,                \* task -> the character it prints
          tmp,              \* task -> the index or the register it has computed
          printed,          \* history: all characters, until two are printed at once
          overlapped,       \* history: two characters were printed at once
          raced             \* history: a task began to use or to move the cursor
                            \* while another was at it

cursor == <<tty_row, tty_column>>
task   == <<at, c, tmp>>
ghost  == <<printed, overlapped, raced>>
tty    == <<cursor, vga_memory, task, ghost>>

Index == 0 .. framebuf_height * framebuf_width - 1

\* The steps from the first load of a coordinate to the last use of it.
Moving == {"index_column", "store", "column_store", "column_test", "column_zero", "row_store",
           "row_test", "scroll", "last_row"}

\* As tty_init leaves it.
TtyInit ==
    /\ tty_row = 0 /\ tty_column = 0
    /\ vga_memory = [i \in Index |-> Blank]
    /\ at = [t \in Task |-> "idle"]
    /\ c = [t \in Task |-> Newline]
    /\ tmp = [t \in Task |-> 0]
    /\ printed = <<>> /\ overlapped = FALSE /\ raced = FALSE

Goto(t, step) == at' = [at EXCEPT ![t] = step]
Keep(t, n) == tmp' = [tmp EXCEPT ![t] = n]

\* The first load of a coordinate, while another task uses or moves the cursor.
Entering(t) == raced' = (raced \/ \E u \in Task \ {t} : at[u] \in Moving)

\* tty_puts takes the next character.
tty_puts(t, ch) ==
    /\ at[t] = "idle"
    /\ c' = [c EXCEPT ![t] = ch]
    /\ Goto(t, IF ch = Newline THEN "row_load" ELSE "index_row")
    /\ overlapped' = (overlapped \/ \E u \in Task \ {t} : at[u] # "idle")
    /\ printed' = IF overlapped' THEN <<>> ELSE Append(printed, ch)
    /\ UNCHANGED <<cursor, vga_memory, tmp, raced>>

\* tty_putchar: the index of the cell from tty_row and then tty_column.
index_row(t) ==
    /\ at[t] = "index_row"
    /\ Keep(t, tty_row * framebuf_width)
    /\ Entering(t)
    /\ Goto(t, "index_column")
    /\ UNCHANGED <<cursor, vga_memory, c, printed, overlapped>>

index_column(t) ==
    /\ at[t] = "index_column"
    /\ Keep(t, tmp[t] + tty_column)
    /\ Goto(t, "store")
    /\ UNCHANGED <<cursor, vga_memory, c, ghost>>

\* A store outside the frame buffer hits other memory.
putchar_store(t) ==
    /\ at[t] = "store"
    /\ vga_memory' = [i \in Index |-> IF i = tmp[t] THEN c[t] ELSE vga_memory[i]]
    /\ Goto(t, "column_load")
    /\ UNCHANGED <<cursor, c, tmp, ghost>>

\* tty_adjust_indices: ++tty_column is a load and a store, and the comparison
\* loads it again.
column_load(t) ==
    /\ at[t] = "column_load"
    /\ Keep(t, tty_column + 1)
    /\ Entering(t)
    /\ Goto(t, "column_store")
    /\ UNCHANGED <<cursor, vga_memory, c, printed, overlapped>>

column_store(t) ==
    /\ at[t] = "column_store"
    /\ tty_column' = tmp[t]
    /\ Goto(t, "column_test")
    /\ UNCHANGED <<tty_row, vga_memory, c, tmp, ghost>>

\* Mutation: the column may become the width.
ColumnPastEnd == tty_column = framebuf_width + 1

ColumnAtEnd == tty_column = framebuf_width

column_test(t) ==
    /\ at[t] = "column_test"
    /\ Goto(t, IF ColumnAtEnd THEN "column_zero" ELSE "idle")
    /\ UNCHANGED <<cursor, vga_memory, c, tmp, ghost>>

column_zero(t) ==
    /\ at[t] = "column_zero"
    /\ tty_column' = 0
    /\ Goto(t, "row_load")
    /\ UNCHANGED <<tty_row, vga_memory, c, tmp, ghost>>

\* tty_adjust_row, in the same way.
row_load(t) ==
    /\ at[t] = "row_load"
    /\ Keep(t, tty_row + 1)
    /\ Entering(t)
    /\ Goto(t, "row_store")
    /\ UNCHANGED <<cursor, vga_memory, c, printed, overlapped>>

row_store(t) ==
    /\ at[t] = "row_store"
    /\ tty_row' = tmp[t]
    /\ Goto(t, "row_test")
    /\ UNCHANGED <<tty_column, vga_memory, c, tmp, ghost>>

\* After tty_adjust_row, a newline also sets the column.
AfterRow(t) == IF c[t] = Newline THEN "newline" ELSE "idle"

row_test(t) ==
    /\ at[t] = "row_test"
    /\ Goto(t, IF tty_row = framebuf_height THEN "scroll" ELSE AfterRow(t))
    /\ UNCHANGED <<cursor, vga_memory, c, tmp, ghost>>

\* Mutation: the last line keeps its cells.
NotCleared ==
    [i \in Index |-> IF i + framebuf_width \in Index THEN vga_memory[i + framebuf_width]
                     ELSE vga_memory[i]]

\* Every line moves up by one; the last line is cleared.
Scrolled ==
    [i \in Index |-> IF i + framebuf_width \in Index THEN vga_memory[i + framebuf_width]
                     ELSE Blank]

scroll(t) ==
    /\ at[t] = "scroll"
    /\ vga_memory' = Scrolled
    /\ Goto(t, "last_row")
    /\ UNCHANGED <<cursor, c, tmp, ghost>>

last_row(t) ==
    /\ at[t] = "last_row"
    /\ tty_row' = framebuf_height - 1
    /\ Goto(t, AfterRow(t))
    /\ UNCHANGED <<tty_column, vga_memory, c, tmp, ghost>>

newline(t) ==
    /\ at[t] = "newline"
    /\ tty_column' = 0
    /\ Goto(t, "idle")
    /\ UNCHANGED <<tty_row, vga_memory, c, tmp, ghost>>

tty_putchar(t) == index_row(t) \/ index_column(t) \/ putchar_store(t)
tty_adjust_indices(t) == column_load(t) \/ column_store(t) \/ column_test(t) \/ column_zero(t)
tty_adjust_row(t) == row_load(t) \/ row_store(t) \/ row_test(t) \/ scroll(t) \/ last_row(t)

\* Printing goes on with the character that was begun.
tty_step(t) == tty_putchar(t) \/ tty_adjust_indices(t) \/ tty_adjust_row(t) \/ newline(t)

\* Tasks print whatever they like.
TtyNext == \E t \in Task : tty_step(t) \/ \E ch : tty_puts(t, ch)

TtySpec == TtyInit /\ [][TtyNext]_tty
-----------------------------------------------------------------------------
(* Properties.                                                             *)

\* As long as no task has begun to place a character or to move the cursor
\* while another was between its load of a coordinate and its last use of it,
\* every character is stored within the frame buffer, the row and the column
\* exceed it at most until the test that follows, and between characters the
\* cursor is on the screen.
CursorOnScreen ==
    ~ raced =>
        /\ \A t \in Task : at[t] = "store" => tmp[t] \in Index
        /\ tty_row <= framebuf_height /\ tty_column <= framebuf_width
        /\ tty_row = framebuf_height =>
            \E t \in Task : at[t] \in {"row_test", "scroll", "last_row"}
        /\ tty_column = framebuf_width =>
            \E t \in Task : at[t] \in {"column_test", "column_zero"}
        /\ (\A t \in Task : at[t] \notin Moving) =>
            tty_row < framebuf_height /\ tty_column < framebuf_width

\* The reference: on a roll of paper without an end the n-th character stands
\* at Place[n - 1], and the screen shows the last lines of the roll.
Place[n \in 0 .. Len(printed)] ==
    IF n = 0 THEN <<0, 0>>
    ELSE LET p == Place[n - 1]
         IN  IF printed[n] = Newline \/ p[2] + 1 = framebuf_width
             THEN <<p[1] + 1, 0>>
             ELSE <<p[1], p[2] + 1>>

Top == LET row == Place[Len(printed)][1]
       IN  IF row < framebuf_height THEN 0 ELSE row - framebuf_height + 1

Shown(i) ==
    LET here == {n \in 1 .. Len(printed) :
                    /\ printed[n] # Newline
                    /\ (Place[n - 1][1] - Top) * framebuf_width + Place[n - 1][2] = i}
    IN  IF here = {} THEN Blank ELSE printed[CHOOSE n \in here : TRUE]

\* As long as no character was begun in the middle of another, the screen shows
\* the end of what has been printed, line by line, and the cursor is behind it.
ScreenShowsEnd ==
    ~ overlapped /\ (\A t \in Task : at[t] = "idle") =>
        /\ \A i \in Index : vga_memory[i] = Shown(i)
        /\ <<tty_row + Top, tty_column>> = Place[Len(printed)]
=============================================================================
