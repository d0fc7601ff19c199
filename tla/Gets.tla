-------------------------------- MODULE Gets --------------------------------
(***************************************************************************)
(* gets_base: a process reads a line, one key at a time, with echo and     *)
(* backspace.  What it writes goes through kputch to the terminal, whose   *)
(* part is one line of character cells and a cursor.                       *)
(***************************************************************************)
EXTENDS Keys

CONSTANTS
  Printable,   \* printable characters that may be typed
  OtherKeys,   \* key codes gets_base ignores
  SIZE,        \* the size of the buffer
  WIDTH        \* the cells of the terminal's line that are looked at

\* A call without a buffer, or with one of size 0, returns NULL at once and is
\* not modelled: no caller makes one.
ASSUME SizeAssumption == SIZE \in Nat \ {0} /\ WIDTH \in Nat /\ WIDTH >= SIZE

VARIABLES
  buffer, buffer_index,
  reading,     \* the call has not returned
  typed,       \* the line as its keys say: erased characters taken away
  cells, cursor

vars == <<buffer, buffer_index, reading, typed, cells, cursor>>

BLANK == " "
UNSET == "unset"

\* A printable character is neither a control byte nor the code of another key.
ASSUME PrintableAssumption ==
  Printable \intersect ({k.code : k \in SpecialKeys} \union {NUL, "CR", "LF"}) = {}

Keys == Printable \union OtherKeys \union {NUL, "KEY_BACKSPACE", "CR", "LF"}

Init ==
  /\ buffer = [i \in 0 .. SIZE - 1 |-> UNSET]
  /\ buffer_index = 0
  /\ reading = TRUE
  /\ typed = <<>>
  /\ cells = [i \in 0 .. WIDTH |-> BLANK]
  /\ cursor = 0

-----------------------------------------------------------------------------
\* The terminal: a written code moves the cursor and sets cells.  The screen is
\* the pair of both; the bytes are those of kputch.
Screen(c, at) == [cells |-> c, cursor |-> at]

Show(screen, bytes) ==
  CASE bytes = <<"ESC", "[", "D">> -> [screen EXCEPT !.cursor = @ - 1]
    [] bytes = <<"CR", "LF">> -> [screen EXCEPT !.cursor = 0]
    [] OTHER -> [cells  |-> [screen.cells EXCEPT ![screen.cursor] = bytes[1]],
                 cursor |-> screen.cursor + 1]

putch(screen, c) == Show(screen, kputch(c))

\* The calls of putch have left the terminal with screen.
Shows(screen) == cells' = screen.cells /\ cursor' = screen.cursor

-----------------------------------------------------------------------------
\* getch returned 0 or a key the loop ignores.  Excess characters of a full
\* line are ignored as well.
Room == buffer_index < SIZE - 1

Ignored(key) ==
  /\ \/ key \in OtherKeys \union {NUL}
     \/ key \in Printable /\ ~Room
     \/ key = "KEY_BACKSPACE" /\ buffer_index = 0
  /\ UNCHANGED vars

\* Moves the cursor back without erasing the cell.
EraseCursorOnly(screen) == putch(screen, "KEY_ARROW_LEFT")

Erase(screen) ==
  putch(putch(putch(screen, "KEY_ARROW_LEFT"), BLANK), "KEY_ARROW_LEFT")

Backspace(key) ==
  /\ key = "KEY_BACKSPACE" /\ buffer_index # 0
  /\ Shows(Erase(Screen(cells, cursor)))
  /\ buffer_index' = buffer_index - 1
  /\ typed' = SubSeq(typed, 1, Len(typed) - 1)
  /\ UNCHANGED <<buffer, reading>>

Character(key) ==
  /\ key \in Printable /\ Room
  /\ Shows(putch(Screen(cells, cursor), key))
  /\ buffer' = [buffer EXCEPT ![buffer_index] = key]
  /\ buffer_index' = buffer_index + 1
  /\ typed' = Append(typed, key)
  /\ UNCHANGED reading

\* The line is cut where the buffer's end would be, whatever was erased.
TerminateAtEnd(key) ==
  /\ key \in {"CR", "LF"}
  /\ Shows(putch(Screen(cells, cursor), "LF"))
  /\ buffer' = [buffer EXCEPT ![SIZE - 1] = NUL]
  /\ reading' = FALSE
  /\ UNCHANGED <<buffer_index, typed>>

EndOfLine(key) ==
  /\ key \in {"CR", "LF"}
  /\ Shows(putch(Screen(cells, cursor), "LF"))
  /\ buffer' = [buffer EXCEPT ![buffer_index] = NUL]
  /\ reading' = FALSE
  /\ UNCHANGED <<buffer_index, typed>>

gets_base ==
  /\ reading
  /\ \E key \in Keys :
       Ignored(key) \/ Backspace(key) \/ Character(key) \/ EndOfLine(key)

\* The caller uses the line and calls again with the same buffer, on a fresh
\* terminal line.
CallAgain ==
  /\ ~reading
  /\ reading' = TRUE
  /\ buffer_index' = 0 /\ typed' = <<>>
  /\ cells' = [i \in 0 .. WIDTH |-> BLANK] /\ cursor' = 0
  /\ UNCHANGED buffer

\* Between two calls the caller may write to its buffer.
CallerWrites ==
  /\ ~reading
  /\ buffer' \in [0 .. SIZE - 1 -> Printable \union {UNSET, NUL}]
  /\ UNCHANGED <<buffer_index, reading, typed, cells, cursor>>

GetsNext == gets_base \/ CallerWrites \/ CallAgain

GetsSpec == Init /\ [][GetsNext]_vars

-----------------------------------------------------------------------------
\* While the line is edited the terminal shows exactly the characters that
\* are in the buffer, and the cursor stands behind the last one: what the
\* user sees is what the caller gets, also after any number of backspaces,
\* with the buffer full, and when the buffer holds an earlier line.
ScreenShowsBuffer ==
  reading =>
    /\ cursor = buffer_index
    /\ \A i \in 0 .. WIDTH :
         cells[i] = IF i < buffer_index THEN buffer[i] ELSE BLANK

\* "reads a line from the input and puts it as a null terminated string within
\* size bytes" (gets.c:7): when the call returns, the string up to the first
\* NUL is the line as typed and edited, whatever an earlier call left behind.
ReturnsLine ==
  [][ reading /\ ~reading' =>
        StringAt(buffer', 0) = typed' /\ Len(typed') < SIZE ]_vars
=============================================================================
