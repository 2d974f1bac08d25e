----------------------------- MODULE VgaBuffer ------------------------------
(***************************************************************************)
(* Writer of src/src/vga_buffer.rs: the bytes of a string go one by one to *)
(* the bottom row of the text buffer; a newline, or a byte that finds the  *)
(* row full, first moves every row up.  Rows and columns count from 0.     *)
(***************************************************************************)
EXTENDS Integers, Sequences, FiniteSets, FiniteSetsExt

CONSTANTS
  BUFFER_HEIGHT,  \* 25 in the code
  BUFFER_WIDTH,   \* 80 in the code
  Printable,      \* bytes in 0x20..=0x7e, Blank among them
  Blank,          \* b' '
  Newline,        \* b'\n'
  Other,          \* any other byte
  Box,            \* the byte 0xfe
  BootScreen,     \* what the buffer holds when the kernel starts
  MaxText         \* bound: bytes written

Rows == 0 .. (BUFFER_HEIGHT - 1)
Cols == 0 .. (BUFFER_WIDTH - 1)

ASSUME VgaAssumption ==
  /\ BUFFER_HEIGHT \in Nat \ {0} /\ BUFFER_WIDTH \in Nat \ {0}
  /\ Blank \in Printable /\ {Newline, Other, Box} \cap Printable = {}
  /\ Newline # Box
  /\ BootScreen \in [Rows -> [Cols -> Printable \cup {Box}]]
  /\ MaxText \in Nat

VARIABLES
  buffer,           \* Writer.buffer
  column_position,  \* Writer.column_position
  pc,               \* "idle", in the copy loop of new_line, or back from it
  row,              \* the loop variable of new_line
  byte,             \* the byte that write_byte was called with
  text              \* ghost: all bytes given to write_string

vars == <<buffer, column_position, pc, row, byte, text>>

-----------------------------------------------------------------------------

\* write_string replaces the bytes that the font has no glyph for.
Shown(b) == IF b \in Printable \cup {Newline} THEN b ELSE Box

\* get_char_mut(row, col).write in the last row.
PutByte(b) ==
  /\ buffer' = [buffer EXCEPT ![BUFFER_HEIGHT - 1][column_position] = b]
  /\ column_position' = column_position + 1

\* write_byte calls new_line for a newline, and to wrap a full row.
NeedsNewLine(b) == b = Newline \/ column_position >= BUFFER_WIDTH

WriteByte(b) ==
  /\ pc = "idle" /\ Len(text) < MaxText
  /\ text' = Append(text, b)
  /\ IF NeedsNewLine(Shown(b))
     THEN pc' = "copy" /\ row' = 1 /\ byte' = Shown(b) /\ UNCHANGED <<buffer, column_position>>
     ELSE PutByte(Shown(b)) /\ UNCHANGED <<pc, row, byte>>

CopyRowDown ==
  /\ pc = "copy" /\ row < BUFFER_HEIGHT
  /\ buffer' = [buffer EXCEPT ![row] = buffer[row - 1]]
  /\ row' = row + 1
  /\ UNCHANGED <<column_position, pc, byte, text>>

\* One round of the loop of new_line.
CopyRow ==
  /\ pc = "copy" /\ row < BUFFER_HEIGHT
  /\ buffer' = [buffer EXCEPT ![row - 1] = buffer[row]]
  /\ row' = row + 1
  /\ UNCHANGED <<column_position, pc, byte, text>>

FinishNewLineKeepsColumn ==
  /\ pc = "copy" /\ row = BUFFER_HEIGHT
  /\ buffer' = [buffer EXCEPT ![BUFFER_HEIGHT - 1] = [c \in Cols |-> Blank]]
  /\ pc' = IF byte = Newline THEN "idle" ELSE "put"
  /\ UNCHANGED <<column_position, row, byte, text>>

\* The end of new_line: clear_row, and back to the first column.
FinishNewLine ==
  /\ pc = "copy" /\ row = BUFFER_HEIGHT
  /\ buffer' = [buffer EXCEPT ![BUFFER_HEIGHT - 1] = [c \in Cols |-> Blank]]
  /\ column_position' = 0
  /\ pc' = IF byte = Newline THEN "idle" ELSE "put"
  /\ UNCHANGED <<row, byte, text>>

\* write_byte after it wrapped the row.
PutWrapped ==
  /\ pc = "put"
  /\ PutByte(byte)
  /\ pc' = "idle"
  /\ UNCHANGED <<row, byte, text>>

\* Nothing to print.
Quiet == pc = "idle" /\ UNCHANGED vars

Init ==
  /\ buffer = BootScreen
  /\ column_position = 0
  /\ pc = "idle" /\ row = 0 /\ byte = Blank
  /\ text = <<>>

Next ==
  \/ \E b \in Printable \cup {Newline, Other} : WriteByte(b)
  \/ CopyRow \/ FinishNewLine \/ PutWrapped \/ Quiet

Spec == Init /\ [][Next]_vars

-----------------------------------------------------------------------------
(* Where the bytes of a text t belong.  A paragraph is the run of bytes up *)
(* to a newline.  Lines count from 0, the bottom row at boot.              *)

Newlines(t) == {i \in 1 .. Len(t) : t[i] = Newline}

\* The newline before byte k, 0 in the first paragraph.
ParagraphOf(t, k) == Max({0} \cup {i \in Newlines(t) : i < k})

ColumnOf(t, k) == (k - ParagraphOf(t, k) - 1) % BUFFER_WIDTH

\* A newline starts a line, and so does every BUFFER_WIDTH-th byte after the
\* first one of a paragraph.
StartsLine(t, k) == k \in Newlines(t) \/ (k > ParagraphOf(t, k) + 1 /\ ColumnOf(t, k) = 0)

LineOf(t, k) == Cardinality({i \in 1 .. k : StartsLine(t, i)})

\* The line that the bottom row shows.
LastLine(t) == LineOf(t, Len(t))

\* The bytes that a reader of the text expects at a column of a line.
BytesAt(t, line, col) ==
  {k \in 1 .. Len(t) : k \notin Newlines(t) /\ LineOf(t, k) = line /\ ColumnOf(t, k) = col}

Expected(t, line, col) ==
  IF BytesAt(t, line, col) # {} THEN Shown(t[CHOOSE k \in BytesAt(t, line, col) : TRUE])
  ELSE IF line > 0 THEN Blank
  ELSE BootScreen[BUFFER_HEIGHT - 1 + line][col]

-----------------------------------------------------------------------------
(* Properties.                                                             *)

\* The cursor stays within one position of the row, and a byte is only put at
\* a column that exists, so that get_char_mut never panics on an index.
TypeOK ==
  /\ buffer \in [Rows -> [Cols -> Printable \cup {Box}]]
  /\ column_position \in 0 .. BUFFER_WIDTH
  /\ pc \in {"idle", "copy", "put"} /\ (pc = "put" => column_position < BUFFER_WIDTH)
  /\ row \in 0 .. BUFFER_HEIGHT /\ (pc = "copy" => row > 0)
  /\ byte \in Printable \cup {Newline, Box}
  /\ text \in Seq(Printable \cup {Newline, Other})

\* Between two bytes the screen shows the last BUFFER_HEIGHT lines of the text,
\* wrapped at BUFFER_WIDTH, above them what the bootloader left: a full row
\* followed by a newline gives no empty line, the copy loop overwrites no row it
\* still needs, and a cleared row keeps nothing of the row before.
ScreenShowsText ==
  pc = "idle" =>
    \A r \in Rows, c \in Cols :
      buffer[r][c] = Expected(text, LastLine(text) - (BUFFER_HEIGHT - 1) + r, c)

=============================================================================
