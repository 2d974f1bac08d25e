-------------------------- MODULE VgaBufferProofs ---------------------------
(***************************************************************************)
(* Proofs about VgaBuffer: on a screen of any size the writer stays within *)
(* the buffer, and the screen shows the last lines of the text.            *)
(***************************************************************************)
EXTENDS VgaBuffer, FiniteSetTheorems, TLAPS

-----------------------------------------------------------------------------
(* The writer stays within the buffer.                                     *)

Glyph == Printable \cup {Box}

\* A newline is never put on the screen.
IInv == TypeOK /\ (pc = "put" => byte # Newline)

\* The screen has a last row, which can be blanked.
LEMMA ScreenFacts ==
  /\ BUFFER_HEIGHT \in Nat \ {0} /\ BUFFER_WIDTH \in Nat \ {0}
  /\ BUFFER_HEIGHT - 1 \in Rows /\ Blank \in Glyph /\ Newline \notin Glyph
  /\ [c \in Cols |-> Blank] \in [Cols -> Glyph]
<1>1. BUFFER_HEIGHT \in Nat \ {0} /\ BUFFER_WIDTH \in Nat \ {0}
  BY VgaAssumption
<1>2. Blank \in Glyph /\ Newline \notin Glyph
  BY VgaAssumption, Zenon DEF Glyph
<1> QED
  BY <1>1, <1>2 DEF Rows

\* A row that is replaced by a row.
LEMMA RowFacts ==
  ASSUME TypeOK, NEW r \in Rows, NEW line \in [Cols -> Glyph]
  PROVE  [buffer EXCEPT ![r] = line] \in [Rows -> [Cols -> Glyph]]
BY DEF TypeOK, Glyph

\* A byte is put inside the screen, and the cursor stays in range.
LEMMA PutFacts ==
  ASSUME TypeOK, NEW b \in Glyph, column_position < BUFFER_WIDTH, PutByte(b)
  PROVE  buffer' \in [Rows -> [Cols -> Glyph]] /\ column_position' \in 0 .. BUFFER_WIDTH
<1> DEFINE last == BUFFER_HEIGHT - 1
<1>1. column_position \in Cols /\ column_position + 1 \in 0 .. BUFFER_WIDTH
  BY ScreenFacts DEF TypeOK, Cols
<1>2. last \in Rows /\ buffer \in [Rows -> [Cols -> Glyph]]
  BY ScreenFacts DEF TypeOK, Glyph
<1>3. buffer' = [buffer EXCEPT ![last] = [buffer[last] EXCEPT ![column_position] = b]]
  BY DEF PutByte
<1> HIDE DEF last
<1>4. [buffer[last] EXCEPT ![column_position] = b] \in [Cols -> Glyph]
  BY <1>1, <1>2
<1>5. buffer' \in [Rows -> [Cols -> Glyph]]
  BY <1>2, <1>3, <1>4
<1> QED
  BY <1>1, <1>5 DEF PutByte

\* write_byte keeps the invariant.
LEMMA WriteByteStep ==
  ASSUME IInv, NEW b \in Printable \cup {Newline, Other}, WriteByte(b)
  PROVE  IInv'
<1>1. TypeOK /\ pc = "idle" /\ text' \in Seq(Printable \cup {Newline, Other})
  BY DEF IInv, TypeOK, WriteByte
<1>2. Shown(b) \in Glyph \cup {Newline}
  BY Zenon DEF Shown, Glyph
<1>3. CASE NeedsNewLine(Shown(b))
  <2>1. pc' = "copy" /\ row' = 1 /\ byte' = Shown(b) /\ UNCHANGED <<buffer, column_position>>
    BY <1>3 DEF WriteByte
  <2>2. row' \in 0 .. BUFFER_HEIGHT /\ row' > 0
    BY <2>1, ScreenFacts
  <2> QED
    BY <1>1, <1>2, <2>1, <2>2 DEF IInv, TypeOK, Glyph
<1>4. CASE ~ NeedsNewLine(Shown(b))
  <2>1. PutByte(Shown(b)) /\ UNCHANGED <<pc, row, byte>>
    BY <1>4 DEF WriteByte
  <2>2. Shown(b) \in Glyph /\ ~ (column_position >= BUFFER_WIDTH)
    BY <1>2, <1>4 DEF NeedsNewLine
  <2>3. column_position < BUFFER_WIDTH
    BY <1>1, <2>2, ScreenFacts DEF TypeOK
  <2>4. buffer' \in [Rows -> [Cols -> Glyph]] /\ column_position' \in 0 .. BUFFER_WIDTH
    BY <1>1, <2>1, <2>2, <2>3, PutFacts
  <2> QED
    BY <1>1, <2>1, <2>4 DEF IInv, TypeOK, Glyph
<1> QED
  BY <1>3, <1>4

\* new_line keeps the invariant.
LEMMA NewLineStep ==
  ASSUME IInv, CopyRow \/ FinishNewLine
  PROVE  IInv'
<1>1. TypeOK /\ pc = "copy" /\ row > 0 /\ row \in 0 .. BUFFER_HEIGHT
  BY DEF IInv, TypeOK, CopyRow, FinishNewLine
<1>2. CASE CopyRow
  <2>1. row < BUFFER_HEIGHT /\ buffer' = [buffer EXCEPT ![row - 1] = buffer[row]]
        /\ row' = row + 1 /\ UNCHANGED <<column_position, pc, byte, text>>
    BY <1>2 DEF CopyRow
  <2>2. row \in Rows /\ row - 1 \in Rows /\ row + 1 \in 0 .. BUFFER_HEIGHT /\ row + 1 > 0
    BY <1>1, <2>1, ScreenFacts DEF Rows
  <2>3. buffer[row] \in [Cols -> Glyph]
    BY <1>1, <2>2 DEF TypeOK, Glyph
  <2>4. buffer' \in [Rows -> [Cols -> Glyph]]
    BY <1>1, <2>1, <2>2, <2>3, RowFacts
  <2> QED
    BY <1>1, <2>1, <2>2, <2>4 DEF IInv, TypeOK, Glyph
<1>3. CASE FinishNewLine
  <2>1. /\ buffer' = [buffer EXCEPT ![BUFFER_HEIGHT - 1] = [c \in Cols |-> Blank]]
        /\ column_position' = 0 /\ UNCHANGED <<row, byte, text>>
        /\ pc' = IF byte = Newline THEN "idle" ELSE "put"
    BY <1>3 DEF FinishNewLine
  <2>2. buffer' \in [Rows -> [Cols -> Glyph]]
    BY <1>1, <2>1, ScreenFacts, RowFacts
  <2>3. column_position' \in 0 .. BUFFER_WIDTH /\ column_position' < BUFFER_WIDTH
    BY <2>1, ScreenFacts
  <2> QED
    BY <1>1, <2>1, <2>2, <2>3 DEF IInv, TypeOK, Glyph
<1> QED
  BY <1>2, <1>3

\* The byte after a wrap keeps the invariant.
LEMMA PutWrappedStep ==
  ASSUME IInv, PutWrapped
  PROVE  IInv'
<1>1. TypeOK /\ PutByte(byte) /\ pc' = "idle" /\ UNCHANGED <<row, byte, text>>
  BY DEF IInv, PutWrapped
<1>2. byte \in Glyph /\ column_position < BUFFER_WIDTH
  BY DEF IInv, TypeOK, PutWrapped, Glyph
<1>3. buffer' \in [Rows -> [Cols -> Glyph]] /\ column_position' \in 0 .. BUFFER_WIDTH
  BY <1>1, <1>2, PutFacts
<1> QED
  BY <1>1, <1>3 DEF IInv, TypeOK, Glyph

\* For a screen of any size and a text of any length, Writer never indexes the
\* buffer outside its rows and columns: the cursor of a full row waits past the
\* last column, and write_byte never puts a byte there.
LEMMA WriterInv == Spec => []IInv
<1>1. Init => IInv
  BY VgaAssumption, ScreenFacts DEF Init, IInv, TypeOK, Glyph
<1>2. IInv /\ [Next]_vars => IInv'
  <2> SUFFICES ASSUME IInv, [Next]_vars PROVE IInv'
    OBVIOUS
  <2>1. ASSUME NEW b \in Printable \cup {Newline, Other}, WriteByte(b) PROVE IInv'
    BY <2>1, WriteByteStep
  <2>2. CASE UNCHANGED vars
    BY <2>2 DEF vars, IInv, TypeOK
  <2> QED
    BY <2>1, <2>2, NewLineStep, PutWrappedStep DEF Next, Quiet
<1> QED
  BY <1>1, <1>2, PTL DEF Spec

\* Writer indexes the buffer of vga_buffer.rs inside its rows and columns, whatever
\* is printed.
THEOREM WriterInBounds == Spec => []TypeOK
<1>1. IInv => TypeOK
  BY DEF IInv
<1> QED
  BY <1>1, WriterInv, PTL

-----------------------------------------------------------------------------
(* The layout of a text that grows.                                        *)

Bytes == Printable \cup {Newline, Other}

\* p is the last newline before byte k, or 0.
IsParagraph(t, k, p) ==
  /\ p \in 0 .. (k - 1) /\ (p > 0 => p \in Newlines(t))
  /\ \A i \in Newlines(t) : i < k => i <= p

\* Where the next byte goes.
Cursor(t) == IF Len(t) = 0 \/ Len(t) \in Newlines(t) THEN 0 ELSE ColumnOf(t, Len(t)) + 1

\* Paragraphs are what their name says, lines grow with the text, and the bytes
\* of the last line stand before the cursor.
LaidOut(t) ==
  /\ \A k \in 1 .. (Len(t) + 1) : IsParagraph(t, k, ParagraphOf(t, k))
  /\ LastLine(t) \in Nat
  /\ \A k \in 1 .. Len(t) : LineOf(t, k) \in 0 .. LastLine(t)
  /\ \A k \in 1 .. Len(t) :
       k \notin Newlines(t) /\ LineOf(t, k) = LastLine(t) => ColumnOf(t, k) < Cursor(t)
  /\ Len(t) > 0 /\ StartsLine(t, Len(t)) =>
       LastLine(t) > 0 /\ \A k \in 1 .. (Len(t) - 1) : LineOf(t, k) < LastLine(t)

\* A paragraph is unique.
LEMMA ParagraphIs ==
  ASSUME NEW t \in Seq(Bytes), NEW k \in Nat \ {0}, NEW p, IsParagraph(t, k, p)
  PROVE  ParagraphOf(t, k) = p
<1> DEFINE S == {0} \cup {i \in Newlines(t) : i < k}
<1>1. S \subseteq Nat
  BY DEF Newlines
<1>2. p \in S /\ \A y \in S : p >= y
  BY DEF IsParagraph, Newlines
<1>3. \A x \in S : (\A y \in S : x >= y) => x = p
  BY <1>1, <1>2
<1> HIDE DEF S
<1>4. (CHOOSE x \in S : \A y \in S : x >= y) = p
  BY <1>2, <1>3
<1>5. Max(S) = p
  BY <1>4 DEF Max
<1> QED
  BY <1>5 DEF ParagraphOf, S

\* The newlines of a text to which write_byte adds a byte.
LEMMA AppendNewlines ==
  ASSUME NEW t \in Seq(Bytes), NEW b \in Bytes, NEW u, u = Append(t, b)
  PROVE  /\ u \in Seq(Bytes) /\ Len(u) = Len(t) + 1 /\ Len(t) \in Nat
         /\ u[Len(t) + 1] = b /\ \A k \in 1 .. Len(t) : u[k] = t[k]
         /\ Newlines(u) = Newlines(t) \cup (IF b = Newline THEN {Len(t) + 1} ELSE {})
         /\ Newlines(t) \subseteq 1 .. Len(t)
<1>1. /\ u \in Seq(Bytes) /\ Len(u) = Len(t) + 1 /\ Len(t) \in Nat
      /\ u[Len(t) + 1] = b /\ \A k \in 1 .. Len(t) : u[k] = t[k]
  OBVIOUS
<1>2. 1 .. Len(u) = (1 .. Len(t)) \cup {Len(t) + 1}
  BY <1>1
<1> QED
  BY <1>1, <1>2 DEF Newlines

\* The bytes that are there keep their places.
LEMMA AppendKeeps ==
  ASSUME NEW t \in Seq(Bytes), NEW b \in Bytes, NEW u, u = Append(t, b)
  PROVE  /\ \A k \in 1 .. (Len(t) + 1) : ParagraphOf(u, k) = ParagraphOf(t, k)
                                         /\ ColumnOf(u, k) = ColumnOf(t, k)
         /\ \A k \in 1 .. Len(t) : StartsLine(u, k) <=> StartsLine(t, k)
         /\ \A k \in 0 .. Len(t) : LineOf(u, k) = LineOf(t, k)
<1>1. /\ Len(t) \in Nat /\ Newlines(t) \subseteq 1 .. Len(t)
      /\ Newlines(u) = Newlines(t) \cup (IF b = Newline THEN {Len(t) + 1} ELSE {})
  BY AppendNewlines, Zenon
<1>2. ASSUME NEW k \in 1 .. (Len(t) + 1)
      PROVE  ParagraphOf(u, k) = ParagraphOf(t, k) /\ ColumnOf(u, k) = ColumnOf(t, k)
  <2>1. {i \in Newlines(u) : i < k} = {i \in Newlines(t) : i < k}
    BY <1>1
  <2> QED
    BY <2>1, Zenon DEF ParagraphOf, ColumnOf
<1>3. ASSUME NEW k \in 1 .. Len(t) PROVE StartsLine(u, k) <=> StartsLine(t, k)
  <2>1. k \in 1 .. (Len(t) + 1) /\ (k \in Newlines(u) <=> k \in Newlines(t))
    BY <1>1
  <2> QED
    BY <1>2, <2>1, Zenon DEF StartsLine
<1>4. ASSUME NEW k \in 0 .. Len(t) PROVE LineOf(u, k) = LineOf(t, k)
  <2>1. \A i \in 1 .. k : i \in 1 .. Len(t)
    BY <1>1
  <2>2. {i \in 1 .. k : StartsLine(u, i)} = {i \in 1 .. k : StartsLine(t, i)}
    BY <1>3, <2>1, Zenon
  <2> QED
    BY <2>2, Zenon DEF LineOf
<1> QED
  BY <1>2, <1>3, <1>4, Zenon

\* The new byte goes on a new line exactly when it starts one.
LEMMA AppendLine ==
  ASSUME NEW t \in Seq(Bytes), NEW b \in Bytes, NEW u, u = Append(t, b)
  PROVE  /\ LastLine(t) \in Nat
         /\ LastLine(u) = LineOf(u, Len(t) + 1)
         /\ LastLine(u) = LastLine(t) + (IF StartsLine(u, Len(t) + 1) THEN 1 ELSE 0)
<1> DEFINE n == Len(t)
           S == {i \in 1 .. n : StartsLine(u, i)}
           T == {i \in 1 .. (n + 1) : StartsLine(u, i)}
<1>1. n \in Nat /\ Len(u) = n + 1
  BY AppendNewlines
<1>2. S \in SUBSET Nat /\ \A s \in S : s <= n
  BY <1>1
<1>3. T = IF StartsLine(u, n + 1) THEN S \cup {n + 1} ELSE S
  <2>1. 1 .. (n + 1) = (1 .. n) \cup {n + 1}
    BY <1>1
  <2> QED
    BY <2>1, Zenon
<1>4. n + 1 \notin S
  BY <1>1
<1>5. n \in 0 .. n
  BY <1>1
<1>6. LineOf(u, n) = LastLine(t)
  BY <1>5, AppendKeeps, Zenon DEF LastLine
<1> HIDE DEF n, S, T
<1>7. IsFiniteSet(S)
  BY <1>1, <1>2, FS_BoundedSetOfNaturals
<1>8. Cardinality(S) \in Nat /\ Cardinality(S \cup {n + 1}) = Cardinality(S) + 1
  BY <1>4, <1>7, FS_CardinalityType, FS_AddElement
<1>9. LineOf(u, n) = Cardinality(S) /\ LineOf(u, n + 1) = Cardinality(T)
  BY Zenon DEF LineOf, S, T
<1>10. LastLine(u) = LineOf(u, n + 1)
  BY <1>1 DEF LastLine
<1> QED
  BY <1>3, <1>6, <1>8, <1>9, <1>10 DEF n

\* Quotient and remainder by a positive number.
LEMMA Division ==
  ASSUME NEW d \in Nat \ {0}, NEW x \in Nat
  PROVE  x = d * (x \div d) + (x % d) /\ x % d \in 0 .. (d - 1) /\ x \div d \in Nat
OBVIOUS

\* The remainder counts up and starts again.
LEMMA NextRemainder ==
  ASSUME NEW d \in Nat \ {0}, NEW x \in Nat
  PROVE  (x + 1) % d = IF x % d = d - 1 THEN 0 ELSE (x % d) + 1
<1> DEFINE q == x \div d
           r == x % d
           p == (x + 1) \div d
           s == (x + 1) % d
<1>1. x = d * q + r /\ r \in 0 .. (d - 1) /\ q \in Nat
  BY Division, Zenon
<1>2. x + 1 = d * p + s /\ s \in 0 .. (d - 1) /\ p \in Nat
  <2>1. x + 1 \in Nat
    OBVIOUS
  <2> QED
    BY <2>1, Division, Zenon
<1> HIDE DEF q, r, p, s
<1>3. ~ (p >= q + 2)
  <2> SUFFICES ASSUME p >= q + 2 PROVE FALSE
    OBVIOUS
  <2>1. d * p >= d * (q + 2) /\ d * (q + 2) = d * q + d + d
    BY <1>1, <1>2
  <2> QED
    BY <1>1, <1>2, <2>1
<1>4. ~ (q >= p + 1)
  <2> SUFFICES ASSUME q >= p + 1 PROVE FALSE
    OBVIOUS
  <2>1. d * q >= d * (p + 1) /\ d * (p + 1) = d * p + d
    BY <1>1, <1>2
  <2> QED
    BY <1>1, <1>2, <2>1
<1>5. p = q \/ p = q + 1
  BY <1>1, <1>2, <1>3, <1>4
<1>6. d * (q + 1) = d * q + d
  BY <1>1
<1>7. s = IF r = d - 1 THEN 0 ELSE r + 1
  BY <1>1, <1>2, <1>5, <1>6
<1> QED
  BY <1>7 DEF r, s

\* Zero leaves no remainder.
LEMMA NoRemainder ==
  ASSUME NEW d \in Nat \ {0}
  PROVE  0 % d = 0
OBVIOUS

\* write_byte wraps exactly the bytes that start a line, and the others go where
\* the cursor is.
LEMMA AppendColumn ==
  ASSUME NEW t \in Seq(Bytes), NEW b \in Bytes, NEW u, u = Append(t, b), LaidOut(t)
  PROVE  /\ Cursor(t) \in 0 .. BUFFER_WIDTH
         /\ ColumnOf(u, Len(t) + 1) \in Cols
         /\ IsParagraph(u, Len(u) + 1, ParagraphOf(u, Len(u) + 1))
         /\ StartsLine(u, Len(t) + 1) <=> (b = Newline \/ Cursor(t) >= BUFFER_WIDTH)
         /\ ColumnOf(u, Len(t) + 1) = IF Cursor(t) >= BUFFER_WIDTH THEN 0 ELSE Cursor(t)
<1> DEFINE n == Len(t)
           p == ParagraphOf(t, n + 1)
           W == BUFFER_WIDTH
<1>1. /\ n \in Nat /\ Len(u) = n + 1 /\ Newlines(t) \subseteq 1 .. n
      /\ Newlines(u) = Newlines(t) \cup (IF b = Newline THEN {n + 1} ELSE {})
      /\ u \in Seq(Bytes)
  BY AppendNewlines, Zenon
<1>2. n + 1 \in 1 .. (n + 1) /\ W \in Nat \ {0}
  BY <1>1, VgaAssumption
<1>3. IsParagraph(t, n + 1, p)
  BY <1>2 DEF LaidOut
<1>4. ParagraphOf(u, n + 1) = p /\ ColumnOf(u, n + 1) = (n - p) % W
  <2>1. ParagraphOf(u, n + 1) = p
    BY <1>2, AppendKeeps, ZenonT(30)
  <2>2. p \in Nat /\ (n + 1) - p - 1 = n - p
    BY <1>1, <1>3 DEF IsParagraph
  <2> QED
    BY <2>1, <2>2 DEF ColumnOf
<1>5. n + 1 \in Newlines(u) <=> b = Newline
  BY <1>1
<1>6. p \in 0 .. n /\ (p > 0 => p \in Newlines(t)) /\ \A i \in Newlines(t) : i <= p
  BY <1>1, <1>3 DEF IsParagraph
<1>7. IsParagraph(u, n + 2, ParagraphOf(u, n + 2))
  <2>1. CASE b = Newline
    <3>1. IsParagraph(u, n + 2, n + 1)
      BY <1>1, <2>1 DEF IsParagraph
    <3>2. n + 2 \in Nat \ {0}
      BY <1>1
    <3>3. ParagraphOf(u, n + 2) = n + 1
      BY <1>1, <3>1, <3>2, ParagraphIs, Zenon
    <3> QED
      BY <3>1, <3>3, Zenon
  <2>2. CASE b # Newline
    <3>1. IsParagraph(u, n + 2, p)
      BY <1>1, <1>6, <2>2 DEF IsParagraph
    <3>2. n + 2 \in Nat \ {0}
      BY <1>1
    <3>3. ParagraphOf(u, n + 2) = p
      BY <1>1, <3>1, <3>2, ParagraphIs, Zenon
    <3> QED
      BY <3>1, <3>3, Zenon
  <2> QED
    BY <2>1, <2>2
<1>8. CASE n = 0 \/ n \in Newlines(t)
  <2>1. p = n /\ Cursor(t) = 0
    BY <1>1, <1>6, <1>8 DEF Cursor
  <2>2. (n - p) % W = 0
    BY <1>1, <1>2, <2>1, NoRemainder
  <2>3. StartsLine(u, n + 1) <=> b = Newline
    BY <1>1, <1>4, <1>5, <2>1 DEF StartsLine
  <2> QED
    BY <1>1, <1>2, <1>4, <1>7, <2>1, <2>2, <2>3 DEF Cols
<1>9. CASE ~ (n = 0 \/ n \in Newlines(t))
  <2>1. n > 0 /\ n \in 1 .. (n + 1) /\ p < n
    BY <1>1, <1>6, <1>9
  <2>2. ParagraphOf(t, n) = p
    <3>1. IsParagraph(t, n, p)
      BY <1>1, <1>6, <2>1 DEF IsParagraph
    <3> QED
      BY <1>1, <2>1, <3>1, ParagraphIs
  <2> DEFINE x == n - p - 1
             r == x % W
  <2>3. x \in Nat /\ x + 1 = n - p
    BY <1>1, <1>6, <2>1
  <2>4. ColumnOf(t, n) = r
    BY <2>2 DEF ColumnOf
  <2>5. Cursor(t) = r + 1
    BY <1>9, <2>4 DEF Cursor
  <2>6. r \in 0 .. (W - 1)
    BY <1>2, <2>3, Division, Zenon
  <2>7. (n - p) % W = IF r = W - 1 THEN 0 ELSE r + 1
    <3> HIDE DEF x
    <3>1. (x + 1) % W = IF x % W = W - 1 THEN 0 ELSE (x % W) + 1
      BY <1>2, <2>3, NextRemainder, Zenon
    <3> QED
      BY <2>3, <3>1
  <2> HIDE DEF r, x
  <2>8. n + 1 > p + 1
    BY <1>1, <1>6, <2>1
  <2>9. StartsLine(u, n + 1) <=> (b = Newline \/ (n - p) % W = 0)
    BY <1>4, <1>5, <2>8 DEF StartsLine
  <2> HIDE DEF n, p
  <2> QED
    BY <1>1, <1>2, <1>4, <1>7, <2>5, <2>6, <2>7, <2>9 DEF Cols, n
<1> QED
  BY <1>8, <1>9

\* A text that is laid out stays so when a byte is added.
LEMMA AppendLaidOut ==
  ASSUME NEW t \in Seq(Bytes), NEW b \in Bytes, NEW u, u = Append(t, b), LaidOut(t)
  PROVE  LaidOut(u)
<1> DEFINE n == Len(t)
           L == LastLine(t)
<1>1. /\ n \in Nat /\ Len(u) = n + 1 /\ Newlines(t) \subseteq 1 .. n
      /\ Newlines(u) = Newlines(t) \cup (IF b = Newline THEN {n + 1} ELSE {})
  BY AppendNewlines, Zenon
<1>2. /\ L \in Nat /\ LastLine(u) = LineOf(u, n + 1)
      /\ LastLine(u) = L + (IF StartsLine(u, n + 1) THEN 1 ELSE 0)
  BY AppendLine, Zenon
<1>3. /\ \A k \in 1 .. (n + 1) : ParagraphOf(u, k) = ParagraphOf(t, k)
                                 /\ ColumnOf(u, k) = ColumnOf(t, k)
      /\ \A k \in 0 .. n : LineOf(u, k) = LineOf(t, k)
  BY AppendKeeps, Zenon
<1>4. \A k \in 1 .. (Len(u) + 1) : IsParagraph(u, k, ParagraphOf(u, k))
  <2>1. ASSUME NEW k \in 1 .. (n + 1) PROVE IsParagraph(u, k, ParagraphOf(u, k))
    <3>1. IsParagraph(t, k, ParagraphOf(t, k))
      BY DEF LaidOut
    <3> DEFINE p == ParagraphOf(t, k)
    <3>2. ParagraphOf(u, k) = p
      BY <1>3
    <3> HIDE DEF p
    <3> QED
      BY <1>1, <3>1, <3>2 DEF IsParagraph, p
  <2>2. IsParagraph(u, n + 2, ParagraphOf(u, n + 2))
    <3>1. Len(u) + 1 = n + 2
      BY <1>1
    <3> QED
      BY <3>1, AppendColumn, Zenon
  <2>3. \A k \in 1 .. (Len(u) + 1) : k \in 1 .. (n + 1) \/ k = n + 2
    BY <1>1
  <2> QED
    BY <2>1, <2>2, <2>3, Zenon
<1>5. \A k \in 1 .. n : LineOf(u, k) \in 0 .. L
  BY <1>1, <1>3 DEF LaidOut
<1> HIDE DEF n, L
<1>6. \A k \in 1 .. Len(u) : LineOf(u, k) \in 0 .. LastLine(u)
  BY <1>1, <1>2, <1>5
<1>7. StartsLine(u, n + 1) =>
        LastLine(u) > 0 /\ \A k \in 1 .. n : LineOf(u, k) < LastLine(u)
  BY <1>1, <1>2, <1>5
<1>8. ASSUME NEW k \in 1 .. Len(u), k \notin Newlines(u), LineOf(u, k) = LastLine(u)
      PROVE  ColumnOf(u, k) < Cursor(u)
  <2>1. ColumnOf(u, n + 1) \in Cols
    BY AppendColumn, Zenon DEF n
  <2>2. CASE k = n + 1
    <3>1. Cursor(u) = ColumnOf(u, n + 1) + 1
      BY <1>1, <1>8, <2>2 DEF Cursor
    <3> QED
      BY <2>1, <2>2, <3>1 DEF Cols
  <2>3. CASE k # n + 1
    <3>1. k \in 1 .. n /\ k \notin Newlines(t)
      BY <1>1, <1>8, <2>3
    <3>2. ~ StartsLine(u, n + 1)
      BY <1>1, <1>2, <1>5, <1>7, <1>8, <3>1
    <3>3. LastLine(u) = L
      BY <1>2, <3>2
    <3>4. LineOf(t, k) = L /\ ColumnOf(u, k) = ColumnOf(t, k)
      BY <1>1, <1>3, <1>8, <3>1, <3>3
    <3>5. ColumnOf(t, k) < Cursor(t)
      BY <3>1, <3>4 DEF LaidOut, n, L
    <3>6. b # Newline /\ ~ (Cursor(t) >= BUFFER_WIDTH)
      BY <3>2, AppendColumn, Zenon DEF n
    <3>7. ColumnOf(u, n + 1) = Cursor(t)
      BY <3>6, AppendColumn, Zenon DEF n
    <3>8. Cursor(u) = ColumnOf(u, n + 1) + 1
      BY <1>1, <3>6 DEF Cursor
    <3>9. ColumnOf(t, k) \in Int
      <4>1. IsParagraph(t, k, ParagraphOf(t, k))
        <5>1. k \in 1 .. (Len(t) + 1)
          BY <1>1, <3>1 DEF n
        <5> QED
          BY <5>1 DEF LaidOut
      <4>2. k - ParagraphOf(t, k) - 1 \in Nat
        BY <4>1, <3>1, <1>1 DEF IsParagraph
      <4> QED
        BY <4>2, Division, VgaAssumption DEF ColumnOf
    <3> QED
      BY <2>1, <3>4, <3>5, <3>7, <3>8, <3>9 DEF Cols
  <2> QED
    BY <2>2, <2>3
<1>9. LastLine(u) \in Nat
  BY <1>2
<1>10. Len(u) > 0 /\ StartsLine(u, Len(u)) =>
         LastLine(u) > 0 /\ \A k \in 1 .. (Len(u) - 1) : LineOf(u, k) < LastLine(u)
  <2>1. Len(u) - 1 = n
    BY <1>1
  <2> QED
    BY <1>1, <1>7, <2>1, Zenon
<1> QED
  BY <1>4, <1>6, <1>8, <1>9, <1>10, Zenon DEF LaidOut

-----------------------------------------------------------------------------
(* The screen and the text.                                                *)

\* The value v is right for a column of a line of text t.
Fits(t, line, col, v) ==
  /\ \A k \in BytesAt(t, line, col) : v = Shown(t[k])
  /\ BytesAt(t, line, col) = {} =>
       v = IF line > 0 THEN Blank ELSE BootScreen[BUFFER_HEIGHT - 1 + line][col]

RowShows(r, line) == \A c \in Cols : Fits(text, line, c, buffer[r][c])

\* The line of row r once new_line is done.
LineAt(t, r) == LastLine(t) - (BUFFER_HEIGHT - 1) + r

ScreenInv ==
  /\ LaidOut(text)
  /\ pc = "idle" => column_position = Cursor(text) /\ \A r \in Rows : RowShows(r, LineAt(text, r))
  /\ pc \in {"copy", "put"} =>
       /\ Len(text) > 0 /\ StartsLine(text, Len(text)) /\ byte = Shown(text[Len(text)])
  /\ pc = "copy" =>
       \A r \in Rows : RowShows(r, IF r < row - 1 THEN LineAt(text, r) ELSE LineAt(text, r) - 1)
  /\ pc = "put" =>
       /\ column_position = 0
       /\ \A r \in Rows, c \in Cols :
            r # BUFFER_HEIGHT - 1 \/ c # 0 => Fits(text, LineAt(text, r), c, buffer[r][c])

\* What is right for a cell stays right unless the new byte belongs there.
LEMMA AppendFits ==
  ASSUME NEW t \in Seq(Bytes), NEW b \in Bytes, NEW u, u = Append(t, b),
         NEW line \in Int, NEW col \in Cols, NEW v, Fits(t, line, col, v),
         b = Newline \/ LastLine(u) # line \/ ColumnOf(u, Len(u)) # col
  PROVE  Fits(u, line, col, v)
<1> DEFINE n == Len(t)
<1>1. /\ n \in Nat /\ Len(u) = n + 1 /\ Newlines(t) \subseteq 1 .. n
      /\ Newlines(u) = Newlines(t) \cup (IF b = Newline THEN {n + 1} ELSE {})
  BY AppendNewlines, Zenon
<1>0. \A k \in 1 .. n : u[k] = t[k]
  OBVIOUS
<1>2. LastLine(u) = LineOf(u, n + 1)
  BY AppendLine, Zenon
<1>3. \A k \in 1 .. n : ColumnOf(u, k) = ColumnOf(t, k) /\ LineOf(u, k) = LineOf(t, k)
  <2>1. \A k \in 1 .. n : k \in 1 .. (n + 1) /\ k \in 0 .. n
    BY <1>1
  <2> QED
    BY <2>1, AppendKeeps, Zenon
<1> HIDE DEF n
<1>4. \A k \in 1 .. Len(u) : k \in 1 .. n \/ k = n + 1
  BY <1>1
<1>5. \A k \in 1 .. n : k \in 1 .. Len(u) /\ (k \in Newlines(u) <=> k \in Newlines(t))
  BY <1>1
<1>6. n + 1 \notin BytesAt(u, line, col)
  BY <1>1, <1>2 DEF BytesAt
<1>7. BytesAt(u, line, col) = BytesAt(t, line, col) /\ BytesAt(t, line, col) \subseteq 1 .. n
  BY <1>3, <1>4, <1>5, <1>6, Zenon DEF BytesAt, n
<1> QED
  BY <1>0, <1>7, Zenon DEF Fits

\* What fits a cell is what the text has there.
LEMMA CellFits ==
  ASSUME NEW t, NEW line, NEW col, NEW v, Fits(t, line, col, v)
  PROVE  v = Expected(t, line, col)
<1>1. CASE BytesAt(t, line, col) = {}
  BY <1>1, Zenon DEF Fits, Expected
<1>2. CASE BytesAt(t, line, col) # {}
  <2> DEFINE k == CHOOSE k \in BytesAt(t, line, col) : TRUE
  <2>1. k \in BytesAt(t, line, col)
    BY <1>2
  <2> HIDE DEF k
  <2>2. v = Shown(t[k])
    BY <2>1, Zenon DEF Fits
  <2>3. Expected(t, line, col) = Shown(t[k])
    BY <1>2 DEF Expected, k
  <2> QED
    BY <2>2, <2>3
<1> QED
  BY <1>1, <1>2

\* A byte that stays on its line.
LEMMA ScreenPut ==
  ASSUME IInv, ScreenInv, NEW b \in Bytes, WriteByte(b), ~ NeedsNewLine(Shown(b))
  PROVE  ScreenInv'
<1> DEFINE n == Len(text)
           H == BUFFER_HEIGHT - 1
<1>1. /\ text \in Seq(Bytes) /\ text' = Append(text, b) /\ TypeOK /\ LaidOut(text)
      /\ pc = "idle" /\ pc' = "idle" /\ PutByte(Shown(b))
  BY DEF IInv, TypeOK, ScreenInv, WriteByte, Bytes
<1>2. column_position = Cursor(text) /\ \A r \in Rows : RowShows(r, LineAt(text, r))
  BY <1>1 DEF ScreenInv
<1>3. b # Newline /\ ~ (Cursor(text) >= BUFFER_WIDTH)
  BY <1>2 DEF NeedsNewLine, Shown
<1>4. LaidOut(text')
  BY <1>1, AppendLaidOut, Zenon
<1>5. /\ ~ StartsLine(text', n + 1) /\ ColumnOf(text', n + 1) = column_position
      /\ column_position \in Cols
  BY <1>1, <1>2, <1>3, AppendColumn, Zenon
<1>6. LastLine(text') = LastLine(text) /\ LastLine(text) \in Nat
  <2>1. /\ LastLine(text) \in Nat
        /\ LastLine(text') = LastLine(text) + (IF StartsLine(text', n + 1) THEN 1 ELSE 0)
    BY <1>1, AppendLine, Zenon
  <2> QED
    BY <1>5, <2>1
<1>7. /\ Len(text') = n + 1 /\ n \in Nat /\ text'[n + 1] = b
      /\ Newlines(text) \subseteq 1 .. n /\ Newlines(text') = Newlines(text)
      /\ n + 1 \notin Newlines(text')
  <2>1. /\ Len(text') = n + 1 /\ n \in Nat /\ text'[n + 1] = b
        /\ Newlines(text') = Newlines(text) \cup (IF b = Newline THEN {n + 1} ELSE {})
        /\ Newlines(text) \subseteq 1 .. n
    BY <1>1, AppendNewlines, Zenon
  <2> QED
    BY <1>3, <2>1
<1>8. Cursor(text') = column_position + 1
  BY <1>5, <1>7 DEF Cursor
<1>9. /\ H \in Rows /\ buffer \in [Rows -> [Cols -> Glyph]]
      /\ buffer' = [buffer EXCEPT ![H] = [buffer[H] EXCEPT ![column_position] = Shown(b)]]
      /\ column_position' = column_position + 1
  BY <1>1, ScreenFacts DEF PutByte, TypeOK, Glyph
<1>10. ASSUME NEW r \in Rows, NEW c \in Cols
       PROVE  Fits(text', LineAt(text', r), c, buffer'[r][c])
  <2>1. LineAt(text', r) = LineAt(text, r) /\ LineAt(text, r) \in Int
    BY <1>6, ScreenFacts DEF LineAt, Rows
  <2>2. Fits(text, LineAt(text, r), c, buffer[r][c])
    BY <1>2 DEF RowShows
  <2>3. CASE r # H \/ c # column_position
    <3>1. buffer'[r][c] = buffer[r][c]
      <4>1. buffer[H] \in [Cols -> Glyph]
        BY <1>9, Zenon
      <4> QED
        BY <1>9, <2>3, <4>1
    <3>2. LastLine(text') # LineAt(text, r) \/ ColumnOf(text', Len(text')) # c
      <4>1. r # H => LastLine(text) # LineAt(text, r)
        BY <1>6, ScreenFacts DEF LineAt, Rows
      <4> QED
        BY <1>5, <1>6, <1>7, <2>3, <4>1
    <3> QED
      BY <1>1, <2>1, <2>2, <3>1, <3>2, AppendFits, Zenon
  <2>4. CASE r = H /\ c = column_position
    <3>1. buffer'[r][c] = Shown(b)
      <4>1. buffer[H] \in [Cols -> Glyph]
        BY <1>9, Zenon
      <4> QED
        BY <1>9, <2>4, <4>1
    <3>2. LineAt(text', r) = LastLine(text)
      BY <1>6, <2>4, ScreenFacts DEF LineAt
    <3>3. \A k \in BytesAt(text', LastLine(text), c) : k = n + 1
      <4> SUFFICES ASSUME NEW k \in BytesAt(text', LastLine(text), c), k # n + 1 PROVE FALSE
        OBVIOUS
      <4>1. /\ k \in 1 .. (n + 1) /\ k \notin Newlines(text') /\ LineOf(text', k) = LastLine(text)
            /\ ColumnOf(text', k) = c
        BY <1>7 DEF BytesAt
      <4>2. k \in 1 .. n /\ k \in 0 .. n
        BY <1>7, <4>1
      <4>3. LineOf(text, k) = LastLine(text) /\ ColumnOf(text, k) = c
        BY <1>1, <4>1, <4>2, AppendKeeps, Zenon
      <4>4. k \notin Newlines(text)
        BY <1>7, <4>1
      <4>5. ColumnOf(text, k) < Cursor(text)
        BY <1>1, <4>2, <4>3, <4>4 DEF LaidOut
      <4> QED
        BY <1>2, <1>5, <2>4, <4>3, <4>5 DEF Cols
    <3>4. n + 1 \in BytesAt(text', LastLine(text), c)
      <4>1. LineOf(text', n + 1) = LastLine(text)
        BY <1>1, <1>6, AppendLine, Zenon
      <4>2. n + 1 \in 1 .. Len(text')
        BY <1>7
      <4> QED
        BY <1>5, <1>7, <2>4, <4>1, <4>2 DEF BytesAt
    <3> QED
      BY <1>7, <3>1, <3>2, <3>3, <3>4, Zenon DEF Fits
  <2> QED
    BY <2>3, <2>4
<1>11. \A r \in Rows : RowShows(r, LineAt(text, r))'
  BY <1>10, Zenon DEF RowShows
<1>12. column_position' = Cursor(text')
  BY <1>8, <1>9
<1> QED
  BY <1>1, <1>4, <1>11, <1>12, Zenon DEF ScreenInv

\* A byte that starts a line: nothing moves yet.
LEMMA ScreenWrap ==
  ASSUME IInv, ScreenInv, NEW b \in Bytes, WriteByte(b), NeedsNewLine(Shown(b))
  PROVE  ScreenInv'
<1> DEFINE n == Len(text)
<1>1. /\ text \in Seq(Bytes) /\ text' = Append(text, b) /\ TypeOK /\ LaidOut(text)
      /\ pc = "idle" /\ pc' = "copy" /\ row' = 1 /\ byte' = Shown(b)
      /\ UNCHANGED <<buffer, column_position>>
  BY DEF IInv, TypeOK, ScreenInv, WriteByte, Bytes
<1>2. column_position = Cursor(text) /\ \A r \in Rows : RowShows(r, LineAt(text, r))
  BY <1>1 DEF ScreenInv
<1>3. b = Newline \/ Cursor(text) >= BUFFER_WIDTH
  BY <1>2, VgaAssumption DEF NeedsNewLine, Shown
<1>4. LaidOut(text')
  BY <1>1, AppendLaidOut, Zenon
<1>5. StartsLine(text', n + 1)
  BY <1>1, <1>3, AppendColumn, Zenon
<1>6. LastLine(text') = LastLine(text) + 1 /\ LastLine(text) \in Nat
  <2>1. /\ LastLine(text) \in Nat
        /\ LastLine(text') = LastLine(text) + (IF StartsLine(text', n + 1) THEN 1 ELSE 0)
    BY <1>1, AppendLine, Zenon
  <2> QED
    BY <1>5, <2>1
<1>7. Len(text') = n + 1 /\ n \in Nat /\ text'[n + 1] = b
  BY <1>1, AppendNewlines, Zenon
<1>8. Len(text') > 0 /\ StartsLine(text', Len(text')) /\ byte' = Shown(text'[Len(text')])
  BY <1>1, <1>5, <1>7
<1>9. ASSUME NEW r \in Rows, NEW c \in Cols
      PROVE  Fits(text', LineAt(text', r) - 1, c, buffer'[r][c])
  <2>1. /\ LineAt(text', r) - 1 = LineAt(text, r) /\ LineAt(text, r) \in Int
        /\ LastLine(text') # LineAt(text, r)
    BY <1>6, ScreenFacts DEF LineAt, Rows
  <2>2. Fits(text, LineAt(text, r), c, buffer[r][c])
    BY <1>2 DEF RowShows
  <2>3. Fits(text', LineAt(text, r), c, buffer[r][c])
    BY <1>1, <2>1, <2>2, AppendFits, Zenon
  <2> QED
    BY <1>1, <2>1, <2>3
<1>10. ASSUME NEW r \in Rows
       PROVE  RowShows(r, IF r < row - 1 THEN LineAt(text, r) ELSE LineAt(text, r) - 1)'
  <2>1. ~ (r < row' - 1)
    BY <1>1 DEF Rows
  <2> QED
    BY <1>9, <2>1 DEF RowShows
<1> QED
  BY <1>1, <1>4, <1>8, <1>10, Zenon DEF ScreenInv

\* The copy loop never overwrites a row it still needs.
LEMMA ScreenCopy ==
  ASSUME IInv, ScreenInv, CopyRow
  PROVE  ScreenInv'
<1>1. /\ TypeOK /\ pc = "copy" /\ row > 0 /\ row < BUFFER_HEIGHT /\ row \in Nat
      /\ buffer' = [buffer EXCEPT ![row - 1] = buffer[row]]
      /\ row' = row + 1 /\ UNCHANGED <<column_position, pc, byte, text>>
  BY DEF IInv, TypeOK, CopyRow
<1>2. /\ LaidOut(text)
      /\ Len(text) > 0 /\ StartsLine(text, Len(text)) /\ byte = Shown(text[Len(text)])
      /\ \A r \in Rows : RowShows(r, IF r < row - 1 THEN LineAt(text, r) ELSE LineAt(text, r) - 1)
  BY <1>1 DEF ScreenInv
<1>3. LastLine(text) \in Nat /\ \A r \in Rows : LineAt(text, r) \in Int
  BY <1>2, ScreenFacts DEF LaidOut, LineAt, Rows
<1>4. row \in Rows /\ row - 1 \in Rows /\ buffer \in [Rows -> [Cols -> Glyph]]
  BY <1>1, ScreenFacts DEF Rows, TypeOK, Glyph
<1>5. ASSUME NEW r \in Rows
      PROVE  RowShows(r, IF r < row - 1 THEN LineAt(text, r) ELSE LineAt(text, r) - 1)'
  <2>1. CASE r = row - 1
    <3>1. LineAt(text, row) - 1 = LineAt(text, r) /\ ~ (row < row - 1) /\ r < row' - 1
      BY <1>1, <1>3, <1>4, <2>1, ScreenFacts DEF LineAt
    <3>2. RowShows(row, LineAt(text, r))
      BY <1>2, <1>4, <3>1
    <3>3. buffer'[r] = buffer[row]
      BY <1>1, <1>4, <2>1
    <3> QED
      BY <1>1, <3>1, <3>2, <3>3 DEF RowShows
  <2>2. CASE r # row - 1
    <3>1. buffer'[r] = buffer[r]
      BY <1>1, <1>4, <2>2
    <3>2. (r < row' - 1) <=> (r < row - 1)
      BY <1>1, <2>2 DEF Rows
    <3>3. RowShows(r, IF r < row - 1 THEN LineAt(text, r) ELSE LineAt(text, r) - 1)
      BY <1>2
    <3> QED
      BY <1>1, <3>1, <3>2, <3>3 DEF RowShows
  <2> QED
    BY <2>1, <2>2
<1> QED
  BY <1>1, <1>2, <1>5, Zenon DEF ScreenInv

\* The new bottom row is empty, but for the byte that wrapped.
LEMMA ScreenFinish ==
  ASSUME IInv, ScreenInv, FinishNewLine
  PROVE  ScreenInv'
<1> DEFINE n == Len(text)
           H == BUFFER_HEIGHT - 1
<1>1. /\ TypeOK /\ pc = "copy" /\ row = BUFFER_HEIGHT
      /\ buffer' = [buffer EXCEPT ![H] = [c \in Cols |-> Blank]]
      /\ column_position' = 0 /\ UNCHANGED <<row, byte, text>>
      /\ pc' = IF byte = Newline THEN "idle" ELSE "put"
  BY DEF IInv, FinishNewLine
<1>2. /\ LaidOut(text)
      /\ n > 0 /\ StartsLine(text, n) /\ byte = Shown(text[n])
      /\ \A r \in Rows : RowShows(r, IF r < row - 1 THEN LineAt(text, r) ELSE LineAt(text, r) - 1)
  BY <1>1 DEF ScreenInv
<1>3. /\ LastLine(text) > 0 /\ LastLine(text) \in Nat
      /\ \A k \in 1 .. (n - 1) : LineOf(text, k) < LastLine(text)
  BY <1>2 DEF LaidOut
<1>4. H \in Rows /\ buffer \in [Rows -> [Cols -> Glyph]] /\ BUFFER_HEIGHT \in Nat
  BY <1>1, ScreenFacts DEF TypeOK, Glyph
<1>5. text \in Seq(Bytes) /\ n \in Nat
  BY <1>1 DEF TypeOK, Bytes
<1>6. byte = Newline <=> n \in Newlines(text)
  BY <1>2, <1>5, VgaAssumption DEF Newlines, Shown
<1>7. ASSUME NEW r \in Rows, NEW c \in Cols, n \in Newlines(text) \/ r # H \/ c # 0
      PROVE  Fits(text, LineAt(text, r), c, buffer'[r][c])
  <2>1. CASE r # H
    <3>1. buffer'[r] = buffer[r] /\ r < row - 1
      BY <1>1, <1>4, <2>1 DEF Rows
    <3> QED
      BY <1>2, <3>1 DEF RowShows
  <2>2. CASE r = H
    <3>1. buffer'[r][c] = Blank /\ LineAt(text, r) = LastLine(text)
      BY <1>1, <1>3, <1>4, <2>2 DEF LineAt
    <3>2. BytesAt(text, LastLine(text), c) = {}
      <4> SUFFICES ASSUME NEW k \in BytesAt(text, LastLine(text), c) PROVE FALSE
        OBVIOUS
      <4>1. /\ k \in 1 .. n /\ k \notin Newlines(text) /\ LineOf(text, k) = LastLine(text)
            /\ ColumnOf(text, k) = c
        BY DEF BytesAt
      <4>2. k = n
        BY <1>3, <1>5, <4>1
      <4>3. ColumnOf(text, n) = 0
        BY <1>2, <4>1, <4>2 DEF StartsLine
      <4> QED
        BY <1>7, <2>2, <4>1, <4>2, <4>3
    <3> QED
      BY <1>3, <3>1, <3>2 DEF Fits
  <2> QED
    BY <2>1, <2>2
<1>8. CASE byte = Newline
  <2>1. Cursor(text) = 0 /\ pc' = "idle"
    BY <1>1, <1>6, <1>8 DEF Cursor
  <2>2. \A r \in Rows : RowShows(r, LineAt(text, r))'
    BY <1>1, <1>6, <1>7, <1>8, Zenon DEF RowShows
  <2> QED
    BY <1>1, <1>2, <2>1, <2>2, Zenon DEF ScreenInv
<1>9. CASE byte # Newline
  <2>1. pc' = "put"
    BY <1>1, <1>9
  <2>2. \A r \in Rows, c \in Cols : r # H \/ c # 0 => Fits(text, LineAt(text, r), c, buffer[r][c])'
    BY <1>1, <1>7
  <2> QED
    BY <1>1, <1>2, <2>1, <2>2, Zenon DEF ScreenInv
<1> QED
  BY <1>8, <1>9

\* The byte after a wrap lands where the text says.
LEMMA ScreenPutWrapped ==
  ASSUME IInv, ScreenInv, PutWrapped
  PROVE  ScreenInv'
<1> DEFINE n == Len(text)
           H == BUFFER_HEIGHT - 1
<1>1. /\ TypeOK /\ pc = "put" /\ byte # Newline /\ pc' = "idle" /\ PutByte(byte)
      /\ UNCHANGED <<row, byte, text>>
  BY DEF IInv, PutWrapped
<1>2. /\ LaidOut(text) /\ column_position = 0
      /\ n > 0 /\ StartsLine(text, n) /\ byte = Shown(text[n])
      /\ \A r \in Rows, c \in Cols :
           r # H \/ c # 0 => Fits(text, LineAt(text, r), c, buffer[r][c])
  BY <1>1 DEF ScreenInv
<1>3. /\ LastLine(text) > 0 /\ LastLine(text) \in Nat
      /\ \A k \in 1 .. (n - 1) : LineOf(text, k) < LastLine(text)
  BY <1>2 DEF LaidOut
<1>4. /\ H \in Rows /\ buffer \in [Rows -> [Cols -> Glyph]] /\ BUFFER_HEIGHT \in Nat
      /\ 0 \in Cols
  BY <1>1, ScreenFacts DEF TypeOK, Glyph, Cols
<1>5. text \in Seq(Bytes) /\ n \in Nat
  BY <1>1 DEF TypeOK, Bytes
<1>6. n \notin Newlines(text)
  BY <1>1, <1>2, <1>5, VgaAssumption DEF Newlines, Shown
<1>7. ColumnOf(text, n) = 0
  BY <1>2, <1>6 DEF StartsLine
<1>8. Cursor(text) = 1
  BY <1>2, <1>6, <1>7 DEF Cursor
<1>9. /\ buffer' = [buffer EXCEPT ![H] = [buffer[H] EXCEPT ![0] = byte]]
      /\ column_position' = 1
  BY <1>1, <1>2 DEF PutByte
<1>10. ASSUME NEW r \in Rows, NEW c \in Cols
       PROVE  Fits(text, LineAt(text, r), c, buffer'[r][c])
  <2>1. buffer[H] \in [Cols -> Glyph]
    BY <1>4, Zenon
  <2>2. CASE r # H \/ c # 0
    <3>1. buffer'[r][c] = buffer[r][c]
      BY <1>4, <1>9, <2>1, <2>2
    <3> QED
      BY <1>2, <2>2, <3>1
  <2>3. CASE r = H /\ c = 0
    <3>1. buffer'[r][c] = byte /\ LineAt(text, r) = LastLine(text)
      BY <1>3, <1>4, <1>9, <2>1, <2>3 DEF LineAt
    <3>2. \A k \in BytesAt(text, LastLine(text), c) : k = n
      BY <1>3, <1>5 DEF BytesAt
    <3>3. n \in BytesAt(text, LastLine(text), c)
      BY <1>2, <1>5, <1>6, <1>7, <2>3 DEF BytesAt, LastLine
    <3> QED
      BY <1>2, <3>1, <3>2, <3>3, Zenon DEF Fits
  <2> QED
    BY <2>2, <2>3
<1>11. \A r \in Rows : RowShows(r, LineAt(text, r))'
  BY <1>1, <1>10, Zenon DEF RowShows
<1>12. column_position' = Cursor(text')
  BY <1>1, <1>8, <1>9
<1> QED
  BY <1>1, <1>2, <1>11, <1>12, Zenon DEF ScreenInv

\* A blank screen shows the empty text.
LEMMA ScreenInit ==
  ASSUME Init
  PROVE  ScreenInv
<1>1. text = <<>> /\ Len(text) = 0 /\ text \in Seq(Bytes) /\ buffer = BootScreen
      /\ column_position = 0 /\ pc = "idle"
  BY DEF Init
<1>2. Newlines(text) = {}
  BY <1>1 DEF Newlines
<1>3. ParagraphOf(text, 1) = 0 /\ IsParagraph(text, 1, 0)
  <2>1. IsParagraph(text, 1, 0)
    BY <1>2 DEF IsParagraph
  <2>2. 1 \in Nat \ {0}
    OBVIOUS
  <2> QED
    BY <1>1, <2>1, <2>2, ParagraphIs, Zenon
<1>4. LastLine(text) = 0
  <2>1. {i \in 1 .. 0 : StartsLine(text, i)} = {}
    OBVIOUS
  <2> QED
    BY <1>1, <2>1, FS_EmptySet DEF LastLine, LineOf
<1>5. LaidOut(text)
  BY <1>1, <1>3, <1>4 DEF LaidOut
<1>6. Cursor(text) = 0
  BY <1>1 DEF Cursor
<1>7. ASSUME NEW r \in Rows, NEW c \in Cols
      PROVE  Fits(text, LineAt(text, r), c, buffer[r][c])
  <2>1. BytesAt(text, LineAt(text, r), c) = {}
    BY <1>1 DEF BytesAt
  <2>2. ~ (LineAt(text, r) > 0) /\ BUFFER_HEIGHT - 1 + LineAt(text, r) = r
    BY <1>4, ScreenFacts DEF LineAt, Rows
  <2> QED
    BY <1>1, <2>1, <2>2 DEF Fits
<1> QED
  BY <1>1, <1>5, <1>6, <1>7 DEF ScreenInv, RowShows

\* For a screen of any size and a text of any length, between two bytes the
\* screen shows the last lines of what was printed: the copy loop of new_line
\* overwrites no row it still needs, clear_row leaves nothing of the row before,
\* and write_byte wraps exactly the bytes that no longer fit.
THEOREM ScreenCorrect == Spec => []ScreenShowsText
<1>1. Init => ScreenInv
  BY ScreenInit
<1>2. IInv /\ ScreenInv /\ [Next]_vars => ScreenInv'
  <2> SUFFICES ASSUME IInv, ScreenInv, [Next]_vars PROVE ScreenInv'
    OBVIOUS
  <2>1. ASSUME NEW b \in Printable \cup {Newline, Other}, WriteByte(b) PROVE ScreenInv'
    BY <2>1, ScreenPut, ScreenWrap, SMTT(20) DEF Bytes
  <2>2. CASE UNCHANGED vars
    BY <2>2 DEF vars, ScreenInv, RowShows
  <2> QED
    BY <2>1, <2>2, ScreenCopy, ScreenFinish, ScreenPutWrapped DEF Next, Quiet
<1>3. ScreenInv => ScreenShowsText
  <2> SUFFICES ASSUME ScreenInv, pc = "idle", NEW r \in Rows, NEW c \in Cols
               PROVE  buffer[r][c] = Expected(text, LineAt(text, r), c)
    BY DEF ScreenShowsText, LineAt
  <2>1. Fits(text, LineAt(text, r), c, buffer[r][c])
    BY DEF ScreenInv, RowShows
  <2> QED
    BY <2>1, CellFits, Zenon
<1> QED
  BY <1>1, <1>2, <1>3, WriterInv, PTL DEF Spec

=============================================================================
