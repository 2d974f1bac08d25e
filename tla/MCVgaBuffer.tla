---------------------------- MODULE MCVgaBuffer -----------------------------
(***************************************************************************)
(* Three rows of two columns, so that six bytes scroll the first line    *)
(* out of the screen, by wrapping and by newlines.                         *)
(***************************************************************************)
EXTENDS VgaBuffer

\* The bootloader's text differs from row to row.
MCBootScreen ==
  [r \in Rows |-> [c \in Cols |-> IF r = 1 THEN "b" ELSE IF c = r THEN "a" ELSE " "]]

=============================================================================
