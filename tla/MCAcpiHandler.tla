--------------------------- MODULE MCAcpiHandler ----------------------------
(***************************************************************************)
(* Five frames of four bytes.  The requests overlap, end on a page         *)
(* boundary, cross one, and stay inside a page; one of them is empty.      *)
(***************************************************************************)
EXTENDS AcpiHandler

A(first, bytes) == [address |-> first, size |-> bytes]

MCRequest == {A(1, 2), A(2, 4), A(4, 4), A(5, 7), A(8, 0)}

\* The definition block: it starts inside a page and ends at a boundary.
MCTable == {A(6, 2)}

\* An AML access to a frame that requests map too, and one to a frame of its own.
MCAddress == {9, 16}

=============================================================================
