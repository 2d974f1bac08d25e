------------------------------ MODULE MCPaging ------------------------------
(***************************************************************************)
(* A small machine for Paging: pages of four bytes, tables of four         *)
(* entries, so that the device pages lie under three level 1 tables, and a *)
(* heap of two pages under level 2 and level 1 tables of its own.          *)
(***************************************************************************)
EXTENDS Paging

R(first, last, ty) == [start |-> first, end |-> last, type |-> ty]

MCMemoryMaps == {
  <<R(0, 1, "FrameZero"), R(1, 7, "Usable"), R(7, 8, "KernelStack"), R(8, 10, "Reserved")>>,
  <<R(0, 1, "Kernel"), R(1, 8, "Usable"), R(9, 10, "Reserved")>> }

\* The tables above level 1 already exist for the low addresses.
MCBootTables == {<<3, 0>>, <<2, 0>>}

=============================================================================
