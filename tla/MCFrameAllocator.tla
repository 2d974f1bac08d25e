-------------------------- MODULE MCFrameAllocator --------------------------
(***************************************************************************)
(* Small memory maps for FrameAllocator.  Frames hold two words of two     *)
(* bits, so that a handful of frames needs several bitmap pages.           *)
(***************************************************************************)
EXTENDS FrameAllocator

R(first, last, ty) == [start |-> first, end |-> last, type |-> ty]

MCMemoryMaps == {
  \* one usable region between reserved ones
  <<R(0, 1, "FrameZero"), R(1, 6, "Usable"), R(6, 7, "Reserved"), R(7, 8, "Kernel")>>,
  \* usable memory split by the kernel: bootstrap crosses the split
  <<R(0, 2, "Usable"), R(2, 3, "Kernel"), R(3, 8, "Usable")>>,
  \* a hole in the map, and a last bitmap frame that is only partly needed
  <<R(0, 3, "Usable"), R(3, 4, "KernelStack"), R(5, 7, "Usable")>>,
  \* a region that starts above zero, tables that outgrow the first region
  <<R(1, 2, "Usable"), R(2, 3, "AcpiReclaimable"), R(3, 5, "Usable")>>,
  \* too little memory for the bitmap and its tables
  <<R(0, 2, "Usable"), R(2, 6, "Kernel")>> }

=============================================================================
