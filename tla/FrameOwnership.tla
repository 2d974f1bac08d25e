--------------------------- MODULE FrameOwnership ---------------------------
(***************************************************************************)
(* What the kernel expects of its frame allocator, without bitmap, cursor  *)
(* or memory map: a frame is free, kept by the boot code, or owned by one  *)
(* caller, and it moves between the three one frame at a time.  Frames may *)
(* be lost (free ones that are never offered again) but never shared.      *)
(***************************************************************************)
CONSTANT Frame

VARIABLES free, kept, granted

vars == <<free, kept, granted>>

Init == free \in SUBSET Frame /\ kept = {} /\ granted = {}

\* The boot code keeps a frame for good.
Keep(f) ==
  /\ f \in free
  /\ free' = free \ {f}
  /\ kept' = kept \cup {f}
  /\ UNCHANGED granted

\* Some free frames are lost.
Lose ==
  /\ free' \in SUBSET free
  /\ UNCHANGED <<kept, granted>>

Grant(f) ==
  /\ f \in free
  /\ free' = free \ {f}
  /\ granted' = granted \cup {f}
  /\ UNCHANGED kept

Return(f) ==
  /\ f \in granted
  /\ free' = free \cup {f}
  /\ granted' = granted \ {f}
  /\ UNCHANGED kept

Next == \E f \in Frame : Keep(f) \/ Grant(f) \/ Return(f)

Spec == Init /\ [][Next \/ Lose]_vars

=============================================================================
