---------------------------- MODULE PageMappings ----------------------------
(***************************************************************************)
(* What src/src/memory/mod.rs promises the drivers that map a device: a    *)
(* page is mapped for one holder at a time, it stays mapped until that     *)
(* holder gives its guard back, and giving it back always succeeds.        *)
(***************************************************************************)
CONSTANT Page

VARIABLES mapped,    \* the device pages that are mapped
          guarded    \* the pages whose UnmapGuard is outstanding

Init == mapped = {} /\ guarded = {}

\* mmap_dev returned Ok.
Acquire(p) ==
  /\ p \notin mapped
  /\ mapped' = mapped \cup {p}
  /\ guarded' = guarded \cup {p}

\* unmap returned Ok.
Release(p) ==
  /\ p \in guarded /\ p \in mapped
  /\ mapped' = mapped \ {p}
  /\ guarded' = guarded \ {p}

Next == \E p \in Page : Acquire(p) \/ Release(p)

Spec == Init /\ [][Next]_<<mapped, guarded>>

=============================================================================
