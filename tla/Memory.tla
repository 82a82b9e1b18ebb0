------------------------------- MODULE Memory -------------------------------
(***************************************************************************)
(* Physical frames, page tables and the kernel heap: memory.rs,            *)
(* allocator.rs and the lines of kernel_main that call them.               *)
(*                                                                         *)
(* kernel_main does all of this alone, before interrupts are enabled.      *)
(* What makes it delicate is that one frame allocator feeds two users in   *)
(* turn, the heap's pages and the page tables map_to builds under them,    *)
(* and that it may run dry at any request.  Page tables are real here:     *)
(* virt_to_phys walks the same memory that map_to writes.                  *)
(***************************************************************************)
EXTENDS Integers, Sequences, FiniteSets, SequencesExt

CONSTANTS PageSize,     \* bytes of a page (4096)
          Radix,        \* entries of a page table (512)
          MemoryMaps,   \* the memory maps a bootloader may report
          CR3,          \* frame of the level-4 table
          BootTables,   \* the page tables a bootloader may leave: frame -> table
          HEAP_START,   \* first byte of the heap
          HeapPages,    \* HEAP_SIZE in pages (2048)
          MinAddr       \* what kernel_main passes to skip_below (2 MB)

None == -1              \* Option::None

Unused   == [kind |-> "unused", addr |-> 0]
Maps(f)  == [kind |-> "frame", addr |-> f]   \* present: a table or a 4 KiB page
Huge(f)  == [kind |-> "huge", addr |-> f]    \* present, with HUGE_PAGE

EmptyTable == [i \in 0 .. Radix - 1 |-> Unused]

\* The bytes an entry of a level-l table spans, and its index in the table.
Span(l) == PageSize * (IF l = 1 THEN 1 ELSE IF l = 2 THEN Radix
                       ELSE IF l = 3 THEN Radix * Radix ELSE Radix * Radix * Radix)

Index(virt, l) == (virt \div Span(l)) % Radix

Virt == 0 .. Span(4) * Radix - 1

VARIABLES
  memory_regions, \* the bootloader's memory map
  next,           \* the allocator's count of frames skipped or handed out
  tables,         \* page-table memory: frame -> table
  boot,           \* history: the page tables the bootloader left
  pc,             \* where the code stands: skip, frame, walk, set, init, done
  page,           \* the heap page being mapped, from 0
  frame,          \* the frame allocated for it
  level, table,   \* map_to: the level reached and its table
  result,         \* what init_heap returned, "running" before
  heap            \* whether ALLOCATOR has been given the heap

vars == <<memory_regions, next, tables, boot, pc, page, frame, level, table,
          result, heap>>

-----------------------------------------------------------------------------
(* BootInfoFrameAllocator.                                                 *)

\* The frames of the usable regions, in the order of the map: every 4096 bytes
\* from a region's start, the frame containing that address.
FramesOf(region) ==
  [i \in 1 .. (region.end - region.start + PageSize - 1) \div PageSize |->
     LET addr == region.start + (i - 1) * PageSize IN addr - (addr % PageSize)]

Usable(regions) == SelectSeq(regions, LAMBDA r : r.kind = "Usable")

UsableFrames(regions) ==
  LET usable == Usable(regions)
  IN  FlattenSeq([i \in DOMAIN usable |-> FramesOf(usable[i])])

usable_frames == UsableFrames(memory_regions)

\* n frames lead the list that start below MinAddr.
SkipsNone(frames, n) == n = 0                                    \* a mutant

Skips(frames, n) ==
  /\ \A i \in 1 .. n : frames[i] < MinAddr
  /\ n < Len(frames) => frames[n + 1] >= MinAddr

\* allocate_frame: the next frame of the list, and the counter moves on even
\* when the list has run out.
Allocated ==
  IF next < Len(usable_frames) THEN usable_frames[next + 1] ELSE None

AdvancedForgotten == next                          \* mutants of self.next += 1
AdvancedTwice == next + 2

Advanced == next + 1

-----------------------------------------------------------------------------
(* virt_to_phys: the walk over four levels, with 1 GiB and 2 MiB pages.    *)

VirtToPhys(T, virt) ==
  LET p4e == T[CR3][Index(virt, 4)]
      p3e == T[p4e.addr][Index(virt, 3)]
      p2e == T[p3e.addr][Index(virt, 2)]
      p1e == T[p2e.addr][Index(virt, 1)]
  IN  IF p4e.kind # "frame" THEN None
      ELSE IF p3e.kind = "unused" THEN None
      ELSE IF p3e.kind = "huge" THEN p3e.addr + (virt % Span(3))
      ELSE IF p2e.kind = "unused" THEN None
      ELSE IF p2e.kind = "huge" THEN p2e.addr + (virt % Span(2))
      ELSE IF p1e.kind = "unused" THEN None
      ELSE p1e.addr + (virt % PageSize)

-----------------------------------------------------------------------------
(* What the bootloader leaves.                                             *)

\* The table the walk for virt goes to from its level-l table t, and the level-l
\* table it reaches, if any.
NextTable(T, t, virt, l) ==
  IF t = None \/ T[t][Index(virt, l)].kind # "frame" THEN None
  ELSE T[t][Index(virt, l)].addr

TableAt(T, virt, l) ==
  LET p3 == NextTable(T, CR3, virt, 4)
      p2 == NextTable(T, p3, virt, 3)
      p1 == NextTable(T, p2, virt, 2)
  IN  <<p1, p2, p3, CR3>>[l]

\* The part of an address that leads to its level-l table.
Above(virt, l) == IF l = 4 THEN 0 ELSE virt \div Span(l + 1)

\* The page tables are a tree: none is reached on two ways.
IsTree(T) ==
  /\ \A f \in DOMAIN T :
       /\ f \in Nat
       /\ T[f] \in [0 .. Radix - 1 -> [kind : {"unused", "frame", "huge"}, addr : Nat]]
  /\ \A v \in Virt, l \in 1 .. 4 : TableAt(T, v, l) \in DOMAIN T \cup {None}
  /\ \A v, w \in Virt, k, l \in 1 .. 4 :
       TableAt(T, v, k) # None /\ TableAt(T, v, k) = TableAt(T, w, l) =>
         k = l /\ Above(v, k) = Above(w, k)

HeapBases == {HEAP_START + p * PageSize : p \in 0 .. HeapPages - 1}

\* The map lists memory from low to high, each frame once; usable frames are
\* really unused (memory.rs:39-40), so none holds a page table of the
\* bootloader's or lies behind an address of the heap.  No entry of the level-4
\* table is huge: the processor reserves that bit.
ASSUME MemoryAssumption ==
  /\ PageSize \in Nat \ {0} /\ Radix \in Nat \ {0} /\ HeapPages \in Nat \ {0}
  /\ CR3 \in Nat /\ HEAP_START \in Nat /\ HEAP_START % PageSize = 0 /\ MinAddr \in Nat
  /\ HEAP_START + HeapPages * PageSize <= Span(4) * Radix
  /\ \A T \in BootTables :
       CR3 \in DOMAIN T /\ IsTree(T) /\ \A i \in 0 .. Radix - 1 : T[CR3][i].kind # "huge"
  /\ \A m \in MemoryMaps :
       LET frames == UsableFrames(m)
       IN  /\ frames \in Seq(Nat)
           /\ \A i, j \in 1 .. Len(frames) : i < j => frames[i] < frames[j]
           /\ \A T \in BootTables :
                /\ DOMAIN T \cap ToSet(frames) = {}
                /\ \A b \in HeapBases : VirtToPhys(T, b) \notin ToSet(frames)

-----------------------------------------------------------------------------
Init ==
  /\ memory_regions \in MemoryMaps
  /\ next = 0
  /\ tables \in BootTables
  /\ boot = tables
  /\ pc = "skip" /\ page = 0 /\ frame = None /\ level = 0 /\ table = CR3
  /\ result = "running" /\ heap = FALSE

SkipBelow ==
  /\ pc = "skip"
  /\ \E n \in 0 .. Len(usable_frames) : Skips(usable_frames, n) /\ next' = n
  /\ pc' = "frame"
  /\ UNCHANGED <<memory_regions, tables, boot, page, frame, level, table, result, heap>>

\* init_heap gives up: kernel_main panics on what it returns.
Fail(error) ==
  /\ result' = error
  /\ pc' = "done"
  /\ UNCHANGED <<memory_regions, tables, boot, page, frame, level, table, heap>>

\* A round of init_heap's loop begins: a frame for the page.
AllocatePage ==
  /\ pc = "frame"
  /\ next' = Advanced
  /\ \/ Allocated = None /\ Fail("FrameAllocationFailed")
     \/ /\ Allocated # None
        /\ frame' = Allocated
        /\ pc' = "walk" /\ level' = 4 /\ table' = CR3
        /\ UNCHANGED <<memory_regions, tables, boot, page, result, heap>>

PageAddr == HEAP_START + page * PageSize

Entry == tables[table][Index(PageAddr, level)]

\* Page-table memory with a zeroed table in frame f.
Zeroed(T, f) == [g \in DOMAIN T \cup {f} |-> IF g = f THEN EmptyTable ELSE T[g]]

\* map_to descends one level (create_next_table): into the table the entry
\* names, or into a new, zeroed one; a huge page cannot be descended into.
CreateNextTable ==
  /\ pc = "walk"
  /\ \/ /\ Entry.kind = "unused" /\ Allocated # None
        /\ next' = Advanced
        /\ tables' = Zeroed([tables EXCEPT ![table][Index(PageAddr, level)] = Maps(Allocated)],
                            Allocated)
        /\ table' = Allocated
        /\ level' = level - 1
        /\ pc' = IF level = 2 THEN "set" ELSE "walk"
        /\ UNCHANGED <<memory_regions, boot, page, frame, result, heap>>
     \/ /\ Entry.kind = "unused" /\ Allocated = None
        /\ next' = Advanced
        /\ Fail("FrameAllocationFailed")
     \/ /\ Entry.kind = "frame"
        /\ table' = Entry.addr
        /\ level' = level - 1
        /\ pc' = IF level = 2 THEN "set" ELSE "walk"
        /\ UNCHANGED <<memory_regions, next, tables, boot, page, frame, result, heap>>
     \/ /\ Entry.kind = "huge"
        /\ Fail("ParentEntryHugePage")
        /\ UNCHANGED next

\* The page range is inclusive: its last page holds the last byte of the heap.
LastPageShort == (HeapPages * PageSize) \div PageSize - 2          \* mutants
LastPageFar == (HeapPages * PageSize) \div PageSize

LastPage == (HeapPages * PageSize - 1) \div PageSize

\* map_to sets the entry of the page's level-1 table, if it is free.
SetEntry ==
  /\ pc = "set"
  /\ \/ Entry.kind # "unused" /\ Fail("PageAlreadyMapped")
     \/ /\ Entry.kind = "unused"
        /\ tables' = [tables EXCEPT ![table][Index(PageAddr, level)] = Maps(frame)]
        /\ page' = page + 1
        /\ pc' = IF page = LastPage THEN "init" ELSE "frame"
        /\ UNCHANGED <<memory_regions, boot, frame, level, table, result, heap>>
  /\ UNCHANGED next

\* ALLOCATOR.lock().init(..), once every page is mapped.
InitAllocator ==
  /\ pc = "init"
  /\ heap' = TRUE
  /\ result' = "ok"
  /\ pc' = "done"
  /\ UNCHANGED <<memory_regions, next, tables, boot, page, frame, level, table>>

\* kernel_main goes on with its heap, or has panicked.
Finished ==
  /\ pc = "done"
  /\ UNCHANGED vars

Next ==
  SkipBelow \/ AllocatePage \/ CreateNextTable \/ SetEntry \/ InitAllocator \/ Finished

Spec == Init /\ [][Next]_vars

-----------------------------------------------------------------------------
(* Properties.                                                             *)

HeapBytes == HEAP_START .. HEAP_START + HeapPages * PageSize - 1

\* Frames taken since boot: the heap's, and those of new page tables.
TakenFrames ==
  (DOMAIN tables \ DOMAIN boot)
    \cup {VirtToPhys(tables, v) : v \in {b \in HeapBases :
            VirtToPhys(tables, b) # None /\ VirtToPhys(boot, b) = None}}

\* The frames init_heap may use: usable ones that skip_below does not skip.
SpareFrames == {f \in ToSet(usable_frames) : f >= MinAddr}

\* Type invariant of the memory code: the counters, the page tables and the
\* result of init_heap stay in their types.
TypeOK ==
  /\ memory_regions \in MemoryMaps
  /\ next \in Nat /\ page \in 0 .. HeapPages /\ level \in 0 .. 4
  /\ pc \in {"skip", "frame", "walk", "set", "init", "done"}
  /\ \A f \in DOMAIN tables, i \in 0 .. Radix - 1 :
       tables[f][i] \in [kind : {"unused", "frame", "huge"}, addr : Nat]
  /\ table \in DOMAIN tables
  /\ frame \in Nat \cup {None}
  /\ result \in {"running", "ok", "FrameAllocationFailed", "PageAlreadyMapped",
                 "ParentEntryHugePage"}
  /\ heap \in BOOLEAN

\* The frame allocator, map_to and init_heap together implement AddressSpace
\* as virt_to_phys sees it: no frame serves two heap pages, or a heap page and
\* a page table, and mapping a page disturbs no other translation, the
\* bootloader's map of physical memory included.
Space == INSTANCE AddressSpace
           WITH Frames <- UNION {ToSet(UsableFrames(m)) : m \in MemoryMaps},
                Unmapped <- None,
                translation <- [v \in Virt |-> VirtToPhys(tables, v)],
                tableFrames <- DOMAIN tables

HeapIsAddressSpace == Space!Spec

\* Every frame taken lies in a usable region and not below the address
\* kernel_main told skip_below: never the bootloader's own memory.
TakenFramesAreSpare == TakenFrames \subseteq SpareFrames

\* The heap is handed to ALLOCATOR only when each of its bytes, the last one
\* included, is mapped; after a failed init_heap it never is.
HeapFullyMapped == heap => \A v \in HeapBytes : VirtToPhys(tables, v) # None

\* The frames a heap of this size needs: its pages, and the tables on the way
\* to them that the bootloader has not built.
NeededTables ==
  {<<lb[1], Above(lb[2], lb[1])>> :
     lb \in {x \in (1 .. 3) \X HeapBases : TableAt(boot, x[2], x[1]) = None}}

Enough == Cardinality(SpareFrames) >= HeapPages + Cardinality(NeededTables)

HeapFree == \A v \in HeapBytes : VirtToPhys(boot, v) = None

\* init_heap succeeds exactly when the heap's addresses are free and memory
\* suffices: no frame is wasted, and running dry is always reported.
SucceedsIffPossible ==
  /\ result = "ok" => HeapFree /\ Enough
  /\ result = "FrameAllocationFailed" => ~Enough
  /\ result \in {"PageAlreadyMapped", "ParentEntryHugePage"} => ~HeapFree
=============================================================================
