----------------------------- MODULE HeapProofs -----------------------------
(***************************************************************************)
(* init_heap succeeds exactly when it can, for every memory map, every     *)
(* tree of page tables the bootloader may leave, and every size of pages,  *)
(* tables and heap: it takes one frame per page and one per table that is  *)
(* missing, and reports the error that there is.                           *)
(***************************************************************************)
EXTENDS MemoryProofs, FiniteSetTheorems

\* The tables on the way to the heap's pages that T does not have: level and prefix.
Missing(T) ==
  {<<lb[1], Above(lb[2], lb[1])>> :
     lb \in {x \in (1 .. 3) \X HeapBases : TableAt(T, x[2], x[1]) = None}}

\* The frames of the list F that are handed out when the allocator's counter is n.
HandedOut(F, n) == {f \in ToSet(F) : Used(F, n, f)}

HeapBase(p) == HEAP_START + p * PageSize

InHeapPage(v, p) == v \div PageSize = HeapBase(p) \div PageSize

\* Every frame handed out holds a page of the heap, or is to hold one, or holds a
\* table that was missing.
HCount ==
  pc # "done" =>
    Cardinality(HandedOut(usable_frames, next)) + Cardinality(Missing(tables)) =
      page + (IF pc \in {"walk", "set"} THEN 1 ELSE 0) + Cardinality(Missing(boot))

\* The pages before the present one were free, have all their tables, and are all
\* that has changed.
HBoot ==
  /\ \A v \in Virt : (\A p \in 0 .. page - 1 : ~InHeapPage(v, p)) =>
                       VirtToPhys(tables, v) = VirtToPhys(boot, v)
  /\ \A v \in Virt, p \in 0 .. page - 1 : InHeapPage(v, p) => VirtToPhys(boot, v) = None

HTables ==
  /\ \A p \in 0 .. page - 1, l \in 1 .. 3 : TableAt(tables, HeapBase(p), l) # None
  /\ \A i \in 0 .. Radix - 1 : tables[CR3][i].kind # "huge"

HResult == SucceedsIffPossible /\ (pc # "done" => result = "running")

HInv == HCount /\ HBoot /\ HTables /\ HResult
-----------------------------------------------------------------------------
(* Counting frames.                                                        *)

\* A memory map has finitely many frames.
LEMMA FramesFinite ==
  ASSUME NEW m \in MemoryMaps, NEW F, F = UsableFrames(m), NEW S \in SUBSET ToSet(F)
  PROVE  IsFiniteSet(S) /\ Cardinality(S) \in Nat
<1>1. F \in Seq(Nat) /\ Len(F) \in Nat
  BY MapFrames
<1>2. IsFiniteSet(1 .. Len(F))
  BY <1>1, FS_Interval
<1>3. ToSet(F) = {F[i] : i \in 1 .. Len(F)}
  BY <1>1 DEF ToSet
<1>4. F \in Surjection(1 .. Len(F), ToSet(F))
  <2>1. F \in [1 .. Len(F) -> ToSet(F)]
    BY <1>1, <1>3
  <2>2. \A y \in ToSet(F) : \E i \in 1 .. Len(F) : F[i] = y
    BY <1>3
  <2> QED BY <2>1, <2>2, Zenon DEF Surjection
<1>5. IsFiniteSet(ToSet(F))
  BY <1>2, <1>4, FS_Surjection
<1> QED BY <1>5, FS_Subset, FS_CardinalityType

\* Handing out the next frame of the list adds it.
LEMMA HandedNext ==
  ASSUME NEW m \in MemoryMaps, NEW F, F = UsableFrames(m), NEW n \in Nat,
         n < Len(F), F[n + 1] >= MinAddr
  PROVE  Cardinality(HandedOut(F, n + 1)) = Cardinality(HandedOut(F, n)) + 1
<1>1. /\ Len(F) \in Nat /\ F[n + 1] \in ToSet(F) /\ Used(F, n + 1, F[n + 1])
      /\ ~Used(F, n, F[n + 1])
  BY MapFrames, Fresh
<1>2. ASSUME NEW f PROVE Used(F, n + 1, f) <=> Used(F, n, f) \/ f = F[n + 1]
  <2>1. \A j \in 1 .. Len(F) : j <= n + 1 <=> j <= n \/ j = n + 1
    BY <1>1
  <2>2. n + 1 \in 1 .. Len(F)
    BY <1>1
  <2> QED BY <1>1, <2>1, <2>2 DEF Used
<1>3. HandedOut(F, n + 1) = HandedOut(F, n) \cup {F[n + 1]} /\ F[n + 1] \notin HandedOut(F, n)
  BY <1>1, <1>2, Zenon DEF HandedOut
<1>4. HandedOut(F, n) \in SUBSET ToSet(F)
  BY DEF HandedOut
<1>5. IsFiniteSet(HandedOut(F, n))
  BY <1>4, FramesFinite
<1> QED BY <1>3, <1>5, FS_AddElement

\* Nothing is handed out at first, and nothing by skipping.
LEMMA HandedNone ==
  ASSUME NEW m \in MemoryMaps, NEW F, F = UsableFrames(m), NEW n \in 0 .. Len(F),
         \A i \in 1 .. n : F[i] < MinAddr
  PROVE  Cardinality(HandedOut(F, n)) = 0
<1>1. Len(F) \in Nat /\ (\A i \in 1 .. Len(F) : F[i] \in Nat) /\ MinAddr \in Nat
  BY MapFrames, MemoryAssumption
<1>2. ASSUME NEW f PROVE ~Used(F, n, f)
  <2> SUFFICES ASSUME NEW j \in 1 .. Len(F), j <= n, F[j] >= MinAddr PROVE FALSE
    BY DEF Used
  <2>1. j \in 1 .. n
    BY <1>1
  <2> QED BY <1>1, <2>1
<1>3. HandedOut(F, n) = {}
  BY <1>2 DEF HandedOut
<1> QED BY <1>3, FS_EmptySet

\* What is handed out is spare, and all of it once the list has run out.
LEMMA HandedSpare ==
  ASSUME NEW m \in MemoryMaps, NEW F, F = UsableFrames(m), NEW n \in Nat
  PROVE  LET spare == {f \in ToSet(F) : f >= MinAddr}
         IN  /\ Cardinality(HandedOut(F, n)) \in Nat /\ Cardinality(spare) \in Nat
             /\ Cardinality(HandedOut(F, n)) <= Cardinality(spare)
             /\ ~(n < Len(F)) => HandedOut(F, n) = spare
<1> DEFINE spare == {f \in ToSet(F) : f >= MinAddr}
<1>1. HandedOut(F, n) \in SUBSET spare /\ spare \in SUBSET ToSet(F) /\ HandedOut(F, n) \in SUBSET ToSet(F)
  BY DEF HandedOut, Used
<1>2. IsFiniteSet(spare) /\ Cardinality(spare) \in Nat /\ Cardinality(HandedOut(F, n)) \in Nat
  <2> HIDE DEF spare
  <2> QED BY <1>1, FramesFinite
<1>3. Cardinality(HandedOut(F, n)) <= Cardinality(spare)
  <2> HIDE DEF spare
  <2> QED BY <1>1, <1>2, FS_Subset
<1>4. ASSUME ~(n < Len(F)), NEW f \in spare PROVE f \in HandedOut(F, n)
  <2>1. F \in Seq(Nat) /\ Len(F) \in Nat
    BY MapFrames
  <2>2. PICK j \in 1 .. Len(F) : f = F[j]
    BY <2>1 DEF ToSet
  <2>3. j <= n
    BY <1>4, <2>1
  <2> QED BY <2>2, <2>3 DEF HandedOut, Used
<1> QED BY <1>1, <1>2, <1>3, <1>4

-----------------------------------------------------------------------------
(* Counting tables.                                                        *)

\* A missing table, by level and prefix.
LEMMA MissingIs ==
  ASSUME NEW T, NEW y
  PROVE  y \in Missing(T) <=>
           \E l \in 1 .. 3, b \in HeapBases : y = <<l, Above(b, l)>> /\ TableAt(T, b, l) = None
<1>1. ASSUME NEW l \in 1 .. 3, NEW b \in HeapBases, y = <<l, Above(b, l)>>, TableAt(T, b, l) = None
      PROVE  y \in Missing(T)
  <2> DEFINE x == <<l, b>>
  <2>1. x \in (1 .. 3) \X HeapBases /\ x[1] = l /\ x[2] = b
    OBVIOUS
  <2> HIDE DEF x
  <2>2. x \in {z \in (1 .. 3) \X HeapBases : TableAt(T, z[2], z[1]) = None}
    BY <1>1, <2>1, Zenon
  <2>3. y = <<x[1], Above(x[2], x[1])>>
    BY <1>1, <2>1, Zenon
  <2> QED BY <2>2, <2>3, Zenon DEF Missing
<1>2. ASSUME y \in Missing(T)
      PROVE  \E l \in 1 .. 3, b \in HeapBases : y = <<l, Above(b, l)>> /\ TableAt(T, b, l) = None
  <2>1. PICK x \in {z \in (1 .. 3) \X HeapBases : TableAt(T, z[2], z[1]) = None} :
          y = <<x[1], Above(x[2], x[1])>>
    BY <1>2, Zenon DEF Missing
  <2>2. x \in (1 .. 3) \X HeapBases /\ TableAt(T, x[2], x[1]) = None
    BY <2>1, Zenon
  <2>3. x[1] \in 1 .. 3 /\ x[2] \in HeapBases
    BY <2>2
  <2> QED BY <2>1, <2>2, <2>3, Zenon
<1> QED BY <1>1, <1>2

\* Finitely many tables are missing.
LEMMA MissingFinite ==
  ASSUME NEW T
  PROVE  IsFiniteSet(Missing(T)) /\ Cardinality(Missing(T)) \in Nat
<1> DEFINE M == Span(4) * Radix
           S == (1 .. 3) \X (0 .. M)
<1>1. M \in Nat /\ Virt = 0 .. M - 1
  <2>1. Span(4) \in Nat /\ Radix \in Nat
    BY Spans
  <2> QED BY <2>1 DEF Virt
<1> HIDE DEF M
<1>2. IsFiniteSet(S)
  <2>1. 0 \in Int /\ 1 \in Int /\ 3 \in Int /\ M \in Int
    BY <1>1
  <2>2. IsFiniteSet(1 .. 3)
    BY <2>1, FS_Interval, Zenon
  <2>3. IsFiniteSet(0 .. M)
    BY <2>1, FS_Interval, Zenon
  <2> QED BY <2>2, <2>3, FS_Product
<1>3. ASSUME NEW l \in 1 .. 3, NEW b \in HeapBases PROVE Above(b, l) \in 0 .. M
  <2>1. b \in Virt /\ b \in Nat
    BY Bases
  <2>2. l + 1 \in 1 .. 4 /\ l # 4
    OBVIOUS
  <2>3. Span(l + 1) \in Nat \ {0}
    BY <2>2, Spans
  <2>4. Above(b, l) = b \div Span(l + 1)
    BY <2>2 DEF Above
  <2> DEFINE s == Span(l + 1)
  <2> HIDE DEF s
  <2>5. b \div s \in Nat /\ b \div s <= b
    BY <2>1, <2>3 DEF s
  <2> QED BY <1>1, <2>1, <2>4, <2>5 DEF s
<1>4. Missing(T) \in SUBSET S
  <2> SUFFICES ASSUME NEW y \in Missing(T) PROVE y \in S
    OBVIOUS
  <2>1. PICK l \in 1 .. 3, b \in HeapBases : y = <<l, Above(b, l)>>
    BY MissingIs
  <2>2. Above(b, l) \in 0 .. M
    BY <1>3
  <2> QED BY <2>1, <2>2
<1> HIDE DEF S
<1>5. IsFiniteSet(Missing(T))
  BY <1>2, <1>4, FS_Subset
<1> QED BY <1>5, FS_CardinalityType

\* Mapping a page builds no table.
LEMMA MissingSame ==
  ASSUME NEW T, NEW U, SameTables(T, U)
  PROVE  Missing(U) = Missing(T)
<1>1. ASSUME NEW l \in 1 .. 3, NEW b \in HeapBases PROVE TableAt(U, b, l) = TableAt(T, b, l)
  <2>1. l \in 1 .. 4 /\ b \in Virt
    BY Bases
  <2> QED BY <2>1 DEF SameTables
<1>2. ASSUME NEW y \in Missing(U) PROVE y \in Missing(T)
  <2>1. PICK l \in 1 .. 3, b \in HeapBases : y = <<l, Above(b, l)>> /\ TableAt(U, b, l) = None
    BY <1>2, MissingIs, Zenon
  <2>2. TableAt(T, b, l) = None
    BY <1>1, <2>1
  <2> QED BY <2>1, <2>2, MissingIs, Zenon
<1>3. ASSUME NEW y \in Missing(T) PROVE y \in Missing(U)
  <2>1. PICK l \in 1 .. 3, b \in HeapBases : y = <<l, Above(b, l)>> /\ TableAt(T, b, l) = None
    BY <1>3, MissingIs, Zenon
  <2>2. TableAt(U, b, l) = None
    BY <1>1, <2>1
  <2> QED BY <2>1, <2>2, MissingIs, Zenon
<1> QED BY <1>2, <1>3

\* create_next_table builds one that was missing.
LEMMA MissingNext ==
  ASSUME NEW T, NEW U, NEW w \in HeapBases, NEW L \in 2 .. 4, NEW a \in Nat,
         OneMore(T, U, w, L, a), TableAt(T, w, L - 1) = None
  PROVE  Cardinality(Missing(U)) + 1 = Cardinality(Missing(T))
<1> DEFINE k == L - 1
           x == <<k, Above(w, k)>>
<1>1. k \in 1 .. 3 /\ k \in 1 .. 4 /\ k # 4 /\ k + 1 = L /\ a # None
  BY DEF None
<1>2. x \in Missing(T)
  BY <1>1, MissingIs
<1>3. ASSUME NEW l \in 1 .. 3, NEW b \in HeapBases
      PROVE  TableAt(U, b, l) = IF <<l, Above(b, l)>> = x THEN a ELSE TableAt(T, b, l)
  <2>1. l \in 1 .. 4 /\ b \in Virt
    BY Bases
  <2>2. TableAt(U, b, l) = IF b \div Span(L) = w \div Span(L) /\ l = L - 1 THEN a
                           ELSE TableAt(T, b, l)
    BY <2>1, Zenon DEF OneMore
  <2>3. Above(b, k) = b \div Span(L) /\ Above(w, k) = w \div Span(L)
    BY <1>1 DEF Above
  <2>4. <<l, Above(b, l)>> = x <=> l = k /\ Above(b, l) = Above(w, k)
    OBVIOUS
  <2> HIDE DEF x
  <2> QED BY <2>2, <2>3, <2>4
<1> HIDE DEF x, k
<1>4. ASSUME NEW y PROVE y \in Missing(U) <=> y \in Missing(T) /\ y # x
  <2>1. ASSUME y \in Missing(U) PROVE y \in Missing(T) /\ y # x
    <3>1. PICK l \in 1 .. 3, b \in HeapBases : y = <<l, Above(b, l)>> /\ TableAt(U, b, l) = None
      BY <2>1, MissingIs, Zenon
    <3>2. y # x /\ TableAt(T, b, l) = None
      BY <1>1, <1>3, <3>1
    <3> QED BY <3>1, <3>2, MissingIs, Zenon
  <2>2. ASSUME y \in Missing(T), y # x PROVE y \in Missing(U)
    <3>1. PICK l \in 1 .. 3, b \in HeapBases : y = <<l, Above(b, l)>> /\ TableAt(T, b, l) = None
      BY <2>2, MissingIs, Zenon
    <3>2. TableAt(U, b, l) = None
      BY <1>3, <2>2, <3>1
    <3> QED BY <3>1, <3>2, MissingIs, Zenon
  <2> QED BY <2>1, <2>2
<1>5. Missing(U) = Missing(T) \ {x}
  BY <1>4
<1>6. IsFiniteSet(Missing(T)) /\ Cardinality(Missing(T)) \in Nat
  BY MissingFinite
<1>7. Cardinality(Missing(U)) = Cardinality(Missing(T)) - 1
  BY <1>2, <1>5, <1>6, FS_RemoveElement
<1> QED BY <1>6, <1>7

-----------------------------------------------------------------------------
(* The invariant.                                                          *)

\* The numbers that HCount and Enough compare.
LEMMA Counts ==
  ASSUME MInv
  PROVE  LET h == Cardinality(HandedOut(usable_frames, next))
             s == Cardinality(SpareFrames)
             n == Cardinality(Missing(boot))
         IN  /\ h \in Nat /\ s \in Nat /\ n \in Nat /\ Cardinality(Missing(tables)) \in Nat
             /\ h <= s /\ (~(next < Len(usable_frames)) => h = s)
             /\ Enough <=> s >= HeapPages + n
             /\ HeapPages \in Nat \ {0} /\ page \in 0 .. HeapPages
<1>1. memory_regions \in MemoryMaps /\ next \in Nat /\ page \in 0 .. HeapPages
  BY DEF MInv, MTypes
<1>2. /\ Cardinality(HandedOut(usable_frames, next)) \in Nat /\ Cardinality(SpareFrames) \in Nat
      /\ Cardinality(HandedOut(usable_frames, next)) <= Cardinality(SpareFrames)
      /\ ~(next < Len(usable_frames)) => HandedOut(usable_frames, next) = SpareFrames
  <2>1. usable_frames = UsableFrames(memory_regions)
    BY DEF usable_frames
  <2>2. SpareFrames = {f \in ToSet(usable_frames) : f >= MinAddr}
    BY DEF SpareFrames
  <2> QED BY <1>1, <2>1, <2>2, HandedSpare, Zenon
<1>3. Cardinality(Missing(boot)) \in Nat /\ Cardinality(Missing(tables)) \in Nat
  BY MissingFinite
<1>4. Enough <=> Cardinality(SpareFrames) >= HeapPages + Cardinality(Missing(boot))
  <2>1. NeededTables = Missing(boot)
    BY Zenon DEF NeededTables, Missing
  <2> QED BY <2>1, Zenon DEF Enough
<1>5. HeapPages \in Nat \ {0}
  BY MemoryAssumption
<1> QED BY <1>1, <1>2, <1>3, <1>4, <1>5, Zenon

\* The allocator has nothing to give only when the list has run out.
LEMMA RunDry ==
  ASSUME MInv, Allocated = None
  PROVE  ~(next < Len(usable_frames))
<1> DEFINE F == usable_frames
<1>1. memory_regions \in MemoryMaps /\ next \in Nat
  BY DEF MInv, MTypes
<1>2. Len(F) \in Nat /\ \A i \in 1 .. Len(F) : F[i] \in Nat
  BY <1>1, MapFrames DEF usable_frames
<1>3. ASSUME next < Len(F) PROVE FALSE
  <2>1. next + 1 \in 1 .. Len(F)
    BY <1>1, <1>2, <1>3
  <2> QED BY <1>2, <1>3, <2>1 DEF Allocated, None
<1> QED BY <1>3

\* A request that is not met: memory does not suffice.
LEMMA TooLittle ==
  ASSUME MInv, HInv, Allocated = None,
         pc = "frame" \/ (pc = "walk" /\ Cardinality(Missing(tables)) >= 1)
  PROVE  ~Enough
<1> DEFINE h == Cardinality(HandedOut(usable_frames, next))
           s == Cardinality(SpareFrames)
           n == Cardinality(Missing(boot))
           m == Cardinality(Missing(tables))
           held == IF pc \in {"walk", "set"} THEN 1 ELSE 0
<1>1. /\ h \in Nat /\ s \in Nat /\ n \in Nat /\ m \in Nat
      /\ (Enough <=> s >= HeapPages + n) /\ HeapPages \in Nat /\ page \in Nat
  BY Counts
<1>2. h = s
  BY Counts, RunDry
<1>3. h + m = page + held + n
  BY DEF HInv, HCount
<1>4. page < HeapPages
  BY DEF MInv, MHeap
<1>5. (pc = "frame" /\ held = 0) \/ (pc = "walk" /\ held = 1 /\ m >= 1)
  OBVIOUS
<1> HIDE DEF h, s, n, m, held
<1> QED BY <1>1, <1>2, <1>3, <1>4, <1>5

\* The pages before the present one are other pages.
LEMMA OtherPages ==
  ASSUME NEW p \in 0 .. HeapPages - 1, NEW q \in 0 .. HeapPages - 1
  PROVE  InHeapPage(HeapBase(q), p) => q = p
<1>1. HeapBase(p) \div PageSize = (HEAP_START \div PageSize) + p
  BY Base DEF HeapBase
<1>2. HeapBase(q) \div PageSize = (HEAP_START \div PageSize) + q
  BY Base DEF HeapBase
<1>3. HEAP_START \in Nat /\ PageSize \in Nat \ {0} /\ HeapPages \in Nat
  BY MemoryAssumption
<1>4. HEAP_START \div PageSize \in Nat
  BY <1>3
<1> DEFINE d == HEAP_START \div PageSize
<1> HIDE DEF d
<1> QED BY <1>1, <1>2, <1>3, <1>4 DEF InHeapPage, d

\* map_to finds the page mapped: the bootloader had mapped it.
LEMMA NotFree ==
  ASSUME MInv, HInv, pc \in {"walk", "set"}, VirtToPhys(tables, PageAddr) # None
  PROVE  ~HeapFree
<1>1. page \in 0 .. HeapPages - 1 /\ PageAddr \in Virt /\ PageAddr = HeapBase(page) /\ PageAddr \in Nat
  BY Standing DEF PageAddr, HeapBase
<1>2. HeapPages \in Nat /\ PageSize \in Nat \ {0} /\ HEAP_START \in Nat
  BY MemoryAssumption
<1>3. ASSUME NEW p \in 0 .. page - 1 PROVE ~InHeapPage(PageAddr, p)
  <2>1. p \in 0 .. HeapPages - 1 /\ p # page
    BY <1>1, <1>2
  <2> QED BY <1>1, <2>1, OtherPages
<1>4. VirtToPhys(tables, PageAddr) = VirtToPhys(boot, PageAddr)
  BY <1>1, <1>3, Zenon DEF HInv, HBoot
<1>5. PageAddr \in HeapBytes
  <2>1. page + 1 <= HeapPages /\ page + 1 \in Int /\ HeapPages \in Int /\ PageSize \in Nat /\ page \in Nat
    BY <1>1, <1>2
  <2>2. (page + 1) * PageSize <= HeapPages * PageSize
    BY <2>1, TimesMono
  <2>3. /\ (page + 1) * PageSize = page * PageSize + PageSize
        /\ page * PageSize \in Nat /\ HeapPages * PageSize \in Nat
    BY <1>2, <2>1
  <2> QED BY <1>2, <2>2, <2>3 DEF HeapBytes, PageAddr
<1> QED BY <1>4, <1>5, Zenon DEF HeapFree

\* The right errors.
LEMMA FailKeeps ==
  ASSUME MInv, HInv, NEW error, Fail(error),
         \/ error = "FrameAllocationFailed" /\ ~Enough
         \/ error \in {"PageAlreadyMapped", "ParentEntryHugePage"} /\ ~HeapFree
  PROVE  HInv'
<1>1. /\ pc' = "done" /\ result' = error
      /\ UNCHANGED <<memory_regions, tables, boot, page>>
  BY Zenon DEF Fail
<1>2. Enough' = Enough /\ HeapFree' = HeapFree
  BY <1>1 DEF Enough, SpareFrames, usable_frames, NeededTables, HeapFree
<1>3. HCount'
  BY <1>1 DEF HCount
<1>4. HBoot' /\ HTables'
  BY <1>1 DEF HInv, HBoot, HTables
<1>5. HResult'
  BY <1>1, <1>2 DEF HResult, SucceedsIffPossible
<1> QED BY <1>3, <1>4, <1>5 DEF HInv

\* Before init_heap returns there is no result to be right or wrong.
LEMMA NoResultYet ==
  ASSUME HInv, pc # "done", result' = result
  PROVE  HResult'
BY DEF HInv, HResult, SucceedsIffPossible

\* At first nothing is handed out and nothing has changed.
LEMMA HInvInit ==
  ASSUME Init
  PROVE  HInv
<1>1. MInv
  BY MInvInit
<1>2. /\ memory_regions \in MemoryMaps /\ next = 0 /\ tables = boot /\ tables \in BootTables
      /\ pc = "skip" /\ page = 0 /\ result = "running"
  BY Zenon DEF Init
<1>3. Cardinality(HandedOut(usable_frames, next)) = 0
  <2>1. usable_frames = UsableFrames(memory_regions)
    BY DEF usable_frames
  <2>2. Len(usable_frames) \in Nat
    BY <1>2, <2>1, MapFrames
  <2>3. next \in 0 .. Len(usable_frames) /\ \A i \in 1 .. next : usable_frames[i] < MinAddr
    BY <1>2, <2>2
  <2> QED BY <1>2, <2>1, <2>3, HandedNone
<1>4. HCount
  <2> DEFINE n == Cardinality(Missing(boot))
  <2>1. n \in Nat /\ Cardinality(Missing(tables)) = n
    BY <1>2, MissingFinite
  <2> HIDE DEF n
  <2> QED BY <1>2, <1>3, <2>1 DEF HCount, n
<1>5. HBoot
  BY <1>2 DEF HBoot
<1>6. HTables
  BY <1>2, MemoryAssumption DEF HTables
<1>7. HResult
  BY <1>2 DEF HResult, SucceedsIffPossible
<1> QED BY <1>4, <1>5, <1>6, <1>7 DEF HInv

\* Skipping hands out nothing.
LEMMA SkipBelowCounts ==
  ASSUME MInv, HInv, SkipBelow
  PROVE  HInv'
<1>1. /\ pc = "skip" /\ pc' = "frame" /\ next = 0
      /\ UNCHANGED <<memory_regions, tables, boot, page, result>>
  BY DEF SkipBelow, MInv, MFrames
<1>2. next' \in 0 .. Len(usable_frames) /\ \A i \in 1 .. next' : usable_frames[i] < MinAddr
  BY DEF SkipBelow, Skips
<1>3. /\ memory_regions \in MemoryMaps /\ usable_frames = UsableFrames(memory_regions)
      /\ usable_frames' = usable_frames
  BY <1>1 DEF MInv, MTypes, usable_frames
<1>4. Cardinality(HandedOut(usable_frames, next')) = 0
  BY <1>2, <1>3, HandedNone
<1>5. Cardinality(HandedOut(usable_frames, next)) = 0
  <2>1. Len(usable_frames) \in Nat
    BY <1>3, MapFrames
  <2>2. next \in 0 .. Len(usable_frames) /\ \A i \in 1 .. next : usable_frames[i] < MinAddr
    BY <1>1, <2>1
  <2> QED BY <1>3, <2>2, HandedNone
<1>6. HCount'
  BY <1>1, <1>3, <1>4, <1>5 DEF HInv, HCount
<1>7. HBoot' /\ HTables'
  BY <1>1 DEF HInv, HBoot, HTables
<1>8. HResult'
  BY <1>1, NoResultYet
<1> QED BY <1>6, <1>7, <1>8 DEF HInv

\* One frame more is handed out.
LEMMA OneHandedOut ==
  ASSUME MInv, pc # "skip", Allocated # None, next' = Advanced, memory_regions' = memory_regions
  PROVE  /\ usable_frames' = usable_frames
         /\ Cardinality(HandedOut(usable_frames, next')) =
              Cardinality(HandedOut(usable_frames, next)) + 1
<1>1. /\ memory_regions \in MemoryMaps /\ usable_frames = UsableFrames(memory_regions)
      /\ usable_frames' = usable_frames /\ next \in Nat
  BY DEF MInv, MTypes, usable_frames
<1>2. next < Len(usable_frames)
  BY NextFrame
<1>3. usable_frames[next + 1] >= MinAddr
  BY <1>2 DEF MInv, MFrames
<1>4. Cardinality(HandedOut(usable_frames, next + 1)) =
        Cardinality(HandedOut(usable_frames, next)) + 1
  BY <1>1, <1>2, <1>3, HandedNext
<1> QED BY <1>1, <1>4 DEF Advanced

\* A frame for the page.
LEMMA AllocatePageCounts ==
  ASSUME MInv, HInv, AllocatePage
  PROVE  HInv'
<1>1. pc = "frame" /\ next' = Advanced
  BY DEF AllocatePage
<1>2. CASE Allocated = None /\ Fail("FrameAllocationFailed")
  BY <1>1, <1>2, TooLittle, FailKeeps
<1>3. CASE /\ Allocated # None /\ frame' = Allocated
           /\ pc' = "walk" /\ level' = 4 /\ table' = CR3
           /\ UNCHANGED <<memory_regions, tables, boot, page, result, heap>>
  <2> DEFINE h == Cardinality(HandedOut(usable_frames, next))
             n == Cardinality(Missing(boot))
             m == Cardinality(Missing(tables))
  <2>1. h \in Nat /\ n \in Nat /\ m \in Nat /\ page \in Nat
    BY Counts
  <2>2. usable_frames' = usable_frames /\ Cardinality(HandedOut(usable_frames, next')) = h + 1
    BY <1>1, <1>3, OneHandedOut
  <2>3. h + m = page + 0 + n
    BY <1>1 DEF HInv, HCount
  <2>4. HCount'
    <3>1. Cardinality(HandedOut(usable_frames', next')) = h + 1
      BY <2>2
    <3>2. Cardinality(Missing(tables')) = m /\ Cardinality(Missing(boot')) = n /\ page' = page
      BY <1>3
    <3> HIDE DEF h, n, m
    <3>3. (h + 1) + m = page + 1 + n
      BY <2>1, <2>3
    <3> QED BY <1>3, <3>1, <3>2, <3>3 DEF HCount
  <2>5. HBoot' /\ HTables'
    BY <1>3 DEF HInv, HBoot, HTables
  <2>6. HResult'
    BY <1>1, <1>3, NoResultYet
  <2> QED BY <2>4, <2>5, <2>6 DEF HInv
<1> QED BY <1>2, <1>3, Zenon DEF AllocatePage

\* The heap is complete.
LEMMA InitAllocatorCounts ==
  ASSUME MInv, HInv, InitAllocator
  PROVE  HInv'
<1>1. /\ pc = "init" /\ pc' = "done" /\ result' = "ok"
      /\ UNCHANGED <<memory_regions, next, tables, boot, page>>
  BY Zenon DEF InitAllocator
<1>2. page = HeapPages
  BY <1>1 DEF MInv, MHeap
<1>3. Cardinality(Missing(tables)) = 0
  <2>1. ASSUME NEW y \in Missing(tables) PROVE FALSE
    <3>1. PICK l \in 1 .. 3, b \in HeapBases : TableAt(tables, b, l) = None
      BY MissingIs
    <3>2. PICK p \in 0 .. HeapPages - 1 : b = HeapBase(p)
      BY DEF HeapBases, HeapBase
    <3>3. p \in 0 .. page - 1
      BY <1>2
    <3> QED BY <3>1, <3>2, <3>3, Zenon DEF HInv, HTables
  <2>2. Missing(tables) = {}
    BY <2>1
  <2> QED BY <2>2, FS_EmptySet
<1>4. Enough
  <2> DEFINE h == Cardinality(HandedOut(usable_frames, next))
             s == Cardinality(SpareFrames)
             n == Cardinality(Missing(boot))
  <2>1. h \in Nat /\ s \in Nat /\ n \in Nat /\ h <= s /\ (Enough <=> s >= HeapPages + n) /\ HeapPages \in Nat
    BY Counts
  <2>2. h + 0 = page + 0 + n
    BY <1>1, <1>3 DEF HInv, HCount
  <2> HIDE DEF h, s, n
  <2> QED BY <1>2, <2>1, <2>2
<1>5. HeapFree
  <2> SUFFICES ASSUME NEW v \in HeapBytes PROVE VirtToPhys(boot, v) = None
    BY DEF HeapFree
  <2>1. v \in Virt
    BY HeapByte
  <2>2. PICK p \in 0 .. HeapPages - 1 : v \div PageSize = (HEAP_START + p * PageSize) \div PageSize
    BY HeapByte
  <2>3. p \in 0 .. page - 1 /\ InHeapPage(v, p)
    BY <1>2, <2>2 DEF InHeapPage, HeapBase
  <2> QED BY <2>1, <2>3, Zenon DEF HInv, HBoot
<1>6. Enough' = Enough /\ HeapFree' = HeapFree
  BY <1>1 DEF Enough, SpareFrames, usable_frames, NeededTables, HeapFree
<1>7. HCount' /\ HBoot' /\ HTables'
  BY <1>1 DEF HInv, HCount, HBoot, HTables
<1>8. HResult'
  BY <1>1, <1>4, <1>5, <1>6 DEF HResult, SucceedsIffPossible
<1> QED BY <1>7, <1>8 DEF HInv

\* The table below an entry that is no table is missing.
LEMMA BelowIsMissing ==
  ASSUME MInv, pc = "walk", Entry.kind # "frame"
  PROVE  /\ PageAddr \in HeapBases /\ level \in 2 .. 4
         /\ TableAt(tables, PageAddr, level - 1) = None
         /\ Cardinality(Missing(tables)) >= 1
<1>1. /\ PageAddr \in Virt /\ PageAddr \in HeapBases /\ level \in 2 .. 4
      /\ Entry = At(tables, PageAddr, level) /\ IsTree(tables) /\ CR3 \in DOMAIN tables
  BY Standing
<1> DEFINE k == level - 1
<1>2. k \in 1 .. 3 /\ k + 1 = level
  BY <1>1
<1> HIDE DEF k
<1>3. TableAt(tables, PageAddr, k) = None
  BY <1>1, <1>2, Down
<1>4. <<k, Above(PageAddr, k)>> \in Missing(tables)
  BY <1>1, <1>2, <1>3, MissingIs
<1>5. Missing(tables) # {}
  BY <1>4
<1>6. IsFiniteSet(Missing(tables)) /\ Cardinality(Missing(tables)) \in Nat
  BY MissingFinite
<1>7. Cardinality(Missing(tables)) # 0
  BY <1>5, <1>6, FS_EmptySet
<1>8. Cardinality(Missing(tables)) >= 1
  BY <1>6, <1>7
<1> QED BY <1>1, <1>3, <1>8 DEF k

\* A huge page on the way translates the page's address.
LEMMA HugeTranslates ==
  ASSUME MInv, HInv, pc = "walk", Entry.kind = "huge"
  PROVE  VirtToPhys(tables, PageAddr) # None
<1> DEFINE v == PageAddr
           T == tables
           o3 == v % Span(3)
           o2 == v % Span(2)
           o1 == v % PageSize
<1>1. /\ v \in Virt /\ level \in 2 .. 4 /\ Entry = At(T, v, level) /\ IsTree(T) /\ CR3 \in DOMAIN T
      /\ TableAt(T, v, level) # None
  BY Standing
<1>2. /\ 2 \in 1 .. 3 /\ 3 \in 1 .. 3 /\ 2 + 1 = 3 /\ 3 + 1 = 4 /\ 2 \in 1 .. 4 /\ 3 \in 1 .. 4 /\ 4 \in 1 .. 4
      /\ (level = 2 \/ level = 3 \/ level = 4)
  BY <1>1
<1>3. level # 4
  <2> SUFFICES ASSUME level = 4 PROVE FALSE
    OBVIOUS
  <2>1. Index(v, 4) \in 0 .. Radix - 1
    BY <1>1, <1>2, Prefix
  <2>2. At(T, v, 4) = T[CR3][Index(v, 4)]
    BY TableStep DEF At
  <2> QED BY <1>1, <2>1, <2>2 DEF HInv, HTables
<1>4. VirtToPhys(T, v) =
        IF TableAt(T, v, 3) = None THEN None
        ELSE IF At(T, v, 3).kind = "huge" THEN At(T, v, 3).addr + o3
        ELSE IF TableAt(T, v, 2) = None THEN None
        ELSE IF At(T, v, 2).kind = "huge" THEN At(T, v, 2).addr + o2
        ELSE IF TableAt(T, v, 1) = None THEN None
        ELSE IF At(T, v, 1).kind = "unused" THEN None
        ELSE At(T, v, 1).addr + o1
  BY <1>1, Translates
<1>5. TableAt(T, v, 2) # None => TableAt(T, v, 3) # None /\ At(T, v, 3).kind = "frame"
  BY <1>1, <1>2, Down
<1>6. /\ TableAt(T, v, 3) # None => At(T, v, 3).addr \in Nat
      /\ TableAt(T, v, 2) # None => At(T, v, 2).addr \in Nat
  BY <1>1, <1>2, TreeFacts
<1>7. o3 \in Nat /\ o2 \in Nat
  <2>1. v \in Nat /\ Span(3) \in Nat \ {0} /\ Span(2) \in Nat \ {0}
    BY <1>1, <1>2, Prefix, Spans
  <2> QED BY <2>1
<1> HIDE DEF v, T, o3, o2, o1
<1>8. CASE level = 3
  <2>1. VirtToPhys(T, v) = At(T, v, 3).addr + o3 /\ At(T, v, 3).addr \in Nat
    BY <1>1, <1>4, <1>6, <1>8
  <2> QED BY <1>7, <2>1 DEF None, T, v
<1>9. CASE level = 2
  <2>1. VirtToPhys(T, v) = At(T, v, 2).addr + o2 /\ At(T, v, 2).addr \in Nat
    BY <1>1, <1>4, <1>5, <1>6, <1>9
  <2> QED BY <1>7, <2>1 DEF None, T, v
<1> QED BY <1>2, <1>3, <1>8, <1>9

\* One level down: a frame for each table that is missing, and an error that is due.
LEMMA CreateNextTableCounts ==
  ASSUME MInv, HInv, CreateNextTable
  PROVE  HInv'
<1>1. pc = "walk"
  BY DEF CreateNextTable
<1>2. CASE /\ Entry.kind = "unused" /\ Allocated # None /\ next' = Advanced
           /\ tables' = Zeroed([tables EXCEPT ![table][Index(PageAddr, level)] = Maps(Allocated)],
                               Allocated)
           /\ table' = Allocated /\ level' = level - 1
           /\ pc' = IF level = 2 THEN "set" ELSE "walk"
           /\ UNCHANGED <<memory_regions, boot, page, frame, result, heap>>
  <2> DEFINE h == Cardinality(HandedOut(usable_frames, next))
             n == Cardinality(Missing(boot))
             m == Cardinality(Missing(tables))
             m2 == Cardinality(Missing(tables'))
  <2>1. TableBuilt(tables, tables', PageAddr, level, Allocated)
    BY <1>1, <1>2, TableAdded
  <2>2. /\ OneMore(tables, tables', PageAddr, level, Allocated) /\ NoNewHuge(tables, tables')
        /\ \A v \in Virt : VirtToPhys(tables', v) = VirtToPhys(tables, v)
    BY <2>1, Zenon DEF TableBuilt
  <2>3. Allocated \in Nat /\ Allocated # None
    BY <1>1, <1>2, NextFrame
  <2>4. h \in Nat /\ n \in Nat /\ m \in Nat /\ m2 \in Nat /\ page \in 0 .. HeapPages /\ HeapPages \in Nat
    BY Counts, MissingFinite
  <2>5. m2 + 1 = m
    BY <1>1, <1>2, <2>2, <2>3, BelowIsMissing, MissingNext
  <2>6. usable_frames' = usable_frames /\ Cardinality(HandedOut(usable_frames, next')) = h + 1
    BY <1>1, <1>2, OneHandedOut
  <2>7. h + m = page + 1 + n
    BY <1>1 DEF HInv, HCount
  <2>8. pc' \in {"walk", "set"} /\ page' = page /\ boot' = boot
    BY <1>2
  <2>9. HCount'
    <3>1. Cardinality(HandedOut(usable_frames', next')) = h + 1 /\ Cardinality(Missing(boot')) = n
      BY <2>6, <2>8
    <3>2. Cardinality(Missing(tables')) = m2
      OBVIOUS
    <3> HIDE DEF h, n, m, m2
    <3>3. (h + 1) + m2 = page + 1 + n
      BY <2>4, <2>5, <2>7
    <3> QED BY <2>8, <3>1, <3>2, <3>3 DEF HCount
  <2>10. HBoot'
    <3>1. ASSUME NEW v \in Virt, \A p \in 0 .. page - 1 : ~InHeapPage(v, p)
          PROVE  VirtToPhys(tables', v) = VirtToPhys(boot, v)
      BY <2>2, <3>1, Zenon DEF HInv, HBoot
    <3>2. ASSUME NEW v \in Virt, NEW p \in 0 .. page - 1, InHeapPage(v, p)
          PROVE  VirtToPhys(boot, v) = None
      BY <3>2, Zenon DEF HInv, HBoot
    <3> QED BY <2>8, <3>1, <3>2, Zenon DEF HBoot
  <2>11. HTables'
    <3>1. ASSUME NEW p \in 0 .. page - 1, NEW l \in 1 .. 3
          PROVE  TableAt(tables', HeapBase(p), l) # None
      <4>1. p \in 0 .. HeapPages - 1 /\ l \in 1 .. 4
        BY <2>4
      <4>2. HeapBase(p) \in Virt
        BY <4>1, Base DEF HeapBase
      <4>3. TableAt(tables, HeapBase(p), l) # None
        BY Zenon DEF HInv, HTables
      <4>4. \/ TableAt(tables', HeapBase(p), l) = Allocated
            \/ TableAt(tables', HeapBase(p), l) = TableAt(tables, HeapBase(p), l)
        BY <2>2, <4>1, <4>2, Zenon DEF OneMore
      <4> QED BY <2>3, <4>3, <4>4, Zenon
    <3>2. ASSUME NEW i \in 0 .. Radix - 1 PROVE tables'[CR3][i].kind # "huge"
      <4>1. CR3 \in DOMAIN tables
        BY DEF MInv, MTree
      <4> QED BY <2>2, <4>1, Zenon DEF NoNewHuge, HInv, HTables
    <3> QED BY <2>8, <3>1, <3>2, Zenon DEF HTables
  <2>12. HResult'
    BY <1>1, <1>2, NoResultYet
  <2> QED BY <2>9, <2>10, <2>11, <2>12 DEF HInv
<1>3. CASE /\ Entry.kind = "unused" /\ Allocated = None /\ next' = Advanced
           /\ Fail("FrameAllocationFailed")
  <2>1. Cardinality(Missing(tables)) >= 1
    BY <1>1, <1>3, BelowIsMissing
  <2> QED BY <1>1, <1>3, <2>1, TooLittle, FailKeeps
<1>4. CASE /\ Entry.kind = "frame" /\ table' = Entry.addr /\ level' = level - 1
           /\ pc' = IF level = 2 THEN "set" ELSE "walk"
           /\ UNCHANGED <<memory_regions, next, tables, boot, page, frame, result, heap>>
  <2>1. pc' \in {"walk", "set"} /\ usable_frames' = usable_frames
    BY <1>4 DEF usable_frames
  <2>2. HCount'
    BY <1>1, <1>4, <2>1 DEF HInv, HCount
  <2>3. HBoot' /\ HTables'
    BY <1>4 DEF HInv, HBoot, HTables
  <2>4. HResult'
    BY <1>1, <1>4, NoResultYet
  <2> QED BY <2>2, <2>3, <2>4 DEF HInv
<1>5. CASE Entry.kind = "huge" /\ Fail("ParentEntryHugePage") /\ UNCHANGED next
  <2>1. ~HeapFree
    BY <1>1, <1>5, HugeTranslates, NotFree
  <2> QED BY <1>5, <2>1, FailKeeps
<1> QED BY <1>2, <1>3, <1>4, <1>5, Zenon DEF CreateNextTable

\* Mapping the page: the frame held becomes the page's.
LEMMA SetEntryCounts ==
  ASSUME MInv, HInv, SetEntry
  PROVE  HInv'
<1>1. pc = "set" /\ next' = next
  BY DEF SetEntry
<1>2. /\ PageAddr \in Virt /\ PageAddr = HeapBase(page) /\ page \in 0 .. HeapPages - 1 /\ level = 1
      /\ IsTree(tables) /\ CR3 \in DOMAIN tables /\ HeapPages \in Nat
      /\ table = TableAt(tables, PageAddr, level) /\ table # None /\ Entry = At(tables, PageAddr, level)
  BY <1>1, Standing, MemoryAssumption DEF PageAddr, HeapBase
<1>3. CASE Entry.kind # "unused" /\ Fail("PageAlreadyMapped")
  <2>1. VirtToPhys(tables, PageAddr) = At(tables, PageAddr, 1).addr + (PageAddr % PageSize)
    BY <1>2, <1>3, MappedAt
  <2>2. At(tables, PageAddr, 1).addr \in Nat
    <3>1. 1 \in 1 .. 4
      OBVIOUS
    <3> QED BY <1>2, <3>1, TreeFacts
  <2> DEFINE o == PageAddr % PageSize
             a == At(tables, PageAddr, 1).addr
  <2>3. o = 0
    BY <1>1, Standing
  <2> HIDE DEF o, a
  <2>4. VirtToPhys(tables, PageAddr) # None
    BY <2>1, <2>2, <2>3 DEF None, o, a
  <2>5. ~HeapFree
    BY <1>1, <2>4, NotFree
  <2> QED BY <1>3, <2>5, FailKeeps
<1>4. CASE /\ Entry.kind = "unused"
           /\ tables' = [tables EXCEPT ![table][Index(PageAddr, level)] = Maps(frame)]
           /\ page' = page + 1
           /\ pc' = IF page = LastPage THEN "init" ELSE "frame"
           /\ UNCHANGED <<memory_regions, boot, frame, level, table, result, heap>>
  <2>1. PageSet(tables, tables', PageAddr, frame)
    BY <1>1, <1>4, PageMapped
  <2>2. /\ SameTables(tables, tables') /\ NoNewHuge(tables, tables')
        /\ \A v \in Virt :
             IF v \div PageSize = PageAddr \div PageSize
             THEN VirtToPhys(tables, v) = None /\ VirtToPhys(tables', v) = frame + (v % PageSize)
             ELSE VirtToPhys(tables', v) = VirtToPhys(tables, v)
    BY <2>1, Zenon DEF PageSet
  <2>3. ASSUME NEW v \in Virt
        PROVE  /\ InHeapPage(v, page) => VirtToPhys(tables, v) = None
               /\ ~InHeapPage(v, page) => VirtToPhys(tables', v) = VirtToPhys(tables, v)
    BY <1>2, <2>2, Zenon DEF InHeapPage
  <2>4. pc' \in {"init", "frame"} /\ boot' = boot /\ usable_frames' = usable_frames
    BY <1>4 DEF usable_frames
  <2>5. /\ page \in 0 .. page' - 1 /\ (\A p \in 0 .. page - 1 : p \in 0 .. page' - 1)
        /\ \A p \in 0 .. page' - 1 : p = page \/ p \in 0 .. page - 1
    BY <1>2, <1>4
  <2>6. HCount'
    <3> DEFINE h == Cardinality(HandedOut(usable_frames, next))
               n == Cardinality(Missing(boot))
               m == Cardinality(Missing(tables))
    <3>1. h \in Nat /\ n \in Nat /\ m \in Nat /\ page \in Nat
      BY Counts
    <3>2. h + m = page + 1 + n
      BY <1>1 DEF HInv, HCount
    <3>3. Cardinality(Missing(tables')) = m /\ Cardinality(Missing(boot')) = n
          /\ Cardinality(HandedOut(usable_frames', next')) = h
      BY <1>1, <2>2, <2>4, MissingSame
    <3> HIDE DEF h, n, m
    <3>4. h + m = page' + 0 + n
      BY <1>4, <3>1, <3>2
    <3> QED BY <2>4, <3>3, <3>4 DEF HCount
  <2>7. HBoot'
    <3>1. ASSUME NEW v \in Virt, \A p \in 0 .. page' - 1 : ~InHeapPage(v, p)
          PROVE  VirtToPhys(tables', v) = VirtToPhys(boot, v)
      <4>1. ~InHeapPage(v, page) /\ \A p \in 0 .. page - 1 : ~InHeapPage(v, p)
        BY <2>5, <3>1, Zenon
      <4>2. VirtToPhys(tables, v) = VirtToPhys(boot, v)
        BY <4>1, Zenon DEF HInv, HBoot
      <4> QED BY <2>3, <4>1, <4>2, Zenon
    <3>2. ASSUME NEW v \in Virt, NEW p \in 0 .. page' - 1, InHeapPage(v, p)
          PROVE  VirtToPhys(boot, v) = None
      <4>1. CASE p \in 0 .. page - 1
        BY <3>2, <4>1, Zenon DEF HInv, HBoot
      <4>2. CASE p = page
        <5>1. VirtToPhys(tables, v) = None
          BY <2>3, <3>2, <4>2, Zenon
        <5>2. ASSUME NEW q \in 0 .. page - 1 PROVE ~InHeapPage(v, q)
          <6>1. q \in 0 .. HeapPages - 1 /\ q # page
            BY <1>2
          <6>2. ~InHeapPage(HeapBase(page), q)
            BY <1>2, <6>1, OtherPages
          <6> QED BY <3>2, <4>2, <6>2, Zenon DEF InHeapPage
        <5>3. VirtToPhys(tables, v) = VirtToPhys(boot, v)
          BY <5>2, Zenon DEF HInv, HBoot
        <5> QED BY <5>1, <5>3, Zenon
      <4> QED BY <2>5, <4>1, <4>2, Zenon
    <3> QED BY <2>4, <3>1, <3>2, Zenon DEF HBoot
  <2>8. HTables'
    <3>1. /\ TableAt(tables, PageAddr, 1) # None /\ TableAt(tables, PageAddr, 2) # None
          /\ TableAt(tables, PageAddr, 3) # None
      <4>1. 1 \in 1 .. 3 /\ 2 \in 1 .. 3 /\ 1 + 1 = 2 /\ 2 + 1 = 3
        OBVIOUS
      <4>2. TableAt(tables, PageAddr, 1) # None
        BY <1>2
      <4>3. TableAt(tables, PageAddr, 2) # None
        BY <1>2, <4>1, <4>2, Down
      <4>4. TableAt(tables, PageAddr, 3) # None
        BY <1>2, <4>1, <4>3, Down
      <4> QED BY <4>2, <4>3, <4>4
    <3>2. ASSUME NEW p \in 0 .. page' - 1, NEW l \in 1 .. 3
          PROVE  TableAt(tables', HeapBase(p), l) # None
      <4>1. p \in 0 .. HeapPages - 1 /\ l \in 1 .. 4 /\ (l = 1 \/ l = 2 \/ l = 3)
        BY <1>2, <1>4
      <4>2. HeapBase(p) \in Virt
        BY <4>1, Base DEF HeapBase
      <4>3. TableAt(tables', HeapBase(p), l) = TableAt(tables, HeapBase(p), l)
        BY <2>2, <4>1, <4>2, Zenon DEF SameTables
      <4>4. CASE p = page
        <5>1. TableAt(tables, HeapBase(p), l) # None
          BY <1>2, <3>1, <4>1, <4>4
        <5> QED BY <4>3, <5>1, Zenon
      <4>5. CASE p \in 0 .. page - 1
        <5>1. TableAt(tables, HeapBase(p), l) # None
          BY <4>5, Zenon DEF HInv, HTables
        <5> QED BY <4>3, <5>1, Zenon
      <4> QED BY <2>5, <4>4, <4>5, Zenon
    <3>3. ASSUME NEW i \in 0 .. Radix - 1 PROVE tables'[CR3][i].kind # "huge"
      BY <1>2, <2>2, Zenon DEF NoNewHuge, HInv, HTables
    <3> QED BY <3>2, <3>3, Zenon DEF HTables
  <2>9. HResult'
    BY <1>1, <1>4, NoResultYet
  <2> QED BY <2>6, <2>7, <2>8, <2>9 DEF HInv
<1> QED BY <1>3, <1>4, Zenon DEF SetEntry

\* Every step keeps the count.
LEMMA HInvStep ==
  ASSUME MInv, HInv, [Next]_vars
  PROVE  HInv'
<1>1. CASE UNCHANGED vars
  <2>1. UNCHANGED <<memory_regions, next, tables, boot, pc, page, result>>
    BY <1>1, Zenon DEF vars
  <2>2. usable_frames' = usable_frames
    BY <2>1 DEF usable_frames
  <2>3. HCount' /\ HBoot' /\ HTables'
    BY <2>1, <2>2 DEF HInv, HCount, HBoot, HTables
  <2>4. Enough' = Enough /\ HeapFree' = HeapFree
    BY <2>1 DEF Enough, SpareFrames, usable_frames, NeededTables, HeapFree
  <2>5. HResult'
    BY <2>1, <2>4 DEF HInv, HResult, SucceedsIffPossible
  <2> QED BY <2>3, <2>5 DEF HInv
<1>2. CASE SkipBelow \/ AllocatePage \/ CreateNextTable \/ SetEntry \/ InitAllocator
  BY <1>2, SkipBelowCounts, AllocatePageCounts, CreateNextTableCounts, SetEntryCounts,
     InitAllocatorCounts
<1> QED BY <1>1, <1>2 DEF Next, Finished

-----------------------------------------------------------------------------
\* init_heap succeeds exactly when the heap's addresses are free and memory suffices for
\* its pages and for the page tables that are missing on the way to them: no frame is
\* wasted, each error is reported only when it is due, and success is never claimed
\* without cause.
THEOREM HeapWhenPossible == Spec => []SucceedsIffPossible
<1>1. Init => MInv /\ HInv
  BY MInvInit, HInvInit
<1>2. (MInv /\ HInv) /\ [Next]_vars => (MInv /\ HInv)'
  BY MInvStep, HInvStep
<1>3. MInv /\ HInv => SucceedsIffPossible
  BY DEF HInv, HResult
<1> QED BY <1>1, <1>2, <1>3, PTL DEF Spec
=============================================================================
