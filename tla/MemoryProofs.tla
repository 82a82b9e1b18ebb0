---------------------------- MODULE MemoryProofs ----------------------------
(***************************************************************************)
(* The kernel heap for every memory map, every tree of page tables the     *)
(* bootloader may leave, and every size of pages, tables and heap: which   *)
(* frames are taken, and what map_to does to other translations.           *)
(***************************************************************************)
EXTENDS Memory, TLAPS

(* Addresses and their prefixes.                                           *)

\* Division with remainder.
LEMMA DivFacts ==
  ASSUME NEW x \in Nat, NEW d \in Nat \ {0}
  PROVE  x \div d \in Nat /\ x % d \in 0 .. d - 1 /\ x = (x \div d) * d + (x % d)
OBVIOUS

\* Quotient and remainder are determined.
LEMMA DivOnly ==
  ASSUME NEW q \in Int, NEW d \in Nat \ {0}, NEW r \in 0 .. d - 1
  PROVE  (q * d + r) \div d = q /\ (q * d + r) % d = r
OBVIOUS

\* A larger factor, a larger product.
LEMMA TimesMono ==
  ASSUME NEW a \in Int, NEW b \in Int, NEW d \in Nat, a <= b
  PROVE  a * d <= b * d
OBVIOUS

\* Dividing in two steps.
LEMMA DivTwice ==
  ASSUME NEW v \in Nat, NEW s \in Nat \ {0}, NEW r \in Nat \ {0}
  PROVE  (v \div s) \div r = v \div (s * r)
<1> DEFINE q == v \div s
           a == v % s
           q2 == q \div r
           i == q % r
           d == s * r
<1>1. q \in Nat /\ a \in 0 .. s - 1 /\ v = q * s + a
  BY DivFacts
<1> HIDE DEF q, a
<1>2. q2 \in Nat /\ i \in 0 .. r - 1 /\ q = q2 * r + i
  BY <1>1, DivFacts
<1> HIDE DEF q2, i
<1>3. d \in Nat \ {0}
  OBVIOUS
<1>4. v = q2 * d + (i * s + a)
  BY <1>1, <1>2
<1>5. i * s + a \in 0 .. d - 1
  <2>1. 0 * s <= i * s /\ i * s <= (r - 1) * s
    BY <1>2, TimesMono
  <2>2. (r - 1) * s = d - s /\ 0 * s = 0 /\ i * s \in Int
    BY <1>2
  <2> HIDE DEF d
  <2> QED BY <1>1, <1>3, <2>1, <2>2
<1> HIDE DEF d
<1>6. v \div d = q2
  <2> DEFINE rest == i * s + a
  <2>1. rest \in 0 .. d - 1 /\ q2 \in Int /\ v = q2 * d + rest
    BY <1>2, <1>4, <1>5
  <2> HIDE DEF rest
  <2> QED BY <1>3, <2>1, DivOnly
<1> QED BY <1>6 DEF q2, q, d

\* An entry spans Radix entries of the level below.
LEMMA Spans ==
  /\ PageSize \in Nat \ {0} /\ Radix \in Nat \ {0}
  /\ \A l \in 1 .. 4 : Span(l) \in Nat \ {0}
  /\ Span(1) = PageSize
  /\ \A l \in 1 .. 3 : Span(l + 1) = Span(l) * Radix
<1> DEFINE P == PageSize
           R == Radix
<1>1. P \in Nat \ {0} /\ R \in Nat \ {0}
  BY MemoryAssumption
<1>2. Span(1) = P /\ Span(2) = P * R /\ Span(3) = P * (R * R) /\ Span(4) = P * (R * R * R)
  BY <1>1 DEF Span
<1> HIDE DEF P, R
<1>3. Span(1) \in Nat \ {0} /\ Span(2) \in Nat \ {0} /\ Span(2) = Span(1) * R
  BY <1>1, <1>2
<1>4. Span(3) = Span(2) * R
  BY <1>1, <1>2
<1>5. Span(4) = Span(3) * R
  BY <1>1, <1>2
<1>6. \A x \in Nat \ {0} : x * R \in Nat \ {0}
  BY <1>1
<1>7. Span(3) \in Nat \ {0}
  BY <1>3, <1>4, <1>6
<1>8. Span(4) \in Nat \ {0}
  BY <1>7, <1>5, <1>6
<1>9. \A l \in 1 .. 4 : Span(l) \in Nat \ {0}
  BY <1>3, <1>7, <1>8
<1>10. \A l \in 1 .. 3 : Span(l + 1) = Span(l) * R
  BY <1>3, <1>4, <1>5
<1> QED BY <1>1, <1>2, <1>9, <1>10 DEF P, R

\* An address has a prefix and an index at every level.
LEMMA Prefix ==
  ASSUME NEW v \in Virt, NEW l \in 1 .. 4
  PROVE  /\ v \in Nat /\ v \div Span(l) \in Nat /\ Above(v, l) \in Nat
         /\ Index(v, l) \in 0 .. Radix - 1
         /\ Above(v, l) = (v \div Span(l)) \div Radix
         /\ v \div Span(l) = Above(v, l) * Radix + Index(v, l)
<1> DEFINE s == Span(l)
           q == v \div s
<1>1. v \in Nat /\ s \in Nat \ {0} /\ Radix \in Nat \ {0}
  <2>1. Span(4) \in Nat /\ Radix \in Nat \ {0} /\ s \in Nat \ {0}
    BY Spans
  <2>2. Span(4) * Radix \in Nat
    BY <2>1
  <2> QED BY <2>1, <2>2 DEF Virt
<1>2. q \in Nat
  BY <1>1, DivFacts
<1> HIDE DEF q
<1>3. q \div Radix \in Nat /\ q % Radix \in 0 .. Radix - 1
      /\ q = (q \div Radix) * Radix + (q % Radix)
  BY <1>1, <1>2, DivFacts
<1>4. Above(v, l) = q \div Radix
  <2>1. CASE l # 4
    <3>1. l \in 1 .. 3
      BY <2>1
    <3>2. Span(l + 1) = s * Radix
      BY <3>1, Spans
    <3>3. Above(v, l) = v \div (s * Radix)
      BY <2>1, <3>2 DEF Above
    <3> QED BY <1>1, <3>3, DivTwice DEF q
  <2>2. CASE l = 4
    <3>1. Above(v, l) = 0
      BY <2>2 DEF Above
    <3>2. v < s * Radix
      <4>1. s * Radix \in Nat
        BY <1>1
      <4> QED BY <1>1, <2>2, <4>1 DEF Virt
    <3>3. q < Radix
      <4> SUFFICES ASSUME Radix <= q PROVE FALSE
        BY <1>1, <1>2
      <4>1. Radix * s <= q * s
        BY <1>1, <1>2, TimesMono
      <4>2. v = q * s + (v % s) /\ v % s \in 0 .. s - 1
        BY <1>1, DivFacts DEF q
      <4> DEFINE rest == v % s
      <4> HIDE DEF rest
      <4>3. Radix * s = s * Radix /\ q * s \in Int /\ s * Radix \in Int
        BY <1>1, <1>2
      <4> QED BY <1>1, <3>2, <4>1, <4>2, <4>3 DEF rest
    <3>4. q \div Radix = 0
      BY <1>1, <1>2, <3>3
    <3> QED BY <3>1, <3>4
  <2> QED BY <2>1, <2>2
<1>5. Index(v, l) = q % Radix
  BY DEF Index, q
<1> QED BY <1>1, <1>2, <1>3, <1>4, <1>5 DEF q

\* A prefix is the prefix above it and an index.
LEMMA SamePrefix ==
  ASSUME NEW v \in Virt, NEW w \in Virt, NEW l \in 1 .. 4
  PROVE  v \div Span(l) = w \div Span(l) <=> Above(v, l) = Above(w, l) /\ Index(v, l) = Index(w, l)
<1>1. /\ Above(v, l) = (v \div Span(l)) \div Radix /\ Index(v, l) = (v \div Span(l)) % Radix
      /\ v \div Span(l) = Above(v, l) * Radix + Index(v, l)
  BY Prefix DEF Index
<1>2. /\ Above(w, l) = (w \div Span(l)) \div Radix /\ Index(w, l) = (w \div Span(l)) % Radix
      /\ w \div Span(l) = Above(w, l) * Radix + Index(w, l)
  BY Prefix DEF Index
<1> QED BY <1>1, <1>2, Zenon

-----------------------------------------------------------------------------
(* The walk.                                                               *)

\* The walk, level by level.
LEMMA TableStep ==
  ASSUME NEW T, NEW v
  PROVE  /\ TableAt(T, v, 4) = CR3
         /\ \A l \in 1 .. 3 : TableAt(T, v, l) = NextTable(T, TableAt(T, v, l + 1), v, l + 1)
<1>1. /\ TableAt(T, v, 4) = CR3
      /\ TableAt(T, v, 3) = NextTable(T, CR3, v, 4)
      /\ TableAt(T, v, 2) = NextTable(T, TableAt(T, v, 3), v, 3)
      /\ TableAt(T, v, 1) = NextTable(T, TableAt(T, v, 2), v, 2)
  BY DEF TableAt
<1>2. \A l \in 1 .. 3 : l = 1 \/ l = 2 \/ l = 3
  OBVIOUS
<1>3. 1 + 1 = 2 /\ 2 + 1 = 3 /\ 3 + 1 = 4
  OBVIOUS
<1> QED BY <1>1, <1>2, <1>3

\* An entry of the walk for v.
At(T, v, l) == T[TableAt(T, v, l)][Index(v, l)]

\* In a tree the walk meets tables and entries.
LEMMA TreeFacts ==
  ASSUME NEW T, IsTree(T), CR3 \in DOMAIN T, NEW v \in Virt, NEW l \in 1 .. 4
  PROVE  /\ TableAt(T, v, l) \in DOMAIN T \cup {None}
         /\ TableAt(T, v, l) # None =>
              /\ TableAt(T, v, l) \in DOMAIN T
              /\ At(T, v, l).kind \in {"unused", "frame", "huge"} /\ At(T, v, l).addr \in Nat
              /\ At(T, v, l).addr # None
         /\ l = 4 => TableAt(T, v, l) # None
<1>1. TableAt(T, v, l) \in DOMAIN T \cup {None}
  BY DEF IsTree
<1>2. Index(v, l) \in 0 .. Radix - 1
  BY Prefix
<1>3. ASSUME TableAt(T, v, l) # None
      PROVE  /\ TableAt(T, v, l) \in DOMAIN T
             /\ At(T, v, l) \in [kind : {"unused", "frame", "huge"}, addr : Nat]
  <2>1. TableAt(T, v, l) \in DOMAIN T
    BY <1>1, <1>3
  <2>2. T[TableAt(T, v, l)] \in [0 .. Radix - 1 -> [kind : {"unused", "frame", "huge"}, addr : Nat]]
    BY <2>1 DEF IsTree
  <2> QED BY <1>2, <2>1, <2>2 DEF At
<1>4. ASSUME l = 4 PROVE TableAt(T, v, l) # None
  <2>1. TableAt(T, v, l) = CR3
    BY <1>4, TableStep
  <2> QED BY <2>1, MemoryAssumption DEF None
<1> QED BY <1>1, <1>3, <1>4 DEF None

\* One level down.
LEMMA Down ==
  ASSUME NEW T, IsTree(T), CR3 \in DOMAIN T, NEW v \in Virt, NEW l \in 1 .. 3
  PROVE  TableAt(T, v, l) =
           IF TableAt(T, v, l + 1) # None /\ At(T, v, l + 1).kind = "frame"
           THEN At(T, v, l + 1).addr ELSE None
BY TableStep DEF NextTable, At

\* The translation of v, from the entries of its walk.
LEMMA Translates ==
  ASSUME NEW T, IsTree(T), CR3 \in DOMAIN T, NEW v \in Virt
  PROVE  VirtToPhys(T, v) =
           IF TableAt(T, v, 3) = None THEN None
           ELSE IF At(T, v, 3).kind = "huge" THEN At(T, v, 3).addr + (v % Span(3))
           ELSE IF TableAt(T, v, 2) = None THEN None
           ELSE IF At(T, v, 2).kind = "huge" THEN At(T, v, 2).addr + (v % Span(2))
           ELSE IF TableAt(T, v, 1) = None THEN None
           ELSE IF At(T, v, 1).kind = "unused" THEN None
           ELSE At(T, v, 1).addr + (v % PageSize)
<1> DEFINE p4e == T[CR3][Index(v, 4)]
           p3e == T[p4e.addr][Index(v, 3)]
           p2e == T[p3e.addr][Index(v, 2)]
           p1e == T[p2e.addr][Index(v, 1)]
           o3 == v % Span(3)
           o2 == v % Span(2)
           o1 == v % PageSize
<1>1. VirtToPhys(T, v) =
        IF p4e.kind # "frame" THEN None
        ELSE IF p3e.kind = "unused" THEN None
        ELSE IF p3e.kind = "huge" THEN p3e.addr + o3
        ELSE IF p2e.kind = "unused" THEN None
        ELSE IF p2e.kind = "huge" THEN p2e.addr + o2
        ELSE IF p1e.kind = "unused" THEN None
        ELSE p1e.addr + o1
  BY Zenon DEF VirtToPhys
<1>2. /\ 3 \in 1 .. 3 /\ 2 \in 1 .. 3 /\ 1 \in 1 .. 3 /\ 4 \in 1 .. 4 /\ 3 \in 1 .. 4 /\ 2 \in 1 .. 4
      /\ 3 + 1 = 4 /\ 2 + 1 = 3 /\ 1 + 1 = 2
  OBVIOUS
<1>3. TableAt(T, v, 4) = CR3 /\ TableAt(T, v, 4) # None
  BY TableStep, TreeFacts, <1>2
<1>4. At(T, v, 4) = p4e /\ p4e.addr # None
  BY <1>2, <1>3, TreeFacts DEF At
<1>5. TableAt(T, v, 3) = IF p4e.kind = "frame" THEN p4e.addr ELSE None
  BY <1>2, <1>3, <1>4, Down
<1>6. p4e.kind = "frame" => /\ At(T, v, 3) = p3e /\ p3e.addr # None
                            /\ p3e.kind \in {"unused", "frame", "huge"}
  BY <1>2, <1>4, <1>5, TreeFacts DEF At
<1>7. TableAt(T, v, 2) = IF p4e.kind = "frame" /\ p3e.kind = "frame" THEN p3e.addr ELSE None
  BY <1>2, <1>4, <1>5, <1>6, Down
<1>8. p4e.kind = "frame" /\ p3e.kind = "frame" =>
        /\ At(T, v, 2) = p2e /\ p2e.addr # None
        /\ p2e.kind \in {"unused", "frame", "huge"}
  BY <1>2, <1>6, <1>7, TreeFacts DEF At
<1>9. TableAt(T, v, 1) = IF p4e.kind = "frame" /\ p3e.kind = "frame" /\ p2e.kind = "frame"
                         THEN p2e.addr ELSE None
  <2>1. TableAt(T, v, 1) = IF TableAt(T, v, 2) # None /\ At(T, v, 2).kind = "frame"
                           THEN At(T, v, 2).addr ELSE None
    BY <1>2, Down
  <2> HIDE DEF p4e, p3e, p2e
  <2>2. CASE p4e.kind = "frame" /\ p3e.kind = "frame"
    BY <1>6, <1>7, <1>8, <2>1, <2>2
  <2>3. CASE ~(p4e.kind = "frame" /\ p3e.kind = "frame")
    BY <1>7, <2>1, <2>3
  <2> QED BY <2>2, <2>3
<1>10. p4e.kind = "frame" /\ p3e.kind = "frame" /\ p2e.kind = "frame" => At(T, v, 1) = p1e
  BY <1>9 DEF At
<1> HIDE DEF p4e, p3e, p2e, p1e, o3, o2, o1
<1> QED BY <1>1, <1>4, <1>5, <1>6, <1>7, <1>8, <1>9, <1>10 DEF o3, o2, o1

\* Where the walk meets an unused entry there is no translation.
LEMMA NoneBelow ==
  ASSUME NEW T, IsTree(T), CR3 \in DOMAIN T, NEW v \in Virt, NEW l \in 1 .. 4,
         TableAt(T, v, l) # None, At(T, v, l).kind = "unused"
  PROVE  VirtToPhys(T, v) = None
<1>1. /\ 3 \in 1 .. 3 /\ 2 \in 1 .. 3 /\ 1 \in 1 .. 3
      /\ 3 + 1 = 4 /\ 2 + 1 = 3 /\ 1 + 1 = 2
      /\ (l = 1 \/ l = 2 \/ l = 3 \/ l = 4)
  OBVIOUS
<1>2. /\ TableAt(T, v, 3) # None => At(T, v, 4).kind = "frame"
      /\ TableAt(T, v, 2) # None => TableAt(T, v, 3) # None /\ At(T, v, 3).kind = "frame"
      /\ TableAt(T, v, 1) # None => TableAt(T, v, 2) # None /\ At(T, v, 2).kind = "frame"
  BY <1>1, Down
<1> DEFINE o3 == v % Span(3)
           o2 == v % Span(2)
           o1 == v % PageSize
<1>3. VirtToPhys(T, v) =
           IF TableAt(T, v, 3) = None THEN None
           ELSE IF At(T, v, 3).kind = "huge" THEN At(T, v, 3).addr + o3
           ELSE IF TableAt(T, v, 2) = None THEN None
           ELSE IF At(T, v, 2).kind = "huge" THEN At(T, v, 2).addr + o2
           ELSE IF TableAt(T, v, 1) = None THEN None
           ELSE IF At(T, v, 1).kind = "unused" THEN None
           ELSE At(T, v, 1).addr + o1
  BY Translates
<1> HIDE DEF o3, o2, o1
<1> QED BY <1>1, <1>2, <1>3

\* Where it meets the entry of a page, the page is mapped.
LEMMA MappedAt ==
  ASSUME NEW T, IsTree(T), CR3 \in DOMAIN T, NEW v \in Virt,
         TableAt(T, v, 1) # None, At(T, v, 1).kind # "unused"
  PROVE  VirtToPhys(T, v) = At(T, v, 1).addr + (v % PageSize)
<1>1. 2 \in 1 .. 3 /\ 1 \in 1 .. 3 /\ 2 + 1 = 3 /\ 1 + 1 = 2
  OBVIOUS
<1>2. /\ TableAt(T, v, 2) # None => TableAt(T, v, 3) # None /\ At(T, v, 3).kind = "frame"
      /\ TableAt(T, v, 1) # None => TableAt(T, v, 2) # None /\ At(T, v, 2).kind = "frame"
  BY <1>1, Down
<1> DEFINE o3 == v % Span(3)
           o2 == v % Span(2)
           o1 == v % PageSize
<1>3. VirtToPhys(T, v) =
           IF TableAt(T, v, 3) = None THEN None
           ELSE IF At(T, v, 3).kind = "huge" THEN At(T, v, 3).addr + o3
           ELSE IF TableAt(T, v, 2) = None THEN None
           ELSE IF At(T, v, 2).kind = "huge" THEN At(T, v, 2).addr + o2
           ELSE IF TableAt(T, v, 1) = None THEN None
           ELSE IF At(T, v, 1).kind = "unused" THEN None
           ELSE At(T, v, 1).addr + o1
  BY Translates
<1> HIDE DEF o3, o2, o1
<1>4. VirtToPhys(T, v) = At(T, v, 1).addr + o1
  BY <1>2, <1>3
<1> QED BY <1>4 DEF o1

\* The walk for v meets the same entry of the same table at level l.
SameAt(T, U, v, l) ==
  /\ TableAt(U, v, l) = TableAt(T, v, l)
  /\ TableAt(T, v, l) # None => At(U, v, l) = At(T, v, l)

\* Memories in which the walk for v meets the same entries translate v alike.
LEMMA Agree ==
  ASSUME NEW T, IsTree(T), CR3 \in DOMAIN T, NEW U, IsTree(U), CR3 \in DOMAIN U, NEW v \in Virt,
         \A l \in 1 .. 4 : SameAt(T, U, v, l)
  PROVE  VirtToPhys(U, v) = VirtToPhys(T, v)
<1> DEFINE o3 == v % Span(3)
           o2 == v % Span(2)
           o1 == v % PageSize
           X(S) == IF TableAt(S, v, 3) = None THEN None
                   ELSE IF At(S, v, 3).kind = "huge" THEN At(S, v, 3).addr + o3
                   ELSE IF TableAt(S, v, 2) = None THEN None
                   ELSE IF At(S, v, 2).kind = "huge" THEN At(S, v, 2).addr + o2
                   ELSE IF TableAt(S, v, 1) = None THEN None
                   ELSE IF At(S, v, 1).kind = "unused" THEN None
                   ELSE At(S, v, 1).addr + o1
<1>1. VirtToPhys(T, v) = X(T) /\ VirtToPhys(U, v) = X(U)
  BY Translates
<1>2. 1 \in 1 .. 4 /\ 2 \in 1 .. 4 /\ 3 \in 1 .. 4
  OBVIOUS
<1> HIDE DEF o3, o2, o1
<1>3. X(U) = X(T)
  BY <1>2 DEF SameAt
<1> QED BY <1>1, <1>3

\* A translation is an address.
LEMMA PhysNat ==
  ASSUME NEW T, IsTree(T), CR3 \in DOMAIN T, NEW v \in Virt
  PROVE  VirtToPhys(T, v) = None \/ VirtToPhys(T, v) \in Nat
<1> DEFINE o3 == v % Span(3)
           o2 == v % Span(2)
           o1 == v % PageSize
<1>1. 1 \in 1 .. 4 /\ 2 \in 1 .. 4 /\ 3 \in 1 .. 4
  OBVIOUS
<1>2. o3 \in Nat /\ o2 \in Nat /\ o1 \in Nat
  <2>1. v \in Nat /\ Span(3) \in Nat \ {0} /\ Span(2) \in Nat \ {0} /\ PageSize \in Nat \ {0}
    BY <1>1, Prefix, Spans
  <2> QED BY <2>1
<1>3. /\ TableAt(T, v, 3) # None => At(T, v, 3).addr \in Nat
      /\ TableAt(T, v, 2) # None => At(T, v, 2).addr \in Nat
      /\ TableAt(T, v, 1) # None => At(T, v, 1).addr \in Nat
  BY <1>1, TreeFacts
<1>4. VirtToPhys(T, v) =
           IF TableAt(T, v, 3) = None THEN None
           ELSE IF At(T, v, 3).kind = "huge" THEN At(T, v, 3).addr + o3
           ELSE IF TableAt(T, v, 2) = None THEN None
           ELSE IF At(T, v, 2).kind = "huge" THEN At(T, v, 2).addr + o2
           ELSE IF TableAt(T, v, 1) = None THEN None
           ELSE IF At(T, v, 1).kind = "unused" THEN None
           ELSE At(T, v, 1).addr + o1
  BY Translates
<1> HIDE DEF o3, o2, o1
<1>5. \A x, y \in Nat : x + y \in Nat
  OBVIOUS
<1> QED BY <1>2, <1>3, <1>4, <1>5

-----------------------------------------------------------------------------
(* What map_to's writes do to the walks.                                   *)

\* Addresses with the same prefix reach the same table.
LEMMA SamePath ==
  ASSUME NEW T, NEW v \in Virt, NEW w \in Virt, NEW l \in 1 .. 4, Above(v, l) = Above(w, l)
  PROVE  TableAt(T, v, l) = TableAt(T, w, l)
<1> DEFINE A(k) == Above(v, k) = Above(w, k)
           I(k) == Index(v, k) = Index(w, k)
           S(k) == TableAt(T, v, k) = TableAt(T, w, k)
<1>1. ASSUME NEW k \in 1 .. 3, A(k) PROVE A(k + 1) /\ I(k + 1)
  <2>1. k # 4 /\ k + 1 \in 1 .. 4
    OBVIOUS
  <2>2. v \div Span(k + 1) = w \div Span(k + 1)
    BY <1>1, <2>1 DEF Above
  <2> QED BY <2>1, <2>2, SamePrefix
<1>2. ASSUME NEW k \in 1 .. 3, S(k + 1), I(k + 1) PROVE S(k)
  BY <1>2, TableStep DEF NextTable
<1>3. S(4)
  BY TableStep
<1>4. /\ 1 \in 1 .. 3 /\ 2 \in 1 .. 3 /\ 3 \in 1 .. 3 /\ 1 + 1 = 2 /\ 2 + 1 = 3 /\ 3 + 1 = 4
      /\ (l = 1 \/ l = 2 \/ l = 3 \/ l = 4)
  OBVIOUS
<1>5. A(l)
  OBVIOUS
<1> HIDE DEF A, I, S
<1>6. A(3) => S(3)
  BY <1>1, <1>2, <1>3, <1>4
<1>7. A(2) => S(2)
  BY <1>1, <1>2, <1>4, <1>6
<1>8. A(1) => S(1)
  BY <1>1, <1>2, <1>4, <1>7
<1>9. S(l)
  BY <1>3, <1>4, <1>5, <1>6, <1>7, <1>8
<1> QED BY <1>9 DEF S

\* U differs from T at most in entry i of table t.
SameBut(T, U, t, i) ==
  \A f \in DOMAIN T, j \in 0 .. Radix - 1 : ~(f = t /\ j = i) => U[f][j] = T[f][j]

\* The walk for v reaches level L as before, and is unchanged unless it meets the
\* entry of w's walk there.
Spared(T, U, v, w, L) ==
  /\ \A l \in 1 .. 4 : l >= L => TableAt(U, v, l) = TableAt(T, v, l)
  /\ v \div Span(L) # w \div Span(L) => \A l \in 1 .. 4 : SameAt(T, U, v, l)

\* No table is reached on two ways.
SameWay(T, v, w, k, l) ==
  TableAt(T, v, k) # None /\ TableAt(T, v, k) = TableAt(T, w, l) =>
    k = l /\ Above(v, k) = Above(w, k)

OneWay(T) == \A v, w \in Virt, k, l \in 1 .. 4 : SameWay(T, v, w, k, l)

\* U differs from T at most in the entry of w's walk at level L.  The walks for other
\* addresses meet no other entry, and all walks reach that level as before.
LEMMA WriteElsewhere ==
  ASSUME NEW T, IsTree(T), CR3 \in DOMAIN T, NEW U, NEW w \in Virt, NEW L \in 1 .. 4,
         TableAt(T, w, L) # None,
         SameBut(T, U, TableAt(T, w, L), Index(w, L)), NEW v \in Virt
  PROVE  Spared(T, U, v, w, L)
<1> DEFINE Apart == v \div Span(L) # w \div Span(L)
           S(l) == TableAt(U, v, l) = TableAt(T, v, l)
<1>1. ASSUME NEW l \in 1 .. 4, TableAt(T, v, l) # None, l # L \/ Apart
      PROVE  U[TableAt(T, v, l)][Index(v, l)] = T[TableAt(T, v, l)][Index(v, l)]
  <2>1. TableAt(T, v, l) \in DOMAIN T /\ Index(v, l) \in 0 .. Radix - 1
    BY <1>1, TreeFacts, Prefix
  <2>2. ~(TableAt(T, v, l) = TableAt(T, w, L) /\ Index(v, l) = Index(w, L))
    <3> SUFFICES ASSUME TableAt(T, v, l) = TableAt(T, w, L), Index(v, l) = Index(w, L)
                 PROVE  FALSE
      OBVIOUS
    <3>1. l = L /\ Above(v, l) = Above(w, l)
      BY <1>1 DEF IsTree
    <3>2. v \div Span(L) = w \div Span(L)
      BY <3>1, SamePrefix
    <3> QED BY <1>1, <3>1, <3>2
  <2> QED BY <2>1, <2>2 DEF SameBut
<1>2. ASSUME NEW l \in 1 .. 3, S(l + 1), l + 1 # L \/ Apart PROVE S(l)
  <2>1. l + 1 \in 1 .. 4
    OBVIOUS
  <2>2. /\ TableAt(T, v, l) = NextTable(T, TableAt(T, v, l + 1), v, l + 1)
        /\ TableAt(U, v, l) = NextTable(U, TableAt(T, v, l + 1), v, l + 1)
    BY <1>2, TableStep
  <2>3. CASE TableAt(T, v, l + 1) = None
    BY <2>2, <2>3 DEF NextTable
  <2>4. CASE TableAt(T, v, l + 1) # None
    <3>1. U[TableAt(T, v, l + 1)][Index(v, l + 1)] = T[TableAt(T, v, l + 1)][Index(v, l + 1)]
      BY <1>1, <1>2, <2>1, <2>4
    <3> QED BY <2>2, <3>1 DEF NextTable
  <2> QED BY <2>3, <2>4
<1>3. S(4)
  BY TableStep
<1>4. /\ 1 \in 1 .. 3 /\ 2 \in 1 .. 3 /\ 3 \in 1 .. 3 /\ 1 + 1 = 2 /\ 2 + 1 = 3 /\ 3 + 1 = 4
      /\ \A l \in 1 .. 4 : l = 1 \/ l = 2 \/ l = 3 \/ l = 4
  OBVIOUS
<1> HIDE DEF S, Apart
<1>5. S(3) \/ (L = 4 /\ ~Apart)
  BY <1>2, <1>3, <1>4
<1>6. S(2) \/ (L \in {3, 4} /\ ~Apart)
  BY <1>2, <1>4, <1>5
<1>7. S(1) \/ (L \in {2, 3, 4} /\ ~Apart)
  BY <1>2, <1>4, <1>6
<1>8. \A l \in 1 .. 4 : l >= L => S(l)
  BY <1>3, <1>4, <1>5, <1>6, <1>7
<1>9. Apart => \A l \in 1 .. 4 : S(l)
  BY <1>3, <1>4, <1>5, <1>6, <1>7
<1>10. Apart => \A l \in 1 .. 4 : TableAt(T, v, l) # None => At(U, v, l) = At(T, v, l)
  BY <1>1, <1>9 DEF At, S
<1> QED BY <1>8, <1>9, <1>10 DEF Apart, S, SameAt, Spared

\* Writing one entry, and then zeroing a frame that is no table.
LEMMA WriteEntry ==
  ASSUME NEW T, IsTree(T), NEW t \in DOMAIN T, NEW i \in 0 .. Radix - 1, NEW e,
         e \in [kind : {"unused", "frame", "huge"}, addr : Nat]
  PROVE  LET U == [T EXCEPT ![t][i] = e]
         IN  /\ DOMAIN U = DOMAIN T /\ U[t][i] = e
             /\ \A f \in DOMAIN T, j \in 0 .. Radix - 1 : ~(f = t /\ j = i) => U[f][j] = T[f][j]
             /\ \A f \in DOMAIN T :
                  /\ f \in Nat
                  /\ U[f] \in [0 .. Radix - 1 -> [kind : {"unused", "frame", "huge"}, addr : Nat]]
<1> DEFINE U == [T EXCEPT ![t][i] = e]
           E == [kind : {"unused", "frame", "huge"}, addr : Nat]
           D == 0 .. Radix - 1
<1>1. \A f \in DOMAIN T : f \in Nat /\ T[f] \in [D -> E]
  BY DEF IsTree
<1> HIDE DEF E, D
<1>2. DOMAIN U = DOMAIN T /\ U[t] = [T[t] EXCEPT ![i] = e]
      /\ \A f \in DOMAIN T : f # t => U[f] = T[f]
  OBVIOUS
<1>3. e \in E /\ i \in D
  BY DEF E, D
<1> HIDE DEF U
<1>4. U[t][i] = e /\ (\A j \in D : j # i => U[t][j] = T[t][j]) /\ U[t] \in [D -> E]
  BY <1>1, <1>2, <1>3
<1>5. \A f \in DOMAIN T, j \in D : ~(f = t /\ j = i) => U[f][j] = T[f][j]
  BY <1>2, <1>4
<1>6. \A f \in DOMAIN T : f \in Nat /\ U[f] \in [D -> E]
  BY <1>1, <1>2, <1>4
<1> QED BY <1>2, <1>4, <1>5, <1>6 DEF U, D, E

\* The walks of U reach the tables they reach in T, and a one level below w's entry.
OneMore(T, U, w, L, a) ==
  \A v \in Virt, l \in 1 .. 4 :
    TableAt(U, v, l) = IF v \div Span(L) = w \div Span(L) /\ l = L - 1 THEN a
                       ELSE TableAt(T, v, l)

SameTables(T, U) == \A v \in Virt, l \in 1 .. 4 : TableAt(U, v, l) = TableAt(T, v, l)

\* An entry of T's tables that is huge in U was huge in T.
NoNewHuge(T, U) ==
  \A f \in DOMAIN T, j \in 0 .. Radix - 1 : U[f][j].kind = "huge" => T[f][j].kind = "huge"

\* U is T with a new table a under w's entry at level L.
TableBuilt(T, U, w, L, a) ==
  /\ DOMAIN U = DOMAIN T \cup {a} /\ IsTree(U)
  /\ OneMore(T, U, w, L, a) /\ NoNewHuge(T, U)
  /\ TableAt(U, w, L - 1) = a
  /\ \A v \in Virt : VirtToPhys(U, v) = VirtToPhys(T, v)

\* U is T with the page of w mapped to frame a.
PageSet(T, U, w, a) ==
  /\ DOMAIN U = DOMAIN T /\ IsTree(U)
  /\ SameTables(T, U) /\ NoNewHuge(T, U)
  /\ \A v \in Virt :
       IF v \div PageSize = w \div PageSize
       THEN VirtToPhys(T, v) = None /\ VirtToPhys(U, v) = a + (v % PageSize)
       ELSE VirtToPhys(U, v) = VirtToPhys(T, v)

\* create_next_table fills an unused entry with a new, zeroed table: one walk more
\* reaches a table, no other changes, and neither does any translation.
LEMMA NewTable ==
  ASSUME NEW T, IsTree(T), CR3 \in DOMAIN T, NEW w \in Virt, NEW L \in 2 .. 4,
         TableAt(T, w, L) # None, At(T, w, L).kind = "unused",
         NEW a \in Nat, a \notin DOMAIN T, NEW U,
         U = Zeroed([T EXCEPT ![TableAt(T, w, L)][Index(w, L)] = Maps(a)], a)
  PROVE  TableBuilt(T, U, w, L, a)
<1> DEFINE t == TableAt(T, w, L)
           i == Index(w, L)
           W == [T EXCEPT ![t][i] = Maps(a)]
           E == [kind : {"unused", "frame", "huge"}, addr : Nat]
           In(v) == v \div Span(L) = w \div Span(L)
<1>1. /\ L \in 1 .. 4 /\ L - 1 \in 1 .. 3 /\ L - 1 \in 1 .. 4 /\ (L - 1) + 1 = L /\ L - 1 # 4
      /\ a # None
  BY DEF None
<1>2. t \in DOMAIN T /\ i \in 0 .. Radix - 1 /\ Maps(a) \in E
  BY <1>1, TreeFacts, Prefix DEF Maps
<1>3. /\ DOMAIN W = DOMAIN T /\ W[t][i] = Maps(a)
      /\ \A f \in DOMAIN T, j \in 0 .. Radix - 1 : ~(f = t /\ j = i) => W[f][j] = T[f][j]
      /\ \A f \in DOMAIN T : f \in Nat /\ W[f] \in [0 .. Radix - 1 -> E]
  BY <1>2, WriteEntry
<1> HIDE DEF W
<1>4. DOMAIN U = DOMAIN T \cup {a} /\ U[a] = EmptyTable /\ \A f \in DOMAIN T : U[f] = W[f]
  <2>1. U = Zeroed(W, a)
    BY DEF W
  <2> QED BY <1>3, <2>1 DEF Zeroed
<1>5. EmptyTable \in [0 .. Radix - 1 -> E] /\ \A j \in 0 .. Radix - 1 : EmptyTable[j].kind = "unused"
  BY DEF EmptyTable, Unused
<1>6. \A f \in DOMAIN U : f \in Nat /\ U[f] \in [0 .. Radix - 1 -> E]
  BY <1>3, <1>4, <1>5
<1>7. CR3 \in DOMAIN U
  BY <1>4
<1>8. ASSUME NEW v \in Virt
      PROVE  /\ \A l \in 1 .. 4 : l >= L => TableAt(U, v, l) = TableAt(T, v, l)
             /\ ~In(v) => \A l \in 1 .. 4 : SameAt(T, U, v, l)
  <2>1. SameBut(T, U, TableAt(T, w, L), Index(w, L))
    BY <1>3, <1>4 DEF SameBut
  <2>2. L \in 1 .. 4 /\ TableAt(T, w, L) # None
    BY <1>1
  <2>3. Spared(T, U, v, w, L)
    BY <2>1, <2>2, WriteElsewhere
  <2> QED BY <2>3, Zenon DEF Spared
<1>9. ASSUME NEW S, NEW v, NEW l \in 1 .. 3, TableAt(S, v, l + 1) = None
      PROVE  TableAt(S, v, l) = None
  BY <1>9, TableStep DEF NextTable
<1>10. ASSUME NEW v \in Virt, In(v)
       PROVE  /\ TableAt(T, v, L) = t /\ Index(v, L) = i
              /\ TableAt(U, v, L - 1) = a /\ TableAt(T, v, L - 1) = None
  <2>1. Above(v, L) = Above(w, L) /\ Index(v, L) = i
    BY <1>1, <1>10, SamePrefix
  <2>2. TableAt(T, v, L) = t
    BY <1>1, <2>1, SamePath
  <2>3. TableAt(U, v, L) = t
    <3>1. L >= L
      OBVIOUS
    <3> QED BY <1>1, <1>8, <2>2, <3>1, Zenon
  <2>4. /\ TableAt(U, v, L - 1) = NextTable(U, t, v, L)
        /\ TableAt(T, v, L - 1) = NextTable(T, t, v, L)
    BY <1>1, <2>2, <2>3, TableStep
  <2>5. U[t][Index(v, L)] = Maps(a) /\ T[t][Index(v, L)].kind = "unused"
    BY <1>2, <1>3, <1>4, <2>1 DEF At
  <2> HIDE DEF t
  <2> QED BY <2>1, <2>2, <2>4, <2>5 DEF NextTable, Maps, t
<1>11. ASSUME NEW v \in Virt, In(v), NEW l \in 1 .. 4, l < L - 1
       PROVE  TableAt(U, v, l) = None /\ TableAt(T, v, l) = None
  <2>1. L - 2 \in 1 .. 3 /\ (L - 2) + 1 = L - 1 /\ (l = L - 2 \/ (l = L - 3 /\ L - 3 \in 1 .. 3 /\ (L - 3) + 1 = L - 2))
    BY <1>11
  <2>2. Index(v, L - 1) \in 0 .. Radix - 1
    BY <1>1, Prefix
  <2>3. U[a][Index(v, L - 1)].kind = "unused"
    BY <1>4, <1>5, <2>2
  <2>4. TableAt(U, v, L - 2) = NextTable(U, a, v, L - 1)
    <3>1. TableAt(U, v, L - 1) = a
      BY <1>10, <1>11, Zenon
    <3>2. TableAt(U, v, L - 2) = NextTable(U, TableAt(U, v, (L - 2) + 1), v, (L - 2) + 1)
      BY <2>1, TableStep, Zenon
    <3> QED BY <2>1, <3>1, <3>2, Zenon
  <2>5. TableAt(U, v, L - 2) = None
    BY <2>3, <2>4 DEF NextTable
  <2>6. TableAt(T, v, L - 2) = None
    BY <1>9, <1>10, <1>11, <2>1
  <2>7. ASSUME l = L - 3 PROVE TableAt(U, v, L - 3) = None /\ TableAt(T, v, L - 3) = None
    <3>1. L - 3 \in 1 .. 3 /\ (L - 3) + 1 = L - 2
      BY <2>1, <2>7
    <3> QED BY <1>9, <2>5, <2>6, <3>1
  <2> QED BY <2>1, <2>5, <2>6, <2>7
<1>12. ASSUME NEW v \in Virt, NEW l \in 1 .. 4
       PROVE  TableAt(U, v, l) = IF In(v) /\ l = L - 1 THEN a ELSE TableAt(T, v, l)
  <2>1. l >= L \/ l = L - 1 \/ l < L - 1
    OBVIOUS
  <2> HIDE DEF In
  <2> QED BY <1>8, <1>10, <1>11, <2>1 DEF SameAt
<1>13. \A v \in Virt, l \in 1 .. 4 : TableAt(U, v, l) \in DOMAIN U \cup {None}
  <2>1. \A v \in Virt, l \in 1 .. 4 : TableAt(T, v, l) \in DOMAIN T \cup {None}
    BY DEF IsTree
  <2> QED BY <1>4, <1>12, <2>1
<1>14. ASSUME NEW v \in Virt, NEW u \in Virt, NEW k \in 1 .. 4, NEW l \in 1 .. 4
       PROVE  SameWay(U, v, u, k, l)
  <2> SUFFICES ASSUME TableAt(U, v, k) # None, TableAt(U, v, k) = TableAt(U, u, l)
               PROVE  k = l /\ Above(v, k) = Above(u, k)
    BY DEF SameWay
  <2>1. /\ TableAt(T, v, k) \in DOMAIN T \cup {None} /\ TableAt(T, u, l) \in DOMAIN T \cup {None}
        /\ TableAt(T, v, k) # a /\ TableAt(T, u, l) # a
    BY <1>1, TreeFacts
  <2>2. CASE In(v) /\ k = L - 1
    <3>1. TableAt(U, v, k) = a
      BY <1>12, <2>2
    <3>2. In(u) /\ l = L - 1
      BY <1>12, <2>1, <3>1
    <3>3. Above(v, L - 1) = v \div Span(L) /\ Above(u, L - 1) = u \div Span(L)
      BY <1>1 DEF Above
    <3> QED BY <2>2, <3>2, <3>3
  <2>3. CASE ~(In(v) /\ k = L - 1)
    <3>1. TableAt(U, v, k) = TableAt(T, v, k)
      BY <1>12, <2>3
    <3>2. TableAt(U, u, l) = TableAt(T, u, l)
      BY <1>12, <2>1, <3>1
    <3>3. TableAt(T, v, k) # None /\ TableAt(T, v, k) = TableAt(T, u, l)
      BY <3>1, <3>2
    <3>4. OneWay(T)
      BY Zenon DEF IsTree, OneWay, SameWay
    <3> QED BY <3>3, <3>4 DEF OneWay, SameWay
  <2> QED BY <2>2, <2>3
<1>15. IsTree(U)
  <2>1. OneWay(U)
    BY <1>14, Zenon DEF OneWay
  <2> QED BY <1>6, <1>13, <2>1, Zenon DEF IsTree, OneWay, SameWay
<1>16. ASSUME NEW v \in Virt PROVE VirtToPhys(U, v) = VirtToPhys(T, v)
  <2>1. CASE ~In(v)
    BY <1>7, <1>8, <1>15, <2>1, Agree
  <2>2. CASE In(v)
    <3>1. TableAt(T, v, L) # None /\ At(T, v, L).kind = "unused"
      BY <1>10, <2>2 DEF At
    <3>2. VirtToPhys(T, v) = None
      BY <1>1, <3>1, NoneBelow
    <3>3. Index(v, L - 1) \in 0 .. Radix - 1
      BY <1>1, Prefix
    <3>4. TableAt(U, v, L - 1) # None /\ At(U, v, L - 1).kind = "unused"
      BY <1>1, <1>4, <1>5, <1>10, <2>2, <3>3 DEF At
    <3>5. VirtToPhys(U, v) = None
      BY <1>1, <1>7, <1>15, <3>4, NoneBelow
    <3> QED BY <3>2, <3>5
  <2> QED BY <2>1, <2>2
<1>17. OneMore(T, U, w, L, a)
  BY <1>12, Zenon DEF OneMore
<1>18. NoNewHuge(T, U)
  <2>1. Maps(a).kind # "huge"
    BY DEF Maps
  <2> HIDE DEF t, i, E
  <2>2. ASSUME NEW f \in DOMAIN T, NEW j \in 0 .. Radix - 1, U[f][j].kind = "huge"
        PROVE  T[f][j].kind = "huge"
    <3>1. U[f] = W[f]
      BY <1>4
    <3>2. CASE f = t /\ j = i
      BY <1>3, <2>1, <2>2, <3>1, <3>2
    <3>3. CASE ~(f = t /\ j = i)
      BY <1>3, <2>2, <3>1, <3>3
    <3> QED BY <3>2, <3>3
  <2> QED BY <2>2 DEF NoNewHuge
<1> QED BY <1>4, <1>10, <1>15, <1>16, <1>17, <1>18 DEF TableBuilt

\* map_to's last write: the page of w, which had no translation, gets one, and no
\* other address is affected.
LEMMA NewPage ==
  ASSUME NEW T, IsTree(T), CR3 \in DOMAIN T, NEW w \in Virt,
         TableAt(T, w, 1) # None, At(T, w, 1).kind = "unused",
         NEW a \in Nat, NEW U,
         U = [T EXCEPT ![TableAt(T, w, 1)][Index(w, 1)] = Maps(a)]
  PROVE  PageSet(T, U, w, a)
<1> DEFINE t == TableAt(T, w, 1)
           i == Index(w, 1)
           E == [kind : {"unused", "frame", "huge"}, addr : Nat]
           In(v) == v \div PageSize = w \div PageSize
<1>1. 1 \in 1 .. 4 /\ Span(1) = PageSize
  BY Spans
<1>2. t \in DOMAIN T /\ i \in 0 .. Radix - 1 /\ Maps(a) \in E
  BY <1>1, TreeFacts, Prefix DEF Maps
<1>3. /\ DOMAIN U = DOMAIN T /\ U[t][i] = Maps(a)
      /\ \A f \in DOMAIN T, j \in 0 .. Radix - 1 : ~(f = t /\ j = i) => U[f][j] = T[f][j]
      /\ \A f \in DOMAIN T : f \in Nat /\ U[f] \in [0 .. Radix - 1 -> E]
  BY <1>2, WriteEntry
<1>4. CR3 \in DOMAIN U
  BY <1>3
<1>5. ASSUME NEW v \in Virt
      PROVE  /\ \A l \in 1 .. 4 : TableAt(U, v, l) = TableAt(T, v, l)
             /\ ~In(v) => \A l \in 1 .. 4 : SameAt(T, U, v, l)
  <2>1. SameBut(T, U, TableAt(T, w, 1), Index(w, 1))
    BY <1>3 DEF SameBut
  <2>2. Spared(T, U, v, w, 1)
    BY <1>1, <2>1, WriteElsewhere
  <2>3. \A l \in 1 .. 4 : l >= 1
    OBVIOUS
  <2> QED BY <1>1, <2>2, <2>3 DEF Spared
<1>6. IsTree(U)
  <2>1. \A v \in Virt, l \in 1 .. 4 : TableAt(U, v, l) \in DOMAIN U \cup {None}
    BY <1>3, <1>5, Zenon DEF IsTree
  <2>2. OneWay(T)
    BY Zenon DEF IsTree, OneWay, SameWay
  <2>3. OneWay(U)
    BY <1>5, <2>2 DEF OneWay, SameWay
  <2> QED BY <1>3, <2>1, <2>3, Zenon DEF IsTree, OneWay, SameWay
<1>7. ASSUME NEW v \in Virt, In(v)
      PROVE  VirtToPhys(T, v) = None /\ VirtToPhys(U, v) = a + (v % PageSize)
  <2>1. Above(v, 1) = Above(w, 1) /\ Index(v, 1) = i
    BY <1>1, <1>7, SamePrefix
  <2>2. TableAt(T, v, 1) = t /\ TableAt(U, v, 1) = t
    BY <1>1, <1>5, <2>1, SamePath
  <2>3. At(T, v, 1).kind = "unused" /\ At(U, v, 1) = Maps(a)
    BY <1>3, <2>1, <2>2 DEF At
  <2>4. VirtToPhys(T, v) = None
    BY <1>1, <2>2, <2>3, NoneBelow
  <2>5. At(U, v, 1).kind # "unused" /\ At(U, v, 1).addr = a
    BY <2>3 DEF Maps
  <2>6. VirtToPhys(U, v) = At(U, v, 1).addr + (v % PageSize)
    BY <1>4, <1>6, <2>2, <2>5, MappedAt
  <2> QED BY <2>4, <2>5, <2>6
<1>8. ASSUME NEW v \in Virt, ~In(v) PROVE VirtToPhys(U, v) = VirtToPhys(T, v)
  BY <1>4, <1>5, <1>6, <1>8, Agree
<1> HIDE DEF In
<1>9. \A v \in Virt : IF In(v) THEN VirtToPhys(T, v) = None /\ VirtToPhys(U, v) = a + (v % PageSize)
                      ELSE VirtToPhys(U, v) = VirtToPhys(T, v)
  BY <1>7, <1>8, Zenon
<1>10. SameTables(T, U)
  BY <1>5, Zenon DEF SameTables
<1>11. NoNewHuge(T, U)
  <2>1. Maps(a).kind # "huge"
    BY DEF Maps
  <2> QED BY <1>2, <1>3, <2>1 DEF NoNewHuge
<1> QED BY <1>3, <1>6, <1>9, <1>10, <1>11 DEF In, PageSet

-----------------------------------------------------------------------------
(* The inductive invariant.                                                *)

\* The allocator has handed out frame f of the list F by the time its counter is n.
Used(F, n, f) == \E j \in 1 .. Len(F) : j <= n /\ f = F[j] /\ f >= MinAddr

\* A frame that init_heap has allocated and has put to no use yet.
Held(f) ==
  /\ Used(usable_frames, next, f)
  /\ f \notin DOMAIN tables
  /\ \A b \in HeapBases : VirtToPhys(tables, b) # f

MTypes ==
  /\ memory_regions \in MemoryMaps /\ boot \in BootTables
  /\ next \in Nat /\ page \in 0 .. HeapPages /\ level \in 0 .. 4
  /\ pc \in {"skip", "frame", "walk", "set", "init", "done"}
  /\ frame \in Nat \cup {None}
  /\ result \in {"running", "ok", "FrameAllocationFailed", "PageAlreadyMapped",
                 "ParentEntryHugePage"}
  /\ heap \in BOOLEAN

\* Page tables stay a tree.
MTree ==
  /\ CR3 \in DOMAIN tables /\ IsTree(tables)
  /\ table \in DOMAIN tables

\* A table or a heap page is the bootloader's or in a frame handed out; the frames
\* still to come lie above MinAddr.
MFrames ==
  /\ \A f \in DOMAIN tables : f \in DOMAIN boot \/ Used(usable_frames, next, f)
  /\ \A b \in HeapBases : \/ VirtToPhys(tables, b) = VirtToPhys(boot, b)
                          \/ Used(usable_frames, next, VirtToPhys(tables, b))
  /\ pc = "skip" => next = 0
  /\ pc # "skip" /\ next < Len(usable_frames) => usable_frames[next + 1] >= MinAddr

\* The pages before the present one are mapped, each byte of them.
MHeap ==
  /\ \A p \in 0 .. page - 1, v \in Virt :
       v \div PageSize = (HEAP_START + p * PageSize) \div PageSize => VirtToPhys(tables, v) # None
  /\ pc \in {"skip", "frame", "walk", "set"} => page < HeapPages
  /\ pc = "init" \/ heap => page = HeapPages

\* map_to stands in the table that the walk for the page reaches.
MWalk ==
  pc \in {"walk", "set"} =>
    /\ Held(frame)
    /\ pc = "walk" => level \in 2 .. 4
    /\ pc = "set" => level = 1
    /\ table = TableAt(tables, PageAddr, level)

MInv == MTypes /\ MTree /\ MFrames /\ MHeap /\ MWalk

-----------------------------------------------------------------------------
(* The heap's pages and the allocator's frames.                            *)

\* The pages of the heap lie within the address space, on page boundaries.
LEMMA Base ==
  ASSUME NEW p \in 0 .. HeapPages - 1, NEW b, b = HEAP_START + p * PageSize
  PROVE  /\ b \in Virt /\ b \in Nat /\ b \in HeapBases
         /\ b % PageSize = 0 /\ b \div PageSize = (HEAP_START \div PageSize) + p
<1> DEFINE q == HEAP_START \div PageSize
           N == Span(4) * Radix
<1>1. /\ PageSize \in Nat \ {0} /\ HeapPages \in Nat \ {0} /\ HEAP_START \in Nat /\ p \in Nat
      /\ HEAP_START % PageSize = 0
  BY MemoryAssumption
<1>2. q \in Nat /\ HEAP_START = q * PageSize + (HEAP_START % PageSize)
  BY <1>1, DivFacts
<1> HIDE DEF q
<1>3. q \in Nat /\ HEAP_START = q * PageSize
  BY <1>1, <1>2
<1>4. b = (q + p) * PageSize + 0 /\ q + p \in Int /\ 0 \in 0 .. PageSize - 1 /\ b \in Nat
  BY <1>1, <1>3
<1>5. b \div PageSize = q + p /\ b % PageSize = 0
  <2> DEFINE k == q + p
  <2>1. k \in Int /\ 0 \in 0 .. PageSize - 1 /\ b = k * PageSize + 0
    BY <1>4
  <2> HIDE DEF k
  <2>2. (k * PageSize + 0) \div PageSize = k /\ (k * PageSize + 0) % PageSize = 0
    BY <1>1, <2>1, DivOnly
  <2>3. b \div PageSize = k /\ b % PageSize = 0
    BY <2>1, <2>2, Zenon
  <2> QED BY <2>3 DEF k
<1>6. N \in Nat /\ HEAP_START + HeapPages * PageSize <= N
  <2>1. Span(4) \in Nat /\ Radix \in Nat
    BY Spans
  <2>2. N \in Nat
    BY <2>1
  <2> QED BY <2>2, MemoryAssumption
<1> HIDE DEF N
<1>7. b < N
  <2>1. (p + 1) * PageSize <= HeapPages * PageSize
    <3>1. p + 1 <= HeapPages /\ p + 1 \in Int /\ HeapPages \in Int /\ PageSize \in Nat
      BY <1>1
    <3> QED BY <3>1, TimesMono
  <2>2. (p + 1) * PageSize = p * PageSize + PageSize /\ p * PageSize \in Int /\ HeapPages * PageSize \in Int
    BY <1>1
  <2> QED BY <1>1, <1>4, <1>6, <2>1, <2>2
<1>8. b \in Virt
  BY <1>4, <1>6, <1>7 DEF Virt, N
<1>9. b \in HeapBases
  BY DEF HeapBases
<1> QED BY <1>4, <1>5, <1>8, <1>9 DEF q

\* The bytes of the page that starts at b.
LEMMA InPage ==
  ASSUME NEW b \in Nat, b % PageSize = 0, NEW v \in Nat
  PROVE  /\ v \div PageSize = b \div PageSize <=> v \in b .. b + PageSize - 1
         /\ v \div PageSize = b \div PageSize => v % PageSize = v - b
<1> DEFINE d == PageSize
           q == b \div d
           k == v \div d
           r == v % d
<1>1. d \in Nat \ {0}
  BY MemoryAssumption
<1> HIDE DEF d
<1>2. q \in Nat /\ b = q * d + (b % d) /\ b % d = 0
  BY <1>1, DivFacts DEF d
<1>3. k \in Nat /\ r \in 0 .. d - 1 /\ v = k * d + r
  BY <1>1, DivFacts
<1> HIDE DEF q, k, r
<1>4. b = q * d
  BY <1>1, <1>2
<1>5. ASSUME k = q PROVE v \in b .. b + d - 1 /\ r = v - b
  BY <1>1, <1>2, <1>3, <1>4, <1>5
<1>6. ASSUME v \in b .. b + d - 1 PROVE k = q
  <2>1. v = q * d + (v - b) /\ v - b \in 0 .. d - 1
    BY <1>1, <1>2, <1>4, <1>6
  <2> DEFINE o == v - b
  <2> HIDE DEF o
  <2>2. v = q * d + o /\ o \in 0 .. d - 1 /\ q \in Int
    BY <1>2, <2>1 DEF o
  <2>3. (q * d + o) \div d = q
    BY <1>1, <2>2, DivOnly
  <2> QED BY <2>2, <2>3 DEF k
<1> QED BY <1>5, <1>6 DEF d, q, k, r

\* The inclusive page range ends at the heap's last page.
LEMMA LastPageIs == LastPage = HeapPages - 1
<1> DEFINE d == PageSize
           h == HeapPages
<1>1. d \in Nat \ {0} /\ h \in Nat \ {0}
  BY MemoryAssumption
<1> HIDE DEF d, h
<1>2. h * d - 1 = (h - 1) * d + (d - 1) /\ h - 1 \in Int /\ d - 1 \in 0 .. d - 1
  BY <1>1
<1>3. ((h - 1) * d + (d - 1)) \div d = h - 1
  BY <1>1, <1>2, DivOnly
<1>4. LastPage = (h * d - 1) \div d
  BY DEF LastPage, h, d
<1> QED BY <1>2, <1>3, <1>4 DEF h

\* Every byte of the heap lies in one of its pages.
LEMMA HeapByte ==
  ASSUME NEW v \in HeapBytes
  PROVE  /\ v \in Virt
         /\ \E p \in 0 .. HeapPages - 1 : v \div PageSize = (HEAP_START + p * PageSize) \div PageSize
<1> DEFINE d == PageSize
           h == HeapPages
           s == HEAP_START
           N == Span(4) * Radix
           x == v - s
           p == x \div d
           r == x % d
           b == s + p * d
<1>1. d \in Nat \ {0} /\ h \in Nat \ {0} /\ s \in Nat /\ N \in Nat /\ s + h * d <= N
  <2>1. Span(4) \in Nat /\ Radix \in Nat
    BY Spans
  <2>2. N \in Nat
    BY <2>1
  <2> QED BY <2>2, MemoryAssumption
<1>2. v \in s .. s + h * d - 1
  BY DEF HeapBytes
<1>3. v \in Virt
  <2>1. Virt = 0 .. N - 1
    BY DEF Virt
  <2> HIDE DEF d, h, s, N
  <2>2. h * d \in Nat
    BY <1>1
  <2> QED BY <1>1, <1>2, <2>1, <2>2
<1> HIDE DEF d, h, s, N
<1>4. h * d \in Nat /\ x \in Nat /\ x < h * d /\ v \in Nat /\ v = s + x
  <2>1. h * d \in Nat
    BY <1>1
  <2> QED BY <1>1, <1>2, <2>1
<1> HIDE DEF x
<1>5. p \in Nat /\ r \in 0 .. d - 1 /\ x = p * d + r
  BY <1>1, <1>4, DivFacts
<1> HIDE DEF p, r
<1>6. p < h
  <2> SUFFICES ASSUME h <= p PROVE FALSE
    BY <1>1, <1>5
  <2>1. h * d <= p * d
    BY <1>1, <1>5, TimesMono
  <2>2. p * d \in Int
    BY <1>1, <1>5
  <2> QED BY <1>1, <1>4, <1>5, <2>1, <2>2
<1>7. p \in 0 .. h - 1
  BY <1>1, <1>5, <1>6
<1>8. b \in Nat /\ b % PageSize = 0
  BY <1>7, Base DEF h, d, s
<1>9. v \in b .. b + d - 1
  <2>1. p * d \in Int
    BY <1>1, <1>5
  <2> QED BY <1>1, <1>4, <1>5, <2>1
<1>10. v \div d = b \div d
  BY <1>4, <1>8, <1>9, InPage DEF d
<1> QED BY <1>3, <1>7, <1>10 DEF h, d, s

\* The frames of a memory map.
LEMMA MapFrames ==
  ASSUME NEW m \in MemoryMaps, NEW F, F = UsableFrames(m)
  PROVE  /\ F \in Seq(Nat) /\ Len(F) \in Nat
         /\ \A i \in 1 .. Len(F) : F[i] \in Nat /\ F[i] \in ToSet(F)
         /\ \A i, j \in 1 .. Len(F) : i < j => F[i] < F[j]
         /\ \A T \in BootTables :
              /\ \A f \in DOMAIN T : f \notin ToSet(F)
              /\ \A b \in HeapBases : VirtToPhys(T, b) \notin ToSet(F)
<1>1. /\ F \in Seq(Nat)
      /\ \A i, j \in 1 .. Len(F) : i < j => F[i] < F[j]
      /\ \A T \in BootTables :
           /\ DOMAIN T \cap ToSet(F) = {}
           /\ \A b \in HeapBases : VirtToPhys(T, b) \notin ToSet(F)
  BY MemoryAssumption, Zenon
<1> HIDE DEF UsableFrames
<1>2. Len(F) \in Nat /\ \A i \in 1 .. Len(F) : F[i] \in Nat
  BY <1>1
<1>3. \A i \in 1 .. Len(F) : F[i] \in ToSet(F)
  BY <1>1 DEF ToSet
<1> QED BY <1>1, <1>2, <1>3

\* What the allocator hands out next is a frame of its own.
LEMMA Fresh ==
  ASSUME NEW m \in MemoryMaps, NEW F, F = UsableFrames(m), NEW n \in Nat
  PROVE  /\ \A f : Used(F, n, f) => f \in Nat /\ f \in ToSet(F) /\ f >= MinAddr
         /\ \A f, k : k \in Nat /\ n <= k /\ Used(F, n, f) => Used(F, k, f)
         /\ n < Len(F) /\ F[n + 1] >= MinAddr =>
              /\ F[n + 1] \in Nat /\ F[n + 1] \in ToSet(F)
              /\ Used(F, n + 1, F[n + 1]) /\ ~Used(F, n, F[n + 1])
              /\ n + 1 < Len(F) => F[n + 2] >= MinAddr
<1>1. /\ Len(F) \in Nat
      /\ \A i \in 1 .. Len(F) : F[i] \in Nat /\ F[i] \in ToSet(F)
      /\ \A i, j \in 1 .. Len(F) : i < j => F[i] < F[j]
  BY MapFrames
<1>2. MinAddr \in Nat
  BY MemoryAssumption
<1> DEFINE M == MinAddr
           len == Len(F)
<1> HIDE DEF M, len
<1>3. \A f : Used(F, n, f) => f \in Nat /\ f \in ToSet(F) /\ f >= MinAddr
  BY <1>1 DEF Used
<1>4. \A f, k : k \in Nat /\ n <= k /\ Used(F, n, f) => Used(F, k, f)
  BY <1>1 DEF Used
<1>5. ASSUME n < Len(F), F[n + 1] >= MinAddr
      PROVE  /\ F[n + 1] \in Nat /\ F[n + 1] \in ToSet(F)
             /\ Used(F, n + 1, F[n + 1]) /\ ~Used(F, n, F[n + 1])
             /\ n + 1 < Len(F) => F[n + 2] >= MinAddr
  <2>1. n + 1 \in 1 .. Len(F)
    BY <1>1, <1>5
  <2>2. Used(F, n + 1, F[n + 1])
    BY <1>5, <2>1 DEF Used
  <2>3. ~Used(F, n, F[n + 1])
    <3> SUFFICES ASSUME NEW j \in 1 .. Len(F), j <= n, F[n + 1] = F[j] PROVE FALSE
      BY DEF Used
    <3>1. j < n + 1 /\ F[j] < F[n + 1]
      BY <1>1, <2>1
    <3> QED BY <1>1, <2>1, <3>1
  <2>4. ASSUME n + 1 < Len(F) PROVE F[n + 2] >= MinAddr
    <3>1. n + 2 \in 1 .. Len(F) /\ n + 1 < n + 2
      BY <1>1, <2>4
    <3>2. F[n + 1] < F[n + 2] /\ F[n + 1] \in Nat /\ F[n + 2] \in Nat
      BY <1>1, <2>1, <3>1
    <3> QED BY <1>2, <1>5, <3>2
  <2> QED BY <1>1, <2>1, <2>2, <2>3, <2>4
<1> QED BY <1>3, <1>4, <1>5

\* Heap pages start within the address space, on page boundaries.
LEMMA Bases == \A b \in HeapBases : b \in Virt /\ b \in Nat /\ b % PageSize = 0
BY Base DEF HeapBases

-----------------------------------------------------------------------------
(* The steps that touch page tables.                                       *)

\* allocate_frame returns a frame that serves nothing yet.
LEMMA NextFrame ==
  ASSUME MInv, pc # "skip", Allocated # None
  PROVE  /\ next < Len(usable_frames) /\ Allocated \in Nat /\ Allocated \in ToSet(usable_frames)
         /\ Used(usable_frames, next + 1, Allocated) /\ ~Used(usable_frames, next, Allocated)
         /\ Allocated \notin DOMAIN tables
         /\ \A b \in HeapBases : VirtToPhys(tables, b) # Allocated
         /\ next + 1 < Len(usable_frames) => usable_frames[next + 2] >= MinAddr
<1> DEFINE F == usable_frames
<1>1. F = UsableFrames(memory_regions) /\ memory_regions \in MemoryMaps /\ next \in Nat
  BY DEF MInv, MTypes, usable_frames
<1>2. next < Len(F) /\ Allocated = F[next + 1]
  BY DEF Allocated
<1>3. F[next + 1] >= MinAddr
  BY <1>2 DEF MInv, MFrames
<1> HIDE DEF F
<1>4. /\ F[next + 1] \in Nat /\ F[next + 1] \in ToSet(F)
      /\ Used(F, next + 1, F[next + 1]) /\ ~Used(F, next, F[next + 1])
      /\ next + 1 < Len(F) => F[next + 2] >= MinAddr
  BY <1>1, <1>2, <1>3, Fresh
<1>5. /\ boot \in BootTables
      /\ \A f \in DOMAIN tables : f \in DOMAIN boot \/ Used(F, next, f)
      /\ \A b \in HeapBases : \/ VirtToPhys(tables, b) = VirtToPhys(boot, b)
                              \/ Used(F, next, VirtToPhys(tables, b))
  BY DEF MInv, MTypes, MFrames, F
<1>6. /\ \A f \in DOMAIN boot : f \notin ToSet(F)
      /\ \A b \in HeapBases : VirtToPhys(boot, b) \notin ToSet(F)
  BY <1>1, <1>5, MapFrames
<1>7. F[next + 1] \notin DOMAIN tables /\ \A b \in HeapBases : VirtToPhys(tables, b) # F[next + 1]
  BY <1>4, <1>5, <1>6
<1> QED BY <1>2, <1>4, <1>7 DEF F

\* Where map_to stands.
LEMMA Standing ==
  ASSUME MInv, pc \in {"walk", "set"}
  PROVE  /\ PageAddr \in Virt /\ PageAddr \in HeapBases /\ PageAddr \in Nat /\ PageAddr % PageSize = 0
         /\ page \in 0 .. HeapPages - 1
         /\ level \in 1 .. 4 /\ (pc = "walk" => level \in 2 .. 4) /\ (pc = "set" => level = 1)
         /\ table = TableAt(tables, PageAddr, level) /\ table # None
         /\ Entry = At(tables, PageAddr, level)
         /\ IsTree(tables) /\ CR3 \in DOMAIN tables /\ frame \in Nat
<1>1. page \in 0 .. HeapPages - 1
  <2>1. page \in 0 .. HeapPages /\ page < HeapPages /\ HeapPages \in Nat
    BY MemoryAssumption DEF MInv, MTypes, MHeap
  <2> QED BY <2>1
<1>2. PageAddr \in Virt /\ PageAddr \in HeapBases /\ PageAddr \in Nat /\ PageAddr % PageSize = 0
  BY <1>1, Base DEF PageAddr
<1>3. /\ (pc = "walk" => level \in 2 .. 4) /\ (pc = "set" => level = 1)
      /\ table = TableAt(tables, PageAddr, level)
      /\ Used(usable_frames, next, frame)
  BY DEF MInv, MWalk, Held
<1>4. IsTree(tables) /\ CR3 \in DOMAIN tables /\ table \in DOMAIN tables
  BY DEF MInv, MTree
<1>5. table # None
  BY <1>4 DEF IsTree, None
<1>6. level \in 1 .. 4
  BY <1>3
<1>7. frame \in Nat
  <2>1. memory_regions \in MemoryMaps /\ next \in Nat
    BY DEF MInv, MTypes
  <2> QED BY <1>3, <2>1, Fresh DEF usable_frames
<1>8. Entry = At(tables, PageAddr, level)
  BY <1>3 DEF Entry, At
<1> QED BY <1>1, <1>2, <1>3, <1>4, <1>5, <1>6, <1>7, <1>8

\* create_next_table's write, in the state where it happens.
LEMMA TableAdded ==
  ASSUME MInv, pc = "walk", Entry.kind = "unused", Allocated # None,
         tables' = Zeroed([tables EXCEPT ![table][Index(PageAddr, level)] = Maps(Allocated)],
                          Allocated)
  PROVE  TableBuilt(tables, tables', PageAddr, level, Allocated)
<1> DEFINE w == PageAddr
           a == Allocated
           T == tables
           U == tables'
<1>1. /\ w \in Virt /\ level \in 2 .. 4 /\ table = TableAt(T, w, level) /\ table # None
      /\ Entry = At(T, w, level) /\ IsTree(T) /\ CR3 \in DOMAIN T
  BY Standing
<1>2. a \in Nat /\ a \notin DOMAIN T
  BY NextFrame
<1>3. At(T, w, level).kind = "unused" /\ TableAt(T, w, level) # None
  BY <1>1
<1>4. U = Zeroed([T EXCEPT ![TableAt(T, w, level)][Index(w, level)] = Maps(a)], a)
  BY <1>1
<1> HIDE DEF w, a, T, U
<1>5. TableBuilt(T, U, w, level, a)
  BY <1>1, <1>2, <1>3, <1>4, NewTable
<1> QED BY <1>5 DEF w, a, T, U

\* map_to's last write, in the state where it happens.
LEMMA PageMapped ==
  ASSUME MInv, pc = "set", Entry.kind = "unused",
         tables' = [tables EXCEPT ![table][Index(PageAddr, level)] = Maps(frame)]
  PROVE  PageSet(tables, tables', PageAddr, frame)
<1> DEFINE w == PageAddr
           T == tables
           U == tables'
<1>1. /\ w \in Virt /\ level = 1 /\ table = TableAt(T, w, 1) /\ table # None
      /\ Entry = At(T, w, 1) /\ IsTree(T) /\ CR3 \in DOMAIN T /\ frame \in Nat
  BY Standing
<1>2. At(T, w, 1).kind = "unused" /\ TableAt(T, w, 1) # None
  BY <1>1
<1>3. U = [T EXCEPT ![TableAt(T, w, 1)][Index(w, 1)] = Maps(frame)]
  BY <1>1
<1> HIDE DEF w, T, U
<1>4. PageSet(T, U, w, frame)
  BY <1>1, <1>2, <1>3, NewPage
<1> QED BY <1>4 DEF w, T, U

-----------------------------------------------------------------------------
(* The invariant holds.                                                    *)

\* What the bootloader leaves satisfies the invariant.
LEMMA MInvInit ==
  ASSUME Init
  PROVE  MInv
<1>1. HeapPages \in Nat \ {0} /\ CR3 \in DOMAIN tables /\ IsTree(tables)
  BY MemoryAssumption DEF Init
<1>2. MTypes
  <2>1. memory_regions \in MemoryMaps /\ boot \in BootTables /\ heap \in BOOLEAN
    BY Zenon DEF Init
  <2>2. 0 \in Nat /\ 0 \in 0 .. HeapPages /\ 0 \in 0 .. 4
    BY <1>1
  <2> QED BY <2>1, <2>2, Zenon DEF Init, MTypes
<1>3. MTree
  BY <1>1 DEF Init, MTree
<1>4. MFrames
  BY DEF Init, MFrames
<1>5. MHeap
  BY <1>1 DEF Init, MHeap
<1>6. MWalk
  BY DEF Init, MWalk
<1> QED BY <1>2, <1>3, <1>4, <1>5, <1>6 DEF MInv

\* The allocator's counter never goes back, and frames stay handed out.
LEMMA StaysUsed ==
  ASSUME MInv, memory_regions' = memory_regions, next' \in Nat, next <= next'
  PROVE  /\ usable_frames' = usable_frames
         /\ \A f : Used(usable_frames, next, f) => Used(usable_frames, next', f)
<1>1. memory_regions \in MemoryMaps /\ next \in Nat
  BY DEF MInv, MTypes
<1> QED BY <1>1, Fresh DEF usable_frames

\* The allocator after a request, whether it was met or not.
LEMMA AfterRequest ==
  ASSUME MInv, pc # "skip", memory_regions' = memory_regions, next' = Advanced
  PROVE  /\ next' \in Nat /\ next <= next' /\ next' = next + 1
         /\ next' < Len(usable_frames) => usable_frames[next' + 1] >= MinAddr
<1>1. memory_regions \in MemoryMaps /\ next \in Nat
  BY DEF MInv, MTypes
<1>2. next' = next + 1 /\ next' + 1 = next + 2
  BY <1>1 DEF Advanced
<1>3. ASSUME next + 1 < Len(usable_frames)
      PROVE  Allocated # None
  <2> DEFINE F == usable_frames
  <2>1. Len(F) \in Nat /\ \A i \in 1 .. Len(F) : F[i] \in Nat
    BY <1>1, MapFrames DEF usable_frames
  <2>2. next < Len(F) /\ next + 1 \in 1 .. Len(F)
    BY <1>1, <1>3, <2>1
  <2> QED BY <2>1, <2>2 DEF Allocated, None
<1>4. next + 1 < Len(usable_frames) => usable_frames[next + 2] >= MinAddr
  BY <1>3, NextFrame
<1> QED BY <1>1, <1>2, <1>4

\* init_heap returns an error: nothing but the allocator's counter has moved.
LEMMA AfterFail ==
  ASSUME MInv, pc # "skip", NEW error, Fail(error), UNCHANGED next \/ next' = Advanced,
         error \in {"FrameAllocationFailed", "PageAlreadyMapped", "ParentEntryHugePage"}
  PROVE  MInv'
<1>1. /\ pc' = "done" /\ result' = error /\ memory_regions' = memory_regions
      /\ UNCHANGED <<tables, boot, page, frame, level, table, heap>>
  BY DEF Fail
<1>2. /\ next' \in Nat /\ next <= next'
      /\ next' < Len(usable_frames) => usable_frames[next' + 1] >= MinAddr
  <2>1. CASE UNCHANGED next
    <3>1. next \in Nat
      BY DEF MInv, MTypes
    <3> QED BY <2>1, <3>1 DEF MInv, MFrames
  <2>2. CASE next' = Advanced
    BY <1>1, <2>2, AfterRequest
  <2> QED BY <2>1, <2>2
<1>3. /\ usable_frames' = usable_frames
      /\ \A f : Used(usable_frames, next, f) => Used(usable_frames, next', f)
  BY <1>1, <1>2, StaysUsed
<1>4. MTypes'
  BY <1>1, <1>2 DEF MInv, MTypes
<1>5. MTree'
  BY <1>1 DEF MInv, MTree
<1>6. MFrames'
  BY <1>1, <1>2, <1>3 DEF MInv, MFrames
<1>7. MHeap'
  BY <1>1 DEF MInv, MHeap
<1>8. MWalk'
  BY <1>1 DEF MWalk
<1> QED BY <1>4, <1>5, <1>6, <1>7, <1>8 DEF MInv

\* Skipping takes no frame.
LEMMA SkipBelowKeeps ==
  ASSUME MInv, SkipBelow
  PROVE  MInv'
<1>1. /\ pc = "skip" /\ pc' = "frame" /\ next = 0 /\ memory_regions' = memory_regions
      /\ UNCHANGED <<tables, boot, page, frame, level, table, result, heap>>
  BY DEF SkipBelow, MInv, MFrames
<1>2. next' \in 0 .. Len(usable_frames) /\ Skips(usable_frames, next')
  BY DEF SkipBelow
<1>3. Len(usable_frames) \in Nat
  <2>1. memory_regions \in MemoryMaps
    BY DEF MInv, MTypes
  <2> QED BY <2>1, MapFrames DEF usable_frames
<1>4. next' \in Nat /\ next <= next'
  BY <1>1, <1>2, <1>3
<1>5. /\ usable_frames' = usable_frames
      /\ \A f : Used(usable_frames, next, f) => Used(usable_frames, next', f)
  BY <1>1, <1>4, StaysUsed
<1>6. next' < Len(usable_frames) => usable_frames[next' + 1] >= MinAddr
  BY <1>2 DEF Skips
<1>7. MTypes'
  BY <1>1, <1>4 DEF MInv, MTypes
<1>8. MTree'
  BY <1>1 DEF MInv, MTree
<1>9. MFrames'
  BY <1>1, <1>5, <1>6 DEF MInv, MFrames
<1>10. MHeap'
  BY <1>1 DEF MInv, MHeap
<1>11. MWalk'
  BY <1>1 DEF MWalk
<1> QED BY <1>7, <1>8, <1>9, <1>10, <1>11 DEF MInv

\* The frame for a page is held for it.
LEMMA AllocatePageKeeps ==
  ASSUME MInv, AllocatePage
  PROVE  MInv'
<1>1. pc = "frame" /\ next' = Advanced
  BY DEF AllocatePage
<1>2. CASE Allocated = None /\ Fail("FrameAllocationFailed")
  BY <1>1, <1>2, AfterFail
<1>3. CASE /\ Allocated # None /\ frame' = Allocated
           /\ pc' = "walk" /\ level' = 4 /\ table' = CR3
           /\ UNCHANGED <<memory_regions, tables, boot, page, result, heap>>
  <2>1. /\ next' \in Nat /\ next <= next' /\ next' = next + 1
        /\ next' < Len(usable_frames) => usable_frames[next' + 1] >= MinAddr
    BY <1>1, <1>3, AfterRequest
  <2>2. /\ usable_frames' = usable_frames
        /\ \A f : Used(usable_frames, next, f) => Used(usable_frames, next', f)
    BY <1>3, <2>1, StaysUsed
  <2>3. /\ Allocated \in Nat /\ Used(usable_frames, next + 1, Allocated)
        /\ Allocated \notin DOMAIN tables
        /\ \A b \in HeapBases : VirtToPhys(tables, b) # Allocated
    BY <1>1, <1>3, NextFrame
  <2>4. MTypes'
    BY <1>3, <2>1, <2>3 DEF MInv, MTypes
  <2>5. MTree'
    BY <1>3 DEF MInv, MTree
  <2>6. MFrames'
    BY <1>1, <1>3, <2>1, <2>2 DEF MInv, MFrames
  <2>7. MHeap'
    BY <1>1, <1>3 DEF MInv, MHeap
  <2>8. MWalk'
    <3>1. Held(frame)'
      BY <1>3, <2>1, <2>2, <2>3 DEF Held
    <3>2. table' = TableAt(tables', PageAddr', level')
      BY <1>3, TableStep
    <3> QED BY <1>3, <3>1, <3>2 DEF MWalk
  <2> QED BY <2>4, <2>5, <2>6, <2>7, <2>8 DEF MInv
<1> QED BY <1>2, <1>3 DEF AllocatePage

\* Descending a level, through an old table or a new one.
LEMMA CreateNextTableKeeps ==
  ASSUME MInv, CreateNextTable
  PROVE  MInv'
<1>1. pc = "walk"
  BY DEF CreateNextTable
<1>2. /\ PageAddr \in Virt /\ page \in 0 .. HeapPages - 1 /\ level \in 2 .. 4 /\ level \in 1 .. 4
      /\ table = TableAt(tables, PageAddr, level) /\ table # None
      /\ Entry = At(tables, PageAddr, level)
      /\ IsTree(tables) /\ CR3 \in DOMAIN tables
  BY <1>1, Standing
<1>3. level - 1 \in 1 .. 3 /\ level - 1 \in 1 .. 4 /\ level - 1 \in 0 .. 4 /\ (level - 1) + 1 = level
      /\ (level # 2 => level - 1 \in 2 .. 4) /\ (level = 2 => level - 1 = 1)
  BY <1>2
<1>4. Held(frame) /\ frame \in Nat
  BY <1>1, Standing DEF MInv, MWalk
<1>5. CASE /\ Entry.kind = "unused" /\ Allocated # None /\ next' = Advanced
           /\ tables' = Zeroed([tables EXCEPT ![table][Index(PageAddr, level)] = Maps(Allocated)],
                               Allocated)
           /\ table' = Allocated /\ level' = level - 1
           /\ pc' = IF level = 2 THEN "set" ELSE "walk"
           /\ UNCHANGED <<memory_regions, boot, page, frame, result, heap>>
  <2>1. /\ next' \in Nat /\ next <= next' /\ next' = next + 1
        /\ next' < Len(usable_frames) => usable_frames[next' + 1] >= MinAddr
    BY <1>1, <1>5, AfterRequest
  <2>2. /\ usable_frames' = usable_frames
        /\ \A f : Used(usable_frames, next, f) => Used(usable_frames, next', f)
    BY <1>5, <2>1, StaysUsed
  <2>3. /\ Used(usable_frames, next + 1, Allocated) /\ ~Used(usable_frames, next, Allocated)
    BY <1>1, <1>5, NextFrame
  <2>4. TableBuilt(tables, tables', PageAddr, level, Allocated)
    BY <1>1, <1>5, TableAdded
  <2>5. /\ DOMAIN tables' = DOMAIN tables \cup {Allocated} /\ IsTree(tables')
        /\ TableAt(tables', PageAddr, level - 1) = Allocated
    BY <2>4 DEF TableBuilt
  <2>6. \A v \in Virt : VirtToPhys(tables', v) = VirtToPhys(tables, v)
    BY <2>4, Zenon DEF TableBuilt
  <2>7. \A b \in HeapBases : VirtToPhys(tables', b) = VirtToPhys(tables, b)
    BY <2>6, Bases, Zenon
  <2>8. pc' \in {"walk", "set"} /\ (pc' = "set" <=> level = 2)
    BY <1>5
  <2>9. MTypes'
    BY <1>3, <1>5, <2>1, <2>8 DEF MInv, MTypes
  <2>10. MTree'
    BY <1>2, <1>5, <2>5 DEF MTree
  <2>11. MFrames'
    <3>1. ASSUME NEW f \in DOMAIN tables' PROVE f \in DOMAIN boot' \/ Used(usable_frames', next', f)
      BY <1>5, <2>1, <2>2, <2>3, <2>5 DEF MInv, MFrames
    <3>2. ASSUME NEW b \in HeapBases
          PROVE  \/ VirtToPhys(tables', b) = VirtToPhys(boot', b)
                 \/ Used(usable_frames', next', VirtToPhys(tables', b))
      BY <1>5, <2>2, <2>7 DEF MInv, MFrames
    <3> QED BY <2>1, <2>2, <2>8, <3>1, <3>2 DEF MFrames
  <2>12. MHeap'
    <3>1. ASSUME NEW p \in 0 .. page - 1, NEW v \in Virt,
                 v \div PageSize = (HEAP_START + p * PageSize) \div PageSize
          PROVE  VirtToPhys(tables', v) # None
      BY <2>6, <3>1, Zenon DEF MInv, MHeap
    <3>2. page < HeapPages /\ (heap => page = HeapPages)
      BY <1>1 DEF MInv, MHeap
    <3>3. /\ pc' \in {"skip", "frame", "walk", "set"} => page' < HeapPages
          /\ pc' = "init" \/ heap' => page' = HeapPages
      BY <1>5, <2>8, <3>2
    <3>4. page' = page
      BY <1>5
    <3> QED BY <3>1, <3>3, <3>4, Zenon DEF MHeap
  <2>13. MWalk'
    <3>1. Held(frame)'
      BY <1>4, <1>5, <2>2, <2>3, <2>5, <2>7 DEF Held
    <3>2. PageAddr' = PageAddr
      BY <1>5 DEF PageAddr
    <3> QED BY <1>3, <1>5, <2>5, <2>8, <3>1, <3>2 DEF MWalk
  <2> QED BY <2>9, <2>10, <2>11, <2>12, <2>13 DEF MInv
<1>6. CASE /\ Entry.kind = "unused" /\ Allocated = None /\ next' = Advanced
           /\ Fail("FrameAllocationFailed")
  BY <1>1, <1>6, AfterFail
<1>7. CASE /\ Entry.kind = "frame" /\ table' = Entry.addr /\ level' = level - 1
           /\ pc' = IF level = 2 THEN "set" ELSE "walk"
           /\ UNCHANGED <<memory_regions, next, tables, boot, page, frame, result, heap>>
  <2>1. /\ At(tables, PageAddr, level).kind = "frame" /\ TableAt(tables, PageAddr, level) # None
        /\ table' = At(tables, PageAddr, level).addr
    BY <1>2, <1>7
  <2>2. TableAt(tables, PageAddr, level - 1) = table'
    BY <1>2, <1>3, <2>1, Down
  <2>3. table' # None
    BY <1>2, <2>1, TreeFacts
  <2>4. table' \in DOMAIN tables
    BY <1>2, <1>3, <2>2, <2>3, TreeFacts
  <2>5. pc' \in {"walk", "set"} /\ (pc' = "set" <=> level = 2)
    BY <1>7
  <2>6. usable_frames' = usable_frames /\ PageAddr' = PageAddr
    BY <1>7 DEF usable_frames, PageAddr
  <2>7. MTypes'
    BY <1>3, <1>7, <2>5 DEF MInv, MTypes
  <2>8. MTree'
    BY <1>7, <2>4 DEF MInv, MTree
  <2>9. MFrames'
    BY <1>1, <1>7, <2>5, <2>6 DEF MInv, MFrames
  <2>10. MHeap'
    BY <1>1, <1>7, <2>5 DEF MInv, MHeap
  <2>11. MWalk'
    <3>1. Held(frame)'
      BY <1>4, <1>7, <2>6 DEF Held
    <3> QED BY <1>3, <1>7, <2>2, <2>5, <2>6, <3>1 DEF MWalk
  <2> QED BY <2>7, <2>8, <2>9, <2>10, <2>11 DEF MInv
<1>8. CASE Entry.kind = "huge" /\ Fail("ParentEntryHugePage") /\ UNCHANGED next
  BY <1>1, <1>8, AfterFail
<1> QED BY <1>5, <1>6, <1>7, <1>8, Zenon DEF CreateNextTable

\* Mapping the page with the frame held for it.
LEMMA SetEntryKeeps ==
  ASSUME MInv, SetEntry
  PROVE  MInv'
<1>1. pc = "set" /\ UNCHANGED next
  BY DEF SetEntry
<1>2. /\ PageAddr \in Virt /\ PageAddr \in Nat /\ PageAddr % PageSize = 0
      /\ page \in 0 .. HeapPages - 1 /\ level = 1 /\ CR3 \in DOMAIN tables /\ frame \in Nat
      /\ HeapPages \in Nat
  BY <1>1, Standing, MemoryAssumption
<1>3. CASE Entry.kind # "unused" /\ Fail("PageAlreadyMapped")
  BY <1>1, <1>3, AfterFail
<1>4. CASE /\ Entry.kind = "unused"
           /\ tables' = [tables EXCEPT ![table][Index(PageAddr, level)] = Maps(frame)]
           /\ page' = page + 1
           /\ pc' = IF page = LastPage THEN "init" ELSE "frame"
           /\ UNCHANGED <<memory_regions, boot, frame, level, table, result, heap>>
  <2>1. PageSet(tables, tables', PageAddr, frame)
    BY <1>1, <1>4, PageMapped
  <2>2. DOMAIN tables' = DOMAIN tables /\ IsTree(tables')
    BY <2>1 DEF PageSet
  <2>3. \A v \in Virt :
          IF v \div PageSize = PageAddr \div PageSize
          THEN VirtToPhys(tables, v) = None /\ VirtToPhys(tables', v) = frame + (v % PageSize)
          ELSE VirtToPhys(tables', v) = VirtToPhys(tables, v)
    BY <2>1, Zenon DEF PageSet
  <2>4. Used(usable_frames, next, frame)
    BY <1>1 DEF MInv, MWalk, Held
  <2>5. usable_frames' = usable_frames
    BY <1>4 DEF usable_frames
  <2>6. (page = LastPage) = (page' = HeapPages) /\ page' \in 0 .. HeapPages
        /\ (page # LastPage => page' < HeapPages)
    BY <1>2, <1>4, LastPageIs
  <2>7. MTypes'
    BY <1>1, <1>4, <2>6 DEF MInv, MTypes
  <2>8. MTree'
    BY <1>4, <2>2 DEF MInv, MTree
  <2>9. MFrames'
    <3>1. ASSUME NEW b \in HeapBases
          PROVE  \/ VirtToPhys(tables', b) = VirtToPhys(boot', b)
                 \/ Used(usable_frames', next', VirtToPhys(tables', b))
      <4>1. b \in Virt /\ b % PageSize = 0
        BY Bases
      <4>2. CASE b \div PageSize = PageAddr \div PageSize
        <5>1. VirtToPhys(tables', b) = frame + (b % PageSize)
          BY <2>3, <4>1, <4>2, Zenon
        <5>2. VirtToPhys(tables', b) = frame
          BY <1>2, <4>1, <5>1
        <5> QED BY <1>1, <2>4, <2>5, <5>2
      <4>3. CASE b \div PageSize # PageAddr \div PageSize
        <5>1. VirtToPhys(tables', b) = VirtToPhys(tables, b)
          BY <2>3, <4>1, <4>3, Zenon
        <5> QED BY <1>1, <1>4, <2>5, <5>1 DEF MInv, MFrames
      <4> QED BY <4>2, <4>3
    <3>2. \A f \in DOMAIN tables' : f \in DOMAIN boot' \/ Used(usable_frames', next', f)
      BY <1>1, <1>4, <2>2, <2>5 DEF MInv, MFrames
    <3>3. /\ pc' # "skip"
          /\ next' < Len(usable_frames') => usable_frames'[next' + 1] >= MinAddr
      BY <1>1, <1>4, <2>5 DEF MInv, MFrames
    <3> QED BY <3>1, <3>2, <3>3 DEF MFrames
  <2>10. MHeap'
    <3>1. ASSUME NEW p \in 0 .. page' - 1, NEW v \in Virt,
                 v \div PageSize = (HEAP_START + p * PageSize) \div PageSize
          PROVE  VirtToPhys(tables', v) # None
      <4>1. CASE v \div PageSize = PageAddr \div PageSize
        <5>1. VirtToPhys(tables', v) = frame + (v % PageSize)
          BY <2>3, <4>1, Zenon
        <5> DEFINE o == v % PageSize
        <5>2. o \in Nat
          <6>1. v \in Nat /\ PageSize \in Nat \ {0}
            <7>1. 1 \in 1 .. 4
              OBVIOUS
            <7> QED BY <7>1, Prefix, MemoryAssumption
          <6> QED BY <6>1
        <5> HIDE DEF o
        <5>3. VirtToPhys(tables', v) = frame + o
          BY <5>1 DEF o
        <5> QED BY <1>2, <5>2, <5>3 DEF None
      <4>2. CASE v \div PageSize # PageAddr \div PageSize
        <5>1. VirtToPhys(tables', v) = VirtToPhys(tables, v)
          BY <2>3, <4>2, Zenon
        <5>2. p # page
          BY <3>1, <4>2 DEF PageAddr
        <5>3. p \in 0 .. page - 1
          BY <1>2, <1>4, <5>2
        <5>4. VirtToPhys(tables, v) # None
          BY <3>1, <5>3, Zenon DEF MInv, MHeap
        <5> QED BY <5>1, <5>4
      <4> QED BY <4>1, <4>2
    <3>2. page < HeapPages /\ (heap => page = HeapPages)
      BY <1>1 DEF MInv, MHeap
    <3>3. /\ pc' \in {"skip", "frame", "walk", "set"} => page' < HeapPages
          /\ pc' = "init" \/ heap' => page' = HeapPages
      BY <1>2, <1>4, <2>6, <3>2
    <3> QED BY <3>1, <3>3, Zenon DEF MHeap
  <2>11. MWalk'
    BY <1>4 DEF MWalk
  <2> QED BY <2>7, <2>8, <2>9, <2>10, <2>11 DEF MInv
<1> QED BY <1>3, <1>4, Zenon DEF SetEntry

\* Every step keeps the invariant.
LEMMA MInvStep ==
  ASSUME MInv, [Next]_vars
  PROVE  MInv'
<1>1. CASE InitAllocator
  <2>1. /\ pc = "init" /\ pc' = "done" /\ heap' = TRUE /\ result' = "ok"
        /\ UNCHANGED <<memory_regions, next, tables, boot, page, frame, level, table>>
    BY <1>1, Zenon DEF InitAllocator
  <2>2. usable_frames' = usable_frames
    BY <2>1 DEF usable_frames
  <2>3. heap' \in BOOLEAN
    BY <2>1, Zenon
  <2>4. MTypes'
    BY <2>1, <2>3 DEF MInv, MTypes
  <2>5. MTree'
    BY <2>1 DEF MInv, MTree
  <2>6. MFrames'
    BY <2>1, <2>2 DEF MInv, MFrames
  <2>7. MHeap'
    BY <2>1 DEF MInv, MHeap
  <2>8. MWalk'
    BY <2>1 DEF MWalk
  <2> QED BY <2>4, <2>5, <2>6, <2>7, <2>8 DEF MInv
<1>2. CASE UNCHANGED vars
  <2>1. UNCHANGED <<memory_regions, next, tables, boot, pc, page, frame, level, table, result, heap>>
    BY <1>2, Zenon DEF vars
  <2>2. UNCHANGED <<usable_frames, PageAddr>>
    BY <2>1 DEF usable_frames, PageAddr
  <2>3. MTypes' /\ MTree' /\ MFrames' /\ MHeap'
    BY <2>1, <2>2 DEF MInv, MTypes, MTree, MFrames, MHeap
  <2>4. MWalk'
    BY <2>1, <2>2 DEF MInv, MWalk, Held
  <2> QED BY <2>3, <2>4 DEF MInv
<1>3. CASE SkipBelow \/ AllocatePage \/ CreateNextTable \/ SetEntry
  BY <1>3, SkipBelowKeeps, AllocatePageKeeps, CreateNextTableKeeps, SetEntryKeeps
<1> QED BY <1>1, <1>2, <1>3 DEF Next, Finished

\* The invariant above, in every state of every run of init_heap.
THEOREM HeapInvariant == Spec => []MInv
<1>1. Init => MInv
  BY MInvInit
<1>2. MInv /\ [Next]_vars => MInv'
  BY MInvStep
<1> QED BY <1>1, <1>2, PTL DEF Spec

-----------------------------------------------------------------------------
(* Theorems.                                                               *)

\* The counters, the page tables and the result of init_heap stay in their types:
\* map_to always stands in a page table, and what it writes are entries.
THEOREM MemoryTypes == Spec => []TypeOK
<1>1. ASSUME MInv PROVE TypeOK
  <2>1. ASSUME NEW f \in DOMAIN tables, NEW i \in 0 .. Radix - 1
        PROVE  tables[f][i] \in [kind : {"unused", "frame", "huge"}, addr : Nat]
    BY <1>1 DEF MInv, MTree, IsTree
  <2>2. table \in DOMAIN tables
    BY <1>1 DEF MInv, MTree
  <2> QED BY <1>1, <2>1, <2>2, Zenon DEF MInv, MTypes, TypeOK
<1> QED BY <1>1, HeapInvariant, PTL

\* Every frame that init_heap and map_to take is usable memory at or above the address
\* kernel_main told skip_below, whatever memory map and page tables the bootloader left.
THEOREM TakenAreSpare == Spec => []TakenFramesAreSpare
<1>1. ASSUME MInv PROVE TakenFramesAreSpare
  <2>1. memory_regions \in MemoryMaps /\ next \in Nat
    BY <1>1 DEF MInv, MTypes
  <2>2. \A f : Used(usable_frames, next, f) => f \in SpareFrames
    BY <2>1, Fresh DEF SpareFrames, usable_frames
  <2>3. ASSUME NEW f \in DOMAIN tables, f \notin DOMAIN boot PROVE f \in SpareFrames
    BY <1>1, <2>2, <2>3 DEF MInv, MFrames
  <2>4. ASSUME NEW b \in HeapBases, VirtToPhys(tables, b) # None, VirtToPhys(boot, b) = None
        PROVE  VirtToPhys(tables, b) \in SpareFrames
    BY <1>1, <2>2, <2>4 DEF MInv, MFrames
  <2> QED BY <2>3, <2>4 DEF TakenFramesAreSpare, TakenFrames
<1> QED BY <1>1, HeapInvariant, PTL

\* ALLOCATOR is given the heap only when each byte of it is mapped, the last byte of
\* the last page included, for every size of the heap and of a page.
THEOREM HeapIsMapped == Spec => []HeapFullyMapped
<1>1. ASSUME MInv PROVE HeapFullyMapped
  <2> SUFFICES ASSUME heap, NEW v \in HeapBytes PROVE VirtToPhys(tables, v) # None
    BY DEF HeapFullyMapped
  <2>1. page = HeapPages
    BY <1>1 DEF MInv, MHeap
  <2>2. v \in Virt
    BY HeapByte
  <2>3. PICK p \in 0 .. HeapPages - 1 : v \div PageSize = (HEAP_START + p * PageSize) \div PageSize
    BY HeapByte
  <2>4. p \in 0 .. page - 1
    BY <2>1
  <2> QED BY <1>1, <2>2, <2>3, <2>4, Zenon DEF MInv, MHeap
<1> QED BY <1>1, HeapInvariant, PTL

\* The frame allocator, map_to and init_heap implement AddressSpace: building a page
\* table changes no translation, and mapping a heap page gives its addresses, which
\* had none, a frame that serves nothing else, and leaves every other translation alone.
THEOREM HeapImplementsSpace == Spec => HeapIsAddressSpace
<1> DEFINE tr == [v \in Virt |-> VirtToPhys(tables, v)]
           Fs == UNION {ToSet(UsableFrames(m)) : m \in MemoryMaps}
<1>1. ASSUME Init PROVE Space!Init
  <2>1. CR3 \in DOMAIN tables /\ IsTree(tables)
    BY <1>1, MemoryAssumption DEF Init
  <2>2. \A v \in Virt : VirtToPhys(tables, v) = None \/ VirtToPhys(tables, v) >= 0
    BY <2>1, PhysNat
  <2> QED BY <2>2 DEF Space!Init
<1>2. ASSUME MInv, NEW f, f \in ToSet(usable_frames) PROVE f \in Fs
  BY <1>2 DEF MInv, MTypes, usable_frames
<1>3. ASSUME UNCHANGED tables PROVE UNCHANGED <<tr, DOMAIN tables>>
  BY <1>3
<1>4. ASSUME MInv, CreateNextTable PROVE Space!AddTable \/ UNCHANGED <<tr, DOMAIN tables>>
  <2>1. CASE UNCHANGED tables
    BY <1>3, <2>1
  <2>2. CASE /\ Entry.kind = "unused" /\ Allocated # None
             /\ tables' = Zeroed([tables EXCEPT ![table][Index(PageAddr, level)] = Maps(Allocated)],
                                 Allocated)
    <3>1. pc = "walk"
      BY <1>4 DEF CreateNextTable
    <3>2. TableBuilt(tables, tables', PageAddr, level, Allocated)
      BY <1>4, <2>2, <3>1, TableAdded
    <3>3. /\ Allocated \in Fs /\ Allocated \notin DOMAIN tables
          /\ \A b \in HeapBases : VirtToPhys(tables, b) # Allocated
      BY <1>2, <1>4, <2>2, <3>1, NextFrame
    <3>4. \A b \in HeapBases : tr[b] # Allocated
      BY <3>3, Bases
    <3>5. DOMAIN tables' = DOMAIN tables \cup {Allocated}
      BY <3>2 DEF TableBuilt
    <3>6. tr' = tr
      BY <3>2 DEF TableBuilt
    <3> HIDE DEF tr, Fs
    <3>7. \E f \in Fs : /\ f \notin DOMAIN tables /\ (\A b \in HeapBases : tr[b] # f)
                        /\ DOMAIN tables' = DOMAIN tables \cup {f} /\ tr' = tr
      BY <3>3, <3>4, <3>5, <3>6
    <3> QED BY <3>7 DEF Space!AddTable, Space!Spare, tr, Fs
  <2> QED BY <1>4, <2>1, <2>2 DEF CreateNextTable, Fail
<1>5. ASSUME MInv, SetEntry PROVE Space!MapPage(PageAddr) \/ UNCHANGED <<tr, DOMAIN tables>>
  <2>1. CASE UNCHANGED tables
    BY <1>3, <2>1
  <2>2. CASE /\ Entry.kind = "unused"
             /\ tables' = [tables EXCEPT ![table][Index(PageAddr, level)] = Maps(frame)]
    <3>1. pc = "set"
      BY <1>5 DEF SetEntry
    <3>2. PageSet(tables, tables', PageAddr, frame)
      BY <1>5, <2>2, <3>1, PageMapped
    <3>3. /\ PageAddr \in Nat /\ PageAddr % PageSize = 0 /\ PageAddr \in HeapBases
          /\ PageAddr \in Virt /\ frame \in Nat
          /\ page \in 0 .. HeapPages - 1
      BY <1>5, <3>1, Standing
    <3>4. /\ frame \notin DOMAIN tables
          /\ \A b \in HeapBases : VirtToPhys(tables, b) # frame
          /\ Used(usable_frames, next, frame)
      BY <1>5, <3>1 DEF MInv, MWalk, Held
    <3>5. frame \in Fs
      <4>1. memory_regions \in MemoryMaps /\ next \in Nat
        BY <1>5 DEF MInv, MTypes
      <4>2. frame \in ToSet(usable_frames)
        BY <3>4, <4>1, Fresh DEF usable_frames
      <4> QED BY <1>2, <1>5, <4>2
    <3> DEFINE P == Space!Page(PageAddr)
    <3>6. P = PageAddr .. PageAddr + PageSize - 1
      BY DEF Space!Page
    <3>7. P \subseteq Virt
      <4>1. ASSUME NEW v \in P PROVE v \in HeapBytes
        <5>1. PageSize \in Nat \ {0} /\ HEAP_START \in Nat /\ HeapPages \in Nat /\ page \in Nat
          BY <3>3, MemoryAssumption
        <5>2. (page + 1) * PageSize <= HeapPages * PageSize
          <6>1. page + 1 <= HeapPages /\ page + 1 \in Int /\ HeapPages \in Int /\ PageSize \in Nat
            BY <3>3, <5>1
          <6> QED BY <6>1, TimesMono
        <5>3. /\ (page + 1) * PageSize = page * PageSize + PageSize
              /\ page * PageSize \in Nat /\ HeapPages * PageSize \in Nat
          BY <5>1
        <5>4. v \in HEAP_START + page * PageSize .. HEAP_START + page * PageSize + PageSize - 1
          BY <3>6 DEF PageAddr
        <5> QED BY <5>1, <5>2, <5>3, <5>4 DEF HeapBytes
      <4> QED BY <4>1, HeapByte
    <3>8. ASSUME NEW v \in Virt
          PROVE  /\ v \in P => /\ VirtToPhys(tables, v) = None
                               /\ VirtToPhys(tables', v) = frame + (v - PageAddr)
                 /\ v \notin P => VirtToPhys(tables', v) = VirtToPhys(tables, v)
      <4>1. v \in Nat
        <5>1. 1 \in 1 .. 4
          OBVIOUS
        <5> QED BY <5>1, Prefix
      <4>2. /\ v \div PageSize = PageAddr \div PageSize <=> v \in P
            /\ v \div PageSize = PageAddr \div PageSize => v % PageSize = v - PageAddr
        BY <3>3, <3>6, <4>1, InPage
      <4>3. IF v \div PageSize = PageAddr \div PageSize
            THEN VirtToPhys(tables, v) = None /\ VirtToPhys(tables', v) = frame + (v % PageSize)
            ELSE VirtToPhys(tables', v) = VirtToPhys(tables, v)
        BY <3>2, Zenon DEF PageSet
      <4> HIDE DEF P
      <4> QED BY <4>2, <4>3, Zenon
    <3> HIDE DEF P
    <3>9. \A v \in P : tr[v] = None
      BY <3>7, <3>8
    <3>10. tr' = [v \in Virt |-> IF v \in P THEN frame + (v - PageAddr) ELSE tr[v]]
      BY <3>8
    <3>11. \A b \in HeapBases : tr[b] # frame
      BY <3>4, Bases
    <3>12. DOMAIN tables' = DOMAIN tables
      BY <3>2 DEF PageSet
    <3> HIDE DEF tr, Fs
    <3>13. \E f \in Fs :
             /\ f \notin DOMAIN tables /\ (\A b \in HeapBases : tr[b] # f)
             /\ \A v \in P : tr[v] = None
             /\ tr' = [v \in Virt |-> IF v \in P THEN f + (v - PageAddr) ELSE tr[v]]
             /\ DOMAIN tables' = DOMAIN tables
      BY <3>4, <3>5, <3>9, <3>10, <3>11, <3>12
    <3> QED BY <3>13 DEF Space!MapPage, Space!Spare, P, tr, Fs
  <2> QED BY <1>5, <2>1, <2>2 DEF SetEntry, Fail
<1>6. ASSUME MInv, [Next]_vars PROVE Space!Next \/ UNCHANGED <<tr, DOMAIN tables>>
  <2>1. CASE CreateNextTable
    BY <1>4, <1>6, <2>1 DEF Space!Next
  <2>2. CASE SetEntry
    <3>1. pc = "set"
      BY <2>2 DEF SetEntry
    <3>2. PageAddr \in HeapBases
      BY <1>6, <3>1, Standing
    <3> QED BY <1>5, <1>6, <2>2, <3>2, Zenon DEF Space!Next
  <2>3. CASE SkipBelow \/ AllocatePage \/ InitAllocator \/ Finished \/ UNCHANGED vars
    <3>1. UNCHANGED tables
      BY <2>3 DEF SkipBelow, AllocatePage, Fail, InitAllocator, Finished, vars
    <3> QED BY <1>3, <3>1
  <2> QED BY <1>6, <2>1, <2>2, <2>3 DEF Next
<1>7. MInv /\ [Next]_vars => [Space!Next]_<<tr, DOMAIN tables>>
  BY <1>6
<1> QED BY <1>1, <1>7, HeapInvariant, PTL DEF Spec, HeapIsAddressSpace, Space!Spec
=============================================================================
