------------------------- MODULE TableGrowth_proofs ------------------------
(***************************************************************************)
(* The table that grows stays as tight as the table of Ip2Mac, which it    *)
(* implements, and its memory moves only when it has to, for every size of *)
(* a block and of the table.  Through Ip2Mac it is a map, and it does not  *)
(* outgrow the addresses.  The last part is about the bytes of a hwaddr.   *)
(***************************************************************************)
EXTENDS MCMemory, Ip2MacTable_proofs

(* Past `no` nothing has been used. *)
Untouched == \A s \in Slot : s > no => tbl[s] = EmptyTable[s]

(* The table is moved only once the first block is full: more entries than *)
(* it holds have then been live at a time.                                 *)
MemoryInv ==
    /\ no \in 0..MaxSlot /\ size \in Nat /\ block \in Nat /\ peak \in Nat
    /\ no <= size /\ no <= peak
    /\ size # 0 => size >= Block
    /\ block # 0 => peak > Block
    /\ ptr # <<>> => ptr[2] \in 0..block

IInv ==
    /\ tbl \in Table /\ Unique(tbl) /\ FilledTable(tbl)
    /\ Untouched
    /\ MemoryInv

-----------------------------------------------------------------------------
(* The scan                                                                *)

(* The greater of two numbers, and how many slots a table has used. *)
LEMMA MaxOfTwo ==
    ASSUME NEW m \in Nat, NEW n \in Nat
    PROVE  Max({m, n}) \in Nat /\ Max({m, n}) >= m /\ Max({m, n}) >= n
<1>1. \E x \in {m, n} : \A y \in {m, n} : x >= y
  BY m >= n \/ n >= m
<1>2. /\ Max({m, n}) \in {m, n}
      /\ \A y \in {m, n} : Max({m, n}) >= y
  BY <1>1, Zenon DEF Max
<1> QED
  BY <1>2

(* The used slots and the one a table grows by are slots, as many as their *)
(* highest.                                                                *)
LEMMA Counted ==
    ASSUME NEW t, NEW n \in 0..MaxSlot, \A s \in 1..n : Live(t[s])
    PROVE  /\ Cardinality({s \in Slot : Live(t[s])}) \in Nat
           /\ Cardinality({s \in Slot : Live(t[s])}) >= n
<1> DEFINE live == {s \in Slot : Live(t[s])}
<1>1. IsFiniteSet(Slot)
  <2>1. 1 \in Int /\ MaxSlot \in Int
    BY SlotAssumption
  <2> QED
    BY <2>1, FS_Interval, Zenon DEF Slot
<1>2. IsFiniteSet(live) /\ 1..n \subseteq live
  <2>1. 1..n \subseteq Slot
    BY SlotAssumption DEF Slot
  <2> QED
    BY <1>1, <2>1, FS_Subset
<1>3. Cardinality(1..n) = n
  <2>1. 1 \in Int /\ n \in Int
    BY SlotAssumption
  <2>2. Cardinality(1..n) = IF 1 > n THEN 0 ELSE n - 1 + 1
    BY <2>1, FS_Interval, Zenon
  <2> QED
    BY <2>2, SlotAssumption
<1>4. Cardinality(live) \in Nat /\ Cardinality(1..n) <= Cardinality(live)
  BY <1>2, FS_Subset, FS_CardinalityType
<1> QED
  BY <1>3, <1>4

(* The scan of the slots in use and the scan of Ip2MacTable end at the     *)
(* same slot: a slot past `no` is free, and taken only when it is the      *)
(* first one that is (ip2mac.c:47, ip2mac.c:100).                          *)
LEMMA SameSlot ==
    ASSUME IInv, NEW a \in Addr, NEW hw \in Mac \cup {NoMac},
           SlotFor(a, hw) \in Slot
    PROVE  /\ HasRoom(tbl, a, hw)
           /\ SlotFor(a, hw) = Place(tbl, a, hw)
           /\ Grows(a, hw) => /\ SlotFor(a, hw) = no + 1
                              /\ no < MaxSlot
                              /\ \A s \in 1..no :
                                    Live(tbl[s]) /\ s \notin Expired(tbl, a, hw)
           /\ ~Grows(a, hw) => SlotFor(a, hw) <= no
<1> DEFINE H == Hits(tbl, a, hw)
           F == Free(tbl, a, hw)
           S == FreeSlots(a, hw)
<1>1. no \in Nat /\ no <= MaxSlot /\ Slot = 1..MaxSlot /\ Slot \subseteq Nat
      /\ 1..no \subseteq Slot
  BY SlotAssumption DEF IInv, MemoryInv, Slot
<1>2. \A s \in Slot : s > no => ~Live(tbl[s])
  BY DEF IInv, Untouched, EmptyTable, Live
<1>3. H \subseteq 1..no /\ Expired(tbl, a, hw) \subseteq 1..no
  BY <1>1, <1>2 DEF Hits, Expired, Scanned
<1>4. S \subseteq 1..no /\ S \subseteq F /\ \A s \in F : s <= no => s \in S
  BY <1>1, <1>3 DEF FreeSlots, Free
<1>5. CASE Found(tbl, a, hw)
  <2>1. H \in SUBSET Slot /\ H # {}
    BY <1>1, <1>3, <1>5 DEF Found
  <2>2. Min(H) \in H
    BY <2>1, MinSlot
  <2>3. ~Grows(a, hw) /\ SlotFor(a, hw) = Min(H) /\ Place(tbl, a, hw) = Min(H)
    BY <1>5 DEF Grows, SlotFor, Place
  <2>4. HasRoom(tbl, a, hw)
    BY <1>5 DEF HasRoom
  <2> QED
    BY <1>1, <1>3, <2>2, <2>3, <2>4
<1>6. CASE ~Found(tbl, a, hw) /\ S = {}
  <2>1. Grows(a, hw) /\ SlotFor(a, hw) = no + 1
    BY <1>6 DEF Grows, SlotFor
  <2>2. no + 1 \in Slot /\ no < MaxSlot
    <3>1. no + 1 \in Slot
      BY <2>1, Zenon
    <3>2. no + 1 <= MaxSlot
      BY <3>1, SlotAssumption DEF Slot
    <3> QED
      BY <1>1, <3>1, <3>2, SlotAssumption
  <2>3. no + 1 \in F
    BY <1>1, <1>2, <2>2 DEF Free
  <2>4. F \in SUBSET Slot /\ F # {}
    BY <2>3 DEF Free, Expired, Scanned
  <2>5. Min(F) \in F /\ \A s \in F : Min(F) <= s
    BY <2>4, MinSlot
  <2>6. ~(Min(F) <= no)
    BY <1>4, <1>6, <2>5
  <2>7. Min(F) = no + 1
    BY <1>1, <2>2, <2>3, <2>4, <2>5, <2>6
  <2>8. Place(tbl, a, hw) = Min(F) /\ HasRoom(tbl, a, hw)
    BY <1>6, <2>4 DEF Place, HasRoom
  <2>9. \A s \in 1..no : Live(tbl[s]) /\ s \notin Expired(tbl, a, hw)
    BY <1>6 DEF FreeSlots
  <2> QED
    BY <2>1, <2>2, <2>7, <2>8, <2>9
<1>7. CASE ~Found(tbl, a, hw) /\ S # {}
  <2>1. S \in SUBSET Slot /\ F \in SUBSET Slot /\ F # {}
    BY <1>1, <1>4, <1>7 DEF Free, Expired, Scanned
  <2>2. Min(S) \in S /\ \A s \in S : Min(S) <= s
    BY <1>7, <2>1, MinSlot
  <2>3. Min(F) \in F /\ \A s \in F : Min(F) <= s
    BY <2>1, MinSlot
  <2>4. Min(F) <= Min(S) /\ Min(S) <= no
    BY <1>1, <1>4, <2>2, <2>3
  <2>5. Min(F) \in S
    BY <1>1, <1>4, <2>1, <2>2, <2>3, <2>4
  <2>6. Min(F) = Min(S)
    BY <1>1, <2>1, <2>2, <2>3, <2>4, <2>5
  <2>7. ~Grows(a, hw) /\ SlotFor(a, hw) = Min(S)
    BY <1>7 DEF Grows, SlotFor
  <2>8. Place(tbl, a, hw) = Min(F) /\ HasRoom(tbl, a, hw)
    BY <1>7, <2>1 DEF Place, HasRoom
  <2> QED
    BY <2>4, <2>6, <2>7, <2>8
<1> QED
  BY <1>5, <1>6, <1>7

(* So Ip2MacSearch leaves the table that Ip2MacTable says. *)
LEMMA SameTable ==
    ASSUME IInv, NEW a \in Addr, NEW hw \in Mac \cup {NoMac},
           Ip2MacSearch(a, hw)
    PROVE  HasRoom(tbl, a, hw) /\ tbl' = Searched(tbl, a, hw)
<1>1. HasRoom(tbl, a, hw) /\ SlotFor(a, hw) = Place(tbl, a, hw)
  BY SameSlot DEF Ip2MacSearch
<1>2. tbl' = [s \in Slot |->
                IF s = SlotFor(a, hw)
                THEN IF Found(tbl, a, hw) THEN Refreshed(tbl[s], hw) ELSE NewEntry(a, hw)
                ELSE IF s \in Expired(tbl, a, hw) THEN [tbl[s] EXCEPT !.flag = "FREE"]
                ELSE tbl[s]]
  BY DEF Ip2MacSearch
<1> QED
  BY <1>1, <1>2, Zenon DEF Searched

-----------------------------------------------------------------------------
(* The invariant                                                           *)

(* An unused table satisfies IInv. *)
LEMMA InitInv == Init => IInv
<1> SUFFICES ASSUME Init PROVE IInv
  OBVIOUS
<1>1. EmptyTable \in Table
  BY TimeAssumption DEF EmptyTable, Table, Entry, Flag, MaxAge
<1>2. \A s \in Slot : ~Live(EmptyTable[s])
  BY DEF EmptyTable, Live
<1>3. Unique(tbl) /\ FilledTable(tbl) /\ Untouched
  BY <1>2 DEF Init, Unique, FilledTable, Untouched
<1>4. MemoryInv
  BY SlotAssumption DEF Init, MemoryInv
<1> QED
  BY <1>1, <1>3, <1>4 DEF Init, IInv

(* A search keeps the memory ahead of the slots (ip2mac.c:102).            *)
LEMMA SearchMemory ==
    ASSUME IInv, NEW a \in Addr, NEW hw \in Mac \cup {NoMac},
           Ip2MacSearch(a, hw)
    PROVE  Untouched' /\ MemoryInv'
<1> DEFINE p == SlotFor(a, hw)
           live == {s \in Slot : Live(tbl'[s])}
<1>1. p \in Slot
  BY DEF Ip2MacSearch
<1>2. /\ p = Place(tbl, a, hw) /\ HasRoom(tbl, a, hw)
      /\ Grows(a, hw) => /\ p = no + 1 /\ no < MaxSlot
                         /\ \A s \in 1..no :
                               Live(tbl[s]) /\ s \notin Expired(tbl, a, hw)
      /\ ~Grows(a, hw) => p <= no
  BY <1>1, SameSlot
<1>3. /\ no \in Nat /\ no <= MaxSlot /\ Slot = 1..MaxSlot
      /\ MaxSlot \in Nat /\ Block \in Nat \ {0}
  BY SlotAssumption, BlockAssumption DEF IInv, MemoryInv, Slot
<1>4. tbl' = Searched(tbl, a, hw)
  BY SameTable
<1>5. no' = (IF Grows(a, hw) THEN no + 1 ELSE no) /\ ptr' = ptr
      /\ peak' = Max({peak, Cardinality(live)})
  BY DEF Ip2MacSearch
<1>6. no' \in 0..MaxSlot /\ no' >= no /\ p <= no'
  BY <1>1, <1>2, <1>3, <1>5
<1>7. Untouched'
  <2> SUFFICES ASSUME NEW s \in Slot, s > no' PROVE tbl'[s] = EmptyTable[s]
    BY DEF Untouched
  <2>1. s # p /\ s > no
    BY <1>1, <1>3, <1>6
  <2>2. tbl[s] = EmptyTable[s]
    BY <2>1 DEF IInv, Untouched
  <2>3. s \notin Expired(tbl, a, hw)
    BY <2>2 DEF Expired, EmptyTable, Live
  <2>4. tbl'[s] = tbl[s]
    BY <1>2, <1>4, <2>1, <2>3 DEF Searched
  <2> QED
    BY <2>2, <2>4
<1>8. Grows(a, hw) => \A s \in 1..(no + 1) : Live(tbl'[s])
  <2> SUFFICES ASSUME Grows(a, hw), NEW s \in 1..(no + 1) PROVE Live(tbl'[s])
    OBVIOUS
  <2>1. s \in Slot
    BY <1>2, <1>3
  <2>2. CASE s = p
    <3>1. Live(Searched(tbl, a, hw)[Place(tbl, a, hw)])
      BY <1>2, SearchedEntries DEF IInv
    <3> QED
      BY <1>2, <1>4, <2>2, <3>1
  <2>3. CASE s # p
    <3>1. s \in 1..no
      BY <1>2, <1>3, <2>3
    <3>2. Live(tbl[s]) /\ s \notin Expired(tbl, a, hw)
      BY <1>2, <3>1
    <3>3. tbl'[s] = tbl[s]
      BY <1>2, <1>4, <2>1, <2>3, <3>2 DEF Searched
    <3> QED
      BY <3>2, <3>3
  <2> QED
    BY <2>2, <2>3
<1>9. Cardinality(live) \in Nat /\ (Grows(a, hw) => Cardinality(live) >= no + 1)
  <2>1. CASE Grows(a, hw)
    <3>1. no + 1 \in 0..MaxSlot
      BY <1>2, <1>3, <2>1
    <3>2. \A s \in 1..(no + 1) : Live(tbl'[s])
      BY <1>8, <2>1
    <3> QED
      BY <3>1, <3>2, Counted
  <2>2. CASE ~Grows(a, hw)
    <3>1. 0 \in 0..MaxSlot /\ \A s \in 1..0 : Live(tbl'[s])
      BY <1>3
    <3> QED
      BY <2>2, <3>1, Counted
  <2> QED
    BY <2>1, <2>2
<1> HIDE DEF live, p
<1>10. peak' \in Nat /\ peak' >= peak /\ (Grows(a, hw) => peak' >= no + 1)
  <2>1. peak \in Nat
    BY DEF IInv, MemoryInv
  <2>2. peak' \in Nat /\ peak' >= peak /\ peak' >= Cardinality(live)
    BY <1>5, <1>9, <2>1, MaxOfTwo
  <2> QED
    BY <1>3, <1>9, <2>2
<1>11. MemoryInv'
  <2>1. CASE Grows(a, hw) /\ no >= size
    <3>1. size' = size + Block
          /\ block' \in (IF size = 0 THEN {block} ELSE {block, block + 1})
      BY <2>1 DEF Ip2MacSearch, Realloc
    <3> QED
      BY <1>3, <1>5, <1>6, <1>10, <2>1, <3>1 DEF IInv, MemoryInv
  <2>2. CASE ~(Grows(a, hw) /\ no >= size)
    <3>1. size' = size /\ block' = block
      BY <2>2 DEF Ip2MacSearch, Realloc
    <3> QED
      BY <1>3, <1>5, <1>6, <1>10, <2>2, <3>1 DEF IInv, MemoryInv
  <2> QED
    BY <2>1, <2>2
<1> QED
  BY <1>7, <1>11

(* Every call of Ip2Mac, every use of the pointer and time preserve IInv. *)
LEMMA NextInv == IInv /\ [Next]_vars => IInv'
<1> SUFFICES ASSUME IInv, [Next]_vars PROVE IInv'
  OBVIOUS
<1>1. ASSUME NEW a \in Addr, NEW hw \in Mac \cup {NoMac}, Ip2MacSearch(a, hw)
      PROVE  IInv'
  <2>1. HasRoom(tbl, a, hw) /\ tbl' = Searched(tbl, a, hw)
    BY <1>1, SameTable
  <2>2. tbl' \in Table /\ Unique(tbl') /\ FilledTable(tbl')
    BY <2>1, SearchedType, SearchedUnique, SearchedFilled DEF IInv
  <2> QED
    BY <1>1, <2>2, SearchMemory DEF IInv
<1>2. ASSUME NEW s \in Slot, Hold(s) PROVE IInv'
  BY <1>2 DEF Hold, IInv, Untouched, MemoryInv
<1>3. CASE Release
  BY <1>3 DEF Release, IInv, Untouched, MemoryInv
<1>4. CASE Tick
  <2>1. tbl' = Aged(tbl) /\ UNCHANGED <<no, size, block, ptr, peak>>
    BY <1>4 DEF Tick
  <2>2. tbl' \in Table /\ Unique(tbl') /\ FilledTable(tbl')
    BY <2>1, AgedProperties DEF IInv, Unique, FilledTable, Live
  <2>3. ASSUME NEW s \in Slot, s > no' PROVE tbl'[s] = EmptyTable[s]
    <3>1. tbl[s] = EmptyTable[s]
      BY <2>1, <2>3 DEF IInv, Untouched
    <3>2. Aged(tbl)[s] = tbl[s]
      BY <3>1 DEF Aged, EmptyTable, Live
    <3> QED
      BY <2>1, <3>1, <3>2
  <2> QED
    BY <2>1, <2>2, <2>3 DEF IInv, Untouched, MemoryInv
<1>5. CASE UNCHANGED vars
  BY <1>5 DEF vars, IInv, Untouched, MemoryInv
<1> QED
  BY <1>1, <1>2, <1>3, <1>4, <1>5 DEF Next

(* The table that grows: slots past no are untouched, no is within the     *)
(* memory, and the block has moved only if it was once full (ip2mac.c:102). *)
THEOREM Invariant == Spec => []IInv
<1> QED
  BY InitInv, NextInv, PTL DEF Spec

(* Every slot in use has memory, and the table has no more of them than    *)
(* entries were live at one time, for every size of a block.               *)
THEOREM Tight == Spec => []TightTable
<1>1. IInv => TightTable
  BY DEF IInv, Untouched, MemoryInv, TightTable
<1> QED
  BY <1>1, Invariant, PTL

(* The buffer thread's pointer is good until more entries than a block     *)
(* holds have been live at one time (ip2mac.c:110).                        *)
THEOREM Pointer == Spec => []PointerKept
<1>1. IInv => PointerKept
  BY DEF IInv, MemoryInv, PointerKept
<1> QED
  BY <1>1, Invariant, PTL

(* No address has two live entries, of the slots that are in use           *)
(* (Ip2MacSearch, ip2mac.c:34).                                            *)
THEOREM NoDuplicates == Spec => []UniqueAddr
<1>1. IInv => UniqueAddr
  BY Zenon DEF IInv, UniqueAddr, Slots!UniqueAddr, Slots!Unique, Unique,
               Slots!Live, Live, Slots!Slot, Slot
<1> QED
  BY <1>1, Invariant, PTL

-----------------------------------------------------------------------------
(* The table and the addresses it is called for                            *)

(* The live entries of a table have different addresses: there are no more *)
(* of them than addresses.                                                 *)
LEMMA NoMoreThanAddresses ==
    ASSUME IsFiniteSet(Addr), NEW t \in Table, Unique(t), FilledTable(t)
    PROVE  Cardinality({s \in Slot : Live(t[s])}) <= Cardinality(Addr)
<1> DEFINE live == {s \in Slot : Live(t[s])}
           f == [s \in live |-> t[s].addr]
<1>1. f \in [live -> Addr]
  BY DEF FilledTable
<1>2. \A r, s \in live : f[r] = f[s] => r = s
  BY DEF Unique
<1>3. f \in Injection(live, Addr)
  BY <1>1, <1>2 DEF Injection, IsInjective
<1> QED
  BY <1>3, FS_Injection

(* What is live at one time has an address each, and the memory keeps less *)
(* than a block ahead of the slots that are used.                          *)
AddrInv ==
    /\ peak <= Cardinality(Addr)
    /\ size < no + Block

(* Every call of Ip2Mac preserves it: the table grows by a slot at a time  *)
(* and by a block when there is no more memory (ip2mac.c:102).             *)
LEMMA AddrNext ==
    ASSUME IsFiniteSet(Addr), IInv, IInv', AddrInv, [Next]_vars
    PROVE  AddrInv'
<1>1. /\ no \in Nat /\ size \in Nat /\ peak \in Nat /\ Block \in Nat
      /\ Cardinality(Addr) \in Nat
  BY BlockAssumption, SlotAssumption, FS_CardinalityType DEF IInv, MemoryInv
<1>2. ASSUME NEW a \in Addr, NEW hw \in Mac \cup {NoMac}, Ip2MacSearch(a, hw)
      PROVE  AddrInv'
  <2> DEFINE live == {s \in Slot : Live(tbl'[s])}
  <2>1. Cardinality(live) <= Cardinality(Addr)
    BY NoMoreThanAddresses DEF IInv
  <2>2. Cardinality(live) \in Nat
    <3>1. 0 \in 0..MaxSlot /\ \A s \in 1..0 : Live(tbl'[s])
      BY SlotAssumption
    <3> QED
      BY <3>1, Counted
  <2>3. peak' = Max({peak, Cardinality(live)})
    BY <1>2 DEF Ip2MacSearch
  <2> HIDE DEF live
  <2>4. Max({peak, Cardinality(live)}) \in {peak, Cardinality(live)}
    <3>1. \E x \in {peak, Cardinality(live)} : \A y \in {peak, Cardinality(live)} : x >= y
      BY <1>1, <2>2
    <3> QED
      BY <3>1, Zenon DEF Max
  <2>5. peak' <= Cardinality(Addr)
    BY <2>1, <2>3, <2>4 DEF AddrInv
  <2>6. size' < no' + Block
    <3>1. CASE Grows(a, hw) /\ no >= size
      <4>1. size' = size + Block /\ no' = no + 1
        BY <1>2, <3>1 DEF Ip2MacSearch, Realloc
      <4> QED
        BY <1>1, <3>1, <4>1
    <3>2. CASE ~(Grows(a, hw) /\ no >= size)
      <4>1. size' = size /\ (no' = no + 1 \/ no' = no)
        BY <1>2, <3>2 DEF Ip2MacSearch, Realloc
      <4> QED
        BY <1>1, <4>1 DEF AddrInv
    <3> QED
      BY <3>1, <3>2
  <2> QED
    BY <2>5, <2>6 DEF AddrInv
<1>3. CASE UNCHANGED <<no, size, peak>>
  BY <1>3 DEF AddrInv
<1> QED
  BY <1>2, <1>3 DEF Next, Hold, Release, Tick, vars

(* What holds of every table that is called for finitely many addresses.   *)
LEMMA AddrInvariant == ASSUME IsFiniteSet(Addr) PROVE Spec => [](IInv /\ AddrInv)
<1>1. Init => AddrInv
  <2>1. Cardinality(Addr) \in Nat
    BY FS_CardinalityType
  <2> QED
    BY <2>1, BlockAssumption DEF Init, AddrInv
<1>2. IInv /\ IInv' /\ AddrInv /\ [Next]_vars => AddrInv'
  BY AddrNext
<1> QED
  BY <1>1, <1>2, Invariant, PTL DEF Spec

(* The memory of the table is bounded by the addresses it is called for,   *)
(* of hosts that answer and of hosts that do not: however long the router  *)
(* runs and however often entries expire, it uses no more slots than there *)
(* are addresses and keeps less than a block to spare (ip2mac.c:93,        *)
(* ip2mac.c:102).                                                          *)
GrownForAddresses == no <= Cardinality(Addr) /\ size < Cardinality(Addr) + Block

THEOREM GrowsWithAddresses == ASSUME IsFiniteSet(Addr) PROVE Spec => []GrownForAddresses
<1>1. IInv /\ AddrInv => GrownForAddresses
  <2>1. Cardinality(Addr) \in Nat
    BY FS_CardinalityType
  <2> QED
    BY <2>1, BlockAssumption DEF IInv, MemoryInv, AddrInv, GrownForAddresses
<1> QED
  BY <1>1, AddrInvariant, PTL

(* A table that is called for no more addresses than a block has entries,  *)
(* 1024, is never moved: the pointer the buffer thread goes by while the   *)
(* main thread adds entries is into the table (ip2mac.c:110,               *)
(* ip2mac.c:264).                                                          *)
PointerInTable == block = 0 /\ (ptr # <<>> => ptr[2] = block)

THEOREM PointerSafe ==
    ASSUME IsFiniteSet(Addr), Cardinality(Addr) <= Block
    PROVE  Spec => []PointerInTable
<1>1. IInv /\ AddrInv => PointerInTable
  <2>1. Cardinality(Addr) \in Nat
    BY FS_CardinalityType
  <2> QED
    BY <2>1, BlockAssumption DEF IInv, MemoryInv, AddrInv, PointerInTable
<1> QED
  BY <1>1, AddrInvariant, PTL

-----------------------------------------------------------------------------
(* Refinement                                                              *)

(* An instance of Ip2Mac means by its operators what this module means:    *)
(* the constants are the same.                                             *)
LEMMA SameSearch ==
    \A t, a, hw :
        /\ Slots!HasRoom(t, a, hw) = HasRoom(t, a, hw)
        /\ Slots!Searched(t, a, hw) = Searched(t, a, hw)
<1> SUFFICES ASSUME NEW t, NEW a, NEW hw
             PROVE  /\ Slots!HasRoom(t, a, hw) = HasRoom(t, a, hw)
                    /\ Slots!Searched(t, a, hw) = Searched(t, a, hw)
  OBVIOUS
<1>1. Slots!Slot = Slot
  BY Zenon DEF Slots!Slot, Slot
<1>2. \A e : /\ Slots!Live(e) = Live(e)
             /\ Slots!TimedOut(e) = TimedOut(e)
             /\ Slots!Refreshed(e, hw) = Refreshed(e, hw)
  BY Zenon DEF Slots!Live, Live, Slots!TimedOut, TimedOut, Slots!Refreshed, Refreshed
<1>3. Slots!NewEntry(a, hw) = NewEntry(a, hw)
  BY Zenon DEF Slots!NewEntry, NewEntry
<1>4. Slots!Hits(t, a, hw) = Hits(t, a, hw)
  BY <1>1, <1>2, Zenon DEF Slots!Hits, Hits
<1>5. Slots!Expired(t, a, hw) = Expired(t, a, hw)
  BY <1>1, <1>2, <1>4, Zenon DEF Slots!Expired, Expired, Slots!Scanned, Scanned
<1>6. Slots!Free(t, a, hw) = Free(t, a, hw)
  BY <1>1, <1>2, <1>5, Zenon DEF Slots!Free, Free
<1>7. Slots!Found(t, a, hw) = Found(t, a, hw)
  BY <1>4, Zenon DEF Slots!Found, Found
<1>8. Slots!Place(t, a, hw) = Place(t, a, hw)
  BY <1>4, <1>6, <1>7, Zenon DEF Slots!Place, Place, Slots!Min, Min
<1> QED
  BY <1>1, <1>2, <1>3, <1>5, <1>6, <1>7, <1>8, Zenon
  DEF Slots!HasRoom, HasRoom, Slots!Searched, Searched

(* So is what time does.                                                   *)
LEMMA SameTime ==
    /\ Slots!EmptyTable = EmptyTable
    /\ \A t : Slots!Aged(t) = Aged(t)
BY Zenon DEF Slots!EmptyTable, EmptyTable, Slots!Aged, Aged, Slots!Live, Live,
             Slots!Slot, Slot, Slots!MaxAge, MaxAge

(* And the map a table stands for.                                         *)
LEMMA SameBook == \A t : Slots!BookOf(t) = BookOf(t)
BY Zenon DEF Slots!BookOf, BookOf, Slots!Said, Said, Slots!Live, Live, Slots!Slot, Slot

(* A search, a use of the pointer and a second of the table that grows are *)
(* a call, nothing, and a second of the table of Ip2Mac: growing does not  *)
(* show in which entry is where (ip2mac.c:102).                            *)
THEOREM Implements == Spec => ImplementsSlots
<1>1. Init => Slots!Init
  BY SameTime DEF Init, Slots!Init
<1>2. ASSUME IInv, NEW a \in Addr, NEW hw \in Mac \cup {NoMac}, Ip2MacSearch(a, hw)
      PROVE  Slots!Next
  <2>1. Slots!HasRoom(tbl, a, hw) /\ tbl' = Slots!Searched(tbl, a, hw)
    BY <1>2, SameTable, SameSearch
  <2>2. CASE hw \in Mac
    BY <2>1, <2>2 DEF Slots!Next, Slots!Learn
  <2>3. CASE hw = NoMac
    BY <2>1, <2>3 DEF Slots!Next, Slots!Lookup
  <2> QED
    BY <2>2, <2>3
<1>3. Tick => Slots!Next
  BY SameTime DEF Tick, Slots!Next, Slots!Tick
<1>4. IInv /\ [Next]_vars => [Slots!Next]_tbl
  BY <1>2, <1>3 DEF Next, Hold, Release, vars
<1> QED
  BY <1>1, <1>4, Invariant, PTL DEF Spec, ImplementsSlots, Slots!Spec

(* And so it is a map: a search is a step of the map for its own address,  *)
(* and neither time nor memory shows in it (Ip2Mac, ip2mac.c:140).         *)
THEOREM ImplementsMap == Spec => ImplementsBook
<1> DEFINE book == Slots!BookOf(tbl)
<1>1. Init => Slots!Book!Init
  BY SameBook, EmptyBook DEF Init, Slots!Book!Init, Slots!Book!Unknown
<1>2. ASSUME IInv, NEW a \in Addr, NEW hw \in Mac \cup {NoMac}, Ip2MacSearch(a, hw)
      PROVE  Slots!Book!Next
  <2> DEFINE gone == {x \in Addr : BookOf(tbl')[x] = "unknown"}
             v == IF hw \in Mac THEN hw
                  ELSE IF BookOf(tbl)[a] = "unknown" THEN "asking" ELSE BookOf(tbl)[a]
  <2>1. HasRoom(tbl, a, hw) /\ tbl' = Searched(tbl, a, hw)
    BY <1>2, SameTable
  <2>2. /\ BookOf(tbl')[a] = v
        /\ \A x \in Addr \ {a} :
              BookOf(tbl')[x] # "unknown" => BookOf(tbl')[x] = BookOf(tbl)[x]
    BY <1>2, <2>1, SearchedBook DEF IInv
  <2>3. BookOf(tbl') = [x \in Addr |-> BookOf(tbl')[x]]
    BY Zenon DEF BookOf
  <2>4. BookOf(tbl') = [x \in Addr |-> IF x = a THEN v
                          ELSE IF x \in gone THEN "unknown" ELSE BookOf(tbl)[x]]
    BY <2>2, <2>3
  <2>5. gone \in SUBSET Addr
    OBVIOUS
  <2>6. Slots!BookOf(tbl') = Slots!Book!Settled(a, v, gone)
    BY <2>4, SameBook, Zenon DEF Slots!Book!Settled, Slots!Book!Unknown
  <2>7. CASE hw \in Mac
    <3>1. Slots!Book!Told(a, hw)
      BY <2>5, <2>6, <2>7, Zenon DEF Slots!Book!Told
    <3> QED
      BY <2>7, <3>1, Zenon DEF Slots!Book!Next
  <2>8. CASE hw = NoMac
    <3>1. v = IF Slots!BookOf(tbl)[a] = Slots!Book!Unknown THEN Slots!Book!Asking
              ELSE Slots!BookOf(tbl)[a]
      BY <2>8, MacAssumption, SameBook, Zenon DEF Slots!Book!Unknown, Slots!Book!Asking
    <3>2. Slots!Book!Ask(a)
      BY <2>5, <2>6, <3>1, Zenon DEF Slots!Book!Ask
    <3> QED
      BY <3>2, Zenon DEF Slots!Book!Next
  <2> QED
    BY <2>7, <2>8
<1>3. ASSUME IInv, Tick PROVE UNCHANGED book
  BY <1>3, SameBook, AgedBook DEF IInv, Tick
<1>4. IInv /\ [Next]_vars => [Slots!Book!Next]_book
  BY <1>2, <1>3 DEF Next, Hold, Release, vars
<1> QED
  BY <1>1, <1>4, Invariant, PTL
  DEF Spec, ImplementsBook, Slots!ImplementsBook, Slots!Book!Spec

(* With a slot for each address a search always finds one, whatever it has *)
(* to free for it: a table that recycles its slots does not outgrow the    *)
(* addresses it is called for (ip2mac.c:100).                              *)
THEOREM NeverFull ==
    ASSUME IsFiniteSet(Addr), Cardinality(Addr) <= MaxSlot
    PROVE  Spec => []Slots!AlwaysRoom
<1>1. ASSUME IInv PROVE Slots!AlwaysRoom
  BY <1>1, SameSearch, AlwaysFound DEF IInv, Slots!AlwaysRoom
<1> QED
  BY <1>1, Invariant, PTL

-----------------------------------------------------------------------------
(* The bytes of an hwaddr                                                  *)

(* The search that writes an entry is one that finds it, with what was     *)
(* announced for its address, or adds it, with what it is told of it; the  *)
(* parts that are done are told's.                                         *)
EntryOK ==
    /\ hwaddr \in [Bytes!Part -> Mac \cup {NoMac}]
    /\ told \in Mac \cup {NoMac} /\ toWrite \subseteq Bytes!Part
    /\ store \in {"none", "arp", "reuse"} /\ announced \subseteq Mac
    /\ store = "none" => toWrite = {}
    /\ store = "arp" => told \in announced
    /\ store = "reuse" => announced = {told} \ {NoMac}
    /\ store # "none" => \A p \in Bytes!Part \ toWrite : hwaddr[p] = told

(* What is to be served was announced for its address, all of it, until    *)
(* the entry is used for another one.                                      *)
ServedOK ==
    ~overrun /\ (request \/ buf # "idle") =>
        store # "reuse" /\ \A p \in Bytes!Part : hwaddr[p] \in announced

(* What is read of an entry, or may be, is what it had meanwhile.          *)
CopyOK ==
    /\ dhost \in [Bytes!Part -> Mac \cup {NoMac}] /\ toRead \subseteq Bytes!Part
    /\ buf = "copying" =>
          /\ \A p \in Bytes!Part : hwaddr[p] \in during
          /\ store # "none" => told \in during
          /\ \A p \in Bytes!Part \ toRead :
                dhost[p] \in during /\ (~overrun => dhost[p] \in announced)

BytesInv == EntryOK /\ ServedOK /\ CopyOK

(* Initially the entry is free and no one copies.                          *)
LEMMA BytesInit == Bytes!Init => BytesInv
<1> SUFFICES ASSUME Bytes!Init PROVE BytesInv
  OBVIOUS
<1> QED
  BY DEF Bytes!Init, BytesInv, EntryOK, ServedOK, CopyOK, Bytes!Whole, Bytes!Part

(* A search begins to write what was announced, or adds an entry, of an    *)
(* overrun if that was to be served.                                       *)
LEMMA BytesBegun ==
    ASSUME BytesInv, NEW s \in {"arp", "reuse"}, NEW m \in Mac \cup {NoMac},
           Bytes!Begin(s, m), request' = request,
           \/ s = "arp" /\ m \in Mac /\ announced' = announced \cup {m} /\ overrun' = overrun
           \/ /\ s = "reuse" /\ announced' = {m} \ {NoMac}
              /\ overrun' = (overrun \/ request \/ buf # "idle")
    PROVE  BytesInv'
<1> USE MacAssumption DEF BytesInv, Bytes!Begin, Bytes!thread
<1>1. EntryOK'
  BY DEF EntryOK
<1>2. ServedOK'
  BY DEF ServedOK
<1>3. UNCHANGED <<hwaddr, buf, toRead, dhost>> /\ told' = m
  OBVIOUS
<1>4. ASSUME buf # "copying" PROVE CopyOK'
  BY <1>3, <1>4 DEF CopyOK
<1>5. ASSUME buf = "copying" PROVE CopyOK'
  <2>1. during' = during \cup {m}
    BY <1>5
  <2>2. (overrun' = overrun /\ announced \subseteq announced') \/ overrun'
    BY <1>5
  <2>3. \A p \in Bytes!Part \ toRead : ~overrun' => dhost[p] \in announced'
    BY <1>5, <2>2 DEF CopyOK
  <2> QED
    BY <1>3, <1>5, <2>1, <2>3 DEF CopyOK
<1> QED
  BY <1>1, <1>2, <1>4, <1>5

(* A part is written (ip2mac.c:58, ip2mac.c:121). *)
LEMMA BytesWritten ==
    ASSUME BytesInv, NEW p \in Bytes!Part, Bytes!Write(p)
    PROVE  BytesInv'
<1> USE DEF BytesInv
<1>1. /\ toWrite' = toWrite \ {p} /\ p \in toWrite
      /\ UNCHANGED <<store, told, announced, buf, toRead, dhost, request, during, overrun>>
  BY DEF Bytes!Write, Bytes!thread
<1>2. \A q \in Bytes!Part : hwaddr'[q] = IF q = p THEN told ELSE hwaddr[q]
  BY DEF Bytes!Write, EntryOK
<1>3. hwaddr' \in [Bytes!Part -> Mac \cup {NoMac}]
  BY DEF Bytes!Write, EntryOK
<1>4. EntryOK'
  BY <1>1, <1>2, <1>3 DEF EntryOK
<1>5. store # "none"
  BY <1>1 DEF EntryOK
<1>6. ServedOK'
  BY <1>1, <1>2, <1>5 DEF ServedOK, EntryOK
<1>7. CopyOK'
  BY <1>1, <1>2, <1>5 DEF CopyOK
<1> QED
  BY <1>4, <1>6, <1>7

(* The main thread's steps: the copy to the entry (ip2mac.c:58), the       *)
(* request after it (ip2mac.c:61), and the entry's next use.               *)
LEMMA BytesStored ==
    ASSUME BytesInv,
           \/ Bytes!Park \/ Bytes!Written
           \/ \E m \in Mac : Bytes!Arp(m)
           \/ \E m \in Mac \cup {NoMac} : Bytes!Reuse(m)
           \/ \E p \in Bytes!Part : Bytes!Write(p)
    PROVE  BytesInv'
<1> USE DEF BytesInv
<1>1. CASE Bytes!Park
  BY <1>1 DEF Bytes!Park, Bytes!main, Bytes!thread, EntryOK, ServedOK, CopyOK
<1>2. CASE Bytes!Written
  <2>1. EntryOK'
    BY <1>2 DEF Bytes!Written, EntryOK
  <2>2. ServedOK'
    BY <1>2, MacAssumption DEF Bytes!Written, Bytes!thread, EntryOK, ServedOK
  <2>3. CopyOK'
    BY <1>2 DEF Bytes!Written, Bytes!thread, CopyOK
  <2> QED
    BY <2>1, <2>2, <2>3
<1>3. ASSUME NEW m \in Mac, Bytes!Arp(m) PROVE BytesInv'
  BY <1>3, BytesBegun DEF Bytes!Arp
<1>4. ASSUME NEW m \in Mac \cup {NoMac}, Bytes!Reuse(m) PROVE BytesInv'
  BY <1>4, BytesBegun DEF Bytes!Reuse
<1> QED
  BY <1>1, <1>2, <1>3, <1>4, BytesWritten

(* The buffer thread's steps: a request is taken, and with each frame the  *)
(* hwaddr is copied out (ip2mac.c:188).                                    *)
LEMMA BytesRead ==
    ASSUME BytesInv,
           \/ Bytes!Serve \/ Bytes!Take \/ Bytes!Send \/ Bytes!Finish
           \/ \E p \in Bytes!Part : Bytes!Read(p)
    PROVE  BytesInv'
<1> USE DEF BytesInv
<1>1. CASE Bytes!Serve
  BY <1>1 DEF Bytes!Serve, Bytes!main, EntryOK, ServedOK, CopyOK
<1>2. CASE Bytes!Take
  BY <1>2 DEF Bytes!Take, Bytes!main, EntryOK, ServedOK, CopyOK
<1>3. CASE Bytes!Send
  BY <1>3 DEF Bytes!Send, Bytes!main, EntryOK, ServedOK, CopyOK
<1>4. CASE Bytes!Finish
  <2>1. EntryOK' /\ CopyOK'
    BY <1>4 DEF Bytes!Finish, Bytes!main, EntryOK, CopyOK
  <2>2. ServedOK'
    BY <1>4 DEF Bytes!Finish, Bytes!main, ServedOK
  <2> QED
    BY <2>1, <2>2
<1>5. ASSUME NEW p \in Bytes!Part, Bytes!Read(p) PROVE BytesInv'
  <2>1. EntryOK'
    BY <1>5 DEF Bytes!Read, Bytes!main, EntryOK
  <2>2. buf = "copying" => ServedOK' /\ CopyOK'
    BY <1>5 DEF Bytes!Read, Bytes!main, EntryOK, ServedOK, CopyOK
  <2>3. buf # "copying" => ServedOK' /\ CopyOK'
    BY <1>5 DEF Bytes!Read, Bytes!main, EntryOK, ServedOK, CopyOK
  <2> QED
    BY <2>1, <2>2, <2>3
<1> QED
  BY <1>1, <1>2, <1>3, <1>4, <1>5

(* Every step keeps what is said of the two copies.                        *)
LEMMA BytesNext == BytesInv /\ [MCNext]_<<vars, entry>> => BytesInv'
<1> SUFFICES ASSUME BytesInv, [MCNext]_<<vars, entry>> PROVE BytesInv'
  OBVIOUS
<1>1. CASE UNCHANGED entry
  BY <1>1 DEF entry, BytesInv, EntryOK, ServedOK, CopyOK
<1>2. CASE Bytes!Next
  BY <1>2, BytesStored, BytesRead DEF Bytes!Next
<1> QED
  BY <1>1, <1>2 DEF MCNext

(* Whatever the order of the copies on either side and however often the   *)
(* entry is used again, every part of the hwaddr that a frame leaves with  *)
(* is of one the entry had while it was copied, and was announced for the  *)
(* frame's own host unless the entry was taken for another one before the  *)
(* frame was copied, or meanwhile (ip2mac.c:188).                          *)
THEOREM OneAddress == MCSpec => []OneHwaddr
<1>1. MCInit => BytesInv
  BY BytesInit DEF MCInit
<1>2. BytesInv => OneHwaddr
  BY DEF BytesInv, CopyOK, OneHwaddr, Bytes!OneHwaddr
<1> QED
  BY <1>1, <1>2, BytesNext, PTL DEF MCSpec

=============================================================================
