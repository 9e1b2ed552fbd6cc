---------------------------- MODULE TableGrowth ----------------------------
(***************************************************************************)
(* The memory behind an ARP table (struct Ip2Macs in router/ip2mac.c): its *)
(* fill level `no`, its size, the block it lies in, and the pointer into   *)
(* it that the buffer thread holds while it serves an entry.  Ip2MacTable  *)
(* leaves all this out.                                                    *)
(***************************************************************************)
EXTENDS Ip2MacTable

CONSTANT Block      \* entries by which the table grows, 1024 in the code

ASSUME BlockAssumption == Block \in Nat \ {0}

VARIABLES
    tbl,
    no,         \* slots used so far
    size,       \* slots there is memory for
    block,      \* which block of memory: realloc may move the table
    ptr,        \* what the buffer thread holds: a slot in a block, or <<>>
    peak        \* history: the most entries that were live at a time

vars == <<tbl, no, size, block, ptr, peak>>

Init ==
    /\ tbl = EmptyTable
    /\ no = 0 /\ size = 0 /\ block = 0
    /\ ptr = <<>>
    /\ peak = 0

(* Mistake: the slots this scan has freed do not count. *)
FreeSlotsBefore(a, hw) == {s \in 1..no : ~Live(tbl[s])}

FreeSlots(a, hw) == {s \in 1..no : ~Live(tbl[s])} \cup Expired(tbl, a, hw)

(* freeNo == -1 after the scan. *)
Grows(a, hw) == ~Found(tbl, a, hw) /\ FreeSlots(a, hw) = {}

(* Mistake: freeNo is overwritten by every free slot. *)
SlotForLast(a, hw) ==
    IF Found(tbl, a, hw) THEN Min(Hits(tbl, a, hw))
    ELSE IF Grows(a, hw) THEN no + 1
    ELSE Max(FreeSlots(a, hw))

SlotFor(a, hw) ==
    IF Found(tbl, a, hw) THEN Min(Hits(tbl, a, hw))
    ELSE IF Grows(a, hw) THEN no + 1
    ELSE Min(FreeSlots(a, hw))

(* Mistake: the table is moved whenever it grows. *)
ReallocAlways(a, hw) ==
    IF Grows(a, hw)
    THEN /\ size' = IF no >= size THEN size + Block ELSE size
         /\ block' \in {block, block + 1}
    ELSE UNCHANGED <<size, block>>

(* malloc the first time, realloc later. *)
Realloc(a, hw) ==
    IF Grows(a, hw) /\ no >= size
    THEN /\ size' = size + Block
         /\ block' \in IF size = 0 THEN {block} ELSE {block, block + 1}
    ELSE UNCHANGED <<size, block>>

Ip2MacSearch(a, hw) ==
    /\ SlotFor(a, hw) \in Slot
    /\ tbl' = [s \in Slot |->
                IF s = SlotFor(a, hw)
                THEN IF Found(tbl, a, hw) THEN Refreshed(tbl[s], hw) ELSE NewEntry(a, hw)
                ELSE IF s \in Expired(tbl, a, hw) THEN [tbl[s] EXCEPT !.flag = "FREE"]
                ELSE tbl[s]]
    /\ no' = IF Grows(a, hw) THEN no + 1 ELSE no
    /\ Realloc(a, hw)
    /\ peak' = Max({peak, Cardinality({s \in Slot : Live(tbl'[s])})})
    /\ UNCHANGED ptr

(* BufferSendOne(deviceNo, &Ip2Macs[deviceNo].data[s]), and its return. *)
Hold(s) ==
    /\ ptr = <<>> /\ s <= no
    /\ ptr' = <<s, block>>
    /\ UNCHANGED <<tbl, no, size, block, peak>>

Release ==
    /\ ptr # <<>>
    /\ ptr' = <<>>
    /\ UNCHANGED <<tbl, no, size, block, peak>>

Tick == tbl' = Aged(tbl) /\ UNCHANGED <<no, size, block, ptr, peak>>

Next ==
    \/ \E a \in Addr, hw \in Mac \cup {NoMac} : Ip2MacSearch(a, hw)
    \/ \E s \in Slot : Hold(s)
    \/ Release \/ Tick

Spec == Init /\ [][Next]_vars

-----------------------------------------------------------------------------

(* Every slot in use has memory: growth by blocks keeps ahead of the slots *)
(* (ip2mac.c:102).  And there are no more of them than entries that were   *)
(* live at one time: what expires is used again before the table grows, in *)
(* the scan that frees it too (ip2mac.c:75, ip2mac.c:93).                  *)
TightTable ==
    /\ no <= size /\ no <= peak
    /\ \A s \in Slot : s > no => tbl[s] = EmptyTable[s]

(* The pointer the buffer thread holds is lost under it only if more       *)
(* entries than a block holds were live at one time (ip2mac.c:110).        *)
PointerKept == ptr # <<>> /\ ptr[2] # block => peak > Block

Slots == INSTANCE Ip2Mac

(* Slots that have never been used can be thought of as free ones, as      *)
(* Ip2MacTable does: the slot taken is the same.                           *)
ImplementsSlots == Slots!Spec

(* The table that grows is a map too, and holds no address twice           *)
(* (ip2mac.c:83): what Ip2Mac says of the slots, here of those of the code. *)
ImplementsBook == Slots!ImplementsBook
UniqueAddr     == Slots!UniqueAddr

=============================================================================
