---------------------------- MODULE Ip2MacTable ----------------------------
(***************************************************************************)
(* The ARP table of one device (struct Ip2Macs[deviceNo] in                *)
(* router/ip2mac.c) as a value, and Ip2MacSearch as an operator on it.     *)
(*                                                                         *)
(* A slot the program has never used is FREE here.  In the code such a     *)
(* slot is one at an index >= `no`, and it is taken (no++) only when no    *)
(* used slot is free, so in both the slot taken is the least free one.     *)
(* The memory of the table is in TableGrowth.                              *)
(***************************************************************************)
EXTENDS Integers, FiniteSetsExt

CONSTANTS
    Addr,       \* IPv4 addresses that are looked up or learned on a segment
    Mac,        \* hardware addresses
    NoMac,      \* hwaddr == NULL in a call, and the zeroed hwaddr of an entry
    NoAddr,     \* the address field of a slot never used
    MaxSlot,    \* slots of the table
    OkTimeout,  \* IP2MAC_TIMEOUT_SEC (60 in the code)
    NgTimeout   \* IP2MAC_NG_TIMEOUT_SEC (1 in the code)

ASSUME MacAssumption  == NoMac \notin Mac
ASSUME BookAssumption == Mac \cap {"unknown", "asking"} = {}   \* see AddressBook
ASSUME SlotAssumption == MaxSlot \in Nat \ {0}
ASSUME TimeAssumption == /\ OkTimeout \in Nat
                         /\ NgTimeout \in 0..OkTimeout

Slot == 1..MaxSlot

Flag == {"FREE", "OK", "NG"}

(* `age` is time(NULL) - lastTime.  No test tells ages above OkTimeout     *)
(* apart, so it saturates at MaxAge.                                       *)
MaxAge == OkTimeout + 1

Entry == [flag : Flag, addr : Addr \cup {NoAddr},
          hwaddr : Mac \cup {NoMac}, age : 0..MaxAge]

Table == [Slot -> Entry]

EmptyTable ==
    [s \in Slot |-> [flag |-> "FREE", addr |-> NoAddr, hwaddr |-> NoMac, age |-> 0]]

Live(e) == e.flag # "FREE"

TimedOut(e) == \/ e.flag = "OK" /\ e.age > OkTimeout
               \/ e.flag = "NG" /\ e.age > NgTimeout

(* Mistake: the scan stops at the first free slot. *)
HitsBeforeFree(t, a, hw) ==
    {s \in Slot : /\ \A r \in 1..s : Live(t[r])
                  /\ t[s].addr = a
                  /\ hw # NoMac \/ t[s].flag = "OK" \/ ~TimedOut(t[s])}

(* The slots at which the scan for `a` returns.  A hwaddr given by the     *)
(* caller is stored whatever the age; without one, an OK entry has just    *)
(* had its lastTime set to now, so only an NG entry can be too old.        *)
Hits(t, a, hw) ==
    {s \in Slot : /\ Live(t[s])
                  /\ t[s].addr = a
                  /\ hw # NoMac \/ t[s].flag = "OK" \/ ~TimedOut(t[s])}

(* The slots passed before the scan returns, or all of them. *)
Scanned(t, a, hw) == {s \in Slot : \A h \in Hits(t, a, hw) : s < h}

(* The slots the scan frees on its way, dropping what they have queued. *)
Expired(t, a, hw) == {s \in Scanned(t, a, hw) : Live(t[s]) /\ TimedOut(t[s])}

Free(t, a, hw) == {s \in Slot : ~Live(t[s])} \cup Expired(t, a, hw)

Found(t, a, hw) == Hits(t, a, hw) # {}

HasRoom(t, a, hw) == Found(t, a, hw) \/ Free(t, a, hw) # {}

(* The slot Ip2MacSearch returns. *)
Place(t, a, hw) == Min(IF Found(t, a, hw) THEN Hits(t, a, hw) ELSE Free(t, a, hw))

(* Mistake: the flag is set outside the test of the hwaddr. *)
RefreshedAlwaysOk(e, hw) ==
    [flag   |-> "OK",
     addr   |-> e.addr,
     hwaddr |-> IF hw = NoMac THEN e.hwaddr ELSE hw,
     age    |-> IF e.flag = "OK" THEN 0 ELSE e.age]

(* lastTime is set before the flag: an NG entry that becomes OK keeps the  *)
(* lastTime it was created with.                                           *)
Refreshed(e, hw) ==
    [flag   |-> IF hw = NoMac THEN e.flag ELSE "OK",
     addr   |-> e.addr,
     hwaddr |-> IF hw = NoMac THEN e.hwaddr ELSE hw,
     age    |-> IF e.flag = "OK" THEN 0 ELSE e.age]

NewEntry(a, hw) ==
    [flag |-> IF hw = NoMac THEN "NG" ELSE "OK", addr |-> a, hwaddr |-> hw, age |-> 0]

(* The table Ip2MacSearch leaves. *)
Searched(t, a, hw) ==
    [s \in Slot |->
        IF s = Place(t, a, hw)
        THEN IF Found(t, a, hw) THEN Refreshed(t[s], hw) ELSE NewEntry(a, hw)
        ELSE IF s \in Expired(t, a, hw) THEN [t[s] EXCEPT !.flag = "FREE"]
        ELSE t[s]]

(* One second passes. *)
Aged(t) ==
    [s \in Slot |->
        IF Live(t[s]) /\ t[s].age < MaxAge THEN [t[s] EXCEPT !.age = @ + 1] ELSE t[s]]

(* No two live slots hold the same address. *)
Unique(t) ==
    \A r, s \in Slot :
        Live(t[r]) /\ Live(t[s]) /\ t[r].addr = t[s].addr => r = s

(* A live entry names a host, and knows its hwaddr once it is resolved. *)
FilledTable(t) ==
    \A s \in Slot :
        Live(t[s]) => /\ t[s].addr \in Addr
                      /\ t[s].flag = "OK" => t[s].hwaddr \in Mac

(* What the live slots say of each address. *)
Said(e) == IF e.flag = "OK" THEN e.hwaddr ELSE "asking"

BookOf(t) ==
    [a \in Addr |->
        IF \E s \in Slot : Live(t[s]) /\ t[s].addr = a
        THEN Said(t[CHOOSE s \in Slot : Live(t[s]) /\ t[s].addr = a])
        ELSE "unknown"]

=============================================================================
