------------------------- MODULE Ip2MacTable_proofs ------------------------
(***************************************************************************)
(* Lemmas about Ip2MacSearch as an operator on the table of one device.    *)
(***************************************************************************)
EXTENDS Ip2MacTable, FiniteSetTheorems, WellFoundedInduction, TLAPS

(* A set of numbers has a least member. *)
LEMMA LeastNumber ==
    ASSUME NEW S \in SUBSET Nat, S # {}
    PROVE  \E n \in S : \A m \in S : n <= m
<1> DEFINE Less == OpToRel(<, Nat)
<1>1. \A x, y \in Nat : x < y => <<x, y>> \in Less
  <2> SUFFICES ASSUME NEW x \in Nat, NEW y \in Nat, x < y
               PROVE  <<x, y>> \in Less
    OBVIOUS
  <2> QED
    BY <<x, y>> \in Nat \X Nat, Zenon DEF OpToRel
<1>2. IsWellFoundedOn(Less, Nat)
  BY NatLessThanWellFounded
<1> HIDE DEF Less
<1>3. PICK x \in S : \A y \in S : ~(<<y, x>> \in Less)
  BY <1>2, WFMin
<1>4. \A y \in S : ~(y < x)
  BY <1>1, <1>3, Zenon
<1> QED
  BY <1>4

(* Induction: a set of numbers that has 0 and the successor of each member *)
(* has them all.  A proof by induction gives it the set of the numbers for *)
(* which its claim holds.                                                  *)
LEMMA AllNumbers ==
    ASSUME NEW S \in SUBSET Nat, 0 \in S, \A n \in S : n + 1 \in S
    PROVE  S = Nat
<1> SUFFICES ASSUME S # Nat PROVE FALSE
  OBVIOUS
<1>1. PICK n \in Nat \ S : \A m \in Nat \ S : n <= m
  BY LeastNumber
<1>2. n - 1 \in Nat
  BY n # 0
<1>3. n - 1 \in S
  BY <1>1, <1>2
<1> QED
  BY <1>2, <1>3

(* Min is the least element of a set of slots: the scan of Ip2MacSearch    *)
(* (ip2mac.c:45) meets the slots in order.                                 *)
LEMMA MinSlot ==
    ASSUME NEW S \in SUBSET Slot, S # {}
    PROVE  /\ Min(S) \in S
           /\ \A s \in S : Min(S) <= s
<1>1. Slot \subseteq Nat
  BY SlotAssumption DEF Slot
<1>2. PICK x \in S : \A y \in S : x <= y
  BY <1>1, LeastNumber
<1> QED
  BY <1>2, Zenon DEF Min

-----------------------------------------------------------------------------
(* Ip2MacSearch                                                            *)

(* The slot Ip2MacSearch returns is the first that holds the address or,   *)
(* when none does, one that is free by the end of the scan.                *)
LEMMA PlaceProperties ==
    ASSUME NEW t, NEW a, NEW hw, HasRoom(t, a, hw)
    PROVE  /\ Place(t, a, hw) \in Slot
           /\ Found(t, a, hw) => Place(t, a, hw) \in Hits(t, a, hw)
           /\ ~Found(t, a, hw) => Place(t, a, hw) \in Free(t, a, hw)
<1>1. Hits(t, a, hw) \in SUBSET Slot /\ Free(t, a, hw) \in SUBSET Slot
  BY DEF Hits, Free, Expired, Scanned
<1>2. CASE Found(t, a, hw)
  BY <1>1, <1>2, MinSlot DEF Place, Found
<1>3. CASE ~Found(t, a, hw)
  BY <1>1, <1>3, MinSlot DEF Place, HasRoom
<1> QED
  BY <1>2, <1>3

(* Ip2MacSearch leaves a well-formed table. *)
LEMMA SearchedType ==
    ASSUME NEW t \in Table, NEW a \in Addr, NEW hw \in Mac \cup {NoMac},
           HasRoom(t, a, hw)
    PROVE  Searched(t, a, hw) \in Table
<1>1. ASSUME NEW e \in Entry PROVE Refreshed(e, hw) \in Entry
  BY <1>1, TimeAssumption DEF Refreshed, Entry, Flag, MaxAge
<1>2. NewEntry(a, hw) \in Entry
  BY TimeAssumption DEF NewEntry, Entry, Flag, MaxAge
<1>3. ASSUME NEW e \in Entry PROVE [e EXCEPT !.flag = "FREE"] \in Entry
  BY <1>3 DEF Entry, Flag
<1> QED
  BY <1>1, <1>2, <1>3, Zenon DEF Searched, Table

(* When the search finds no entry to return, every live entry of the       *)
(* address is one it frees: it has seen the whole table.                   *)
LEMMA NotFoundFreesAll ==
    ASSUME NEW t \in Table, NEW a \in Addr, NEW hw,
           ~Found(t, a, hw),
           NEW s \in Slot, Live(t[s]), t[s].addr = a
    PROVE  s \in Expired(t, a, hw)
BY DEF Found, Hits, Expired, Scanned, Live, TimedOut, Table, Entry, Flag

(* Ip2MacSearch never enters an address a second time. *)
LEMMA SearchedUnique ==
    ASSUME NEW t \in Table, NEW a \in Addr, NEW hw \in Mac \cup {NoMac},
           HasRoom(t, a, hw), Unique(t)
    PROVE  Unique(Searched(t, a, hw))
<1> DEFINE p == Place(t, a, hw)
           u == Searched(t, a, hw)
<1>1. p \in Slot
  BY PlaceProperties
<1>2. ASSUME NEW s \in Slot, s # p, Live(u[s])
      PROVE  /\ Live(t[s]) /\ u[s].addr = t[s].addr
             /\ s \notin Expired(t, a, hw)
  <2>1. t[s] \in Entry
    BY DEF Table
  <2> QED
    BY <1>2, <2>1 DEF Searched, Live, Entry
<1>3. CASE Found(t, a, hw)
  <2>1. Live(t[p]) /\ t[p].addr = a /\ t[p] \in Entry
    BY <1>1, <1>3, PlaceProperties DEF Hits, Table
  <2>2. u[p].addr = a
    BY <1>1, <1>3, <2>1 DEF Searched, Refreshed, Entry
  <2> QED
    BY <1>1, <1>2, <2>1, <2>2 DEF Unique
<1>4. CASE ~Found(t, a, hw)
  <2>1. u[p].addr = a
    BY <1>1, <1>4 DEF Searched, NewEntry
  <2>2. \A s \in Slot : s # p /\ Live(u[s]) => u[s].addr # a
    BY <1>2, <1>4, NotFoundFreesAll
  <2> QED
    BY <1>1, <1>2, <2>1, <2>2 DEF Unique
<1> QED
  BY <1>3, <1>4

(* Ip2MacSearch fills the entries it leaves live. *)
LEMMA SearchedFilled ==
    ASSUME NEW t \in Table, NEW a \in Addr, NEW hw \in Mac \cup {NoMac},
           HasRoom(t, a, hw), FilledTable(t)
    PROVE  FilledTable(Searched(t, a, hw))
<1> DEFINE p == Place(t, a, hw)
           u == Searched(t, a, hw)
<1> SUFFICES ASSUME NEW s \in Slot, Live(u[s])
             PROVE  u[s].addr \in Addr /\ (u[s].flag = "OK" => u[s].hwaddr \in Mac)
  BY DEF FilledTable
<1>1. t[s] \in Entry
  BY DEF Table
<1>2. CASE s = p /\ Found(t, a, hw)
  <2>1. s \in Hits(t, a, hw)
    BY <1>2, PlaceProperties
  <2>2. u[s] = Refreshed(t[s], hw)
    BY <1>2 DEF Searched
  <2> QED
    BY <2>1, <2>2 DEF Refreshed, Hits, FilledTable
<1>3. CASE s = p /\ ~Found(t, a, hw)
  <2>1. u[s] = NewEntry(a, hw)
    BY <1>3 DEF Searched
  <2> QED
    BY <2>1 DEF NewEntry
<1>4. CASE s # p
  BY <1>1, <1>4 DEF Searched, Live, Entry, FilledTable
<1> QED
  BY <1>2, <1>3, <1>4

(* Ip2MacSearch returns a live entry of `a`, resolved when it is given a   *)
(* hwaddr; the other entries it leaves as they are or frees.               *)
LEMMA SearchedEntries ==
    ASSUME NEW t \in Table, NEW a \in Addr, NEW hw \in Mac \cup {NoMac},
           HasRoom(t, a, hw)
    PROVE  LET p == Place(t, a, hw)
               u == Searched(t, a, hw)
           IN  /\ Live(u[p]) /\ u[p].addr = a
               /\ hw # NoMac => u[p].flag = "OK" /\ u[p].hwaddr = hw
               /\ hw = NoMac /\ u[p].flag = "OK" =>
                      t[p].flag = "OK" /\ t[p].addr = a /\ u[p].hwaddr = t[p].hwaddr
               /\ \A s \in Slot : s # p /\ Live(u[s]) =>
                      u[s] = t[s] /\ s \notin Expired(t, a, hw)
               /\ \A s \in Slot : Live(t[s]) /\ s \notin Expired(t, a, hw) =>
                      /\ Live(u[s]) /\ u[s].addr = t[s].addr
                      /\ t[s].flag = "OK" => u[s].flag = "OK"
                      /\ s = p => Found(t, a, hw)
               /\ Found(t, a, hw) => Live(t[p]) /\ p \notin Expired(t, a, hw)
<1> DEFINE p == Place(t, a, hw)
           u == Searched(t, a, hw)
<1>1. p \in Slot /\ t[p] \in Entry
  BY PlaceProperties DEF Table
<1>2. u[p] = IF Found(t, a, hw) THEN Refreshed(t[p], hw) ELSE NewEntry(a, hw)
  BY <1>1 DEF Searched
<1>3. Found(t, a, hw) => Live(t[p]) /\ t[p].addr = a /\ p \notin Expired(t, a, hw)
  <2>1. Found(t, a, hw) => p \in Hits(t, a, hw)
    BY PlaceProperties
  <2>2. ~(p < p)
    BY <1>1, SlotAssumption DEF Slot
  <2> QED
    BY <2>1, <2>2 DEF Hits, Expired, Scanned
<1>4. ~Found(t, a, hw) => ~Live(t[p]) \/ p \in Expired(t, a, hw)
  BY PlaceProperties DEF Free
<1>5. ASSUME NEW s \in Slot, s # p
      PROVE  u[s] = IF s \in Expired(t, a, hw) THEN [t[s] EXCEPT !.flag = "FREE"] ELSE t[s]
  BY <1>5 DEF Searched
<1> HIDE DEF p, u
<1>6. /\ Live(u[p]) /\ u[p].addr = a
      /\ hw # NoMac => u[p].flag = "OK" /\ u[p].hwaddr = hw
  BY <1>2, <1>3 DEF Refreshed, NewEntry, Live
<1>7. hw = NoMac /\ u[p].flag = "OK" =>
          t[p].flag = "OK" /\ t[p].addr = a /\ u[p].hwaddr = t[p].hwaddr
  BY <1>2, <1>3 DEF Refreshed, NewEntry
<1>8. ASSUME NEW s \in Slot, s # p, Live(u[s])
      PROVE  u[s] = t[s] /\ s \notin Expired(t, a, hw)
  <2>1. t[s] \in Entry
    BY DEF Table
  <2> QED
    BY <1>5, <1>8, <2>1 DEF Live, Entry
<1>9. ASSUME NEW s \in Slot, Live(t[s]), s \notin Expired(t, a, hw)
      PROVE  /\ Live(u[s]) /\ u[s].addr = t[s].addr
             /\ t[s].flag = "OK" => u[s].flag = "OK"
             /\ s = p => Found(t, a, hw)
  <2>1. CASE s = p
    BY <1>2, <1>3, <1>4, <1>6, <1>9, <2>1 DEF Refreshed
  <2>2. CASE s # p
    BY <1>5, <1>9, <2>2
  <2> QED
    BY <2>1, <2>2
<1> QED
  BY <1>3, <1>6, <1>7, <1>8, <1>9 DEF p, u

(* A second changes nothing but ages. *)
LEMMA AgedProperties ==
    ASSUME NEW t \in Table
    PROVE  /\ Aged(t) \in Table
           /\ \A s \in Slot :
                /\ Aged(t)[s].flag = t[s].flag
                /\ Aged(t)[s].addr = t[s].addr
                /\ Aged(t)[s].hwaddr = t[s].hwaddr
<1> SUFFICES ASSUME NEW s \in Slot
             PROVE  /\ Aged(t)[s] \in Entry
                    /\ Aged(t)[s].flag = t[s].flag
                    /\ Aged(t)[s].addr = t[s].addr
                    /\ Aged(t)[s].hwaddr = t[s].hwaddr
  BY Zenon DEF Table, Aged
<1>1. t[s] \in Entry
  BY DEF Table
<1> QED
  BY <1>1, TimeAssumption DEF Aged, Entry, MaxAge

(* With a slot for each address a search always finds one: when all slots  *)
(* are live they hold different addresses, so one of them holds the        *)
(* address asked for, and the scan either returns it or frees it.          *)
LEMMA AlwaysFound ==
    ASSUME IsFiniteSet(Addr), Cardinality(Addr) <= MaxSlot,
           NEW t \in Table, Unique(t), FilledTable(t),
           NEW a \in Addr, NEW hw \in Mac \cup {NoMac}
    PROVE  HasRoom(t, a, hw)
<1> SUFFICES ASSUME ~HasRoom(t, a, hw) PROVE FALSE
  OBVIOUS
<1> DEFINE others == Addr \ {a}
           f == [s \in Slot |-> t[s].addr]
<1>1. \A s \in Slot : Live(t[s]) /\ s \notin Expired(t, a, hw)
  BY DEF HasRoom, Free
<1>2. ~Found(t, a, hw)
  BY DEF HasRoom
<1>3. \A s \in Slot : t[s].addr \in others
  BY <1>1, <1>2, NotFoundFreesAll DEF FilledTable
<1>4. f \in Injection(Slot, others)
  BY <1>1, <1>3 DEF Injection, IsInjective, Unique
<1>5. IsFiniteSet(others) /\ Cardinality(others) = Cardinality(Addr) - 1
  BY FS_RemoveElement
<1>6. Cardinality(Slot) <= Cardinality(others)
  BY <1>4, <1>5, FS_Injection
<1>7. Cardinality(Slot) = MaxSlot
  <2>1. 1 \in Int /\ MaxSlot \in Int /\ ~(1 > MaxSlot)
    BY SlotAssumption
  <2>2. Cardinality(1..MaxSlot) = MaxSlot - 1 + 1
    BY <2>1, FS_Interval, Zenon
  <2> QED
    BY <2>1, <2>2 DEF Slot
<1> QED
  BY <1>5, <1>6, <1>7, SlotAssumption, FS_CardinalityType

-----------------------------------------------------------------------------
(* The table as a map                                                      *)

(* What the book says of an address is what its live entry says. *)
LEMMA BookSays ==
    ASSUME NEW t \in Table, Unique(t), NEW s \in Slot, Live(t[s]),
           t[s].addr \in Addr
    PROVE  BookOf(t)[t[s].addr] = Said(t[s])
<1> DEFINE a == t[s].addr
           r == CHOOSE x \in Slot : Live(t[x]) /\ t[x].addr = a
<1>1. r \in Slot /\ Live(t[r]) /\ t[r].addr = a
  <2>1. \E x \in Slot : Live(t[x]) /\ t[x].addr = a
    OBVIOUS
  <2> QED
    BY <2>1, Zenon
<1>2. r = s
  BY <1>1, Zenon DEF Unique
<1> HIDE DEF r
<1>3. BookOf(t)[a] = Said(t[r])
  BY Zenon DEF BookOf, r
<1> QED
  BY <1>2, <1>3

(* An address without a live entry is unknown. *)
LEMMA BookUnknown ==
    ASSUME NEW t, NEW a \in Addr,
           \A s \in Slot : ~(Live(t[s]) /\ t[s].addr = a)
    PROVE  BookOf(t)[a] = "unknown"
BY Zenon DEF BookOf

(* What a search does to the book, in the terms of AddressBook: it settles *)
(* the address it is for and forgets some of the others.                   *)
LEMMA SearchedBook ==
    ASSUME NEW t \in Table, NEW a \in Addr, NEW hw \in Mac \cup {NoMac},
           HasRoom(t, a, hw), Unique(t), FilledTable(t)
    PROVE  LET u == Searched(t, a, hw)
           IN  /\ hw \in Mac => BookOf(u)[a] = hw
               /\ hw = NoMac /\ BookOf(t)[a] = "unknown" => BookOf(u)[a] = "asking"
               /\ hw = NoMac /\ BookOf(t)[a] # "unknown" => BookOf(u)[a] = BookOf(t)[a]
               /\ \A x \in Addr \ {a} :
                     BookOf(u)[x] # "unknown" => BookOf(u)[x] = BookOf(t)[x]
<1> DEFINE p == Place(t, a, hw)
           u == Searched(t, a, hw)
<1>1. p \in Slot
  BY PlaceProperties
<1>2. u \in Table /\ Unique(u) /\ FilledTable(u)
  BY SearchedType, SearchedUnique, SearchedFilled
<1>3. \A s \in Slot : t[s] \in Entry
  BY DEF Table
<1>4. u[p] = IF Found(t, a, hw) THEN Refreshed(t[p], hw) ELSE NewEntry(a, hw)
  BY <1>1 DEF Searched
<1>5. Found(t, a, hw) => Live(t[p]) /\ t[p].addr = a
  BY <1>1, PlaceProperties DEF Hits
<1>6. Live(u[p]) /\ u[p].addr = a
  BY <1>4, <1>5 DEF Refreshed, NewEntry, Live
<1> HIDE DEF p, u
<1>7. BookOf(u)[a] = Said(u[p])
  BY <1>1, <1>2, <1>6, BookSays
<1>8. ASSUME hw \in Mac PROVE BookOf(u)[a] = hw
  BY <1>4, <1>7, <1>8, MacAssumption DEF Refreshed, NewEntry, Said
<1>9. ASSUME hw = NoMac, Found(t, a, hw)
      PROVE  BookOf(u)[a] = BookOf(t)[a] /\ BookOf(t)[a] # "unknown"
  <2>1. BookOf(t)[a] = Said(t[p])
    BY <1>1, <1>5, <1>9, BookSays
  <2>2. Said(u[p]) = Said(t[p])
    BY <1>4, <1>9 DEF Refreshed, Said
  <2>3. Said(t[p]) # "unknown"
    BY <1>1, <1>5, <1>9, BookAssumption DEF Said, FilledTable
  <2> QED
    BY <1>7, <2>1, <2>2, <2>3
<1>10. ASSUME hw = NoMac, ~Found(t, a, hw)
       PROVE  /\ BookOf(u)[a] = "asking"
              /\ BookOf(t)[a] \in {"asking", "unknown"}
  <2>1. BookOf(u)[a] = "asking"
    BY <1>4, <1>7, <1>10 DEF NewEntry, Said
  <2>2. CASE \E s \in Slot : Live(t[s]) /\ t[s].addr = a
    <3>1. PICK s \in Slot : Live(t[s]) /\ t[s].addr = a
      BY <2>2
    <3>2. t[s].flag # "OK"
      BY <1>10, <3>1 DEF Found, Hits
    <3> QED
      BY <2>1, <3>1, <3>2, BookSays DEF Said
  <2>3. CASE \A s \in Slot : ~(Live(t[s]) /\ t[s].addr = a)
    BY <2>1, <2>3, BookUnknown
  <2> QED
    BY <2>2, <2>3
<1>11. ASSUME NEW x \in Addr \ {a}, BookOf(u)[x] # "unknown"
       PROVE  BookOf(u)[x] = BookOf(t)[x]
  <2>1. PICK s \in Slot : Live(u[s]) /\ u[s].addr = x
    BY <1>11, BookUnknown
  <2>2. s # p
    BY <1>6, <2>1
  <2>3. u[s] = t[s]
    BY <1>3, <2>1, <2>2 DEF Searched, u, p, Live, Entry
  <2>4. BookOf(u)[x] = Said(u[s])
    BY <1>2, <2>1, BookSays
  <2>5. BookOf(t)[x] = Said(t[s])
    BY <2>1, <2>3, BookSays
  <2> QED
    BY <2>3, <2>4, <2>5
<1> QED
  BY <1>8, <1>9, <1>10, <1>11, MacAssumption DEF u

(* Nothing is known of any address in an empty table. *)
LEMMA EmptyBook == BookOf(EmptyTable) = [a \in Addr |-> "unknown"]
<1>1. \A s \in Slot : ~Live(EmptyTable[s])
  BY DEF EmptyTable, Live
<1> QED
  BY <1>1, Zenon DEF BookOf

(* Time does not show in what is known. *)
LEMMA AgedBook ==
    ASSUME NEW t \in Table, Unique(t), FilledTable(t)
    PROVE  BookOf(Aged(t)) = BookOf(t)
<1> DEFINE u == Aged(t)
<1>1. /\ u \in Table
      /\ \A s \in Slot : /\ u[s].addr = t[s].addr
                         /\ Live(u[s]) <=> Live(t[s])
                         /\ Said(u[s]) = Said(t[s])
  BY AgedProperties DEF Live, Said
<1> HIDE DEF u
<1>2. Unique(u) /\ FilledTable(t)
  BY <1>1 DEF Unique
<1> SUFFICES ASSUME NEW a \in Addr PROVE BookOf(u)[a] = BookOf(t)[a]
  BY Zenon DEF BookOf, u
<1>3. CASE \E s \in Slot : Live(t[s]) /\ t[s].addr = a
  <2>1. PICK s \in Slot : Live(t[s]) /\ t[s].addr = a
    BY <1>3
  <2> QED
    BY <1>1, <1>2, <2>1, BookSays
<1>4. CASE \A s \in Slot : ~(Live(t[s]) /\ t[s].addr = a)
  BY <1>1, <1>4, BookUnknown
<1> QED
  BY <1>3, <1>4

=============================================================================
