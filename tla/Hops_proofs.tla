---------------------------- MODULE Hops_proofs -----------------------------
(***************************************************************************)
(* What a packet's header says of it, on networks of any size and shape.   *)
(***************************************************************************)
EXTENDS Hops, TLAPS

Header ==
    [dhost : Addr, shost : Addr, src : Addr, dst : Addr, ttl : 0..(TtlRange - 1), sound : BOOLEAN]

History ==
    [born : 0..(TtlRange - 1), hops : Nat, error : BOOLEAN, waited : BOOLEAN, damaged : BOOLEAN]

TypeOK ==
    /\ frame \in Header
    /\ path \in History
    /\ place \in {"air", "parked", "gone"}
    /\ place = "parked" => holder \in Addr \X Addr

(* What is parked has passed the tests of AnalyzePacket. *)
ParkedOK == place = "parked" => frame.sound /\ frame.ttl # 1

HopInv == TypeOK /\ ParkedOK /\ HopCount /\ NothingMended

(* Devices and next hops have addresses. *)
LEMMA Addresses ==
    ASSUME TypeOK, NEW r \in Router, NEW d \in Dev
    PROVE  Device[r][d] \in Addr /\ Device[r][1 - d] \in Addr /\ NextHop(r, d) \in Addr
<1>1. 1 - d \in Dev
  BY DEF Dev
<1>2. Device[r][d] \in Addr /\ Device[r][1 - d] \in Addr
  BY <1>1, RouterAssumption, AddrAssumption
<1> QED
  BY <1>2, RouterAssumption DEF NextHop, TypeOK, Header

(* The ttl of a packet that has not expired, less one. *)
LEMMA Decrement ==
    ASSUME TypeOK
    PROVE  /\ (frame.ttl - 1) % TtlRange \in 0..(TtlRange - 1)
           /\ frame.ttl > 0 => (frame.ttl - 1) % TtlRange = frame.ttl - 1
<1>1. TtlRange \in Nat \ {0} /\ frame.ttl \in 0..(TtlRange - 1)
  BY TtlAssumption DEF TypeOK, Header
<1>2. (frame.ttl - 1) % TtlRange \in 0..(TtlRange - 1)
  BY <1>1
<1>3. frame.ttl > 0 => (frame.ttl - 1) % TtlRange = frame.ttl - 1
  BY <1>1
<1> QED
  BY <1>2, <1>3

(* A packet that is rewritten, by either thread. *)
LEMMA Rewrite ==
    ASSUME HopInv, frame.sound, frame.ttl # 1, place # "gone",
           NEW m \in Addr, NEW n \in Addr, NEW w \in BOOLEAN,
           frame' = [frame EXCEPT !.dhost = m, !.shost = n,
                                  !.ttl = (frame.ttl - 1) % TtlRange, !.sound = TRUE],
           path' = [path EXCEPT !.hops = path.hops + 1, !.waited = w],
           place' = "air"
    PROVE  HopInv'
<1>1. frame \in Header /\ path \in History
  BY DEF HopInv, TypeOK
<1>2. /\ frame'.ttl = (frame.ttl - 1) % TtlRange
      /\ path'.hops = path.hops + 1 /\ path'.born = path.born /\ path'.damaged = path.damaged
  BY <1>1 DEF Header, History
<1>3. frame' \in Header
  BY <1>1, Decrement DEF HopInv, Header
<1>4. path' \in History
  <2>1. path.hops + 1 \in Nat
    BY <1>1 DEF History
  <2>2. [path EXCEPT !.hops = path.hops + 1] \in History
    BY <1>1, <2>1 DEF History
  <2>3. path' = [[path EXCEPT !.hops = path.hops + 1] EXCEPT !.waited = w]
    OBVIOUS
  <2> QED
    BY <2>2, <2>3 DEF History
<1>5. TypeOK' /\ ParkedOK'
  BY <1>3, <1>4 DEF TypeOK, ParkedOK
<1>6. ~path.damaged
  BY DEF HopInv, NothingMended
<1>7. NothingMended'
  BY <1>2, <1>6 DEF NothingMended
<1>8. ASSUME path'.born > 0 PROVE frame'.ttl > 0 /\ frame'.ttl + path'.hops = path'.born
  <2>1. frame.ttl > 0 /\ frame.ttl + path.hops = path.born
    BY <1>2, <1>8 DEF HopInv, HopCount
  <2>2. frame'.ttl = frame.ttl - 1
    BY <1>2, <2>1, Decrement DEF HopInv
  <2> QED
    BY <1>1, <1>2, <2>1, <2>2 DEF Header, History
<1> QED
  BY <1>5, <1>7, <1>8 DEF HopInv, HopCount

(* A packet is born with no hops behind it.                                *)
LEMMA InitHops == Init => HopInv
<1> SUFFICES ASSUME Init PROVE HopInv
  OBVIOUS
<1>1. PICK src \in Port \ RouterPort, dst \in Addr, via \in RouterPort, ttl \in 0..(TtlRange - 1) :
        /\ frame = [dhost |-> via, shost |-> src, src |-> src, dst |-> dst, ttl |-> ttl, sound |-> TRUE]
        /\ path = NewPath(ttl)
  BY DEF Init
<1>2. via \in Addr /\ src \in Addr
  BY RouterAssumption, AddrAssumption DEF RouterPort
<1>3. frame \in Header /\ path \in History
  BY <1>1, <1>2, TtlAssumption DEF Header, History, NewPath
<1> QED
  BY <1>1, <1>3, TtlAssumption DEF Init, HopInv, TypeOK, ParkedOK, HopCount, NothingMended, NewPath

(* Whatever goes is left as it was. *)
LEMMA GoneHops == ASSUME HopInv, NEW who, Gone(who) PROVE HopInv'
  BY DEF HopInv, TypeOK, ParkedOK, HopCount, NothingMended, Gone

(* Every step keeps the invariant. *)
LEMMA NextHops == HopInv /\ [Next]_vars => HopInv'
<1> SUFFICES ASSUME HopInv, [Next]_vars PROVE HopInv'
  OBVIOUS
<1>0. TypeOK /\ frame \in Header /\ path \in History
  BY DEF HopInv, TypeOK
<1>1. ASSUME NEW r \in Router, NEW d \in Dev, BadChecksum(r, d) PROVE HopInv'
  BY <1>1, GoneHops DEF BadChecksum
<1>2. ASSUME NEW r \in Router, NEW d \in Dev, SendIcmpTimeExceeded(r, d) PROVE HopInv'
  <2>1. place' = "air" /\ Device[r][d] \in Addr
    BY <1>0, <1>2, Addresses DEF SendIcmpTimeExceeded, Heard
  <2>2. frame' = [dhost |-> frame.shost, shost |-> Device[r][d], src |-> Device[r][d],
                  dst |-> frame.src, ttl |-> IcmpTtl, sound |-> TRUE]
    BY <1>2 DEF SendIcmpTimeExceeded
  <2>3. path' = [born |-> IcmpTtl, hops |-> 0, error |-> TRUE, waited |-> path.waited, damaged |-> FALSE]
    BY <1>2 DEF SendIcmpTimeExceeded, NewPath
  <2>4. frame' \in Header /\ path' \in History
    BY <1>0, <2>1, <2>2, <2>3, TtlAssumption DEF Header, History
  <2> QED
    BY <2>1, <2>2, <2>3, <2>4, TtlAssumption
    DEF HopInv, TypeOK, ParkedOK, HopCount, NothingMended
<1>3. ASSUME NEW r \in Router, NEW d \in Dev, MyAddr(r, d) PROVE HopInv'
  BY <1>3, GoneHops DEF MyAddr
<1>4. ASSUME NEW r \in Router, NEW d \in Dev, Write(r, d) PROVE HopInv'
  <2>1. NextHop(r, d) \in Addr /\ Device[r][1 - d] \in Addr
    BY <1>0, Addresses
  <2>2. frame.sound /\ frame.ttl # 1 /\ place = "air"
    BY <1>0, <1>4 DEF Write, ToForward, Heard, ChecksumOk, Expired, Header
  <2>3. path' = [path EXCEPT !.hops = path.hops + 1, !.waited = path.waited]
    BY <1>0, <1>4 DEF Write, History
  <2>4. frame' = [frame EXCEPT !.dhost = NextHop(r, d), !.shost = Device[r][1 - d],
                               !.ttl = (frame.ttl - 1) % TtlRange, !.sound = TRUE]
    BY <1>4 DEF Write
  <2>5. path.waited \in BOOLEAN /\ place' = "air"
    BY <1>0, <1>4, <2>2 DEF Write, History
  <2> QED
    BY <2>1, <2>2, <2>3, <2>4, <2>5, Rewrite
<1>5. ASSUME NEW r \in Router, NEW d \in Dev, Park(r, d) PROVE HopInv'
  <2>1. NextHop(r, d) \in Addr /\ Device[r][1 - d] \in Addr
    BY <1>0, Addresses
  <2>2. frame.sound /\ frame.ttl # 1 /\ place = "air"
    BY <1>0, <1>5 DEF Park, ToForward, Heard, ChecksumOk, Expired, Header
  <2> QED
    BY <1>5, <2>1, <2>2 DEF Park, HopInv, TypeOK, ParkedOK, HopCount, NothingMended
<1>6. CASE BufferSendOne
  <2>1. holder \in Addr \X Addr /\ frame.sound /\ frame.ttl # 1 /\ place = "parked"
    BY <1>6 DEF BufferSendOne, HopInv, TypeOK, ParkedOK
  <2>2. frame' = [frame EXCEPT !.dhost = holder[2], !.shost = frame.shost,
                               !.ttl = (frame.ttl - 1) % TtlRange, !.sound = TRUE]
    BY <1>0, <1>6 DEF BufferSendOne, Header
  <2>3. path' = [path EXCEPT !.hops = path.hops + 1, !.waited = TRUE] /\ place' = "air"
    BY <1>6 DEF BufferSendOne
  <2>4. holder[2] \in Addr /\ frame.shost \in Addr
    BY <1>0, <2>1 DEF Header
  <2> QED
    BY <2>1, <2>2, <2>3, <2>4, Rewrite
<1>7. CASE FreeSendData
  BY <1>7, GoneHops DEF FreeSendData
<1>8. CASE HostTakes
  BY <1>8, GoneHops DEF HostTakes
<1>9. CASE Unheard
  BY <1>9, GoneHops DEF Unheard
<1>10. CASE Damage
  <2>1. frame' = [frame EXCEPT !.sound = FALSE] /\ path' = [path EXCEPT !.damaged = TRUE]
    BY <1>10 DEF Damage
  <2>2. /\ frame'.ttl = frame.ttl /\ ~frame'.sound
        /\ path'.hops = path.hops /\ path'.born = path.born
        /\ frame' \in Header /\ path' \in History
    BY <1>0, <2>1 DEF Header, History
  <2> QED
    BY <1>10, <2>2 DEF Damage, HopInv, TypeOK, ParkedOK, HopCount, NothingMended
<1>11. CASE UNCHANGED vars
  BY <1>11 DEF vars, HopInv, TypeOK, ParkedOK, HopCount, NothingMended
<1> QED
  BY <1>1, <1>2, <1>3, <1>4, <1>5, <1>6, <1>7, <1>8, <1>9, <1>10, <1>11
  DEF Next, Routers, AnalyzePacket

(* What the header of a packet says of its hops, on every network.         *)
LEMMA HopInvariant == Spec => []HopInv
  BY InitHops, NextHops, PTL DEF Spec

(* Every hop costs a packet one of its ttl, and none is written or parked  *)
(* with a ttl of 0 unless it was born with 0 (main.c:184, main.c:232,      *)
(* ip2mac.c:191): on any network, a packet makes fewer hops than its ttl.  *)
THEOREM EveryHopCosts == Spec => []HopCount
<1>1. HopInv => HopCount
  BY DEF HopInv
<1> QED
  BY <1>1, HopInvariant, PTL

(* No router forwards a damaged header, however long the packet waited in  *)
(* a bucket between the test and the new checksum (main.c:179, main.c:233, *)
(* ip2mac.c:194).                                                          *)
THEOREM DamageStays == Spec => []NothingMended
<1>1. HopInv => NothingMended
  BY DEF HopInv
<1> QED
  BY <1>1, HopInvariant, PTL

-----------------------------------------------------------------------------
(* How far a packet gets                                                   *)

(* The hops a packet has in it when it is born: a ttl of 0 is not tested   *)
(* for, and wraps round at the first of them.                              *)
Worth == IF path.born = 0 THEN TtlRange ELSE path.born

(* It makes fewer, also when its last one has taken it where it is gone.   *)
HopsBounded == path.hops < Worth

(* What it has left, and what it has spent. *)
Spending ==
    \/ path.hops = 0 /\ frame.ttl = path.born
    \/ frame.ttl > 0 /\ frame.ttl + path.hops = Worth

(* One hop, by either thread: the packet had not expired. *)
LEMMA Spend ==
    ASSUME TypeOK, Spending, frame.ttl # 1, path'.hops = path.hops + 1, path'.born = path.born,
           frame'.ttl = (frame.ttl - 1) % TtlRange
    PROVE  Spending'
<1>1. /\ TtlRange \in Nat \ {0} /\ frame.ttl \in 0..(TtlRange - 1)
      /\ path.hops \in Nat /\ path.born \in 0..(TtlRange - 1)
  BY TtlAssumption DEF TypeOK, Header, History
<1>2. CASE frame.ttl > 0
  <2>1. frame'.ttl = frame.ttl - 1
    BY <1>2, Decrement
  <2> QED
    BY <1>1, <1>2, <2>1 DEF Spending, Worth
<1>3. CASE frame.ttl = 0
  <2>1. path.hops = 0 /\ path.born = 0
    BY <1>1, <1>3 DEF Spending
  <2>2. frame'.ttl = TtlRange - 1
    <3>1. (-1) % TtlRange = TtlRange - 1
      BY <1>1
    <3> QED
      BY <1>3, <3>1
  <2>3. CASE TtlRange = 1
    BY <2>3, TtlAssumption
  <2>4. CASE TtlRange > 1
    BY <1>1, <2>1, <2>2, <2>4 DEF Spending, Worth
  <2> QED
    BY <1>1, <2>3, <2>4
<1> QED
  BY <1>1, <1>2, <1>3

(* Every step keeps the account. *)
LEMMA NextSpending == HopInv /\ Spending /\ [Next]_vars => Spending'
<1> SUFFICES ASSUME HopInv, Spending, [Next]_vars PROVE Spending'
  OBVIOUS
<1>0. TypeOK /\ frame \in Header /\ path \in History
  BY DEF HopInv, TypeOK
<1>1. ASSUME NEW r \in Router, NEW d \in Dev,
             BadChecksum(r, d) \/ MyAddr(r, d) \/ Park(r, d)
      PROVE  Spending'
  BY <1>1 DEF BadChecksum, MyAddr, Park, Gone, Spending, Worth
<1>2. ASSUME NEW r \in Router, NEW d \in Dev, SendIcmpTimeExceeded(r, d) PROVE Spending'
  BY <1>2 DEF SendIcmpTimeExceeded, NewPath, Spending
<1>3. ASSUME NEW r \in Router, NEW d \in Dev, Write(r, d) PROVE Spending'
  <2>1. frame.ttl # 1
    BY <1>0, <1>3 DEF Write, ToForward, Expired, Header
  <2>2. /\ frame'.ttl = (frame.ttl - 1) % TtlRange
        /\ path'.hops = path.hops + 1 /\ path'.born = path.born
    BY <1>0, <1>3 DEF Write, Header, History
  <2> QED
    BY <1>0, <2>1, <2>2, Spend
<1>4. CASE BufferSendOne
  <2>1. frame.ttl # 1
    BY <1>4 DEF BufferSendOne, HopInv, ParkedOK
  <2>2. /\ frame'.ttl = (frame.ttl - 1) % TtlRange
        /\ path'.hops = path.hops + 1 /\ path'.born = path.born
    BY <1>0, <1>4 DEF BufferSendOne, Header, History
  <2> QED
    BY <1>0, <2>1, <2>2, Spend
<1>5. CASE FreeSendData \/ HostTakes \/ Unheard \/ UNCHANGED vars
  BY <1>5 DEF FreeSendData, HostTakes, Unheard, Gone, vars, Spending, Worth
<1>6. CASE Damage
  <2>1. frame'.ttl = frame.ttl /\ path'.hops = path.hops /\ path'.born = path.born
    BY <1>0, <1>6 DEF Damage, Header, History
  <2> QED
    BY <2>1 DEF Spending, Worth
<1> QED
  BY <1>1, <1>2, <1>3, <1>4, <1>5, <1>6 DEF Next, Routers, AnalyzePacket

(* No packet makes as many hops as its ttl, wherever it is at the end, and *)
(* one that was sent with a ttl of 0 not as many as the ttl has values:    *)
(* the test of main.c:184 lets it pass, but it is stopped at last          *)
(* (main.c:232, ip2mac.c:191).                                             *)
THEOREM FewHops == Spec => []HopsBounded
<1>1. Init => Spending
  BY DEF Init, NewPath, Spending
<1>2. HopInv /\ Spending => HopsBounded
  <2> SUFFICES ASSUME HopInv, Spending PROVE path.hops < Worth
    BY DEF HopsBounded
  <2>1. /\ TtlRange \in Nat \ {0} /\ frame.ttl \in 0..(TtlRange - 1)
        /\ path.hops \in Nat /\ path.born \in 0..(TtlRange - 1)
    BY TtlAssumption DEF HopInv, TypeOK, Header, History
  <2> QED
    BY <2>1 DEF Spending, Worth
<1> QED
  BY <1>1, <1>2, NextSpending, HopInvariant, PTL DEF Spec

-----------------------------------------------------------------------------
(* Who takes a packet                                                      *)

(* The next hop of a packet: its destination, or the next router of some   *)
(* router that does not find the destination on the segment.               *)
Leads(hop, dst, segment) ==
    \/ hop = dst
    \/ \E r \in Router : NextRouter[r] = hop /\ SegmentOf[dst] # segment

(* A frame on a segment is for a router or for the next hop of its packet; *)
(* what it names as its source is a router or the machine the packet is    *)
(* from, and on its segment if no router has parked it.                    *)
AddressOK ==
    /\ place = "air" => \/ frame.dhost \in RouterPort
                        \/ Leads(frame.dhost, frame.dst, SegmentOf[frame.dhost])
    /\ place = "parked" => Leads(holder[2], frame.dst, SegmentOf[holder[1]])
    /\ frame.shost \in RouterPort \/ frame.shost = frame.src
    /\ place = "air" /\ ~path.waited => SegmentOf[frame.shost] = at

AddressInv ==
    /\ HopInv
    /\ AddressOK
    /\ place # "gone" => taker = None
    /\ TakenRight /\ ErrorIsHeard

(* The next hop a router finds. *)
LEMMA HopLeads ==
    ASSUME NEW r \in Router, NEW d \in Dev
    PROVE  Leads(NextHop(r, d), frame.dst, SegmentOf[Device[r][1 - d]])
BY DEF NextHop, OnSegment, Leads

(* A packet is born on a segment with the addresses of that segment.       *)
LEMMA InitAddress == Init => AddressInv
<1> SUFFICES ASSUME Init PROVE AddressInv
  OBVIOUS
<1>1. HopInv
  BY InitHops
<1>2. PICK src \in Port \ RouterPort, dst \in Addr, via \in RouterPort, ttl \in 0..(TtlRange - 1) :
        /\ SegmentOf[via] = SegmentOf[src]
        /\ frame = [dhost |-> via, shost |-> src, src |-> src, dst |-> dst, ttl |-> ttl, sound |-> TRUE]
        /\ place = "air" /\ at = SegmentOf[src]
        /\ holder = <<>> /\ taker = None
        /\ path = NewPath(ttl)
  BY DEF Init
<1>3. AddressOK
  BY <1>2 DEF AddressOK
<1> QED
  BY <1>1, <1>2, <1>3 DEF AddressInv, TakenRight, ErrorIsHeard, NewPath

(* A packet that is taken, or dropped. *)
LEMMA GoneAddress ==
    ASSUME AddressInv, HopInv', place # "gone", NEW who, Gone(who),
           \/ who = None \/ who = frame.dst
           \/ \E r \in Router : NextRouter[r] = who /\ SegmentOf[frame.dst] # SegmentOf[who]
    PROVE  AddressInv'
<1>1. UNCHANGED <<frame, at, holder, path>> /\ place' = "gone" /\ taker' = who
  BY DEF Gone
<1>2. AddressOK'
  BY <1>1 DEF AddressInv, AddressOK
<1> QED
  BY <1>1, <1>2 DEF AddressInv, TakenRight, ErrorIsHeard

(* The source of a rewritten frame is the router's (main.c:231) or stays   *)
(* as it was (ip2mac.c:188).                                               *)
LEMMA NextAddress == AddressInv /\ [Next]_vars => AddressInv'
<1> SUFFICES ASSUME AddressInv, [Next]_vars PROVE AddressInv'
  OBVIOUS
<1>1. HopInv /\ HopInv' /\ frame \in Header /\ path \in History
  BY NextHops DEF AddressInv, HopInv, TypeOK
<1>2. ASSUME NEW r \in Router, NEW d \in Dev, BadChecksum(r, d) \/ MyAddr(r, d)
      PROVE  AddressInv'
  BY <1>1, <1>2, GoneAddress DEF BadChecksum, MyAddr, Heard
<1>3. ASSUME NEW r \in Router, NEW d \in Dev, SendIcmpTimeExceeded(r, d) PROVE AddressInv'
  <2>1. /\ place = "air" /\ at = SegmentOf[Device[r][d]]
        /\ frame' = [dhost |-> frame.shost, shost |-> Device[r][d], src |-> Device[r][d],
                      dst |-> frame.src, ttl |-> IcmpTtl, sound |-> TRUE]
        /\ UNCHANGED <<place, at, holder, taker>>
    BY <1>3 DEF SendIcmpTimeExceeded, Heard
  <2>2. path'.waited = path.waited
    BY <1>3 DEF SendIcmpTimeExceeded, NewPath
  <2>3. Device[r][d] \in RouterPort
    BY DEF RouterPort
  <2>4. AddressOK'
    BY <2>1, <2>2, <2>3 DEF AddressInv, AddressOK, Leads
  <2>5. ErrorIsHeard'
    BY <2>1, <2>2 DEF AddressInv, AddressOK, ErrorIsHeard
  <2> QED
    BY <1>1, <2>1, <2>4, <2>5 DEF AddressInv, TakenRight
<1>4. ASSUME NEW r \in Router, NEW d \in Dev, Write(r, d) PROVE AddressInv'
  <2> DEFINE p == Device[r][1 - d]
             hop == NextHop(r, d)
  <2>1. /\ place = "air" /\ at' = SegmentOf[p] /\ SegmentOf[hop] = SegmentOf[p]
        /\ UNCHANGED <<place, holder, taker>>
    BY <1>4 DEF Write, ToForward, Heard, Resolvable
  <2>2. /\ frame'.dhost = hop /\ frame'.shost = p /\ frame'.src = frame.src
        /\ frame'.dst = frame.dst
    BY <1>1, <1>4 DEF Write, Header
  <2>3. path'.hops = path.hops + 1 /\ path.hops + 1 # 0
    BY <1>1, <1>4 DEF Write, History
  <2>4. p \in RouterPort /\ Leads(hop, frame.dst, SegmentOf[p])
    BY HopLeads DEF RouterPort, Dev
  <2>5. AddressOK'
    BY <2>1, <2>2, <2>4 DEF AddressOK, Leads
  <2> QED
    BY <1>1, <2>1, <2>3, <2>5 DEF AddressInv, TakenRight, ErrorIsHeard
<1>5. ASSUME NEW r \in Router, NEW d \in Dev, Park(r, d) PROVE AddressInv'
  <2>1. /\ place = "air" /\ place' = "parked" /\ UNCHANGED <<frame, at, taker, path>>
        /\ holder' = <<Device[r][1 - d], NextHop(r, d)>>
    BY <1>5 DEF Park, ToForward, Heard
  <2>2. AddressOK'
    BY <2>1, HopLeads DEF AddressInv, AddressOK, Leads
  <2> QED
    BY <1>1, <2>1, <2>2 DEF AddressInv, TakenRight, ErrorIsHeard
<1>6. CASE BufferSendOne
  <2>1. /\ place = "parked" /\ place' = "air" /\ UNCHANGED taker
        /\ SegmentOf[holder[2]] = SegmentOf[holder[1]]
    BY <1>6 DEF BufferSendOne, Resolvable
  <2>2. /\ frame'.dhost = holder[2] /\ frame'.shost = frame.shost
        /\ frame'.src = frame.src /\ frame'.dst = frame.dst
    BY <1>1, <1>6 DEF BufferSendOne, Header
  <2>3. path'.waited
    BY <1>1, <1>6 DEF BufferSendOne, History
  <2>4. AddressOK'
    BY <2>1, <2>2, <2>3 DEF AddressInv, AddressOK, Leads
  <2> QED
    BY <1>1, <2>1, <2>3, <2>4 DEF AddressInv, TakenRight, ErrorIsHeard
<1>7. CASE FreeSendData \/ Unheard
  BY <1>1, <1>7, GoneAddress DEF FreeSendData, Unheard
<1>8. CASE HostTakes
  <2>1. /\ place = "air" /\ frame.dhost \notin RouterPort /\ Gone(frame.dhost)
    BY <1>8 DEF HostTakes
  <2>2. Leads(frame.dhost, frame.dst, SegmentOf[frame.dhost])
    BY <2>1 DEF AddressInv, AddressOK
  <2> QED
    BY <1>1, <2>1, <2>2, GoneAddress DEF Leads
<1>9. CASE Damage
  <2>1. /\ frame'.dhost = frame.dhost /\ frame'.shost = frame.shost
        /\ frame'.src = frame.src /\ frame'.dst = frame.dst
        /\ path'.waited = path.waited /\ path'.error = path.error /\ path'.hops = path.hops
        /\ UNCHANGED <<place, at, holder, taker>>
    BY <1>1, <1>9 DEF Damage, Header, History
  <2>2. AddressOK'
    BY <2>1 DEF AddressInv, AddressOK
  <2> QED
    BY <1>1, <2>1, <2>2 DEF AddressInv, TakenRight, ErrorIsHeard
<1>10. CASE UNCHANGED vars
  <2>1. AddressOK'
    BY <1>10 DEF vars, AddressInv, AddressOK
  <2> QED
    BY <1>1, <1>10, <2>1 DEF vars, AddressInv, TakenRight, ErrorIsHeard
<1> QED
  BY <1>2, <1>3, <1>4, <1>5, <1>6, <1>7, <1>8, <1>9, <1>10 DEF Next, Routers, AnalyzePacket

(* A frame in the air is addressed to a machine of the segment it is on,   *)
(* and so, unless it has waited, is its sender (main.c:172, ip2mac.c:192). *)
LEMMA AddressInvariant == Spec => []AddressInv
  BY InitAddress, NextAddress, PTL DEF Spec

(* A packet is taken by the machine it is addressed to, or by the next     *)
(* router of a router, and then only if it is for elsewhere (main.c:201,   *)
(* main.c:219): on networks of any shape, whoever parked it on the way.    *)
THEOREM RightTaker == Spec => []TakenRight
<1>1. AddressInv => TakenRight
  BY DEF AddressInv
<1> QED
  BY <1>1, AddressInvariant, PTL

(* A time exceeded message goes to the segment of the machine it names,    *)
(* unless its subject was parked, which leaves an ether_shost of another   *)
(* segment behind (ip2mac.c:188, main.c:64).                               *)
THEOREM ErrorReaches == Spec => []ErrorIsHeard
<1>1. AddressInv => ErrorIsHeard
  BY DEF AddressInv
<1> QED
  BY <1>1, AddressInvariant, PTL

=============================================================================
