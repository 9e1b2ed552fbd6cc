-------------------------------- MODULE Hops --------------------------------
(***************************************************************************)
(* One IP packet and what becomes of it between routers that run this      *)
(* program: AnalyzePacket, SendIcmpTimeExceeded (router/main.c) and        *)
(* BufferSendOne (router/ip2mac.c) as a packet sees them.                  *)
(*                                                                         *)
(* A router forwards a packet, parks it and forwards it later, takes it,   *)
(* drops it, or replaces it by a time exceeded message, so at any time     *)
(* there is one frame to follow.  The state of the ARP tables is left      *)
(* open: a next hop that exists on the segment may be known, or become     *)
(* known; one that does not never is.                                      *)
(***************************************************************************)
EXTENDS Integers

CONSTANTS
    Addr,           \* IP addresses
    Port,           \* those some machine has; also the hardware address of its device
    Segment,
    SegmentOf,      \* SegmentOf[a]: the subnet of a, or none of the segments
    Router,
    Device,         \* Device[r][d]: the port of device d of router r
    NextRouter,     \* NextRouter[r]
    None,
    TtlRange,       \* 256, the range of ttl
    IcmpTtl         \* the ttl of a time exceeded message (64)

Dev == {0, 1}

ASSUME AddrAssumption ==
    /\ Port \subseteq Addr /\ None \notin Addr
    /\ \A p \in Port : SegmentOf[p] \in Segment
ASSUME RouterAssumption ==
    /\ Device \in [Router -> [Dev -> Port]]
    /\ NextRouter \in [Router -> Addr]
ASSUME TtlAssumption == TtlRange \in Nat \ {0} /\ IcmpTtl \in 1..(TtlRange - 1)

RouterPort == {Device[r][d] : r \in Router, d \in Dev}

VARIABLES
    frame,      \* the frame: ether_dhost, ether_shost, saddr, daddr, ttl, check
    place,      \* "air", "parked" in a bucket, or "gone"
    at,         \* the segment it is on
    holder,     \* parked: the router and the next hop
    taker,      \* who took it
    path        \* history of the packet or of the message that replaced it

vars == <<frame, place, at, holder, taker, path>>

(* History: the ttl it was born with, hops made since, whether it is a     *)
(* time exceeded message, whether a router has parked it or its subject,   *)
(* whether it was damaged.                                                 *)
NewPath(ttl) == [born |-> ttl, hops |-> 0, error |-> FALSE, waited |-> FALSE, damaged |-> FALSE]

(* A host sends a packet to a router of its segment. *)
Init ==
    \E src \in Port \ RouterPort, dst \in Addr, via \in RouterPort, ttl \in 0..(TtlRange - 1) :
        /\ SegmentOf[via] = SegmentOf[src]
        /\ frame = [dhost |-> via, shost |-> src, src |-> src, dst |-> dst, ttl |-> ttl, sound |-> TRUE]
        /\ place = "air" /\ at = SegmentOf[src]
        /\ holder = <<>> /\ taker = None
        /\ path = NewPath(ttl)

-----------------------------------------------------------------------------
(* AnalyzePacket                                                           *)

(* The frame is for device d of router r: ether_dhost == hwaddr. *)
Heard(r, d) ==
    /\ place = "air"
    /\ at = SegmentOf[Device[r][d]]
    /\ frame.dhost = Device[r][d]

(* Mistake: the checksum is not tested. *)
ChecksumUntested == TRUE

(* checkIPchecksum(iphdr, option, optionLen) == 1 *)
ChecksumOk == frame.sound

(* iphdr->ttl - 1 == 0, in int: a ttl of 0 passes. *)
Expired == frame.ttl - 1 = 0

(* Device d of router r has an address in the subnet of the destination. *)
OnSegment(r, d) == SegmentOf[frame.dst] = SegmentOf[Device[r][d]]

(* Mistake: everything goes to the next router. *)
NextHopAlwaysRouter(r, d) == NextRouter[r]

(* The destination on the segment of the other device, or the next router. *)
NextHop(r, d) == IF OnSegment(r, 1 - d) THEN frame.dst ELSE NextRouter[r]

(* A host answers to `a` on the segment of the port p. *)
Resolvable(a, p) == a \in Port /\ SegmentOf[a] = SegmentOf[p] /\ a # p

Gone(who) ==
    /\ place' = "gone"
    /\ taker' = who
    /\ UNCHANGED <<frame, at, holder, path>>

BadChecksum(r, d) ==
    /\ Heard(r, d)
    /\ ~ChecksumOk
    /\ Gone(None)

(* SendIcmpTimeExceeded writes to the device the packet came by, to        *)
(* whatever ether_shost the packet has, and the packet is dropped.         *)
SendIcmpTimeExceeded(r, d) ==
    /\ Heard(r, d)
    /\ ChecksumOk /\ Expired
    /\ frame' = [dhost |-> frame.shost, shost |-> Device[r][d],
                 src |-> Device[r][d], dst |-> frame.src, ttl |-> IcmpTtl, sound |-> TRUE]
    /\ path' = [NewPath(IcmpTtl) EXCEPT !.error = TRUE, !.waited = path.waited]
    /\ UNCHANGED <<place, at, holder, taker>>

(* The address of the device it would leave by: recv:myaddr. *)
MyAddr(r, d) ==
    /\ Heard(r, d)
    /\ ChecksumOk /\ ~Expired
    /\ frame.dst = Device[r][1 - d]
    /\ Gone(Device[r][1 - d])

ToForward(r, d) ==
    /\ Heard(r, d)
    /\ ChecksumOk /\ ~Expired
    /\ frame.dst # Device[r][1 - d]

(* Mistake: ttl is not decremented. *)
WriteKeepingTtl(r, d) ==
    /\ ToForward(r, d)
    /\ Resolvable(NextHop(r, d), Device[r][1 - d])
    /\ frame' = [frame EXCEPT !.dhost = NextHop(r, d), !.shost = Device[r][1 - d], !.sound = TRUE]
    /\ at' = SegmentOf[Device[r][1 - d]]
    /\ path' = [path EXCEPT !.hops = IF @ < TtlRange THEN @ + 1 ELSE @]
    /\ UNCHANGED <<place, holder, taker>>

(* Mistake: ether_shost stays as it came. *)
WriteKeepingSource(r, d) ==
    /\ ToForward(r, d)
    /\ Resolvable(NextHop(r, d), Device[r][1 - d])
    /\ frame' = [frame EXCEPT !.dhost = NextHop(r, d), !.ttl = (@ - 1) % TtlRange, !.sound = TRUE]
    /\ at' = SegmentOf[Device[r][1 - d]]
    /\ path' = [path EXCEPT !.hops = @ + 1]
    /\ UNCHANGED <<place, holder, taker>>

(* The next hop is known: the frame is rewritten and written. *)
Write(r, d) ==
    /\ ToForward(r, d)
    /\ Resolvable(NextHop(r, d), Device[r][1 - d])
    /\ frame' = [frame EXCEPT !.dhost = NextHop(r, d), !.shost = Device[r][1 - d],
                              !.ttl = (@ - 1) % TtlRange, !.sound = TRUE]
    /\ at' = SegmentOf[Device[r][1 - d]]
    /\ path' = [path EXCEPT !.hops = @ + 1]
    /\ UNCHANGED <<place, holder, taker>>

(* It is not, or others wait for it: AppendSendData copies the frame. *)
Park(r, d) ==
    /\ ToForward(r, d)
    /\ place' = "parked"
    /\ holder' = <<Device[r][1 - d], NextHop(r, d)>>
    /\ UNCHANGED <<frame, at, taker, path>>

AnalyzePacket(r, d) ==
    \/ BadChecksum(r, d) \/ SendIcmpTimeExceeded(r, d) \/ MyAddr(r, d)
    \/ Write(r, d) \/ Park(r, d)

-----------------------------------------------------------------------------
(* The buffer thread and the segments                                      *)

(* Mistake: ttl is decremented in the local copy of the header only. *)
BufferSendOneKeepingTtl ==
    /\ place = "parked"
    /\ Resolvable(holder[2], holder[1])
    /\ frame' = [frame EXCEPT !.dhost = holder[2], !.sound = TRUE]
    /\ place' = "air" /\ at' = SegmentOf[holder[1]]
    /\ path' = [path EXCEPT !.hops = IF @ < TtlRange THEN @ + 1 ELSE @, !.waited = TRUE]
    /\ holder' = <<>>
    /\ UNCHANGED taker

(* A parked frame is rewritten and written; ether_shost stays as it came. *)
BufferSendOne ==
    /\ place = "parked"
    /\ Resolvable(holder[2], holder[1])
    /\ frame' = [frame EXCEPT !.dhost = holder[2], !.ttl = (@ - 1) % TtlRange, !.sound = TRUE]
    /\ place' = "air" /\ at' = SegmentOf[holder[1]]
    /\ path' = [path EXCEPT !.hops = @ + 1, !.waited = TRUE]
    /\ holder' = <<>>
    /\ UNCHANGED taker

(* Its bucket is full, or is freed with the entry: FreeSendData. *)
FreeSendData == place = "parked" /\ Gone(None)

(* A host takes a frame that has its hardware address. *)
HostTakes ==
    /\ place = "air"
    /\ frame.dhost \in Port \ RouterPort /\ SegmentOf[frame.dhost] = at
    /\ Gone(frame.dhost)

(* Nobody on the segment has the hardware address: every router there      *)
(* returns at "dhost not match".                                           *)
Unheard ==
    /\ place = "air"
    /\ SegmentOf[frame.dhost] # at
    /\ Gone(None)

(* The header is damaged on a segment. *)
Damage ==
    /\ place = "air" /\ frame.sound
    /\ frame' = [frame EXCEPT !.sound = FALSE]
    /\ path' = [path EXCEPT !.damaged = TRUE]
    /\ UNCHANGED <<place, at, holder, taker>>

Routers == \E r \in Router, d \in Dev : AnalyzePacket(r, d)

Next == Routers \/ BufferSendOne \/ FreeSendData \/ HostTakes \/ Unheard \/ Damage

Spec == Init /\ [][Next]_vars

(* Routers read what is written to them, and so do hosts. *)
FairSpec == Spec /\ WF_vars(Routers) /\ WF_vars(HostTakes \/ Unheard)

-----------------------------------------------------------------------------

(* A packet loses one of its ttl at every router, whichever of the two     *)
(* threads forwards it, and none is written when it has no more to lose    *)
(* (main.c:184, main.c:232, ip2mac.c:191).                                 *)
HopCount ==
    place # "gone" /\ path.born > 0 => frame.ttl > 0 /\ frame.ttl + path.hops = path.born

(* The checksum that a router writes anew never makes a damaged header     *)
(* look sound (main.c:179, main.c:233, ip2mac.c:194).                      *)
NothingMended == path.damaged => ~frame.sound

(* Whoever takes a packet is the one it is addressed to, or the gateway of *)
(* a packet for elsewhere (main.c:193, main.c:201, main.c:219).            *)
TakenRight ==
    taker # None =>
        \/ frame.dst = taker
        \/ \E r \in Router : NextRouter[r] = taker /\ SegmentOf[frame.dst] # SegmentOf[taker]

(* A time exceeded message goes to a machine of the segment it is written  *)
(* on, unless the packet it is about was parked somewhere: BufferSendOne   *)
(* leaves an ether_shost of another segment behind (ip2mac.c:188,          *)
(* main.c:64).                                                             *)
ErrorIsHeard ==
    place = "air" /\ path.error /\ path.hops = 0 /\ ~path.waited => SegmentOf[frame.dhost] = at

(* Even when the routers send a packet round in a ring, it and the         *)
(* messages about it leave the segments at last (main.c:184, main.c:232).  *)
QuietAtLast == <>[](place # "air")

(* What the message "iphdr->ttl == 0 error" (main.c:185) says: a packet    *)
(* whose ttl is 0 is not forwarded.                                        *)
ZeroTtlIsError == path.born = 0 => path.hops = 0

=============================================================================
