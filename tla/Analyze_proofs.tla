-------------------------- MODULE Analyze_proofs ---------------------------
(***************************************************************************)
(* What the frame printer says of a frame, for every set of frames and     *)
(* every value of their fields: it looks at the frame's own bytes, its     *)
(* verdict is that of the checksums, and its names are those of the        *)
(* numbers.                                                                *)
(***************************************************************************)
EXTENDS Analyze, SequenceTheorems, TLAPS

-----------------------------------------------------------------------------
(* The walk from header to header                                          *)

(* Where the data of an IP frame begins, as AnalyzeIp has it. *)
Behind == EtherHeader + IpHdr + Larger(OptionLen, 0)

Data == {"data", "icmp", "tcp", "udp"}

(* A frame whose lengths are taken at their word. *)
Trusted == frame.type = "ip" /\ Honest(frame)

FrameOK ==
    /\ pc \in {"read", "packet", "arp", "ip", "done"} \cup Data
    /\ pc # "read" => frame \in Frame
    /\ reach \in Nat

(* What has been printed when the function pc is about to be called, and   *)
(* what it is told.                                                        *)
PlaceOK ==
    /\ pc = "read" => printed = {} /\ reach = 0 /\ ptr = 0
    /\ pc = "packet" => printed = {} /\ reach = 0 /\ ptr = 0 /\ lest = frame.size
    /\ pc \in {"arp", "ip"} =>
          /\ printed = {"ether"} /\ reach = EtherHeader
          /\ ptr = EtherHeader /\ lest = frame.size - EtherHeader /\ lest >= 0
          /\ IF pc = "arp" THEN frame.type = "arp" ELSE frame.type \in {"ip", "ipv6"}
    /\ pc \in Data =>
          /\ printed = {"ether", "ip"}
          /\ ptr = Behind /\ lest = frame.size - Behind
          /\ frame.type \in {"ip", "ipv6"}
          /\ frame.proto \in {"icmp", "tcp", "udp"}
          /\ pc # "data" => pc = frame.proto

(* Of an honest frame, what is called next has passed the tests before it. *)
TestedOK ==
    /\ pc \in Data /\ Trusted => frame.head = 0
    /\ pc \in {"icmp", "tcp"} /\ Trusted => Sound(frame)

WalkInv == FrameOK /\ PlaceOK /\ TestedOK /\ OwnBytes /\ HonestVerdict

(* The printer starts with nothing read.                                   *)
LEMMA WalkInit == Init => WalkInv
BY DEF Init, WalkInv, FrameOK, PlaceOK, TestedOK, OwnBytes, HonestVerdict, Done, Data

(* The fields of a frame are numbers, and what they are compared with.     *)
LEMMA Fit ==
    ASSUME frame \in Frame
    PROVE  /\ frame.size \in Nat \ {0} /\ frame.ihl \in 0..15 /\ frame.totLen \in Nat
           /\ frame.type \in {"arp", "ip", "ipv6", "other"}
           /\ frame.proto \in {"icmp", "tcp", "udp", "other"}
           /\ frame.head \in Residue /\ frame.pseudo \in Residue /\ frame.data \in Residue
           /\ Behind \in Nat /\ OptionLen \in Int /\ DataLen \in Int
           /\ HeaderOf(frame) \in Nat
           /\ Trusted => /\ Behind >= EtherHeader + IpHdr
                         /\ Behind + HeaderOf(frame) <= frame.size
                         /\ HeaderOf(frame) <= DataLen
                         /\ Behind + DataLen <= frame.size
<1>1. /\ frame.size \in Nat \ {0} /\ frame.ihl \in 0..15 /\ frame.totLen \in Nat
      /\ frame.type \in {"arp", "ip", "ipv6", "other"}
      /\ frame.proto \in {"icmp", "tcp", "udp", "other"}
      /\ frame.head \in Residue /\ frame.pseudo \in Residue /\ frame.data \in Residue
  <2>1. frame \in [size   : Nat \ {0},
                  type   : {"arp", "ip", "ipv6", "other"},
                  ihl    : 0..15,
                  totLen : Length,
                  proto  : {"icmp", "tcp", "udp", "other"},
                  head   : Residue,
                  pseudo : Residue,
                  data   : Residue,
                  check  : BOOLEAN]
    BY FrameAssumption
  <2>2. Length \subseteq Nat
    BY DEF Length
  <2> QED
    BY <2>1, <2>2
<1>2. HeaderOf(frame) \in Nat
  BY DEF HeaderOf, TcpHdr, UdpHdr, IcmpUsed
<1>3. OptionLen \in Int /\ DataLen \in Int /\ Behind \in Nat
  BY <1>1 DEF OptionLen, DataLen, Behind, Larger, IpHdr, EtherHeader
<1>4. ASSUME Trusted
      PROVE  /\ Behind >= EtherHeader + IpHdr
             /\ Behind + HeaderOf(frame) <= frame.size
             /\ HeaderOf(frame) <= DataLen
             /\ Behind + DataLen <= frame.size
  BY <1>1, <1>2, <1>4 DEF Trusted, Honest, OptionLen, DataLen, Behind, Larger, IpHdr, EtherHeader
<1> QED
  BY <1>1, <1>2, <1>3, <1>4

(* A length that is not negative is compared as it is. *)
LEMMA Short ==
    ASSUME lest \in Nat, NEW n \in Nat
    PROVE  TooShort(n) <=> lest < n
BY DEF TooShort

(* What a header adds to those printed. *)
LEMMA Shown == \A h : Printed(h) => printed' = printed \cup {h}
BY Zenon DEF Printed

(* A sum over a frame's own bytes is the one the frame has. *)
LEMMA OwnSums ==
    ASSUME frame \in Frame, Trusted
    PROVE  /\ HeadSum = {frame.head}
           /\ frame.proto \in {"tcp", "icmp"} => DataSum(Behind) = {frame.data}
<1>1. HeadSum = {frame.head}
  <2>1. EtherHeader + (IpHdr + Larger(OptionLen, 0)) <= frame.size
    <3>1. Larger(OptionLen, 0) \in Int
      BY Fit DEF Larger
    <3>2. HeaderOf(frame) >= 0
      BY DEF HeaderOf, TcpHdr, UdpHdr, IcmpUsed
    <3> QED
      BY <3>1, <3>2, Fit DEF Behind, EtherHeader, IpHdr, HeaderOf, TcpHdr, UdpHdr, IcmpUsed
  <2> QED
    BY <2>1 DEF HeadSum, Sum
<1>2. ASSUME frame.proto \in {"tcp", "icmp"} PROVE DataSum(Behind) = {frame.data}
  <2>1. HeaderOf(frame) > 0
    BY <1>2 DEF HeaderOf, TcpHdr, UdpHdr, IcmpUsed
  <2>2. DataLen > 0 /\ Behind + DataLen <= frame.size
    BY <2>1, Fit DEF HeaderOf, TcpHdr, UdpHdr, IcmpUsed
  <2> QED
    BY <2>2, Fit DEF DataSum, Sum
<1> QED
  BY <1>1, <1>2

(* A frame that is read, or the next turn of the loop, starts a new walk.  *)
LEMMA WalkRead ==
    ASSUME WalkInv, \/ \E f \in Frame : Read(f)
                    \/ Again
    PROVE  WalkInv'
<1>1. ASSUME NEW f \in Frame, Read(f) PROVE WalkInv'
  <2>1. f.size \in Nat \ {0}
    BY FrameAssumption
  <2> QED
    BY <1>1, <2>1 DEF Read, out, WalkInv, FrameOK, PlaceOK, TestedOK, OwnBytes,
                      HonestVerdict, Done, Data
<1>2. CASE Again
  BY <1>2 DEF Again, WalkInv, FrameOK, PlaceOK, TestedOK, OwnBytes, HonestVerdict, Done, Data
<1> QED
  BY <1>1, <1>2

(* AnalyzePacket keeps what is said of the walk.                           *)
LEMMA WalkPacket == ASSUME WalkInv, AnalyzePacket PROVE WalkInv'
<1> USE DEF WalkInv
<1>1. /\ frame \in Frame /\ pc = "packet" /\ ptr = 0 /\ lest = frame.size
      /\ printed = {} /\ reach = 0
  BY DEF AnalyzePacket, FrameOK, PlaceOK
<1>2. frame.size \in Nat \ {0} /\ frame.type \in {"arp", "ip", "ipv6", "other"}
  BY <1>1, Fit
<1>3. TooShort(EtherHeader) <=> frame.size < EtherHeader
  <2>1. lest \in Nat /\ EtherHeader \in Nat
    BY <1>1, <1>2 DEF EtherHeader
  <2> QED
    BY <1>1, <2>1, Short
<1>4. CASE TooShort(EtherHeader)
  <2>1. frame' = frame /\ pc' = "done" /\ reach' = reach /\ printed' = printed
    BY <1>4 DEF AnalyzePacket, Return, out
  <2>2. ~Trusted
    BY <1>1, <1>2, <1>3, <1>4, Fit DEF EtherHeader, IpHdr
  <2> QED
    BY <1>1, <1>2, <2>1, <2>2
    DEF FrameOK, PlaceOK, TestedOK, OwnBytes, HonestVerdict, Done, Trusted, Data
<1>5. CASE ~TooShort(EtherHeader)
  <2>1. reach' = Larger(reach, EtherHeader)
    BY <1>5 DEF AnalyzePacket, Looked
  <2>2. reach' = EtherHeader /\ reach' \in Nat /\ reach' <= frame.size
    BY <1>1, <1>2, <1>3, <1>5, <2>1 DEF Larger, EtherHeader
  <2>3. CASE frame.type = "other"
    <3>1. frame' = frame /\ pc' = "done"
      BY <1>5, <2>3 DEF AnalyzePacket, Return
    <3> QED
      BY <1>1, <2>2, <2>3, <3>1
      DEF FrameOK, PlaceOK, TestedOK, OwnBytes, HonestVerdict, Done, Data
  <2>4. CASE frame.type # "other"
    <3>1. /\ Call(IF frame.type = "arp" THEN "arp" ELSE "ip", EtherHeader)
          /\ Printed("ether")
      BY <1>5, <2>4 DEF AnalyzePacket
    <3>2. /\ frame' = frame /\ printed' = {"ether"}
          /\ pc' = (IF frame.type = "arp" THEN "arp" ELSE "ip")
          /\ ptr' = EtherHeader /\ lest' = frame.size - EtherHeader
      BY <1>1, <3>1, Shown DEF Call, EtherHeader
    <3>3. frame.size - EtherHeader >= 0
      BY <1>2, <2>2 DEF EtherHeader
    <3> QED
      BY <1>1, <1>2, <2>2, <2>4, <3>2, <3>3
      DEF FrameOK, PlaceOK, TestedOK, OwnBytes, HonestVerdict, Done, Data
  <2> QED
    BY <2>3, <2>4
<1> QED
  BY <1>4, <1>5

(* So does AnalyzeArp.                                                     *)
LEMMA WalkArp == ASSUME WalkInv, AnalyzeArp PROVE WalkInv'
<1> USE DEF WalkInv
<1>1. /\ frame \in Frame /\ pc = "arp" /\ ptr = EtherHeader
      /\ lest = frame.size - EtherHeader /\ lest >= 0
      /\ reach = EtherHeader /\ frame.type = "arp"
  BY DEF AnalyzeArp, FrameOK, PlaceOK, Data
<1>2. frame.size \in Nat /\ lest \in Nat /\ EtherArp \in Nat
  BY <1>1, Fit DEF EtherHeader, EtherArp
<1>3. frame' = frame /\ pc' = "done"
  BY DEF AnalyzeArp, Return
<1>4. reach' \in Nat /\ reach' <= frame.size
  <2>1. CASE TooShort(EtherArp)
    <3>1. reach' = reach
      BY <2>1 DEF AnalyzeArp
    <3> QED
      BY <1>1, <1>2, <3>1 DEF EtherHeader
  <2>2. CASE ~TooShort(EtherArp)
    <3>1. reach' = Larger(reach, ptr + EtherArp)
      BY <2>2 DEF AnalyzeArp, Looked
    <3>2. lest >= EtherArp
      BY <1>2, <2>2, Short
    <3> QED
      BY <1>1, <1>2, <3>1, <3>2 DEF Larger, EtherHeader, EtherArp
  <2> QED
    BY <2>1, <2>2
<1> QED
  BY <1>1, <1>3, <1>4 DEF FrameOK, PlaceOK, TestedOK, OwnBytes, HonestVerdict, Done, Data

(* And AnalyzeIp as far as the options: ptr and lest then point behind     *)
(* them.                                                                   *)
LEMMA WalkIp == ASSUME WalkInv, AnalyzeIp PROVE WalkInv'
<1> USE DEF WalkInv
<1>1. /\ frame \in Frame /\ pc = "ip" /\ ptr = EtherHeader
      /\ lest = frame.size - EtherHeader /\ lest >= 0
      /\ reach = EtherHeader /\ printed = {"ether"} /\ frame.type \in {"ip", "ipv6"}
  BY DEF AnalyzeIp, FrameOK, PlaceOK
<1>2. Trusted <=> frame.type # "ipv6" /\ Honest(frame)
  BY <1>1 DEF Trusted
<1>3. CASE TooShort(IpHdr) /\ Report("short ip") /\ Return /\ UNCHANGED <<out, reach>>
  <2>1. frame' = frame /\ pc' = "done" /\ reach' = reach
    BY <1>3 DEF Return
  <2>2. ~Trusted
    <3>1. lest \in Nat /\ IpHdr \in Nat
      BY <1>1, Fit DEF EtherHeader, IpHdr
    <3>2. lest < IpHdr
      BY <1>3, <3>1, Short
    <3> QED
      BY <1>1, <3>2, Fit DEF IpHdr, EtherHeader
  <2> QED
    BY <1>1, <1>2, <2>1, <2>2
    DEF FrameOK, PlaceOK, TestedOK, OwnBytes, HonestVerdict, Done, Trusted, Data, EtherHeader
<1>4. CASE ~TooShort(IpHdr)
  <2>1. /\ reach' \in Nat /\ frame' = frame
        /\ Trusted => reach' <= frame.size
    <3>1. reach' = Larger(14, ptr + IpHdr + Larger(OptionLen, 0)) /\ frame' = frame
      BY <1>1, <1>4 DEF AnalyzeIp, Looked, Return, Call, EtherHeader
    <3>2. ptr + IpHdr + Larger(OptionLen, 0) = Behind
      BY <1>1 DEF Behind
    <3>3. HeaderOf(frame) \in Nat
      BY DEF HeaderOf, TcpHdr, UdpHdr, IcmpUsed
    <3> QED
      BY <1>1, <3>1, <3>2, <3>3, Fit DEF Larger, EtherHeader
  <2>2. PICK s \in HeadSum :
            IF s # 0
            THEN Report("bad ip checksum") /\ Return /\ UNCHANGED out
            ELSE /\ Printed("ip")
                 /\ UNCHANGED errors
                 /\ IF frame.proto = "other"
                    THEN Return
                    ELSE Call("data", IpHdr + Larger(OptionLen, 0))
    BY <1>4 DEF AnalyzeIp
  <2>3. Trusted => s = frame.head
    BY <1>1, OwnSums
  <2>4. CASE s # 0
    <3>1. pc' = "done" /\ printed' = {"ether"}
      BY <1>1, <2>2, <2>4 DEF Return, out
    <3>2. Trusted => ~Sound(frame)
      BY <2>3, <2>4 DEF Sound
    <3> QED
      BY <1>1, <1>2, <2>1, <3>1, <3>2
      DEF FrameOK, PlaceOK, TestedOK, OwnBytes, HonestVerdict, Done, Trusted, Data
  <2>5. CASE s = 0 /\ frame.proto = "other"
    <3>1. pc' = "done"
      BY <2>2, <2>5 DEF Return
    <3> QED
      BY <1>1, <1>2, <2>1, <2>5, <3>1
      DEF FrameOK, PlaceOK, TestedOK, OwnBytes, HonestVerdict, Done, Trusted, Data
  <2>6. CASE s = 0 /\ frame.proto # "other"
    <3>1. /\ pc' = "data" /\ printed' = {"ether", "ip"}
          /\ ptr' = ptr + (IpHdr + Larger(OptionLen, 0))
          /\ lest' = lest - (IpHdr + Larger(OptionLen, 0))
      BY <1>1, <2>2, <2>6, Shown DEF Call
    <3>2. ptr' = Behind /\ lest' = frame.size - Behind
      <4>1. Larger(OptionLen, 0) \in Int /\ frame.size \in Int
        BY <1>1, Fit DEF Larger
      <4> QED
        BY <1>1, <3>1, <4>1 DEF Behind, EtherHeader, IpHdr
    <3>3. Behind' = Behind
      BY <2>1 DEF Behind, OptionLen
    <3>4. frame.proto \in {"icmp", "tcp", "udp"}
      BY <1>1, <2>6, Fit
    <3> QED
      BY <1>1, <1>2, <2>1, <2>3, <2>6, <3>1, <3>2, <3>3, <3>4
      DEF FrameOK, PlaceOK, TestedOK, OwnBytes, HonestVerdict, Done, Trusted, Data
  <2> QED
    BY <2>4, <2>5, <2>6
<1> QED
  BY <1>3, <1>4 DEF AnalyzeIp

(* The verdict on an honest frame's data. *)
LEMMA Judged ==
    ASSUME frame \in Frame, Trusted, ptr = Behind, frame.head = 0, NEW ok \in DataVerdict
    PROVE  frame.proto \in {"tcp", "icmp"} => (ok <=> Sound(frame))
<1>1. CASE frame.proto = "tcp"
  <2>1. DataSum(ptr) = {frame.data}
    BY <1>1, OwnSums
  <2>2. ok = (Add(frame.pseudo, frame.data) = 0)
    BY <1>1, <2>1 DEF DataVerdict
  <2> QED
    BY <1>1, <2>2 DEF Sound
<1>2. CASE frame.proto = "icmp"
  <2>1. DataSum(ptr) = {frame.data}
    BY <1>2, OwnSums
  <2>2. ok = (frame.data = 0)
    BY <1>2, <2>1 DEF DataVerdict
  <2> QED
    BY <1>2, <2>2 DEF Sound
<1> QED
  BY <1>1, <1>2

(* And its second half, which hands the data on after the sum of the       *)
(* header.                                                                 *)
LEMMA WalkData == ASSUME WalkInv, AnalyzeData PROVE WalkInv'
<1> USE DEF WalkInv
<1>1. /\ frame \in Frame /\ pc = "data" /\ ptr = Behind /\ lest = frame.size - Behind
      /\ printed = {"ether", "ip"} /\ frame.type \in {"ip", "ipv6"}
      /\ frame.proto \in {"icmp", "tcp", "udp"}
      /\ Trusted => frame.head = 0
      /\ Trusted => reach <= frame.size
      /\ reach \in Nat
  BY DEF AnalyzeData, FrameOK, PlaceOK, TestedOK, OwnBytes, Data, Trusted
<1>2. frame' = frame /\ printed' = printed
  BY DEF AnalyzeData, Call, Return, out
<1>3. reach' \in Nat /\ (Trusted => reach' <= frame.size)
  <2>1. reach' = Larger(reach, IF frame.proto = "udp" THEN ptr + Larger(DataLen, UdpHdr)
                               ELSE ptr + Larger(DataLen, 0))
    BY DEF AnalyzeData, Looked
  <2>2. frame.proto = "udp" => HeaderOf(frame) = UdpHdr
    BY DEF HeaderOf
  <2>3. HeaderOf(frame) >= 0
    BY DEF HeaderOf, TcpHdr, UdpHdr, IcmpUsed
  <2> QED
    BY <1>1, <2>1, <2>2, <2>3, Fit DEF Larger, UdpHdr, HeaderOf, TcpHdr, IcmpUsed
<1>4. PICK ok \in DataVerdict :
          IF ok
          THEN Call(frame.proto, 0) /\ UNCHANGED errors
          ELSE Return /\ Report("bad checksum")
  BY DEF AnalyzeData
<1>5. Trusted /\ frame.proto \in {"tcp", "icmp"} => (ok <=> Sound(frame))
  BY <1>1, Judged
<1>6. CASE ok
  <2>1. pc' = frame.proto /\ ptr' = ptr /\ lest' = lest
    BY <1>1, <1>4, <1>6, Fit DEF Call
  <2>2. Behind' = Behind
    BY <1>2 DEF Behind, OptionLen
  <2> QED
    BY <1>1, <1>2, <1>3, <1>5, <1>6, <2>1, <2>2
    DEF FrameOK, PlaceOK, TestedOK, OwnBytes, HonestVerdict, Done, Data, Trusted
<1>7. CASE ~ok
  <2>1. pc' = "done"
    BY <1>4, <1>7 DEF Return
  <2> QED
    BY <1>1, <1>2, <1>3, <1>5, <1>7, <2>1
    DEF FrameOK, PlaceOK, TestedOK, OwnBytes, HonestVerdict, Done, Data, Trusted
<1> QED
  BY <1>6, <1>7

(* The last header of a frame. *)
LEMMA WalkLast ==
    ASSUME WalkInv, AnalyzeIcmp \/ AnalyzeTcp \/ AnalyzeUdp
    PROVE  WalkInv'
<1> USE DEF WalkInv
<1>1. /\ frame \in Frame /\ pc = frame.proto /\ ptr = Behind /\ lest = frame.size - Behind
      /\ printed = {"ether", "ip"} /\ frame.type \in {"ip", "ipv6"}
      /\ frame.proto \in {"icmp", "tcp", "udp"}
      /\ Trusted => reach <= frame.size
      /\ Trusted /\ frame.proto # "udp" => Sound(frame)
      /\ reach \in Nat
  BY DEF AnalyzeIcmp, AnalyzeTcp, AnalyzeUdp, FrameOK, PlaceOK, TestedOK, OwnBytes, Data, Trusted
<1>2. frame' = frame /\ pc' = "done"
  BY DEF AnalyzeIcmp, AnalyzeTcp, AnalyzeUdp, Return
<1>3. /\ Trusted => printed' = {"ether", "ip", frame.proto}
      /\ reach' \in Nat /\ (Trusted => reach' <= frame.size)
  <2>1. CASE AnalyzeIcmp
    <3>1. frame.proto = "icmp" /\ HeaderOf(frame) = IcmpUsed
      BY <1>1, <2>1 DEF AnalyzeIcmp, HeaderOf
    <3>2. printed' = {"ether", "ip", "icmp"} /\ reach' = Larger(reach, Behind + IcmpUsed)
      BY <1>1, <2>1, Shown DEF AnalyzeIcmp, Looked
    <3> QED
      BY <1>1, <3>1, <3>2, Fit DEF Larger, IcmpUsed
  <2>2. CASE AnalyzeTcp
    <3>1. frame.proto = "tcp" /\ HeaderOf(frame) = TcpHdr
      BY <1>1, <2>2 DEF AnalyzeTcp, HeaderOf
    <3>2. CASE TooShort(TcpHdr)
      <4>1. ~Trusted
        <5>1. SUFFICES ASSUME Trusted PROVE FALSE
          OBVIOUS
        <5>2. lest \in Nat /\ TcpHdr \in Nat /\ lest >= TcpHdr
          BY <1>1, <3>1, <5>1, Fit DEF TcpHdr
        <5> QED
          BY <3>2, <5>2, Short
      <4>2. reach' = reach
        BY <2>2, <3>2 DEF AnalyzeTcp
      <4> QED
        BY <1>1, <4>1, <4>2
    <3>3. CASE ~TooShort(TcpHdr)
      <4>1. printed' = {"ether", "ip", "tcp"} /\ reach' = Larger(reach, Behind + TcpHdr)
        BY <1>1, <2>2, <3>3, Shown DEF AnalyzeTcp, Looked
      <4> QED
        BY <1>1, <3>1, <4>1, Fit DEF Larger, TcpHdr
    <3> QED
      BY <3>2, <3>3
  <2>3. CASE AnalyzeUdp
    <3>1. frame.proto = "udp" /\ HeaderOf(frame) = UdpHdr
      BY <1>1, <2>3 DEF AnalyzeUdp, HeaderOf
    <3>2. CASE TooShort(UdpHdr)
      <4>1. ~Trusted
        <5>1. SUFFICES ASSUME Trusted PROVE FALSE
          OBVIOUS
        <5>2. lest \in Nat /\ UdpHdr \in Nat /\ lest >= UdpHdr
          BY <1>1, <3>1, <5>1, Fit DEF UdpHdr
        <5> QED
          BY <3>2, <5>2, Short
      <4>2. reach' = reach
        BY <2>3, <3>2 DEF AnalyzeUdp
      <4> QED
        BY <1>1, <4>1, <4>2
    <3>3. CASE ~TooShort(UdpHdr)
      <4>1. printed' = {"ether", "ip", "udp"} /\ reach' = Larger(reach, Behind + UdpHdr)
        BY <1>1, <2>3, <3>3, Shown DEF AnalyzeUdp, Looked
      <4> QED
        BY <1>1, <3>1, <4>1, Fit DEF Larger, UdpHdr
    <3> QED
      BY <3>2, <3>3
  <2> QED
    BY <2>1, <2>2, <2>3
<1> QED
  BY <1>1, <1>2, <1>3 DEF FrameOK, PlaceOK, TestedOK, OwnBytes, HonestVerdict, Done, Data, Trusted

(* Every step does.                                                        *)
LEMMA WalkNext == WalkInv /\ [Next]_vars => WalkInv'
<1> SUFFICES ASSUME WalkInv, [Next]_vars PROVE WalkInv'
  OBVIOUS
<1>1. CASE UNCHANGED vars
  BY <1>1 DEF vars, out, WalkInv, FrameOK, PlaceOK, TestedOK, OwnBytes, HonestVerdict, Done,
              Data, Trusted, Behind, OptionLen
<1> QED
  BY <1>1, WalkRead, WalkPacket, WalkArp, WalkIp, WalkData, WalkLast DEF Next

(* Wherever the walk is in the frame, ptr and lest say so, the tests that  *)
(* led there were passed, and what is printed rests on them (analyze.c).   *)
THEOREM Invariant == Spec => []WalkInv
BY WalkInit, WalkNext, PTL DEF Spec

(* Nothing is said of an honest frame from the bytes of earlier ones, for  *)
(* any lengths (pcap.c:85).                                                *)
THEOREM SaysOwn == Spec => []OwnBytes
<1>1. WalkInv => OwnBytes
  BY DEF WalkInv
<1> QED
  BY <1>1, Invariant, PTL

(* The printer's verdict on an honest TCP or ICMP frame is that of its     *)
(* checksums, for any residues (analyze.c:173, analyze.c:181).             *)
THEOREM VerdictIsHonest == Spec => []HonestVerdict
<1>1. WalkInv => HonestVerdict
  BY DEF WalkInv
<1> QED
  BY <1>1, Invariant, PTL

-----------------------------------------------------------------------------
(* The names                                                               *)

(* The list s has m entries, all in S. *)
IsList(s, S, m) == s \in Seq(S) /\ Len(s) = m

(* A table of n numbers without names has n entries.                       *)
LEMMA UnnamedList ==
    ASSUME NEW S, None \in S, NEW n \in Nat
    PROVE  IsList(Unnamed(n), S, n)
BY DEF Unnamed, IsList

(* And one of a single text has one.                                       *)
LEMMA OneText == ASSUME NEW S, NEW x \in S PROVE IsList(<<x>>, S, 1)
BY DEF IsList

(* Two lists in a row. *)
LEMMA Joined ==
    ASSUME NEW S, NEW s, NEW t, NEW m \in Nat, NEW n \in Nat, NEW k, k = m + n,
           IsList(s, S, m), IsList(t, S, n)
    PROVE  IsList(s \o t, S, k)
BY DEF IsList

(* Each table has one entry more than its limit says. *)
LEMMA HrdLength == Len(Hrd) = 24
<1> DEFINE S == {"NET/ROM", "Ethernet", "Experimental Ethernet", "AX.25", "PROnet",
                 "Chaosnet", "IEEE 802.2", "ARCnet", "APPLEtalk", None,
                 "Frame Relay DLCI", "ATM", "Metricom STRIP"}
           a == <<"NET/ROM", "Ethernet", "Experimental Ethernet", "AX.25", "PROnet",
                  "Chaosnet", "IEEE 802.2", "ARCnet", "APPLEtalk">>
           b == a \o Unnamed(6)
           c == b \o <<"Frame Relay DLCI">>
           d == c \o Unnamed(3)
           e == d \o <<"ATM">>
           f == e \o Unnamed(3)
           g == f \o <<"Metricom STRIP">>
<1>0. /\ 15 = 9 + 6 /\ 16 = 15 + 1 /\ 19 = 16 + 3 /\ 20 = 19 + 1 /\ 23 = 20 + 3 /\ 24 = 23 + 1
      /\ {1, 3, 6, 9, 15, 16, 19, 20, 23} \subseteq Nat
  OBVIOUS
<1>1. Hrd = g
  BY Zenon DEF Hrd
<1>2. /\ None \in S
      /\ "Frame Relay DLCI" \in S /\ "ATM" \in S /\ "Metricom STRIP" \in S
  OBVIOUS
<1>3. IsList(a, S, 9)
  BY DEF IsList
<1> HIDE DEF a, S
<1>4. IsList(b, S, 15)
  BY <1>2, <1>3, UnnamedList, Joined, <1>0, Zenon
<1> HIDE DEF b
<1>5. IsList(c, S, 16)
  BY <1>2, <1>4, OneText, Joined, <1>0, Zenon
<1> HIDE DEF c
<1>6. IsList(d, S, 19)
  BY <1>2, <1>5, UnnamedList, Joined, <1>0, Zenon
<1> HIDE DEF d
<1>7. IsList(e, S, 20)
  BY <1>2, <1>6, OneText, Joined, <1>0, Zenon
<1> HIDE DEF e
<1>8. IsList(f, S, 23)
  BY <1>2, <1>7, UnnamedList, Joined, <1>0, Zenon
<1> HIDE DEF f
<1>9. IsList(g, S, 24)
  BY <1>2, <1>8, OneText, Joined, <1>0, Zenon
<1> HIDE DEF g
<1> QED
  BY <1>1, <1>9 DEF IsList

(* The table of ARP operations has its eleven entries (print.c).           *)
LEMMA OpLength == Len(Op) = 11
BY DEF Op

(* Entry i names the protocol n if and only if that is its number. *)
NamesRight(s, m) ==
    \A i \in 1..m :
        /\ s[i] = "ICMP" <=> i = 2
        /\ s[i] = "TCP" <=> i = 7
        /\ s[i] = "UDP" <=> i = 18

(* Of n entries behind m others only UDP may be a name, as entry 18. *)
OnlyLast(t, m, n) ==
    \A i \in 1..n : /\ t[i] # "ICMP" /\ t[i] # "TCP"
                    /\ t[i] = "UDP" <=> m + i = 18

(* More entries keep the names right, if they are no names or UDP's.       *)
LEMMA MoreNames ==
    ASSUME NEW S, NEW s, NEW t, NEW m \in Nat, NEW n \in Nat, NEW k, k = m + n, m >= 7,
           IsList(s, S, m), IsList(t, S, n), NamesRight(s, m),
           OnlyLast(t, m, n)
    PROVE  NamesRight(s \o t, k)
<1> SUFFICES ASSUME NEW i \in 1..k
             PROVE  /\ (s \o t)[i] = "ICMP" <=> i = 2
                    /\ (s \o t)[i] = "TCP" <=> i = 7
                    /\ (s \o t)[i] = "UDP" <=> i = 18
  BY DEF NamesRight
<1>1. CASE i \in 1..m
  <2>1. (s \o t)[i] = s[i]
    BY <1>1 DEF IsList
  <2> QED
    BY <1>1, <2>1 DEF NamesRight
<1>2. CASE i \notin 1..m
  <2>1. i - m \in 1..n /\ m + (i - m) = i /\ i # 2 /\ i # 7
    BY <1>2
  <2>2. (s \o t)[i] = t[i - m]
    BY <2>1 DEF IsList
  <2> QED
    BY <2>1, <2>2 DEF OnlyLast
<1> QED
  BY <1>1, <1>2

(* Among the protocols three numbers have the names AnalyzeIp goes by. *)
LEMMA ProtoNames == Len(Proto) = 18 /\ NamesRight(Proto, 18)
<1> DEFINE S == {None, "ICMP", "IGMP", "IPIP", "TCP", "EGP", "PUP", "UDP"}
           a == <<None, "ICMP", "IGMP", None, "IPIP", None, "TCP", None, "EGP">>
           b == a \o Unnamed(3)
           c == b \o <<"PUP">>
           d == c \o Unnamed(4)
           e == d \o <<"UDP">>
<1>0. /\ 12 = 9 + 3 /\ 13 = 12 + 1 /\ 17 = 13 + 4 /\ 18 = 17 + 1
      /\ 9 >= 7 /\ 12 >= 7 /\ 13 >= 7 /\ 17 >= 7
      /\ {1, 3, 4, 9, 12, 13, 17} \subseteq Nat
  OBVIOUS
<1>1. Proto = e
  BY Zenon DEF Proto
<1>2. None \in S /\ "PUP" \in S /\ "UDP" \in S
  OBVIOUS
<1>3. IsList(a, S, 9) /\ NamesRight(a, 9)
  BY DEF IsList, NamesRight, None
<1> HIDE DEF a, S
<1>4. IsList(b, S, 12) /\ NamesRight(b, 12)
  <2>1. OnlyLast(Unnamed(3), 9, 3)
    BY DEF OnlyLast, Unnamed, None
  <2>2. IsList(Unnamed(3), S, 3)
    BY <1>2, UnnamedList, <1>0, Zenon
  <2>3. IsList(b, S, 12)
    BY <1>3, <2>2, Joined, <1>0, Zenon
  <2>4. NamesRight(b, 12)
    BY <1>3, <2>1, <2>2, MoreNames, <1>0, Zenon
  <2> QED
    BY <2>3, <2>4
<1> HIDE DEF b
<1>5. IsList(c, S, 13) /\ NamesRight(c, 13)
  <2>1. OnlyLast(<<"PUP">>, 12, 1)
    BY DEF OnlyLast
  <2>2. IsList(<<"PUP">>, S, 1)
    BY <1>0, <1>2, OneText, Zenon
  <2>3. IsList(c, S, 13)
    BY <1>4, <2>2, Joined, <1>0, Zenon
  <2>4. NamesRight(c, 13)
    BY <1>4, <2>1, <2>2, MoreNames, <1>0, Zenon
  <2> QED
    BY <2>3, <2>4
<1> HIDE DEF c
<1>6. IsList(d, S, 17) /\ NamesRight(d, 17)
  <2>1. OnlyLast(Unnamed(4), 13, 4)
    BY DEF OnlyLast, Unnamed, None
  <2>2. IsList(Unnamed(4), S, 4)
    BY <1>0, <1>2, UnnamedList, Zenon
  <2>3. IsList(d, S, 17)
    BY <1>5, <2>2, Joined, <1>0, Zenon
  <2>4. NamesRight(d, 17)
    BY <1>5, <2>1, <2>2, MoreNames, <1>0, Zenon
  <2> QED
    BY <2>3, <2>4
<1> HIDE DEF d
<1>7. IsList(e, S, 18) /\ NamesRight(e, 18)
  <2>1. OnlyLast(<<"UDP">>, 17, 1)
    BY DEF OnlyLast
  <2>2. IsList(<<"UDP">>, S, 1)
    BY <1>0, <1>2, OneText, Zenon
  <2>3. IsList(e, S, 18)
    BY <1>6, <2>2, Joined, <1>0, Zenon
  <2>4. NamesRight(e, 18)
    BY <1>6, <2>1, <2>2, MoreNames, <1>0, Zenon
  <2> QED
    BY <2>3, <2>4
<1> HIDE DEF e
<1> QED
  BY <1>1, <1>7 DEF IsList

(* What is printed of the number i with the name that table w gives it. *)
Entry(w, i) == [table |-> w, field |-> i, name |-> LookUp(w, i)]

(* A number printed with a name has the name its table gives it, and a     *)
(* protocol's is the frame's.                                              *)
NamedOK ==
    \A n \in named :
        \E w \in {"hrd", "op", "proto", "icmp"}, i \in Nat :
            n = Entry(w, i) /\ (w = "proto" => i \in Numbers(frame.proto))

NamedInv == WalkInv /\ NamedOK /\ (pc = "read" => named = {})

(* Only the fields of a header are printed with it. *)
LEMMA PrintedNames ==
    ASSUME NEW h \in {"ether", "arp", "ip", "icmp", "tcp", "udp"}, NEW v \in Fields(h),
           NEW w \in DOMAIN v, frame \in Frame
    PROVE  /\ w \in {"hrd", "op", "proto", "icmp"}
           /\ v[w] \in Nat
           /\ w = "proto" => v[w] \in Numbers(frame.proto)
<1>1. CASE h = "arp"
  <2>1. v \in [hrd : Field, op : Field]
    BY <1>1 DEF Fields
  <2> QED
    BY <2>1, FieldAssumption
<1>2. CASE h = "ip"
  <2>1. v \in [proto : Numbers(frame.proto)]
    BY <1>2 DEF Fields
  <2>2. Numbers(frame.proto) \subseteq Nat
    BY Fit, FieldAssumption DEF Numbers
  <2> QED
    BY <2>1, <2>2
<1>3. CASE h = "icmp"
  <2>1. v \in [icmp : Field]
    BY <1>3 DEF Fields
  <2> QED
    BY <2>1, FieldAssumption
<1>4. CASE h \in {"ether", "tcp", "udp"}
  <2>1. v = <<>>
    BY <1>4 DEF Fields
  <2> QED
    BY <2>1
<1> QED
  BY <1>1, <1>2, <1>3, <1>4

Headers == {"ether", "arp", "ip", "icmp", "tcp", "udp"}

(* A step on one frame, which prints a header or nothing. *)
Prints ==
    /\ pc # "read" /\ pc' # "read" /\ frame' = frame
    /\ \/ UNCHANGED named
       \/ \E h \in Headers : Printed(h)

(* What is printed of a frame has the names the tables have.               *)
LEMMA NamesKept == ASSUME NamedInv, Prints PROVE NamedOK'
<1>1. frame \in Frame /\ frame' = frame
  BY DEF NamedInv, WalkInv, FrameOK, Prints
<1>2. CASE UNCHANGED named
  BY <1>1, <1>2 DEF NamedInv, NamedOK
<1>3. ASSUME NEW h \in Headers, Printed(h)
      PROVE  NamedOK'
  <2>1. PICK v \in Fields(h) : named' = named \cup {Entry(w, v[w]) : w \in DOMAIN v}
    BY <1>3, Zenon DEF Printed, Entry
  <2>2. \A w \in DOMAIN v : /\ w \in {"hrd", "op", "proto", "icmp"} /\ v[w] \in Nat
                            /\ w = "proto" => v[w] \in Numbers(frame.proto)
    BY <1>1, PrintedNames DEF Headers
  <2> QED
    BY <1>1, <2>1, <2>2 DEF NamedInv, NamedOK
<1> QED
  BY <1>2, <1>3 DEF Prints

(* So does every function of the walk. *)
LEMMA WalkPrints ==
    ASSUME NamedInv,
           \/ AnalyzePacket \/ AnalyzeArp \/ AnalyzeIp \/ AnalyzeData
           \/ AnalyzeIcmp \/ AnalyzeTcp \/ AnalyzeUdp
    PROVE  Prints
<1>0. \A h \in Headers : Printed(h) => \E k \in Headers : Printed(k)
  OBVIOUS
<1>1. /\ "ether" \in Headers /\ "arp" \in Headers /\ "ip" \in Headers
      /\ "icmp" \in Headers /\ "tcp" \in Headers /\ "udp" \in Headers
  BY DEF Headers
<1> USE <1>0, <1>1
<1>2. CASE AnalyzePacket
  BY <1>2 DEF AnalyzePacket, Prints, Return, Call, out
<1>3. CASE AnalyzeArp
  BY <1>3 DEF AnalyzeArp, Prints, Return, out
<1>4. CASE AnalyzeIp
  <2>1. CASE /\ TooShort(IpHdr)
             /\ Report("short ip") /\ Return
             /\ UNCHANGED <<out, reach>>
    BY <1>4, <2>1 DEF AnalyzeIp, Prints, Return, out
  <2>2. ASSUME NEW s \in HeadSum,
               IF s # 0
               THEN Report("bad ip checksum") /\ Return /\ UNCHANGED out
               ELSE /\ Printed("ip")
                    /\ UNCHANGED errors
                    /\ IF frame.proto = "other"
                       THEN Return
                       ELSE Call("data", IpHdr + Larger(OptionLen, 0))
        PROVE  Prints
    BY <1>4, <2>2 DEF AnalyzeIp, Prints, Return, Call, out
  <2> QED
    BY <1>4, <2>1, <2>2, Zenon DEF AnalyzeIp
<1>5. CASE AnalyzeData
  <2>1. frame.proto # "read"
    BY <1>5 DEF AnalyzeData, NamedInv, WalkInv, FrameOK, PlaceOK, Data
  <2>2. pc = "data" /\ UNCHANGED named
    BY <1>5 DEF AnalyzeData, out
  <2>3. PICK ok \in DataVerdict :
          IF ok
          THEN Call(frame.proto, 0) /\ UNCHANGED errors
          ELSE Return /\ Report("bad checksum")
    BY <1>5 DEF AnalyzeData
  <2> QED
    BY <2>1, <2>2, <2>3 DEF Prints, Return, Call
<1>6. CASE AnalyzeIcmp
  BY <1>6 DEF AnalyzeIcmp, Prints, Return, out
<1>7. CASE AnalyzeTcp
  BY <1>7 DEF AnalyzeTcp, Prints, Return, out
<1>8. CASE AnalyzeUdp
  BY <1>8 DEF AnalyzeUdp, Prints, Return, out
<1> QED
  BY <1>2, <1>3, <1>4, <1>5, <1>6, <1>7, <1>8

(* Every step keeps the names right.                                       *)
LEMMA NamedNext == NamedInv /\ [Next]_vars => NamedInv'
<1> SUFFICES ASSUME NamedInv, [Next]_vars PROVE NamedInv'
  OBVIOUS
<1>1. WalkInv'
  BY WalkNext DEF NamedInv
<1>2. CASE UNCHANGED vars
  BY <1>1, <1>2 DEF vars, out, NamedInv, NamedOK
<1>3. ASSUME NEW f \in Frame, Read(f) PROVE NamedInv'
  BY <1>1, <1>3 DEF Read, out, NamedInv, NamedOK
<1>4. CASE Again
  BY <1>1, <1>4 DEF Again, NamedInv, NamedOK
<1>5. CASE \/ AnalyzePacket \/ AnalyzeArp \/ AnalyzeIp \/ AnalyzeData
           \/ AnalyzeIcmp \/ AnalyzeTcp \/ AnalyzeUdp
  <2>1. Prints
    BY <1>5, WalkPrints
  <2> QED
    BY <1>1, <2>1, NamesKept DEF NamedInv, Prints
<1> QED
  BY <1>2, <1>3, <1>4, <1>5 DEF Next

(* An entry of a table whose limit is its last index says what the table   *)
(* says.                                                                   *)
LEMMA EntryRight ==
    ASSUME NEW w \in {"hrd", "op", "proto"}, NEW i \in Nat
    PROVE  LookUp(w, i) = IF i < Len(Table(w)) THEN Table(w)[i + 1] ELSE None
<1>1. Len(Table(w)) = Limit(w) + 1 /\ Limit(w) \in Nat
  <2>1. /\ w = "hrd" => Table(w) = Hrd /\ Limit(w) = 23
        /\ w = "op" => Table(w) = Op /\ Limit(w) = 10
        /\ w = "proto" => Table(w) = Proto /\ Limit(w) = 17
    BY DEF Table, Limit
  <2>2. Len(Hrd) = 23 + 1
    BY HrdLength
  <2>3. Len(Op) = 10 + 1
    BY OpLength
  <2>4. Len(Proto) = 17 + 1
    BY ProtoNames
  <2>5. 23 \in Nat /\ 10 \in Nat /\ 17 \in Nat
    OBVIOUS
  <2> QED
    BY <2>1, <2>2, <2>3, <2>4, <2>5
<1> QED
  BY <1>1 DEF LookUp, At

(* A number AnalyzeIp takes for a protocol has that protocol's name.       *)
LEMMA ProtoRight ==
    ASSUME NEW i \in Numbers(frame.proto), i \in Nat, frame \in Frame
    PROVE  /\ LookUp("proto", i) = "ICMP" <=> frame.proto = "icmp"
           /\ LookUp("proto", i) = "TCP" <=> frame.proto = "tcp"
           /\ LookUp("proto", i) = "UDP" <=> frame.proto = "udp"
<1>1. LookUp("proto", i) = IF i < 18 THEN Proto[i + 1] ELSE None
  BY EntryRight, ProtoNames DEF Table
<1>2. /\ i < 18 /\ Proto[i + 1] = "ICMP" <=> i = 1
      /\ i < 18 /\ Proto[i + 1] = "TCP" <=> i = 6
      /\ i < 18 /\ Proto[i + 1] = "UDP" <=> i = 17
  BY ProtoNames DEF NamesRight
<1>3. /\ i = 1 <=> frame.proto = "icmp"
      /\ i = 6 <=> frame.proto = "tcp"
      /\ i = 17 <=> frame.proto = "udp"
  BY Fit DEF Numbers
<1> QED
  BY <1>1, <1>2, <1>3 DEF None

(* What is printed behind a number is its name, for every number           *)
(* (print.c:103, print.c:127, print.c:162).                                *)
THEOREM NamedAsTables == Spec => []NamedRight
<1>1. Init => NamedInv
  BY WalkInit DEF Init, NamedInv, NamedOK
<1>2. ASSUME NamedInv PROVE NamedRight
  <2> SUFFICES ASSUME NEW n \in named
               PROVE  /\ n.table # "icmp" =>
                            n.name = IF n.field < Len(Table(n.table))
                                     THEN Table(n.table)[n.field + 1] ELSE None
                      /\ n.table = "proto" =>
                            /\ n.name = "ICMP" <=> frame.proto = "icmp"
                            /\ n.name = "TCP" <=> frame.proto = "tcp"
                            /\ n.name = "UDP" <=> frame.proto = "udp"
    BY DEF NamedRight
  <2>1. PICK w \in {"hrd", "op", "proto", "icmp"}, i \in Nat :
               n = Entry(w, i) /\ (w = "proto" => i \in Numbers(frame.proto))
    BY <1>2 DEF NamedInv, NamedOK
  <2>2. n.table = w /\ n.field = i /\ n.name = LookUp(w, i)
    BY <2>1 DEF Entry
  <2>3. frame \in Frame
    BY <1>2 DEF NamedInv, WalkInv, FrameOK
  <2>4. CASE w = "icmp"
    BY <2>2, <2>4
  <2>5. CASE w # "icmp"
    <3>1. LookUp(w, i) = IF i < Len(Table(w)) THEN Table(w)[i + 1] ELSE None
      BY <2>5, EntryRight
    <3>2. w = "proto" => /\ LookUp(w, i) = "ICMP" <=> frame.proto = "icmp"
                         /\ LookUp(w, i) = "TCP" <=> frame.proto = "tcp"
                         /\ LookUp(w, i) = "UDP" <=> frame.proto = "udp"
      BY <2>1, <2>3, ProtoRight
    <3> QED
      BY <2>2, <3>1, <3>2
  <2> QED
    BY <2>4, <2>5
<1> QED
  BY <1>1, <1>2, NamedNext, PTL DEF Spec

=============================================================================
