------------------------------ MODULE Analyze ------------------------------
(***************************************************************************)
(* The frame printer: pcap reads a frame into a buffer it uses again and   *)
(* again, and AnalyzePacket hands it from header to header                 *)
(* (pcap/pcap.c, pcap/analyze.c).  Only the lengths, the tests and the     *)
(* order of the calls are here.                                            *)
(*                                                                         *)
(* A checksum is a residue: 0 is what the tests accept (0 and 0xFFFF in    *)
(* the code).  A sum that takes in bytes behind the frame, left in the     *)
(* buffer by frames before it, may be anything.  The fields of an IPv6     *)
(* frame are what its bytes are when taken for an IPv4 header.             *)
(***************************************************************************)
EXTENDS Names

CONSTANTS
    Frame,      \* the frames read, records of the fields below
    NoFrame,    \* between frames
    Field,      \* values of the fields that are printed with a name
    Modulus     \* residues of the ones' complement sum, 65535 in the code

EtherHeader == 14   \* sizeof(struct ether_header)
EtherArp    == 28   \* sizeof(struct ether_arp)
IpHdr       == 20   \* sizeof(struct iphdr)
TcpHdr      == 20   \* sizeof(struct tcphdr)
UdpHdr      == 8    \* sizeof(struct udphdr)
Icmp        == 28   \* sizeof(struct icmp)
IcmpUsed    == 8    \* what PrintIcmp reads of it, at most

Residue == 0..(Modulus - 1)
Length  == 0..65535     \* u_int16_t

ASSUME ModulusAssumption == Modulus \in Nat \ {0}
ASSUME FieldAssumption == Field \subseteq Nat
ASSUME FrameAssumption ==
    NoFrame \notin Frame /\ Frame \subseteq [size   : Nat \ {0},    \* what read returned
                     type   : {"arp", "ip", "ipv6", "other"},
                     ihl    : 0..15,
                     totLen : Length,
                     proto  : {"icmp", "tcp", "udp", "other"},
                     head   : Residue,      \* sum of the header and its options
                     pseudo : Residue,      \* sum of the pseudo header
                     data   : Residue,      \* sum of the data
                     check  : BOOLEAN]      \* UDP: the check field is not 0

VARIABLES
    frame,      \* the frame in the buffer
    pc,         \* the function about to be called, or "read"
    ptr, lest,  \* where it starts, and the bytes behind that, as it is told
    printed,    \* the headers printed of this frame
    named,      \* the numbers printed with a name
    errors,     \* what was reported of it
    reach       \* history: how far the buffer was looked at

out == <<printed, named>>
vars == <<frame, pc, ptr, lest, out, errors, reach>>

Init ==
    /\ frame = NoFrame
    /\ pc = "read" /\ ptr = 0 /\ lest = 0
    /\ printed = {} /\ named = {} /\ errors = {} /\ reach = 0

Larger(m, n) == IF m >= n THEN m ELSE n

(* lest < sizeof(...): the int becomes a size_t, so that a negative lest   *)
(* is a very large one.                                                    *)
TooShort(n) == lest >= 0 /\ lest < n

OptionLen == frame.ihl * 4 - IpHdr

(* Mistake: the length of the IP header is not taken off. *)
DataLenWhole == frame.totLen

DataLen == frame.totLen - frame.ihl * 4

(* The sum of n bytes at `at`, which is r if those are the frame's own. *)
Sum(r, at, n) == IF at + n <= frame.size THEN {r} ELSE Residue

(* The data's sum; of no bytes it is 0. *)
DataSum(at) ==
    IF DataLen <= 0 THEN {0} ELSE Sum(frame.data, at, DataLen)

(* Options of no or negative length add nothing. *)
HeadSum == Sum(frame.head, EtherHeader, IpHdr + Larger(OptionLen, 0))

(* The sum of the 20 bytes before the options: `head` does not tell what   *)
(* part of it is theirs.                                                   *)
FirstSum == IF OptionLen > 0 THEN Residue ELSE HeadSum

Add(m, n) == (m + n) % Modulus

Looked(n) == reach' = Larger(reach, n)

Report(e) == errors' = errors \cup {e}

(* The numbers of IPPROTO_ICMP, IPPROTO_TCP and IPPROTO_UDP. *)
Numbers(proto) ==
    CASE proto = "icmp" -> {1} [] proto = "tcp" -> {6} [] proto = "udp" -> {17}
      [] OTHER -> Field \ {1, 6, 17}

(* The fields of header h that are printed with a name, and their values.  *)
Fields(h) ==
    CASE h = "arp"  -> [hrd : Field, op : Field]
      [] h = "ip"   -> [proto : Numbers(frame.proto)]
      [] h = "icmp" -> [icmp : Field]
      [] OTHER      -> {<<>>}

(* Header h is printed: PrintEtherHeader, PrintArp, ... *)
Printed(h) ==
    /\ printed' = printed \cup {h}
    /\ \E v \in Fields(h) :
          named' = named \cup
              {[table |-> t, field |-> v[t], name |-> LookUp(t, v[t])] : t \in DOMAIN v}

Return == pc' = "done" /\ UNCHANGED <<frame, ptr, lest>>

(* f(ptr, lest), after the n bytes of a header. *)
Call(f, n) == pc' = f /\ ptr' = ptr + n /\ lest' = lest - n /\ UNCHANGED frame

-----------------------------------------------------------------------------

(* The loop of main().  A read that fails changes nothing. *)
Read(f) ==
    /\ pc = "read"
    /\ frame' = f
    /\ pc' = "packet" /\ lest' = f.size
    /\ UNCHANGED <<ptr, out, errors, reach>>

(* AnalyzePacket returns: nothing is kept of the frame but its bytes. *)
Again ==
    /\ pc = "done"
    /\ frame' = NoFrame
    /\ pc' = "read" /\ ptr' = 0 /\ lest' = 0
    /\ printed' = {} /\ named' = {} /\ errors' = {} /\ reach' = 0

(* IPv6 goes to AnalyzeIp; AnalyzeIpv6 is called by nothing. *)
AnalyzePacket ==
    /\ pc = "packet"
    /\ IF TooShort(EtherHeader)
       THEN Report("short ether") /\ Return /\ UNCHANGED <<out, reach>>
       ELSE /\ Looked(EtherHeader)
            /\ UNCHANGED errors
            /\ IF frame.type = "other"
               THEN Return /\ UNCHANGED out
               ELSE /\ Printed("ether")
                    /\ Call(IF frame.type = "arp" THEN "arp" ELSE "ip", EtherHeader)

AnalyzeArp ==
    /\ pc = "arp"
    /\ IF TooShort(EtherArp)
       THEN Report("short arp") /\ UNCHANGED <<out, reach>>
       ELSE Printed("arp") /\ Looked(ptr + EtherArp) /\ UNCHANGED errors
    /\ Return

(* The header; its checksum is tested before anything of it is printed.    *)
(* Options have 40 bytes at most: the limit of 1500 is never met.          *)
AnalyzeIp ==
    /\ pc = "ip"
    /\ \/ /\ TooShort(IpHdr)
          /\ Report("short ip") /\ Return
          /\ UNCHANGED <<out, reach>>
       \/ /\ ~TooShort(IpHdr)
          /\ Looked(ptr + IpHdr + Larger(OptionLen, 0))
          /\ \E s \in HeadSum :
                IF s # 0
                THEN Report("bad ip checksum") /\ Return /\ UNCHANGED out
                ELSE /\ Printed("ip")
                     /\ UNCHANGED errors
                     /\ IF frame.proto = "other"
                        THEN Return
                        ELSE Call("data", IpHdr + Larger(OptionLen, 0))

(* Mistake: TCP data is summed without the pseudo header. *)
DataVerdictUnheaded ==
    CASE frame.proto = "icmp" -> {s = 0 : s \in DataSum(ptr)}
      [] frame.proto = "tcp"  -> {s = 0 : s \in DataSum(ptr)}
      [] frame.proto = "udp"  ->
            {~frame.check \/ Add(h, d) = 0 : h \in FirstSum, d \in DataSum(ptr)}

(* The verdicts the tests of the data may come to.  UDP is tested with     *)
(* checkIPchecksum, the test of headers, with the data in the options'     *)
(* place, and only if its check field, at byte 6, is not 0; ICMP has no    *)
(* pseudo header.                                                          *)
DataVerdict ==
    CASE frame.proto = "icmp" -> {s = 0 : s \in DataSum(ptr)}
      [] frame.proto = "tcp"  -> {Add(frame.pseudo, s) = 0 : s \in DataSum(ptr)}
      [] frame.proto = "udp"  ->
            {~c \/ Add(h, d) = 0 :
                c \in IF ptr + UdpHdr <= frame.size THEN {frame.check} ELSE BOOLEAN,
                h \in FirstSum, d \in DataSum(ptr)}

(* AnalyzeIp goes on with what the header carries.  (UDP data whose check  *)
(* field is 0 is not summed; `reach` is then an upper bound.)              *)
AnalyzeData ==
    /\ pc = "data"
    /\ Looked(IF frame.proto = "udp" THEN ptr + Larger(DataLen, UdpHdr)
              ELSE ptr + Larger(DataLen, 0))
    /\ \E ok \in DataVerdict :
          IF ok
          THEN Call(frame.proto, 0) /\ UNCHANGED errors
          ELSE Return /\ Report("bad checksum")
    /\ UNCHANGED out

(* A short packet is reported, and printed all the same. *)
AnalyzeIcmp ==
    /\ pc = "icmp"
    /\ errors' = IF TooShort(Icmp) THEN errors \cup {"short icmp"} ELSE errors
    /\ Printed("icmp") /\ Looked(ptr + IcmpUsed)
    /\ Return

AnalyzeTcp ==
    /\ pc = "tcp"
    /\ IF TooShort(TcpHdr)
       THEN Report("short tcp") /\ UNCHANGED <<out, reach>>
       ELSE Printed("tcp") /\ Looked(ptr + TcpHdr) /\ UNCHANGED errors
    /\ Return

AnalyzeUdp ==
    /\ pc = "udp"
    /\ IF TooShort(UdpHdr)
       THEN Report("short udp") /\ UNCHANGED <<out, reach>>
       ELSE Printed("udp") /\ Looked(ptr + UdpHdr) /\ UNCHANGED errors
    /\ Return

Next ==
    \/ \E f \in Frame : Read(f)
    \/ Again
    \/ AnalyzePacket \/ AnalyzeArp \/ AnalyzeIp \/ AnalyzeData
    \/ AnalyzeIcmp \/ AnalyzeTcp \/ AnalyzeUdp

Spec == Init /\ [][Next]_vars

-----------------------------------------------------------------------------

Done == pc = "done"

(* The lengths a frame states are those it has, and its data holds the     *)
(* header it should start with.                                            *)
HeaderOf(f) ==
    CASE f.proto = "tcp" -> TcpHdr [] f.proto = "udp" -> UdpHdr
      [] f.proto = "icmp" -> IcmpUsed [] OTHER -> 0

Honest(f) ==
    f.type = "ip" =>
        /\ f.ihl >= 5
        /\ f.ihl * 4 + HeaderOf(f) <= f.totLen
        /\ EtherHeader + f.totLen <= f.size

(* Its checksums are those the protocols ask for. *)
Sound(f) ==
    /\ f.head = 0
    /\ f.proto = "icmp" => f.data = 0
    /\ f.proto = "tcp" \/ (f.proto = "udp" /\ f.check) => Add(f.pseudo, f.data) = 0

(* Nothing is said of a frame that honestly states its lengths from bytes  *)
(* behind it: those belong to frames printed before (pcap.c:85).           *)
OwnBytes ==
    pc # "read" /\ frame.type # "ipv6" /\ Honest(frame) => reach <= frame.size

(* Of such a frame the TCP or ICMP header is printed if and only if its    *)
(* checksums are right, and then with the headers around it; the outcome   *)
(* does not depend on padding or on what the buffer held before            *)
(* (analyze.c:173, analyze.c:181).                                         *)
HonestVerdict ==
    Done /\ frame.type = "ip" /\ Honest(frame) /\ frame.proto \in {"tcp", "icmp"} =>
        (printed = {"ether", "ip", frame.proto} <=> Sound(frame))

(* What is printed behind a number is its name: the number a table is       *)
(* tested against is the index of its last entry (print.c:103,             *)
(* print.c:127, print.c:162), and the protocol PrintIpHeader names is the  *)
(* one AnalyzeIp goes on with (analyze.c:171).  The table of ICMP types,   *)
(* which lacks a comma (print.c:222), is left out of this.                 *)
NamedRight ==
    \A n \in named :
        /\ n.table # "icmp" =>
              n.name = IF n.field < Len(Table(n.table)) THEN Table(n.table)[n.field + 1] ELSE None
        /\ n.table = "proto" =>
              /\ n.name = "ICMP" <=> frame.proto = "icmp"
              /\ n.name = "TCP" <=> frame.proto = "tcp"
              /\ n.name = "UDP" <=> frame.proto = "udp"

=============================================================================
