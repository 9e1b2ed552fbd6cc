------------------------------ MODULE Checksum -----------------------------
(***************************************************************************)
(* The Internet checksum as the router and the frame printer compute it    *)
(* (checksum, checksum2, checkIPchecksum in router/netutil.c and their     *)
(* copies in pcap/checksum.c), one turn of a loop at a time.               *)
(*                                                                         *)
(* The data comes in two pieces, added word by word into 32 bits that are  *)
(* folded only when their top bit is set.  Words are read in the order of  *)
(* the host, least significant byte first.  The first piece has an even    *)
(* length at every call (20, 12 or 48 bytes), so the branch for a word     *)
(* that straddles the pieces (netutil.c:219) is not taken.                 *)
(***************************************************************************)
EXTENDS Integers, Sequences

CONSTANTS
    Base,       \* values of a byte (256 in the code), at least 2 and even
    Header,     \* first pieces: IP headers, or pseudo headers
    Option,     \* second pieces: IP options, or data
    CheckAt     \* where the check field of a header starts, 11 in the code

ASSUME BaseAssumption == Base \in Nat /\ Base >= 2 /\ Base % 2 = 0
ASSUME PieceAssumption ==
    /\ Header \subseteq Seq(0..(Base - 1)) /\ Option \subseteq Seq(0..(Base - 1))
    /\ \A h \in Header : Len(h) % 2 = 0 /\ CheckAt + 1 \in 1..Len(h)
    /\ CheckAt \in Nat /\ CheckAt % 2 = 1

W16  == Base * Base    \* 2^16, the range of u_int16_t
W32  == W16 * W16      \* 2^32, the range of u_int32_t

VARIABLES
    head, option,   \* the two pieces
    first, second,  \* what is left of them to add
    sum,
    pc,             \* "idle", then "first", "second", "carry", and "done"
    use,            \* what the call is for: "write" or "test"
    fate,           \* history: what happened to the header, "raw" at first
    check           \* the last value returned

vars == <<head, option, first, second, sum, pc, use, fate, check>>

Init ==
    /\ head \in Header /\ option \in Option
    /\ first = <<>> /\ second = <<>> /\ sum = 0
    /\ pc = "idle" /\ use = "test" /\ fate = "raw" /\ check = 0

ReadWord(s) == s[1] + Base * s[2]

Rest(s) == SubSeq(s, 3, Len(s))

(* The check field of a header set to a value. *)
SetCheck(h, v) == [h EXCEPT ![CheckAt] = v % Base, ![CheckAt + 1] = v \div Base]

(* Mistake: the upper half is dropped. *)
FoldedLossy(n) == n % W16

Folded(n) == (n % W16) + (n \div W16)

(* Mistake: sum is never folded in the loop. *)
AddedUnfolded(w) == (sum + w) % W32

(* sum += *ptr; if (sum & 0x80000000) ... *)
Added(w) ==
    LET n == (sum + w) % W32
    IN  IF n >= W32 \div 2 THEN Folded(n) ELSE n

-----------------------------------------------------------------------------
(* The calls                                                               *)

Start(h, o, u) ==
    /\ pc = "idle"
    /\ pc' = "first"
    /\ first' = h /\ second' = o
    /\ sum' = 0
    /\ use' = u

(* Mistake: the check field is not cleared first. *)
WriteUncleared ==
    /\ fate = "raw"
    /\ Start(head, option, "write")
    /\ UNCHANGED <<head, option, fate, check>>

(* iphdr->check = 0; iphdr->check = checksum2(iphdr, 20, option, optionLen) *)
Write ==
    /\ fate = "raw"
    /\ head' = SetCheck(head, 0)
    /\ Start(head', option, "write")
    /\ UNCHANGED <<option, fate, check>>

(* checkIPchecksum: for a header without options it calls checksum, which  *)
(* is checksum2 with nothing in its first piece.                           *)
Test ==
    /\ IF option = <<>> THEN Start(<<>>, head, "test") ELSE Start(head, option, "test")
    /\ UNCHANGED <<head, option, fate, check>>

(* The same for an ihl below 5: the length of the options is negative, and *)
(* checksum2 is called, with a second piece of which it reads nothing.     *)
TestShort ==
    /\ option = <<>>
    /\ Start(head, <<>>, "test")
    /\ UNCHANGED <<head, option, fate, check>>

(* checkIPDATAchecksum, checkIP6DATAchecksum: a pseudo header and data. *)
TestData ==
    /\ fate = "raw"
    /\ Start(head, option, "test")
    /\ UNCHANGED <<head, option, fate, check>>

(* One byte of the header changes on its way to the next router. *)
Damage(i, b) ==
    /\ pc = "idle" /\ fate = "written"
    /\ head[i] # b
    /\ head' = [head EXCEPT ![i] = b]
    /\ fate' = "damaged"
    /\ UNCHANGED <<option, first, second, sum, pc, use, check>>

-----------------------------------------------------------------------------
(* The loops                                                               *)

AddFirst ==
    /\ pc = "first" /\ Len(first) > 1
    /\ sum' = Added(ReadWord(first))
    /\ first' = Rest(first)
    /\ UNCHANGED <<head, option, second, pc, use, fate, check>>

EndFirst ==
    /\ pc = "first" /\ first = <<>>
    /\ pc' = "second"
    /\ UNCHANGED <<head, option, first, second, sum, use, fate, check>>

AddSecond ==
    /\ pc = "second" /\ Len(second) > 1
    /\ sum' = Added(ReadWord(second))
    /\ second' = Rest(second)
    /\ UNCHANGED <<head, option, first, pc, use, fate, check>>

(* Mistake: the last byte is taken for the upper half of a word. *)
EndSecondShifted ==
    /\ pc = "second" /\ Len(second) <= 1
    /\ sum' = IF second = <<>> THEN sum ELSE sum + Base * second[1]
    /\ second' = <<>>
    /\ pc' = "carry"
    /\ UNCHANGED <<head, option, first, use, fate, check>>

(* A last single byte is taken for a word with a zero. *)
EndSecond ==
    /\ pc = "second" /\ Len(second) <= 1
    /\ sum' = IF second = <<>> THEN sum ELSE (sum + second[1]) % W32
    /\ second' = <<>>
    /\ pc' = "carry"
    /\ UNCHANGED <<head, option, first, use, fate, check>>

(* while (sum >> 16) *)
Carry ==
    /\ pc = "carry" /\ sum >= W16
    /\ sum' = Folded(sum)
    /\ UNCHANGED <<head, option, first, second, pc, use, fate, check>>

(* return (~sum): stored in the header, or what the test goes by. *)
Return ==
    /\ pc = "carry" /\ sum < W16
    /\ check' = W16 - 1 - sum
    /\ IF use = "write"
       THEN pc' = "idle" /\ fate' = "written" /\ head' = SetCheck(head, check')
       ELSE pc' = "done" /\ UNCHANGED <<fate, head>>
    /\ UNCHANGED <<option, first, second, sum, use>>

(* sum == 0 || sum == 0xFFFF *)
Accepted == check \in {0, W16 - 1}

Next ==
    \/ Write \/ Test \/ TestShort \/ TestData
    \/ \E i \in DOMAIN head, b \in 0..(Base - 1) : Damage(i, b)
    \/ AddFirst \/ EndFirst \/ AddSecond \/ EndSecond \/ Carry \/ Return

Spec == Init /\ [][Next]_vars

-----------------------------------------------------------------------------

(* The sums of the bytes of s at odd places (p = 1) or at even ones (p = 0) *)
(* among the first n, for each n.                                          *)
Places(s, p) ==
    LET total[n \in 0..Len(s)] ==
            IF n = 0 THEN 0 ELSE total[n - 1] + (IF n % 2 = p THEN s[n] ELSE 0)
    IN  total

(* The sum of all of them: of the first or of the second bytes of words.   *)
PlaceTotal(s, p) == Places(s, p)[Len(s)]

(* The words of the data, added up in the byte order of the host and in    *)
(* that of the network; a last single byte is the first of its word.       *)
HostTotal(s) == PlaceTotal(s, 1) + Base * PlaceTotal(s, 0)
NetTotal(s)  == Base * PlaceTotal(s, 1) + PlaceTotal(s, 0)

(* The ones' complement sum of words that add up to n: n with the carries  *)
(* brought round.                                                          *)
OnesSum(n) == IF n = 0 THEN 0 ELSE ((n - 1) % (W16 - 1)) + 1

(* 32 bits are enough for data of any length: the sum is folded soon       *)
(* enough for no word to overflow it (netutil.c:183, netutil.c:235).       *)
NoWrap ==
    /\ pc = "first" /\ Len(first) > 1 => sum + ReadWord(first) < W32
    /\ pc = "second" /\ Len(second) > 1 => sum + ReadWord(second) < W32
    /\ pc = "second" /\ Len(second) = 1 => sum + second[1] < W32

(* Folding early, late or often changes nothing: what has been added and   *)
(* what is left always make the sum of all the data (netutil.c:181-249).   *)
Congruent ==
    pc \in {"first", "second", "carry"} =>
        OnesSum(sum + HostTotal(first) + HostTotal(second))
            = OnesSum(HostTotal(head \o option))

(* The test accepts the data that the Internet checksum, defined on the    *)
(* network's byte order, accepts, though it adds in the host's and takes   *)
(* two representations of zero (netutil.c:262, netutil.c:269).             *)
Verdict ==
    pc = "done" => (Accepted <=> OnesSum(NetTotal(head \o option)) \in {0, W16 - 1})

(* A header whose check field the router has written passes the test of    *)
(* the next router, with options or without, though the two compute it by  *)
(* different calls (main.c:234, netutil.c:260); an ihl below 5 makes no    *)
(* difference to what is summed (main.c:167).  A single byte of it that    *)
(* changes on the way is noticed there.                                    *)
NextHopAccepts ==
    pc = "done" => /\ fate = "written" => Accepted
                   /\ fate = "damaged" => ~Accepted

=============================================================================
