------------------------------ MODULE PollLoop ------------------------------
(***************************************************************************)
(* The loop of the router and of the bridge (Router in router/main.c,      *)
(* Bridge in bridge/main.c): poll both devices, then read each of those    *)
(* that poll reported.  `program` says whose loop it is: they differ in    *)
(* the events they read on, and in what they do with a frame.  The bridge  *)
(* writes it to the other device.  What the router decides is in Router    *)
(* and Hops; here it writes to some device or none, and so does its buffer *)
(* thread at any time.                                                     *)
(*                                                                         *)
(* A device that goes down leaves an error on its socket.  The next read   *)
(* of the socket returns that error and clears it; a write returns it, and *)
(* clears it unless the device is still down.  poll reports an error       *)
(* whether it is asked for or not.  A read of a socket without frames and  *)
(* errors waits; signal handlers restart it.                               *)
(***************************************************************************)
EXTENDS Integers, SequencesExt

CONSTANTS
    Frame,      \* frames that hosts send
    SizeOf,     \* SizeOf[f]: its length
    BufLen,     \* sizeof(buf), 2048 in the code
    Header,     \* sizeof(struct ether_header)
    MaxErrors   \* bound on the errors of the devices

ASSUME FrameAssumption == SizeOf \in [Frame -> Nat \ {0}] /\ BufLen \in Nat \ {0}

Dev == {0, 1}
Other(d) == 1 - d       \* !i

Sent(f) == [frame |-> f, size |-> SizeOf[f]]

VARIABLES
    program,    \* whose loop it is
    shared,     \* both devices of the bridge join one segment, as in src/README.md
    rx,         \* rx[d]: frames waiting in the socket of device d
    failed,     \* failed[d]: an error waits there
    errors,     \* how many errors there were
    revents,    \* what the last poll reported of each device
    i,          \* the device whose turn it is
    at,         \* "poll", "each" (in the for loop), "handle", "end"
    inHand,     \* what buf holds at "handle"
    EndFlag,
    unsent,     \* frames the hosts have still to send
    tx,         \* tx[d]: frames of the bridge on their way on the segment of d
    taken       \* history: taken[d], a write took the error since the last poll

setting  == <<program, shared>>
devices  == <<rx, failed, errors>>
control  == <<revents, i, at, inHand>>
segments == <<unsent, tx>>
vars == <<setting, devices, control, segments, EndFlag, taken>>

Init ==
    /\ program \in {"router", "bridge"}
    /\ shared \in IF program = "bridge" THEN BOOLEAN ELSE {FALSE}
    /\ rx = [d \in Dev |-> <<>>]
    /\ failed = [d \in Dev |-> FALSE] /\ errors = 0
    /\ revents = [d \in Dev |-> {}]
    /\ i = 0 /\ at = "poll" /\ inHand = <<>>
    /\ EndFlag = FALSE
    /\ unsent = Frame /\ tx = [d \in Dev |-> <<>>]
    /\ taken = [d \in Dev |-> FALSE]

(* POLLIN | POLLERR, and POLLIN || POLLERR, which is 1, that is POLLIN. *)
Mask == IF program = "router" THEN {"in", "err"} ELSE {"in"}

Pending(d) == (IF rx[d] # <<>> THEN {"in"} ELSE {}) \cup (IF failed[d] THEN {"err"} ELSE {})

Selected == revents[i] \cap Mask # {}

(* Mistake: i < 1. *)
NextDeviceNot == i' = 0 /\ at' = "poll" /\ inHand' = <<>>

NextDevice == /\ i' = Other(i)
              /\ at' = IF i = 0 THEN "each" ELSE "poll"
              /\ inHand' = <<>>

-----------------------------------------------------------------------------
(* poll and read                                                           *)

(* Mistake: the events of the last poll are kept. *)
PollKeeping ==
    /\ at = "poll" /\ ~EndFlag
    /\ \E d \in Dev : Pending(d) # {}
    /\ revents' = [d \in Dev |-> revents[d] \cup Pending(d)]
    /\ at' = "each" /\ i' = 0
    /\ taken' = [d \in Dev |-> FALSE]
    /\ UNCHANGED <<setting, devices, inHand, segments, EndFlag>>

(* poll returns something; after 100 ms without, or EINTR, the loop is     *)
(* where it was.                                                           *)
Poll ==
    /\ at = "poll" /\ ~EndFlag
    /\ \E d \in Dev : Pending(d) # {}
    /\ revents' = [d \in Dev |-> Pending(d)]
    /\ at' = "each" /\ i' = 0
    /\ taken' = [d \in Dev |-> FALSE]
    /\ UNCHANGED <<setting, devices, inHand, segments, EndFlag>>

Skip ==
    /\ at = "each" /\ ~Selected
    /\ NextDevice
    /\ UNCHANGED <<setting, devices, revents, segments, EndFlag, taken>>

(* read <= 0 *)
ReadFails ==
    /\ at = "each" /\ Selected /\ failed[i]
    /\ failed' = [failed EXCEPT ![i] = FALSE]
    /\ NextDevice
    /\ UNCHANGED <<setting, rx, errors, revents, segments, EndFlag, taken>>

(* What does not fit in buf is cut off. *)
Read ==
    /\ at = "each" /\ Selected /\ ~failed[i]
    /\ rx[i] # <<>>
    /\ inHand' = [Head(rx[i]) EXCEPT !.size = Min({@, BufLen})]
    /\ rx' = [rx EXCEPT ![i] = Tail(@)]
    /\ at' = "handle"
    /\ UNCHANGED <<setting, failed, errors, revents, i, segments, EndFlag, taken>>

(* Mistake: EndFlag is only tested after a poll that reported something. *)
LeaveBusy ==
    /\ at = "poll" /\ EndFlag
    /\ \E d \in Dev : Pending(d) # {}
    /\ at' = "end"
    /\ UNCHANGED <<setting, devices, revents, i, inHand, segments, EndFlag, taken>>

Leave ==
    /\ at = "poll" /\ EndFlag
    /\ at' = "end"
    /\ UNCHANGED <<setting, devices, revents, i, inHand, segments, EndFlag, taken>>

-----------------------------------------------------------------------------
(* What is done with a frame                                               *)

(* write fails: it returns the error of device d. *)
WriteError(d) ==
    /\ failed' \in {failed, [failed EXCEPT ![d] = FALSE]}
    /\ taken' = [taken EXCEPT ![d] = @ \/ failed'[d] # failed[d]]

(* Mistake: the frame is written to the device it came from. *)
WriteBack ==
    /\ program = "bridge" /\ at = "handle"
    /\ inHand.size >= Header /\ ~failed[i]
    /\ tx' = [tx EXCEPT ![i] = Append(@, inHand)]
    /\ NextDevice
    /\ UNCHANGED <<setting, devices, revents, unsent, EndFlag, taken>>

(* The bridge writes a frame to the other device. *)
Write ==
    /\ program = "bridge" /\ at = "handle"
    /\ inHand.size >= Header /\ ~failed[Other(i)]
    /\ tx' = [tx EXCEPT ![Other(i)] = Append(@, inHand)]
    /\ NextDevice
    /\ UNCHANGED <<setting, devices, revents, unsent, EndFlag, taken>>

(* write <= 0: the frame is gone. *)
WriteFails ==
    /\ program = "bridge" /\ at = "handle"
    /\ inHand.size >= Header /\ failed[Other(i)]
    /\ WriteError(Other(i))
    /\ NextDevice
    /\ UNCHANGED <<setting, rx, errors, revents, segments, EndFlag>>

(* AnalyzePacket of the bridge returns -1. *)
TooShort ==
    /\ program = "bridge" /\ at = "handle"
    /\ inHand.size < Header
    /\ NextDevice
    /\ UNCHANGED <<setting, devices, revents, segments, EndFlag, taken>>

(* AnalyzePacket of the router. *)
AnalyzePacket ==
    /\ program = "router" /\ at = "handle"
    /\ UNCHANGED <<failed, taken>> \/ \E d \in Dev : failed[d] /\ WriteError(d)
    /\ NextDevice
    /\ UNCHANGED <<setting, rx, errors, revents, segments, EndFlag>>

(* The buffer thread of the router writes. *)
BufferSendOne(d) ==
    /\ program = "router" /\ failed[d]
    /\ WriteError(d)
    /\ UNCHANGED <<setting, rx, errors, control, segments, EndFlag>>

Loop == \/ Poll \/ Skip \/ ReadFails \/ Read \/ Leave
        \/ Write \/ WriteFails \/ TooShort \/ AnalyzePacket

-----------------------------------------------------------------------------
(* The segments, the devices and the user                                  *)

Arrive(d, f) ==
    /\ f \in unsent
    /\ unsent' = unsent \ {f}
    /\ rx' = [e \in Dev |-> IF shared \/ e = d THEN Append(rx[e], Sent(f)) ELSE rx[e]]
    /\ UNCHANGED <<setting, failed, errors, control, tx, EndFlag, taken>>

(* A written frame reaches the machines of its segment, among them the     *)
(* other device when the segment is shared.  A socket does not hear what   *)
(* it sends itself.                                                        *)
Hear(d) ==
    /\ tx[d] # <<>>
    /\ tx' = [tx EXCEPT ![d] = Tail(@)]
    /\ rx' = IF shared THEN [rx EXCEPT ![Other(d)] = Append(@, Head(tx[d]))] ELSE rx
    /\ UNCHANGED <<setting, failed, errors, control, unsent, EndFlag, taken>>

Fail(d) ==
    /\ errors < MaxErrors
    /\ failed' = [failed EXCEPT ![d] = TRUE]
    /\ errors' = errors + 1
    /\ UNCHANGED <<setting, rx, control, segments, EndFlag, taken>>

EndSignal ==
    /\ ~EndFlag
    /\ EndFlag' = TRUE
    /\ UNCHANGED <<setting, devices, control, segments, taken>>

Next ==
    \/ Loop \/ EndSignal
    \/ \E d \in Dev :
        BufferSendOne(d) \/ Hear(d) \/ Fail(d) \/ \E f \in Frame : Arrive(d, f)

Spec == Init /\ [][Next]_vars

FairSpec == Spec /\ WF_vars(Loop) /\ \A d \in Dev : WF_vars(Hear(d))

-----------------------------------------------------------------------------

(* The read waits: nothing is there, whatever poll has said. *)
Blocked == at = "each" /\ Selected /\ ~failed[i] /\ rx[i] = <<>>

(* A loop waits in read, deaf to EndFlag and to the other device, only     *)
(* when a write took the error poll reported, and only the router's, which *)
(* reads on errors: what poll says of frames holds until the read          *)
(* (router/main.c:265, bridge/main.c:95).                                  *)
BlockedOnlyByWrite == Blocked => program = "router" /\ taken[i]

(* Frames of a side on their way: the one in the loop's hands, and those   *)
(* in the socket.                                                          *)
Waiting(d) == (IF at = "handle" /\ i = d THEN <<inHand>> ELSE <<>>) \o rx[d]

Cable == INSTANCE PatchCable WITH Packet <- {Sent(f) : f \in Frame},
                                  in <- [d \in Dev |-> Waiting(d)], out <- tx

(* The two devices, one buffer and one loop of the bridge behave as a      *)
(* cable: no frame overtakes another, comes back to its own side, crosses  *)
(* twice or turns into another, whatever fails (bridge/main.c:93).  The    *)
(* frames of the router all count as lost here.                            *)
ImplementsCable == Cable!Spec

Has(q, f) == \E k \in DOMAIN q : q[k].frame = f

(* Frames on either device get their turn, whatever the other one has to   *)
(* say, unless the loop waits in read: an error that makes poll return at  *)
(* once, and that the bridge's mask keeps from being read, does not keep   *)
(* the loop from them (bridge/main.c:94).  On a shared segment the frames  *)
(* come back for ever.                                                     *)
EachTurns ==
    \A d \in Dev, f \in Frame :
        Has(rx[d], f) /\ ~shared ~> ~Has(rx[d], f) \/ EndFlag \/ Blocked

(* A signal ends the loop unless it waits in read, also one that comes     *)
(* while errors keep poll from ever waiting (bridge/main.c:83,             *)
(* router/main.c:253).                                                     *)
SignalEnds == EndFlag ~> at = "end" \/ Blocked

=============================================================================
