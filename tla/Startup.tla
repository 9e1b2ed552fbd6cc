------------------------------ MODULE Startup -------------------------------
(***************************************************************************)
(* main() of the router and of the bridge, from the first socket to the    *)
(* last close: GetDeviceInfo, InitRawSocket, DisableIpForward, the buffer  *)
(* thread, the signal handlers, the loop as a reader of its sockets, and   *)
(* the exit.  Any system call may fail, frames come in and a signal may    *)
(* be sent at any time.                                                    *)
(*                                                                         *)
(* A packet socket hears every device of the machine until it is bound to  *)
(* one; what it has heard by then stays in its queue.                      *)
(***************************************************************************)
EXTENDS Integers, SequencesExt

CONSTANT MaxFrames      \* bound on the frames that come

ASSUME FramesAssumption == MaxFrames \in Nat

Dev == {0, 1}

(* A frame came on a device, and has the hwaddr of one as its dhost; 2     *)
(* stands for any other.                                                   *)
Frame == [on : 0..2, to : 0..2]

VARIABLES
    program,    \* whose main() it is: "router" or "bridge"
    step,       \* the number of the next call
    state,      \* "starting", "looping", "joining", "closing", and how it ended
    info,       \* the socket of GetDeviceInfo is open
    known,      \* known[d]: what is filled in of Device[d]
    soc,        \* soc[d]: "none", "unbound", "bound"
    promisc,    \* the devices in promiscuous mode
    ipForward,  \* the kernel forwards packets
    caught,     \* the signal handlers are installed
    thread,     \* the buffer thread: "none", "running", "gone"
    EndFlag,
    queue,      \* queue[d]: the frames waiting in soc[d]
    handled,    \* history: the frames taken up, with the device of their socket
    frames      \* how many frames have come

setup == <<program, info, known, soc, promisc, ipForward, caught, thread>>
vars  == <<step, state, setup, EndFlag, queue, handled, frames>>

-----------------------------------------------------------------------------
(* The calls of main(), in order                                           *)

(* For each device; promiscFlag is set by the bridge. *)
Setup ==
    IF program = "router"
    THEN <<"socket", "SIOCGIFHWADDR", "SIOCGIFADDR", "SIOCGIFNETMASK", "close",
           "rawsocket", "SIOCGIFINDEX", "bind">>
    ELSE <<"rawsocket", "SIOCGIFINDEX", "bind", "SIOCGIFFLAGS", "SIOCSIFFLAGS">>

(* When both are set up. *)
Finish == IF program = "router" THEN <<"DisableIpForward", "pthread_create", "signal">>
          ELSE <<"DisableIpForward", "signal">>

Per   == Len(Setup)
Calls == 2 * Per + Len(Finish)

(* The next call, and the device it is for. *)
NextCall == CASE step <= Per     -> Setup[step]
              [] step > 2 * Per  -> Finish[step - 2 * Per]
              [] OTHER           -> Setup[step - Per]

dev == IF step <= Per THEN 0 ELSE 1

Init ==
    /\ program \in {"router", "bridge"}
    /\ step = 1 /\ state = "starting"
    /\ info = FALSE
    /\ known = [d \in Dev |-> {}]
    /\ soc = [d \in Dev |-> "none"] /\ promisc = {}
    /\ ipForward = TRUE /\ caught = FALSE
    /\ thread = "none" /\ EndFlag = FALSE
    /\ queue = [d \in Dev |-> <<>>] /\ handled = {} /\ frames = 0

At(call) == state = "starting" /\ NextCall = call

(* The call went well; after the last one the loop begins. *)
Go == /\ step' = step + 1
      /\ state' = IF step = Calls THEN "looping" ELSE "starting"

(* return (-1) *)
GiveUp == state' = "failed" /\ UNCHANGED step

Same == UNCHANGED <<EndFlag, queue, handled, frames>>

-----------------------------------------------------------------------------
(* GetDeviceInfo and InitRawSocket                                         *)

Socket ==
    /\ At("socket")
    /\ \/ Go /\ info' = TRUE
       \/ GiveUp /\ UNCHANGED info
    /\ UNCHANGED <<program, known, soc, promisc, ipForward, caught, thread>>
    /\ Same

InfoCall == \E c \in {"SIOCGIFHWADDR", "SIOCGIFADDR", "SIOCGIFNETMASK"} : At(c)

(* Mistake: the socket is left open when the call fails. *)
InfoIoctlLeaking ==
    /\ InfoCall
    /\ \/ Go /\ known' = [known EXCEPT ![dev] = @ \cup {NextCall}]
       \/ GiveUp /\ UNCHANGED known
    /\ UNCHANGED <<program, info, soc, promisc, ipForward, caught, thread>>
    /\ Same

InfoIoctl ==
    /\ InfoCall
    /\ \/ Go /\ known' = [known EXCEPT ![dev] = @ \cup {NextCall}] /\ UNCHANGED info
       \/ GiveUp /\ info' = FALSE /\ UNCHANGED known
    /\ UNCHANGED <<program, soc, promisc, ipForward, caught, thread>>
    /\ Same

CloseInfo ==
    /\ At("close")
    /\ Go /\ info' = FALSE
    /\ UNCHANGED <<program, known, soc, promisc, ipForward, caught, thread>>
    /\ Same

RawSocket ==
    /\ At("rawsocket")
    /\ \/ Go /\ soc' = [soc EXCEPT ![dev] = "unbound"]
       \/ GiveUp /\ UNCHANGED soc
    /\ UNCHANGED <<program, info, known, promisc, ipForward, caught, thread>>
    /\ Same

RawCall == \E c \in {"SIOCGIFINDEX", "bind", "SIOCGIFFLAGS", "SIOCSIFFLAGS"} : At(c)

(* Mistake: a failed call is only reported. *)
RawIoctlGoingOn ==
    /\ RawCall
    /\ Go
    /\ \/ /\ soc' = IF At("bind") THEN [soc EXCEPT ![dev] = "bound"] ELSE soc
          /\ promisc' = IF At("SIOCSIFFLAGS") THEN promisc \cup {dev} ELSE promisc
       \/ UNCHANGED <<soc, promisc>>
    /\ UNCHANGED <<program, info, known, ipForward, caught, thread>>
    /\ Same

RawIoctl ==
    /\ RawCall
    /\ \/ /\ Go
          /\ soc' = IF At("bind") THEN [soc EXCEPT ![dev] = "bound"] ELSE soc
          /\ promisc' = IF At("SIOCSIFFLAGS") THEN promisc \cup {dev} ELSE promisc
       \/ /\ GiveUp
          /\ soc' = [soc EXCEPT ![dev] = "none"]
          /\ UNCHANGED promisc
    /\ UNCHANGED <<program, info, known, ipForward, caught, thread>>
    /\ Same

-----------------------------------------------------------------------------
(* The rest of main()                                                      *)

(* Its result is not looked at. *)
DisableIpForward ==
    /\ At("DisableIpForward")
    /\ Go /\ ipForward' \in {FALSE, ipForward}
    /\ UNCHANGED <<program, info, known, soc, promisc, caught, thread>>
    /\ Same

(* A failure is printed. *)
PthreadCreate ==
    /\ At("pthread_create")
    /\ Go /\ thread' \in {"none", "running"}
    /\ UNCHANGED <<program, info, known, soc, promisc, ipForward, caught>>
    /\ Same

Signal ==
    /\ At("signal")
    /\ Go /\ caught' = TRUE
    /\ UNCHANGED <<program, info, known, soc, promisc, ipForward, thread>>
    /\ Same

(* Mistake: the destination is not looked at. *)
HandleAny(d) ==
    /\ state = "looping" /\ queue[d] # <<>>
    /\ queue' = [queue EXCEPT ![d] = Tail(@)]
    /\ handled' = handled \cup {<<Head(queue[d]).on, d>>}
    /\ UNCHANGED <<step, state, setup, EndFlag, frames>>

(* The router takes up what is sent to the device's own hwaddr, the bridge *)
(* everything.                                                             *)
Handle(d) ==
    /\ state = "looping" /\ queue[d] # <<>>
    /\ queue' = [queue EXCEPT ![d] = Tail(@)]
    /\ handled' = IF program = "bridge" \/ Head(queue[d]).to = d
                  THEN handled \cup {<<Head(queue[d]).on, d>>} ELSE handled
    /\ UNCHANGED <<step, state, setup, EndFlag, frames>>

Leave ==
    /\ state = "looping" /\ EndFlag
    /\ state' = IF program = "router" THEN "joining" ELSE "closing"
    /\ UNCHANGED <<step, setup>> /\ Same

(* Mistake: main returns without waiting for the thread. *)
JoinNot ==
    /\ state = "joining"
    /\ state' = "closing"
    /\ UNCHANGED <<step, setup>> /\ Same

(* Without a thread, BufTid is 0 and pthread_join may do anything. *)
Join ==
    /\ state = "joining"
    /\ \/ thread = "gone" /\ state' = "closing"
       \/ thread = "none" /\ state' \in {"closing", "crashed", "hung"}
    /\ UNCHANGED <<step, setup>> /\ Same

Close(d) ==
    /\ state = "closing" /\ soc[d] # "none"
    /\ d = 0 \/ soc[0] = "none"
    /\ soc' = [soc EXCEPT ![d] = "none"]
    /\ state' = IF d = 1 THEN "exited" ELSE state
    /\ UNCHANGED <<program, step, info, known, promisc, ipForward, caught, thread>>
    /\ Same

Main ==
    \/ Socket \/ InfoIoctl \/ CloseInfo \/ RawSocket \/ RawIoctl
    \/ DisableIpForward \/ PthreadCreate \/ Signal
    \/ Leave \/ Join
    \/ \E d \in Dev : Handle(d) \/ Close(d)

-----------------------------------------------------------------------------
(* The buffer thread, the user and the devices                             *)

BufThread ==
    /\ thread = "running" /\ EndFlag
    /\ state \in {"looping", "joining"}
    /\ thread' = "gone"
    /\ UNCHANGED <<program, step, state, info, known, soc, promisc, ipForward, caught>>
    /\ Same

(* SIGINT, SIGTERM or SIGQUIT: without a handler it ends the process. *)
EndSignal ==
    /\ state \in {"starting", "looping"} /\ ~EndFlag
    /\ IF caught THEN EndFlag' = TRUE /\ UNCHANGED state
       ELSE state' = "killed" /\ UNCHANGED EndFlag
    /\ UNCHANGED <<step, setup, queue, handled, frames>>

(* A device hears what is sent to its hwaddr, and more if it is            *)
(* promiscuous or the frame is for all.                                    *)
Arrive(f) ==
    /\ state \in {"starting", "looping"} /\ frames < MaxFrames
    /\ f.to = f.on \/ f.to = 2 \/ f.on \in promisc
    /\ frames' = frames + 1
    /\ queue' = [d \in Dev |->
                    IF soc[d] = "unbound" \/ (soc[d] = "bound" /\ f.on = d)
                    THEN Append(queue[d], f) ELSE queue[d]]
    /\ UNCHANGED <<step, state, setup, EndFlag, handled>>

Next == Main \/ BufThread \/ EndSignal \/ \E f \in Frame : Arrive(f)

Spec == Init /\ [][Next]_vars

FairSpec == Spec /\ WF_vars(Main) /\ WF_vars(BufThread)

-----------------------------------------------------------------------------

(* Nothing is half done when the loop begins, whichever calls have failed: *)
(* both sockets are bound, each DEVICE is filled in, the bridge's devices  *)
(* are promiscuous and the handlers installed (router/main.c:309-353).     *)
ReadyToRun ==
    state = "looping" =>
        /\ \A d \in Dev : soc[d] = "bound"
        /\ IF program = "bridge" THEN promisc = Dev
           ELSE \A d \in Dev : Cardinality(known[d]) = 3
        /\ caught

(* A call that fails on its way closes what it opened: GetDeviceInfo and   *)
(* InitRawSocket leave no socket behind that main() does not know of       *)
(* (netutil.c:86-119).                                                     *)
NothingLeft == state \notin {"starting", "killed"} => ~info /\ \A d \in Dev : soc[d] # "unbound"

(* What a socket heard of other devices before it was bound (netutil.c:27  *)
(* to 48) the router never takes for a frame of the socket's own device:   *)
(* its test of ether_dhost comes first (router/main.c:128).  The bridge    *)
(* has no such test and does.                                              *)
OwnFrames == program = "router" => \A h \in handled : h[1] = h[2]

(* After a signal the loop has noticed, the program ends in order: the     *)
(* router's thread first, then the sockets; given that there is a thread   *)
(* to wait for (router/main.c:344, main.c:359).                            *)
EndsInOrder ==
    EndFlag ~> \/ program = "router" /\ thread = "none"
               \/ state = "exited" /\ thread # "running" /\ \A d \in Dev : soc[d] = "none"

=============================================================================
