----------------------------- MODULE Forwarder -----------------------------
(***************************************************************************)
(* What the router promises for the frames it accepts: each is held from   *)
(* its arrival until it is either written once or dropped, and a frame     *)
(* that has been written or dropped does not come back.                    *)
(***************************************************************************)
CONSTANT Frame

VARIABLES coming, held, sent, dropped

vars == <<coming, held, sent, dropped>>

TypeOK == /\ coming \subseteq Frame
          /\ held \subseteq Frame
          /\ sent \subseteq Frame
          /\ dropped \subseteq Frame

Init ==
    /\ coming = Frame
    /\ held = {}
    /\ sent = {}
    /\ dropped = {}

(* A frame arrives; frames held until now may be given up to make room. *)
Receive(f) ==
    /\ f \in coming
    /\ coming' = coming \ {f}
    /\ \E gone \in SUBSET held :
          /\ held' = (held \ gone) \cup {f}
          /\ dropped' = dropped \cup gone
    /\ UNCHANGED sent

(* Held frames are given up. *)
Drop ==
    /\ \E gone \in SUBSET held :
          /\ held' = held \ gone
          /\ dropped' = dropped \cup gone
    /\ UNCHANGED <<coming, sent>>

(* A held frame is written. *)
Send(f) ==
    /\ f \in held
    /\ held' = held \ {f}
    /\ sent' = sent \cup {f}
    /\ UNCHANGED <<coming, dropped>>

Next == Drop \/ \E f \in Frame : Receive(f) \/ Send(f)

Spec == Init /\ [][Next]_vars

=============================================================================
