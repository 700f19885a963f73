---------------------------- MODULE RequestReply ----------------------------
(***************************************************************************)
(* What a client is promised by Connection::postPacket: a packet that is   *)
(* accepted is answered, through its handler, exactly once (with the       *)
(* response, a TimeoutPacket or a BadPacket); one that is refused never.   *)
(***************************************************************************)
EXTENDS Naturals

CONSTANT Requests

VARIABLES
  phase,  \* "idle", then "accepted" or "refused"
  calls   \* how often the request's handler was called

Init ==
  /\ phase = [r \in Requests |-> "idle"]
  /\ calls = [r \in Requests |-> 0]

Accept(r) ==
  /\ phase[r] = "idle"
  /\ phase' = [phase EXCEPT ![r] = "accepted"]
  /\ UNCHANGED calls

Refuse(r) ==
  /\ phase[r] = "idle"
  /\ phase' = [phase EXCEPT ![r] = "refused"]
  /\ UNCHANGED calls

Answer(r) ==
  /\ phase[r] = "accepted"
  /\ calls[r] = 0
  /\ calls' = [calls EXCEPT ![r] = 1]
  /\ UNCHANGED phase

Next == \E r \in Requests : Accept(r) \/ Refuse(r) \/ Answer(r)

Spec == Init /\ [][Next]_<<phase, calls>>

LiveSpec == Spec /\ \A r \in Requests : WF_<<phase, calls>>(Answer(r))
=============================================================================
