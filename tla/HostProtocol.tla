---------------------------- MODULE HostProtocol ----------------------------
(***************************************************************************)
(* The exchange a host may rely on (docs/spec/aster-host-protocol-0.2.md), *)
(* with no trace, no machine and no hashes: which reply is awaited, and    *)
(* which effects a host has ever been allowed to perform.                  *)
(*                                                                         *)
(* Every effect is previewed, granted and answered, in that order and one  *)
(* at a time.  After a resume the conversation starts with a handshake and *)
(* goes straight to a grant that was issued before: no second preview, no  *)
(* second admission.  HostSession implements this specification            *)
(* (HostSession!Protocol).                                                 *)
(***************************************************************************)
CONSTANT Nothing

VARIABLES
  awaited,     \* the reply awaited, or "none" after a terminal frame
  effect,      \* the request previewed or granted, or Nothing
  permitted,   \* the grants ever issued
  resumed      \* whether this conversation continues an earlier one

pvars == <<awaited, effect, permitted, resumed>>

PInit ==
  /\ awaited = "hello_ack" /\ effect = Nothing
  /\ permitted = {} /\ resumed = FALSE

\* After the first handshake, or once the effect before is answered.
MayProceed == awaited = "effect_resolution" \/ (awaited = "hello_ack" /\ ~resumed)

Preview ==
  /\ MayProceed
  /\ awaited' = "effect_admission" /\ effect' # Nothing
  /\ UNCHANGED <<permitted, resumed>>

Grant(grant) ==
  /\ awaited = "effect_admission"
  /\ awaited' = "effect_resolution"
  /\ grant.request = effect
  /\ permitted' = permitted \cup {grant}
  /\ UNCHANGED <<effect, resumed>>

Regrant(grant) ==
  /\ awaited = "hello_ack" /\ resumed
  /\ awaited' = "effect_resolution"
  /\ grant \in permitted
  /\ effect' = grant.request
  /\ UNCHANGED <<permitted, resumed>>

Finish ==
  /\ MayProceed
  /\ awaited' = "none" /\ effect' = Nothing
  /\ UNCHANGED <<permitted, resumed>>

Break ==
  /\ awaited # "none"
  /\ awaited' = "none" /\ effect' = Nothing
  /\ UNCHANGED <<permitted, resumed>>

\* Only a conversation that reached a grant can be resumed.
Resume ==
  /\ permitted # {}
  /\ awaited' = "hello_ack" /\ effect' = Nothing /\ resumed' = TRUE
  /\ UNCHANGED permitted

PNext ==
  \/ Preview \/ Finish \/ Break \/ Resume
  \/ \E grant \in permitted' : Grant(grant) \/ Regrant(grant)

PSpec == PInit /\ [][PNext]_pvars
=============================================================================
