------------------------------ MODULE CallHold ------------------------------
(***************************************************************************)
(* Hold and transfer of one established call: callHold, the transfers,     *)
(* onCallMediaState and onCallTransferStatus of the Android engine, and    *)
(* the CallModel of the Dart library.                                      *)
(*                                                                         *)
(* The engine keeps a flag for each side.  Its own is set as soon as the   *)
(* re-INVITE has been sent; what was negotiated is onHold and peerHolds,   *)
(* which belong to PJSIP.  pending is the re-INVITE under way.             *)
(* onCallMediaState runs on a PJSIP thread, at any moment between two steps*)
(* of callHold.                                                            *)
(***************************************************************************)
EXTENDS Integers, Sequences

CONSTANT
  HoldBacklog   \* messages under way when something new starts (a bound)

ASSUME HoldAssumption == HoldBacklog \in Nat

VARIABLES
  onHold, peerHolds, pending,   \* the SIP session
  refer,                        \* a transfer whose outcome is not final
  localHold, remoteHold,        \* PjCall
  hw,                           \* the method on the worker
  hc,                           \* onCallMediaState on a PJSIP thread
  crossed,                      \* history, see FlagsShown
  holdMainQ, holdDartQ,         \* events posted, and sent to Dart
  state, holdState              \* CallModel

hvars == <<onHold, peerHolds, pending, refer, localHold, remoteHold, hw, hc,
           crossed, holdMainQ, holdDartQ, state, holdState>>

session == <<onHold, peerHolds, pending, refer>>
flags   == <<localHold, remoteHold, crossed>>
queues  == <<holdMainQ, holdDartQ>>
model   == <<state, holdState>>

HoldFlags == [local: BOOLEAN, remote: BOOLEAN]
NoHold    == [local |-> FALSE, remote |-> FALSE]
HoldNotes == [kind: {"held", "holding", "transferring", "transferred"},
              hold: HoldFlags]
HoldNote(kind, h) == [kind |-> kind, hold |-> h]

\* PjCall.holdState
FlagsNow == [local |-> localHold, remote |-> remoteHold]

HoldTypeOK ==
  /\ onHold \in BOOLEAN /\ peerHolds \in BOOLEAN /\ refer \in BOOLEAN
  /\ pending \in {"none", "hold", "resume"}
  /\ localHold \in BOOLEAN /\ remoteHold \in BOOLEAN /\ crossed \in BOOLEAN
  /\ hw \in [pc: {"idle", "hold", "flag", "read", "post", "transfer"},
             hold: HoldFlags]
  /\ hc \in [pc: {"idle", "info", "read", "post"}, hold: HoldFlags]
  /\ holdMainQ \in Seq(HoldNotes) /\ holdDartQ \in Seq(HoldNotes)
  /\ state \in {"connected", "holding", "held", "transferring"}
  /\ holdState \in HoldFlags

HoldInit ==
  /\ onHold = FALSE /\ peerHolds = FALSE /\ pending = "none" /\ refer = FALSE
  /\ localHold = FALSE /\ remoteHold = FALSE /\ crossed = FALSE
  /\ hw = [pc |-> "idle", hold |-> NoHold]
  /\ hc = [pc |-> "idle", hold |-> NoHold]
  /\ holdMainQ = <<>> /\ holdDartQ = <<>>
  /\ state = "connected" /\ holdState = NoHold

HoldRoom == Len(holdMainQ) + Len(holdDartQ) <= HoldBacklog

\* A flag has been changed and what is to be posted has not been posted.
Reports(task) == task.pc \in {"read", "post"}

PostHeld(h) == holdMainQ' = Append(holdMainQ, HoldNote("held", h))

-----------------------------------------------------------------------------
(* callHold and the transfers on the worker; the main thread waits.        *)

HoldRequest ==
  /\ hw.pc = "idle" /\ HoldRoom
  /\ \E method \in {"hold", "transfer"} : hw' = [hw EXCEPT !.pc = method]
  /\ UNCHANGED <<session, flags, hc, queues, model>>

\* PJSIP refuses, always so while another re-INVITE is pending: an error
\* reply, and Dart changes nothing.
RequestFails ==
  /\ hw.pc \in {"hold", "transfer"}
  /\ hw' = [hw EXCEPT !.pc = "idle"]
  /\ UNCHANGED <<session, flags, hc, queues, model>>

\* setHold, or reinvite with PJSUA_CALL_UNHOLD.
SendHold ==
  /\ hw.pc = "hold" /\ pending = "none"
  /\ pending' = IF localHold THEN "resume" ELSE "hold"
  /\ hw' = [hw EXCEPT !.pc = "flag"]
  /\ UNCHANGED <<onHold, peerHolds, refer, flags, hc, queues, model>>

SetLocalHold ==
  /\ hw.pc = "flag"
  /\ localHold' = ~localHold
  /\ hw' = [hw EXCEPT !.pc = "read"]
  /\ crossed' = Reports(hc)
  /\ UNCHANGED <<session, remoteHold, hc, queues, model>>

ReadHold ==
  /\ hw.pc = "read"
  /\ hw' = [pc |-> "post", hold |-> FlagsNow]
  /\ UNCHANGED <<session, flags, hc, queues, model>>

\* Mutant: no event, as if the reply were enough.
HoldDoneQuiet ==
  /\ hw.pc = "post"
  /\ holdDartQ' = Append(holdDartQ, HoldNote("holding", NoHold))
  /\ hw' = [pc |-> "idle", hold |-> NoHold]
  /\ UNCHANGED <<session, flags, hc, holdMainQ, model>>

\* The event is posted, then the main thread sends the reply.
HoldDone ==
  /\ hw.pc = "post"
  /\ PostHeld(hw.hold)
  /\ holdDartQ' = Append(holdDartQ, HoldNote("holding", NoHold))
  /\ hw' = [pc |-> "idle", hold |-> NoHold]
  /\ UNCHANGED <<session, flags, hc, model>>

\* xfer / xferReplaces
SendRefer ==
  /\ hw.pc = "transfer"
  /\ refer' = TRUE
  /\ holdDartQ' = Append(holdDartQ, HoldNote("transferring", NoHold))
  /\ hw' = [hw EXCEPT !.pc = "idle"]
  /\ UNCHANGED <<onHold, peerHolds, pending, flags, hc, holdMainQ, model>>

-----------------------------------------------------------------------------
(* The session, and the callbacks of PJSIP.                                *)

\* The peer holds, resumes or refreshes the session.
PeerReinvite ==
  /\ pending = "none" /\ hc.pc = "idle" /\ HoldRoom
  /\ peerHolds' \in BOOLEAN
  /\ hc' = [hc EXCEPT !.pc = "info"]
  /\ UNCHANGED <<onHold, pending, refer, flags, hw, queues, model>>

\* The peer accepts our re-INVITE, or not: then nothing changes.
Answered200 ==
  /\ pending # "none" /\ hc.pc = "idle"
  /\ onHold' = (pending = "hold")
  /\ pending' = "none"
  /\ hc' = [hc EXCEPT !.pc = "info"]
  /\ UNCHANGED <<peerHolds, refer, flags, hw, queues, model>>

AnsweredNo ==
  /\ pending # "none"
  /\ pending' = "none"
  /\ UNCHANGED <<onHold, peerHolds, refer, flags, hw, hc, queues, model>>

\* Mutant: active media does not end the remote hold.
MediaStateSticky ==
  /\ hc.pc = "info"
  /\ LET status == IF onHold THEN remoteHold ELSE peerHolds \/ remoteHold IN
       /\ remoteHold' = status
       /\ hc' = [hc EXCEPT !.pc = IF status # remoteHold THEN "read" ELSE "idle"]
       /\ crossed' = IF status # remoteHold THEN Reports(hw) ELSE crossed
  /\ UNCHANGED <<session, localHold, hw, queues, model>>

\* Mutant: only a hold that begins is reported.
MediaStateBegins ==
  /\ hc.pc = "info"
  /\ LET remote == IF onHold THEN remoteHold ELSE peerHolds IN
       /\ remoteHold' = remote
       /\ hc' = [hc EXCEPT !.pc = IF remote /\ ~remoteHold THEN "read" ELSE "idle"]
       /\ crossed' = IF remote # remoteHold THEN Reports(hw) ELSE crossed
  /\ UNCHANGED <<session, localHold, hw, queues, model>>

\* onCallMediaState: local hold, which hides what the peer does, is "else".
MediaState ==
  /\ hc.pc = "info"
  /\ LET remote == IF onHold THEN remoteHold ELSE peerHolds IN
       /\ remoteHold' = remote
       /\ hc' = [hc EXCEPT !.pc = IF remote # remoteHold THEN "read" ELSE "idle"]
       /\ crossed' = IF remote # remoteHold THEN Reports(hw) ELSE crossed
  /\ UNCHANGED <<session, localHold, hw, queues, model>>

MediaRead ==
  /\ hc.pc = "read"
  /\ hc' = [pc |-> "post", hold |-> FlagsNow]
  /\ UNCHANGED <<session, flags, hw, queues, model>>

MediaPost ==
  /\ hc.pc = "post"
  /\ PostHeld(hc.hold)
  /\ hc' = [pc |-> "idle", hold |-> NoHold]
  /\ UNCHANGED <<session, flags, hw, holdDartQ, model>>

\* onCallTransferStatus, for every NOTIFY and whatever its code.
TransferStatus ==
  /\ refer /\ HoldRoom
  /\ refer' \in BOOLEAN
  /\ holdMainQ' = Append(holdMainQ, HoldNote("transferred", NoHold))
  /\ UNCHANGED <<onHold, peerHolds, pending, flags, hw, hc, holdDartQ, model>>

HoldForward ==
  /\ hw.pc = "idle" /\ holdMainQ # <<>>
  /\ holdDartQ' = Append(holdDartQ, Head(holdMainQ))
  /\ holdMainQ' = Tail(holdMainQ)
  /\ UNCHANGED <<session, flags, hw, hc, model>>

-----------------------------------------------------------------------------
(* CallModel.                                                              *)

OnHeld(h) ==
  /\ holdState' = h
  /\ state' = IF h = NoHold THEN "connected" ELSE "held"

HoldDart ==
  /\ holdDartQ # <<>>
  /\ holdDartQ' = Tail(holdDartQ)
  /\ LET n == Head(holdDartQ) IN
       \/ n.kind = "held" /\ OnHeld(n.hold)
       \/ /\ n.kind \in {"holding", "transferring"}      \* after the await
          /\ state' = n.kind /\ UNCHANGED holdState
       \/ /\ n.kind = "transferred"                      \* onTransferred
          /\ state' = "connected" /\ UNCHANGED holdState
  /\ UNCHANGED <<session, flags, hw, hc, holdMainQ>>

HoldNext ==
  \/ HoldRequest \/ RequestFails
  \/ SendHold \/ SetLocalHold \/ ReadHold \/ HoldDone
  \/ SendRefer
  \/ PeerReinvite \/ Answered200 \/ AnsweredNo
  \/ MediaState \/ MediaRead \/ MediaPost
  \/ TransferStatus
  \/ HoldForward \/ HoldDart

HoldSpec == HoldInit /\ [][HoldNext]_hvars

-----------------------------------------------------------------------------
(* Properties.                                                             *)

HoldQuiet ==
  /\ hw.pc = "idle" /\ hc.pc = "idle"
  /\ holdMainQ = <<>> /\ holdDartQ = <<>>

(* At rest Dart shows the flags of the engine, unless the last of them to  *)
(* change did so before the other side of the engine had posted its own    *)
(* (crossed): the older reading may then be posted last.  Also then Dart   *)
(* is wrong about one of the two sides at most.                            *)
FlagsShown ==
  HoldQuiet =>
    \/ holdState = FlagsNow
    \/ crossed /\ (holdState.local = localHold \/ holdState.remote = remoteHold)

(* A call does not stay in "holding": the event that ends it comes after   *)
(* the reply that began it.                                                *)
HoldingEnds ==
  state = "holding" =>
    \E k \in DOMAIN (holdDartQ \o holdMainQ) :
      (holdDartQ \o holdMainQ)[k].kind = "held"

(* Unless this side holds the call, the engine knows whether the peer does.*)
RemoteTrue == hc.pc # "info" /\ ~onHold => remoteHold = peerHolds
=============================================================================
