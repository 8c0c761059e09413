----------------------------- MODULE CallMixer ------------------------------
(***************************************************************************)
(* Which calls the microphone and the loudspeaker are joined to: the       *)
(* methods callMuteMic, mixerSwitchToCall and mixerMakeConference of the   *)
(* Android engine and connectAudio, which runs in onCallMediaState.        *)
(*                                                                         *)
(* mic, speaker and mesh are the links of the conference bridge of PJSIP,  *)
(* which drops those of a call whose media it sets up anew or takes away.  *)
(* The call table itself is the subject of SipCalls; here a call that ends *)
(* leaves it in one step.  Callbacks run on PJSIP threads, at any moment    *)
(* between two steps of a method; the loop of a method over all calls is   *)
(* one step.                                                               *)
(***************************************************************************)
EXTENDS Naturals, FiniteSets

CONSTANTS
  MixCalls,     \* calls a behaviour has
  Nobody        \* switchedCallId is -1

ASSUME MixAssumption == Nobody \notin MixCalls

VARIABLES
  calls,        \* calls of the engine
  audio,        \* of each call: no media yet, active, or on hold by a side
  mic, speaker, \* calls the device is joined to
  mesh,         \* pairs of calls of which the first is heard by the second
  muted,        \* PjCall.muted
  switchedCallId,
  mw,           \* the method on the worker
  mc            \* onCallMediaState on a PJSIP thread

xvars == <<calls, audio, mic, speaker, mesh, muted, switchedCallId, mw, mc>>

bridge == <<mic, speaker, mesh>>

MixTypeOK ==
  /\ calls \subseteq MixCalls
  /\ audio \in [MixCalls -> {"none", "active", "local", "remote"}]
  /\ mic \subseteq calls /\ speaker \subseteq calls
  /\ mesh \subseteq calls \X calls
  /\ muted \subseteq calls
  /\ switchedCallId \in MixCalls \cup {Nobody}
  /\ mw \in [pc: {"idle", "mute", "unmute", "switch"}, call: MixCalls \cup {Nobody}]
  /\ mc \in [pc: {"idle", "info", "join"}, call: MixCalls \cup {Nobody}]

IdleMw == [pc |-> "idle", call |-> Nobody]
IdleMc == [pc |-> "idle", call |-> Nobody]

MixInit ==
  /\ calls = {}
  /\ audio = [c \in MixCalls |-> "none"]
  /\ mic = {} /\ speaker = {} /\ mesh = {}
  /\ muted = {}
  /\ switchedCallId = Nobody
  /\ mw = IdleMw /\ mc = IdleMc

\* activeAudioMedia finds media unless this side holds the call.
HasAudio(c) == audio[c] \in {"active", "remote"}

-----------------------------------------------------------------------------
(* PJSIP: calls come, change their media and go.                           *)

\* onIncomingCall, or callInvite on the worker, which gives it the focus.
Begin(c) ==
  /\ c \notin calls /\ audio[c] = "none"
  /\ calls' = calls \cup {c}
  /\ \/ UNCHANGED switchedCallId
     \/ mw.pc = "idle" /\ switchedCallId' = c
  /\ UNCHANGED <<audio, bridge, muted, mw, mc>>

\* Media is set up anew, and with it the port on the bridge.
MediaUpdate(c) ==
  /\ c \in calls /\ mc.pc = "idle"
  /\ \E s \in {"active", "local", "remote"} : audio' = [audio EXCEPT ![c] = s]
  /\ mic' = mic \ {c} /\ speaker' = speaker \ {c}
  /\ mesh' = {l \in mesh : l[1] # c /\ l[2] # c}
  /\ mc' = [pc |-> "info", call |-> c]
  /\ UNCHANGED <<calls, muted, switchedCallId, mw>>

\* A call ends; the focus goes to one that is left (onCallState).
End(c) ==
  /\ c \in calls /\ mc.call # c
  /\ calls' = calls \ {c}
  /\ audio' = [audio EXCEPT ![c] = "none"]
  /\ mic' = mic \ {c} /\ speaker' = speaker \ {c} /\ muted' = muted \ {c}
  /\ mesh' = {l \in mesh : l[1] # c /\ l[2] # c}
  /\ IF switchedCallId = c
     THEN switchedCallId' \in IF calls = {c} THEN {Nobody} ELSE calls \ {c}
     ELSE UNCHANGED switchedCallId
  /\ UNCHANGED <<mw, mc>>

-----------------------------------------------------------------------------
(* onCallMediaState / connectAudio.                                        *)

\* Mutant: the mute flag is not looked at.
ConnectDeaf ==
  /\ mc.pc = "info"
  /\ IF audio[mc.call] = "active"
     THEN /\ speaker' = speaker \cup {mc.call}
          /\ mc' = [mc EXCEPT !.pc = "join"]
     ELSE UNCHANGED speaker /\ mc' = IdleMc
  /\ UNCHANGED <<calls, audio, mic, mesh, muted, switchedCallId, mw>>

\* The loudspeaker, and a look at the mute flag.
Connect ==
  /\ mc.pc = "info"
  /\ IF audio[mc.call] = "active"
     THEN /\ speaker' = speaker \cup {mc.call}
          /\ mc' = IF mc.call \in muted THEN IdleMc ELSE [mc EXCEPT !.pc = "join"]
     ELSE UNCHANGED speaker /\ mc' = IdleMc
  /\ UNCHANGED <<calls, audio, mic, mesh, muted, switchedCallId, mw>>

ConnectMic ==
  /\ mc.pc = "join"
  /\ mic' = mic \cup {mc.call}
  /\ mc' = IdleMc
  /\ UNCHANGED <<calls, audio, speaker, mesh, muted, switchedCallId, mw>>

-----------------------------------------------------------------------------
(* Methods.  One that names an unknown call, or whose call has no media,   *)
(* changes nothing.                                                        *)

MuteMic(c, mute) ==
  /\ mw.pc = "idle" /\ c \in calls /\ HasAudio(c)
  /\ mic' = IF mute THEN mic \ {c} ELSE mic \cup {c}
  /\ mw' = [pc |-> IF mute THEN "mute" ELSE "unmute", call |-> c]
  /\ UNCHANGED <<calls, audio, speaker, mesh, muted, switchedCallId, mc>>

MuteMicDone ==
  /\ mw.pc \in {"mute", "unmute"}
  /\ muted' = IF mw.pc = "mute" THEN muted \cup ({mw.call} \cap calls)
              ELSE muted \ {mw.call}
  /\ mw' = IdleMw
  /\ UNCHANGED <<calls, audio, bridge, switchedCallId, mc>>

\* Mutant: other calls keep the microphone.
SwitchToCallLeaky(c) ==
  /\ mw.pc = "idle" /\ c \in calls
  /\ speaker' = (speaker \ {d \in calls : HasAudio(d)}) \cup {d \in {c} : HasAudio(d)}
  /\ mic' = mic \cup {d \in {c} \ muted : HasAudio(d)}
  /\ mw' = [pc |-> "switch", call |-> c]
  /\ UNCHANGED <<calls, audio, mesh, muted, switchedCallId, mc>>

\* The loop over the calls: the target is joined, the others are taken off.
SwitchToCall(c) ==
  /\ mw.pc = "idle" /\ c \in calls
  /\ LET others == {d \in calls \ {c} : HasAudio(d)} IN
       /\ speaker' = (speaker \ others) \cup {d \in {c} : HasAudio(d)}
       /\ mic' = (mic \ others) \cup {d \in {c} \ muted : HasAudio(d)}
  /\ mw' = [pc |-> "switch", call |-> c]
  /\ UNCHANGED <<calls, audio, mesh, muted, switchedCallId, mc>>

SwitchDone ==
  /\ mw.pc = "switch"
  /\ switchedCallId' = mw.call
  /\ mw' = IdleMw
  /\ UNCHANGED <<calls, audio, bridge, muted, mc>>

MakeConference ==
  /\ mw.pc = "idle"
  /\ LET medias == {c \in calls : HasAudio(c)} IN
       /\ speaker' = speaker \cup medias
       /\ mic' = mic \cup (medias \ muted)
       /\ mesh' = mesh \cup {l \in medias \X medias : l[1] # l[2]}
  /\ switchedCallId' = Nobody
  /\ UNCHANGED <<calls, audio, muted, mw, mc>>

MixNext ==
  \/ \E c \in MixCalls : Begin(c) \/ MediaUpdate(c) \/ End(c)
  \/ Connect \/ ConnectMic
  \/ \E c \in MixCalls, mute \in BOOLEAN : MuteMic(c, mute)
  \/ MuteMicDone
  \/ \E c \in MixCalls : SwitchToCall(c)
  \/ SwitchDone
  \/ MakeConference

MixSpec == MixInit /\ [][MixNext]_xvars

-----------------------------------------------------------------------------
(* Properties.                                                             *)

\* The call is muted, off the microphone, and neither is it being unmuted nor
\* has a connectAudio found it unmuted and yet to join it.
Silenced(c) ==
  /\ c \in muted /\ c \notin mic
  /\ ~(mw.pc = "unmute" /\ mw.call = c)
  /\ ~(mc.pc = "join" /\ mc.call = c)

(* Once callMuteMic has silenced a call it stays so, whatever is switched, *)
(* joined to a conference or renegotiated, and whichever callback crosses  *)
(* a method, until the user unmutes it or it ends.                         *)
MuteLasts ==
  [][\A c \in MixCalls :
       Silenced(c) => \/ Silenced(c)' \/ c \notin calls'
                      \/ mw'.pc = "unmute" /\ mw'.call = c]_xvars

(* The call that has the focus is heard when its media is active, also    *)
(* when the focus has been handed to it by the end of another call.        *)
SwitchedHeard ==
  mw.pc = "idle" /\ mc.pc = "idle" /\ switchedCallId \in calls =>
    (audio[switchedCallId] = "active" => switchedCallId \in speaker)

(* When mixerSwitchToCall has been through the calls, no other has         *)
(* microphone or loudspeaker: one it passes over, as it has no media, was  *)
(* not joined.                                                             *)
SwitchSeparates ==
  [][mw.pc = "idle" /\ mw'.pc = "switch" =>
       mic' \subseteq {mw'.call} /\ speaker' \subseteq {mw'.call}]_xvars
=============================================================================
