----------------------------- MODULE CallNotif ------------------------------
(***************************************************************************)
(* The Android service that outlives the activity: CallNotifService with   *)
(* its ringer, notifications, foreground mode and saved calls, and the     *)
(* plugin that hands the saved calls to a new activity.                    *)
(*                                                                         *)
(* Every handler runs on the main thread.  The activity, and with it the   *)
(* plugin and the Dart models, may be destroyed and created again while    *)
(* the service and the engine go on; what was on its way to Dart is lost.  *)
(***************************************************************************)
EXTENDS Naturals, Sequences, SequencesExt

CONSTANTS
  NotifCalls,    \* calls a behaviour has
  NotifBacklog,  \* nothing starts while more than this is under way (a bound)
  SyncCrosses,   \* Dart may save its calls while an event is under way, or the
                 \* other way round
  StaleIntent    \* a new activity may be given the intent of an earlier one

ASSUME NotifAssumption ==
  NotifBacklog \in Nat /\ SyncCrosses \in BOOLEAN /\ StaleIntent \in BOOLEAN

VARIABLES
  leg,           \* the calls of the engine
  blocks,        \* posted to the main looper
  ringer,        \* SipRinger.player
  notif,         \* the notification of each call
  ongoingCalls,
  fgMode, fgByCall,   \* _isForegroundModeStarted, ...ByCall
  saved,         \* calls of _callsState
  attached,      \* there is an activity, bound to the service
  inFront,       \* isAppInForeground
  tapped,        \* calls accepted by a tap on the notification
  toModels,      \* from the plugin to Dart
  syncs,         \* Dvc_SyncCallsState under way
  shownCalls     \* CallsModel._callItems

nvars == <<leg, blocks, ringer, notif, ongoingCalls, fgMode, fgByCall, saved,
           attached, inFront, tapped, toModels, syncs, shownCalls>>

foreground == <<fgMode, fgByCall>>
service    == <<ringer, notif, ongoingCalls, fgMode, fgByCall, saved>>
activity   == <<attached, inFront, tapped, toModels, syncs, shownCalls>>

Block(kind, c)   == [kind |-> kind, call |-> c]
Blocks           == [kind: {"incoming", "connected", "terminated"}, call: NotifCalls]
Told(kind, cs)   == [kind |-> kind, calls |-> cs]
ToldNotes        == [kind: {"incoming", "terminated", "restore"}, calls: SUBSET NotifCalls]

NotifTypeOK ==
  /\ leg \in [NotifCalls -> {"none", "dialled", "ringing", "up", "gone"}]
  /\ blocks \in Seq(Blocks)
  /\ ringer \in BOOLEAN
  /\ notif \in [NotifCalls -> {"none", "incoming", "ongoing"}]
  /\ ongoingCalls \subseteq NotifCalls /\ saved \subseteq NotifCalls
  /\ fgMode \in BOOLEAN /\ fgByCall \in BOOLEAN /\ (fgByCall => fgMode)
  /\ attached \in BOOLEAN /\ inFront \in BOOLEAN /\ tapped \subseteq NotifCalls
  /\ toModels \in Seq(ToldNotes) /\ syncs \in Seq(SUBSET NotifCalls)
  /\ shownCalls \subseteq NotifCalls

NotifInit ==
  /\ leg = [c \in NotifCalls |-> "none"] /\ blocks = <<>>
  /\ ringer = FALSE /\ notif = [c \in NotifCalls |-> "none"]
  /\ ongoingCalls = {} /\ fgMode = FALSE /\ fgByCall = FALSE /\ saved = {}
  /\ attached = TRUE /\ inFront = TRUE /\ tapped = {}
  /\ toModels = <<>> /\ syncs = <<>> /\ shownCalls = {}

NotifRoom == Len(blocks) + Len(toModels) + Len(syncs) <= NotifBacklog

Exists(c) == leg[c] \in {"dialled", "ringing", "up"}

-----------------------------------------------------------------------------
(* The engine: each change posts one block for service and Dart.           *)

LegChanges(c, to, kind) ==
  /\ leg' = [leg EXCEPT ![c] = to]
  /\ blocks' = Append(blocks, Block(kind, c))
  /\ UNCHANGED <<service, activity>>

Rings(c)   == leg[c] = "none" /\ LegChanges(c, "ringing", "incoming")
Answers(c) == leg[c] \in {"dialled", "ringing"} /\ LegChanges(c, "up", "connected")
Finishes(c) == Exists(c) /\ LegChanges(c, "gone", "terminated")

\* The user dials in the app; the reply puts the call in the list.
Dials(c) ==
  /\ attached /\ leg[c] = "none"
  /\ leg' = [leg EXCEPT ![c] = "dialled"]
  /\ shownCalls' = shownCalls \cup {c}
  /\ UNCHANGED <<blocks, service, attached, inFront, tapped, toModels, syncs>>

-----------------------------------------------------------------------------
(* The service.                                                            *)

\* Mutant: the call claims foreground mode before Android grants it.
StartForegroundFlagged(byCall) ==
  IF fgMode THEN UNCHANGED foreground
  ELSE \/ fgMode' = TRUE /\ fgByCall' = byCall
       \/ fgByCall' = byCall /\ UNCHANGED fgMode

\* startForegroundMode does nothing when it is on; Android may refuse it, for
\* an app out of sight, without a permission, with no service to start.
StartForeground(byCall) ==
  IF fgMode THEN UNCHANGED foreground
  ELSE \/ fgMode' = TRUE /\ fgByCall' = byCall
       \/ UNCHANGED foreground

\* Mutant: a call takes foreground mode over.
OnConnectedClaims(c) ==
  /\ ringer' = FALSE
  /\ notif' = [notif EXCEPT ![c] = "ongoing"]
  /\ ongoingCalls' = ongoingCalls \cup {c}
  /\ fgMode' = TRUE /\ fgByCall' = TRUE
  /\ UNCHANGED saved

OnIncoming(c) ==
  /\ ringer' = TRUE
  /\ notif' = IF inFront THEN notif ELSE [notif EXCEPT ![c] = "incoming"]
  /\ UNCHANGED <<ongoingCalls, foreground, saved>>

\* displayOngoingCallNotification
OnConnected(c) ==
  /\ ringer' = FALSE
  /\ notif' = [notif EXCEPT ![c] = "ongoing"]
  /\ ongoingCalls' = ongoingCalls \cup {c}
  /\ StartForeground(TRUE)
  /\ UNCHANGED saved

\* removeOngoingNotification without what follows the last call.
ForegroundAfter(left) ==
  IF left = {} /\ fgByCall THEN fgMode' = FALSE /\ fgByCall' = FALSE
  ELSE UNCHANGED foreground

\* Mutant: the saved calls are left as they are.
OnTerminatedUnsaved(c) ==
  /\ ringer' = FALSE
  /\ notif' = [notif EXCEPT ![c] = "none"]
  /\ ongoingCalls' = ongoingCalls \ {c}
  /\ ForegroundAfter(ongoingCalls \ {c})
  /\ UNCHANGED saved

\* Mutant: the ringer is left to onCallConnected.
OnTerminatedRinging(c) ==
  /\ saved' = saved \ {c}
  /\ notif' = [notif EXCEPT ![c] = "none"]
  /\ ongoingCalls' = ongoingCalls \ {c}
  /\ ForegroundAfter(ongoingCalls \ {c})
  /\ UNCHANGED ringer

\* Mutant: whether it is the last call is asked before it is removed.
OnTerminatedAsksFirst(c) ==
  /\ ringer' = FALSE
  /\ saved' = saved \ {c}
  /\ notif' = [notif EXCEPT ![c] = "none"]
  /\ ongoingCalls' = ongoingCalls \ {c}
  /\ ForegroundAfter(ongoingCalls)

\* removeCallFromSavedState, removeOngoingNotification
OnTerminated(c) ==
  /\ ringer' = FALSE
  /\ saved' = saved \ {c}
  /\ notif' = [notif EXCEPT ![c] = "none"]
  /\ ongoingCalls' = ongoingCalls \ {c}
  /\ ForegroundAfter(ongoingCalls \ {c})

\* A block: the service first, then Dart if there is any.
Deliver ==
  /\ blocks # <<>> /\ (SyncCrosses \/ syncs = <<>>)
  /\ blocks' = Tail(blocks)
  /\ LET b == Head(blocks) IN
       /\ \/ b.kind = "incoming"   /\ OnIncoming(b.call)
          \/ b.kind = "connected"  /\ OnConnected(b.call)
          \/ b.kind = "terminated" /\ OnTerminated(b.call)
       /\ toModels' = IF attached /\ b.kind # "connected"
                      THEN Append(toModels, Told(b.kind, {b.call})) ELSE toModels
  /\ UNCHANGED <<leg, attached, inFront, tapped, syncs, shownCalls>>

\* Reject on the notification: callReject, then the notification goes.
RejectTapped(c) ==
  /\ notif[c] = "incoming"
  /\ notif' = [notif EXCEPT ![c] = "none"]
  /\ IF Exists(c)
     THEN /\ leg' = [leg EXCEPT ![c] = "gone"]
          /\ blocks' = Append(blocks, Block("terminated", c))
     ELSE UNCHANGED <<leg, blocks>>
  /\ UNCHANGED <<ringer, ongoingCalls, foreground, saved, activity>>

\* Hang up on the notification; it stays until the call has ended.
HangupTapped(c) ==
  /\ notif[c] = "ongoing" /\ Exists(c)
  /\ LegChanges(c, "gone", "terminated")

\* Dvc_SetForegroundMode
SetForeground(on) ==
  /\ attached
  /\ IF on THEN StartForeground(FALSE) ELSE fgMode' = FALSE /\ fgByCall' = FALSE
  /\ UNCHANGED <<leg, blocks, ringer, notif, ongoingCalls, saved, activity>>

-----------------------------------------------------------------------------
(* The activity.                                                           *)

\* The app loses the screen and saves its calls.
Inactive ==
  /\ attached /\ inFront
  /\ SyncCrosses \/ blocks \o toModels = <<>>
  /\ inFront' = FALSE
  /\ syncs' = Append(syncs, shownCalls)
  /\ UNCHANGED <<leg, blocks, service, attached, tapped, toModels, shownCalls>>

InFrontAgain ==
  /\ attached /\ ~inFront
  /\ inFront' = TRUE
  /\ UNCHANGED <<leg, blocks, service, attached, tapped, toModels, syncs, shownCalls>>

SyncCallsState ==
  /\ syncs # <<>>
  /\ saved' = Head(syncs)
  /\ syncs' = Tail(syncs)
  /\ UNCHANGED <<leg, blocks, ringer, notif, ongoingCalls, foreground, attached,
                 inFront, tapped, toModels, shownCalls>>

\* The activity is destroyed, and the Dart models with it.
Destroyed ==
  /\ attached /\ ~inFront /\ syncs = <<>>
  /\ attached' = FALSE
  /\ toModels' = <<>> /\ shownCalls' = {}
  /\ UNCHANGED <<leg, blocks, service, inFront, tapped, syncs>>

\* handleIntent: the notification goes, and Dart hears of the call.
Intents == {{}} \cup {{c} : c \in {d \in NotifCalls : notif[d] = "incoming"}}
                \cup {{c} : c \in IF StaleIntent THEN tapped ELSE {}}

\* A new activity: onServiceConnected sends the saved calls, then its intent.
Created ==
  /\ ~attached
  /\ attached' = TRUE /\ inFront' = TRUE
  /\ \E i \in Intents :
       /\ toModels' = <<Told("restore", saved)>>
                      \o (IF i = {} THEN <<>> ELSE <<Told("incoming", i)>>)
       /\ notif' = [c \in NotifCalls |-> IF c \in i THEN "none" ELSE notif[c]]
       /\ tapped' = tapped \cup i
  /\ UNCHANGED <<leg, blocks, ringer, ongoingCalls, foreground, saved, syncs,
                 shownCalls>>

\* onNewIntent: the notification is tapped while there is an activity.
NewIntent(c) ==
  /\ attached /\ notif[c] = "incoming"
  /\ inFront' = TRUE
  /\ notif' = [notif EXCEPT ![c] = "none"]
  /\ tapped' = tapped \cup {c}
  /\ toModels' = Append(toModels, Told("incoming", {c}))
  /\ UNCHANGED <<leg, blocks, ringer, ongoingCalls, foreground, saved, attached,
                 syncs, shownCalls>>

\* CallsModel: onSyncCallsState, onIncomingSip, onTerminated.
Models ==
  /\ toModels # <<>>
  /\ toModels' = Tail(toModels)
  /\ LET m == Head(toModels) IN
       shownCalls' = IF m.kind = "terminated" THEN shownCalls \ m.calls
                     ELSE shownCalls \cup m.calls
  /\ UNCHANGED <<leg, blocks, service, attached, inFront, tapped, syncs>>

NotifNext ==
  \/ NotifRoom /\ \E c \in NotifCalls :
       Rings(c) \/ Answers(c) \/ Finishes(c) \/ Dials(c)
         \/ RejectTapped(c) \/ HangupTapped(c) \/ NewIntent(c)
  \/ Deliver
  \/ \E on \in BOOLEAN : SetForeground(on)
  \/ NotifRoom /\ Inactive
  \/ InFrontAgain \/ SyncCallsState \/ Destroyed
  \/ NotifRoom /\ Created
  \/ Models

NotifSpec == NotifInit /\ [][NotifNext]_nvars

-----------------------------------------------------------------------------
(* Properties.                                                             *)

NotifRest == blocks \o toModels = <<>> /\ syncs = <<>>

(* At rest nothing rings unless a call does, and ongoing calls are those   *)
(* that are up, also when no activity saw them begin or end.               *)
ServiceTrue ==
  NotifRest =>
    /\ ringer => \E c \in NotifCalls : leg[c] = "ringing"
    /\ ongoingCalls = {c \in NotifCalls : leg[c] = "up"}
    /\ \A c \in NotifCalls : notif[c] # "none" => Exists(c)

(* A new activity shows no call that ended while there was none.           *)
NoGhostRestored == NotifRest => \A c \in shownCalls : Exists(c)

(* Foreground mode that a call started ends with the last call.            *)
CallForegroundEnds == fgByCall => ongoingCalls # {}

(* Foreground mode that the app started is neither ended nor taken over by *)
(* a call, whose end would end it.                                         *)
AppForegroundKept ==
  [][fgMode /\ ~fgByCall /\ Deliver => fgMode' /\ ~fgByCall']_nvars
=============================================================================
