----------------------------- MODULE CallsModel -----------------------------
(***************************************************************************)
(* The Dart side of a call: CallsModel and CallModel of                    *)
(* lib/calls_model.dart.  One operator per event handler and per           *)
(* continuation of an awaited channel method; each updates the list of     *)
(* calls, the switched call and the conference flag, and nothing else.     *)
(* Names, logs, CDRs, DTMF, video and mute flags are left out.             *)
(*                                                                         *)
(* A CallModel is a record: id is myCallId, st the CallState, starts the   *)
(* number of times _startTime has been set, and obj the identity of the    *)
(* Dart object (the engine call it was created for).                       *)
(***************************************************************************)
EXTENDS Integers, Sequences, SequencesExt

VARIABLES
  items,     \* _callItems
  focus,     \* _switchedCallId, 0 when empty
  conf       \* _confModeStarted

model == <<items, focus, conf>>

kEmptyCallId == 0

CallStates == {"dialing", "proceeding", "ringing", "rejecting", "accepting",
               "connected", "disconnecting", "terminated"}

ModelInit == items = <<>> /\ focus = kEmptyCallId /\ conf = FALSE

Shown == {items[k].id : k \in DOMAIN items}
ShownObjs == {items[k].obj : k \in DOMAIN items}

\* _findCall: the first call of the list with this id.
IsFirst(k, id) == /\ items[k].id = id
                  /\ \A j \in DOMAIN items : j < k => items[j].id # id

NewCall(id, o, st) == [id |-> id, obj |-> o, st |-> st, starts |-> 0]

\* List.remove(call): the first place at which the object is, if it is still
\* in the list, is taken out of it.
PlaceOf(o) == CHOOSE k \in DOMAIN items :
  items[k].obj = o /\ \A j \in DOMAIN items : j < k => items[j].obj # o

Without(o) == IF o \in ShownObjs THEN RemoveAt(items, PlaceOf(o)) ELSE items

\* hasConnectedFewCalls, over a list of calls.
HasConnectedFewCalls(list) ==
  \E j, k \in DOMAIN list : /\ j # k
                            /\ list[j].st = "connected"
                            /\ list[k].st = "connected"

-----------------------------------------------------------------------------
(* Event handlers.                                                         *)

\* Mutant: a second call is ignored while another has the focus.
OnIncomingSipBusy(id, o) ==
  IF focus # kEmptyCallId
  THEN UNCHANGED model
  ELSE /\ items' = Append(items, NewCall(id, o, "ringing"))
       /\ focus' = id
       /\ UNCHANGED conf

\* A known id is skipped; the first call takes the focus.
OnIncomingSip(id, o) ==
  IF id \in Shown
  THEN UNCHANGED model
  ELSE /\ items' = Append(items, NewCall(id, o, "ringing"))
       /\ focus' = IF focus = kEmptyCallId THEN id ELSE focus
       /\ UNCHANGED conf

OnProceeding(id) ==
  /\ items' = [k \in DOMAIN items |->
                 IF IsFirst(k, id) THEN [items[k] EXCEPT !.st = "proceeding"]
                 ELSE items[k]]
  /\ UNCHANGED <<focus, conf>>

OnConnected(id) ==
  /\ items' = [k \in DOMAIN items |->
                 IF IsFirst(k, id)
                 THEN [items[k] EXCEPT !.st = "connected", !.starts = @ + 1]
                 ELSE items[k]]
  /\ UNCHANGED <<focus, conf>>

\* onSwitched takes whatever id the library reports.
OnSwitched(id) ==
  /\ focus' = id
  /\ UNCHANGED <<items, conf>>

\* Mutant: the focus is left to the engine's onCallSwitched.
OnTerminatedNoHandOff(id, o) ==
  LET left == Without(o) IN
  /\ items' = left
  /\ conf' = (conf /\ HasConnectedFewCalls(left))
  /\ UNCHANGED focus

\* Mutant: the position found before the await is removed, not the object.
OnTerminatedFirst(id, o) ==
  LET left == IF items = <<>> THEN items ELSE Tail(items) IN
  /\ items' = left
  /\ focus' = IF focus # id THEN focus
              ELSE IF left = <<>> THEN kEmptyCallId ELSE Head(left).id
  /\ conf' = (conf /\ HasConnectedFewCalls(left))

\* onTerminated after its await: the call object found before the await
\* leaves the list, and the focus and the conference are brought up to date.
OnTerminatedResume(id, o) ==
  LET left == Without(o) IN
  /\ items' = left
  /\ focus' = IF focus # id THEN focus
              ELSE IF left = <<>> THEN kEmptyCallId ELSE Head(left).id
  /\ conf' = (conf /\ HasConnectedFewCalls(left))

-----------------------------------------------------------------------------
(* Continuations of awaited methods.  A method that failed changes nothing *)
(* (PlatformException is turned into an error future).                     *)

\* CallsModel.invite: no check for a call with the same id.
Invited(id, o) ==
  /\ items' = Append(items, NewCall(id, o, "dialing"))
  /\ UNCHANGED <<focus, conf>>

\* CallModel.accept, reject and bye set the state of their own object.
Answered(o, st) ==
  /\ items' = [k \in DOMAIN items |->
                 IF items[k].obj = o THEN [items[k] EXCEPT !.st = st]
                 ELSE items[k]]
  /\ UNCHANGED <<focus, conf>>

\* switchToCall and makeConference.
ConfSet(on) ==
  /\ conf' = on
  /\ UNCHANGED <<items, focus>>
=============================================================================
