------------------------------ MODULE SipCalls ------------------------------
(***************************************************************************)
(* The call table of the Android engine (SipCore.kt) and the threads that  *)
(* work on it:                                                             *)
(*                                                                         *)
(*  - the SipCoreWorker thread runs the body of every channel method       *)
(*    (exec, SipCore.kt:158) while the main thread waits for it;           *)
(*  - PJSIP threads run the callbacks of calls (onIncomingCall,            *)
(*    onCallState, onCallTsxState); a callback may run on a thread of its  *)
(*    own while the worker is inside a method;                             *)
(*  - the main looper takes its queue in order: closures posted by the     *)
(*    engine (events for Dart) and method calls sent by Dart;              *)
(*  - dartQ is what the main thread has sent to Dart, events and replies.  *)
(*                                                                         *)
(* The client here is the most general one.  CallSystem puts the Dart      *)
(* model in its place.                                                     *)
(*                                                                         *)
(* Left to other modules of the plan: hold, media, recorders, renderers,   *)
(* players and the notification service.  SIP itself is external: inv,     *)
(* slot and hungUp stand for PJSIP's INVITE session of each call.          *)
(***************************************************************************)
EXTENDS Integers, Sequences, FiniteSets

CONSTANTS
  MaxCalls,     \* number of PjCall objects a behaviour may create (a bound)
  Ids,          \* wire call ids: pjsua slot + 1, so never 0
  CbThreads,    \* threads on which PJSIP runs call callbacks
  Methods,      \* channel methods the client uses
  MaxBacklog,   \* bound on the messages under way (in either queue or in the
                \* worker) when the client sends a request, a call comes in
                \* or a call makes progress; endings are never held back
  Awaiters,     \* identities of the client's objects that await replies
  FastPeer      \* TRUE: callbacks of an outgoing call may run while
                \* callInvite is still registering it

AllMethods == {"invite", "accept", "reject", "bye", "switch", "conf",
               "upgrade", "header"}

ASSUME EngineAssumption ==
  /\ MaxCalls \in Nat \ {0}
  /\ Ids \subseteq Nat \ {0}
  /\ Methods \subseteq AllMethods
  /\ MaxBacklog \in Nat
  /\ Awaiters \subseteq Nat
  /\ FastPeer \in BOOLEAN

Obj    == 1..MaxCalls
NoObj  == 0
NoId   == 0      \* kEmptyCallId of the Dart layer
NoWire == -1     \* PjCall.wireId before it is set; switchedCallId when unset

VARIABLES
  inv,              \* PJSIP's INVITE session state of each call object
  slot,             \* pjsua's own id of the call, as a wire id
  role,             \* UAC (outgoing) or UAS (incoming)
  hungUp,           \* calls on which hangup() was called
  reinvited,        \* calls on which the engine sent a re-INVITE
  wireId,           \* PjCall.wireId
  wasConnected,     \* PjCall.wasConnected
  proceedingFired,  \* PjCall.proceedingFired
  calls,            \* the map `calls': wire id -> call object
  switchedCallId,
  cb,               \* the callback each PJSIP thread is in
  wk,               \* the method the worker is in
  mainQ,            \* queue of the main looper
  dartQ             \* messages sent to Dart and not yet handled

session == <<inv, slot, role, hungUp, reinvited>>
fields  == <<wireId, wasConnected, proceedingFired>>
engine  == <<session, fields, calls, switchedCallId>>
vars    == <<inv, slot, role, hungUp, reinvited, wireId, wasConnected,
             proceedingFired, calls, switchedCallId, cb, wk, mainQ, dartQ>>

-----------------------------------------------------------------------------
(* Messages.  obj is not part of what the program sends: it names the call *)
(* object an event is about (or the Dart CallModel a request came from).   *)

Event(name, id, o) == [kind |-> "event", name |-> name, id |-> id,
                       obj |-> o, ok |-> TRUE]
Request(m, id, o)  == [kind |-> "request", name |-> m, id |-> id,
                       obj |-> o, ok |-> TRUE]
Reply(m, id, o, ok) == [kind |-> "reply", name |-> m, id |-> id,
                        obj |-> o, ok |-> ok]

EventNames == {"incoming", "proceeding", "connected", "terminated", "switched"}
WireIds    == Ids \cup {NoWire, NoId}
Who == Obj \cup Awaiters
Msg == [kind: {"event"}, name: EventNames, id: WireIds, obj: Obj, ok: {TRUE}]
       \cup [kind: {"request"}, name: AllMethods, id: WireIds, obj: Awaiters,
             ok: {TRUE}]
Rep == [kind: {"reply"}, name: AllMethods, id: WireIds, obj: Who \cup {NoObj},
        ok: BOOLEAN]

IdleCb == [pc |-> "idle", o |-> NoObj, id |-> NoWire, focus |-> FALSE,
           next |-> NoWire]
IdleWk == [m |-> "idle", pc |-> "start", id |-> NoId, obj |-> NoObj,
           o |-> NoObj]

Alive(o) == inv[o] \notin {"unborn", "ended"}

\* The next call object to be created.
Fresh(o) == inv[o] = "unborn" /\ \A p \in Obj : p < o => inv[p] # "unborn"

\* pjsua gives out its slots in turn: one that a call has had before only when
\* every slot has been used.  The slot of a call that has ended is given back
\* when its last callback has returned.
Used == {slot[o] : o \in Obj}
FreeSlot(id) ==
  /\ \A o \in Obj : slot[o] = id =>
       ~Alive(o) /\ \A t \in CbThreads : cb[t].o # o
  /\ \/ Ids \subseteq Used
     \/ id \notin Used /\ \A j \in Ids : j < id => j \in Used

Registered == {id \in Ids : calls[id] # NoObj}

TypeOK ==
  /\ inv \in [Obj -> {"unborn", "calling", "incoming", "answered",
                      "confirmed", "ended"}]
  /\ slot \in [Obj -> Ids \cup {NoWire}]
  /\ role \in [Obj -> {"uac", "uas"}]
  /\ hungUp \in SUBSET Obj
  /\ reinvited \in SUBSET Obj
  /\ wireId \in [Obj -> Ids \cup {NoWire}]
  /\ wasConnected \in [Obj -> BOOLEAN]
  /\ proceedingFired \in [Obj -> BOOLEAN]
  /\ calls \in [Ids -> Obj \cup {NoObj}]
  /\ switchedCallId \in Ids \cup {NoWire}
  /\ cb \in [CbThreads -> [pc: {"idle", "incoming", "disconnected"},
                           o: Obj \cup {NoObj}, id: Ids \cup {NoWire},
                           focus: BOOLEAN, next: Ids \cup {NoWire}]]
  /\ wk \in [m: AllMethods \cup {"idle"},
             pc: {"start", "made", "wired", "put", "mix"},
             id: WireIds, obj: Awaiters \cup {NoObj}, o: Obj \cup {NoObj}]
  /\ mainQ \in Seq(Msg)
  /\ dartQ \in Seq(Msg \cup Rep)

Init ==
  /\ inv = [o \in Obj |-> "unborn"]
  /\ slot = [o \in Obj |-> NoWire]
  /\ role = [o \in Obj |-> "uac"]
  /\ hungUp = {}
  /\ reinvited = {}
  /\ wireId = [o \in Obj |-> NoWire]
  /\ wasConnected = [o \in Obj |-> FALSE]
  /\ proceedingFired = [o \in Obj |-> FALSE]
  /\ calls = [id \in Ids |-> NoObj]
  /\ switchedCallId = NoWire
  /\ cb = [t \in CbThreads |-> IdleCb]
  /\ wk = IdleWk
  /\ mainQ = <<>>
  /\ dartQ = <<>>

Post(e) == mainQ' = Append(mainQ, e)

Room == Len(mainQ) + Len(dartQ) + (IF wk.m = "idle" THEN 0 ELSE 1) < MaxBacklog

-----------------------------------------------------------------------------
(* Callbacks.  PJSIP holds the dialog lock of a call during its callbacks, *)
(* so those of one call never overlap; those of two calls may.             *)

CanCallBack(t, o) ==
  /\ cb[t].pc = "idle"
  /\ \A u \in CbThreads : cb[u].o # o
  /\ FastPeer \/ ~(wk.m = "invite" /\ wk.o = o)

(* PjAccount.onIncomingCall: the call is put into the map at once ...      *)
IncomingCall(t) ==
  \E o \in Obj, id \in Ids :
    /\ Room
    /\ Fresh(o)
    /\ FreeSlot(id)
    /\ cb[t].pc = "idle"
    /\ inv' = [inv EXCEPT ![o] = "incoming"]
    /\ slot' = [slot EXCEPT ![o] = id]
    /\ role' = [role EXCEPT ![o] = "uas"]
    /\ wireId' = [wireId EXCEPT ![o] = id]
    /\ calls' = [calls EXCEPT ![id] = o]
    /\ cb' = [cb EXCEPT ![t] = [IdleCb EXCEPT !.pc = "incoming", !.o = o,
                                              !.id = id]]
    /\ UNCHANGED <<hungUp, reinvited, wasConnected, proceedingFired,
                   switchedCallId, wk, mainQ, dartQ>>

\* Mutant: pjsua's own 0-based id is sent.
IncomingPostRawId(t) ==
  /\ cb[t].pc = "incoming"
  /\ Post(Event("incoming", cb[t].id - 1, cb[t].o))
  /\ cb' = [cb EXCEPT ![t] = IdleCb]
  /\ UNCHANGED <<engine, wk, dartQ>>

(* ... and the event posted once 180 Ringing has been sent.                *)
IncomingPost(t) ==
  /\ cb[t].pc = "incoming"
  /\ Post(Event("incoming", cb[t].id, cb[t].o))
  /\ cb' = [cb EXCEPT ![t] = IdleCb]
  /\ UNCHANGED <<engine, wk, dartQ>>

\* Mutant: 100 and 180 are both reported.
ProvisionalAgain(t) ==
  \E o \in Obj :
    /\ Room
    /\ CanCallBack(t, o)
    /\ inv[o] = "calling"
    /\ Post(Event("proceeding", wireId[o], o))
    /\ UNCHANGED <<session, fields, calls, switchedCallId, cb, wk, dartQ>>

(* onCallTsxState, and the EARLY branch of onCallState: a 1xx response to  *)
(* an INVITE of ours.  The INVITE may be a re-INVITE: the code looks at    *)
(* the method, the role and proceedingFired only.                          *)
Provisional(t) ==
  \E o \in Obj :
    /\ Room
    /\ CanCallBack(t, o)
    /\ \/ inv[o] = "calling"
       \/ inv[o] = "confirmed" /\ o \in reinvited
    /\ role[o] = "uac"
    /\ ~proceedingFired[o]
    /\ proceedingFired' = [proceedingFired EXCEPT ![o] = TRUE]
    /\ Post(Event("proceeding", wireId[o], o))
    /\ UNCHANGED <<session, wireId, wasConnected, calls, switchedCallId,
                   cb, wk, dartQ>>

\* Mutant: a repeated CONFIRMED is reported again.
ConfirmedAgain(t) ==
  \E o \in Obj :
    /\ Room
    /\ CanCallBack(t, o)
    /\ inv[o] \in {"calling", "answered", "confirmed"}
    /\ inv' = [inv EXCEPT ![o] = "confirmed"]
    /\ wasConnected' = [wasConnected EXCEPT ![o] = TRUE]
    /\ Post(Event("connected", wireId[o], o))
    /\ UNCHANGED <<slot, role, hungUp, reinvited, wireId, proceedingFired,
                   calls, switchedCallId, cb, wk, dartQ>>

\* Mutant: the listener is called on the PJSIP thread, without onMain.
ConfirmedUnposted(t) ==
  \E o \in Obj :
    /\ Room
    /\ CanCallBack(t, o)
    /\ inv[o] \in {"calling", "answered"}
    /\ inv' = [inv EXCEPT ![o] = "confirmed"]
    /\ wasConnected' = [wasConnected EXCEPT ![o] = TRUE]
    /\ dartQ' = Append(dartQ, Event("connected", wireId[o], o))
    /\ UNCHANGED <<slot, role, hungUp, reinvited, wireId, proceedingFired,
                   calls, switchedCallId, cb, wk, mainQ>>

(* onCallState, CONFIRMED: the first one, or one repeated by a session     *)
(* refresh, which must not be reported again.                              *)
Confirmed(t) ==
  \E o \in Obj :
    /\ Room
    /\ CanCallBack(t, o)
    /\ inv[o] \in {"calling", "answered", "confirmed"}
    /\ inv' = [inv EXCEPT ![o] = "confirmed"]
    /\ wasConnected' = [wasConnected EXCEPT ![o] = TRUE]
    /\ IF wasConnected[o]
       THEN UNCHANGED mainQ
       ELSE Post(Event("connected", wireId[o], o))
    /\ UNCHANGED <<slot, role, hungUp, reinvited, wireId, proceedingFired,
                   calls, switchedCallId, cb, wk, dartQ>>

\* Mutant: the entry is left in the map.
DisconnectedKept(t) ==
  \E o \in Obj :
    /\ CanCallBack(t, o)
    /\ Alive(o)
    /\ inv' = [inv EXCEPT ![o] = "ended"]
    /\ cb' = [cb EXCEPT ![t] = [IdleCb EXCEPT !.pc = "disconnected", !.o = o,
                                              !.id = wireId[o]]]
    /\ UNCHANGED <<slot, role, hungUp, reinvited, fields, calls,
                   switchedCallId, wk, mainQ, dartQ>>

(* onCallState, DISCONNECTED.  First the map is changed and the call to    *)
(* hand focus to is read from it (any key: the map has no order) ...       *)
Disconnected(t) ==
  \E o \in Obj :
    LET id   == wireId[o]
        left == {i \in Registered : i # id}
    IN
    /\ CanCallBack(t, o)
    /\ Alive(o)
    /\ inv' = [inv EXCEPT ![o] = "ended"]
    /\ calls' = [i \in Ids |-> IF i = id THEN NoObj ELSE calls[i]]
    /\ \E n \in IF left = {} THEN {NoWire} ELSE left :
         cb' = [cb EXCEPT ![t] =
                  [pc |-> "disconnected", o |-> o, id |-> id,
                   focus |-> switchedCallId = id,
                   next |-> IF switchedCallId = id THEN n ELSE NoWire]]
    /\ UNCHANGED <<slot, role, hungUp, reinvited, fields, switchedCallId,
                   wk, mainQ, dartQ>>

\* Mutant: a call that was never connected is not reported as terminated.
DisconnectedQuiet(t) ==
  LET c == cb[t] IN
  /\ c.pc = "disconnected"
  /\ mainQ' = IF wasConnected[c.o]
              THEN Append(mainQ, Event("terminated", c.id, c.o)) ELSE mainQ
  /\ cb' = [cb EXCEPT ![t] = IdleCb]
  /\ UNCHANGED <<engine, wk, dartQ>>

(* ... then switchedCallId is written and the events are posted.  The two  *)
(* halves are not atomic: the worker may run between them.  The object is  *)
(* deleted on the worker later; nothing refers to it any more, so its      *)
(* fields and its session are forgotten here.                              *)
DisconnectedPost(t) ==
  LET c == cb[t] IN
  /\ c.pc = "disconnected"
  /\ switchedCallId' = IF c.focus THEN c.next ELSE switchedCallId
  /\ mainQ' = mainQ
       \o (IF c.focus /\ c.next # NoWire
           THEN <<Event("switched", c.next, c.o)>> ELSE <<>>)
       \o <<Event("terminated", c.id, c.o)>>
  /\ cb' = [cb EXCEPT ![t] = IdleCb]
  /\ hungUp' = hungUp \ {c.o}
  /\ reinvited' = reinvited \ {c.o}
  /\ role' = [role EXCEPT ![c.o] = "uac"]
  /\ wireId' = [wireId EXCEPT ![c.o] = NoWire]
  /\ wasConnected' = [wasConnected EXCEPT ![c.o] = FALSE]
  /\ proceedingFired' = [proceedingFired EXCEPT ![c.o] = FALSE]
  /\ UNCHANGED <<inv, slot, calls, wk, dartQ>>

Callback(t) ==
  \/ IncomingCall(t)
  \/ IncomingPost(t)
  \/ Provisional(t)
  \/ Confirmed(t)
  \/ Disconnected(t)
  \/ DisconnectedPost(t)

-----------------------------------------------------------------------------
(* The worker: one exec{} block at a time.  Done(...) ends the method: the *)
(* main thread wakes up and sends the reply.                               *)

Done(id, ok) ==
  /\ dartQ' = Append(dartQ, Reply(wk.m, id, IF wk.m = "invite" THEN wk.o
                                            ELSE wk.obj, ok))
  /\ wk' = IdleWk

Target == calls[wk.id]                    \* calls[callId], NoObj when absent
Found  == wk.id \in Ids /\ Target # NoObj

(* callInvite: makeCall allocates a slot and sends the INVITE; it throws   *)
(* when there is no account, no free slot or the URI is bad.               *)
InviteMake ==
  /\ wk.m = "invite" /\ wk.pc = "start"
  /\ \E o \in Obj, id \in Ids :
       /\ Fresh(o)
       /\ FreeSlot(id)
       /\ inv' = [inv EXCEPT ![o] = "calling"]
       /\ slot' = [slot EXCEPT ![o] = id]
       /\ role' = [role EXCEPT ![o] = "uac"]
       /\ wk' = [wk EXCEPT !.pc = "made", !.o = o]
  /\ UNCHANGED <<hungUp, reinvited, fields, calls, switchedCallId, cb,
                 mainQ, dartQ>>

InviteFail ==
  /\ wk.m = "invite" /\ wk.pc = "start"
  /\ Done(NoId, FALSE)
  /\ UNCHANGED <<engine, cb, mainQ>>

(* call.wireId = call.info.id + 1; info throws once the session is gone.   *)
InviteWire ==
  /\ wk.m = "invite" /\ wk.pc = "made"
  /\ IF inv[wk.o] = "ended"
     THEN /\ Done(NoId, FALSE)
          /\ UNCHANGED wireId
     ELSE /\ wireId' = [wireId EXCEPT ![wk.o] = slot[wk.o]]
          /\ wk' = [wk EXCEPT !.pc = "wired"]
          /\ UNCHANGED dartQ
  /\ UNCHANGED <<session, wasConnected, proceedingFired, calls,
                 switchedCallId, cb, mainQ>>

InvitePut ==
  /\ wk.m = "invite" /\ wk.pc = "wired"
  /\ calls' = [calls EXCEPT ![wireId[wk.o]] = wk.o]
  /\ wk' = [wk EXCEPT !.pc = "put"]
  /\ UNCHANGED <<session, fields, switchedCallId, cb, mainQ, dartQ>>

InviteDone ==
  /\ wk.m = "invite" /\ wk.pc = "put"
  /\ switchedCallId' = wireId[wk.o]
  /\ Post(Event("switched", wireId[wk.o], wk.o))
  /\ Done(wireId[wk.o], TRUE)
  /\ UNCHANGED <<session, fields, calls, cb>>

(* callAccept: answers a ringing call.  It fails when there is no such     *)
(* call, no permission to use the microphone, or when PJSIP refuses; a     *)
(* second answer may or may not be refused.                                *)
Accept ==
  /\ wk.m = "accept"
  /\ \/ /\ Found /\ inv[Target] \in {"incoming", "answered"}
        /\ inv' = [inv EXCEPT ![Target] = "answered"]
        /\ Done(wk.id, TRUE)
     \/ /\ Done(wk.id, FALSE)
        /\ UNCHANGED inv
  /\ UNCHANGED <<slot, role, hungUp, reinvited, fields, calls,
                 switchedCallId, cb, mainQ>>

(* callReject and callBye: hangup().                                       *)
Hangup ==
  /\ wk.m \in {"reject", "bye"}
  /\ IF Found /\ Alive(Target)
     THEN hungUp' = hungUp \cup {Target} /\ Done(wk.id, TRUE)
     ELSE UNCHANGED hungUp /\ Done(wk.id, FALSE)
  /\ UNCHANGED <<inv, slot, role, reinvited, fields, calls, switchedCallId,
                 cb, mainQ>>

(* callUpgradeToVideo: a re-INVITE.                                        *)
Upgrade ==
  /\ wk.m = "upgrade"
  /\ IF Found /\ inv[Target] = "confirmed"
     THEN reinvited' = reinvited \cup {Target} /\ Done(wk.id, TRUE)
     ELSE UNCHANGED reinvited /\ Done(wk.id, FALSE)
  /\ UNCHANGED <<inv, slot, role, hungUp, fields, calls, switchedCallId, cb,
                 mainQ>>

(* mixerSwitchToCall: the call is looked up, the mixer is rearranged, and  *)
(* only then switchedCallId is written.                                    *)
SwitchLookup ==
  /\ wk.m = "switch" /\ wk.pc = "start"
  /\ IF Found
     THEN wk' = [wk EXCEPT !.pc = "mix", !.o = Target] /\ UNCHANGED dartQ
     ELSE Done(wk.id, FALSE)
  /\ UNCHANGED <<engine, cb, mainQ>>

SwitchDone ==
  /\ wk.m = "switch" /\ wk.pc = "mix"
  /\ switchedCallId' = wk.id
  /\ Post(Event("switched", wk.id, wk.o))
  /\ Done(wk.id, TRUE)
  /\ UNCHANGED <<session, fields, calls, cb>>

\* Mutant: the sentinel of the Dart layer instead of the engine's.
ConferenceZero ==
  /\ wk.m = "conf"
  /\ switchedCallId' = NoId
  /\ Done(wk.id, TRUE)
  /\ UNCHANGED <<session, fields, calls, cb, mainQ>>

(* mixerMakeConference: forgets the switched call and posts nothing.       *)
Conference ==
  /\ wk.m = "conf"
  /\ switchedCallId' = NoWire
  /\ Done(wk.id, TRUE)
  /\ UNCHANGED <<session, fields, calls, cb, mainQ>>

Worker ==
  \/ InviteMake
  \/ InviteFail
  \/ InviteWire
  \/ InvitePut
  \/ InviteDone
  \/ Accept
  \/ Hangup
  \/ Upgrade
  \/ SwitchLookup
  \/ SwitchDone
  \/ Conference

-----------------------------------------------------------------------------
(* The main looper.  It is inside exec() while the worker has a method.    *)

MainIdle == wk.m = "idle" /\ mainQ # <<>>

\* A posted closure: EventListener sends the event to Dart.
MainEvent ==
  /\ MainIdle
  /\ Head(mainQ).kind = "event"
  /\ dartQ' = Append(dartQ, Head(mainQ))
  /\ mainQ' = Tail(mainQ)
  /\ UNCHANGED <<engine, cb, wk>>

\* onMethodCall, for the methods that go to the worker.
MainRequest ==
  /\ MainIdle
  /\ Head(mainQ).kind = "request"
  /\ Head(mainQ).name # "header"
  /\ wk' = [IdleWk EXCEPT !.m = Head(mainQ).name, !.id = Head(mainQ).id,
                          !.obj = Head(mainQ).obj]
  /\ mainQ' = Tail(mainQ)
  /\ UNCHANGED <<engine, cb, dartQ>>

\* callGetSipHeader runs on the main thread and always has an answer.
MainHeader ==
  /\ MainIdle
  /\ Head(mainQ).kind = "request"
  /\ Head(mainQ).name = "header"
  /\ dartQ' = Append(dartQ, Reply("header", Head(mainQ).id, Head(mainQ).obj,
                                  TRUE))
  /\ mainQ' = Tail(mainQ)
  /\ UNCHANGED <<engine, cb, wk>>

Main == MainEvent \/ MainRequest \/ MainHeader

-----------------------------------------------------------------------------
(* The most general client: it may send any method for any call, whether   *)
(* or not it has been told of the call, and its handler of an event may    *)
(* ask for a SIP header of any call.                                       *)

ClientTake ==
  /\ dartQ # <<>>
  /\ dartQ' = Tail(dartQ)
  /\ UNCHANGED <<engine, cb, wk, mainQ>>

ClientSend ==
  /\ Room
  /\ \E m \in Methods, id \in WireIds, who \in Awaiters :
       Post(Request(m, id, who))
  /\ UNCHANGED <<engine, cb, wk, dartQ>>

ClientTakeAndSend ==
  /\ dartQ # <<>>
  /\ Head(dartQ).kind = "event"
  /\ dartQ' = Tail(dartQ)
  /\ \E id \in WireIds, who \in Awaiters : Post(Request("header", id, who))
  /\ UNCHANGED <<engine, cb, wk>>

Client == ClientTake \/ ClientSend \/ ClientTakeAndSend

System == (\E t \in CbThreads : Callback(t)) \/ Worker \/ Main
Next == System \/ Client

Spec == Init /\ [][Next]_vars

-----------------------------------------------------------------------------
(* Properties.                                                             *)

\* Everything on its way to Dart, oldest first, then Dart's own requests.
Stream == dartQ \o mainQ

\* Nothing is queued, running or being called back.
Quiet ==
  /\ mainQ = <<>> /\ dartQ = <<>> /\ wk.m = "idle"
  /\ \A t \in CbThreads : cb[t].pc = "idle"

Registering(o) == wk.m = "invite" /\ wk.o = o

(* The map `calls' and PJSIP agree: an entry is a live call under its own  *)
(* wire id, so no method reaches a call that is gone, and every live call  *)
(* is in the map (callInvite's own one as soon as it returns), so that no  *)
(* call is beyond the reach of callBye.                                    *)
TableSound ==
  /\ \A id \in Registered : Alive(calls[id]) /\ wireId[calls[id]] = id
  /\ \A o \in Obj : Alive(o) /\ ~Registering(o) =>
       wireId[o] \in Ids /\ calls[wireId[o]] = o

(* Events carry the id of a slot, never the -1 a PjCall starts with:       *)
(* wireId is "used for all map keys and events" (SipCore.kt:511).          *)
EventIds ==
  \A i \in DOMAIN Stream : Stream[i].kind = "event" => Stream[i].id \in Ids

\* The order of the events of a call's life.
Rank == [incoming |-> 1, proceeding |-> 1, connected |-> 2, terminated |-> 3]
Life(m) == m.kind = "event" /\ m.name # "switched"

(* The events of a call that are under way are in the order of its life,   *)
(* none of them twice, whatever threads posted them: Dart's handlers have  *)
(* no other protection against a late or a repeated one.                   *)
EventOrder ==
  \A i, j \in DOMAIN Stream :
    i < j /\ Life(Stream[i]) /\ Life(Stream[j])
          /\ Stream[i].obj = Stream[j].obj
      => Rank[Stream[i].name] < Rank[Stream[j].name]

(* At rest the engine's switched call is one that exists, or none: "Hand   *)
(* focus to a still-active call (if any) ... -1 when this was the last     *)
(* call" (SipCore.kt:566).                                                 *)
SwitchedLive ==
  Quiet => switchedCallId = NoWire \/ switchedCallId \in Registered
=============================================================================
