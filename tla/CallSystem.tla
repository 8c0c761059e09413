----------------------------- MODULE CallSystem -----------------------------
(***************************************************************************)
(* The Android engine (SipCalls) with the Dart calls model (CallsModel) as *)
(* its client: the method channel carries requests one way, events and     *)
(* replies the other, each in order.  A Dart method is two steps: the      *)
(* request, and its continuation when the reply is taken from dartQ; any   *)
(* event may be handled in between.                                        *)
(***************************************************************************)
EXTENDS SipCalls, CallsModel

svars == <<vars, model>>

SystemInit == Init /\ ModelInit

-----------------------------------------------------------------------------
(* Dart takes the next message.                                            *)

Msg1 == Head(dartQ)

Take == dartQ # <<>> /\ dartQ' = Tail(dartQ) /\ UNCHANGED <<engine, cb, wk>>

HandleIncoming ==
  /\ Take
  /\ Msg1.kind = "event" /\ Msg1.name = "incoming"
  /\ OnIncomingSip(Msg1.id, Msg1.obj)
  /\ UNCHANGED mainQ

HandleProceeding ==
  /\ Take
  /\ Msg1.kind = "event" /\ Msg1.name = "proceeding"
  /\ OnProceeding(Msg1.id)
  /\ UNCHANGED mainQ

HandleConnected ==
  /\ Take
  /\ Msg1.kind = "event" /\ Msg1.name = "connected"
  /\ OnConnected(Msg1.id)
  /\ UNCHANGED mainQ

HandleSwitched ==
  /\ Take
  /\ Msg1.kind = "event" /\ Msg1.name = "switched"
  /\ OnSwitched(Msg1.id)
  /\ UNCHANGED mainQ

\* onTerminated up to its await: an unknown id is ignored, otherwise the
\* Reason header of the call is asked for.
HandleTerminated ==
  /\ Take
  /\ Msg1.kind = "event" /\ Msg1.name = "terminated"
  /\ IF Msg1.id \in Shown
     THEN \E k \in DOMAIN items :
            /\ IsFirst(k, Msg1.id)
            /\ Post(Request("header", Msg1.id, items[k].obj))
     ELSE UNCHANGED mainQ
  /\ UNCHANGED model

HandleHeader ==
  /\ Take
  /\ Msg1.kind = "reply" /\ Msg1.name = "header"
  /\ OnTerminatedResume(Msg1.id, Msg1.obj)
  /\ UNCHANGED mainQ

\* Mutant: a failed invite is not noticed (its id is 0).
HandleReplyUnchecked ==
  /\ Take
  /\ Msg1.kind = "reply" /\ Msg1.name # "header"
  /\ IF Msg1.name = "invite" THEN Invited(Msg1.id, Msg1.obj)
     ELSE UNCHANGED model
  /\ UNCHANGED mainQ

\* The replies to the methods a user invokes.
HandleReply ==
  /\ Take
  /\ Msg1.kind = "reply" /\ Msg1.name # "header"
  /\ IF ~Msg1.ok THEN UNCHANGED model
     ELSE \/ Msg1.name = "invite"  /\ Invited(Msg1.id, Msg1.obj)
          \/ Msg1.name = "accept"  /\ Answered(Msg1.obj, "accepting")
          \/ Msg1.name = "reject"  /\ Answered(Msg1.obj, "rejecting")
          \/ Msg1.name = "bye"     /\ Answered(Msg1.obj, "disconnecting")
          \/ Msg1.name = "switch"  /\ ConfSet(FALSE)
          \/ Msg1.name = "conf"    /\ ConfSet(TRUE)
          \/ Msg1.name = "upgrade" /\ UNCHANGED model
  /\ UNCHANGED mainQ

Dart ==
  \/ HandleIncoming
  \/ HandleProceeding
  \/ HandleConnected
  \/ HandleSwitched
  \/ HandleTerminated
  \/ HandleHeader
  \/ HandleReply

-----------------------------------------------------------------------------
(* The user, through the UI.                                               *)

Send(m, id, o) ==
  /\ m \in Methods
  /\ Room
  /\ Post(Request(m, id, o))
  /\ UNCHANGED <<engine, cb, wk, dartQ, model>>

UserInvite == Send("invite", NoId, NoObj)

UserAccept == \E k \in DOMAIN items :
  items[k].st = "ringing" /\ Send("accept", items[k].id, items[k].obj)

UserReject == \E k \in DOMAIN items :
  items[k].st = "ringing" /\ Send("reject", items[k].id, items[k].obj)

UserBye == \E k \in DOMAIN items :
  /\ items[k].st \notin {"disconnecting", "rejecting"}
  /\ Send("bye", items[k].id, items[k].obj)

UserUpgrade == \E k \in DOMAIN items :
  items[k].st = "connected" /\ Send("upgrade", items[k].id, items[k].obj)

UserSwitch == \E k \in DOMAIN items :
  items[k].id # focus /\ Send("switch", items[k].id, NoObj)

\* makeConference ends a conference by switching to the focused call.
UserConference ==
  /\ "conf" \in Methods
  /\ IF conf THEN Send("switch", focus, NoObj) ELSE Send("conf", NoId, NoObj)

User ==
  \/ UserInvite
  \/ UserAccept
  \/ UserReject
  \/ UserBye
  \/ UserUpgrade
  \/ UserSwitch
  \/ UserConference

-----------------------------------------------------------------------------

EngineStep == System /\ UNCHANGED model

\* A telephone with nothing to do may stay idle.
Idle == Quiet /\ hungUp \cap {o \in Obj : Alive(o)} = {} /\ UNCHANGED svars

SystemNext == EngineStep \/ Dart \/ User \/ Idle

SafeSystem == SystemInit /\ [][SystemNext]_svars

(* Fairness: the looper, the worker and the Dart loop always take their    *)
(* next task; a callback that has begun returns; and PJSIP ends a call     *)
(* that was hung up.  Users, peers and new calls owe nothing.              *)
EndsHungUp(t) == Disconnected(t) /\ \E o \in hungUp : inv[o] # inv'[o]

Fairness ==
  /\ WF_svars(Main /\ UNCHANGED model)
  /\ WF_svars(Worker /\ UNCHANGED model)
  /\ WF_svars(Dart)
  /\ \A t \in CbThreads :
       /\ WF_svars((IncomingPost(t) \/ DisconnectedPost(t)) /\ UNCHANGED model)
       /\ WF_svars(EndsHungUp(t) /\ UNCHANGED model)

System1 == SafeSystem /\ Fairness

-----------------------------------------------------------------------------
(* Properties.                                                             *)

SystemTypeOK ==
  /\ TypeOK
  /\ items \in Seq([id: Ids, obj: Obj, st: CallStates, starts: Nat])
  /\ focus \in Ids \cup {kEmptyCallId, NoWire}
  /\ conf \in BOOLEAN

InStream(P(_)) == \E i \in DOMAIN Stream : P(Stream[i])

Ending(o) ==
  \/ \E t \in CbThreads : cb[t].pc = "disconnected" /\ cb[t].o = o
  \/ InStream(LAMBDA m : m.obj = o /\ m.name \in {"terminated", "header"})

(* When everything has settled, the call the UI shows as switched is in    *)
(* its list, and none is when the list is empty.                           *)
FocusValid ==
  Quiet => IF items = <<>> THEN focus = kEmptyCallId ELSE focus \in Shown

(* A call that has ended in the engine does not stay in the list: the      *)
(* event that removes it, or its continuation, is under way.               *)
NoGhost ==
  \A k \in DOMAIN items :
    inv[items[k].obj] = "ended" => Ending(items[k].obj)

Arriving(o) ==
  \/ \E t \in CbThreads : cb[t].pc = "incoming" /\ cb[t].o = o
  \/ wk.m = "invite" /\ wk.o = o
  \/ InStream(LAMBDA m : m.obj = o /\ m.kind = "event" /\ m.name = "incoming")
  \/ InStream(LAMBDA m : m.obj = o /\ m.kind = "reply" /\ m.name = "invite")

(* A call that exists in the engine is in the list or about to be added.   *)
NoLostCall ==
  \A o \in Obj : Alive(o) => o \in ShownObjs \/ Arriving(o)

(* When everything has settled, Dart shows a call as connected exactly     *)
(* when the engine has connected it, unless it has been hung up.           *)
StateAgrees ==
  Quiet => \A k \in DOMAIN items :
    LET o == items[k].obj IN
    /\ wasConnected[o] /\ o \notin hungUp => items[k].st = "connected"
    /\ ~wasConnected[o] => items[k].st # "connected"

(* The start time of a call is set at most once.                           *)
StartsOnce == \A k \in DOMAIN items : items[k].starts <= 1

(* A connected call never goes back to a state of call set-up.             *)
NeverBack ==
  [][\A o \in ShownObjs \cap ShownObjs' :
       (\E k \in DOMAIN items : items[k].obj = o /\ items[k].st = "connected")
       => \A k \in DOMAIN items' : items'[k].obj = o =>
            items'[k].st \notin {"dialing", "proceeding", "ringing",
                                 "accepting"}]_svars

(* A call the user has hung up leaves the list.                           *)
HungUpLeavesList ==
  \A o \in Obj : (o \in hungUp /\ o \in ShownObjs) ~> o \notin ShownObjs

-----------------------------------------------------------------------------
(* Each call of the engine is shown once, sooner or later, stays in the    *)
(* list until it has ended, and then leaves it for good (CallView).        *)

life == [o \in Obj |-> CASE inv[o] = "unborn" -> "none"
                         [] inv[o] = "ended"  -> "over"
                         [] OTHER             -> "live"]

view == [o \in Obj |-> IF o \in ShownObjs THEN "shown"
                       ELSE IF inv[o] = "unborn" \/ Arriving(o) THEN "coming"
                       ELSE "past"]

View == INSTANCE CallView WITH Calls <- Obj

ImplementsCallView == View!ViewSpec
=============================================================================
