----------------------------- MODULE CxProvider -----------------------------
(***************************************************************************)
(* CallKit on iOS: SipConnectCxProvider, the calls of the plugin that go   *)
(* through it, and the matching of pushes with INVITEs that the app does   *)
(* (AppCallsModel of the example, which the docs tell apps to copy).       *)
(*                                                                         *)
(* Everything native runs on the main thread, one handler at a time; it    *)
(* takes blocks the engine has posted, actions of CallKit and messages of  *)
(* Flutter, in any order among the three.  A call c stands for the INVITE, *)
(* the push that announces it, its hint and its CallKit uuid, which the    *)
(* program has to bring together; no id is used again by a later call.     *)
(***************************************************************************)
EXTENDS Naturals, Sequences, SequencesExt

CONSTANTS
  KitCalls,      \* calls a behaviour has
  GivesUp,       \* a call may end before it has been matched
  KitBacklog,    \* nothing starts while more than this is under way (a bound)
  NoCall         \* kInvalidId, and no uuid

ASSUME KitAssumption ==
  /\ NoCall \notin KitCalls
  /\ GivesUp \in BOOLEAN /\ KitBacklog \in Nat

VARIABLES
  dialog,        \* the calls of the engine
  cxShown,       \* of each uuid, what CallKit shows
  callsList,     \* uuids in _callsList
  cx,            \* CallModel of each uuid
  looper,        \* blocks the engine has posted to the main queue
  cxQ,           \* actions CallKit is going to perform
  toFlutter, toNative,
  matchers       \* _callMatchers, by hint

kvars == <<dialog, cxShown, callsList, cx, looper, cxQ, toFlutter, toNative,
           matchers>>

kit     == <<cxShown, callsList, cx>>
channel == <<toFlutter, toNative>>

KitRoom ==
  Len(looper) + Len(cxQ) + Len(toFlutter) + Len(toNative) <= KitBacklog

MaybeCall == KitCalls \cup {NoCall}
Item(kind, c)        == [kind |-> kind, call |-> c, id |-> NoCall]
ItemWith(kind, c, d) == [kind |-> kind, call |-> c, id |-> d]
Items == [kind: {"incoming", "connected", "terminated", "answer", "end", "push",
                 "header", "update", "endKit"},
          call: MaybeCall, id: MaybeCall]

\* CallModel(callId:withVideo:from:) and CallModel(destData)
NewCx(id, incoming) ==
  [id |-> id, incoming |-> incoming, connected |-> FALSE,
   answered |-> FALSE, rejected |-> FALSE, endedLocal |-> FALSE, end |-> "none"]

NoMatcher == [known |-> FALSE, uuid |-> NoCall, id |-> NoCall]

KitTypeOK ==
  /\ dialog \in [KitCalls -> {"none", "ringing", "accepted", "up", "gone"}]
  /\ cxShown \in [KitCalls -> {"none", "ringing", "answered", "over"}]
  /\ callsList \subseteq {c \in KitCalls : cxShown[c] # "none"}
  /\ cx \in [KitCalls ->
              [id: MaybeCall, incoming: BOOLEAN, connected: BOOLEAN,
               answered: BOOLEAN, rejected: BOOLEAN, endedLocal: BOOLEAN,
               end: {"none", "open", "failed"}]]
  /\ \A u \in callsList : cx[u].answered => cx[u].id = NoCall \/ cx[u].rejected
  /\ \A q \in {looper, cxQ, toFlutter, toNative} : q \in Seq(Items)
  /\ matchers \in [MaybeCall -> [known: BOOLEAN, uuid: MaybeCall, id: MaybeCall]]

KitInit ==
  /\ dialog = [c \in KitCalls |-> "none"]
  /\ cxShown = [c \in KitCalls |-> "none"]
  /\ callsList = {}
  /\ cx = [c \in KitCalls |-> NewCx(NoCall, TRUE)]
  /\ looper = <<>> /\ cxQ = <<>>
  /\ toFlutter = <<>> /\ toNative = <<>>
  /\ matchers = [h \in MaybeCall |-> NoMatcher]

Live(id) == id \in KitCalls /\ dialog[id] \in {"ringing", "accepted", "up"}

\* containsCall, and the call of _callsList with an id.
WithId(id) == {u \in callsList : cx[u].id = id}

\* The CallKit call of c has its id.
Matched(c) == cx[c].id = c

-----------------------------------------------------------------------------
(* The engine and the network.                                             *)

Invite(c) ==
  /\ cx[c].incoming /\ dialog[c] = "none"
  /\ dialog' = [dialog EXCEPT ![c] = "ringing"]
  /\ looper' = Append(looper, Item("incoming", c))
  /\ UNCHANGED <<kit, cxQ, channel, matchers>>

Established(c) ==
  /\ dialog[c] = "accepted" \/ (~cx[c].incoming /\ dialog[c] = "ringing")
  /\ dialog' = [dialog EXCEPT ![c] = "up"]
  /\ looper' = Append(looper, Item("connected", c))
  /\ UNCHANGED <<kit, cxQ, channel, matchers>>

\* callAccept fails when the call is over or has been answered.
CallAccept(id) ==
  IF id \in KitCalls /\ dialog[id] = "ringing"
  THEN dialog' = [dialog EXCEPT ![id] = "accepted"]
  ELSE UNCHANGED dialog

\* callReject and callBye both hang up; they fail when the call is over.
HangUp(id) ==
  IF Live(id)
  THEN /\ dialog' = [dialog EXCEPT ![id] = "gone"]
       /\ looper' = Append(looper, Item("terminated", id))
  ELSE UNCHANGED <<dialog, looper>>

MayEnd(c) == Live(c) /\ (GivesUp \/ Matched(c))

\* The peer hangs up, or the user rejects the call in the app.
EndsElsewhere(c) ==
  /\ MayEnd(c)
  /\ HangUp(c)
  /\ UNCHANGED <<kit, cxQ, channel, matchers>>

-----------------------------------------------------------------------------
(* CallKit: pushes, what the user does on its screen, and its actions.     *)

\* didReceiveIncomingPush: CallKit rings before Dart hears of it.
Push(c) ==
  /\ cxShown[c] = "none"
  /\ callsList' = callsList \cup {c}
  /\ cx' = [cx EXCEPT ![c] = NewCx(NoCall, TRUE)]
  /\ cxShown' = [cxShown EXCEPT ![c] = "ringing"]
  /\ toFlutter' = Append(toFlutter, Item("push", c))
  /\ UNCHANGED <<dialog, looper, cxQ, toNative, matchers>>

Ending(u) == Contains(cxQ, Item("end", u)) \/ cx[u].end # "none"

RequestAnswer(u) ==
  /\ cxShown[u] = "ringing" /\ ~Ending(u)
  /\ cxShown' = [cxShown EXCEPT ![u] = "answered"]
  /\ cxQ' = Append(cxQ, Item("answer", u))

RequestEnd(u) ==
  /\ cxShown[u] \in {"ringing", "answered"} /\ ~Ending(u)
  /\ cxQ' = Append(cxQ, Item("end", u))

UserAnswers(u) ==
  RequestAnswer(u) /\ UNCHANGED <<dialog, callsList, cx, looper, channel, matchers>>

UserEnds(u) ==
  RequestEnd(u) /\ UNCHANGED <<dialog, kit, looper, channel, matchers>>

\* proceedCxAnswerAction with the CallModel as it now is.
ProceedAnswer(u, call) ==
  /\ cx' = [cx EXCEPT ![u] = [call EXCEPT !.answered = FALSE]]
  /\ CallAccept(call.id)
  /\ UNCHANGED looper

\* proceedCxEndAction.  An incoming call that is not up is rejected.
ProceedEnd(u, call) ==
  LET bye == ~call.incoming \/ call.connected IN
    /\ cx' = [cx EXCEPT ![u] =
                [call EXCEPT !.endedLocal = @ \/ bye,
                             !.end = IF Live(call.id) THEN "open" ELSE "failed"]]
    /\ HangUp(call.id)

\* CXAnswerCallAction: done when the SIP call is known, otherwise noted.
CxAnswer(u) ==
  LET call == [cx[u] EXCEPT !.answered = TRUE] IN
    CASE u \notin callsList -> UNCHANGED <<cx, dialog, looper>>
      [] u \in callsList /\ call.id = NoCall ->
           cx' = [cx EXCEPT ![u] = call] /\ UNCHANGED <<dialog, looper>>
      [] OTHER -> ProceedAnswer(u, call)

\* CXEndCallAction; an action for a call not in the list fails.
CxEnd(u) ==
  LET call == [cx[u] EXCEPT !.end = "open"] IN
    CASE u \notin callsList -> UNCHANGED <<cx, dialog, looper>>
      [] u \in callsList /\ call.id = NoCall ->
           /\ cx' = [cx EXCEPT ![u] = [call EXCEPT !.rejected = TRUE]]
           /\ UNCHANGED <<dialog, looper>>
      [] OTHER -> ProceedEnd(u, call)

Perform ==
  /\ cxQ # <<>>
  /\ cxQ' = Tail(cxQ)
  /\ \/ Head(cxQ).kind = "answer" /\ CxAnswer(Head(cxQ).call)
     \/ Head(cxQ).kind = "end"    /\ CxEnd(Head(cxQ).call)
  /\ UNCHANGED <<cxShown, callsList, channel, matchers>>

-----------------------------------------------------------------------------
(* Blocks of the engine.                                                   *)

OnSipIncoming ==
  UNCHANGED kit    \* CallKit is told by the push

OnSipConnected(c) ==
  /\ cx' = [u \in KitCalls |-> IF u \in WithId(c)
                               THEN [cx[u] EXCEPT !.connected = TRUE] ELSE cx[u]]
  /\ UNCHANGED <<cxShown, callsList>>

\* Mutant: a call with an end action is left to that action.
OnSipTerminatedLeft(c) ==
  /\ callsList' = {u \in callsList : cx[u].id # c \/ cx[u].end # "none"}
  /\ cxShown' = [u \in KitCalls |-> IF u \in WithId(c) THEN "over" ELSE cxShown[u]]
  /\ UNCHANGED cx

\* The end action is fulfilled, or the end is reported unless it is ours.
OnSipTerminated(c) ==
  /\ callsList' = callsList \ WithId(c)
  /\ cxShown' = [u \in KitCalls |->
                   IF u \in WithId(c) /\ (cx[u].end = "open" \/ ~cx[u].endedLocal)
                   THEN "over" ELSE cxShown[u]]
  /\ UNCHANGED cx

Posted ==
  /\ looper # <<>>
  /\ looper' = Tail(looper)
  /\ toFlutter' = Append(toFlutter, Head(looper))
  /\ LET c == Head(looper).call IN
       \/ Head(looper).kind = "incoming"   /\ OnSipIncoming
       \/ Head(looper).kind = "connected"  /\ OnSipConnected(c)
       \/ Head(looper).kind = "terminated" /\ OnSipTerminated(c)
  /\ UNCHANGED <<dialog, cxQ, toNative, matchers>>

-----------------------------------------------------------------------------
(* Calls of the app: callInvite, callAccept and callBye of the plugin go   *)
(* through CallKit when the provider has the call.                         *)

\* callInvite, then cxActionNewOutgoingCall.
Dial(c) ==
  /\ dialog[c] = "none" /\ cxShown[c] = "none"
  /\ dialog' = [dialog EXCEPT ![c] = "ringing"]
  /\ callsList' = callsList \cup {c}
  /\ cx' = [cx EXCEPT ![c] = NewCx(c, FALSE)]
  /\ cxShown' = [cxShown EXCEPT ![c] = "answered"]
  /\ UNCHANGED <<looper, cxQ, channel, matchers>>

\* The app has been told of the call.
InApp(c) == Live(c) /\ ~Contains(looper \o toFlutter, Item("incoming", c))

AppAccepts(c) ==
  /\ cx[c].incoming /\ InApp(c)
  /\ \/ WithId(c) = {} /\ CallAccept(c) /\ UNCHANGED <<cxShown, cxQ>>
     \/ \E u \in WithId(c) : RequestAnswer(u) /\ UNCHANGED dialog
  /\ UNCHANGED <<callsList, cx, looper, channel, matchers>>

AppEnds(c) ==
  /\ InApp(c)
  /\ \/ WithId(c) = {} /\ MayEnd(c) /\ HangUp(c) /\ UNCHANGED cxQ
     \/ \E u \in WithId(c) : RequestEnd(u) /\ UNCHANGED <<dialog, looper>>
  /\ UNCHANGED <<kit, channel, matchers>>

-----------------------------------------------------------------------------
(* Matching: what the app asks of the plugin.                              *)

\* callGetSipHeader of the hint; none when the engine has lost the call.
GetSipHeader(c) ==
  /\ toFlutter' = Append(toFlutter,
                         ItemWith("header", c, IF Live(c) THEN c ELSE NoCall))
  /\ UNCHANGED <<kit, dialog, looper, cxQ>>

\* Mutant: an answer noted before is not acted upon.
UpdateDetailsIdOnly(u, id) ==
  /\ IF u \in callsList /\ id # NoCall
     THEN LET call == [cx[u] EXCEPT !.id = id] IN
            IF call.rejected THEN ProceedEnd(u, call)
            ELSE cx' = [cx EXCEPT ![u] = call] /\ UNCHANGED <<dialog, looper>>
     ELSE UNCHANGED <<cx, dialog, looper>>
  /\ UNCHANGED <<cxShown, callsList, cxQ, toFlutter>>

\* Mutant: answering comes before declining.
UpdateDetailsEager(u, id) ==
  /\ IF u \in callsList /\ id # NoCall
     THEN LET call == [cx[u] EXCEPT !.id = id] IN
            CASE call.answered -> ProceedAnswer(u, call)
              [] ~call.answered /\ call.rejected -> ProceedEnd(u, call)
              [] OTHER -> cx' = [cx EXCEPT ![u] = call]
                          /\ UNCHANGED <<dialog, looper>>
     ELSE UNCHANGED <<cx, dialog, looper>>
  /\ UNCHANGED <<cxShown, callsList, cxQ, toFlutter>>

\* sipAppUpdateCallDetails: what the user did before is done now.
UpdateDetails(u, id) ==
  /\ IF u \in callsList /\ id # NoCall
     THEN LET call == [cx[u] EXCEPT !.id = id] IN
            CASE call.rejected -> ProceedEnd(u, call)
              [] ~call.rejected /\ call.answered -> ProceedAnswer(u, call)
              [] OTHER -> cx' = [cx EXCEPT ![u] = call]
                          /\ UNCHANGED <<dialog, looper>>
     ELSE UNCHANGED <<cx, dialog, looper>>
  /\ UNCHANGED <<cxShown, callsList, cxQ, toFlutter>>

\* cxActionEndCall(uuid): request, and forget the call at once.
EndKitCall(u) ==
  /\ IF u \in callsList THEN
       /\ cxQ' = IF cxShown[u] \in {"ringing", "answered"}
                 THEN Append(cxQ, Item("end", u)) ELSE cxQ
       /\ callsList' = callsList \ {u}
     ELSE UNCHANGED <<cxQ, callsList>>
  /\ UNCHANGED <<cxShown, cx, dialog, looper, toFlutter>>

FromFlutter ==
  /\ toNative # <<>>
  /\ toNative' = Tail(toNative)
  /\ LET m == Head(toNative) IN
       \/ m.kind = "header" /\ GetSipHeader(m.call)
       \/ m.kind = "update" /\ UpdateDetails(m.call, m.id)
       \/ m.kind = "endKit" /\ EndKitCall(m.call)
  /\ UNCHANGED matchers

-----------------------------------------------------------------------------
(* AppCallsModel.                                                          *)

SendNative(m) == toNative' = Append(toNative, m)

\* Mutant: a push after its INVITE waits for the INVITE.
OnIncomingPushWaits(c) ==
  /\ matchers' = [matchers EXCEPT ![c] = [known |-> TRUE, uuid |-> c, id |-> NoCall]]
  /\ SendNative(ItemWith("update", c, NoCall))

\* The details on the screen are updated, with the id if it is known.
OnIncomingPush(c) ==
  /\ matchers' = IF matchers[c].known THEN matchers
                 ELSE [matchers EXCEPT ![c] =
                         [known |-> TRUE, uuid |-> c, id |-> NoCall]]
  /\ SendNative(ItemWith("update", c, matchers[c].id))

\* onIncomingSip after its await; hint is that of the INVITE.
OnHint(c, hint) ==
  IF matchers[hint].known
  THEN /\ matchers' = [matchers EXCEPT ![hint].id = c]
       /\ IF matchers[hint].uuid = NoCall THEN UNCHANGED toNative  \* bad arguments
          ELSE SendNative(ItemWith("update", matchers[hint].uuid, c))
  ELSE /\ matchers' = [matchers EXCEPT ![hint] =
                         [known |-> TRUE, uuid |-> NoCall, id |-> c]]
       /\ UNCHANGED toNative

Flutter ==
  /\ toFlutter # <<>>
  /\ toFlutter' = Tail(toFlutter)
  /\ LET m == Head(toFlutter) IN
       \/ m.kind = "push"      /\ OnIncomingPush(m.call)
       \/ m.kind = "incoming"  /\ SendNative(Item("header", m.call)) /\ UNCHANGED matchers
       \/ m.kind = "header"    /\ OnHint(m.call, m.id)
       \/ m.kind = "connected" /\ UNCHANGED <<matchers, toNative>>
       \/ /\ m.kind = "terminated"
          /\ matchers' = [h \in MaybeCall |-> IF matchers[h].id = m.call
                                              THEN NoMatcher ELSE matchers[h]]
          /\ UNCHANGED toNative
  /\ UNCHANGED <<dialog, kit, looper, cxQ>>

\* _startPushNotifTimer: 15 s have passed and there is no INVITE.
Timer(h) ==
  /\ matchers[h].known /\ matchers[h].id = NoCall
  /\ matchers' = [matchers EXCEPT ![h] = NoMatcher]
  /\ SendNative(Item("endKit", matchers[h].uuid))
  /\ UNCHANGED <<dialog, kit, looper, cxQ, toFlutter>>

KitNext ==
  \/ KitRoom /\ \E c \in KitCalls :
       \/ Invite(c) \/ Established(c) \/ EndsElsewhere(c) \/ Push(c)
       \/ UserAnswers(c) \/ UserEnds(c)
       \/ Dial(c) \/ AppAccepts(c) \/ AppEnds(c)
       \/ Timer(c)
  \/ Perform \/ Posted \/ FromFlutter
  \/ Flutter

KitSafe == KitInit /\ [][KitNext]_kvars

(* The main queue and the Dart event loop take their next task.            *)
KitFairness ==
  /\ WF_kvars(Perform) /\ WF_kvars(Posted) /\ WF_kvars(FromFlutter)
  /\ WF_kvars(Flutter)

KitSpec == KitSafe /\ KitFairness

-----------------------------------------------------------------------------
(* Properties.                                                             *)

(* Whichever of push and INVITE comes first, a CallKit call and the live   *)
(* SIP call it announces are matched once nothing is under way, and never  *)
(* with another: "either order is possible" (ios_call_setup.md).           *)
BothMatched ==
  /\ \A u \in callsList : cx[u].id \in {u, NoCall}
  /\ looper \o toFlutter \o toNative = <<>> =>
       \A u \in callsList : Live(u) => cx[u].id = u

(* A call that the user declined before it was matched is not accepted by  *)
(* the provider, also when the user had answered it first.                 *)
DeclineStands ==
  [][Perform \/ FromFlutter =>
       \A u \in callsList : cx[u].rejected =>
         (dialog'[u] = "accepted" => dialog[u] = "accepted")]_kvars

(* "The action is queued and executed as soon as you match the call":      *)
(* a call answered or declined early does not go on ringing.               *)
QueuedRuns ==
  \A u \in KitCalls :
    (u \in callsList /\ (cx[u].answered \/ cx[u].rejected)) /\ dialog[u] = "ringing"
      ~> dialog[u] # "ringing" \/ u \notin callsList

(* A SIP call that has ended leaves the provider.                          *)
EndLeavesKit ==
  \A u \in KitCalls :
    u \in callsList /\ Matched(u) /\ dialog[u] = "gone" ~> u \notin callsList

(* When no INVITE comes, the CallKit call is dismissed: once the provider  *)
(* has forgotten it, it is over for CallKit too, or about to be. "If no    *)
(* INVITE arrives, the app dismisses the CallKit call after 15 seconds"    *)
(* (ios_backend_setup.md).                                                 *)
DismissedIsOver ==
  \A u \in KitCalls \ callsList :
    dialog[u] = "none" /\ cxShown[u] \in {"ringing", "answered"}
      => Contains(cxQ, Item("end", u))
=============================================================================
