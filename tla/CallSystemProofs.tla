-------------------------- MODULE CallSystemProofs --------------------------
(***************************************************************************)
(* Proofs about the engine together with the Dart calls model, for any     *)
(* number of calls, slots and callback threads.                            *)
(***************************************************************************)
EXTENDS CallSystem, SipCallsProofs, FiniteSetTheorems, WellFoundedInduction

(* What the general client of SipCalls must be able to do for Dart to be   *)
(* one: wait for a reply as any CallModel, or as none.  As in the runs, no *)
(* callback of an outgoing call runs before callInvite has put it into the *)
(* map.                                                                    *)
DartClient == ~FastPeer /\ Obj \cup {NoObj} \subseteq Awaiters

-----------------------------------------------------------------------------
(* Type correctness of the whole.                                          *)

CallModel  == [id: Ids, obj: Obj, st: CallStates, starts: Nat]
ModelTypes == /\ items \in Seq(CallModel)
              /\ focus \in Ids \cup {kEmptyCallId, NoWire}
              /\ conf \in BOOLEAN

(* A reply to invite names the call that was made, or none.                *)
InviteReply(r) ==
  r.name = "invite" => IF r.ok THEN r.obj \in Obj /\ r.id \in Ids ELSE r.obj = NoObj

Answer == {r \in Rep : InviteReply(r)}

RepliesInv == dartQ \in Seq(Named \cup Answer)

BaseInv == TypeInv /\ TableInv /\ NamesInv /\ ModelTypes /\ RepliesInv

(* Methods a CallModel invokes for itself.                                 *)
OwnMethods == {"accept", "reject", "bye", "upgrade"}

(* A nonempty set of numbers has a least one.                              *)
LEMMA LeastIn ==
  ASSUME NEW S \in SUBSET Nat, S # {}
  PROVE  \E m \in S : \A k \in S : m <= k
<1>. DEFINE R == {p \in Nat \X Nat : p[1] < p[2]}
<1>1. IsWellFoundedOn(R, Nat)
  BY NatLessThanWellFounded DEF OpToRel
<1>. HIDE DEF R
<1>2. PICK m \in S : \A k \in S : ~(<<k, m>> \in R)
  BY <1>1, WFMin
<1>3. \A k \in S : ~(k < m)
  BY <1>2 DEF R
<1>. QED BY <1>3

(* List.remove finds the call when it is there.                            *)
LEMMA PlaceFound ==
  ASSUME items \in Seq(CallModel), NEW o \in ShownObjs
  PROVE  PlaceOf(o) \in DOMAIN items /\ items[PlaceOf(o)].obj = o
<1>. DEFINE S == {k \in DOMAIN items : items[k].obj = o}
<1>1. S \in SUBSET Nat /\ S # {} /\ DOMAIN items \subseteq Nat
  BY DEF ShownObjs
<1>2. PICK m \in S : \A k \in S : m <= k
  BY <1>1, LeastIn
<1>3. \A j \in DOMAIN items : j < m => items[j].obj # o
  BY <1>1, <1>2
<1>. QED BY <1>2, <1>3 DEF PlaceOf

(* What is left of a sequence when one place is removed.                   *)
LEMMA Concat ==
  ASSUME NEW M, NEW a \in Seq(M), NEW b \in Seq(M)
  PROVE  /\ a \o b \in Seq(M) /\ Len(a \o b) = Len(a) + Len(b)
         /\ DOMAIN (a \o b) = 1..Len(a) + Len(b)
         /\ \A k \in 1..Len(a) : (a \o b)[k] = a[k]
         /\ \A k \in 1..Len(b) : (a \o b)[Len(a) + k] = b[k]
  OBVIOUS

LEMMA Removed ==
  ASSUME NEW M, NEW s \in Seq(M), NEW i \in DOMAIN s
  PROVE  /\ RemoveAt(s, i) \in Seq(M)
         /\ DOMAIN RemoveAt(s, i) = 1..Len(s) - 1
         /\ \A k \in 1..Len(s) - 1 : RemoveAt(s, i)[k] = IF k < i THEN s[k] ELSE s[k + 1]
<1>. DEFINE a == SubSeq(s, 1, i - 1)
            b == SubSeq(s, i + 1, Len(s))
            r == a \o b
<1>1. i \in Nat /\ 1 <= i /\ i <= Len(s) /\ Len(s) \in Nat
  OBVIOUS
<1>2. /\ a \in Seq(M) /\ Len(a) = i - 1
      /\ \A k \in 1..i - 1 : a[k] = s[k]
  BY <1>1
<1>3. /\ b \in Seq(M) /\ Len(b) = Len(s) - i
      /\ \A k \in 1..Len(s) - i : b[k] = s[k + i]
  BY <1>1
<1>4. r = RemoveAt(s, i)
  BY DEF RemoveAt
<1>. HIDE DEF a, b
<1>5. /\ r \in Seq(M) /\ DOMAIN r = 1..Len(a) + Len(b)
      /\ \A k \in 1..Len(a) : r[k] = a[k]
      /\ \A k \in 1..Len(b) : r[Len(a) + k] = b[k]
  <2>1. a \in Seq(M) /\ b \in Seq(M)
    BY <1>2, <1>3
  <2>. QED BY <2>1, Concat
<1>. HIDE DEF r
<1>6. DOMAIN r = 1..Len(s) - 1
  <2>1. Len(a) + Len(b) = Len(s) - 1
    BY <1>1, <1>2, <1>3
  <2>. QED BY <1>5, <2>1
<1>7. ASSUME NEW k \in 1..Len(s) - 1
      PROVE  r[k] = IF k < i THEN s[k] ELSE s[k + 1]
  <2>1. CASE k < i
    BY <1>1, <1>2, <1>5, <2>1
  <2>2. CASE ~(k < i)
    <3>1. PICK n \in 1..Len(s) - i : n = k - (i - 1)
      BY <1>1, <2>2
    <3>2. n \in 1..Len(b) /\ Len(a) + n = k /\ n + i = k + 1
      <4>1. Len(a) = i - 1 /\ Len(b) = Len(s) - i
        BY <1>2, <1>3
      <4>. QED BY <1>1, <3>1, <4>1
    <3>3. r[k] = b[n] /\ b[n] = s[k + 1]
      BY <1>3, <1>5, <3>1, <3>2
    <3>. QED BY <2>2, <3>3
  <2>. QED BY <2>1, <2>2
<1>. QED BY <1>4, <1>5, <1>6, <1>7

LEMMA WithoutType ==
  ASSUME items \in Seq(CallModel), NEW o
  PROVE  Without(o) \in Seq(CallModel)
<1>1. ASSUME o \in ShownObjs PROVE Without(o) \in Seq(CallModel)
  <2>1. PlaceOf(o) \in DOMAIN items
    BY <1>1, PlaceFound
  <2>2. RemoveAt(items, PlaceOf(o)) \in Seq(CallModel)
    BY <2>1, Removed
  <2>. QED BY <1>1, <2>2 DEF Without
<1>. QED BY <1>1 DEF Without

(* What Dart takes.                                                        *)
LEMMA TakeType ==
  ASSUME BaseInv, Take
  PROVE  /\ Msg1 \in Named \cup Answer /\ Msg1 \in Msg \cup Rep
         /\ Msg1.id \in WireIds
         /\ Msg1.kind = "event" => Msg1.id \in Ids /\ Msg1.obj \in Obj
         /\ Msg1.kind = "reply" => InviteReply(Msg1)
<1>1. dartQ \in Seq(Named \cup Answer) /\ dartQ \in Seq(Msg \cup Rep) /\ dartQ # <<>>
  BY DEF BaseInv, RepliesInv, TypeInv, TypeOK, Take
<1>2. Msg1 \in Named \cup Answer /\ Msg1 \in Msg \cup Rep
  BY <1>1 DEF Msg1
<1>. QED BY <1>2 DEF Named, Answer, Rep, WireIds

LEMMA NewCallType ==
  ASSUME NEW id \in Ids, NEW o \in Obj, NEW st \in CallStates
  PROVE  NewCall(id, o, st) \in CallModel
  BY DEF NewCall, CallModel

LEMMA CallTypes ==
  ASSUME NEW c \in CallModel
  PROVE  /\ c.id \in Ids /\ c.obj \in Obj /\ c.starts \in Nat
         /\ \A st \in CallStates : [c EXCEPT !.st = st] \in CallModel
         /\ [c EXCEPT !.st = "connected", !.starts = @ + 1] \in CallModel
<1>1. c.id \in Ids /\ c.obj \in Obj /\ c.starts \in Nat
  BY DEF CallModel
<1>2. ASSUME NEW st \in CallStates PROVE [c EXCEPT !.st = st] \in CallModel
  BY DEF CallModel
<1>3. [c EXCEPT !.st = "connected", !.starts = @ + 1] \in CallModel
  <2>1. "connected" \in CallStates /\ c.starts + 1 \in Nat
    BY <1>1 DEF CallStates
  <2>. QED BY <2>1 DEF CallModel
<1>. QED BY <1>1, <1>2, <1>3

LEMMA ItemTypes ==
  ASSUME items \in Seq(CallModel), NEW k \in DOMAIN items
  PROVE  items[k] \in CallModel /\ items[k].id \in Ids /\ items[k].obj \in Obj
<1>1. items[k] \in CallModel
  OBVIOUS
<1>. QED BY <1>1, CallTypes

(* A step that changes some calls in place.                                *)
LEMMA InPlaceType ==
  ASSUME NEW M, NEW s \in Seq(M), NEW f,
         f = [k \in DOMAIN s |-> f[k]], \A k \in DOMAIN s : f[k] \in M
  PROVE  f \in Seq(M) /\ DOMAIN f = DOMAIN s /\ Len(f) = Len(s)
<1>1. f \in [1..Len(s) -> M] /\ Len(s) \in Nat
  OBVIOUS
<1>. QED BY <1>1

LEMMA DartTypes ==
  ASSUME BaseInv, Dart
  PROVE  ModelTypes'
<1>0. /\ items \in Seq(CallModel) /\ focus \in Ids \cup {kEmptyCallId, NoWire}
      /\ conf \in BOOLEAN /\ Take
  BY DEF BaseInv, ModelTypes, Dart, HandleIncoming, HandleProceeding, HandleConnected,
         HandleSwitched, HandleTerminated, HandleHeader, HandleReply
<1>1. CASE HandleIncoming
  <2>1. NewCall(Msg1.id, Msg1.obj, "ringing") \in CallModel /\ Msg1.id \in Ids
    BY <1>0, <1>1, TakeType, NewCallType DEF HandleIncoming, CallStates
  <2>. QED BY <1>0, <1>1, <2>1 DEF HandleIncoming, OnIncomingSip, model, ModelTypes
<1>2. CASE HandleProceeding
  <2>1. \A k \in DOMAIN items : items'[k] \in CallModel
    <3>1. "proceeding" \in CallStates
      BY DEF CallStates
    <3>. QED BY <1>0, <1>2, <3>1, ItemTypes, CallTypes DEF HandleProceeding, OnProceeding
  <2>2. items' = [k \in DOMAIN items |-> items'[k]]
    BY <1>2 DEF HandleProceeding, OnProceeding
  <2>3. items' \in Seq(CallModel)
    BY <1>0, <2>1, <2>2, InPlaceType
  <2>. QED BY <1>0, <1>2, <2>3 DEF HandleProceeding, OnProceeding, ModelTypes
<1>3. CASE HandleConnected
  <2>1. \A k \in DOMAIN items : items'[k] \in CallModel
    BY <1>0, <1>3, ItemTypes, CallTypes DEF HandleConnected, OnConnected
  <2>2. items' = [k \in DOMAIN items |-> items'[k]]
    BY <1>3 DEF HandleConnected, OnConnected
  <2>3. items' \in Seq(CallModel)
    BY <1>0, <2>1, <2>2, InPlaceType
  <2>. QED BY <1>0, <1>3, <2>3 DEF HandleConnected, OnConnected, ModelTypes
<1>4. CASE HandleSwitched
  BY <1>0, <1>4, TakeType DEF HandleSwitched, OnSwitched, ModelTypes
<1>5. CASE HandleTerminated
  BY <1>0, <1>5 DEF HandleTerminated, model, ModelTypes
<1>6. CASE HandleHeader
  <2>1. Without(Msg1.obj) \in Seq(CallModel)
    BY <1>0, WithoutType
  <2>2. Without(Msg1.obj) # <<>> => Head(Without(Msg1.obj)).id \in Ids
    <3>1. Without(Msg1.obj) # <<>> => Head(Without(Msg1.obj)) \in CallModel
      BY <2>1
    <3>. QED BY <3>1 DEF CallModel
  <2>. QED BY <1>0, <1>6, <2>1, <2>2 DEF HandleHeader, OnTerminatedResume, ModelTypes
<1>7. CASE HandleReply
  <2>0. ASSUME NEW st \in CallStates, Answered(Msg1.obj, st) PROVE ModelTypes'
    <3>1. \A k \in DOMAIN items : items'[k] \in CallModel
      BY <1>0, <2>0, ItemTypes, CallTypes DEF Answered
    <3>2. items' = [k \in DOMAIN items |-> items'[k]]
      BY <2>0 DEF Answered
    <3>3. items' \in Seq(CallModel)
      BY <1>0, <3>1, <3>2, InPlaceType
    <3>. QED BY <1>0, <2>0, <3>3 DEF Answered, ModelTypes
  <2>1. CASE UNCHANGED model \/ ConfSet(FALSE) \/ ConfSet(TRUE)
    BY <1>0, <2>1 DEF model, ConfSet, ModelTypes
  <2>2. CASE Msg1.name = "invite" /\ Msg1.ok /\ Invited(Msg1.id, Msg1.obj)
    <3>1. NewCall(Msg1.id, Msg1.obj, "dialing") \in CallModel
      BY <1>0, <1>7, <2>2, TakeType, NewCallType
      DEF HandleReply, InviteReply, CallStates
    <3>. QED BY <1>0, <2>2, <3>1 DEF Invited, ModelTypes
  <2>3. CASE \/ Answered(Msg1.obj, "accepting") \/ Answered(Msg1.obj, "rejecting")
             \/ Answered(Msg1.obj, "disconnecting")
    BY <2>0, <2>3 DEF CallStates
  <2>. QED BY <1>7, <2>1, <2>2, <2>3 DEF HandleReply
<1>. QED
  BY <1>1, <1>2, <1>3, <1>4, <1>5, <1>6, <1>7 DEF Dart

(* Dart is a client of the engine.                                         *)
LEMMA DartSteps ==
  ASSUME DartClient, BaseInv, Dart
  PROVE  ClientTake \/ ClientTakeAndSend
<1>1. Take
  BY DEF Dart, HandleIncoming, HandleProceeding, HandleConnected,
         HandleSwitched, HandleTerminated, HandleHeader, HandleReply
<1>2. CASE mainQ' = mainQ
  BY <1>1, <1>2 DEF Take, ClientTake
<1>3. CASE mainQ' # mainQ
  <2>1. HandleTerminated /\ Msg1.id \in Shown
    BY <1>3 DEF Dart, HandleIncoming, HandleProceeding, HandleConnected,
                HandleSwitched, HandleTerminated, HandleHeader, HandleReply
  <2>2. PICK k \in DOMAIN items : Post(Request("header", Msg1.id, items[k].obj))
    BY <2>1 DEF HandleTerminated
  <2>3. items[k] \in CallModel
    BY DEF BaseInv, ModelTypes
  <2>4. items[k].obj \in Awaiters
    BY <2>3 DEF CallModel, DartClient
  <2>. QED
    BY <1>1, <2>1, <2>2, <2>4, TakeType
    DEF Take, ClientTakeAndSend, HandleTerminated, Msg1
<1>. QED BY <1>2, <1>3

LEMMA UserSteps ==
  ASSUME DartClient, BaseInv, User
  PROVE  /\ ClientSend /\ UNCHANGED model
         /\ \E m \in Methods \ {"header"}, id \in WireIds, o \in Obj \cup {NoObj} :
              /\ Post(Request(m, id, o))
              /\ m \in OwnMethods => \E k \in DOMAIN items :
                                       id = items[k].id /\ o = items[k].obj
<1>1. \A k \in DOMAIN items : items[k].id \in Ids /\ items[k].obj \in Obj
  BY ItemTypes DEF BaseInv, ModelTypes
<1>2. focus \in WireIds /\ NoId \in WireIds
  BY DEF BaseInv, ModelTypes, WireIds, kEmptyCallId, NoId
<1>3. PICK m \in Methods \ {"header"}, id \in WireIds, o \in Obj \cup {NoObj} :
        /\ Send(m, id, o)
        /\ m \in OwnMethods => \E k \in DOMAIN items :
                                 id = items[k].id /\ o = items[k].obj
  <2>1. CASE UserInvite
    BY <1>2, <2>1 DEF UserInvite, Send, OwnMethods
  <2>2. CASE UserAccept
    BY <1>1, <2>2 DEF UserAccept, Send, WireIds
  <2>3. CASE UserReject
    BY <1>1, <2>3 DEF UserReject, Send, WireIds
  <2>4. CASE UserBye
    BY <1>1, <2>4 DEF UserBye, Send, WireIds
  <2>5. CASE UserUpgrade
    BY <1>1, <2>5 DEF UserUpgrade, Send, WireIds
  <2>6. CASE UserSwitch
    BY <1>1, <2>6 DEF UserSwitch, Send, OwnMethods, WireIds
  <2>7. CASE UserConference
    BY <1>2, <2>7 DEF UserConference, Send, OwnMethods
  <2>. QED BY <2>1, <2>2, <2>3, <2>4, <2>5, <2>6, <2>7 DEF User
<1>4. o \in Awaiters
  BY DEF DartClient
<1>5. ClientSend /\ UNCHANGED model /\ Post(Request(m, id, o))
  BY <1>3, <1>4 DEF Send, ClientSend
<1>. QED BY <1>3, <1>5

LEMMA SystemSteps ==
  ASSUME DartClient, BaseInv, [SystemNext]_svars
  PROVE  [Next]_vars
<1>1. CASE EngineStep
  BY <1>1 DEF EngineStep, Next
<1>2. CASE Dart
  BY <1>2, DartSteps DEF Next, Client
<1>3. CASE User
  BY <1>3, UserSteps DEF Next, Client
<1>4. CASE Idle \/ UNCHANGED svars
  BY <1>4 DEF Idle, svars, vars
<1>. QED BY <1>1, <1>2, <1>3, <1>4 DEF SystemNext

(* The replies to invite.                                                  *)
LEMMA AnswerType ==
  ASSUME NEW m \in AllMethods, NEW id \in WireIds, NEW w \in Who \cup {NoObj},
         NEW ok \in BOOLEAN,
         m = "invite" => IF ok THEN w \in Obj /\ id \in Ids ELSE w = NoObj
  PROVE  Reply(m, id, w, ok) \in Answer
<1>1. Reply(m, id, w, ok) \in Rep
  BY ReplyType
<1>. QED BY <1>1 DEF Answer, InviteReply, Reply

LEMMA DoneAnswer ==
  ASSUME BaseInv, wk.m \in AllMethods, NEW id \in WireIds, NEW ok \in BOOLEAN,
         Done(id, ok),
         wk.m = "invite" => IF ok THEN wk.o \in Obj /\ id \in Ids ELSE wk.o = NoObj
  PROVE  dartQ' \in Seq(Named \cup Answer)
<1>. DEFINE w == IF wk.m = "invite" THEN wk.o ELSE wk.obj
<1>1. w \in Who \cup {NoObj}
  BY DEF BaseInv, TypeInv, TypeOK, Who
<1>2. wk.m = "invite" => IF ok THEN w \in Obj /\ id \in Ids ELSE w = NoObj
  OBVIOUS
<1>. HIDE DEF w
<1>3. Reply(wk.m, id, w, ok) \in Answer
  BY <1>1, <1>2, AnswerType
<1>4. dartQ' = Append(dartQ, Reply(wk.m, id, w, ok))
  BY DEF Done, w
<1>. QED BY <1>3, <1>4 DEF BaseInv, RepliesInv

LEMMA StepReplies ==
  ASSUME DartClient, BaseInv, [Next]_vars
  PROVE  RepliesInv'
<1>0. dartQ \in Seq(Named \cup Answer)
  BY DEF BaseInv, RepliesInv
<1>1. CASE Worker
  <2>0. /\ wk.id \in WireIds /\ NoId \in WireIds /\ wk.m \in AllMethods
    BY <1>1 DEF BaseInv, TypeInv, TypeOK, WireIds, Worker, InviteMake, InviteFail,
         InviteWire, InvitePut, InviteDone, Accept, Hangup, Upgrade, SwitchLookup,
         SwitchDone, Conference, AllMethods
  <2>1. CASE InviteMake \/ InvitePut
    BY <1>0, <2>1 DEF InviteMake, InvitePut, RepliesInv
  <2>2. CASE InviteFail
    BY <2>0, <2>2, DoneAnswer DEF InviteFail, BaseInv, TableInv, RegisteringOK, RepliesInv
  <2>3. CASE InviteWire
    BY <1>0, <2>3 DEF InviteWire, BaseInv, TableInv, RegisteringOK, Alive, RepliesInv
  <2>4. CASE InviteDone
    <3>1. wk.o \in Obj /\ wireId[wk.o] \in Ids
      BY <2>4 DEF InviteDone, BaseInv, TableInv, RegisteringOK, SlotsUnique
    <3>. QED BY <2>0, <2>4, <3>1, DoneAnswer DEF InviteDone, WireIds, RepliesInv
  <2>5. CASE Accept \/ Hangup \/ Upgrade \/ SwitchLookup \/ SwitchDone \/ Conference
    <3>1. wk.m # "invite"
      BY <2>5 DEF Accept, Hangup, Upgrade, SwitchLookup, SwitchDone, Conference
    <3>2. \A ok \in BOOLEAN : Done(wk.id, ok) => dartQ' \in Seq(Named \cup Answer)
      BY <2>0, <3>1, DoneAnswer
    <3>. QED
      BY <1>0, <2>5, <3>2
      DEF Accept, Hangup, Upgrade, SwitchLookup, SwitchDone, Conference, RepliesInv
  <2>. QED BY <1>1, <2>1, <2>2, <2>3, <2>4, <2>5 DEF Worker
<1>2. CASE Main
  <2>1. Head(mainQ) \in Named
    <3>1. mainQ \in Seq(Named) /\ mainQ # <<>>
      BY <1>2 DEF BaseInv, NamesInv, Main, MainEvent, MainRequest, MainHeader, MainIdle
    <3>. QED BY <3>1
  <2>2. CASE MainEvent \/ MainRequest
    BY <1>0, <2>1, <2>2 DEF MainEvent, MainRequest, RepliesInv
  <2>3. CASE MainHeader
    <3>1. Head(mainQ).id \in WireIds /\ Head(mainQ).obj \in Who \cup {NoObj}
      BY <2>1 DEF Named, Who, WireIds
    <3>2. Reply("header", Head(mainQ).id, Head(mainQ).obj, TRUE) \in Answer
      BY <3>1, AnswerType DEF AllMethods
    <3>3. PICK r \in Answer : dartQ' = Append(dartQ, r)
      BY <2>3, <3>2 DEF MainHeader
    <3>. QED BY <1>0, <3>3 DEF RepliesInv
  <2>. QED BY <1>2, <2>2, <2>3 DEF Main
<1>3. CASE Client
  <2>1. dartQ' = dartQ \/ (dartQ # <<>> /\ dartQ' = Tail(dartQ))
    BY <1>3 DEF Client, ClientTake, ClientSend, ClientTakeAndSend
  <2>. QED BY <1>0, <2>1 DEF RepliesInv
<1>4. CASE (\E t \in CbThreads : Callback(t)) \/ UNCHANGED vars
  <2>1. dartQ' = dartQ
    BY <1>4 DEF Callback, IncomingCall, IncomingPost, Provisional, Confirmed,
                Disconnected, DisconnectedPost, vars
  <2>. QED BY <1>0, <2>1 DEF RepliesInv
<1>. QED BY <1>1, <1>2, <1>3, <1>4 DEF Next, System

LEMMA InitBase == SystemInit => BaseInv
<1>1. Init => NamesInv
  BY DEF Init, NamesInv, IdleCb
<1>2. Init => RepliesInv
  BY DEF Init, RepliesInv
<1>3. ModelInit => ModelTypes
  <2>1. ModelInit => items \in Seq(CallModel)
    BY DEF ModelInit
  <2>2. ModelInit => focus \in Ids \cup {kEmptyCallId, NoWire} /\ conf \in BOOLEAN
    BY Zenon DEF ModelInit
  <2>. QED BY <2>1, <2>2 DEF ModelTypes
<1>. QED BY <1>1, <1>2, <1>3, InitType, InitTable DEF SystemInit, BaseInv

LEMMA StepBase ==
  ASSUME DartClient, BaseInv, [SystemNext]_svars
  PROVE  [Next]_vars /\ BaseInv'
<1>1. [Next]_vars
  BY SystemSteps
<1>2. TypeInv' /\ TableInv' /\ NamesInv'
  BY <1>1, StepType, StepTable, StepNames DEF DartClient, BaseInv
<1>3. RepliesInv'
  BY <1>1, StepReplies
<1>4. ModelTypes'
  <2>1. CASE UNCHANGED model
    BY <2>1 DEF model, BaseInv, ModelTypes
  <2>2. CASE Dart
    BY <2>2, DartTypes
  <2>3. CASE User
    BY <2>1, <2>3, UserSteps
  <2>. QED BY <2>1, <2>2, <2>3 DEF SystemNext, EngineStep, Idle, svars
<1>. QED BY <1>1, <1>2, <1>3, <1>4 DEF BaseInv

LEMMA BaseInvariant ==
  ASSUME DartClient
  PROVE  SafeSystem => Spec /\ []BaseInv
<1>1. SystemInit => Init
  BY DEF SystemInit
<1>2. BaseInv /\ [SystemNext]_svars => [Next]_vars /\ BaseInv'
  BY StepBase
<1>. QED BY <1>1, <1>2, InitBase, PTL DEF SafeSystem, Spec

(* The engine with Dart as its client is the engine with some client, so   *)
(* that what holds for any client holds here.                              *)
THEOREM DartIsAClient ==
  ASSUME DartClient
  PROVE  SafeSystem => Spec
  BY BaseInvariant, PTL

(* The list of calls, the switched call and everything in the engine keep  *)
(* their types: no event or reply makes a CallModel without a call.        *)
THEOREM SystemTypes ==
  ASSUME DartClient
  PROVE  SafeSystem => []SystemTypeOK
<1>1. BaseInv => SystemTypeOK
  BY DEF BaseInv, TypeInv, ModelTypes, CallModel, SystemTypeOK
<1>. QED BY <1>1, BaseInvariant, PTL

-----------------------------------------------------------------------------
(* The list of calls.  Every call goes through the same stages: it is held *)
(* back while its callback or callInvite prepares it, its message enters   *)
(* the list, the engine ends it, the message that says so is handled, the  *)
(* header is asked for and the call leaves the list.  The invariant says   *)
(* in which of them a call is, as sets of calls.                           *)

Enters(m) == \/ m.kind = "event" /\ m.name = "incoming"
             \/ m.kind = "reply" /\ m.name = "invite" /\ m.ok
Leaves(m) == m.kind = "event" /\ m.name = "terminated"
Asks(m)   == m.kind # "event" /\ m.name = "header"
Plain(m)  == ~Enters(m) /\ ~Leaves(m) /\ ~Asks(m)

Entering(U) == {o \in Obj : \E m \in U : Enters(m) /\ m.obj = o}
Leaving(U)  == {o \in Obj : \E m \in U : Leaves(m) /\ m.obj = o}
Asked(U)    == {o \in Obj : \E m \in U : Asks(m) /\ m.obj = o}

Unborn == {o \in Obj : inv[o] = "unborn"}
Ended  == {o \in Obj : inv[o] = "ended"}
Busy   == {o \in Obj : \E t \in CbThreads : cb[t].o = o}
Held   == {o \in Obj : Registering(o)
                       \/ \E t \in CbThreads : cb[t].pc = "incoming" /\ cb[t].o = o}

(* Dart has not handled the end of these, ...                              *)
Pending == (Obj \ (Unborn \cup Ended)) \cup Busy \cup Leaving(UnderWay)
(* ... and these are about to enter the list.                              *)
Coming  == Held \cup Entering(UnderWay)

ListSound ==
  /\ Coming \subseteq Pending
  /\ Coming \cap ShownObjs = {}
  /\ Pending \subseteq ShownObjs \cup Coming
  /\ ShownObjs \subseteq Pending \cup Asked(UnderWay)
  /\ Asked(UnderWay) \subseteq Ended \ Pending

(* A call enters the list before any event of its life is handled, and     *)
(* only once; the reply to accept comes before connected.                  *)
Accepted(m) == m.kind = "reply" /\ m.name = "accept" /\ m.ok

ListedFirst(a, b) ==
  a.obj = b.obj =>
    /\ Enters(b) => ~Life(a) /\ ~Enters(a)
    /\ Accepted(b) => ~(a.kind = "event" /\ a.name = "connected")

ListOrder == {p \in Sent \X Sent : ListedFirst(p[1], p[2])}

(* The ids in messages are the slots of the calls they are about.          *)
MessageOK(m) ==
  /\ Life(m) => m.id = slot[m.obj] /\ m.obj \notin Held
  /\ Enters(m) => m.obj \in Obj /\ m.id = slot[m.obj] /\ m.obj \notin Held
  /\ m.kind = "request" /\ m.name \in OwnMethods =>
       m.obj \in Obj /\ m.id = slot[m.obj] /\ inv[m.obj] # "unborn"
  /\ m.kind = "reply" /\ m.name \in OwnMethods => m.obj \in Obj
  /\ m.kind = "reply" /\ m.name \in {"reject", "bye"} /\ m.ok =>
       m.obj \in hungUp \/ inv[m.obj] = "ended"
  /\ Asks(m) => m.obj \in Obj

WorkerKnows ==
  wk.m \in OwnMethods =>
    wk.obj \in Obj /\ wk.id = slot[wk.obj] /\ inv[wk.obj] # "unborn"

CallbackKnows ==
  \A t \in CbThreads :
    /\ cb[t].pc # "idle" => cb[t].id = slot[cb[t].o]
    /\ ~(wk.m = "invite" /\ wk.o \in Obj /\ wk.o = cb[t].o)

IncomingLives ==
  \A t \in CbThreads : cb[t].pc = "incoming" => inv[cb[t].o] # "ended"

SlotOK   == \A o \in Obj : inv[o] # "unborn" => slot[o] \in Ids
ItemIds  == \A k \in DOMAIN items : items[k].id = slot[items[k].obj]
Distinct == \A j, k \in DOMAIN items : items[j].obj = items[k].obj => j = k

ListInv ==
  /\ QueuesSorted(ListOrder, dartQ, mainQ)
  /\ \A m \in UnderWay : MessageOK(m)
  /\ ListSound
  /\ WorkerKnows /\ CallbackKnows /\ IncomingLives
  /\ SlotOK /\ ItemIds /\ Distinct

(* Nothing is left of a call but its number.                               *)
Gone(o) ==
  /\ inv[o] = "ended" /\ o \notin ShownObjs
  /\ \A t \in CbThreads : cb[t].o # o
  /\ wk.o # o /\ wk.obj # o
  /\ \A m \in UnderWay : m.obj # o

(* What the proofs below ask of pjsua, which gives out its slots in turn:  *)
(* it gives one out again only when nothing is left of the call that had   *)
(* it before.  The maps of Dart and of the engine are keyed by slots.      *)
LateReuse ==
  \A o, p \in Obj :
    o # p /\ slot[o] = slot[p] /\ slot[o] # NoWire => Gone(o) \/ Gone(p)

(* Messages added to, or left of, those under way.                         *)
LEMMA SetsMore ==
  ASSUME NEW U, NEW e
  PROVE  /\ Entering(U \cup {e}) =
              Entering(U) \cup {o \in Obj : Enters(e) /\ e.obj = o}
         /\ Leaving(U \cup {e}) =
              Leaving(U) \cup {o \in Obj : Leaves(e) /\ e.obj = o}
         /\ Asked(U \cup {e}) =
              Asked(U) \cup {o \in Obj : Asks(e) /\ e.obj = o}
  BY DEF Entering, Leaving, Asked

LEMMA SetsPlain ==
  ASSUME NEW U, NEW e, Plain(e)
  PROVE  /\ Entering(U \cup {e}) = Entering(U)
         /\ Leaving(U \cup {e}) = Leaving(U)
         /\ Asked(U \cup {e}) = Asked(U)
  BY DEF Entering, Leaving, Asked, Plain

LEMMA PlainOrder ==
  ASSUME NEW a \in Sent, NEW b \in Sent, ~Enters(b), ~Accepted(b)
  PROVE  <<a, b>> \in ListOrder
  BY DEF ListOrder, ListedFirst

(* A call that is not born is nowhere.                                     *)
LEMMA Birth ==
  ASSUME BaseInv, OrderInv, ListInv, NEW o \in Obj, inv[o] = "unborn"
  PROVE  /\ o \notin Pending /\ o \notin Coming /\ o \notin ShownObjs
         /\ o \notin Asked(UnderWay) /\ o \notin Busy
<1>1. o \notin Busy
  <2>1. \A t \in CbThreads : cb[t].o # o
    BY Sentinels DEF BaseInv, TypeInv, CallbackOK, OrderInv, OneCallback
  <2>. QED BY <2>1 DEF Busy
<1>2. o \notin Leaving(UnderWay)
  BY DEF OrderInv, Past, Leaving, Leaves, Life
<1>3. o \in Unborn /\ o \notin Ended
  BY DEF Unborn, Ended
<1>. QED BY <1>1, <1>2, <1>3 DEF ListInv, ListSound, Pending

(* What a call has been given stays with it.                               *)
Steady ==
  /\ \A o \in Obj : inv[o] # "unborn" =>
       /\ slot'[o] = slot[o] /\ inv'[o] # "unborn"
       /\ inv[o] = "ended" => inv'[o] = "ended"
       /\ wasConnected[o] => wasConnected'[o] \/ inv'[o] = "ended"
  /\ \A o \in Obj : inv[o] = "unborn" /\ inv'[o] # "unborn" => slot'[o] \in Ids
  /\ \A o \in hungUp : o \in hungUp' \/ inv'[o] = "ended"
  /\ Held' \subseteq Held \cup Unborn

LEMMA CallbackSteady ==
  ASSUME BaseInv, OrderInv, NEW t \in CbThreads, Callback(t)
  PROVE  Steady /\ wk' = wk
<1>0. wk' = wk
  BY DEF Callback, IncomingCall, IncomingPost, Provisional, Confirmed, Disconnected,
         DisconnectedPost
<1>1. CASE IncomingCall(t)
  <2>1. PICK o \in Obj, id \in Ids :
          /\ inv[o] = "unborn" /\ inv' = [inv EXCEPT ![o] = "incoming"]
          /\ slot' = [slot EXCEPT ![o] = id]
          /\ cb' = [cb EXCEPT ![t] = [IdleCb EXCEPT !.pc = "incoming", !.o = o, !.id = id]]
          /\ UNCHANGED <<hungUp, wasConnected>>
    BY <1>1 DEF IncomingCall, Fresh
  <2>2. \A u \in CbThreads : \/ cb'[u] = cb[u]
                             \/ cb'[u].o = o
    BY <2>1 DEF BaseInv, TypeInv, TypeOK, IdleCb
  <2>3. Held' \subseteq Held \cup Unborn
    BY <1>0, <2>1, <2>2 DEF Held, Unborn, Registering
  <2>. QED BY <1>0, <2>1, <2>3 DEF Steady, BaseInv, TypeInv, TypeOK
<1>2. CASE IncomingPost(t)
  <2>1. \A u \in CbThreads : cb'[u] = cb[u] \/ cb'[u].pc = "idle"
    BY <1>2 DEF IncomingPost, BaseInv, TypeInv, TypeOK, IdleCb
  <2>2. Held' \subseteq Held
    BY <1>0, <2>1 DEF Held, Registering
  <2>. QED
    BY <1>0, <1>2, <2>2
    DEF IncomingPost, engine, session, fields, Steady, BaseInv, TypeInv, TypeOK
<1>3. CASE Provisional(t) \/ Confirmed(t)
  <2>1. Held' = Held
    BY <1>0, <1>3 DEF Provisional, Confirmed, Held, Registering
  <2>. QED
    BY <1>0, <1>3, <2>1
    DEF Provisional, Confirmed, CanCallBack, session, Steady, BaseInv, TypeInv, TypeOK
<1>4. CASE Disconnected(t)
  <2>1. PICK o \in Obj :
          /\ Alive(o) /\ inv' = [inv EXCEPT ![o] = "ended"]
          /\ \E c : c.pc = "disconnected" /\ cb' = [cb EXCEPT ![t] = c]
          /\ UNCHANGED <<slot, hungUp, wasConnected>>
    BY <1>4 DEF Disconnected, fields
  <2>2. \A u \in CbThreads : cb'[u] = cb[u] \/ cb'[u].pc = "disconnected"
    BY <2>1 DEF BaseInv, TypeInv, TypeOK
  <2>3. Held' \subseteq Held
    BY <1>0, <2>2 DEF Held, Registering
  <2>. QED BY <1>0, <2>1, <2>3 DEF Steady, Alive, BaseInv, TypeInv, TypeOK
<1>5. CASE DisconnectedPost(t)
  <2>1. \A u \in CbThreads : cb'[u] = cb[u] \/ cb'[u].pc = "idle"
    BY <1>5 DEF DisconnectedPost, BaseInv, TypeInv, TypeOK, IdleCb
  <2>2. Held' \subseteq Held
    BY <1>0, <2>1 DEF Held, Registering
  <2>3. cb[t].o \in Obj /\ inv[cb[t].o] = "ended"
    BY <1>5 DEF DisconnectedPost, BaseInv, TypeInv, CallbackOK, OrderInv, OneCallback
  <2>. QED BY <1>0, <1>5, <2>2, <2>3 DEF DisconnectedPost, Steady, BaseInv, TypeInv, TypeOK
<1>. QED BY <1>1, <1>2, <1>3, <1>4, <1>5 DEF Callback

LEMMA OtherSteady ==
  ASSUME BaseInv, Worker \/ Main \/ Client \/ UNCHANGED vars
  PROVE  Steady /\ cb' = cb /\ UNCHANGED wasConnected
<1>0. cb' = cb
  BY DEF Worker, InviteMake, InviteFail, InviteWire, InvitePut, InviteDone, Accept, Hangup,
         Upgrade, SwitchLookup, SwitchDone, Conference, Main, MainEvent, MainRequest,
         MainHeader, Client, ClientTake, ClientSend, ClientTakeAndSend, vars
<1>1. CASE InviteMake
  <2>1. PICK o \in Obj, id \in Ids :
          /\ inv[o] = "unborn" /\ inv' = [inv EXCEPT ![o] = "calling"]
          /\ slot' = [slot EXCEPT ![o] = id]
          /\ wk' = [wk EXCEPT !.pc = "made", !.o = o]
          /\ UNCHANGED <<hungUp, wasConnected>>
    BY <1>1 DEF InviteMake, Fresh, fields
  <2>2. Held' \subseteq Held \cup Unborn
    BY <1>0, <2>1 DEF Held, Unborn, Registering, BaseInv, TypeInv, TypeOK
  <2>. QED BY <1>0, <2>1, <2>2 DEF Steady, BaseInv, TypeInv, TypeOK
<1>2. CASE Worker /\ ~InviteMake
  <2>1. \/ UNCHANGED inv
        \/ Target \in Obj /\ inv[Target] \in {"incoming", "answered"}
             /\ inv' = [inv EXCEPT ![Target] = "answered"]
    BY <1>2
    DEF Worker, InviteFail, InviteWire, InvitePut, InviteDone, Accept, Hangup, Upgrade,
        SwitchLookup, SwitchDone, Conference, engine, session, Found, Target, BaseInv,
        TypeInv, TypeOK
  <2>2. hungUp \subseteq hungUp' /\ UNCHANGED <<slot, wasConnected>>
    BY <1>2
    DEF Worker, InviteFail, InviteWire, InvitePut, InviteDone, Accept, Hangup, Upgrade,
        SwitchLookup, SwitchDone, Conference, engine, session, fields
  <2>3. \/ wk' = IdleWk
        \/ wk'.m = wk.m /\ (wk.m = "invite" => wk'.o = wk.o)
    BY <1>2
    DEF Worker, InviteFail, InviteWire, InvitePut, InviteDone, Accept, Hangup, Upgrade,
        SwitchLookup, SwitchDone, Conference, Done, BaseInv, TypeInv, TypeOK
  <2>4. Held' \subseteq Held
    BY <1>0, <2>3 DEF Held, Registering, IdleWk
  <2>. QED BY <1>0, <2>1, <2>2, <2>4 DEF Steady, BaseInv, TypeInv, TypeOK
<1>3. CASE Main \/ Client \/ UNCHANGED vars
  <2>1. UNCHANGED <<inv, slot, hungUp, wasConnected>>
    BY <1>3
    DEF Main, MainEvent, MainRequest, MainHeader, Client, ClientTake, ClientSend,
        ClientTakeAndSend, engine, session, fields, vars
  <2>2. wk' = wk \/ wk'.o = NoObj
    BY <1>3
    DEF Main, MainEvent, MainRequest, MainHeader, Client, ClientTake, ClientSend,
        ClientTakeAndSend, IdleWk, vars
  <2>3. Held' \subseteq Held
    BY <1>0, <2>2, Sentinels DEF Held, Registering
  <2>. QED BY <1>0, <2>1, <2>3 DEF Steady
<1>. QED BY <1>1, <1>2, <1>3

LEMMA StepSteady ==
  ASSUME BaseInv, OrderInv, [Next]_vars
  PROVE  Steady
  BY CallbackSteady, OtherSteady DEF Next, System

(* Messages under way keep telling the truth.                              *)
LEMMA MessagesKept ==
  ASSUME BaseInv, OrderInv, ListInv, Steady, NEW m \in UnderWay
  PROVE  MessageOK(m)'
<1>1. MessageOK(m) /\ m \in Msg \cup Rep
  BY QueueTypes DEF BaseInv, ListInv, Sent
<1>2. Life(m) => m.obj \in Obj /\ inv[m.obj] # "unborn"
  BY <1>1, EventObj DEF OrderInv, Past
<1>3. Enters(m) => m.obj \in Obj /\ inv[m.obj] # "unborn"
  <2>. SUFFICES ASSUME Enters(m) PROVE m.obj \in Obj /\ inv[m.obj] # "unborn"
    OBVIOUS
  <2>1. m.obj \in Obj /\ m.obj \in Coming
    BY <1>1 DEF MessageOK, Coming, Entering
  <2>. QED BY <2>1, Birth
<1>4. \A o \in Obj : inv[o] # "unborn" /\ o \notin Held => o \notin Held'
  BY DEF Steady, Unborn
<1>5. Life(m) \/ Enters(m) => m.id = slot'[m.obj] /\ m.obj \notin Held'
  BY <1>1, <1>2, <1>3, <1>4 DEF MessageOK, Steady
<1>6. m.kind = "request" /\ m.name \in OwnMethods =>
        m.obj \in Obj /\ m.id = slot'[m.obj] /\ inv'[m.obj] # "unborn"
  BY <1>1 DEF MessageOK, Steady
<1>7. m.kind = "reply" /\ m.name \in {"reject", "bye"} /\ m.ok =>
        m.obj \in hungUp' \/ inv'[m.obj] = "ended"
  <2>1. m.kind = "reply" /\ m.name \in {"reject", "bye"} => m.obj \in Obj
    BY <1>1 DEF MessageOK, OwnMethods
  <2>. QED BY <1>1, <2>1 DEF MessageOK, Steady
<1>. QED BY <1>1, <1>3, <1>5, <1>6, <1>7 DEF MessageOK, Life, Enters

(* No call that is past comes back, and none that is coming is dropped.    *)
Moves == Coming' \subseteq Coming \cup Unborn /\ Coming \subseteq Coming' \cup ShownObjs'

ListStep == ListSound' /\ Moves

(* What a step of the engine has to show of the queues and of the list.    *)
Kept ==
  /\ QueuesSorted(ListOrder, dartQ, mainQ)'
  /\ \A m \in UnderWay' : m \in UnderWay \/ MessageOK(m)'
  /\ ListStep
(* What the worker and the callbacks know of their call stays true.        *)
LEMMA CallbackIds ==
  ASSUME DartClient, BaseInv, OrderInv, ListInv, NEW t \in CbThreads, Callback(t)
  PROVE  CallbackKnows'
<1>0. /\ wk' = wk /\ Steady /\ NoObj \notin Obj
      /\ \A u \in CbThreads : cb[u].o \in Obj \cup {NoObj}
      /\ \A u \in CbThreads : cb[u].pc # "idle" => cb[u].o \in Obj /\ inv[cb[u].o] # "unborn"
  BY CallbackSteady, Sentinels DEF BaseInv, TypeInv, TypeOK, CallbackOK, OrderInv, OneCallback
<1>1. ASSUME NEW u \in CbThreads, cb'[u] = cb[u]
      PROVE  /\ cb'[u].pc # "idle" => cb'[u].id = slot'[cb'[u].o]
             /\ ~(wk.m = "invite" /\ wk.o \in Obj /\ wk.o = cb'[u].o)
  BY <1>0, <1>1 DEF ListInv, CallbackKnows, Steady
<1>2. CASE IncomingCall(t)
  <2>1. PICK o \in Obj, id \in Ids :
          /\ inv[o] = "unborn"
          /\ slot' = [slot EXCEPT ![o] = id]
          /\ cb' = [cb EXCEPT ![t] = [IdleCb EXCEPT !.pc = "incoming", !.o = o, !.id = id]]
    BY <1>2 DEF IncomingCall, Fresh
  <2>2. \A u \in CbThreads : \/ cb'[u] = cb[u]
                             \/ cb'[u].o = o /\ cb'[u].id = id
    BY <2>1 DEF BaseInv, TypeInv, TypeOK, IdleCb
  <2>3. slot'[o] = id
    BY <2>1 DEF BaseInv, TypeInv, TypeOK
  <2>4. ~Registering(o)
    <3>1. Registering(o) => Alive(o) \/ wk.o = NoObj
      BY DEF BaseInv, TableInv, RegisteringOK, Registering
    <3>. QED BY <1>0, <2>1, <3>1 DEF Alive, Registering
  <2>. QED BY <1>0, <1>1, <2>2, <2>3, <2>4 DEF CallbackKnows, Registering
<1>3. CASE IncomingPost(t) \/ DisconnectedPost(t)
  <2>1. \A u \in CbThreads : \/ cb'[u] = cb[u]
                             \/ cb'[u].o = NoObj /\ cb'[u].pc = "idle"
    BY <1>3 DEF IncomingPost, DisconnectedPost, BaseInv, TypeInv, TypeOK, IdleCb
  <2>. QED BY <1>0, <1>1, <2>1 DEF CallbackKnows
<1>4. CASE Provisional(t) \/ Confirmed(t)
  <2>1. cb' = cb
    BY <1>4 DEF Provisional, Confirmed
  <2>. QED BY <1>0, <1>1, <2>1 DEF CallbackKnows
<1>5. CASE Disconnected(t)
  <2>1. PICK o \in Obj :
          /\ CanCallBack(t, o) /\ Alive(o)
          /\ \E c : c.o = o /\ c.id = wireId[o] /\ cb' = [cb EXCEPT ![t] = c]
          /\ UNCHANGED slot
    BY <1>5 DEF Disconnected
  <2>2. \A u \in CbThreads : \/ cb'[u] = cb[u]
                             \/ cb'[u].o = o /\ cb'[u].id = wireId[o]
    BY <2>1 DEF BaseInv, TypeInv, TypeOK
  <2>3. ~Registering(o)
    BY <2>1 DEF CanCallBack, DartClient, Registering
  <2>4. wireId[o] = slot[o]
    BY <2>1, <2>3, Sentinels DEF BaseInv, TableInv, TableSound, WireIsSlot
  <2>. QED BY <1>0, <1>1, <2>1, <2>2, <2>3, <2>4 DEF CallbackKnows, Registering
<1>. QED BY <1>2, <1>3, <1>4, <1>5 DEF Callback

LEMMA OtherIds ==
  ASSUME DartClient, BaseInv, OrderInv, ListInv, Worker \/ Main \/ Client \/ UNCHANGED vars
  PROVE  CallbackKnows'
<1>0. /\ cb' = cb /\ Steady /\ NoObj \notin Obj
      /\ \A u \in CbThreads : cb[u].o \in Obj \cup {NoObj}
      /\ \A u \in CbThreads : cb[u].pc # "idle" => cb[u].o \in Obj
      /\ \A u \in CbThreads : cb[u].o \in Obj => inv[cb[u].o] # "unborn"
  BY OtherSteady, Sentinels DEF BaseInv, TypeInv, TypeOK, CallbackOK, OrderInv, OneCallback
<1>1. ASSUME \A o \in Busy : Registering(o)' => Registering(o)
      PROVE  CallbackKnows'
  BY <1>0, <1>1 DEF ListInv, CallbackKnows, Steady, Busy, Registering
<1>2. CASE InviteMake
  <2>1. PICK o \in Obj : inv[o] = "unborn" /\ wk' = [wk EXCEPT !.pc = "made", !.o = o]
    BY <1>2 DEF InviteMake, Fresh
  <2>2. o \notin Busy /\ wk'.o = o
    BY <2>1, Birth DEF BaseInv, TypeInv, TypeOK
  <2>. QED BY <1>1, <2>2 DEF Registering
<1>3. CASE Worker /\ ~InviteMake
  <2>1. \/ wk' = IdleWk
        \/ wk'.m = wk.m /\ (wk.m = "invite" => wk'.o = wk.o)
    BY <1>3
    DEF Worker, InviteFail, InviteWire, InvitePut, InviteDone, Accept, Hangup, Upgrade,
        SwitchLookup, SwitchDone, Conference, Done, BaseInv, TypeInv, TypeOK
  <2>. QED BY <1>1, <2>1 DEF Registering, IdleWk
<1>4. CASE Main \/ Client \/ UNCHANGED vars
  <2>1. wk' = wk \/ wk'.o = NoObj
    BY <1>4
    DEF Main, MainEvent, MainRequest, MainHeader, Client, ClientTake, ClientSend,
        ClientTakeAndSend, IdleWk, vars
  <2>. QED BY <1>0, <1>1, <2>1 DEF Registering, Busy
<1>. QED BY <1>2, <1>3, <1>4

LEMMA StepLives ==
  ASSUME BaseInv, OrderInv, ListInv, [Next]_vars
  PROVE  IncomingLives'
<1>0. /\ NoObj \notin Obj
      /\ \A u \in CbThreads : cb[u].o \in Obj \cup {NoObj}
      /\ \A u \in CbThreads : cb[u].pc = "incoming" =>
           cb[u].o \in Obj /\ inv[cb[u].o] \notin {"unborn", "ended"}
  BY Sentinels
  DEF BaseInv, TypeInv, TypeOK, CallbackOK, OrderInv, OneCallback, ListInv, IncomingLives
<1>1. ASSUME cb' = cb, \A o \in Obj : inv'[o] = "ended" => inv[o] = "ended"
      PROVE  IncomingLives'
  BY <1>0, <1>1 DEF IncomingLives
<1>2. ASSUME NEW t \in CbThreads, Callback(t) PROVE IncomingLives'
  <2>1. CASE IncomingCall(t)
    <3>1. PICK o \in Obj, id \in Ids :
            /\ inv[o] = "unborn" /\ inv' = [inv EXCEPT ![o] = "incoming"]
            /\ cb' = [cb EXCEPT ![t] = [IdleCb EXCEPT !.pc = "incoming", !.o = o, !.id = id]]
      BY <2>1 DEF IncomingCall, Fresh
    <3>2. \A u \in CbThreads : cb'[u] = cb[u] \/ cb'[u].o = o
      BY <3>1 DEF BaseInv, TypeInv, TypeOK, IdleCb
    <3>. QED BY <1>0, <3>1, <3>2 DEF IncomingLives, BaseInv, TypeInv, TypeOK
  <2>2. CASE IncomingPost(t) \/ DisconnectedPost(t)
    <3>1. \A u \in CbThreads : cb'[u] = cb[u] \/ cb'[u].pc = "idle"
      BY <2>2 DEF IncomingPost, DisconnectedPost, BaseInv, TypeInv, TypeOK, IdleCb
    <3>. QED
      BY <1>0, <2>2, <3>1 DEF IncomingPost, DisconnectedPost, engine, session, IncomingLives
  <2>3. CASE Provisional(t) \/ Confirmed(t)
    BY <1>1, <2>3 DEF Provisional, Confirmed, session, BaseInv, TypeInv, TypeOK
  <2>4. CASE Disconnected(t)
    <3>1. PICK o \in Obj :
            /\ CanCallBack(t, o) /\ inv' = [inv EXCEPT ![o] = "ended"]
            /\ \E c : c.pc = "disconnected" /\ cb' = [cb EXCEPT ![t] = c]
      BY <2>4 DEF Disconnected
    <3>2. \A u \in CbThreads : cb'[u] = cb[u] \/ cb'[u].pc = "disconnected"
      BY <3>1 DEF BaseInv, TypeInv, TypeOK
    <3>. QED BY <1>0, <3>1, <3>2 DEF CanCallBack, IncomingLives, BaseInv, TypeInv, TypeOK
  <2>. QED BY <1>2, <2>1, <2>2, <2>3, <2>4 DEF Callback
<1>3. CASE Worker \/ Main \/ Client \/ UNCHANGED vars
  <2>1. cb' = cb
    BY <1>3, OtherSteady
  <2>2. CASE Worker \/ Main \/ Client
    <3>1. QuietFields
      BY <2>2, OtherFields DEF BaseInv
    <3>. QED BY <1>1, <2>1, <3>1 DEF QuietFields
  <2>3. CASE UNCHANGED vars
    BY <1>1, <2>3 DEF vars
  <2>. QED BY <1>3, <2>2, <2>3
<1>. QED BY <1>2, <1>3 DEF Next, System

LEMMA StepKnows ==
  ASSUME DartClient, BaseInv, OrderInv, ListInv, [Next]_vars
  PROVE  WorkerKnows' /\ CallbackKnows' /\ IncomingLives' /\ SlotOK'
<1>0. Steady
  BY StepSteady
<1>1. SlotOK'
  BY <1>0 DEF SlotOK, Steady, ListInv
<1>2. CallbackKnows' /\ IncomingLives'
  BY CallbackIds, OtherIds, StepLives DEF Next, System
<1>3. CASE MainRequest
  <2>1. mainQ \in Seq(Sent) /\ dartQ \in Seq(Sent) /\ mainQ # <<>>
    BY <1>3, QueueTypes DEF BaseInv, MainRequest, MainIdle
  <2>2. Head(mainQ) \in UnderWay
    BY <2>1, BothDrop DEF UnderWay
  <2>3. MessageOK(Head(mainQ))
    BY <2>2 DEF ListInv
  <2>4. wk'.m = Head(mainQ).name /\ wk'.id = Head(mainQ).id /\ wk'.obj = Head(mainQ).obj
    BY <1>3 DEF MainRequest, IdleWk
  <2>5. WorkerKnows'
    BY <1>0, <1>3, <2>3, <2>4 DEF MainRequest, MessageOK, WorkerKnows, Steady
  <2>. QED BY <1>1, <1>2, <2>5
<1>4. CASE ~MainRequest
  <2>1. wk' = IdleWk \/ (wk'.m = wk.m /\ wk'.id = wk.id /\ wk'.obj = wk.obj)
    <3>1. CASE Worker
      BY <3>1
      DEF Worker, InviteMake, InviteFail, InviteWire, InvitePut, InviteDone, Accept,
          Hangup, Upgrade, SwitchLookup, SwitchDone, Conference, Done, BaseInv, TypeInv,
          TypeOK
    <3>2. CASE MainEvent \/ MainHeader \/ Client \/ UNCHANGED vars
      BY <3>2
      DEF MainEvent, MainHeader, Client, ClientTake, ClientSend, ClientTakeAndSend, vars
    <3>3. CASE \E t \in CbThreads : Callback(t)
      BY <3>3, CallbackSteady
    <3>. QED BY <1>4, <3>1, <3>2, <3>3 DEF Next, System, Main
  <2>2. WorkerKnows'
    BY <1>0, <2>1 DEF ListInv, WorkerKnows, Steady, IdleWk, OwnMethods
  <2>. QED BY <1>1, <1>2, <2>2
<1>. QED BY <1>3, <1>4

(* The steps of a PJSIP thread, for the list.                              *)
LEMMA CallbackList ==
  ASSUME DartClient, BaseInv, OrderInv, ListInv, UNCHANGED model,
         NEW t \in CbThreads, Callback(t)
  PROVE  Kept
<1>0. /\ dartQ' = dartQ /\ wk' = wk /\ ShownObjs' = ShownObjs /\ NoObj \notin Obj
      /\ TypeInv /\ ListSound /\ QueuesSorted(ListOrder, dartQ, mainQ)
      /\ \A m \in UnderWay : m \in Sent
  <2>1. dartQ' = dartQ /\ wk' = wk /\ ShownObjs' = ShownObjs
    <3>1. dartQ' = dartQ /\ wk' = wk
      BY DEF Callback, IncomingCall, IncomingPost, Provisional, Confirmed, Disconnected,
             DisconnectedPost
    <3>2. items' = items
      BY DEF model
    <3>. QED BY <3>1, <3>2 DEF ShownObjs
  <2>2. TypeInv /\ ListSound /\ QueuesSorted(ListOrder, dartQ, mainQ)
    BY DEF BaseInv, ListInv
  <2>. QED BY <2>1, <2>2, Sentinels, QueueTypes
<1>1. ASSUME mainQ' = mainQ, ListStep PROVE Kept
  BY <1>0, <1>1 DEF Kept, UnderWay
<1>2. ASSUME NEW e \in Msg, Post(e), \A m \in UnderWay : <<m, e>> \in ListOrder,
             MessageOK(e)', UnderWay' = UnderWay \cup {e} => ListStep
      PROVE  Kept
  <2>1. QueuesSorted(ListOrder, dartQ, mainQ)' /\ UnderWay' = UnderWay \cup {e}
    BY <1>0, <1>2, Posted DEF Sent
  <2>. QED BY <1>2, <2>1 DEF Kept
<1>3. /\ \A u \in CbThreads : cb[u].o \in Obj \cup {NoObj}
      /\ \A u \in CbThreads : cb[u].pc = "idle" => cb[u].o = NoObj
      /\ \A u \in CbThreads : cb[u].pc # "idle" => cb[u].o \in Obj /\ inv[cb[u].o] # "unborn"
      /\ \A u, w \in CbThreads : u # w /\ cb[u].o = cb[w].o => cb[u].o = NoObj
  BY <1>0 DEF TypeInv, TypeOK, CallbackOK, OrderInv, OneCallback
<1>4. CASE IncomingCall(t)
  <2>1. PICK o \in Obj, id \in Ids :
          /\ inv[o] = "unborn" /\ inv' = [inv EXCEPT ![o] = "incoming"]
          /\ cb[t].pc = "idle"
          /\ cb' = [cb EXCEPT ![t] = [IdleCb EXCEPT !.pc = "incoming", !.o = o, !.id = id]]
          /\ mainQ' = mainQ
    BY <1>4 DEF IncomingCall, Fresh
  <2>2. \A u \in CbThreads : \/ u # t /\ cb'[u] = cb[u]
                             \/ u = t /\ cb'[u].o = o /\ cb'[u].pc = "incoming"
    BY <1>0, <2>1 DEF TypeInv, TypeOK, IdleCb
  <2>3. o \in Unborn /\ Unborn' = Unborn \ {o} /\ Ended' = Ended
    BY <1>0, <2>1 DEF Unborn, Ended, TypeInv, TypeOK
  <2>4. Busy' = Busy \cup {o}
    BY <1>0, <1>3, <2>1, <2>2 DEF Busy
  <2>5. Held' = Held \cup {o}
    BY <1>0, <1>3, <2>1, <2>2 DEF Held, Registering
  <2>6. /\ o \notin Pending /\ o \notin Coming /\ o \notin ShownObjs
        /\ o \notin Asked(UnderWay)
    BY <2>1, Birth
  <2>7. UnderWay' = UnderWay
    BY <1>0, <2>1 DEF UnderWay
  <2>8. ListStep
    BY <1>0, <2>3, <2>4, <2>5, <2>6, <2>7 DEF ListStep, Moves, ListSound, Pending, Coming
  <2>. QED BY <1>1, <2>1, <2>8
<1>5. CASE IncomingPost(t)
  <2>1. PICK o \in Obj, id \in WireIds : cb[t].o = o /\ cb[t].id = id
    BY <1>0, <1>3, <1>5 DEF IncomingPost, TypeInv, TypeOK, WireIds
  <2>2. PICK e \in Msg : e = Event("incoming", id, o)
    BY EventType DEF EventNames
  <2>3. /\ e.kind = "event" /\ e.name = "incoming" /\ e.obj = o /\ e.id = id
    BY <2>2 DEF Event
  <2>4. Enters(e) /\ ~Leaves(e) /\ ~Asks(e) /\ ~Accepted(e) /\ Life(e)
    BY <2>3 DEF Enters, Leaves, Asks, Accepted, Life
  <2>5. \A u \in CbThreads : \/ u # t /\ cb'[u] = cb[u]
                             \/ u = t /\ cb'[u].o = NoObj /\ cb'[u].pc = "idle"
    BY <1>0, <1>5 DEF IncomingPost, TypeInv, TypeOK, IdleCb
  <2>6. o \in Held /\ o \notin Held' /\ Held' = Held \ {o}
    <3>1. \A u \in CbThreads : u # t => cb[u].o # o
      BY <1>0, <1>3, <2>1
    <3>2. ~Registering(o)
      BY <2>1 DEF ListInv, CallbackKnows, Registering
    <3>3. o \in Held
      BY <1>5, <2>1 DEF IncomingPost, Held
    <3>4. Held' = Held \ {o}
      BY <1>0, <2>1, <2>5, <3>1, <3>2 DEF Held, Registering
    <3>. QED BY <3>3, <3>4
  <2>7. ASSUME NEW m \in UnderWay PROVE <<m, e>> \in ListOrder
    <3>1. m.obj = o => ~Life(m) /\ ~Enters(m)
      BY <2>6 DEF ListInv, MessageOK
    <3>. QED BY <1>0, <2>3, <2>4, <3>1 DEF ListOrder, ListedFirst, Sent
  <2>8. /\ Unborn' = Unborn /\ Ended' = Ended /\ Post(e)
        /\ slot' = slot /\ inv' = inv
    BY <1>5, <2>1, <2>2 DEF IncomingPost, engine, session, Unborn, Ended
  <2>9. Busy' = Busy \ {o} /\ o \notin Unborn /\ o \notin Ended
    <3>1. Busy' = Busy \ {o}
      BY <1>0, <1>3, <2>1, <2>5 DEF Busy
    <3>2. o \in Pending /\ inv[o] # "unborn"
      BY <1>0, <1>3, <1>5, <2>1, <2>6 DEF ListSound, Coming, IncomingPost
    <3>3. inv[o] # "ended"
      BY <1>5, <2>1 DEF IncomingPost, ListInv, IncomingLives
    <3>. QED BY <3>1, <3>2, <3>3 DEF Unborn, Ended
  <2>10. MessageOK(e)'
    <3>1. id = slot[o]
      BY <1>5, <2>1 DEF IncomingPost, ListInv, CallbackKnows
    <3>. QED BY <2>3, <2>4, <2>6, <2>8, <3>1 DEF MessageOK
  <2>11. ASSUME UnderWay' = UnderWay \cup {e} PROVE ListStep
    <3>1. /\ Entering(UnderWay') = Entering(UnderWay) \cup {o}
          /\ Leaving(UnderWay') = Leaving(UnderWay) /\ Asked(UnderWay') = Asked(UnderWay)
      BY <2>3, <2>4, <2>11 DEF Entering, Leaving, Asked
    <3>. QED
      BY <1>0, <2>6, <2>8, <2>9, <3>1 DEF ListStep, Moves, ListSound, Pending, Coming
  <2>. QED BY <1>2, <2>7, <2>8, <2>10, <2>11
<1>6. ASSUME NEW e \in Msg, Post(e), e.kind = "event", e.name \in {"proceeding", "connected"},
             e.obj \in Obj, e.id = slot'[e.obj], e.obj \notin Held',
             Held' = Held, Busy' = Busy, Unborn' = Unborn, Ended' = Ended
      PROVE  Kept
  <2>1. Plain(e) /\ ~Enters(e) /\ ~Accepted(e)
    BY <1>6 DEF Plain, Enters, Leaves, Asks, Accepted
  <2>2. \A m \in UnderWay : <<m, e>> \in ListOrder
    BY <1>0, <2>1, PlainOrder DEF Sent
  <2>3. MessageOK(e)'
    BY <1>6, <2>1 DEF MessageOK, Plain
  <2>4. ASSUME UnderWay' = UnderWay \cup {e} PROVE ListStep
    <3>1. /\ Entering(UnderWay') = Entering(UnderWay)
          /\ Leaving(UnderWay') = Leaving(UnderWay) /\ Asked(UnderWay') = Asked(UnderWay)
      BY <2>1, <2>4, SetsPlain
    <3>. QED BY <1>0, <1>6, <3>1 DEF ListStep, Moves, ListSound, Pending, Coming
  <2>. QED BY <1>2, <1>6, <2>2, <2>3, <2>4
<1>7. ASSUME NEW o \in Obj, CanCallBack(t, o), Alive(o)
      PROVE  wireId[o] = slot[o] /\ wireId[o] \in Ids /\ o \notin Held
  <2>1. ~Registering(o)
    BY <1>7 DEF CanCallBack, DartClient, Registering
  <2>2. wireId[o] \in Ids /\ wireId[o] = slot[o]
    BY <1>7, <2>1, Sentinels DEF BaseInv, TableInv, TableSound, WireIsSlot
  <2>. QED BY <1>7, <2>1, <2>2 DEF CanCallBack, Held
<1>8. CASE Provisional(t)
  <2>1. PICK o \in Obj :
          /\ CanCallBack(t, o) /\ Alive(o) /\ Post(Event("proceeding", wireId[o], o))
          /\ UNCHANGED <<inv, slot, cb>>
    BY <1>8 DEF Provisional, Alive, session
  <2>2. PICK e \in Msg : e = Event("proceeding", wireId[o], o)
    BY <1>7, <2>1, EventType DEF EventNames, WireIds
  <2>3. e.kind = "event" /\ e.name = "proceeding" /\ e.obj = o /\ e.id = wireId[o]
    BY <2>2 DEF Event
  <2>4. Held' = Held /\ Busy' = Busy /\ Unborn' = Unborn /\ Ended' = Ended
    BY <1>0, <2>1 DEF Held, Busy, Unborn, Ended, Registering
  <2>. QED BY <1>6, <1>7, <2>1, <2>2, <2>3, <2>4
<1>9. CASE Confirmed(t)
  <2>1. PICK o \in Obj :
          /\ CanCallBack(t, o) /\ Alive(o)
          /\ IF wasConnected[o] THEN mainQ' = mainQ
             ELSE Post(Event("connected", wireId[o], o))
          /\ inv' = [inv EXCEPT ![o] = "confirmed"]
          /\ UNCHANGED <<slot, cb>>
    BY <1>9 DEF Confirmed, Alive
  <2>2. PICK e \in Msg : e = Event("connected", wireId[o], o)
    BY <1>7, <2>1, EventType DEF EventNames, WireIds
  <2>3. e.kind = "event" /\ e.name = "connected" /\ e.obj = o /\ e.id = wireId[o]
    BY <2>2 DEF Event
  <2>4. Held' = Held /\ Busy' = Busy /\ Unborn' = Unborn /\ Ended' = Ended
    BY <1>0, <2>1 DEF Held, Busy, Unborn, Ended, Registering, Alive, TypeInv, TypeOK
  <2>5. CASE wasConnected[o]
    <3>1. UnderWay' = UnderWay
      BY <1>0, <2>1, <2>5 DEF UnderWay
    <3>2. ListStep
      BY <1>0, <2>4, <3>1 DEF ListStep, Moves, ListSound, Pending, Coming
    <3>. QED BY <1>1, <2>1, <2>5, <3>2
  <2>6. CASE ~wasConnected[o]
    BY <1>6, <1>7, <2>1, <2>2, <2>3, <2>4, <2>6
  <2>. QED BY <2>5, <2>6
<1>10. CASE Disconnected(t)
  <2>1. PICK o \in Obj :
          /\ CanCallBack(t, o) /\ Alive(o)
          /\ inv' = [inv EXCEPT ![o] = "ended"]
          /\ \E c : c.pc = "disconnected" /\ c.o = o /\ cb' = [cb EXCEPT ![t] = c]
          /\ mainQ' = mainQ
    BY <1>10 DEF Disconnected
  <2>2. \A u \in CbThreads : \/ u # t /\ cb'[u] = cb[u]
                             \/ u = t /\ cb'[u].o = o /\ cb'[u].pc = "disconnected"
    BY <1>0, <2>1 DEF TypeInv, TypeOK
  <2>3. Unborn' = Unborn /\ Ended' = Ended \cup {o} /\ o \notin Unborn \cup Ended
    BY <1>0, <2>1 DEF Unborn, Ended, Alive, TypeInv, TypeOK
  <2>4. Busy' = Busy \cup {o}
    BY <1>0, <1>3, <2>1, <2>2 DEF Busy, CanCallBack
  <2>5. Held' = Held
    BY <1>0, <1>3, <2>1, <2>2 DEF Held, Registering, CanCallBack
  <2>6. UnderWay' = UnderWay
    BY <1>0, <2>1 DEF UnderWay
  <2>7. ListStep
    BY <1>0, <2>3, <2>4, <2>5, <2>6 DEF ListStep, Moves, ListSound, Pending, Coming
  <2>. QED BY <1>1, <2>1, <2>7
<1>11. CASE DisconnectedPost(t)
  <2>1. PICK o \in Obj, id \in Ids \cup {NoWire}, next \in Ids \cup {NoWire} :
          cb[t].o = o /\ cb[t].id = id /\ cb[t].next = next
    BY <1>0, <1>3, <1>11 DEF DisconnectedPost, TypeInv, TypeOK
  <2>2. /\ inv[o] = "ended" /\ UNCHANGED <<inv, slot>> /\ id = slot[o]
        /\ cb[t].pc = "disconnected"
    BY <1>11, <2>1 DEF DisconnectedPost, OrderInv, OneCallback, ListInv, CallbackKnows
  <2>3. PICK w \in Msg, e \in Msg :
          w = Event("switched", next, o) /\ e = Event("terminated", id, o)
    BY EventType DEF EventNames, WireIds
  <2>4. /\ w.kind = "event" /\ w.name = "switched"
        /\ e.kind = "event" /\ e.name = "terminated" /\ e.obj = o /\ e.id = id
    BY <2>3 DEF Event
  <2>5. /\ Plain(w) /\ ~Enters(w) /\ ~Accepted(w) /\ ~Life(w)
        /\ Leaves(e) /\ ~Enters(e) /\ ~Accepted(e) /\ ~Asks(e)
    BY <2>4 DEF Plain, Enters, Leaves, Asks, Accepted, Life
  <2>6. \A u \in CbThreads : \/ u # t /\ cb'[u] = cb[u]
                             \/ u = t /\ cb'[u].o = NoObj /\ cb'[u].pc = "idle"
    BY <1>0, <1>11 DEF DisconnectedPost, TypeInv, TypeOK, IdleCb
  <2>7. Busy' = Busy \ {o} /\ o \in Busy
    BY <1>0, <1>3, <2>1, <2>6 DEF Busy
  <2>8. Held' = Held /\ o \notin Held
    <3>1. \A u \in CbThreads : cb[u].o = o => u = t
      BY <1>0, <1>3, <2>1
    <3>2. ~Registering(o)
      BY <2>1 DEF ListInv, CallbackKnows, Registering
    <3>3. o \notin Held
      BY <2>2, <3>1, <3>2 DEF Held
    <3>4. Held' = Held
      BY <1>0, <2>1, <2>2, <2>6 DEF Held, Registering
    <3>. QED BY <3>3, <3>4
  <2>9. Unborn' = Unborn /\ Ended' = Ended
    BY <2>2 DEF Unborn, Ended
  <2>10. MessageOK(e)' /\ MessageOK(w)'
    BY <2>2, <2>4, <2>5, <2>8 DEF MessageOK, Plain
  <2>11. ASSUME UnderWay' = UnderWay \cup {e} \/ UnderWay' = UnderWay \cup {w} \cup {e}
         PROVE  ListStep
    <3>1. /\ Entering(UnderWay') = Entering(UnderWay)
          /\ Leaving(UnderWay') = Leaving(UnderWay) \cup {o}
          /\ Asked(UnderWay') = Asked(UnderWay)
      BY <2>4, <2>5, <2>11 DEF Entering, Leaving, Asked, Plain
    <3>. QED BY <1>0, <2>7, <2>8, <2>9, <3>1 DEF ListStep, Moves, ListSound, Pending, Coming
  <2>12. /\ w \in Sent /\ e \in Sent /\ <<w, e>> \in ListOrder
         /\ \A m \in UnderWay : <<m, w>> \in ListOrder /\ <<m, e>> \in ListOrder
    BY <1>0, <2>5, PlainOrder DEF Sent
  <2>13. CASE cb[t].focus /\ next # NoWire
    <3>1. mainQ \in Seq(Msg) /\ mainQ' = mainQ \o <<w>> \o <<e>>
      BY <1>0, <1>11, <2>1, <2>3, <2>13 DEF DisconnectedPost, TypeInv, TypeOK
    <3>2. QueuesSorted(ListOrder, dartQ, mainQ)' /\ UnderWay' = UnderWay \cup {w, e}
      BY <1>0, <3>1, <2>12, PostedTwo
    <3>3. UnderWay' = UnderWay \cup {w} \cup {e}
      BY <3>2
    <3>. QED BY <2>10, <2>11, <3>2, <3>3 DEF Kept
  <2>14. CASE ~(cb[t].focus /\ next # NoWire)
    <3>1. mainQ \in Seq(Msg) /\ mainQ' = mainQ \o <<>> \o <<e>>
      BY <1>0, <1>11, <2>1, <2>3, <2>14 DEF DisconnectedPost, TypeInv, TypeOK
    <3>2. Post(e)
      BY <3>1 DEF Post
    <3>. QED BY <1>2, <2>10, <2>11, <2>12, <3>2
  <2>. QED BY <2>13, <2>14
<1>. QED BY <1>4, <1>5, <1>8, <1>9, <1>10, <1>11 DEF Callback


(* A method that found a call has found the one it was asked for: the map  *)
(* of the engine and that of Dart mean the same by an id.                  *)
LEMMA FoundOwn ==
  ASSUME BaseInv, ListInv, LateReuse, Found, wk.m \in OwnMethods
  PROVE  Target = wk.obj /\ wk.obj \in Obj
<1>1. wk.obj \in Obj /\ wk.id = slot[wk.obj]
  BY DEF ListInv, WorkerKnows
<1>2. wk.id \in Ids /\ Target \in Obj /\ Alive(Target) /\ wireId[Target] = wk.id
  BY DEF Found, Target, Registered, BaseInv, TypeInv, TypeOK, TableInv, TableSound
<1>3. slot[Target] = slot[wk.obj] /\ slot[Target] # NoWire
  BY <1>1, <1>2, Sentinels DEF BaseInv, TableInv, WireIsSlot
<1>. QED BY <1>1, <1>2, <1>3 DEF LateReuse, Gone, Alive

(* The steps of the worker, for the list.                                  *)
LEMMA WorkerList ==
  ASSUME DartClient, BaseInv, OrderInv, ListInv, LateReuse, UNCHANGED model, Worker
  PROVE  Kept
<1>0. /\ Busy' = Busy /\ ShownObjs' = ShownObjs /\ NoObj \notin Obj
      /\ TypeInv /\ ListSound /\ QueuesSorted(ListOrder, dartQ, mainQ)
      /\ \A m \in UnderWay : m \in Sent
      /\ cb' = cb
  <2>1. cb' = cb
    BY OtherSteady
  <2>2. items' = items
    BY DEF model
  <2>3. Busy' = Busy /\ ShownObjs' = ShownObjs
    BY <2>1, <2>2 DEF Busy, ShownObjs
  <2>4. TypeInv /\ ListSound /\ QueuesSorted(ListOrder, dartQ, mainQ)
    BY DEF BaseInv, ListInv
  <2>. QED BY <2>1, <2>3, <2>4, Sentinels, QueueTypes
<1>1. /\ wk.id \in WireIds /\ NoId \in WireIds /\ wk.m \in AllMethods \ {"header"}
      /\ wk.obj \in Who \cup {NoObj} /\ wk.o \in Who \cup {NoObj}
  BY <1>0
  DEF TypeInv, TypeOK, WireIds, Who, Worker, InviteMake, InviteFail, InviteWire,
      InvitePut, InviteDone, Accept, Hangup, Upgrade, SwitchLookup, SwitchDone,
      Conference, AllMethods
<1>2. ASSUME UNCHANGED <<mainQ, dartQ>>, Held' = Held, Unborn' = Unborn, Ended' = Ended
      PROVE  Kept
  <2>1. UnderWay' = UnderWay
    BY <1>2 DEF UnderWay
  <2>2. ListStep
    BY <1>0, <1>2, <2>1 DEF ListStep, Moves, ListSound, Pending, Coming
  <2>. QED BY <1>0, <1>2, <2>1, <2>2 DEF Kept
<1>3. ASSUME Held' = Held, Unborn' = Unborn, Ended' = Ended,
             NEW r, Plain(r), UnderWay' = UnderWay \cup {r}
      PROVE  ListStep
  <2>1. /\ Entering(UnderWay') = Entering(UnderWay)
        /\ Leaving(UnderWay') = Leaving(UnderWay) /\ Asked(UnderWay') = Asked(UnderWay)
    BY <1>3, SetsPlain
  <2>. QED BY <1>0, <1>3, <2>1 DEF ListStep, Moves, ListSound, Pending, Coming
<1>4. ASSUME NEW a \in Sent, NEW b \in Sent, a.kind = "reply", ~Enters(b) \/ ~Enters(a)
      PROVE  <<a, b>> \in ListOrder
  BY <1>4 DEF ListOrder, ListedFirst, Life
<1>5. ASSUME NEW id \in WireIds, NEW ok \in BOOLEAN, Done(id, ok), mainQ' = mainQ,
             wk.m = "invite" => ~ok /\ wk.o = NoObj,
             wk.m = "accept" /\ ok => \A m \in UnderWay :
                ~(m.kind = "event" /\ m.name = "connected" /\ m.obj = wk.obj),
             wk.m \in {"reject", "bye"} /\ ok =>
                wk.obj \in hungUp' \/ inv'[wk.obj] = "ended",
             Unborn' = Unborn, Ended' = Ended
      PROVE  Kept
  <2>1. PICK o \in Who \cup {NoObj} : o = IF wk.m = "invite" THEN wk.o ELSE wk.obj
    BY <1>1
  <2>2. PICK r \in Rep : r = Reply(wk.m, id, o, ok)
    BY <1>1, ReplyType
  <2>3. /\ r.kind = "reply" /\ r.name = wk.m /\ r.obj = o /\ r.ok = ok
        /\ dartQ' = Append(dartQ, r) /\ wk' = IdleWk /\ r \in Sent
    BY <1>5, <2>1, <2>2 DEF Reply, Done, Sent
  <2>4. Plain(r) /\ ~Enters(r) /\ ~Life(r)
    BY <1>1, <1>5, <2>3 DEF Plain, Enters, Leaves, Asks, Life
  <2>5. ASSUME NEW m \in UnderWay PROVE <<m, r>> \in ListOrder /\ <<r, m>> \in ListOrder
    <3>1. <<r, m>> \in ListOrder
      BY <1>0, <1>4, <2>3, <2>4
    <3>2. Accepted(r) /\ m.obj = r.obj => ~(m.kind = "event" /\ m.name = "connected")
      BY <1>5, <2>1, <2>3 DEF Accepted
    <3>3. <<m, r>> \in ListOrder
      BY <1>0, <2>3, <2>4, <3>2 DEF ListOrder, ListedFirst
    <3>. QED BY <3>1, <3>3
  <2>6. QueuesSorted(ListOrder, dartQ, mainQ)' /\ UnderWay' = UnderWay \cup {r}
    BY <1>0, <1>5, <2>3, <2>5, Replied
  <2>7. MessageOK(r)'
    <3>1. wk.m \in OwnMethods => wk.obj \in Obj /\ o = wk.obj
      BY <2>1 DEF ListInv, WorkerKnows, OwnMethods
    <3>2. wk.m \in {"reject", "bye"} => o = wk.obj
      BY <2>1
    <3>. QED BY <1>1, <1>5, <2>3, <2>4, <3>1, <3>2 DEF MessageOK, Plain
  <2>8. Held' = Held
    <3>1. \A p \in Obj : ~Registering(p) /\ ~Registering(p)'
      BY <1>0, <1>5, <2>3 DEF Registering, IdleWk
    <3>. QED BY <1>0, <3>1 DEF Held
  <2>9. ListStep
    BY <1>3, <1>5, <2>4, <2>6, <2>8
  <2>. QED BY <2>6, <2>7, <2>9 DEF Kept
<1>6. CASE InviteMake
  <2>1. PICK o \in Obj :
          /\ inv[o] = "unborn" /\ inv' = [inv EXCEPT ![o] = "calling"]
          /\ wk' = [wk EXCEPT !.pc = "made", !.o = o]
          /\ wk.m = "invite" /\ wk.pc = "start"
          /\ UNCHANGED <<mainQ, dartQ>>
    BY <1>6 DEF InviteMake, Fresh
  <2>2. o \in Unborn /\ Unborn' = Unborn \ {o} /\ Ended' = Ended
    BY <1>0, <2>1 DEF Unborn, Ended, TypeInv, TypeOK
  <2>3. wk.o = NoObj /\ wk'.o = o /\ wk'.m = "invite"
    BY <1>0, <2>1 DEF BaseInv, TableInv, RegisteringOK, TypeInv, TypeOK
  <2>4. Held' = Held \cup {o}
    BY <1>0, <2>1, <2>3 DEF Held, Registering
  <2>5. /\ o \notin Pending /\ o \notin Coming /\ o \notin ShownObjs
        /\ o \notin Asked(UnderWay)
    BY <2>1, Birth
  <2>6. UnderWay' = UnderWay
    BY <2>1 DEF UnderWay
  <2>7. o \notin Ended
    BY <2>1 DEF Ended
  <2>8. ListStep
    BY <1>0, <2>2, <2>4, <2>5, <2>6, <2>7 DEF ListStep, Moves, ListSound, Pending, Coming
  <2>. QED BY <1>0, <2>1, <2>6, <2>8 DEF Kept
<1>7. CASE InviteFail
  <2>1. wk.o = NoObj
    BY <1>7 DEF InviteFail, BaseInv, TableInv, RegisteringOK
  <2>2. Unborn' = Unborn /\ Ended' = Ended
    BY <1>7 DEF InviteFail, engine, session, Unborn, Ended
  <2>. QED BY <1>1, <1>5, <1>7, <2>1, <2>2 DEF InviteFail
<1>8. CASE InviteWire \/ InvitePut
  <2>1. /\ UNCHANGED <<mainQ, dartQ, inv>> /\ wk.m = wk'.m /\ wk.o = wk'.o
    BY <1>0, <1>8
    DEF InviteWire, InvitePut, session, BaseInv, TableInv, RegisteringOK, Alive,
        TypeInv, TypeOK
  <2>2. Held' = Held /\ Unborn' = Unborn /\ Ended' = Ended
    BY <1>0, <2>1 DEF Held, Registering, Unborn, Ended
  <2>. QED BY <1>2, <2>1, <2>2
<1>9. CASE InviteDone
  <2>1. PICK o \in Obj, id \in Ids :
          /\ wk.o = o /\ wireId[o] = id /\ slot[o] = id /\ Registering(o)
          /\ wk.m = "invite"
    BY <1>9
    DEF InviteDone, BaseInv, TableInv, RegisteringOK, SlotsUnique, Registering
  <2>2. PICK e \in Msg, r \in Rep :
          /\ e = Event("switched", id, o) /\ r = Reply("invite", id, o, TRUE)
    BY EventType, ReplyType DEF EventNames, WireIds, AllMethods, Who
  <2>3. /\ e.kind = "event" /\ e.name = "switched"
        /\ r.kind = "reply" /\ r.name = "invite" /\ r.ok /\ r.obj = o /\ r.id = id
        /\ e \in Sent /\ r \in Sent
    BY <2>2 DEF Event, Reply, Sent
  <2>4. /\ Plain(e) /\ ~Enters(e) /\ ~Accepted(e) /\ ~Life(e)
        /\ Enters(r) /\ ~Leaves(r) /\ ~Asks(r) /\ ~Accepted(r) /\ ~Life(r)
    BY <2>3 DEF Plain, Enters, Leaves, Asks, Accepted, Life
  <2>5. Post(e) /\ dartQ' = Append(dartQ, r) /\ wk' = IdleWk /\ UNCHANGED <<inv, slot>>
    BY <1>9, <2>1, <2>2 DEF InviteDone, Done, session
  <2>6. o \in Held
    BY <2>1 DEF Held
  <2>7. ASSUME NEW m \in UnderWay
        PROVE  <<m, r>> \in ListOrder /\ <<r, m>> \in ListOrder /\ <<m, e>> \in ListOrder
    <3>1. m.obj = o => ~Life(m) /\ ~Enters(m)
      BY <2>6 DEF ListInv, MessageOK
    <3>2. <<m, r>> \in ListOrder
      BY <1>0, <2>3, <2>4, <3>1 DEF ListOrder, ListedFirst
    <3>3. <<r, m>> \in ListOrder
      BY <1>0, <2>3, <2>4, <3>1 DEF ListOrder, ListedFirst
    <3>4. <<m, e>> \in ListOrder
      BY <1>0, <2>3, <2>4, PlainOrder
    <3>. QED BY <3>2, <3>3, <3>4
  <2>8. <<r, e>> \in ListOrder
    BY <2>3, <2>4, PlainOrder
  <2>9. QueuesSorted(ListOrder, dartQ, mainQ)' /\ UnderWay' = UnderWay \cup {e, r}
    BY <1>0, <2>3, <2>5, <2>7, <2>8, PostedReplied
  <2>10. Held' = Held \ {o} /\ Unborn' = Unborn /\ Ended' = Ended
    <3>1. \A u \in CbThreads : cb[u].o # o
      BY <2>1 DEF ListInv, CallbackKnows
    <3>2. \A p \in Obj : (Registering(p) <=> p = o) /\ ~Registering(p)'
      BY <2>1, <2>5 DEF Registering, IdleWk
    <3>3. Held' = Held \ {o}
      BY <1>0, <3>1, <3>2 DEF Held
    <3>. QED BY <2>5, <3>3 DEF Unborn, Ended
  <2>11. MessageOK(r)' /\ MessageOK(e)'
    <3>1. "invite" \notin OwnMethods
      BY DEF OwnMethods
    <3>2. slot'[o] = id /\ o \notin Held'
      BY <2>1, <2>5, <2>10
    <3>3. MessageOK(r)'
      BY <2>3, <2>4, <3>1, <3>2 DEF MessageOK
    <3>4. MessageOK(e)'
      BY <2>3, <2>4 DEF MessageOK, Plain
    <3>. QED BY <3>3, <3>4
  <2>12. /\ Entering(UnderWay') = Entering(UnderWay) \cup {o}
         /\ Leaving(UnderWay') = Leaving(UnderWay) /\ Asked(UnderWay') = Asked(UnderWay)
    BY <2>3, <2>4, <2>9 DEF Entering, Leaving, Asked, Plain
  <2>13. ListStep
    BY <1>0, <2>6, <2>10, <2>12 DEF ListStep, Moves, ListSound, Pending, Coming
  <2>. QED BY <2>9, <2>11, <2>13 DEF Kept
<1>10. CASE Accept
  <2>1. CASE /\ Found /\ inv[Target] \in {"incoming", "answered"}
             /\ inv' = [inv EXCEPT ![Target] = "answered"]
             /\ Done(wk.id, TRUE)
    <3>1. Target = wk.obj /\ wk.obj \in Obj
      BY <1>10, <2>1, FoundOwn DEF Accept, OwnMethods
    <3>2. inv[wk.obj] \in {"incoming", "answered"} /\ inv' = [inv EXCEPT ![wk.obj] = "answered"]
      BY <2>1, <3>1
    <3>3. Unborn' = Unborn /\ Ended' = Ended
      BY <1>0, <3>1, <3>2 DEF Unborn, Ended, TypeInv, TypeOK
    <3>4. \A m \in UnderWay :
            ~(m.kind = "event" /\ m.name = "connected" /\ m.obj = wk.obj)
      BY <3>1, <3>2 DEF OrderInv, Past, ConnectedOK, Life
    <3>. QED BY <1>1, <1>5, <1>10, <2>1, <3>3, <3>4 DEF Accept
  <2>2. CASE Done(wk.id, FALSE) /\ UNCHANGED inv
    <3>1. Unborn' = Unborn /\ Ended' = Ended
      BY <2>2 DEF Unborn, Ended
    <3>. QED BY <1>1, <1>5, <1>10, <2>2, <3>1 DEF Accept
  <2>. QED BY <1>10, <2>1, <2>2 DEF Accept
<1>11. CASE Hangup
  <2>1. Unborn' = Unborn /\ Ended' = Ended
    BY <1>11 DEF Hangup, Unborn, Ended
  <2>2. CASE Found /\ hungUp' = hungUp \cup {Target} /\ Done(wk.id, TRUE)
    <3>1. Target = wk.obj
      BY <1>11, <2>2, FoundOwn DEF Hangup, OwnMethods
    <3>2. wk.obj \in hungUp'
      BY <2>2, <3>1
    <3>. QED BY <1>1, <1>5, <1>11, <2>1, <2>2, <3>2 DEF Hangup
  <2>3. CASE Done(wk.id, FALSE)
    BY <1>1, <1>5, <1>11, <2>1, <2>3 DEF Hangup
  <2>. QED BY <1>11, <2>2, <2>3 DEF Hangup
<1>12. CASE Upgrade \/ Conference
  <2>1. Unborn' = Unborn /\ Ended' = Ended /\ mainQ' = mainQ
    BY <1>12 DEF Upgrade, Conference, session, Unborn, Ended
  <2>2. \E ok \in BOOLEAN : Done(wk.id, ok)
    BY <1>12 DEF Upgrade, Conference
  <2>3. wk.m \notin {"invite", "accept", "reject", "bye"}
    BY <1>12 DEF Upgrade, Conference
  <2>. QED BY <1>1, <1>5, <2>1, <2>2, <2>3
<1>13. CASE SwitchLookup
  <2>1. Unborn' = Unborn /\ Ended' = Ended /\ mainQ' = mainQ /\ wk.m = "switch"
    BY <1>13 DEF SwitchLookup, engine, session, Unborn, Ended
  <2>2. CASE Done(wk.id, FALSE)
    BY <1>1, <1>5, <2>1, <2>2
  <2>3. CASE wk' = [wk EXCEPT !.pc = "mix", !.o = Target] /\ dartQ' = dartQ
    <3>1. wk'.m = "switch"
      BY <1>0, <2>1, <2>3 DEF TypeInv, TypeOK
    <3>2. Held' = Held
      BY <1>0, <2>1, <3>1 DEF Held, Registering
    <3>. QED BY <1>2, <2>1, <2>3, <3>2
  <2>. QED BY <1>13, <2>2, <2>3 DEF SwitchLookup
<1>14. CASE SwitchDone
  <2>1. PICK o \in Obj, id \in Ids : wk.o = o /\ wk.id = id
    BY <1>0, <1>14 DEF SwitchDone, TypeInv, WorkerOK
  <2>2. PICK e \in Msg, r \in Rep :
          /\ e = Event("switched", id, o) /\ r = Reply("switch", id, wk.obj, TRUE)
    BY <1>1, EventType, ReplyType DEF EventNames, WireIds, AllMethods
  <2>3. /\ e.kind = "event" /\ e.name = "switched"
        /\ r.kind = "reply" /\ r.name = "switch"
        /\ e \in Sent /\ r \in Sent
    BY <2>2 DEF Event, Reply, Sent
  <2>4. /\ Plain(e) /\ ~Enters(e) /\ ~Accepted(e) /\ ~Life(e)
        /\ Plain(r) /\ ~Enters(r) /\ ~Accepted(r) /\ ~Life(r)
    BY <2>3 DEF Plain, Enters, Leaves, Asks, Accepted, Life
  <2>5. Post(e) /\ dartQ' = Append(dartQ, r) /\ wk' = IdleWk /\ inv' = inv
        /\ wk.m = "switch"
    BY <1>14, <2>1, <2>2 DEF SwitchDone, Done, session
  <2>6. \A m \in UnderWay :
          <<m, r>> \in ListOrder /\ <<r, m>> \in ListOrder /\ <<m, e>> \in ListOrder
    BY <1>0, <1>4, <2>3, <2>4, PlainOrder
  <2>7. <<r, e>> \in ListOrder
    BY <2>3, <2>4, PlainOrder
  <2>8. QueuesSorted(ListOrder, dartQ, mainQ)' /\ UnderWay' = UnderWay \cup {e, r}
    BY <1>0, <2>3, <2>5, <2>6, <2>7, PostedReplied
  <2>9. Held' = Held /\ Unborn' = Unborn /\ Ended' = Ended
    BY <1>0, <2>5 DEF Held, Unborn, Ended, Registering, IdleWk
  <2>10. MessageOK(r)' /\ MessageOK(e)'
    <3>1. "switch" \notin OwnMethods
      BY DEF OwnMethods
    <3>. QED BY <2>3, <2>4, <3>1 DEF MessageOK, Plain
  <2>11. /\ Entering(UnderWay') = Entering(UnderWay)
         /\ Leaving(UnderWay') = Leaving(UnderWay) /\ Asked(UnderWay') = Asked(UnderWay)
    BY <2>4, <2>8 DEF Entering, Leaving, Asked, Plain
  <2>12. ListStep
    BY <1>0, <2>9, <2>11 DEF ListStep, Moves, ListSound, Pending, Coming
  <2>. QED BY <2>8, <2>10, <2>12 DEF Kept
<1>. QED
  BY <1>6, <1>7, <1>8, <1>9, <1>10, <1>11, <1>12, <1>13, <1>14 DEF Worker

(* The steps of the main looper, for the list.                             *)
LEMMA MainList ==
  ASSUME BaseInv, OrderInv, ListInv, UNCHANGED model, Main
  PROVE  Kept
<1>0. /\ TypeInv /\ ListSound /\ QueuesSorted(ListOrder, dartQ, mainQ)
      /\ \A m \in UnderWay : m \in Sent /\ MessageOK(m)
      /\ mainQ \in Seq(Msg) /\ mainQ # <<>> /\ Head(mainQ) \in Msg
      /\ Head(mainQ) \in UnderWay
  <2>1. TypeInv /\ ListSound /\ QueuesSorted(ListOrder, dartQ, mainQ)
    BY DEF BaseInv, ListInv
  <2>2. mainQ \in Seq(Msg) /\ mainQ # <<>>
    BY <2>1 DEF TypeInv, TypeOK, Main, MainEvent, MainRequest, MainHeader, MainIdle
  <2>3. Head(mainQ) \in UnderWay
    BY <2>1, <2>2, QueueTypes, BothDrop DEF UnderWay
  <2>. QED BY <2>1, <2>2, <2>3, QueueTypes DEF ListInv
<1>1. /\ Busy' = Busy /\ ShownObjs' = ShownObjs /\ Held' = Held
      /\ Unborn' = Unborn /\ Ended' = Ended
  <2>1. cb' = cb /\ inv' = inv
    BY DEF Main, MainEvent, MainRequest, MainHeader, engine, session
  <2>2. items' = items
    BY DEF model
  <2>3. \A o \in Obj : ~Registering(o) /\ ~Registering(o)'
    BY Sentinels
    DEF Main, MainEvent, MainRequest, MainHeader, MainIdle, IdleWk, Registering
  <2>4. Held' = Held
    BY <2>1, <2>3 DEF Held
  <2>. QED BY <2>1, <2>2, <2>4 DEF Busy, ShownObjs, Unborn, Ended
<1>2. ASSUME Entering(UnderWay') = Entering(UnderWay),
             Leaving(UnderWay') = Leaving(UnderWay), Asked(UnderWay') = Asked(UnderWay)
      PROVE  ListStep
  BY <1>0, <1>1, <1>2 DEF ListStep, Moves, ListSound, Pending, Coming
<1>3. CASE MainEvent
  <2>1. QueuesSorted(ListOrder, dartQ, mainQ)' /\ UnderWay' = UnderWay
    BY <1>0, <1>3, Moved DEF MainEvent
  <2>. QED BY <1>2, <2>1 DEF Kept
<1>4. CASE MainRequest
  <2>1. QueuesSorted(ListOrder, dartQ, mainQ)' /\ UnderWay = UnderWay' \cup {Head(mainQ)}
    BY <1>0, <1>4, Dropped DEF MainRequest
  <2>2. Plain(Head(mainQ))
    BY <1>4 DEF MainRequest, Plain, Enters, Leaves, Asks
  <2>3. ListStep
    BY <1>2, <2>1, <2>2, SetsPlain
  <2>. QED BY <2>1, <2>3 DEF Kept
<1>5. CASE MainHeader
  <2>1. PICK h \in Msg : h = Head(mainQ) /\ MessageOK(h)
    BY <1>0
  <2>2. h.id \in WireIds /\ h.obj \in Who \cup {NoObj}
    BY DEF Msg, Who, WireIds
  <2>3. PICK r \in Rep : r = Reply("header", h.id, h.obj, TRUE)
    BY <2>2, ReplyType DEF AllMethods
  <2>4. /\ r.kind = "reply" /\ r.name = "header" /\ r.obj = h.obj
        /\ h.kind = "request" /\ h.name = "header"
        /\ dartQ' = Append(dartQ, r) /\ mainQ' = Tail(mainQ) /\ r \in Sent
    BY <1>5, <2>1, <2>3 DEF MainHeader, Reply, Sent
  <2>5. /\ ~Enters(r) /\ ~Leaves(r) /\ Asks(r) /\ ~Accepted(r) /\ ~Life(r)
        /\ ~Enters(h) /\ ~Leaves(h) /\ Asks(h)
    BY <2>4 DEF Enters, Leaves, Asks, Accepted, Life
  <2>6. \A m \in UnderWay : <<m, r>> \in ListOrder /\ <<r, m>> \in ListOrder
    BY <1>0, <2>4, <2>5, PlainOrder DEF ListOrder, ListedFirst
  <2>7. QueuesSorted(ListOrder, dartQ, mainQ)'
    BY <1>0, <2>4, <2>6, DroppedReplied
  <2>8. PICK U : UnderWay = U \cup {h} /\ UnderWay' = U \cup {r}
    BY <1>0, <2>1, <2>4, <2>6, DroppedReplied
  <2>9. MessageOK(r)'
    <3>1. "header" \notin OwnMethods
      BY DEF OwnMethods
    <3>. QED BY <2>1, <2>4, <2>5, <3>1 DEF MessageOK
  <2>10. ListStep
    <3>1. /\ Entering(UnderWay') = Entering(UnderWay)
          /\ Leaving(UnderWay') = Leaving(UnderWay) /\ Asked(UnderWay') = Asked(UnderWay)
      BY <2>4, <2>5, <2>8 DEF Entering, Leaving, Asked
    <3>. QED BY <1>2, <3>1
  <2>. QED BY <2>7, <2>8, <2>9, <2>10 DEF Kept
<1>. QED BY <1>3, <1>4, <1>5 DEF Main

(* The requests of the user are about calls of the list.                   *)
LEMMA UserList ==
  ASSUME DartClient, BaseInv, OrderInv, ListInv, User
  PROVE  Kept
<1>0. /\ TypeInv /\ ListSound /\ QueuesSorted(ListOrder, dartQ, mainQ)
      /\ \A m \in UnderWay : m \in Sent
  BY QueueTypes DEF BaseInv, ListInv
<1>1. UNCHANGED <<engine, cb, wk, dartQ, model>>
  BY UserSteps DEF ClientSend
<1>2. PICK m \in Methods \ {"header"}, id \in WireIds, o \in Obj \cup {NoObj} :
        /\ Post(Request(m, id, o))
        /\ m \in OwnMethods => \E k \in DOMAIN items :
                                 id = items[k].id /\ o = items[k].obj
  BY UserSteps
<1>3. PICK e \in Msg : e = Request(m, id, o)
  BY RequestType, EngineAssumption DEF DartClient
<1>4. /\ e.kind = "request" /\ e.name = m /\ e.id = id /\ e.obj = o
      /\ e \in Sent /\ Post(e)
  BY <1>2, <1>3 DEF Request, Sent
<1>5. Plain(e) /\ ~Enters(e) /\ ~Accepted(e) /\ ~Life(e)
  BY <1>2, <1>4 DEF Plain, Enters, Leaves, Asks, Accepted, Life
<1>6. QueuesSorted(ListOrder, dartQ, mainQ)' /\ UnderWay' = UnderWay \cup {e}
  BY <1>0, <1>1, <1>4, <1>5, PlainOrder, Posted
<1>7. MessageOK(e)'
  <2>1. ASSUME m \in OwnMethods PROVE o \in Obj /\ id = slot[o] /\ inv[o] # "unborn"
    <3>1. PICK k \in DOMAIN items : id = items[k].id /\ o = items[k].obj
      BY <1>2, <2>1
    <3>2. o \in Obj /\ o \in ShownObjs
      BY <3>1, ItemTypes DEF BaseInv, ModelTypes, ShownObjs
    <3>3. inv[o] # "unborn"
      BY <3>2, Birth
    <3>. QED BY <3>1, <3>2, <3>3 DEF ListInv, ItemIds
  <2>2. slot' = slot /\ inv' = inv
    BY <1>1 DEF engine, session
  <2>. QED BY <1>4, <1>5, <2>1, <2>2 DEF MessageOK, Plain
<1>8. ListStep
  <2>1. /\ Entering(UnderWay') = Entering(UnderWay)
        /\ Leaving(UnderWay') = Leaving(UnderWay) /\ Asked(UnderWay') = Asked(UnderWay)
    BY <1>5, <1>6, SetsPlain
  <2>2. /\ Busy' = Busy /\ ShownObjs' = ShownObjs /\ Held' = Held
        /\ Unborn' = Unborn /\ Ended' = Ended
    BY <1>1
    DEF engine, session, model, Busy, ShownObjs, Held, Registering, Unborn, Ended
  <2>. QED BY <1>0, <2>1, <2>2 DEF ListStep, Moves, ListSound, Pending, Coming
<1>. QED BY <1>6, <1>7, <1>8 DEF Kept

(* A list without one of its calls.                                        *)
LEMMA WithoutObj ==
  ASSUME items \in Seq(CallModel), Distinct, NEW o, NEW s, s = Without(o)
  PROVE  /\ {s[k].obj : k \in DOMAIN s} = ShownObjs \ {o}
         /\ \A k \in DOMAIN s : \E j \in DOMAIN items : s[k] = items[j]
         /\ \A j, k \in DOMAIN s : s[j].obj = s[k].obj => j = k
<1>1. CASE o \notin ShownObjs
  BY <1>1 DEF Without, ShownObjs, Distinct
<1>2. CASE o \in ShownObjs
  <2>1. PICK p \in DOMAIN items : p = PlaceOf(o) /\ items[p].obj = o
    BY <1>2, PlaceFound
  <2>2. s = RemoveAt(items, p)
    BY <1>2, <2>1 DEF Without
  <2>3. /\ DOMAIN s = 1..Len(items) - 1
        /\ \A k \in 1..Len(items) - 1 : s[k] = IF k < p THEN items[k] ELSE items[k + 1]
    BY <2>2, Removed
  <2>. DEFINE from(k) == IF k < p THEN k ELSE k + 1
  <2>4. DOMAIN items = 1..Len(items) /\ Len(items) \in Nat /\ p \in 1..Len(items)
    OBVIOUS
  <2>5. /\ \A k \in DOMAIN s : from(k) \in DOMAIN items /\ from(k) # p
        /\ \A j, k \in DOMAIN s : from(j) = from(k) => j = k
        /\ \A j \in DOMAIN items : j # p => \E k \in DOMAIN s : from(k) = j
    <3>1. \A k \in 1..Len(items) - 1 : from(k) \in 1..Len(items) /\ from(k) # p
      BY <2>4
    <3>2. \A j, k \in 1..Len(items) - 1 : from(j) = from(k) => j = k
      BY <2>4
    <3>3. ASSUME NEW j \in 1..Len(items), j # p
          PROVE  \E k \in 1..Len(items) - 1 : from(k) = j
      <4>1. CASE j < p
        BY <2>4, <4>1
      <4>2. CASE j > p
        <5>1. j - 1 \in 1..Len(items) - 1 /\ from(j - 1) = j
          BY <2>4, <4>2
        <5>. QED BY <5>1
      <4>. QED BY <2>4, <3>3, <4>1, <4>2
    <3>. QED BY <2>3, <2>4, <3>1, <3>2, <3>3
  <2>6. \A k \in DOMAIN s : s[k] = items[from(k)]
    BY <2>3
  <2>. HIDE DEF from
  <2>7. {s[k].obj : k \in DOMAIN s} = ShownObjs \ {o}
    <3>1. \A k \in DOMAIN s : s[k].obj \in ShownObjs /\ s[k].obj # o
      BY <2>1, <2>5, <2>6 DEF ShownObjs, Distinct
    <3>2. ASSUME NEW j \in DOMAIN items, items[j].obj # o
          PROVE  \E k \in DOMAIN s : s[k].obj = items[j].obj
      BY <2>1, <2>5, <2>6, <3>2
    <3>. QED BY <3>1, <3>2 DEF ShownObjs
  <2>. QED BY <2>5, <2>6, <2>7 DEF Distinct
<1>. QED BY <1>1, <1>2

(* Dart takes a message, c; U is what is left, all of it younger than c.   *)
Rest == Both(Tail(dartQ), mainQ)

LEMMA TakeRest ==
  ASSUME BaseInv, OrderInv, ListInv, Take
  PROVE  /\ UnderWay = Rest \cup {Msg1} /\ MessageOK(Msg1) /\ Past(Msg1)
         /\ \A m \in Rest : m \in Sent /\ ListedFirst(Msg1, m) /\ Follows(Msg1, m)
         /\ UNCHANGED <<Busy, Held, Unborn, Ended, slot>>
<1>1. /\ TypeInv /\ dartQ # <<>> /\ QueuesSorted(ListOrder, dartQ, mainQ)
      /\ QueuesSorted(Order, dartQ, mainQ)
      /\ dartQ \in Seq(Sent) /\ mainQ \in Seq(Sent)
  BY QueueTypes DEF BaseInv, ListInv, OrderInv, Take
<1>2. UnderWay = Rest \cup {Msg1}
  BY <1>1, BothTake DEF UnderWay, Rest, Msg1
<1>3. \A m \in Rest : <<Msg1, m>> \in ListOrder /\ <<Msg1, m>> \in Order
  BY <1>1, HeadFirst DEF Rest, Msg1
<1>4. \A m \in Rest : m \in Sent /\ ListedFirst(Msg1, m) /\ Follows(Msg1, m)
  BY <1>3 DEF ListOrder, Order
<1>5. MessageOK(Msg1) /\ Past(Msg1)
  BY <1>2 DEF ListInv, OrderInv
<1>6. UNCHANGED <<inv, cb, wk, slot>>
  BY DEF Take, engine, session
<1>7. UNCHANGED <<Busy, Held, Unborn, Ended>>
  BY <1>6 DEF Busy, Held, Unborn, Ended, Registering
<1>. QED BY <1>2, <1>4, <1>5, <1>6, <1>7

(* A message that neither adds a call nor takes one away ...               *)
LEMMA PlainTaken ==
  ASSUME BaseInv, OrderInv, ListInv, Take, mainQ' = mainQ, Plain(Msg1),
         DOMAIN items' = DOMAIN items,
         \A k \in DOMAIN items : items'[k].id = items[k].id /\ items'[k].obj = items[k].obj
  PROVE  Kept /\ ItemIds' /\ Distinct' /\ ShownObjs' = ShownObjs
<1>1. QueuesSorted(ListOrder, dartQ, mainQ)' /\ UnderWay = UnderWay' \cup {Msg1}
  BY Taken DEF BaseInv, ListInv, Take, Msg1
<1>2. UNCHANGED <<Busy, Held, Unborn, Ended, slot>>
  BY TakeRest
<1>3. /\ Entering(UnderWay') = Entering(UnderWay)
      /\ Leaving(UnderWay') = Leaving(UnderWay) /\ Asked(UnderWay') = Asked(UnderWay)
  BY <1>1, SetsPlain
<1>4. ShownObjs' = ShownObjs
  BY DEF ShownObjs
<1>5. ListStep
  BY <1>2, <1>3, <1>4 DEF ListInv, ListStep, Moves, ListSound, Pending, Coming
<1>6. ItemIds' /\ Distinct'
  BY <1>2 DEF ListInv, ItemIds, Distinct
<1>. QED BY <1>1, <1>4, <1>5, <1>6 DEF Kept

(* ... one that adds one: it was not in the list, nor was its id, ...      *)
LEMMA EnterTaken ==
  ASSUME BaseInv, OrderInv, ListInv, LateReuse, Take, mainQ' = mainQ, Enters(Msg1),
         NEW st,
         Msg1.id \notin Shown => items' = Append(items, NewCall(Msg1.id, Msg1.obj, st))
  PROVE  /\ Kept /\ ItemIds' /\ Distinct'
         /\ Msg1.id \notin Shown
         /\ \E o \in Coming : /\ o = Msg1.obj /\ Msg1.id = slot[o]
                             /\ ShownObjs' = ShownObjs \cup {o}
<1>1. /\ QueuesSorted(ListOrder, dartQ, mainQ)' /\ UnderWay' = Rest
      /\ UnderWay = Rest \cup {Msg1}
  <2>1. QueuesSorted(ListOrder, dartQ, mainQ)'
    BY Taken DEF BaseInv, ListInv, Take, Msg1
  <2>2. UnderWay' = Rest
    BY DEF Take, UnderWay, Rest
  <2>. QED BY <2>1, <2>2, TakeRest
<1>2. PICK o \in Obj : Msg1.obj = o /\ Msg1.id = slot[o] /\ o \notin Held
  BY TakeRest DEF MessageOK
<1>3. o \in Coming /\ o \notin ShownObjs /\ slot[o] # NoWire
  <2>1. o \in Coming
    BY <1>1, <1>2 DEF Coming, Entering
  <2>2. inv[o] # "unborn"
    BY <2>1, Birth
  <2>. QED BY <2>1, <2>2, Sentinels DEF ListInv, ListSound, SlotOK
<1>4. items \in Seq(CallModel)
  BY DEF BaseInv, ModelTypes
<1>5. Msg1.id \notin Shown
  <2>1. SUFFICES ASSUME NEW k \in DOMAIN items, items[k].id = Msg1.id PROVE FALSE
    BY DEF Shown
  <2>2. items[k].obj \in Obj /\ slot[items[k].obj] = slot[o]
    BY <1>2, <1>4, <2>1, ItemTypes DEF ListInv, ItemIds
  <2>3. items[k].obj \in ShownObjs
    BY DEF ShownObjs
  <2>4. ~Gone(o)
    BY <1>1, <1>2 DEF Gone
  <2>5. ~Gone(items[k].obj)
    BY <2>3 DEF Gone
  <2>. QED BY <1>3, <2>2, <2>3, <2>4, <2>5 DEF LateReuse
<1>6. PICK c : c = NewCall(Msg1.id, o, st) /\ c.id = slot[o] /\ c.obj = o
  BY <1>2 DEF NewCall
<1>7. items' = Append(items, c)
  BY <1>2, <1>5, <1>6
<1>8. /\ DOMAIN items' = 1..Len(items) + 1 /\ DOMAIN items = 1..Len(items)
      /\ \A k \in DOMAIN items : items'[k] = items[k]
      /\ items'[Len(items) + 1] = c /\ Len(items) \in Nat
  BY <1>4, <1>7
<1>9. \A k \in DOMAIN items' : k \in DOMAIN items \/ k = Len(items) + 1
  BY <1>8
<1>10. ShownObjs' = ShownObjs \cup {o}
  BY <1>6, <1>8, <1>9 DEF ShownObjs
<1>11. Distinct'
  <2>1. \A k \in DOMAIN items : items[k].obj # o
    BY <1>3 DEF ShownObjs
  <2>2. \A j, k \in DOMAIN items : items[j].obj = items[k].obj => j = k
    BY DEF ListInv, Distinct
  <2>3. ASSUME NEW j \in DOMAIN items', NEW k \in DOMAIN items', items'[j].obj = items'[k].obj
        PROVE  j = k
    <3>1. CASE j \in DOMAIN items /\ k \in DOMAIN items
      BY <1>8, <2>2, <2>3, <3>1
    <3>2. CASE j \in DOMAIN items /\ k = Len(items) + 1
      BY <1>6, <1>8, <2>1, <2>3, <3>2
    <3>3. CASE k \in DOMAIN items /\ j = Len(items) + 1
      BY <1>6, <1>8, <2>1, <2>3, <3>3
    <3>. QED BY <1>9, <3>1, <3>2, <3>3
  <2>. QED BY <2>3 DEF Distinct
<1>12. slot' = slot
  BY TakeRest
<1>13. ItemIds'
  <2>1. ASSUME NEW k \in DOMAIN items' PROVE items'[k].id = slot[items'[k].obj]
    BY <1>6, <1>8, <1>9 DEF ListInv, ItemIds
  <2>. QED BY <1>12, <2>1 DEF ItemIds
<1>14. /\ Entering(Rest) = Entering(UnderWay) \ {o}
       /\ Leaving(Rest) = Leaving(UnderWay) /\ Asked(Rest) = Asked(UnderWay)
  <2>1. \A m \in Rest : Enters(m) => m.obj # o
    BY <1>2, TakeRest DEF ListedFirst
  <2>2. Entering(Rest) = Entering(UnderWay) \ {o}
    BY <1>1, <1>2, <2>1 DEF Entering
  <2>3. ~Leaves(Msg1) /\ ~Asks(Msg1)
    BY DEF Enters, Leaves, Asks
  <2>. QED BY <1>1, <2>2, <2>3 DEF Leaving, Asked
<1>15. UNCHANGED <<Busy, Held, Unborn, Ended>>
  BY TakeRest
<1>16. ListStep
  <2>1. Coming' = Coming \ {o} /\ Pending' = Pending /\ Asked(UnderWay') = Asked(UnderWay)
    BY <1>1, <1>2, <1>14, <1>15 DEF Pending, Coming
  <2>2. ListSound
    BY DEF ListInv
  <2>. QED BY <1>3, <1>10, <1>15, <2>1, <2>2 DEF ListStep, Moves, ListSound
<1>. QED BY <1>1, <1>2, <1>3, <1>5, <1>10, <1>11, <1>13, <1>16 DEF Kept

(* ... one that tells of the end of a call: it is in the list, and it is   *)
(* the one found there under its id, ...                                   *)
LEMMA TerminatedTaken ==
  ASSUME DartClient, BaseInv, OrderInv, ListInv, LateReuse, HandleTerminated
  PROVE  /\ Kept /\ ItemIds' /\ Distinct' /\ ShownObjs' = ShownObjs
         /\ Msg1.obj \in ShownObjs
         /\ \E e \in Sent : /\ Asks(e) /\ e.obj = Msg1.obj /\ e.id = Msg1.id
                           /\ Post(e) /\ UnderWay' = Rest \cup {e}
<1>0. Take /\ Leaves(Msg1) /\ Life(Msg1) /\ ~Enters(Msg1) /\ ~Asks(Msg1)
  BY DEF HandleTerminated, Leaves, Life, Enters, Asks
<1>1. /\ UnderWay = Rest \cup {Msg1} /\ MessageOK(Msg1) /\ Past(Msg1)
      /\ \A m \in Rest : m \in Sent /\ ListedFirst(Msg1, m) /\ Follows(Msg1, m)
      /\ UNCHANGED <<Busy, Held, Unborn, Ended, slot>>
  BY <1>0, TakeRest
<1>2. PICK o \in Obj : Msg1.obj = o /\ Msg1.id = slot[o] /\ o \notin Held
  BY <1>0, <1>1, TakeType DEF MessageOK, Leaves
<1>3. inv[o] = "ended" /\ \A t \in CbThreads : cb[t].o # o
  BY <1>0, <1>1, <1>2 DEF Past, Leaves
<1>4. o \in ShownObjs /\ slot[o] # NoWire
  <2>1. o \in Pending
    BY <1>0, <1>1, <1>2 DEF Pending, Leaving
  <2>2. o \notin Entering(UnderWay)
    BY <1>0, <1>1, <1>2 DEF Entering, ListedFirst
  <2>3. slot[o] \in Ids
    BY <1>3 DEF ListInv, SlotOK
  <2>. QED BY <1>2, <2>1, <2>2, <2>3, Sentinels DEF ListInv, ListSound, Coming
<1>5. PICK j \in DOMAIN items : items[j].obj = o /\ items[j].id = Msg1.id
  BY <1>2, <1>4 DEF ShownObjs, ListInv, ItemIds
<1>6. PICK k \in DOMAIN items :
        items[k].id = Msg1.id /\ Post(Request("header", Msg1.id, items[k].obj))
  BY <1>5 DEF HandleTerminated, Shown, IsFirst
<1>7. items[k].obj = o
  <2>1. items[k].obj \in Obj /\ slot[items[k].obj] = slot[o]
    BY <1>2, <1>6, ItemTypes DEF BaseInv, ModelTypes, ListInv, ItemIds
  <2>2. items[k].obj \in ShownObjs
    BY DEF ShownObjs
  <2>. QED BY <1>4, <2>1, <2>2 DEF LateReuse, Gone
<1>8. PICK e \in Msg : e = Request("header", Msg1.id, o)
  <2>1. Msg1.id \in WireIds
    BY <1>0, TakeType
  <2>. QED BY <2>1, RequestType DEF DartClient, AllMethods
<1>9. /\ e.kind = "request" /\ e.name = "header" /\ e.obj = o /\ e.id = Msg1.id
      /\ e \in Sent /\ Post(e)
  BY <1>6, <1>7, <1>8 DEF Request, Sent
<1>10. Asks(e) /\ ~Enters(e) /\ ~Leaves(e) /\ ~Accepted(e) /\ ~Life(e)
  BY <1>9 DEF Enters, Leaves, Asks, Accepted, Life
<1>11. QueuesSorted(ListOrder, dartQ, mainQ)'
  <2>1. TypeInv /\ QueuesSorted(ListOrder, dartQ, mainQ) /\ \A m \in UnderWay : m \in Sent
    BY QueueTypes DEF BaseInv, ListInv
  <2>2. dartQ # <<>> /\ dartQ' = Tail(dartQ)
    BY <1>0 DEF Take
  <2>3. \A m \in UnderWay : <<m, e>> \in ListOrder
    BY <1>9, <1>10, <2>1, PlainOrder
  <2>. QED BY <1>9, <2>1, <2>2, <2>3, TakenPosted
<1>12. UnderWay' = Rest \cup {e}
  <2>1. dartQ \in Seq(Sent) /\ mainQ \in Seq(Sent) /\ dartQ # <<>> /\ dartQ' = Tail(dartQ)
    BY <1>0, QueueTypes DEF BaseInv, Take
  <2>2. Tail(dartQ) \in Seq(Sent)
    BY <2>1, BothTake
  <2>3. Both(Tail(dartQ), Append(mainQ, e)) = Both(Tail(dartQ), mainQ) \cup {e}
    <3>1. PICK d \in Seq(Sent) : d = Tail(dartQ)
      BY <2>2
    <3>2. e \in Sent /\ mainQ \in Seq(Sent)
      BY <1>9, <2>1
    <3>3. Both(d, Append(mainQ, e)) = Both(d, mainQ) \cup {e}
      BY <3>2, BothAppend
    <3>. QED BY <3>1, <3>3
  <2>4. mainQ' = Append(mainQ, e)
    BY <1>9 DEF Post
  <2>. QED BY <2>1, <2>3, <2>4 DEF UnderWay, Rest
<1>13. /\ Entering(UnderWay') = Entering(UnderWay)
       /\ Leaving(UnderWay') = Leaving(UnderWay) \ {o}
       /\ Asked(UnderWay') = Asked(UnderWay) \cup {o}
  <2>1. ASSUME NEW m \in Rest, Leaves(m) PROVE m.obj # o
    <3>1. Life(m) /\ m.name = "terminated" /\ Msg1.name = "terminated"
      BY <1>0, <2>1 DEF Leaves, Life
    <3>. QED BY <1>0, <1>1, <1>2, <3>1, Ranks DEF Follows
  <2>2. Leaving(UnderWay') = Leaving(UnderWay) \ {o}
    BY <1>1, <1>2, <1>10, <1>12, <2>1 DEF Leaving
  <2>3. Entering(UnderWay') = Entering(UnderWay)
    BY <1>0, <1>1, <1>10, <1>12 DEF Entering
  <2>4. Asked(UnderWay') = Asked(UnderWay) \cup {o}
    BY <1>0, <1>1, <1>9, <1>10, <1>12 DEF Asked
  <2>. QED BY <2>2, <2>3, <2>4
<1>14. items' = items
  BY DEF HandleTerminated, model
<1>15. ListStep
  <2>1. o \in Ended /\ o \notin Busy /\ o \notin Entering(UnderWay)
    <3>1. o \in Ended /\ o \notin Busy
      BY <1>3 DEF Ended, Busy
    <3>2. o \notin Entering(UnderWay)
      BY <1>0, <1>1, <1>2 DEF Entering, ListedFirst
    <3>. QED BY <3>1, <3>2
  <2>2. ShownObjs' = ShownObjs
    BY <1>14 DEF ShownObjs
  <2>3. ListSound /\ UNCHANGED <<Busy, Held, Unborn, Ended>>
    BY <1>1 DEF ListInv
  <2>. QED BY <1>2, <1>13, <2>1, <2>2, <2>3 DEF ListStep, Moves, ListSound, Pending, Coming
<1>16. MessageOK(e)'
  <2>1. "header" \notin OwnMethods
    BY DEF OwnMethods
  <2>. QED BY <1>9, <1>10, <2>1 DEF MessageOK
<1>17. ItemIds' /\ Distinct'
  BY <1>1, <1>14 DEF ListInv, ItemIds, Distinct
<1>18. Kept /\ ShownObjs' = ShownObjs
  BY <1>1, <1>11, <1>12, <1>14, <1>15, <1>16 DEF Kept, ShownObjs
<1>. QED BY <1>2, <1>4, <1>9, <1>10, <1>12, <1>17, <1>18

(* ... and one with the header of a call that has ended: it goes.          *)
LEMMA HeaderTaken ==
  ASSUME BaseInv, OrderInv, ListInv, HandleHeader
  PROVE  /\ Kept /\ ItemIds' /\ Distinct'
         /\ \E o \in Ended \ Pending : /\ o = Msg1.obj
                                      /\ ShownObjs' = ShownObjs \ {o}
<1>0. Take /\ mainQ' = mainQ /\ Asks(Msg1) /\ ~Enters(Msg1) /\ ~Leaves(Msg1)
  BY DEF HandleHeader, Leaves, Enters, Asks
<1>1. /\ UnderWay = Rest \cup {Msg1} /\ MessageOK(Msg1)
      /\ UNCHANGED <<Busy, Held, Unborn, Ended, slot>>
  BY <1>0, TakeRest
<1>2. PICK o \in Obj : Msg1.obj = o
  BY <1>0, <1>1 DEF MessageOK
<1>3. QueuesSorted(ListOrder, dartQ, mainQ)' /\ UnderWay' = Rest
  <2>1. QueuesSorted(ListOrder, dartQ, mainQ)'
    BY <1>0, Taken DEF BaseInv, ListInv, Take
  <2>. QED BY <1>0, <2>1 DEF Take, UnderWay, Rest
<1>4. items' = Without(o)
  BY <1>2 DEF HandleHeader, OnTerminatedResume
<1>5. /\ ShownObjs' = ShownObjs \ {o} /\ Distinct'
      /\ \A k \in DOMAIN items' : \E j \in DOMAIN items : items'[k] = items[j]
  <2>1. items \in Seq(CallModel) /\ Distinct
    BY DEF BaseInv, ModelTypes, ListInv
  <2>2. PICK s : s = Without(o)
    OBVIOUS
  <2>3. /\ {s[k].obj : k \in DOMAIN s} = ShownObjs \ {o}
        /\ \A k \in DOMAIN s : \E j \in DOMAIN items : s[k] = items[j]
        /\ \A j, k \in DOMAIN s : s[j].obj = s[k].obj => j = k
    BY <2>1, <2>2, WithoutObj
  <2>4. items' = s
    BY <1>4, <2>2
  <2>5. ShownObjs' = {s[k].obj : k \in DOMAIN s}
    BY <2>4 DEF ShownObjs
  <2>6. Distinct'
    BY <2>3, <2>4 DEF Distinct
  <2>. QED BY <2>3, <2>4, <2>5, <2>6
<1>6. ItemIds'
  BY <1>1, <1>5 DEF ListInv, ItemIds
<1>7. /\ Entering(UnderWay') = Entering(UnderWay) /\ Leaving(UnderWay') = Leaving(UnderWay)
      /\ Asked(UnderWay) = Asked(UnderWay') \cup {o}
  BY <1>0, <1>1, <1>2, <1>3 DEF Entering, Leaving, Asked
<1>8. ListStep
  BY SMTT(30), <1>1, <1>5, <1>7 DEF ListInv, ListStep, Moves, ListSound, Pending, Coming
<1>9. o \in Ended \ Pending
  <2>1. o \in Asked(UnderWay)
    BY <1>0, <1>1, <1>2 DEF Asked
  <2>. QED BY <2>1 DEF ListInv, ListSound
<1>. QED BY <1>1, <1>2, <1>3, <1>5, <1>6, <1>8, <1>9 DEF Kept

LEMMA DartList ==
  ASSUME DartClient, BaseInv, OrderInv, ListInv, LateReuse, Dart
  PROVE  /\ Kept /\ ItemIds' /\ Distinct'
         /\ \/ ShownObjs' = ShownObjs
            \/ \E o \in Coming : ShownObjs' = ShownObjs \cup {o}
            \/ HandleHeader /\ \E o \in Ended \ Pending :
                                 o = Msg1.obj /\ ShownObjs' = ShownObjs \ {o}
<1>1. CASE HandleIncoming
  <2>1. Take /\ mainQ' = mainQ /\ Enters(Msg1)
    BY <1>1 DEF HandleIncoming, Enters
  <2>2. Msg1.id \notin Shown => items' = Append(items, NewCall(Msg1.id, Msg1.obj, "ringing"))
    BY <1>1 DEF HandleIncoming, OnIncomingSip
  <2>. QED BY <2>1, <2>2, EnterTaken
<1>2. CASE HandleProceeding \/ HandleConnected \/ HandleSwitched
  <2>1. Take /\ mainQ' = mainQ /\ Plain(Msg1)
    BY <1>2 DEF HandleProceeding, HandleConnected, HandleSwitched, Plain, Enters, Leaves, Asks
  <2>2. /\ DOMAIN items' = DOMAIN items
        /\ \A k \in DOMAIN items :
             items'[k].id = items[k].id /\ items'[k].obj = items[k].obj
    <3>1. \A k \in DOMAIN items : items[k] \in CallModel
      BY DEF BaseInv, ModelTypes
    <3>2. ASSUME NEW c \in CallModel
          PROVE  /\ [c EXCEPT !.st = "proceeding"].id = c.id
                 /\ [c EXCEPT !.st = "proceeding"].obj = c.obj
                 /\ [c EXCEPT !.st = "connected", !.starts = @ + 1].id = c.id
                 /\ [c EXCEPT !.st = "connected", !.starts = @ + 1].obj = c.obj
      BY DEF CallModel
    <3>3. CASE HandleProceeding
      BY <3>1, <3>2, <3>3 DEF HandleProceeding, OnProceeding
    <3>4. CASE HandleConnected
      BY <3>1, <3>2, <3>4 DEF HandleConnected, OnConnected
    <3>5. CASE HandleSwitched
      BY <3>5 DEF HandleSwitched, OnSwitched
    <3>. QED BY <1>2, <3>3, <3>4, <3>5
  <2>. QED BY <2>1, <2>2, PlainTaken
<1>3. CASE HandleTerminated
  BY <1>3, TerminatedTaken
<1>4. CASE HandleHeader
  BY <1>4, HeaderTaken
<1>5. CASE HandleReply /\ Msg1.name = "invite" /\ Msg1.ok
  <2>1. Take /\ mainQ' = mainQ /\ Enters(Msg1)
    BY <1>5 DEF HandleReply, Enters
  <2>2. items' = Append(items, NewCall(Msg1.id, Msg1.obj, "dialing"))
    BY <1>5 DEF HandleReply, Invited
  <2>. QED BY <2>1, <2>2, EnterTaken
<1>6. CASE HandleReply /\ ~(Msg1.name = "invite" /\ Msg1.ok)
  <2>1. Take /\ mainQ' = mainQ /\ Plain(Msg1)
    BY <1>6 DEF HandleReply, Plain, Enters, Leaves, Asks
  <2>2. /\ DOMAIN items' = DOMAIN items
        /\ \A k \in DOMAIN items :
             items'[k].id = items[k].id /\ items'[k].obj = items[k].obj
    <3>1. \A k \in DOMAIN items : items[k] \in CallModel
      BY DEF BaseInv, ModelTypes
    <3>2. ASSUME NEW c \in CallModel, NEW st
          PROVE  [c EXCEPT !.st = st].id = c.id /\ [c EXCEPT !.st = st].obj = c.obj
      BY DEF CallModel
    <3>3. \/ items' = items
          \/ \E st : Answered(Msg1.obj, st)
      BY <1>6 DEF HandleReply, model, ConfSet
    <3>4. CASE items' = items
      BY <3>4
    <3>5. ASSUME NEW st, Answered(Msg1.obj, st)
          PROVE  /\ DOMAIN items' = DOMAIN items
                 /\ \A k \in DOMAIN items :
                      items'[k].id = items[k].id /\ items'[k].obj = items[k].obj
      <4>1. /\ DOMAIN items' = DOMAIN items
            /\ \A k \in DOMAIN items :
                 items'[k] \in {items[k], [items[k] EXCEPT !.st = st]}
        BY <3>5 DEF Answered
      <4>2. ASSUME NEW k \in DOMAIN items
            PROVE  items'[k].id = items[k].id /\ items'[k].obj = items[k].obj
        <5>1. PICK c \in CallModel : c = items[k]
          BY <3>1
        <5>2. items'[k] = c \/ items'[k] = [c EXCEPT !.st = st]
          BY <4>1, <5>1
        <5>3. [c EXCEPT !.st = st].id = c.id /\ [c EXCEPT !.st = st].obj = c.obj
          BY <3>2
        <5>. QED BY <5>1, <5>2, <5>3
      <4>. QED BY <4>1, <4>2
    <3>. QED BY <3>3, <3>4, <3>5
  <2>. QED BY <2>1, <2>2, PlainTaken
<1>. QED BY <1>1, <1>2, <1>3, <1>4, <1>5, <1>6 DEF Dart

LEMMA StepList ==
  ASSUME DartClient, BaseInv, OrderInv, ListInv, LateReuse, [SystemNext]_svars
  PROVE  ListInv'
<1>1. [Next]_vars
  BY SystemSteps
<1>2. WorkerKnows' /\ CallbackKnows' /\ IncomingLives' /\ SlotOK'
  BY <1>1, StepKnows
<1>3. Steady
  BY <1>1, StepSteady
<1>4. ASSUME Kept PROVE \A m \in UnderWay' : MessageOK(m)'
  BY <1>3, <1>4, MessagesKept DEF Kept
<1>5. ASSUME items' = items PROVE ItemIds' /\ Distinct'
  <2>1. ASSUME NEW k \in DOMAIN items PROVE slot'[items[k].obj] = slot[items[k].obj]
    <3>1. items[k].obj \in Obj /\ items[k].obj \in ShownObjs
      BY ItemTypes DEF BaseInv, ModelTypes, ShownObjs
    <3>. QED BY <1>3, <3>1, Birth DEF Steady
  <2>. QED BY <1>5, <2>1 DEF ListInv, ItemIds, Distinct
<1>6. ASSUME Kept, ItemIds', Distinct' PROVE ListInv'
  BY <1>2, <1>4, <1>6 DEF Kept, ListStep, ListInv
<1>7. CASE EngineStep
  <2>1. Kept
    BY <1>7, CallbackList, WorkerList, MainList DEF EngineStep, System
  <2>2. items' = items
    BY <1>7 DEF EngineStep, model
  <2>. QED BY <1>5, <1>6, <2>1, <2>2
<1>8. CASE Dart
  BY <1>6, <1>8, DartList
<1>9. CASE User
  <2>1. Kept
    BY <1>9, UserList
  <2>2. items' = items
    BY <1>9, UserSteps DEF model
  <2>. QED BY <1>5, <1>6, <2>1, <2>2
<1>10. CASE Idle \/ UNCHANGED svars
  <2>1. UNCHANGED <<inv, slot, cb, wk, mainQ, dartQ, items>>
    BY <1>10 DEF Idle, svars, vars, model
  <2>2. Kept
    <3>1. UnderWay' = UnderWay /\ ShownObjs' = ShownObjs /\ Busy' = Busy /\ Held' = Held
          /\ Unborn' = Unborn /\ Ended' = Ended
      BY <2>1 DEF UnderWay, ShownObjs, Busy, Held, Unborn, Ended, Registering
    <3>2. ListStep
      BY <3>1 DEF ListInv, ListStep, Moves, ListSound, Pending, Coming
    <3>. QED BY <2>1, <3>1, <3>2 DEF Kept, ListInv
  <2>. QED BY <1>5, <1>6, <2>1, <2>2
<1>. QED BY <1>7, <1>8, <1>9, <1>10 DEF SystemNext

LEMMA InitList == SystemInit => OrderInv /\ ListInv
<1>. SUFFICES ASSUME SystemInit PROVE OrderInv /\ ListInv
  OBVIOUS
<1>1. /\ Init /\ ModelInit /\ wk = IdleWk
      /\ items = <<>> /\ dartQ = <<>> /\ mainQ = <<>>
      /\ \A o \in Obj : inv[o] = "unborn"
      /\ \A t \in CbThreads : cb[t] = IdleCb
  BY DEF SystemInit, Init, ModelInit
<1>2. UnderWay = {} /\ ShownObjs = {} /\ QueuesSorted(ListOrder, dartQ, mainQ)
  BY <1>1 DEF UnderWay, Both, ToSet, ShownObjs, QueuesSorted, Sorted, Across
<1>3. Coming = {} /\ Pending = {} /\ Asked(UnderWay) = {}
  BY <1>1, <1>2, Sentinels
  DEF Coming, Pending, Held, Busy, Unborn, Ended, Registering, Entering, Leaving, Asked,
      IdleWk, IdleCb
<1>4. ListSound
  BY <1>2, <1>3 DEF ListSound
<1>5. WorkerKnows /\ CallbackKnows /\ IncomingLives /\ SlotOK /\ ItemIds /\ Distinct
  BY <1>1
  DEF WorkerKnows, CallbackKnows, IncomingLives, SlotOK, ItemIds, Distinct, OwnMethods,
      IdleWk, IdleCb
<1>. QED BY <1>1, <1>2, <1>4, <1>5, InitOrder DEF ListInv

LEMMA SystemInvariant ==
  ASSUME DartClient
  PROVE  SafeSystem /\ []LateReuse => [](BaseInv /\ OrderInv /\ ListInv)
<1>1. BaseInv /\ OrderInv /\ [Next]_vars => OrderInv'
  BY StepOrder DEF BaseInv
<1>2. BaseInv /\ [SystemNext]_svars => BaseInv' /\ [Next]_vars
  BY StepBase
<1>3. BaseInv /\ OrderInv /\ ListInv /\ LateReuse /\ [SystemNext]_svars => ListInv'
  BY StepList
<1>. QED BY <1>1, <1>2, <1>3, InitBase, InitList, PTL DEF SafeSystem

(* The messages under way are those of the stream.                         *)
LEMMA Streamed ==
  ASSUME BaseInv
  PROVE  \A m : m \in UnderWay <=> \E i \in DOMAIN Stream : Stream[i] = m
<1>1. dartQ \in Seq(Sent) /\ mainQ \in Seq(Sent)
  BY QueueTypes DEF BaseInv
<1>2. /\ DOMAIN Stream = 1..Len(dartQ) + Len(mainQ)
      /\ \A k \in 1..Len(dartQ) : Stream[k] = dartQ[k]
      /\ \A k \in 1..Len(mainQ) : Stream[Len(dartQ) + k] = mainQ[k]
  BY <1>1, Concat DEF Stream
<1>3. /\ Len(dartQ) \in Nat /\ Len(mainQ) \in Nat
      /\ DOMAIN dartQ = 1..Len(dartQ) /\ DOMAIN mainQ = 1..Len(mainQ)
  BY <1>1
<1>4. ASSUME NEW m \in UnderWay PROVE \E i \in DOMAIN Stream : Stream[i] = m
  <2>1. CASE \E k \in DOMAIN dartQ : m = dartQ[k]
    BY <1>2, <1>3, <2>1
  <2>2. CASE \E k \in DOMAIN mainQ : m = mainQ[k]
    <3>1. PICK k \in 1..Len(mainQ) : m = mainQ[k]
      BY <1>3, <2>2
    <3>2. Len(dartQ) + k \in 1..Len(dartQ) + Len(mainQ)
      BY <1>3
    <3>. QED BY <1>2, <3>1, <3>2
  <2>. QED BY <2>1, <2>2 DEF UnderWay, Both, ToSet
<1>5. ASSUME NEW i \in DOMAIN Stream PROVE Stream[i] \in UnderWay
  <2>1. i \in 1..Len(dartQ) \/ \E k \in 1..Len(mainQ) : i = Len(dartQ) + k
    <3>1. i \in 1..Len(dartQ) + Len(mainQ)
      BY <1>2
    <3>2. i \in 1..Len(dartQ) \/ i - Len(dartQ) \in 1..Len(mainQ)
      BY <1>3, <3>1
    <3>3. i = Len(dartQ) + (i - Len(dartQ))
      BY <1>3, <3>1
    <3>. QED BY <3>2, <3>3
  <2>. QED BY <1>2, <1>3, <2>1 DEF UnderWay, Both, ToSet
<1>. QED BY <1>4, <1>5

(* Until the message that ends it has been handled, a call that has ended  *)
(* is not forgotten in the list.                                           *)
LEMMA GhostsEnd ==
  ASSUME BaseInv, OrderInv, ListInv
  PROVE  NoGhost
<1>. SUFFICES ASSUME NEW k \in DOMAIN items, inv[items[k].obj] = "ended"
              PROVE  Ending(items[k].obj)
  BY DEF NoGhost
<1>1. PICK o \in Obj : items[k].obj = o
  BY ItemTypes DEF BaseInv, ModelTypes
<1>2. o \in ShownObjs /\ o \in Ended
  BY <1>1 DEF ShownObjs, Ended
<1>3. o \in Busy \/ o \in Leaving(UnderWay) \/ o \in Asked(UnderWay)
  BY <1>2 DEF ListInv, ListSound, Pending
<1>4. CASE o \in Busy
  <2>1. PICK t \in CbThreads : cb[t].o = o
    BY <1>4 DEF Busy
  <2>2. cb[t].pc \in {"idle", "incoming", "disconnected"}
    BY DEF BaseInv, TypeInv, TypeOK
  <2>3. cb[t].pc = "disconnected"
    BY <1>1, <2>1, <2>2, Sentinels DEF OrderInv, OneCallback, ListInv, IncomingLives
  <2>. QED BY <1>1, <2>1, <2>3 DEF Ending
<1>5. CASE o \in Leaving(UnderWay) \/ o \in Asked(UnderWay)
  <2>1. PICK m \in UnderWay : m.obj = o /\ m.name \in {"terminated", "header"}
    BY <1>5 DEF Leaving, Leaves, Asked, Asks
  <2>2. PICK i \in DOMAIN Stream : Stream[i] = m
    BY <2>1, Streamed
  <2>. QED BY <1>1, <2>1, <2>2 DEF Ending, InStream
<1>. QED BY <1>3, <1>4, <1>5

(* Arriving, of the properties, and Coming are the same.                   *)
LEMMA ArrivingIsComing ==
  ASSUME BaseInv, NEW o \in Obj
  PROVE  Arriving(o) <=> o \in Coming
<1>1. ASSUME o \in Coming PROVE Arriving(o)
  <2>1. CASE o \in Held
    BY <2>1 DEF Held, Registering, Arriving
  <2>2. CASE o \in Entering(UnderWay)
    <3>1. PICK m \in UnderWay : Enters(m) /\ m.obj = o
      BY <2>2 DEF Entering
    <3>2. PICK i \in DOMAIN Stream : Stream[i] = m
      BY <3>1, Streamed
    <3>. QED BY <3>1, <3>2 DEF Enters, Arriving, InStream
  <2>. QED BY <1>1, <2>1, <2>2 DEF Coming
<1>2. ASSUME Arriving(o) PROVE o \in Coming
  <2>1. CASE Registering(o) \/ \E t \in CbThreads : cb[t].pc = "incoming" /\ cb[t].o = o
    BY <2>1 DEF Coming, Held
  <2>2. CASE \E i \in DOMAIN Stream :
               /\ Stream[i].obj = o
               /\ \/ Stream[i].kind = "event" /\ Stream[i].name = "incoming"
                  \/ Stream[i].kind = "reply" /\ Stream[i].name = "invite"
    <3>1. PICK m \in UnderWay :
            /\ m.obj = o
            /\ \/ m.kind = "event" /\ m.name = "incoming"
               \/ m.kind = "reply" /\ m.name = "invite"
      BY <2>2, Streamed
    <3>2. m \in Msg \/ m \in Named \cup Answer
      BY DEF UnderWay, Both, ToSet, BaseInv, TypeInv, TypeOK, RepliesInv
    <3>3. m.kind = "reply" => m \in Answer
      BY <3>2 DEF Msg, Named
    <3>4. m.kind = "reply" => m.ok
      BY <3>1, <3>3, Sentinels DEF Answer, Rep, InviteReply
    <3>. QED BY <3>1, <3>4 DEF Coming, Entering, Enters
  <2>. QED BY <1>2, <2>1, <2>2 DEF Arriving, Registering, InStream
<1>. QED BY <1>1, <1>2

LEMMA AllListed ==
  ASSUME BaseInv, OrderInv, ListInv
  PROVE  NoLostCall
<1>1. ASSUME NEW o \in Obj, Alive(o) PROVE o \in ShownObjs \/ o \in Coming
  BY <1>1 DEF Alive, Unborn, Ended, Pending, ListInv, ListSound
<1>. QED BY <1>1, ArrivingIsComing DEF NoLostCall

(* A call that has ended in the engine does not stay in the list: the      *)
(* event that takes it out, or its continuation, is still to come,         *)
(* whatever else is handled between event, request and answer.             *)
THEOREM NoGhosts ==
  ASSUME DartClient
  PROVE  SafeSystem /\ []LateReuse => []NoGhost
<1>1. BaseInv /\ OrderInv /\ ListInv => NoGhost
  BY GhostsEnd
<1>. QED BY <1>1, SystemInvariant, PTL

(* No call is lost between the engine and the list: one that is alive is   *)
(* in the list, or the message that adds it is still to come.              *)
THEOREM NoLostCalls ==
  ASSUME DartClient
  PROVE  SafeSystem /\ []LateReuse => []NoLostCall
<1>1. BaseInv /\ OrderInv /\ ListInv => NoLostCall
  BY AllListed
<1>. QED BY <1>1, SystemInvariant, PTL

-----------------------------------------------------------------------------
(* A phone with no more calls than pjsua has slots gives none out twice,   *)
(* and needs no such assumption.                                           *)

SlotsApart ==
  /\ \A o \in Obj : inv[o] = "unborn" => slot[o] = NoWire
  /\ \A o, p \in Obj : o # p /\ slot[o] = slot[p] => slot[o] = NoWire

LEMMA FreshSlot ==
  ASSUME IsFiniteSet(Ids), MaxCalls <= Cardinality(Ids), TypeInv, SlotsApart,
         NEW o \in Obj, inv[o] = "unborn", NEW id \in Ids, FreeSlot(id)
  PROVE  \A p \in Obj : slot[p] # id
<1>1. ~(Ids \subseteq Used)
  <2>. SUFFICES ASSUME Ids \subseteq Used PROVE FALSE
    OBVIOUS
  <2>. DEFINE T == Obj \ {o}
              f == [i \in Ids |-> CHOOSE p \in Obj : slot[p] = i]
  <2>1. \A i \in Ids : f[i] \in Obj /\ slot[f[i]] = i
    BY DEF Used
  <2>2. slot[o] \notin Ids
    BY Sentinels DEF SlotsApart
  <2>3. f \in [Ids -> T]
    BY <2>1, <2>2
  <2>4. IsFiniteSet(Obj) /\ Cardinality(Obj) = MaxCalls /\ MaxCalls \in Nat
    BY EngineAssumption, FS_Interval DEF Obj
  <2>5. IsFiniteSet(T) /\ Cardinality(T) = MaxCalls - 1
    BY <2>4, FS_RemoveElement
  <2>6. Cardinality(Ids) \in Nat
    BY FS_CardinalityType
  <2>7. Cardinality(T) < Cardinality(Ids)
    BY <2>4, <2>5, <2>6
  <2>. HIDE DEF f, T
  <2>8. PICK x \in Ids, y \in Ids : x # y /\ f[x] = f[y]
    BY <2>3, <2>5, <2>7, FS_PigeonHole
  <2>. QED BY <2>1, <2>8
<1>. QED BY <1>1 DEF FreeSlot, Used

LEMMA StepSlots ==
  ASSUME IsFiniteSet(Ids), MaxCalls <= Cardinality(Ids), TypeInv, SlotsApart, [Next]_vars
  PROVE  SlotsApart'
<1>1. CASE \E t \in CbThreads : IncomingCall(t)
  <2>1. PICK o \in Obj, id \in Ids, st \in {"incoming"} :
          /\ inv[o] = "unborn" /\ FreeSlot(id)
          /\ inv' = [inv EXCEPT ![o] = st] /\ slot' = [slot EXCEPT ![o] = id]
    BY <1>1 DEF IncomingCall, Fresh
  <2>. QED BY <2>1, FreshSlot DEF SlotsApart, TypeInv, TypeOK
<1>2. CASE InviteMake
  <2>1. PICK o \in Obj, id \in Ids :
          /\ inv[o] = "unborn" /\ FreeSlot(id)
          /\ inv' = [inv EXCEPT ![o] = "calling"] /\ slot' = [slot EXCEPT ![o] = id]
    BY <1>2 DEF InviteMake, Fresh
  <2>. QED BY <2>1, FreshSlot DEF SlotsApart, TypeInv, TypeOK
<1>3. ASSUME slot' = slot, \A o \in Obj : inv'[o] = "unborn" => inv[o] = "unborn"
      PROVE  SlotsApart'
  BY <1>3 DEF SlotsApart
<1>4. ASSUME NEW t \in CbThreads, Callback(t), ~IncomingCall(t) PROVE SlotsApart'
  <2>1. slot' = slot
    BY <1>4 DEF Callback, IncomingPost, Provisional, Confirmed, Disconnected,
                DisconnectedPost, engine, session
  <2>2. \/ inv' = inv
        \/ \E o \in Obj : inv' = [inv EXCEPT ![o] = "confirmed"]
        \/ \E o \in Obj : inv' = [inv EXCEPT ![o] = "ended"]
    BY <1>4 DEF Callback, IncomingPost, Provisional, Confirmed, Disconnected,
                DisconnectedPost, engine, session
  <2>. QED BY <1>3, <2>1, <2>2 DEF TypeInv, TypeOK
<1>5. CASE (Worker /\ ~InviteMake) \/ Main \/ Client \/ UNCHANGED vars
  <2>1. slot' = slot
    BY <1>5
    DEF Worker, InviteFail, InviteWire, InvitePut, InviteDone, Accept, Hangup, Upgrade,
        SwitchLookup, SwitchDone, Conference, Main, MainEvent, MainRequest, MainHeader,
        Client, ClientTake, ClientSend, ClientTakeAndSend, engine, session, vars
  <2>2. inv' = inv \/ inv' = [inv EXCEPT ![Target] = "answered"]
    BY <1>5
    DEF Worker, InviteFail, InviteWire, InvitePut, InviteDone, Accept, Hangup, Upgrade,
        SwitchLookup, SwitchDone, Conference, Main, MainEvent, MainRequest, MainHeader,
        Client, ClientTake, ClientSend, ClientTakeAndSend, engine, session, vars
  <2>. QED BY <1>3, <2>1, <2>2 DEF TypeInv, TypeOK
<1>. QED BY <1>1, <1>2, <1>4, <1>5 DEF Next, System

(* With at least as many slots as calls, as in the runs, two calls never   *)
(* have the same slot, and what is proved from LateReuse holds of the      *)
(* system as it is.                                                        *)
THEOREM EnoughSlots ==
  ASSUME DartClient, IsFiniteSet(Ids), MaxCalls <= Cardinality(Ids)
  PROVE  SafeSystem => []LateReuse
<1>1. Init => SlotsApart
  BY DEF Init, SlotsApart
<1>2. TypeInv /\ SlotsApart /\ [Next]_vars => SlotsApart'
  BY StepSlots
<1>3. SlotsApart => LateReuse
  BY DEF SlotsApart, LateReuse
<1>4. Spec => []SlotsApart
  BY <1>1, <1>2, TypeInvariant, PTL DEF Spec
<1>. QED BY <1>3, <1>4, DartIsAClient, PTL

-----------------------------------------------------------------------------
(* Engine and list implement CallView, step by step.                       *)

LEMMA EngineLife ==
  ASSUME BaseInv, [Next]_vars, inv' # inv
  PROVE  \E o \in Obj :
           /\ \A p \in Obj : p # o => inv'[p] = inv[p]
           /\ \/ inv[o] = "unborn" /\ inv'[o] \in {"incoming", "calling"}
              \/ Alive(o) /\ inv'[o] \in {"answered", "confirmed", "ended"}
<1>. DEFINE Goal == \E o \in Obj :
           /\ \A p \in Obj : p # o => inv'[p] = inv[p]
           /\ \/ inv[o] = "unborn" /\ inv'[o] \in {"incoming", "calling"}
              \/ Alive(o) /\ inv'[o] \in {"answered", "confirmed", "ended"}
<1>0. ASSUME NEW o \in Obj, NEW st, inv' = [inv EXCEPT ![o] = st],
             \/ inv[o] = "unborn" /\ st \in {"incoming", "calling"}
             \/ Alive(o) /\ st \in {"answered", "confirmed", "ended"}
      PROVE  Goal
  <2>1. inv'[o] = st /\ \A p \in Obj : p # o => inv'[p] = inv[p]
    BY <1>0 DEF BaseInv, TypeInv, TypeOK
  <2>. QED BY <1>0, <2>1
<1>. HIDE DEF Goal
<1>1. ASSUME NEW t \in CbThreads, Callback(t) PROVE Goal
  <2>1. CASE IncomingCall(t)
    BY <1>0, <2>1 DEF IncomingCall, Fresh
  <2>2. CASE Confirmed(t)
    BY <1>0, <2>2 DEF Confirmed, Alive
  <2>3. CASE Disconnected(t)
    BY <1>0, <2>3 DEF Disconnected
  <2>. QED
    BY <1>1, <2>1, <2>2, <2>3
    DEF Callback, IncomingPost, Provisional, DisconnectedPost, engine, session
<1>2. ASSUME Worker PROVE Goal
  <2>1. CASE InviteMake
    <3>1. PICK o \in Obj : inv[o] = "unborn" /\ inv' = [inv EXCEPT ![o] = "calling"]
      BY <2>1 DEF InviteMake, Fresh
    <3>. QED BY <1>0, <3>1
  <2>2. CASE Accept
    <3>1. Found /\ inv[Target] \in {"incoming", "answered"}
          /\ inv' = [inv EXCEPT ![Target] = "answered"]
      BY <2>2 DEF Accept
    <3>2. Target \in Obj /\ Alive(Target)
      BY <3>1 DEF Found, Target, Alive, BaseInv, TypeInv, TypeOK
    <3>3. PICK o \in Obj : o = Target
      BY <3>2
    <3>4. Alive(o) /\ inv' = [inv EXCEPT ![o] = "answered"]
      BY <3>1, <3>2, <3>3
    <3>. QED BY <1>0, <3>4
  <2>. QED
    BY <1>2, <2>1, <2>2
    DEF Worker, InviteFail, InviteWire, InvitePut, InviteDone, Hangup, Upgrade,
        SwitchLookup, SwitchDone, Conference, engine, session
<1>3. CASE Main \/ Client \/ UNCHANGED vars
  BY <1>3
  DEF Main, MainEvent, MainRequest, MainHeader, Client, ClientTake, ClientSend,
      ClientTakeAndSend, engine, session, vars
<1>. QED BY <1>1, <1>2, <1>3 DEF Next, System, Goal

LEMMA StepMoves ==
  ASSUME DartClient, BaseInv, OrderInv, ListInv, LateReuse, [SystemNext]_svars
  PROVE  /\ Moves
         /\ \/ ShownObjs' = ShownObjs
            \/ /\ inv' = inv
               /\ \/ \E o \in Coming : ShownObjs' = ShownObjs \cup {o}
                  \/ \E o \in Ended \ Pending : ShownObjs' = ShownObjs \ {o}
<1>1. CASE EngineStep
  <2>1. Kept
    BY <1>1, CallbackList, WorkerList, MainList DEF EngineStep, System
  <2>2. items' = items
    BY <1>1 DEF EngineStep, model
  <2>. QED BY <2>1, <2>2 DEF Kept, ListStep, ShownObjs
<1>2. CASE Dart
  <2>1. inv' = inv
    BY <1>2
    DEF Dart, HandleIncoming, HandleProceeding, HandleConnected, HandleSwitched,
        HandleTerminated, HandleHeader, HandleReply, Take, engine, session
  <2>. QED BY <1>2, <2>1, DartList DEF Kept, ListStep
<1>3. CASE User
  <2>1. Kept
    BY <1>3, UserList
  <2>2. items' = items
    BY <1>3, UserSteps DEF model
  <2>. QED BY <2>1, <2>2 DEF Kept, ListStep, ShownObjs
<1>4. CASE Idle \/ UNCHANGED svars
  <2>1. UNCHANGED <<inv, cb, wk, mainQ, dartQ, items>>
    BY <1>4 DEF Idle, svars, vars, model
  <2>. QED
    BY <2>1 DEF Moves, Coming, Held, Registering, UnderWay, ShownObjs
<1>. QED BY <1>1, <1>2, <1>3, <1>4 DEF SystemNext

(* life and view, from the sets of the invariant.                          *)
Life1(o) == IF o \in Unborn THEN "none" ELSE IF o \in Ended THEN "over" ELSE "live"
View1(o) == IF o \in ShownObjs THEN "shown"
            ELSE IF o \in Unborn \cup Coming THEN "coming" ELSE "past"

ViewByStage ==
  life = [o \in Obj |-> Life1(o)] /\ view = [o \in Obj |-> View1(o)]

LEMMA ViewSets == BaseInv => ViewByStage
<1>. SUFFICES ASSUME BaseInv PROVE ViewByStage
  OBVIOUS
<1>1. \A o \in Obj : Arriving(o) <=> o \in Coming
  BY ArrivingIsComing
<1>2. \A o \in Obj : (CASE inv[o] = "unborn" -> "none"
                        [] inv[o] = "ended"  -> "over"
                        [] OTHER             -> "live") = Life1(o)
  <2>. SUFFICES ASSUME NEW o \in Obj
                PROVE  (CASE inv[o] = "unborn" -> "none"
                          [] inv[o] = "ended"  -> "over"
                          [] OTHER             -> "live") = Life1(o)
    OBVIOUS
  <2>1. CASE inv[o] = "unborn"
    BY <2>1 DEF Life1, Unborn
  <2>2. CASE inv[o] = "ended"
    BY <2>2 DEF Life1, Unborn, Ended
  <2>3. CASE inv[o] # "unborn" /\ inv[o] # "ended"
    BY <2>3 DEF Life1, Unborn, Ended
  <2>. QED BY <2>1, <2>2, <2>3
<1>3. view = [o \in Obj |-> View1(o)]
  BY <1>1 DEF view, View1, Unborn
<1>. QED BY <1>2, <1>3 DEF life, view, ViewByStage

LEMMA ViewSetsNext == BaseInv' => ViewByStage'
  BY ViewSets, PTL

LEMMA InitView == SystemInit => View!ViewInit
<1>. SUFFICES ASSUME SystemInit PROVE View!ViewInit
  OBVIOUS
<1>1. /\ \A o \in Obj : inv[o] = "unborn"
      /\ ShownObjs = {}
  BY DEF SystemInit, Init, ModelInit, ShownObjs
<1>2. \A o \in Obj : Life1(o) = "none" /\ View1(o) = "coming"
  BY <1>1 DEF Life1, View1, Unborn
<1>. QED BY <1>2, InitBase, ViewSets DEF ViewByStage, View!ViewInit

LEMMA StepView ==
  ASSUME DartClient, BaseInv, BaseInv', OrderInv, ListInv, ListInv', LateReuse,
         [SystemNext]_svars
  PROVE  [View!ViewNext]_View!vvars
<1>0. /\ life = [o \in Obj |-> Life1(o)] /\ view = [o \in Obj |-> View1(o)]
      /\ life' = [o \in Obj |-> Life1(o)'] /\ view' = [o \in Obj |-> View1(o)']
  BY ViewSets, ViewSetsNext DEF ViewByStage
<1>1. Moves /\ [Next]_vars
  BY StepMoves, SystemSteps
<1>2. CASE ShownObjs' = ShownObjs /\ inv' = inv
  <2>1. Unborn' = Unborn /\ Ended' = Ended
    BY <1>2 DEF Unborn, Ended
  <2>2. \A o \in Obj : Life1(o)' = Life1(o) /\ View1(o)' = View1(o)
    BY <1>1, <1>2, <2>1 DEF Life1, View1, Moves
  <2>. QED BY <1>0, <2>2 DEF View!vvars
<1>3. CASE inv' # inv
  <2>1. ShownObjs' = ShownObjs
    BY <1>3, StepMoves
  <2>2. PICK o \in Obj :
           /\ \A p \in Obj : p # o => inv'[p] = inv[p]
           /\ \/ inv[o] = "unborn" /\ inv'[o] \in {"incoming", "calling"}
              \/ Alive(o) /\ inv'[o] \in {"answered", "confirmed", "ended"}
    BY <1>1, <1>3, EngineLife
  <2>3. CASE inv[o] = "unborn" /\ inv'[o] \in {"incoming", "calling"}
    <3>1. Unborn' = Unborn \ {o} /\ Ended' = Ended /\ o \in Unborn /\ o \notin Ended
      BY <2>2, <2>3 DEF Unborn, Ended
    <3>2. o \in Coming' /\ o \notin ShownObjs
      <4>1. o \notin ShownObjs
        BY <2>3, Birth
      <4>2. o \in Pending'
        BY <3>1 DEF Pending
      <4>. QED BY <2>1, <4>1, <4>2 DEF ListInv, ListSound
    <3>3. \A p \in Obj : /\ View1(p)' = View1(p)
                         /\ Life1(p)' = IF p = o THEN "live" ELSE Life1(p)
      BY <1>1, <2>1, <3>1, <3>2 DEF Life1, View1, Moves
    <3>4. Life1(o) = "none"
      BY <3>1 DEF Life1
    <3>5. View!Begin(o)
      BY <1>0, <3>3, <3>4 DEF View!Begin
    <3>. QED BY <3>5 DEF View!ViewNext
  <2>4. CASE Alive(o) /\ inv'[o] = "ended"
    <3>1. Unborn' = Unborn /\ Ended' = Ended \cup {o} /\ o \notin Unborn /\ o \notin Ended
      BY <2>2, <2>4 DEF Unborn, Ended, Alive
    <3>2. \A p \in Obj : /\ View1(p)' = View1(p)
                         /\ Life1(p)' = IF p = o THEN "over" ELSE Life1(p)
      BY <1>1, <2>1, <3>1 DEF Life1, View1, Moves
    <3>3. Life1(o) = "live"
      BY <3>1 DEF Life1
    <3>4. View!End(o)
      BY <1>0, <3>2, <3>3 DEF View!End
    <3>. QED BY <3>4 DEF View!ViewNext
  <2>5. CASE Alive(o) /\ inv'[o] \in {"answered", "confirmed"}
    <3>1. Unborn' = Unborn /\ Ended' = Ended
      BY <2>2, <2>5 DEF Unborn, Ended, Alive
    <3>2. \A p \in Obj : Life1(p)' = Life1(p) /\ View1(p)' = View1(p)
      BY <1>1, <2>1, <3>1 DEF Life1, View1, Moves
    <3>. QED BY <1>0, <3>2 DEF View!vvars
  <2>. QED BY <2>2, <2>3, <2>4, <2>5
<1>4. ASSUME inv' = inv, NEW o \in Coming, ShownObjs' = ShownObjs \cup {o}
      PROVE  [View!ViewNext]_View!vvars
  <2>1. o \in Obj /\ o \in Pending /\ o \notin ShownObjs
    BY DEF ListInv, ListSound, Coming, Held, Entering
  <2>2. Unborn' = Unborn /\ Ended' = Ended
    BY <1>4 DEF Unborn, Ended
  <2>3. o \notin Unborn
    BY <2>1, Birth DEF Unborn
  <2>4. \A p \in Obj : /\ Life1(p)' = Life1(p)
                       /\ View1(p)' = IF p = o THEN "shown" ELSE View1(p)
    BY <1>1, <1>4, <2>2 DEF Life1, View1, Moves
  <2>5. Life1(o) # "none" /\ View1(o) = "coming"
    BY <2>1, <2>3 DEF Life1, View1
  <2>6. View!Show(o)
    BY <1>0, <2>1, <2>4, <2>5 DEF View!Show
  <2>. QED BY <2>1, <2>6 DEF View!ViewNext
<1>5. ASSUME inv' = inv, NEW o \in Ended \ Pending, ShownObjs' = ShownObjs \ {o}, o \in ShownObjs
      PROVE  [View!ViewNext]_View!vvars
  <2>1. o \in Obj /\ o \notin Coming /\ o \notin Unborn
    BY <1>5 DEF ListInv, ListSound, Ended, Unborn
  <2>2. Unborn' = Unborn /\ Ended' = Ended
    BY <1>5 DEF Unborn, Ended
  <2>3. o \notin Coming'
    BY <1>1, <2>1 DEF Moves
  <2>4. ASSUME NEW p \in Obj
        PROVE  /\ Life1(p)' = Life1(p)
               /\ View1(p)' = IF p = o THEN "past" ELSE View1(p)
    BY <1>1, <1>5, <2>1, <2>2, <2>3 DEF Life1, View1, Moves
  <2>5. Life1(o) = "over" /\ View1(o) = "shown"
    BY <1>5, <2>1 DEF Life1, View1
  <2>6. View!Hide(o)
    BY <1>0, <2>1, <2>4, <2>5 DEF View!Hide
  <2>. QED BY <2>1, <2>6 DEF View!ViewNext
<1>. QED BY <1>2, <1>3, <1>4, <1>5, StepMoves

(* The safety part of CallView: each call of the engine is shown once,     *)
(* not before it exists, is hidden only when it is over, and stays hidden. *)
THEOREM ShowsCalls ==
  ASSUME DartClient
  PROVE  SafeSystem /\ []LateReuse => View!ViewInit /\ [][View!ViewNext]_View!vvars
<1>1. SystemInit => View!ViewInit
  BY InitView
<1>2. /\ BaseInv /\ OrderInv /\ ListInv /\ BaseInv' /\ ListInv' /\ LateReuse
      /\ [SystemNext]_svars
      => [View!ViewNext]_View!vvars
  BY StepView
<1>. QED BY <1>1, <1>2, SystemInvariant, PTL DEF SafeSystem

-----------------------------------------------------------------------------
(* The states Dart shows.                                                  *)

IsConnected(m)  == m.kind = "event" /\ m.name = "connected"
IsProceeding(m) == m.kind = "event" /\ m.name = "proceeding"

ConnectedSent(o) == \E m \in UnderWay : IsConnected(m) /\ m.obj = o

(* The start time of a call has been set once connected has been handled,  *)
(* and then no other connected comes.                                      *)
StartsOK ==
  \A k \in DOMAIN items :
    LET o == items[k].obj IN
    /\ items[k].starts <= 1
    /\ items[k].st = "connected" => items[k].starts >= 1
    /\ items[k].starts >= 1 => /\ wasConnected[o] \/ inv[o] = "ended"
                               /\ ~ConnectedSent(o)

(* Nothing that would take a connected call back to call set-up is under   *)
(* way, and a call connected in the engine is so in Dart, or will be.      *)
StateOK ==
  /\ \A k \in DOMAIN items :
       LET o == items[k].obj IN
       items[k].starts >= 1 =>
         /\ \A m \in UnderWay : m.obj = o => ~IsProceeding(m) /\ ~Accepted(m)
         /\ Alive(o) /\ o \notin hungUp => items[k].st = "connected"
  /\ \A o \in Obj : Alive(o) /\ wasConnected[o] =>
       ConnectedSent(o) \/ \E k \in DOMAIN items : items[k].obj = o /\ items[k].starts >= 1

(* What is so when the engine tells of a call.                             *)
Told(m) ==
  /\ IsConnected(m) => ~wasConnected[m.obj] /\ Alive(m.obj)
  /\ IsProceeding(m) /\ "upgrade" \notin Methods => inv[m.obj] = "calling"
  /\ Accepted(m) => inv[m.obj] \in {"incoming", "answered"}

Sends ==
  /\ \A m \in UnderWay' : m \in UnderWay \/ Told(m)
  /\ \A m \in UnderWay : m.kind = "event" => m \in UnderWay'
  /\ \A o \in Obj : wasConnected'[o] => wasConnected[o] \/ ConnectedSent(o)'

LEMMA SentSets ==
  ASSUME BaseInv
  PROVE  /\ \A e \in Sent : Both(dartQ, Append(mainQ, e)) = UnderWay \cup {e}
         /\ \A r \in Sent : Both(Append(dartQ, r), mainQ) = UnderWay \cup {r}
         /\ \A e, r \in Sent :
              Both(Append(dartQ, r), Append(mainQ, e)) = UnderWay \cup {e, r}
<1>1. dartQ \in Seq(Sent) /\ mainQ \in Seq(Sent)
  BY QueueTypes DEF BaseInv
<1>2. ASSUME NEW e \in Sent
      PROVE  /\ Both(dartQ, Append(mainQ, e)) = UnderWay \cup {e}
             /\ Both(Append(dartQ, e), mainQ) = UnderWay \cup {e}
  BY <1>1, BothAppend DEF UnderWay
<1>3. ASSUME NEW e \in Sent, NEW r \in Sent
      PROVE  Both(Append(dartQ, r), Append(mainQ, e)) = UnderWay \cup {e, r}
  <2>1. PICK d \in Seq(Sent) : d = Append(dartQ, r)
    BY <1>1, BothAppend
  <2>2. Both(d, Append(mainQ, e)) = Both(d, mainQ) \cup {e}
    BY <1>1, BothAppend
  <2>. QED BY <1>2, <2>1, <2>2
<1>. QED BY <1>2, <1>3

LEMMA CallbackSends ==
  ASSUME BaseInv, OrderInv, NEW t \in CbThreads, Callback(t)
  PROVE  Sends
<1>0. dartQ' = dartQ
  BY DEF Callback, IncomingCall, IncomingPost, Provisional, Confirmed, Disconnected,
         DisconnectedPost
<1>1. ASSUME NEW e \in Msg, Post(e), Told(e),
             \A o \in Obj : wasConnected'[o] => wasConnected[o] \/ (IsConnected(e) /\ e.obj = o)
      PROVE  Sends
  <2>1. UnderWay' = UnderWay \cup {e}
    BY <1>0, <1>1, SentSets DEF Post, Sent, UnderWay
  <2>. QED BY <1>1, <2>1 DEF Sends, ConnectedSent
<1>2. ASSUME mainQ' = mainQ, \A o \in Obj : wasConnected'[o] => wasConnected[o] PROVE Sends
  <2>1. UnderWay' = UnderWay
    BY <1>0, <1>2 DEF UnderWay
  <2>. QED BY <1>2, <2>1 DEF Sends
<1>3. CASE IncomingCall(t) \/ Disconnected(t)
  BY <1>2, <1>3 DEF IncomingCall, Disconnected, fields
<1>4. CASE IncomingPost(t)
  <2>1. PICK o \in Obj, id \in WireIds : cb[t].o = o /\ cb[t].id = id
    BY <1>4 DEF IncomingPost, BaseInv, TypeInv, TypeOK, CallbackOK, WireIds
  <2>2. PICK e \in Msg : e = Event("incoming", id, o)
    BY EventType DEF EventNames
  <2>3. Told(e)
    BY <2>2 DEF Event, Told, IsConnected, IsProceeding, Accepted
  <2>. QED BY <1>1, <1>4, <2>1, <2>2, <2>3 DEF IncomingPost, engine, fields
<1>5. CASE Provisional(t)
  <2>1. PICK o \in Obj :
          /\ inv[o] = "calling" \/ o \in reinvited
          /\ Post(Event("proceeding", wireId[o], o)) /\ wasConnected' = wasConnected
    BY <1>5 DEF Provisional
  <2>2. PICK e \in Msg : e = Event("proceeding", wireId[o], o)
    BY EventType DEF EventNames, WireIds, BaseInv, TypeInv, TypeOK
  <2>3. Told(e)
    BY <2>1, <2>2
    DEF Event, Told, IsConnected, IsProceeding, Accepted, OrderInv, UpgradeOK
  <2>. QED BY <1>1, <2>1, <2>2, <2>3
<1>6. CASE Confirmed(t)
  <2>1. PICK o \in Obj :
          /\ inv[o] \in {"calling", "answered", "confirmed"}
          /\ wasConnected' = [wasConnected EXCEPT ![o] = TRUE]
          /\ IF wasConnected[o] THEN mainQ' = mainQ
             ELSE Post(Event("connected", wireId[o], o))
    BY <1>6 DEF Confirmed
  <2>2. PICK e \in Msg : e = Event("connected", wireId[o], o)
    BY EventType DEF EventNames, WireIds, BaseInv, TypeInv, TypeOK
  <2>3. IsConnected(e) /\ e.obj = o /\ ~IsProceeding(e) /\ ~Accepted(e)
    BY <2>2 DEF Event, IsConnected, IsProceeding, Accepted
  <2>4. \A p \in Obj : wasConnected'[p] => wasConnected[p] \/ p = o
    BY <2>1 DEF BaseInv, TypeInv, TypeOK
  <2>5. CASE wasConnected[o]
    BY <1>2, <2>1, <2>4, <2>5
  <2>6. CASE ~wasConnected[o]
    <3>1. Told(e)
      BY <2>1, <2>3, <2>6 DEF Told, Alive
    <3>. QED BY <1>1, <2>1, <2>2, <2>3, <2>4, <2>6, <3>1
  <2>. QED BY <2>5, <2>6
<1>7. CASE DisconnectedPost(t)
  <2>1. PICK o \in Obj, id \in Ids \cup {NoWire}, next \in Ids \cup {NoWire} :
          cb[t].o = o /\ cb[t].id = id /\ cb[t].next = next
    BY <1>7 DEF DisconnectedPost, BaseInv, TypeInv, TypeOK, CallbackOK
  <2>2. PICK w \in Msg, e \in Msg :
          w = Event("switched", next, o) /\ e = Event("terminated", id, o)
    BY EventType DEF EventNames, WireIds
  <2>3. Told(w) /\ Told(e)
    BY <2>2 DEF Event, Told, IsConnected, IsProceeding, Accepted
  <2>4. \A p \in Obj : wasConnected'[p] => wasConnected[p]
    BY <1>7 DEF DisconnectedPost, BaseInv, TypeInv, TypeOK
  <2>5. mainQ \in Seq(Sent) /\ dartQ \in Seq(Sent) /\ mainQ \in Seq(Msg)
        /\ w \in Sent /\ e \in Sent
    BY QueueTypes DEF BaseInv, TypeInv, TypeOK, Sent
  <2>6. CASE cb[t].focus /\ next # NoWire
    <3>1. mainQ' = mainQ \o <<w>> \o <<e>>
      BY <1>7, <2>1, <2>2, <2>6 DEF DisconnectedPost
    <3>2. PICK q \in Seq(Sent) : q = Append(mainQ, w) /\ q = mainQ \o <<w>>
      <4>1. Append(mainQ, w) \in Seq(Sent) /\ Append(mainQ, w) = mainQ \o <<w>>
        BY <2>5, AppendIsConcat
      <4>. QED BY <4>1
    <3>3. q \o <<e>> = Append(q, e)
      BY <2>5, AppendIsConcat
    <3>4. Both(dartQ, q) = UnderWay \cup {w} /\ Both(dartQ, Append(q, e)) = Both(dartQ, q) \cup {e}
      <4>1. Both(dartQ, q) = UnderWay \cup {w}
        BY <2>5, <3>2, SentSets
      <4>2. Both(dartQ, Append(q, e)) = Both(dartQ, q) \cup {e}
        BY <2>5, BothAppend
      <4>. QED BY <4>1, <4>2
    <3>5. UnderWay' = UnderWay \cup {w, e}
      BY <1>0, <3>1, <3>2, <3>3, <3>4 DEF UnderWay
    <3>. QED BY <2>3, <2>4, <3>5 DEF Sends
  <2>7. CASE ~(cb[t].focus /\ next # NoWire)
    <3>1. mainQ' = mainQ \o <<>> \o <<e>>
      BY <1>7, <2>1, <2>2, <2>7 DEF DisconnectedPost
    <3>2. Post(e)
      BY <2>5, <3>1 DEF Post
    <3>. QED BY <1>1, <2>3, <2>4, <3>2
  <2>. QED BY <2>6, <2>7
<1>. QED BY <1>3, <1>4, <1>5, <1>6, <1>7 DEF Callback

LEMMA WorkerSends ==
  ASSUME BaseInv, OrderInv, ListInv, LateReuse, Worker
  PROVE  Sends
<1>0. wasConnected' = wasConnected
  BY OtherSteady
<1>1. ASSUME UNCHANGED <<mainQ, dartQ>> PROVE Sends
  BY <1>0, <1>1 DEF Sends, UnderWay
<1>2. /\ wk.id \in WireIds /\ NoId \in WireIds /\ wk.m \in AllMethods
      /\ (IF wk.m = "invite" THEN wk.o ELSE wk.obj) \in Who \cup {NoObj}
  BY DEF BaseInv, TypeInv, TypeOK, WireIds, Who, Worker, InviteMake, InviteFail,
         InviteWire, InvitePut, InviteDone, Accept, Hangup, Upgrade, SwitchLookup,
         SwitchDone, Conference, AllMethods
<1>3. ASSUME NEW id \in WireIds, NEW ok \in BOOLEAN, Done(id, ok),
             wk.m = "accept" /\ ok => inv[wk.obj] \in {"incoming", "answered"}
      PROVE  \E r \in Sent : dartQ' = Append(dartQ, r) /\ Told(r)
  <2>1. PICK o \in Who \cup {NoObj} : o = IF wk.m = "invite" THEN wk.o ELSE wk.obj
    BY <1>2
  <2>2. PICK r \in Rep : r = Reply(wk.m, id, o, ok)
    BY <1>2, ReplyType
  <2>3. Told(r)
    BY <1>3, <2>1, <2>2 DEF Reply, Told, IsConnected, IsProceeding, Accepted
  <2>. QED BY <1>3, <2>1, <2>2, <2>3 DEF Done, Sent
<1>4. ASSUME mainQ' = mainQ, NEW r \in Sent, dartQ' = Append(dartQ, r), Told(r)
      PROVE  Sends
  <2>1. UnderWay' = UnderWay \cup {r}
    BY <1>4, SentSets DEF UnderWay
  <2>. QED BY <1>0, <1>4, <2>1 DEF Sends
<1>5. ASSUME NEW id \in WireIds, NEW o \in Obj, Post(Event("switched", id, o)),
             NEW r \in Sent, dartQ' = Append(dartQ, r), Told(r)
      PROVE  Sends
  <2>1. PICK e \in Msg : e = Event("switched", id, o)
    BY EventType DEF EventNames
  <2>2. Told(e) /\ e \in Sent
    BY <2>1 DEF Event, Told, IsConnected, IsProceeding, Accepted, Sent
  <2>3. UnderWay' = UnderWay \cup {e, r}
    BY <1>5, <2>1, <2>2, SentSets DEF UnderWay, Post
  <2>. QED BY <1>0, <1>5, <2>2, <2>3 DEF Sends
<1>6. CASE InviteMake \/ InvitePut
  BY <1>1, <1>6 DEF InviteMake, InvitePut
<1>7. CASE InviteFail \/ InviteWire
  <2>1. mainQ' = mainQ /\ wk.m = "invite" /\ (dartQ' = dartQ \/ Done(NoId, FALSE))
    BY <1>7 DEF InviteFail, InviteWire
  <2>2. Done(NoId, FALSE) => \E r \in Sent : dartQ' = Append(dartQ, r) /\ Told(r)
    BY <1>2, <1>3
  <2>. QED BY <1>1, <1>4, <2>1, <2>2
<1>8. CASE InviteDone
  <2>1. PICK o \in Obj, id \in Ids : wk.o = o /\ wireId[o] = id
    BY <1>8 DEF InviteDone, BaseInv, TableInv, RegisteringOK, SlotsUnique
  <2>2. PICK r \in Sent : dartQ' = Append(dartQ, r) /\ Told(r)
    BY <1>3, <1>8, <2>1 DEF InviteDone, WireIds
  <2>. QED BY <1>5, <1>8, <2>1, <2>2 DEF InviteDone, WireIds
<1>9. CASE Accept
  <2>1. CASE Found /\ inv[Target] \in {"incoming", "answered"} /\ Done(wk.id, TRUE)
    <3>1. inv[wk.obj] \in {"incoming", "answered"}
      BY <1>9, <2>1, FoundOwn DEF Accept, OwnMethods
    <3>. QED BY <1>2, <1>3, <1>4, <1>9, <2>1, <3>1 DEF Accept
  <2>2. CASE Done(wk.id, FALSE)
    BY <1>2, <1>3, <1>4, <1>9, <2>2 DEF Accept
  <2>. QED BY <1>9, <2>1, <2>2 DEF Accept
<1>10. CASE Hangup \/ Upgrade \/ Conference \/ SwitchLookup
  <2>1. /\ mainQ' = mainQ /\ wk.m # "accept"
        /\ dartQ' = dartQ \/ \E ok \in BOOLEAN : Done(wk.id, ok)
    BY <1>10 DEF Hangup, Upgrade, Conference, SwitchLookup
  <2>2. \A ok \in BOOLEAN :
          Done(wk.id, ok) => \E r \in Sent : dartQ' = Append(dartQ, r) /\ Told(r)
    BY <1>2, <1>3, <2>1
  <2>. QED BY <1>1, <1>4, <2>1, <2>2
<1>11. CASE SwitchDone
  <2>1. wk.o \in Obj /\ wk.m # "accept"
    BY <1>11 DEF SwitchDone, BaseInv, TypeInv, WorkerOK
  <2>2. PICK r \in Sent : dartQ' = Append(dartQ, r) /\ Told(r)
    BY <1>2, <1>3, <1>11, <2>1 DEF SwitchDone
  <2>. QED BY <1>2, <1>5, <1>11, <2>1, <2>2 DEF SwitchDone
<1>. QED BY <1>6, <1>7, <1>8, <1>9, <1>10, <1>11 DEF Worker

LEMMA MainSends ==
  ASSUME BaseInv, Main
  PROVE  Sends
<1>0. /\ wasConnected' = wasConnected
      /\ mainQ \in Seq(Sent) /\ dartQ \in Seq(Sent) /\ mainQ # <<>>
  BY OtherSteady, QueueTypes DEF BaseInv, Main, MainEvent, MainRequest, MainHeader, MainIdle
<1>1. /\ UnderWay = Both(dartQ, Tail(mainQ)) \cup {Head(mainQ)} /\ Tail(mainQ) \in Seq(Sent)
      /\ Both(Append(dartQ, Head(mainQ)), Tail(mainQ)) = UnderWay
  BY <1>0, BothDrop DEF UnderWay
<1>2. CASE MainEvent
  <2>1. UnderWay' = UnderWay
    BY <1>1, <1>2 DEF MainEvent, UnderWay
  <2>. QED BY <1>0, <2>1 DEF Sends
<1>3. CASE MainRequest
  <2>1. UnderWay = UnderWay' \cup {Head(mainQ)} /\ Head(mainQ).kind # "event"
    BY <1>1, <1>3 DEF MainRequest, UnderWay
  <2>. QED BY <1>0, <2>1 DEF Sends
<1>4. CASE MainHeader
  <2>1. Head(mainQ) \in Msg
    BY <1>0 DEF BaseInv, TypeInv, TypeOK
  <2>2. PICK r \in Rep : r = Reply("header", Head(mainQ).id, Head(mainQ).obj, TRUE)
    <3>1. Head(mainQ).id \in WireIds /\ Head(mainQ).obj \in Who \cup {NoObj}
      BY <2>1 DEF Msg, Who, WireIds
    <3>. QED BY <3>1, ReplyType DEF AllMethods
  <2>3. Told(r) /\ r \in Sent
    BY <2>2 DEF Reply, Told, IsConnected, IsProceeding, Accepted, Sent
  <2>4. PICK q \in Seq(Sent) : q = Tail(mainQ)
    BY <1>1
  <2>5. Both(Append(dartQ, r), q) = Both(dartQ, q) \cup {r}
    BY <1>0, <2>3, BothAppend
  <2>6. UnderWay' = Both(dartQ, Tail(mainQ)) \cup {r} /\ Head(mainQ).kind # "event"
    BY <1>4, <2>2, <2>4, <2>5 DEF MainHeader, UnderWay
  <2>. QED BY <1>0, <1>1, <2>3, <2>6 DEF Sends
<1>. QED BY <1>2, <1>3, <1>4 DEF Main

LEMMA UserSends ==
  ASSUME DartClient, BaseInv, User
  PROVE  Sends
<1>0. dartQ' = dartQ /\ wasConnected' = wasConnected
  BY UserSteps DEF ClientSend, engine, fields
<1>1. PICK m \in Methods, id \in WireIds, o \in Obj \cup {NoObj} : Post(Request(m, id, o))
  BY UserSteps
<1>2. PICK e \in Msg : e = Request(m, id, o)
  BY RequestType, EngineAssumption DEF DartClient
<1>3. Told(e) /\ e \in Sent
  BY <1>2 DEF Request, Told, IsConnected, IsProceeding, Accepted, Sent
<1>4. UnderWay' = UnderWay \cup {e}
  BY <1>0, <1>1, <1>2, <1>3, SentSets DEF Post, UnderWay
<1>. QED BY <1>0, <1>3, <1>4 DEF Sends

(* How a message that Dart handles changes a call of the list.             *)
Evolves(m, c, d) ==
  /\ d.obj = c.obj
  /\ IF IsConnected(m) /\ m.obj = c.obj
     THEN d.st = "connected" /\ d.starts = c.starts + 1
     ELSE /\ d.starts = c.starts
          /\ \/ d.st = c.st
             \/ IsProceeding(m) /\ m.obj = c.obj /\ d.st = "proceeding"
             \/ Accepted(m) /\ m.obj = c.obj /\ d.st = "accepting"
             \/ /\ m.kind = "reply" /\ m.name \in {"reject", "bye"} /\ m.ok
                /\ m.obj = c.obj /\ d.st \in {"rejecting", "disconnecting"}

NewShown(d) == /\ d.obj \notin ShownObjs
               /\ d.starts = 0 /\ d.st \in {"ringing", "dialing"}

(* The event of a call of the list is handled by that call.                *)
LEMMA OwnEvent ==
  ASSUME BaseInv, OrderInv, ListInv, LateReuse, Take, Life(Msg1), Msg1.name # "incoming",
         NEW k \in DOMAIN items
  PROVE  IsFirst(k, Msg1.id) <=> items[k].obj = Msg1.obj
<1>1. PICK o \in Obj : Msg1.obj = o /\ Msg1.id = slot[o] /\ inv[o] # "unborn"
  BY TakeRest, TakeType DEF MessageOK, Life, Past
<1>2. ~Gone(o) /\ slot[o] # NoWire
  <2>1. Msg1 \in UnderWay
    BY TakeRest
  <2>. QED BY <1>1, <2>1, Sentinels DEF Gone, ListInv, SlotOK
<1>3. ASSUME NEW j \in DOMAIN items PROVE items[j].id = Msg1.id <=> items[j].obj = o
  <2>1. items[j].obj \in Obj /\ items[j].obj \in ShownObjs /\ items[j].id = slot[items[j].obj]
    BY ItemTypes DEF BaseInv, ModelTypes, ShownObjs, ListInv, ItemIds
  <2>. QED BY <1>1, <1>2, <2>1 DEF LateReuse, Gone
<1>4. \A j \in DOMAIN items : j < k /\ items[j].obj = o /\ items[k].obj = o => FALSE
  <2>1. items \in Seq(CallModel)
    BY DEF BaseInv, ModelTypes
  <2>2. k \in Nat /\ \A j \in DOMAIN items : j = k => ~(j < k)
    BY <2>1
  <2>. QED BY <2>2 DEF ListInv, Distinct
<1>. QED BY <1>1, <1>3, <1>4 DEF IsFirst

LEMMA DartItems ==
  ASSUME DartClient, BaseInv, OrderInv, ListInv, LateReuse, Dart
  PROVE  /\ \A k \in DOMAIN items' :
              \/ NewShown(items'[k])
              \/ \E j \in DOMAIN items : Evolves(Msg1, items[j], items'[k])
         /\ \A j \in DOMAIN items :
              \/ items[j].obj \in Ended
              \/ \E k \in DOMAIN items' : Evolves(Msg1, items[j], items'[k])
<1>. DEFINE Goal ==
         /\ \A k \in DOMAIN items' :
              \/ NewShown(items'[k])
              \/ \E j \in DOMAIN items : Evolves(Msg1, items[j], items'[k])
         /\ \A j \in DOMAIN items :
              \/ items[j].obj \in Ended
              \/ \E k \in DOMAIN items' : Evolves(Msg1, items[j], items'[k])
<1>0. \A k \in DOMAIN items : items[k] \in CallModel
  BY DEF BaseInv, ModelTypes
<1>1. ASSUME DOMAIN items' = DOMAIN items,
             \A k \in DOMAIN items : Evolves(Msg1, items[k], items'[k])
      PROVE  Goal
  BY <1>1
<1>2. ASSUME ~IsConnected(Msg1) PROVE \A c : Evolves(Msg1, c, c)
  BY <1>2 DEF Evolves
<1>3. ASSUME Enters(Msg1), Take, NEW st \in {"ringing", "dialing"}, mainQ' = mainQ,
             Msg1.id \notin Shown => items' = Append(items, NewCall(Msg1.id, Msg1.obj, st)),
             Msg1.id \in Shown => items' = items
      PROVE  Goal
  <2>1. \A c : Evolves(Msg1, c, c)
    BY <1>2, <1>3 DEF Enters, IsConnected
  <2>2. CASE Msg1.id \in Shown
    BY <1>1, <1>3, <2>1, <2>2
  <2>3. CASE Msg1.id \notin Shown
    <3>1. items' = Append(items, NewCall(Msg1.id, Msg1.obj, st)) /\ items \in Seq(CallModel)
      BY <1>3, <2>3 DEF BaseInv, ModelTypes
    <3>2. Msg1.obj \notin ShownObjs
      <4>1. Msg1 \in UnderWay /\ MessageOK(Msg1)
        BY <1>3, TakeRest
      <4>2. Msg1.obj \in Coming
        BY <1>3, <4>1 DEF MessageOK, Coming, Entering
      <4>. QED BY <4>2 DEF ListInv, ListSound
    <3>3. PICK c : c = NewCall(Msg1.id, Msg1.obj, st) /\ NewShown(c)
      BY <1>3, <3>2 DEF NewCall, NewShown
    <3>4. /\ DOMAIN items' = 1..Len(items) + 1 /\ DOMAIN items = 1..Len(items)
          /\ \A k \in DOMAIN items : items'[k] = items[k]
          /\ items'[Len(items) + 1] = c /\ Len(items) \in Nat
      BY <3>1, <3>3
    <3>5. /\ \A k \in DOMAIN items' : k \in DOMAIN items \/ k = Len(items) + 1
          /\ DOMAIN items \subseteq DOMAIN items'
      BY <3>4
    <3>. QED BY <2>1, <3>3, <3>4, <3>5
  <2>. QED BY <2>2, <2>3
<1>. HIDE DEF Goal
<1>4. ASSUME HandleIncoming PROVE Goal
  <2>1. Enters(Msg1) /\ Take /\ mainQ' = mainQ
    BY <1>4 DEF HandleIncoming, Enters
  <2>2. /\ Msg1.id \notin Shown => items' = Append(items, NewCall(Msg1.id, Msg1.obj, "ringing"))
        /\ Msg1.id \in Shown => items' = items
    BY <1>4 DEF HandleIncoming, OnIncomingSip, model
  <2>. QED BY <1>3, <2>1, <2>2
<1>5. ASSUME HandleProceeding PROVE Goal
  <2>1. Take /\ IsProceeding(Msg1) /\ Life(Msg1) /\ ~IsConnected(Msg1) /\ Msg1.name # "incoming"
    BY <1>5 DEF HandleProceeding, IsProceeding, Life, IsConnected
  <2>2. DOMAIN items' = DOMAIN items
    BY <1>5 DEF HandleProceeding, OnProceeding
  <2>3. ASSUME NEW k \in DOMAIN items PROVE Evolves(Msg1, items[k], items'[k])
    <3>1. PICK c \in CallModel : c = items[k]
      BY <1>0
    <3>2. CASE IsFirst(k, Msg1.id)
      <4>1. items'[k] = [c EXCEPT !.st = "proceeding"] /\ c.obj = Msg1.obj
        BY <1>5, <2>1, <3>1, <3>2, OwnEvent DEF HandleProceeding, OnProceeding
      <4>2. PICK d : d = items'[k] /\ d.obj = c.obj /\ d.st = "proceeding" /\ d.starts = c.starts
        BY <4>1 DEF CallModel
      <4>. QED BY <2>1, <3>1, <4>1, <4>2 DEF Evolves
    <3>3. CASE ~IsFirst(k, Msg1.id)
      BY <1>2, <1>5, <2>1, <3>3 DEF HandleProceeding, OnProceeding
    <3>. QED BY <3>2, <3>3
  <2>. QED BY <1>1, <2>2, <2>3
<1>6. ASSUME HandleConnected PROVE Goal
  <2>1. Take /\ IsConnected(Msg1) /\ Life(Msg1) /\ Msg1.name # "incoming"
    BY <1>6 DEF HandleConnected, IsConnected, Life
  <2>2. DOMAIN items' = DOMAIN items
    BY <1>6 DEF HandleConnected, OnConnected
  <2>3. ASSUME NEW k \in DOMAIN items PROVE Evolves(Msg1, items[k], items'[k])
    <3>1. PICK c \in CallModel : c = items[k]
      BY <1>0
    <3>2. CASE IsFirst(k, Msg1.id)
      <4>1. /\ items'[k] = [c EXCEPT !.st = "connected", !.starts = @ + 1]
            /\ c.obj = Msg1.obj
        BY <1>6, <2>1, <3>1, <3>2, OwnEvent DEF HandleConnected, OnConnected
      <4>2. PICK d : /\ d = items'[k] /\ d.obj = c.obj /\ d.st = "connected"
                     /\ d.starts = c.starts + 1
        BY <4>1 DEF CallModel
      <4>. QED BY <2>1, <3>1, <4>1, <4>2 DEF Evolves
    <3>3. CASE ~IsFirst(k, Msg1.id)
      <4>1. items'[k] = items[k] /\ items[k].obj # Msg1.obj
        BY <1>6, <2>1, <3>3, OwnEvent DEF HandleConnected, OnConnected
      <4>. QED BY <4>1 DEF Evolves
    <3>. QED BY <3>2, <3>3
  <2>. QED BY <1>1, <2>2, <2>3
<1>7. ASSUME HandleSwitched \/ HandleTerminated PROVE Goal
  <2>1. items' = items /\ ~IsConnected(Msg1)
    BY <1>7 DEF HandleSwitched, OnSwitched, HandleTerminated, model, IsConnected
  <2>. QED BY <1>1, <1>2, <2>1
<1>8. ASSUME HandleHeader PROVE Goal
  <2>1. Take /\ Asks(Msg1) /\ ~IsConnected(Msg1) /\ items' = Without(Msg1.obj)
    BY <1>8 DEF HandleHeader, Asks, IsConnected, OnTerminatedResume
  <2>2. \A c : Evolves(Msg1, c, c)
    BY <1>2, <2>1
  <2>3. items \in Seq(CallModel) /\ Distinct
    BY DEF BaseInv, ModelTypes, ListInv
  <2>4. PICK o, s : o = Msg1.obj /\ s = Without(o)
    OBVIOUS
  <2>5. /\ {s[k].obj : k \in DOMAIN s} = ShownObjs \ {o}
        /\ \A k \in DOMAIN s : \E j \in DOMAIN items : s[k] = items[j]
        /\ \A j, k \in DOMAIN s : s[j].obj = s[k].obj => j = k
    BY <2>3, <2>4, WithoutObj
  <2>6. Msg1.obj \in Ended
    <3>1. Msg1 \in UnderWay /\ MessageOK(Msg1)
      BY <2>1, TakeRest
    <3>2. Msg1.obj \in Asked(UnderWay)
      BY <2>1, <3>1 DEF MessageOK, Asked
    <3>. QED BY <3>2 DEF ListInv, ListSound
  <2>7. ASSUME NEW j \in DOMAIN items, items[j].obj \notin Ended
        PROVE  \E k \in DOMAIN s : s[k] = items[j]
    <3>1. items[j].obj \in ShownObjs \ {o}
      BY <2>4, <2>6, <2>7 DEF ShownObjs
    <3>2. PICK k \in DOMAIN s : s[k].obj = items[j].obj
      BY <2>5, <3>1
    <3>3. PICK i \in DOMAIN items : s[k] = items[i]
      BY <2>5
    <3>. QED BY <2>3, <3>2, <3>3 DEF Distinct
  <2>8. items' = s
    BY <2>1, <2>4
  <2>. QED BY <2>2, <2>5, <2>7, <2>8 DEF Goal
<1>9. ASSUME HandleReply PROVE Goal
  <2>1. Take /\ Msg1.kind = "reply" /\ ~IsConnected(Msg1) /\ mainQ' = mainQ
    BY <1>9 DEF HandleReply, IsConnected
  <2>2. \A c : Evolves(Msg1, c, c)
    BY <1>2, <2>1
  <2>3. CASE items' = items
    BY <1>1, <2>2, <2>3
  <2>4. CASE Msg1.ok /\ Msg1.name = "invite" /\ Invited(Msg1.id, Msg1.obj)
    <3>1. Enters(Msg1) /\ items' = Append(items, NewCall(Msg1.id, Msg1.obj, "dialing"))
      BY <2>1, <2>4 DEF Enters, Invited
    <3>2. Msg1.id \notin Shown
      <4>1. Kept /\ \E o \in Coming : ShownObjs' = ShownObjs \cup {o}
        BY <2>1, <3>1, EnterTaken
      <4>2. PICK o \in Obj : Msg1.obj = o /\ Msg1.id = slot[o] /\ o \in Coming
        <5>1. Msg1 \in UnderWay /\ MessageOK(Msg1)
          BY <2>1, TakeRest
        <5>. QED BY <3>1, <5>1 DEF MessageOK, Coming, Entering
      <4>3. o \notin ShownObjs /\ slot[o] # NoWire
        <5>1. inv[o] # "unborn"
          BY <4>2, Birth
        <5>. QED BY <4>2, <5>1, Sentinels DEF ListInv, ListSound, SlotOK
      <4>4. ASSUME NEW j \in DOMAIN items, items[j].id = Msg1.id PROVE FALSE
        <5>1. /\ items[j].obj \in Obj /\ items[j].obj \in ShownObjs
              /\ slot[items[j].obj] = slot[o]
          BY <4>2, <4>4, ItemTypes DEF BaseInv, ModelTypes, ShownObjs, ListInv, ItemIds
        <5>2. Msg1 \in UnderWay
          BY <2>1, TakeRest
        <5>. QED BY <4>2, <4>3, <5>1, <5>2 DEF LateReuse, Gone
      <4>. QED BY <4>4 DEF Shown
    <3>. QED BY <1>3, <2>1, <3>1, <3>2
  <2>5. ASSUME NEW st, Answered(Msg1.obj, st), Msg1.ok,
               \/ Msg1.name = "accept" /\ st = "accepting"
               \/ Msg1.name \in {"reject", "bye"} /\ st \in {"rejecting", "disconnecting"}
        PROVE  Goal
    <3>1. DOMAIN items' = DOMAIN items
      BY <2>5 DEF Answered
    <3>2. ASSUME NEW k \in DOMAIN items PROVE Evolves(Msg1, items[k], items'[k])
      <4>1. PICK c \in CallModel : c = items[k]
        BY <1>0
      <4>2. CASE c.obj = Msg1.obj
        <5>1. items'[k] = [c EXCEPT !.st = st]
          BY <2>5, <4>1, <4>2 DEF Answered
        <5>2. PICK d : d = items'[k] /\ d.obj = c.obj /\ d.st = st /\ d.starts = c.starts
          BY <5>1 DEF CallModel
        <5>. QED BY <2>1, <2>5, <4>1, <4>2, <5>2 DEF Evolves, Accepted
      <4>3. CASE c.obj # Msg1.obj
        BY <2>2, <2>5, <4>1, <4>3 DEF Answered
      <4>. QED BY <4>2, <4>3
    <3>. QED BY <1>1, <3>1, <3>2
  <2>6. \/ items' = items
        \/ Msg1.ok /\ Msg1.name = "invite" /\ Invited(Msg1.id, Msg1.obj)
        \/ Msg1.ok /\ Msg1.name = "accept" /\ Answered(Msg1.obj, "accepting")
        \/ Msg1.ok /\ Msg1.name = "reject" /\ Answered(Msg1.obj, "rejecting")
        \/ Msg1.ok /\ Msg1.name = "bye" /\ Answered(Msg1.obj, "disconnecting")
    BY <1>9 DEF HandleReply, model, ConfSet
  <2>. QED BY <2>3, <2>4, <2>5, <2>6
<1>. QED
  BY <1>4, <1>5, <1>6, <1>7, <1>8, <1>9 DEF Dart, Goal

(* What Dart leaves under way, and the header it may ask for.              *)
LEMMA DartQueues ==
  ASSUME DartClient, BaseInv, OrderInv, ListInv, Dart
  PROVE  /\ Take /\ Rest \subseteq UnderWay'
         /\ \A m \in UnderWay' : m \in Rest \/ m.kind = "request"
<1>1. Take
  BY DEF Dart, HandleIncoming, HandleProceeding, HandleConnected,
         HandleSwitched, HandleTerminated, HandleHeader, HandleReply
<1>2. CASE mainQ' = mainQ
  BY <1>1, <1>2 DEF Take, UnderWay, Rest
<1>3. CASE mainQ' # mainQ
  <2>1. HandleTerminated /\ Msg1.id \in Shown
    BY <1>3 DEF Dart, HandleIncoming, HandleProceeding, HandleConnected,
                HandleSwitched, HandleTerminated, HandleHeader, HandleReply
  <2>2. PICK k \in DOMAIN items : Post(Request("header", Msg1.id, items[k].obj))
    BY <2>1 DEF HandleTerminated
  <2>3. items[k].obj \in Obj /\ Msg1.id \in WireIds
    BY <1>1, TakeType, ItemTypes DEF BaseInv, ModelTypes
  <2>4. PICK e \in Sent : e = Request("header", Msg1.id, items[k].obj)
    BY <2>3, RequestType DEF DartClient, AllMethods, Sent
  <2>5. e.kind = "request"
    BY <2>4 DEF Request
  <2>6. dartQ \in Seq(Sent) /\ mainQ \in Seq(Sent) /\ dartQ # <<>> /\ dartQ' = Tail(dartQ)
    BY <1>1, QueueTypes DEF BaseInv, Take
  <2>7. PICK d \in Seq(Sent) : d = Tail(dartQ)
    BY <2>6, BothTake
  <2>8. Both(d, Append(mainQ, e)) = Both(d, mainQ) \cup {e}
    BY <2>6, BothAppend
  <2>9. UnderWay' = Rest \cup {e}
    BY <2>2, <2>4, <2>6, <2>7, <2>8 DEF Post, UnderWay, Rest
  <2>. QED BY <1>1, <2>5, <2>9
<1>. QED BY <1>2, <1>3

(* The invariant of the states, step by step.  First the engine: what it   *)
(* tells of a call is true of the call when it is posted.                  *)
LEMMA TellsTrue ==
  ASSUME BaseInv, OrderInv, ListInv, Steady, Sends, items' = items, StartsOK
  PROVE  /\ StartsOK'
         /\ "upgrade" \notin Methods /\ StateOK => StateOK'
<1>1. ASSUME NEW k \in DOMAIN items
      PROVE  /\ items[k].obj \in Obj /\ inv[items[k].obj] # "unborn"
             /\ items[k].starts \in Nat
  <2>1. items[k] \in CallModel /\ items[k].obj \in Obj /\ items[k].obj \in ShownObjs
    BY ItemTypes DEF BaseInv, ModelTypes, ShownObjs
  <2>. QED BY <2>1, Birth, CallTypes
<1>2. \A o \in Obj : wasConnected[o] => inv[o] \in {"confirmed", "ended"}
  BY DEF OrderInv, ConnectedOK
<1>3. ASSUME NEW k \in DOMAIN items, items[k].starts >= 1, NEW m \in UnderWay',
             m.obj = items[k].obj
      PROVE  /\ ~IsConnected(m)
             /\ m \in UnderWay \/ ("upgrade" \notin Methods => ~IsProceeding(m) /\ ~Accepted(m))
  <2>1. wasConnected[m.obj] \/ inv[m.obj] = "ended"
    BY <1>3 DEF StartsOK
  <2>2. inv[m.obj] \in {"confirmed", "ended"} /\ ~ConnectedSent(m.obj)
    BY <1>1, <1>2, <1>3, <2>1 DEF StartsOK
  <2>3. CASE m \in UnderWay
    BY <2>2, <2>3 DEF ConnectedSent
  <2>4. CASE Told(m)
    BY <2>1, <2>2, <2>4 DEF Told, Alive
  <2>. QED BY <2>3, <2>4 DEF Sends
<1>4. StartsOK'
  <2>1. ASSUME NEW k \in DOMAIN items
        PROVE  LET o == items[k].obj IN
               /\ items[k].starts <= 1
               /\ items[k].st = "connected" => items[k].starts >= 1
               /\ items[k].starts >= 1 => /\ wasConnected'[o] \/ inv'[o] = "ended"
                                          /\ ~ConnectedSent(o)'
    <3>1. PICK o \in Obj : o = items[k].obj /\ inv[o] # "unborn"
      BY <1>1
    <3>2. items[k].starts >= 1 => wasConnected[o] \/ inv[o] = "ended"
      BY <3>1 DEF StartsOK
    <3>3. items[k].starts >= 1 => wasConnected'[o] \/ inv'[o] = "ended"
      BY <3>1, <3>2 DEF Steady
    <3>4. items[k].starts >= 1 => ~ConnectedSent(o)'
      BY <1>3, <3>1 DEF ConnectedSent
    <3>5. items[k].starts <= 1 /\ (items[k].st = "connected" => items[k].starts >= 1)
      BY DEF StartsOK
    <3>. QED BY <3>1, <3>3, <3>4, <3>5
  <2>. QED BY <2>1 DEF StartsOK
<1>5. ASSUME NEW o \in Obj, inv[o] # "unborn", Alive(o)'
      PROVE  Alive(o) /\ (o \in hungUp => o \in hungUp')
  <2>1. inv'[o] # "ended"
    BY <1>5 DEF Alive
  <2>2. inv[o] # "ended" /\ (o \in hungUp => o \in hungUp')
    BY <1>5, <2>1 DEF Steady
  <2>. QED BY <1>5, <2>2 DEF Alive
<1>6. ASSUME "upgrade" \notin Methods, StateOK PROVE StateOK'
  <2>1. ASSUME NEW k \in DOMAIN items, items[k].starts >= 1
        PROVE  LET o == items[k].obj IN
               /\ \A m \in UnderWay' : m.obj = o => ~IsProceeding(m) /\ ~Accepted(m)
               /\ Alive(o)' /\ o \notin hungUp' => items[k].st = "connected"
    <3>1. PICK o \in Obj : o = items[k].obj /\ inv[o] # "unborn"
      BY <1>1
    <3>2. /\ \A m \in UnderWay : m.obj = o => ~IsProceeding(m) /\ ~Accepted(m)
          /\ Alive(o) /\ o \notin hungUp => items[k].st = "connected"
      BY <1>6, <2>1, <3>1 DEF StateOK
    <3>3. \A m \in UnderWay' : m.obj = o => ~IsProceeding(m) /\ ~Accepted(m)
      BY <1>3, <1>6, <2>1, <3>1, <3>2
    <3>. QED BY <1>5, <3>1, <3>2, <3>3
  <2>2. ASSUME NEW o \in Obj, Alive(o)', wasConnected'[o], ~ConnectedSent(o)'
        PROVE  \E k \in DOMAIN items : items[k].obj = o /\ items[k].starts >= 1
    <3>1. wasConnected[o]
      BY <2>2 DEF Sends
    <3>2. Alive(o)
      BY <1>2, <1>5, <2>2, <3>1
    <3>3. ~ConnectedSent(o)
      BY <2>2 DEF Sends, ConnectedSent, IsConnected
    <3>. QED BY <1>6, <3>1, <3>2, <3>3 DEF StateOK
  <2>. QED BY <2>1, <2>2 DEF StateOK
<1>. QED BY <1>4, <1>6

(* Then Dart: a message that is handled comes before what is left.         *)
LEMMA HandlesTrue ==
  ASSUME DartClient, BaseInv, OrderInv, ListInv, LateReuse, Dart, StartsOK
  PROVE  /\ StartsOK'
         /\ "upgrade" \notin Methods /\ StateOK => StateOK'
<1>1. /\ Take /\ Rest \subseteq UnderWay' /\ UnderWay = Rest \cup {Msg1}
      /\ \A m \in UnderWay' : m \in Rest \/ m.kind = "request"
      /\ MessageOK(Msg1) /\ Past(Msg1)
      /\ \A m \in Rest : ListedFirst(Msg1, m) /\ Follows(Msg1, m)
      /\ UNCHANGED <<inv, wasConnected, hungUp>>
  BY DartQueues, TakeRest DEF Take, engine, session, fields
<1>2. /\ \A k \in DOMAIN items' :
           \/ NewShown(items'[k])
           \/ \E j \in DOMAIN items : Evolves(Msg1, items[j], items'[k])
      /\ \A j \in DOMAIN items :
           \/ items[j].obj \in Ended
           \/ \E k \in DOMAIN items' : Evolves(Msg1, items[j], items'[k])
  BY DartItems
<1>3. \A j \in DOMAIN items : items[j].obj \in Obj /\ items[j].starts \in Nat
  BY ItemTypes, CallTypes DEF BaseInv, ModelTypes
<1>4. \A m \in UnderWay' : IsConnected(m) \/ IsProceeding(m) \/ Accepted(m) => m \in Rest
  BY <1>1 DEF IsConnected, IsProceeding, Accepted
<1>5. ASSUME IsConnected(Msg1), NEW m \in UnderWay', m.obj = Msg1.obj
      PROVE  /\ ~IsConnected(m) /\ ~Accepted(m)
             /\ "upgrade" \notin Methods => ~IsProceeding(m)
  <2>1. m \in Rest => ~IsConnected(m) /\ ("upgrade" \notin Methods => ~IsProceeding(m))
    BY <1>1, <1>5, Ranks DEF Follows, Life, IsConnected, IsProceeding
  <2>2. m \in Rest => ~Accepted(m)
    BY <1>1, <1>5 DEF ListedFirst, IsConnected
  <2>. QED BY <1>4, <2>1, <2>2
<1>6. \A o : ~ConnectedSent(o) => \A m \in UnderWay' : m.obj = o => ~IsConnected(m)
  BY <1>1, <1>4 DEF ConnectedSent
<1>7. StartsOK'
  <2>1. ASSUME NEW k \in DOMAIN items'
        PROVE  LET o == items'[k].obj IN
               /\ items'[k].starts <= 1
               /\ items'[k].st = "connected" => items'[k].starts >= 1
               /\ items'[k].starts >= 1 =>
                   /\ wasConnected[o] \/ inv[o] = "ended"
                   /\ \A m \in UnderWay' : m.obj = o => ~IsConnected(m)
    <3>1. CASE NewShown(items'[k])
      BY <3>1 DEF NewShown
    <3>2. ASSUME NEW j \in DOMAIN items, Evolves(Msg1, items[j], items'[k]),
                 IsConnected(Msg1), Msg1.obj = items[j].obj
          PROVE  /\ items'[k].starts = 1 /\ items'[k].obj = Msg1.obj
                 /\ wasConnected[Msg1.obj] \/ inv[Msg1.obj] = "ended"
                 /\ \A m \in UnderWay' : m.obj = Msg1.obj => ~IsConnected(m)
      <4>1. ConnectedSent(items[j].obj)
        BY <1>1, <3>2 DEF ConnectedSent
      <4>2. items[j].starts \in Nat /\ ~(items[j].starts >= 1)
        BY <1>3, <4>1 DEF StartsOK
      <4>3. items[j].starts = 0
        BY <4>2
      <4>4. items'[k].starts = 1 /\ items'[k].obj = Msg1.obj
        BY <3>2, <4>3 DEF Evolves
      <4>5. wasConnected[Msg1.obj] \/ inv[Msg1.obj] = "ended"
        BY <1>1, <3>2 DEF Past, Life, IsConnected
      <4>6. \A m \in UnderWay' : m.obj = Msg1.obj => ~IsConnected(m)
        BY <1>5, <3>2
      <4>. QED BY <4>4, <4>5, <4>6
    <3>3. ASSUME NEW j \in DOMAIN items, Evolves(Msg1, items[j], items'[k]),
                 ~(IsConnected(Msg1) /\ Msg1.obj = items[j].obj)
          PROVE  /\ items'[k].starts = items[j].starts /\ items'[k].obj = items[j].obj
                 /\ items'[k].st = "connected" => items[j].st = "connected"
      BY <3>3 DEF Evolves
    <3>4. CASE \E j \in DOMAIN items : Evolves(Msg1, items[j], items'[k])
      <4>1. PICK j \in DOMAIN items : Evolves(Msg1, items[j], items'[k])
        BY <3>4
      <4>2. CASE IsConnected(Msg1) /\ Msg1.obj = items[j].obj
        BY <3>2, <4>1, <4>2
      <4>3. CASE ~(IsConnected(Msg1) /\ Msg1.obj = items[j].obj)
        BY <1>6, <3>3, <4>1, <4>3 DEF StartsOK
      <4>. QED BY <4>2, <4>3
    <3>. QED BY <1>2, <3>1, <3>4
  <2>. QED BY <1>1, <2>1 DEF StartsOK, ConnectedSent
<1>8. ASSUME "upgrade" \notin Methods, StateOK PROVE StateOK'
  <2>1. ASSUME NEW k \in DOMAIN items', items'[k].starts >= 1
        PROVE  LET o == items'[k].obj IN
               /\ \A m \in UnderWay' : m.obj = o => ~IsProceeding(m) /\ ~Accepted(m)
               /\ Alive(o) /\ o \notin hungUp => items'[k].st = "connected"
    <3>1. ~NewShown(items'[k])
      BY <2>1 DEF NewShown
    <3>2. PICK j \in DOMAIN items : Evolves(Msg1, items[j], items'[k])
      BY <1>2, <3>1
    <3>3. items'[k].obj = items[j].obj
      BY <3>2 DEF Evolves
    <3>4. CASE IsConnected(Msg1) /\ Msg1.obj = items[j].obj
      BY <1>5, <1>8, <3>2, <3>3, <3>4 DEF Evolves
    <3>5. CASE ~(IsConnected(Msg1) /\ Msg1.obj = items[j].obj)
      <4>1. items[j].starts >= 1
        BY <2>1, <3>2, <3>5 DEF Evolves
      <4>2. /\ \A m \in UnderWay : m.obj = items[j].obj => ~IsProceeding(m) /\ ~Accepted(m)
            /\ Alive(items[j].obj) /\ items[j].obj \notin hungUp => items[j].st = "connected"
        BY <1>8, <4>1 DEF StateOK
      <4>3. \A m \in UnderWay' : m.obj = items[j].obj => ~IsProceeding(m) /\ ~Accepted(m)
        BY <1>1, <1>4, <4>2
      <4>4. \/ items'[k].st = items[j].st
            \/ /\ Msg1.kind = "reply" /\ Msg1.name \in {"reject", "bye"} /\ Msg1.ok
               /\ Msg1.obj = items[j].obj
        BY <1>1, <3>2, <3>5, <4>2 DEF Evolves
      <4>5. items'[k].st = items[j].st \/ items[j].obj \in hungUp \/ inv[items[j].obj] = "ended"
        BY <1>1, <4>4 DEF MessageOK
      <4>. QED BY <1>1, <3>3, <4>2, <4>3, <4>5 DEF Alive
    <3>. QED BY <3>4, <3>5
  <2>2. ASSUME NEW o \in Obj, Alive(o), NEW j \in DOMAIN items, items[j].obj = o,
               items[j].starts >= 1 \/ (IsConnected(Msg1) /\ Msg1.obj = o)
        PROVE  \E k \in DOMAIN items' : items'[k].obj = o /\ items'[k].starts >= 1
    <3>1. o \notin Ended
      BY <2>2 DEF Ended, Alive
    <3>2. PICK k \in DOMAIN items' : Evolves(Msg1, items[j], items'[k])
      BY <1>2, <2>2, <3>1
    <3>3. items'[k].obj = o /\ items'[k].starts >= 1
      BY <1>3, <2>2, <3>2 DEF Evolves
    <3>. QED BY <3>3
  <2>3. ASSUME NEW o \in Obj, Alive(o), IsConnected(Msg1), Msg1.obj = o
        PROVE  \E j \in DOMAIN items : items[j].obj = o
    <3>1. o \in Pending
      BY <2>3 DEF Alive, Pending, Unborn, Ended
    <3>2. Life(Msg1) /\ ~Enters(Msg1)
      BY <2>3 DEF IsConnected, Life, Enters
    <3>3. o \notin Held
      BY <1>1, <2>3, <3>2 DEF MessageOK
    <3>4. o \notin Entering(UnderWay)
      BY <1>1, <2>3, <3>2 DEF Entering, ListedFirst
    <3>. QED BY <3>1, <3>3, <3>4 DEF ListInv, ListSound, Coming, ShownObjs
  <2>4. ASSUME NEW o \in Obj, Alive(o), wasConnected[o],
               \A m \in UnderWay' : m.obj = o => ~IsConnected(m)
        PROVE  \E k \in DOMAIN items' : items'[k].obj = o /\ items'[k].starts >= 1
    <3>1. CASE ConnectedSent(o)
      <4>1. IsConnected(Msg1) /\ Msg1.obj = o
        BY <1>1, <2>4, <3>1 DEF ConnectedSent
      <4>. QED BY <2>2, <2>3, <2>4, <4>1
    <3>2. CASE ~ConnectedSent(o)
      BY <1>8, <2>2, <2>4, <3>2 DEF StateOK
    <3>. QED BY <3>1, <3>2
  <2>. QED BY <1>1, <2>1, <2>4 DEF StateOK, ConnectedSent, Alive
<1>. QED BY <1>7, <1>8

LEMMA StepStates ==
  ASSUME DartClient, BaseInv, OrderInv, ListInv, LateReuse, [SystemNext]_svars, StartsOK
  PROVE  /\ StartsOK'
         /\ "upgrade" \notin Methods /\ StateOK => StateOK'
<1>1. Steady
  BY SystemSteps, StepSteady
<1>2. CASE EngineStep
  <2>1. items' = items /\ Sends
    BY <1>2, CallbackSends, WorkerSends, MainSends DEF EngineStep, System, model
  <2>. QED BY <1>1, <2>1, TellsTrue
<1>3. CASE User
  <2>1. items' = items /\ Sends
    BY <1>3, UserSteps, UserSends DEF model
  <2>. QED BY <1>1, <2>1, TellsTrue
<1>4. CASE Idle \/ UNCHANGED svars
  <2>1. items' = items /\ UnderWay' = UnderWay /\ wasConnected' = wasConnected
    BY <1>4 DEF Idle, svars, vars, model, UnderWay
  <2>2. Sends
    BY <2>1 DEF Sends
  <2>. QED BY <1>1, <2>1, <2>2, TellsTrue
<1>. QED BY <1>2, <1>3, <1>4, HandlesTrue DEF SystemNext

LEMMA InitStates == SystemInit => StartsOK /\ StateOK
  BY DEF SystemInit, Init, ModelInit, StartsOK, StateOK

LEMMA StatesAgree ==
  ASSUME BaseInv, OrderInv, ListInv, StartsOK, StateOK
  PROVE  StateAgrees
<1>. SUFFICES ASSUME Quiet, NEW k \in DOMAIN items
              PROVE  LET o == items[k].obj IN
                     /\ wasConnected[o] /\ o \notin hungUp => items[k].st = "connected"
                     /\ ~wasConnected[o] => items[k].st # "connected"
  BY DEF StateAgrees
<1>1. PICK o \in Obj : items[k].obj = o
  BY ItemTypes DEF BaseInv, ModelTypes
<1>2. UnderWay = {} /\ ~Ending(o)
  <2>1. DOMAIN Stream = {} /\ DOMAIN dartQ = {} /\ DOMAIN mainQ = {}
    BY DEF Quiet, Stream
  <2>. QED BY <2>1 DEF Quiet, Ending, InStream, UnderWay, Both, ToSet
<1>3. inv[o] # "ended"
  BY <1>1, <1>2, GhostsEnd DEF NoGhost
<1>4. ASSUME wasConnected[o], o \notin hungUp PROVE items[k].st = "connected"
  <2>1. Alive(o)
    BY <1>3, <1>4 DEF Alive, OrderInv, ConnectedOK
  <2>2. PICK j \in DOMAIN items : items[j].obj = o /\ items[j].starts >= 1
    BY <1>2, <1>4, <2>1 DEF StateOK, ConnectedSent
  <2>3. j = k
    BY <1>1, <2>2 DEF ListInv, Distinct
  <2>. QED BY <1>1, <1>4, <2>1, <2>2, <2>3 DEF StateOK
<1>5. ASSUME ~wasConnected[o] PROVE items[k].st # "connected"
  BY <1>1, <1>3, <1>5 DEF StartsOK
<1>. QED BY <1>1, <1>4, <1>5

LEMMA StepBack ==
  ASSUME DartClient, BaseInv, OrderInv, ListInv, LateReuse, [SystemNext]_svars,
         StartsOK, StateOK,
         NEW k \in DOMAIN items, items[k].st = "connected",
         NEW i \in DOMAIN items', items'[i].obj = items[k].obj
  PROVE  items'[i].st \notin {"dialing", "proceeding", "ringing", "accepting"}
<1>1. \A j \in DOMAIN items : items[j].obj = items[k].obj => j = k
  BY DEF ListInv, Distinct
<1>2. CASE ~Dart
  <2>1. items' = items
    BY <1>2, UserSteps DEF SystemNext, EngineStep, Idle, svars, model
  <2>. QED BY <1>1, <2>1
<1>3. CASE Dart
  <2>1. items[k].starts >= 1
    BY DEF StartsOK
  <2>2. Msg1 \in UnderWay
    BY <1>3, DartQueues, TakeRest
  <2>3. Msg1.obj = items[k].obj => ~IsProceeding(Msg1) /\ ~Accepted(Msg1)
    BY <2>1, <2>2 DEF StateOK
  <2>4. ~NewShown(items'[i])
    BY DEF NewShown, ShownObjs
  <2>5. PICK j \in DOMAIN items : Evolves(Msg1, items[j], items'[i])
    BY <1>3, <2>4, DartItems
  <2>6. j = k
    BY <1>1, <2>5 DEF Evolves
  <2>. QED BY <2>3, <2>5, <2>6 DEF Evolves
<1>. QED BY <1>2, <1>3

LEMMA StartsInvariant ==
  ASSUME DartClient
  PROVE  SafeSystem /\ []LateReuse => []StartsOK
<1>1. BaseInv /\ OrderInv /\ ListInv /\ LateReuse /\ [SystemNext]_svars /\ StartsOK
        => StartsOK'
  BY StepStates
<1>2. SystemInit => StartsOK
  BY InitStates
<1>. QED BY <1>1, <1>2, SystemInvariant, PTL DEF SafeSystem

LEMMA StatesInvariant ==
  ASSUME DartClient, "upgrade" \notin Methods
  PROVE  SafeSystem /\ []LateReuse => [](StartsOK /\ StateOK)
<1>1. BaseInv /\ OrderInv /\ ListInv /\ LateReuse /\ [SystemNext]_svars /\ StartsOK /\ StateOK
        => StateOK'
  BY StepStates
<1>2. SystemInit => StateOK
  BY InitStates
<1>. QED BY <1>1, <1>2, SystemInvariant, StartsInvariant, PTL DEF SafeSystem

(* The start time of a call is set at most once: connected is posted once  *)
(* for a call, and is handled by the call it is about and by no other.     *)
THEOREM StartsSetOnce ==
  ASSUME DartClient
  PROVE  SafeSystem /\ []LateReuse => []StartsOnce
<1>1. StartsOK => StartsOnce
  BY DEF StartsOK, StartsOnce
<1>. QED BY <1>1, StartsInvariant, PTL

(* When everything has settled the list shows a call as connected exactly  *)
(* when the engine has connected it, unless it has been hung up.  Without  *)
(* re-INVITEs: a 1xx to one takes the call back to proceeding.             *)
THEOREM StatesAgreed ==
  ASSUME DartClient, "upgrade" \notin Methods
  PROVE  SafeSystem /\ []LateReuse => []StateAgrees
<1>1. BaseInv /\ OrderInv /\ ListInv /\ StartsOK /\ StateOK => StateAgrees
  BY StatesAgree
<1>. QED BY <1>1, SystemInvariant, StatesInvariant, PTL

(* Without re-INVITEs a connected call is never again shown as being set   *)
(* up, although proceeding, connected and the reply to accept come from    *)
(* different threads.                                                      *)
THEOREM NeverGoesBack ==
  ASSUME DartClient, "upgrade" \notin Methods
  PROVE  SafeSystem /\ []LateReuse => NeverBack
<1>. DEFINE Keeps == \A o \in ShownObjs \cap ShownObjs' :
       (\E k \in DOMAIN items : items[k].obj = o /\ items[k].st = "connected")
       => \A k \in DOMAIN items' : items'[k].obj = o =>
            items'[k].st \notin {"dialing", "proceeding", "ringing", "accepting"}
<1>1. BaseInv /\ OrderInv /\ ListInv /\ LateReuse /\ StartsOK /\ StateOK /\ [SystemNext]_svars
        => Keeps
  BY StepBack
<1>2. NeverBack <=> [][Keeps]_svars
  BY DEF NeverBack
<1>. HIDE DEF Keeps
<1>. QED BY <1>1, <1>2, SystemInvariant, StatesInvariant, PTL DEF SafeSystem

-----------------------------------------------------------------------------
(* The switched call.  FocusValid speaks of the settled system only: while *)
(* messages are under way the focus may be on a call that is not in the    *)
(* list yet, or on none.  The invariant says that the focus, and every     *)
(* switched event still to come, is the id of a call that is in the list   *)
(* or about to enter it; and that a call whose header has been asked for   *)
(* has no switched event behind its request, so that the focus, handed on  *)
(* when it leaves the list, is not set to it afterwards.                   *)

IsSwitched(m) == m.kind = "event" /\ m.name = "switched"
IsInvited(m)  == m.kind = "reply" /\ m.name = "invite" /\ m.ok

Known     == ShownObjs \cup Coming
Names(id) == \E o \in Known : slot[o] = id

FocusFirst(a, b) ==
  /\ Asks(a) => /\ ~(Asks(b) /\ b.obj = a.obj)
                /\ ~(IsSwitched(b) /\ b.id = a.id)
  /\ IsSwitched(a) => ~(IsInvited(b) /\ b.obj = a.obj)

FocusOrder == {p \in Sent \X Sent : FocusFirst(p[1], p[2])}

FocusMsg(m) ==
  /\ Asks(m) => m.id = slot[m.obj]
  /\ IsSwitched(m) => inv[m.obj] # "unborn" /\ ~Registering(m.obj) /\ Names(m.id)

(* A call that is invited takes the focus after it has entered the list.   *)
WillSwitch ==
  \A r \in UnderWay : IsInvited(r) =>
    \E m \in UnderWay : IsSwitched(m) /\ m.obj = r.obj

(* The end of the call the worker is switching to, if it comes, has not    *)
(* been sent to Dart: the looper is waiting for the worker.                *)
MixKnows ==
  wk.m = "switch" /\ wk.pc = "mix" =>
    /\ wk.o \in Known \ Asked(UnderWay) /\ wk.id = slot[wk.o]
    /\ \A m \in ToSet(dartQ) : ~(Leaves(m) /\ m.obj = wk.o)

FocusOK ==
  /\ focus # kEmptyCallId => Names(focus)
  /\ focus = kEmptyCallId /\ items # <<>> => \E m \in UnderWay : IsSwitched(m)

FocusInv ==
  /\ QueuesSorted(FocusOrder, dartQ, mainQ)
  /\ \A m \in UnderWay : FocusMsg(m)
  /\ WillSwitch
  /\ Asked(UnderWay) \subseteq ShownObjs
  /\ MixKnows
  /\ FocusOK

(* The call a callback is about to hand the focus to has not ended since   *)
(* it was chosen.                                                          *)
HandOffLasts ==
  \A t \in CbThreads :
    cb[t].pc = "disconnected" /\ cb[t].next # NoWire => cb[t].next \in Registered

(* What a step of the engine or the user has to show.                      *)
FocusKept ==
  /\ QueuesSorted(FocusOrder, dartQ, mainQ)'
  /\ \A m \in UnderWay' : m \in UnderWay \/ FocusMsg(m)'
  /\ \A m \in UnderWay : IsSwitched(m) => m \in UnderWay'
  /\ \A r \in UnderWay' : IsInvited(r) =>
       r \in UnderWay \/ \E m \in UnderWay' : IsSwitched(m) /\ m.obj = r.obj
  /\ Asked(UnderWay') = Asked(UnderWay)
  /\ MixKnows'

(* No call that is known is forgotten, but by the message that takes it    *)
(* out of the list.                                                        *)
LEMMA KnownKept ==
  ASSUME DartClient, BaseInv, OrderInv, ListInv, LateReuse, [SystemNext]_svars,
         NEW o \in Known, items' # items /\ HandleHeader => Msg1.obj # o
  PROVE  o \in Known' /\ slot'[o] = slot[o]
<1>1. o \in Obj /\ inv[o] # "unborn"
  <2>1. o \in Obj
    BY ItemTypes DEF BaseInv, ModelTypes, Known, ShownObjs, Coming, Held, Entering
  <2>. QED BY <2>1, Birth DEF Known
<1>2. slot'[o] = slot[o]
  BY <1>1, SystemSteps, StepSteady DEF Steady
<1>3. o \in Coming => o \in Known'
  BY StepMoves DEF Moves, Known
<1>4. ASSUME o \in ShownObjs PROVE o \in ShownObjs'
  <2>1. CASE Dart /\ items' # items
    BY <1>4, <2>1, DartList DEF ShownObjs
  <2>2. CASE ~Dart \/ items' = items
    <3>1. items' = items
      BY <2>2, UserSteps DEF SystemNext, EngineStep, Idle, svars, model
    <3>. QED BY <1>4, <3>1 DEF ShownObjs
  <2>. QED BY <2>1, <2>2
<1>. QED BY <1>2, <1>3, <1>4 DEF Known

(* callInvite has nothing to do with a call that exists already.           *)
LEMMA NewRegistering ==
  ASSUME TypeInv, [Next]_vars, NEW o \in Obj, Registering(o)'
  PROVE  Registering(o) \/ inv[o] = "unborn"
<1>1. CASE \E t \in CbThreads : Callback(t)
  BY <1>1 DEF Callback, IncomingCall, IncomingPost, Provisional, Confirmed, Disconnected,
              DisconnectedPost, Registering
<1>2. CASE InviteMake
  <2>1. PICK p \in Obj : inv[p] = "unborn" /\ wk' = [wk EXCEPT !.pc = "made", !.o = p]
    BY <1>2 DEF InviteMake, Fresh
  <2>2. wk'.o = p
    BY <2>1 DEF TypeInv, TypeOK
  <2>. QED BY <2>1, <2>2 DEF Registering
<1>3. CASE Worker /\ ~InviteMake
  <2>1. \/ wk' = IdleWk
        \/ wk' = [wk EXCEPT !.pc = "wired"]
        \/ wk' = [wk EXCEPT !.pc = "put"]
        \/ wk' = [wk EXCEPT !.pc = "mix", !.o = Target] /\ wk.m = "switch"
    BY <1>3
    DEF Worker, InviteFail, InviteWire, InvitePut, InviteDone, Accept, Hangup, Upgrade,
        SwitchLookup, SwitchDone, Conference, Done
  <2>2. \/ wk'.m # "invite"
        \/ wk'.m = wk.m /\ wk'.o = wk.o
    <3>1. PICK w \in [m: AllMethods \cup {"idle"},
                     pc: {"start", "made", "wired", "put", "mix"},
                     id: WireIds, obj: Awaiters \cup {NoObj}, o: Obj \cup {NoObj}] : w = wk
      BY DEF TypeInv, TypeOK
    <3>2. CASE wk' = IdleWk
      BY <3>2 DEF IdleWk
    <3>3. ASSUME NEW pc \in {"wired", "put"}, wk' = [w EXCEPT !.pc = pc]
          PROVE  wk'.m = w.m /\ wk'.o = w.o
      BY <3>3
    <3>4. ASSUME wk' = [w EXCEPT !.pc = "mix", !.o = Target] PROVE wk'.m = w.m
      BY <3>4
    <3>. QED BY <2>1, <3>1, <3>2, <3>3, <3>4
  <2>. QED BY <2>2 DEF Registering
<1>4. CASE Main
  <2>1. wk' = wk \/ wk'.o = NoObj
    BY <1>4 DEF Main, MainEvent, MainRequest, MainHeader, IdleWk
  <2>. QED BY <2>1, Sentinels DEF Registering
<1>5. CASE Client \/ UNCHANGED vars
  BY <1>5 DEF Client, ClientTake, ClientSend, ClientTakeAndSend, vars, Registering
<1>. QED BY <1>1, <1>2, <1>3, <1>4, <1>5 DEF Next, System

(* What is so of a message under way stays so, unless the call it names    *)
(* leaves the list.                                                        *)
LEMMA FocusMsgKept ==
  ASSUME DartClient, BaseInv, OrderInv, ListInv, LateReuse, [SystemNext]_svars, FocusInv,
         NEW m \in UnderWay,
         items' # items /\ HandleHeader => ~(IsSwitched(m) /\ Msg1.id = m.id)
  PROVE  FocusMsg(m)'
<1>0. [Next]_vars /\ Steady /\ TypeInv
  BY SystemSteps, StepSteady DEF BaseInv
<1>1. FocusMsg(m) /\ m \in Sent
  BY <1>0, QueueTypes DEF FocusInv
<1>2. ASSUME Asks(m) PROVE m.id = slot'[m.obj]
  <2>1. m.obj \in Obj /\ m.obj \in Asked(UnderWay)
    BY <1>2 DEF ListInv, MessageOK, Asked
  <2>. QED BY <1>0, <1>1, <1>2, <2>1, Birth DEF FocusMsg, Steady
<1>3. ASSUME IsSwitched(m)
      PROVE  inv'[m.obj] # "unborn" /\ ~Registering(m.obj)' /\ Names(m.id)'
  <2>1. PICK p \in Obj : m.obj = p
    BY <1>1, <1>3 DEF IsSwitched, Sent, Msg, Rep
  <2>2. inv[p] # "unborn" /\ ~Registering(p)
    BY <1>1, <1>3, <2>1 DEF FocusMsg
  <2>3. inv'[p] # "unborn" /\ ~Registering(p)'
    BY <1>0, <2>2, NewRegistering DEF Steady
  <2>4. PICK o \in Known : slot[o] = m.id
    BY <1>1, <1>3 DEF FocusMsg, Names
  <2>5. items' # items /\ HandleHeader => Msg1.obj # o
    <3>1. HandleHeader => Asks(Msg1) /\ Msg1 \in UnderWay
      BY TakeRest DEF HandleHeader, Asks
    <3>2. HandleHeader => Msg1.id = slot[Msg1.obj]
      BY <3>1 DEF FocusInv, FocusMsg
    <3>. QED BY <1>3, <2>4, <3>2
  <2>6. o \in Known' /\ slot'[o] = m.id
    BY <2>4, <2>5, KnownKept
  <2>7. Names(m.id)'
    BY <2>6 DEF Names
  <2>. QED BY <2>1, <2>3, <2>7
<1>. QED BY <1>2, <1>3 DEF FocusMsg

(* A step of the engine or the user that does so much keeps the invariant. *)
LEMMA FocusStepped ==
  ASSUME DartClient, BaseInv, OrderInv, ListInv, LateReuse, [SystemNext]_svars, FocusInv,
         UNCHANGED <<items, focus>>, FocusKept
  PROVE  FocusInv'
<1>1. \A m \in UnderWay' : FocusMsg(m)'
  BY FocusMsgKept DEF FocusKept
<1>2. WillSwitch'
  BY DEF FocusKept, FocusInv, WillSwitch
<1>3. ShownObjs' = ShownObjs
  BY DEF ShownObjs
<1>4. FocusOK'
  <2>1. ASSUME focus # kEmptyCallId PROVE Names(focus)'
    <3>1. PICK o \in Known : slot[o] = focus
      BY <2>1 DEF FocusInv, FocusOK, Names
    <3>2. o \in Known' /\ slot'[o] = focus'
      BY <3>1, KnownKept
    <3>. QED BY <3>2 DEF Names
  <2>2. ASSUME focus = kEmptyCallId, items # <<>>
        PROVE  \E m \in UnderWay' : IsSwitched(m)
    BY <2>2 DEF FocusInv, FocusOK, FocusKept
  <2>. QED BY <2>1, <2>2 DEF FocusOK
<1>. QED BY <1>1, <1>2, <1>3, <1>4 DEF FocusKept, FocusInv

(* The looper answers its oldest request: the answer takes its place.      *)
LEMMA AnsweredInPlace ==
  ASSUME TypeInv, NEW R, QueuesSorted(R, dartQ, mainQ), NEW r \in Sent, mainQ # <<>>,
         mainQ' = Tail(mainQ), dartQ' = Append(dartQ, r),
         \A m \in UnderWay : /\ <<m, Head(mainQ)>> \in R => <<m, r>> \in R
                             /\ <<Head(mainQ), m>> \in R => <<r, m>> \in R
  PROVE  /\ QueuesSorted(R, dartQ, mainQ)'
         /\ \E U : UnderWay = U \cup {Head(mainQ)} /\ UnderWay' = U \cup {r}
<1>. DEFINE q == Tail(mainQ)
<1>1. QueuesSorted(R, dartQ, q)
  BY QueueTypes, DropSorted
<1>2. q \in Seq(Sent) /\ UnderWay = Both(dartQ, q) \cup {Head(mainQ)}
  BY QueueTypes, BothDrop DEF UnderWay
<1>3. /\ 1 \in DOMAIN mainQ /\ Head(mainQ) = mainQ[1]
      /\ \A i \in DOMAIN q : <<Head(mainQ), q[i]>> \in R
  BY QueueTypes, TailSorted DEF QueuesSorted
<1>4. mainQ' = q
  OBVIOUS
<1>. HIDE DEF q
<1>5. \A i \in DOMAIN q : q[i] \in UnderWay
  BY <1>2 DEF Both, ToSet
<1>6. \A i \in DOMAIN dartQ : dartQ[i] \in UnderWay /\ <<dartQ[i], Head(mainQ)>> \in R
  BY <1>3 DEF QueuesSorted, Across, UnderWay, Both, ToSet
<1>7. QueuesSorted(R, Append(dartQ, r), q)
  BY <1>1, <1>2, <1>3, <1>5, <1>6, QueueTypes, SendSorted
<1>8. Both(Append(dartQ, r), q) = Both(dartQ, q) \cup {r}
  BY <1>2, QueueTypes, BothAppend
<1>. QED BY <1>2, <1>4, <1>7, <1>8 DEF UnderWay

(* The steps of the user, the looper, the callbacks and the worker.        *)
LEMMA UserFocus ==
  ASSUME DartClient, BaseInv, OrderInv, ListInv, FocusInv, User
  PROVE  FocusKept
<1>0. /\ TypeInv /\ QueuesSorted(FocusOrder, dartQ, mainQ)
      /\ \A m \in UnderWay : m \in Sent
      /\ UNCHANGED <<engine, cb, wk, dartQ, model>>
  BY QueueTypes, UserSteps DEF BaseInv, FocusInv, ClientSend
<1>1. PICK m \in Methods \ {"header"}, id \in WireIds, o \in Obj \cup {NoObj} :
        Post(Request(m, id, o))
  BY UserSteps
<1>2. PICK e \in Msg : e = Request(m, id, o)
  BY RequestType, EngineAssumption DEF DartClient
<1>3. e.kind = "request" /\ e.name # "header" /\ e \in Sent /\ Post(e)
  BY <1>1, <1>2 DEF Request, Sent
<1>4. ~Asks(e) /\ ~IsSwitched(e) /\ ~IsInvited(e)
  BY <1>3 DEF Asks, IsSwitched, IsInvited
<1>5. \A a \in UnderWay : <<a, e>> \in FocusOrder
  BY <1>0, <1>3, <1>4 DEF FocusOrder, FocusFirst
<1>6. QueuesSorted(FocusOrder, dartQ, mainQ)' /\ UnderWay' = UnderWay \cup {e}
  BY <1>0, <1>3, <1>5, Posted
<1>7. Asked(UnderWay') = Asked(UnderWay)
  BY <1>4, <1>6 DEF Asked
<1>8. FocusMsg(e)'
  BY <1>4 DEF FocusMsg
<1>9. MixKnows'
  <2>1. Known' = Known /\ slot' = slot /\ Entering(UnderWay') = Entering(UnderWay)
    <3>1. ~Enters(e)
      BY <1>3 DEF Enters
    <3>2. Entering(UnderWay') = Entering(UnderWay)
      BY <1>6, <3>1 DEF Entering
    <3>. QED BY <1>0, <3>2 DEF Known, ShownObjs, Coming, Held, Registering, engine, session, model
  <2>. QED BY <1>0, <1>7, <2>1 DEF FocusInv, MixKnows
<1>. QED BY <1>4, <1>6, <1>7, <1>8, <1>9 DEF FocusKept

LEMMA MainFocus ==
  ASSUME BaseInv, OrderInv, ListInv, FocusInv, Main
  PROVE  FocusKept
<1>0. /\ TypeInv /\ QueuesSorted(FocusOrder, dartQ, mainQ)
      /\ \A m \in UnderWay : m \in Sent /\ MessageOK(m) /\ FocusMsg(m)
      /\ mainQ \in Seq(Msg) /\ mainQ # <<>> /\ Head(mainQ) \in Msg
      /\ Head(mainQ) \in UnderWay
  <2>1. TypeInv /\ QueuesSorted(FocusOrder, dartQ, mainQ)
    BY DEF BaseInv, FocusInv
  <2>2. mainQ \in Seq(Msg) /\ mainQ # <<>>
    BY <2>1 DEF TypeInv, TypeOK, Main, MainEvent, MainRequest, MainHeader, MainIdle
  <2>3. Head(mainQ) \in UnderWay
    BY <2>1, <2>2, QueueTypes, BothDrop DEF UnderWay
  <2>. QED BY <2>1, <2>2, <2>3, QueueTypes DEF ListInv, FocusInv
<1>1. MixKnows'
  <2>1. wk'.m = "idle" \/ wk'.pc = "start"
    BY DEF Main, MainEvent, MainRequest, MainHeader, MainIdle, IdleWk
  <2>. QED BY <2>1 DEF MixKnows
<1>2. CASE MainEvent
  <2>1. QueuesSorted(FocusOrder, dartQ, mainQ)' /\ UnderWay' = UnderWay
    BY <1>0, <1>2, Moved DEF MainEvent
  <2>. QED BY <1>1, <2>1 DEF FocusKept
<1>3. CASE MainRequest
  <2>1. QueuesSorted(FocusOrder, dartQ, mainQ)' /\ UnderWay = UnderWay' \cup {Head(mainQ)}
    BY <1>0, <1>3, Dropped DEF MainRequest
  <2>2. ~Asks(Head(mainQ)) /\ ~IsSwitched(Head(mainQ))
    BY <1>3 DEF MainRequest, Asks, IsSwitched
  <2>3. Asked(UnderWay') = Asked(UnderWay)
    BY <2>1, <2>2 DEF Asked
  <2>. QED BY <1>1, <2>1, <2>2, <2>3 DEF FocusKept
<1>4. CASE MainHeader
  <2>1. PICK h \in Msg : h = Head(mainQ) /\ MessageOK(h) /\ FocusMsg(h)
    BY <1>0
  <2>2. h.id \in WireIds /\ h.obj \in Who \cup {NoObj}
    BY DEF Msg, Who, WireIds
  <2>3. PICK r \in Rep : r = Reply("header", h.id, h.obj, TRUE)
    BY <2>2, ReplyType DEF AllMethods
  <2>4. /\ r.kind = "reply" /\ r.name = "header" /\ r.obj = h.obj /\ r.id = h.id
        /\ h.kind = "request" /\ h.name = "header"
        /\ dartQ' = Append(dartQ, r) /\ mainQ' = Tail(mainQ) /\ r \in Sent /\ h \in Sent
    BY <1>4, <2>1, <2>3 DEF MainHeader, Reply, Sent
  <2>5. /\ Asks(r) /\ ~IsSwitched(r) /\ ~IsInvited(r)
        /\ Asks(h) /\ ~IsSwitched(h) /\ ~IsInvited(h)
    BY <2>4 DEF Asks, IsSwitched, IsInvited
  <2>6. \A m \in UnderWay : /\ <<m, h>> \in FocusOrder => <<m, r>> \in FocusOrder
                            /\ <<h, m>> \in FocusOrder => <<r, m>> \in FocusOrder
    BY <1>0, <2>4, <2>5 DEF FocusOrder, FocusFirst
  <2>7. /\ QueuesSorted(FocusOrder, dartQ, mainQ)'
        /\ \E U : UnderWay = U \cup {h} /\ UnderWay' = U \cup {r}
    BY <1>0, <2>1, <2>4, <2>6, AnsweredInPlace
  <2>8. PICK U : UnderWay = U \cup {h} /\ UnderWay' = U \cup {r}
    BY <2>7
  <2>9. Asked(UnderWay') = Asked(UnderWay)
    BY <2>4, <2>5, <2>8 DEF Asked
  <2>10. FocusMsg(r)'
    <3>1. slot' = slot
      BY <1>4 DEF MainHeader, engine, session
    <3>. QED BY <2>1, <2>4, <2>5, <3>1 DEF FocusMsg
  <2>. QED BY <1>1, <2>5, <2>7, <2>8, <2>9, <2>10 DEF FocusKept
<1>. QED BY <1>2, <1>3, <1>4 DEF Main

(* Other messages do not matter to the focus.                              *)
Neutral(m) == ~Asks(m) /\ ~IsSwitched(m) /\ ~IsInvited(m)

LEMMA NeutralMessage ==
  ASSUME NEW a \in Sent, NEW e \in Sent, Neutral(e)
  PROVE  <<a, e>> \in FocusOrder /\ <<e, a>> \in FocusOrder
  BY DEF Neutral, FocusOrder, FocusFirst

LEMMA CallbackFocus ==
  ASSUME DartClient, BaseInv, OrderInv, ListInv, LateReuse, [SystemNext]_svars, FocusInv,
         HandOffLasts, UNCHANGED model, NEW t \in CbThreads, Callback(t)
  PROVE  FocusKept
<1>0. /\ TypeInv /\ QueuesSorted(FocusOrder, dartQ, mainQ)
      /\ \A m \in UnderWay : m \in Sent
      /\ dartQ' = dartQ /\ wk' = wk /\ items' = items
      /\ Steady
  <2>1. dartQ' = dartQ /\ wk' = wk
    BY DEF Callback, IncomingCall, IncomingPost, Provisional, Confirmed, Disconnected,
           DisconnectedPost
  <2>. QED BY <2>1, QueueTypes, CallbackSteady DEF BaseInv, FocusInv, model
<1>1. ASSUME Asked(UnderWay') = Asked(UnderWay)
      PROVE  MixKnows'
  <2>. SUFFICES ASSUME wk.m = "switch", wk.pc = "mix"
                PROVE  /\ wk.o \in Known' \ Asked(UnderWay) /\ wk.id = slot'[wk.o]
                       /\ \A m \in ToSet(dartQ) : ~(Leaves(m) /\ m.obj = wk.o)
    BY <1>0, <1>1 DEF MixKnows
  <2>1. /\ wk.o \in Known \ Asked(UnderWay) /\ wk.id = slot[wk.o]
        /\ \A m \in ToSet(dartQ) : ~(Leaves(m) /\ m.obj = wk.o)
    BY DEF FocusInv, MixKnows
  <2>2. wk.o \in Known' /\ slot'[wk.o] = slot[wk.o]
    BY <1>0, <2>1, KnownKept
  <2>. QED BY <2>1, <2>2
<1>2. ASSUME mainQ' = mainQ PROVE FocusKept
  <2>1. UnderWay' = UnderWay
    BY <1>0, <1>2 DEF UnderWay
  <2>. QED BY <1>0, <1>1, <1>2, <2>1 DEF FocusKept
<1>3. ASSUME NEW e \in Sent, Neutral(e), Post(e) PROVE FocusKept
  <2>1. \A m \in UnderWay : <<m, e>> \in FocusOrder
    BY <1>0, <1>3, NeutralMessage
  <2>2. QueuesSorted(FocusOrder, dartQ, mainQ)' /\ UnderWay' = UnderWay \cup {e}
    BY <1>0, <1>3, <2>1, Posted
  <2>3. Asked(UnderWay') = Asked(UnderWay)
    BY <1>3, <2>2 DEF Asked, Neutral
  <2>4. FocusMsg(e)' /\ MixKnows'
    BY <1>1, <1>3, <2>3 DEF FocusMsg, Neutral
  <2>. QED BY <1>3, <2>2, <2>3, <2>4 DEF FocusKept, Neutral
<1>4. ASSUME NEW n \in EventNames \ {"switched"}, NEW id \in WireIds, NEW o \in Obj,
             Post(Event(n, id, o))
      PROVE  FocusKept
  <2>1. PICK e \in Msg : e = Event(n, id, o)
    BY <1>4, EventType
  <2>2. e \in Sent /\ Neutral(e)
    BY <1>4, <2>1 DEF Event, Sent, Neutral, Asks, IsSwitched, IsInvited
  <2>. QED BY <1>3, <1>4, <2>1, <2>2
<1>5. CASE IncomingCall(t) \/ Disconnected(t)
  BY <1>2, <1>5 DEF IncomingCall, Disconnected
<1>6. CASE IncomingPost(t)
  <2>1. cb[t].o \in Obj /\ cb[t].id \in WireIds /\ Post(Event("incoming", cb[t].id, cb[t].o))
    BY <1>0, <1>6 DEF IncomingPost, TypeInv, TypeOK, CallbackOK, WireIds
  <2>. QED BY <1>4, <2>1 DEF EventNames
<1>7. CASE Provisional(t)
  <2>1. PICK o \in Obj : Post(Event("proceeding", wireId[o], o))
    BY <1>7 DEF Provisional
  <2>2. wireId[o] \in WireIds
    BY <1>0 DEF TypeInv, TypeOK, WireIds
  <2>. QED BY <1>4, <2>1, <2>2 DEF EventNames
<1>8. CASE Confirmed(t)
  <2>1. PICK o \in Obj : mainQ' = mainQ \/ Post(Event("connected", wireId[o], o))
    BY <1>8 DEF Confirmed
  <2>2. wireId[o] \in WireIds
    BY <1>0 DEF TypeInv, TypeOK, WireIds
  <2>. QED BY <1>2, <1>4, <2>1, <2>2 DEF EventNames
<1>9. CASE DisconnectedPost(t)
  <2>1. PICK o \in Obj, id \in WireIds : cb[t].o = o /\ cb[t].id = id
    BY <1>0, <1>9 DEF DisconnectedPost, TypeInv, TypeOK, CallbackOK, WireIds
  <2>2. PICK e \in Msg : e = Event("terminated", id, o)
    BY EventType DEF EventNames
  <2>3. e \in Sent /\ Neutral(e)
    BY <2>2 DEF Event, Sent, Neutral, Asks, IsSwitched, IsInvited
  <2>4. CASE ~(cb[t].focus /\ cb[t].next # NoWire)
    <3>1. mainQ' = mainQ \o <<>> \o <<e>>
      BY <1>9, <2>1, <2>2, <2>4 DEF DisconnectedPost
    <3>2. mainQ \in Seq(Sent)
      BY <1>0, QueueTypes
    <3>3. mainQ' = Append(mainQ, e)
      BY <2>3, <3>1, <3>2, AppendIsConcat
    <3>. QED BY <1>3, <2>3, <3>3 DEF Post
  <2>5. CASE cb[t].focus /\ cb[t].next # NoWire
    <3>1. PICK n \in Ids : cb[t].next = n /\ n \in Registered
      BY <1>0, <1>9, <2>5 DEF DisconnectedPost, TypeInv, TypeOK, HandOffLasts
    <3>2. PICK p \in Obj : calls[n] = p /\ Alive(p) /\ slot[p] = n
      BY <1>0, <3>1, Sentinels
      DEF Registered, TypeInv, TypeOK, BaseInv, TableInv, TableSound, WireIsSlot
    <3>3. PICK w \in Msg : w = Event("switched", n, o)
      BY EventType DEF EventNames, WireIds
    <3>4. /\ w \in Sent /\ w.obj = o /\ w.id = n /\ IsSwitched(w) /\ ~Asks(w) /\ ~IsInvited(w)
      BY <3>3 DEF Event, Sent, Asks, IsSwitched, IsInvited
    <3>5. mainQ' = mainQ \o <<w>> \o <<e>>
      BY <1>9, <2>1, <2>2, <2>5, <3>1, <3>3 DEF DisconnectedPost
    <3>6. p \in Known /\ p \notin Asked(UnderWay) /\ p \in Known'
      <4>1. p \in Pending /\ p \notin Ended
        BY <3>2 DEF Pending, Alive, Unborn, Ended
      <4>2. p \in Known /\ p \notin Asked(UnderWay)
        BY <4>1 DEF ListInv, ListSound, Known
      <4>. QED BY <1>0, <4>2, KnownKept
    <3>7. ASSUME NEW m \in UnderWay PROVE <<m, w>> \in FocusOrder /\ <<m, e>> \in FocusOrder
      <4>1. ASSUME Asks(m) PROVE m.id # n
        <5>1. m.obj \in Obj /\ m.id = slot[m.obj] /\ m.obj \in Asked(UnderWay)
          BY <4>1 DEF ListInv, MessageOK, FocusInv, FocusMsg, Asked
        <5>2. ~Gone(m.obj) /\ ~Gone(p)
          BY <3>2 DEF Gone, Alive
        <5>. QED BY <3>2, <3>6, <5>1, <5>2, Sentinels DEF LateReuse
      <4>2. <<m, w>> \in FocusOrder
        BY <1>0, <3>4, <4>1 DEF FocusOrder, FocusFirst
      <4>. QED BY <1>0, <2>3, <4>2, NeutralMessage
    <3>8. <<w, e>> \in FocusOrder
      BY <2>3, <3>4, NeutralMessage
    <3>9. QueuesSorted(FocusOrder, dartQ, mainQ)' /\ UnderWay' = UnderWay \cup {w, e}
      BY <1>0, <2>3, <3>4, <3>5, <3>7, <3>8, PostedTwo
    <3>10. Asked(UnderWay') = Asked(UnderWay)
      BY <2>3, <3>4, <3>9 DEF Asked, Neutral
    <3>11. FocusMsg(e)'
      BY <2>3 DEF FocusMsg, Neutral
    <3>12. FocusMsg(w)'
      <4>1. inv[o] # "unborn" /\ ~Registering(o)
        BY <1>9, <2>1 DEF DisconnectedPost, OrderInv, OneCallback, ListInv, CallbackKnows, Registering
      <4>2. inv' = inv /\ slot' = slot
        BY <1>9 DEF DisconnectedPost
      <4>3. ~Registering(o)'
        BY <1>0, <4>1 DEF Registering
      <4>4. Names(n)'
        BY <3>2, <3>6, <4>2 DEF Names
      <4>. QED BY <3>4, <4>1, <4>2, <4>3, <4>4 DEF FocusMsg
    <3>. QED BY <1>1, <2>3, <3>4, <3>9, <3>10, <3>11, <3>12 DEF FocusKept, Neutral
  <2>. QED BY <2>4, <2>5
<1>. QED BY <1>5, <1>6, <1>7, <1>8, <1>9 DEF Callback

LEMMA WorkerFocus ==
  ASSUME DartClient, BaseInv, OrderInv, ListInv, LateReuse, [SystemNext]_svars, FocusInv,
         UNCHANGED model, Worker
  PROVE  FocusKept
<1>0. /\ TypeInv /\ QueuesSorted(FocusOrder, dartQ, mainQ)
      /\ \A m \in UnderWay : m \in Sent
      /\ items' = items
  BY QueueTypes DEF BaseInv, FocusInv, model
<1>1. /\ wk.id \in WireIds /\ NoId \in WireIds /\ wk.m \in AllMethods \ {"header"}
      /\ wk.obj \in Who \cup {NoObj} /\ wk.o \in Who \cup {NoObj}
  BY <1>0
  DEF TypeInv, TypeOK, WireIds, Who, Worker, InviteMake, InviteFail, InviteWire,
      InvitePut, InviteDone, Accept, Hangup, Upgrade, SwitchLookup, SwitchDone,
      Conference, AllMethods
<1>2. ASSUME UNCHANGED <<mainQ, dartQ>>, MixKnows' PROVE FocusKept
  <2>1. UnderWay' = UnderWay
    BY <1>2 DEF UnderWay
  <2>. QED BY <1>0, <1>2, <2>1 DEF FocusKept
<1>3. ASSUME wk'.m # "switch" PROVE MixKnows'
  BY <1>3 DEF MixKnows
<1>4. ASSUME NEW id \in WireIds, NEW ok \in BOOLEAN, Done(id, ok), mainQ' = mainQ,
             wk.m = "invite" => ~ok
      PROVE  FocusKept
  <2>1. PICK o \in Who \cup {NoObj} : o = IF wk.m = "invite" THEN wk.o ELSE wk.obj
    BY <1>1
  <2>2. PICK r \in Rep : r = Reply(wk.m, id, o, ok)
    BY <1>1, ReplyType
  <2>3. /\ r.kind = "reply" /\ r.name = wk.m /\ r.ok = ok
        /\ dartQ' = Append(dartQ, r) /\ wk' = IdleWk /\ r \in Sent
    BY <1>4, <2>1, <2>2 DEF Reply, Done, Sent
  <2>4. Neutral(r)
    BY <1>1, <1>4, <2>3 DEF Neutral, Asks, IsSwitched, IsInvited
  <2>5. \A m \in UnderWay : <<m, r>> \in FocusOrder /\ <<r, m>> \in FocusOrder
    BY <1>0, <2>3, <2>4, NeutralMessage
  <2>6. QueuesSorted(FocusOrder, dartQ, mainQ)' /\ UnderWay' = UnderWay \cup {r}
    BY <1>0, <1>4, <2>3, <2>5, Replied
  <2>7. Asked(UnderWay') = Asked(UnderWay) /\ FocusMsg(r)'
    BY <2>4, <2>6 DEF Asked, Neutral, FocusMsg
  <2>8. MixKnows'
    BY <1>3, <2>3 DEF IdleWk
  <2>. QED BY <2>4, <2>6, <2>7, <2>8 DEF FocusKept, Neutral
(* A switched event to a call that has not ended, with its reply.          *)
<1>5. ASSUME NEW p \in Known \ Asked(UnderWay), p \in Obj, NEW id \in Ids, slot[p] = id,
             ~Gone(p), inv[p] # "unborn", wk.m \in {"invite", "switch"},
             wk.m = "invite" => wk.o = p, wk.o = p,
             Post(Event("switched", id, p)), Done(id, TRUE),
             UNCHANGED <<inv, slot>>
      PROVE  FocusKept
  <2>1. PICK o \in Who \cup {NoObj} : o = IF wk.m = "invite" THEN wk.o ELSE wk.obj
    BY <1>1
  <2>2. PICK r \in Rep : r = Reply(wk.m, id, o, TRUE)
    BY <1>1, <1>5, ReplyType DEF WireIds
  <2>3. PICK e \in Msg : e = Event("switched", id, p)
    BY <1>5, EventType DEF EventNames, WireIds
  <2>4. /\ r.kind = "reply" /\ r.name = wk.m /\ r.obj = o
        /\ dartQ' = Append(dartQ, r) /\ wk' = IdleWk /\ r \in Sent
    BY <1>5, <2>1, <2>2 DEF Reply, Done, Sent
  <2>5. /\ e.obj = p /\ e.id = id /\ e \in Sent /\ Post(e)
        /\ IsSwitched(e) /\ ~Asks(e) /\ ~IsInvited(e)
    BY <1>5, <2>3 DEF Event, Sent, IsSwitched, Asks, IsInvited
  <2>6. ~Asks(r) /\ ~IsSwitched(r) /\ (IsInvited(r) => r.obj = p /\ Registering(p))
    BY <1>5, <2>1, <2>4 DEF Asks, IsSwitched, IsInvited, Registering
  <2>7. ASSUME NEW m \in UnderWay
        PROVE  <<m, r>> \in FocusOrder /\ <<r, m>> \in FocusOrder /\ <<m, e>> \in FocusOrder
    <3>1. ASSUME IsSwitched(m), IsInvited(r) PROVE m.obj # r.obj
      BY <2>6, <3>1 DEF FocusInv, FocusMsg
    <3>2. ASSUME Asks(m) PROVE m.id # id
      <4>1. m.obj \in Obj /\ m.id = slot[m.obj] /\ m.obj \in Asked(UnderWay)
        BY <3>2 DEF ListInv, MessageOK, FocusInv, FocusMsg, Asked
      <4>2. ~Gone(m.obj) /\ m.obj # p
        BY <1>5, <4>1 DEF Gone
      <4>. QED BY <1>5, <4>1, <4>2, Sentinels DEF LateReuse
    <3>3. <<m, r>> \in FocusOrder
      BY <1>0, <2>4, <2>6, <3>1 DEF FocusOrder, FocusFirst
    <3>4. <<r, m>> \in FocusOrder
      BY <1>0, <2>4, <2>6 DEF FocusOrder, FocusFirst
    <3>5. <<m, e>> \in FocusOrder
      BY <1>0, <2>5, <3>2 DEF FocusOrder, FocusFirst
    <3>. QED BY <3>3, <3>4, <3>5
  <2>8. <<r, e>> \in FocusOrder
    BY <2>4, <2>5, <2>6 DEF FocusOrder, FocusFirst
  <2>9. QueuesSorted(FocusOrder, dartQ, mainQ)' /\ UnderWay' = UnderWay \cup {e, r}
    BY <1>0, <2>4, <2>5, <2>7, <2>8, PostedReplied
  <2>10. Asked(UnderWay') = Asked(UnderWay)
    BY <2>5, <2>6, <2>9 DEF Asked
  <2>11. FocusMsg(r)'
    BY <2>6 DEF FocusMsg
  <2>12. FocusMsg(e)'
    <3>1. inv'[p] # "unborn"
      BY <1>5
    <3>2. ~Registering(p)'
      BY <2>4 DEF IdleWk, Registering
    <3>3. p \in Known' /\ slot'[p] = id
      BY <1>0, <1>5, KnownKept
    <3>4. Names(id)'
      BY <3>3 DEF Names
    <3>. QED BY <2>5, <3>1, <3>2, <3>4 DEF FocusMsg
  <2>13. MixKnows'
    BY <1>3, <2>4 DEF IdleWk
  <2>14. \A q \in UnderWay' : IsInvited(q) =>
           q \in UnderWay \/ \E m \in UnderWay' : IsSwitched(m) /\ m.obj = q.obj
    BY <2>5, <2>6, <2>9
  <2>. QED BY <2>9, <2>10, <2>11, <2>12, <2>13, <2>14 DEF FocusKept
<1>6. ASSUME NEW p \in Obj, Alive(p)
      PROVE  p \in Known \ Asked(UnderWay) /\ ~Gone(p) /\ inv[p] # "unborn"
  <2>1. p \in Pending /\ p \notin Ended
    BY <1>6 DEF Pending, Alive, Unborn, Ended
  <2>. QED BY <1>6, <2>1 DEF ListInv, ListSound, Known, Gone, Alive
<1>7. CASE InviteMake \/ InvitePut
  <2>1. wk.m = "invite" /\ UNCHANGED <<mainQ, dartQ>> /\ wk'.m = wk.m
    BY <1>0, <1>7 DEF InviteMake, InvitePut, TypeInv, TypeOK
  <2>. QED BY <1>2, <1>3, <2>1
<1>8. CASE InviteWire
  <2>1. wk.o \in Obj /\ inv[wk.o] # "ended" /\ wk.m = "invite"
    BY <1>8 DEF InviteWire, BaseInv, TableInv, RegisteringOK, Alive
  <2>2. UNCHANGED <<mainQ, dartQ>> /\ wk' = [wk EXCEPT !.pc = "wired"]
    BY <1>8, <2>1 DEF InviteWire
  <2>3. wk'.m = wk.m
    BY <1>0, <2>2 DEF TypeInv, TypeOK
  <2>. QED BY <1>2, <1>3, <2>1, <2>2, <2>3
<1>9. CASE InviteFail
  BY <1>1, <1>4, <1>9 DEF InviteFail
<1>10. CASE InviteDone
  <2>1. PICK o \in Obj, id \in Ids :
          /\ wk.o = o /\ wireId[o] = id /\ slot[o] = id /\ Alive(o) /\ wk.m = "invite"
    BY <1>10 DEF InviteDone, BaseInv, TableInv, RegisteringOK, SlotsUnique
  <2>2. Post(Event("switched", id, o)) /\ Done(id, TRUE) /\ UNCHANGED <<inv, slot>>
    BY <1>10, <2>1 DEF InviteDone, session
  <2>. QED BY <1>5, <1>6, <2>1, <2>2
<1>11. CASE Accept \/ Hangup \/ Upgrade \/ Conference
  <2>1. mainQ' = mainQ /\ wk.m # "invite"
    BY <1>11 DEF Accept, Hangup, Upgrade, Conference
  <2>2. \E ok \in BOOLEAN : Done(wk.id, ok)
    BY <1>11 DEF Accept, Hangup, Upgrade, Conference
  <2>. QED BY <1>1, <1>4, <2>1, <2>2
<1>12. CASE SwitchLookup
  <2>1. mainQ' = mainQ /\ wk.m = "switch" /\ UNCHANGED <<inv, slot>>
    BY <1>12 DEF SwitchLookup, engine, session
  <2>2. CASE Done(wk.id, FALSE)
    BY <1>1, <1>4, <2>1, <2>2
  <2>3. CASE Found /\ wk' = [wk EXCEPT !.pc = "mix", !.o = Target] /\ dartQ' = dartQ
    <3>1. PICK p \in Obj : p = Target /\ Alive(p) /\ slot[p] = wk.id
      BY <1>0, <2>3, Sentinels
      DEF Found, Target, Registered, TypeInv, TypeOK, BaseInv, TableInv, TableSound, WireIsSlot
    <3>2. wk'.o = p /\ wk'.id = wk.id
      BY <1>0, <2>3, <3>1 DEF TypeInv, TypeOK
    <3>3. p \in Known \ Asked(UnderWay)
      BY <1>6, <3>1
    <3>4. p \in Known' /\ slot'[p] = wk.id /\ UnderWay' = UnderWay
      BY <1>0, <2>1, <2>3, <3>1, <3>3, KnownKept DEF UnderWay
    <3>5. ASSUME NEW m \in ToSet(dartQ), Leaves(m) PROVE m.obj # p
      <4>1. m \in UnderWay
        BY DEF UnderWay, Both
      <4>. QED BY <3>1, <3>5, <4>1 DEF OrderInv, Past, Life, Leaves, Alive
    <3>6. MixKnows'
      BY <2>3, <3>2, <3>3, <3>4, <3>5 DEF MixKnows
    <3>. QED BY <1>2, <2>1, <2>3, <3>6
  <2>. QED BY <1>12, <2>2, <2>3 DEF SwitchLookup
<1>13. CASE SwitchDone
  <2>1. PICK o \in Obj, id \in Ids : wk.o = o /\ wk.id = id /\ wk.m = "switch"
    BY <1>0, <1>13 DEF SwitchDone, TypeInv, WorkerOK
  <2>2. o \in Known \ Asked(UnderWay) /\ slot[o] = id
    BY <1>13, <2>1 DEF SwitchDone, FocusInv, MixKnows
  <2>3. ~Gone(o) /\ inv[o] # "unborn"
    BY <2>1, <2>2, Birth DEF Gone, Known
  <2>4. Post(Event("switched", id, o)) /\ Done(id, TRUE) /\ UNCHANGED <<inv, slot>>
    BY <1>13, <2>1 DEF SwitchDone, session
  <2>. QED BY <1>5, <2>1, <2>2, <2>3, <2>4
<1>. QED BY <1>7, <1>8, <1>9, <1>10, <1>11, <1>12, <1>13 DEF Worker

(* What Dart's taking a message means to the focus.                        *)
LEMMA FocusTaken ==
  ASSUME BaseInv, OrderInv, ListInv, FocusInv, Take
  PROVE  /\ UnderWay = Rest \cup {Msg1} /\ FocusMsg(Msg1)
         /\ \A m \in Rest : m \in Sent /\ FocusFirst(Msg1, m)
         /\ Msg1 \in ToSet(dartQ) /\ ToSet(dartQ') \subseteq ToSet(dartQ)
         /\ wk' = wk /\ slot' = slot /\ inv' = inv
<1>1. /\ dartQ # <<>> /\ dartQ' = Tail(dartQ) /\ QueuesSorted(FocusOrder, dartQ, mainQ)
      /\ dartQ \in Seq(Sent) /\ mainQ \in Seq(Sent)
  BY QueueTypes DEF BaseInv, FocusInv, Take
<1>2. \A m \in Rest : <<Msg1, m>> \in FocusOrder
  BY <1>1, HeadFirst DEF Rest, Msg1
<1>3. ToSet(dartQ) = ToSet(Tail(dartQ)) \cup {Head(dartQ)}
  BY <1>1, SetOfHeadTail
<1>4. UnderWay = Rest \cup {Msg1}
  BY TakeRest
<1>5. wk' = wk /\ slot' = slot /\ inv' = inv
  BY DEF Take, engine, session
<1>. QED BY <1>1, <1>2, <1>3, <1>4, <1>5 DEF FocusOrder, FocusInv, Msg1

(* An id that names a call of the list goes on doing so, unless the call   *)
(* that has it leaves; and it is not 0, which stands for no call.          *)
LEMMA NamesKept ==
  ASSUME DartClient, BaseInv, OrderInv, ListInv, LateReuse, [SystemNext]_svars,
         NEW id, Names(id), items' # items /\ HandleHeader => Msg1.id # id,
         Take => MessageOK(Msg1) /\ FocusMsg(Msg1)
  PROVE  Names(id)'
<1>1. PICK o \in Known : slot[o] = id
  BY DEF Names
<1>2. items' # items /\ HandleHeader => Msg1.obj # o
  BY <1>1 DEF HandleHeader, FocusMsg, Asks
<1>3. o \in Known' /\ slot'[o] = id
  BY <1>1, <1>2, KnownKept
<1>. QED BY <1>3 DEF Names

LEMMA NamesId ==
  ASSUME BaseInv, OrderInv, ListInv, NEW id, Names(id)
  PROVE  id \in Ids /\ id # kEmptyCallId
<1>1. PICK o \in Known : slot[o] = id
  BY DEF Names
<1>2. o \in Obj
  BY ItemTypes DEF BaseInv, ModelTypes, Known, ShownObjs, Coming, Held, Entering
<1>3. inv[o] # "unborn"
  BY <1>1, <1>2, Birth DEF Known
<1>4. id \in Ids
  BY <1>1, <1>2, <1>3 DEF ListInv, SlotOK
<1>. QED BY <1>4, EngineAssumption DEF kEmptyCallId

(* All but the focus itself, when what is left is all that is under way.   *)
LEMMA FocusLeft ==
  ASSUME DartClient, BaseInv, OrderInv, ListInv, LateReuse, [SystemNext]_svars, FocusInv,
         Take, mainQ' = mainQ, Asked(Rest) \subseteq ShownObjs', FocusOK'
  PROVE  FocusInv'
<1>0. /\ UnderWay = Rest \cup {Msg1} /\ UnderWay' = Rest /\ FocusMsg(Msg1)
      /\ \A m \in Rest : m \in Sent /\ FocusFirst(Msg1, m)
      /\ ToSet(dartQ') \subseteq ToSet(dartQ) /\ wk' = wk /\ slot' = slot
  BY FocusTaken DEF Take, UnderWay, Rest
<1>1. QueuesSorted(FocusOrder, dartQ, mainQ)'
  BY Taken DEF BaseInv, FocusInv, Take
<1>2. ASSUME NEW m \in Rest PROVE FocusMsg(m)'
  <2>1. HandleHeader => ~(IsSwitched(m) /\ Msg1.id = m.id)
    BY <1>0 DEF FocusFirst, HandleHeader, Asks
  <2>2. m \in UnderWay
    BY <1>0
  <2>. QED BY <2>1, <2>2, FocusMsgKept
<1>3. ASSUME NEW r \in Rest, IsInvited(r)
      PROVE  \E m \in Rest : IsSwitched(m) /\ m.obj = r.obj
  <2>1. PICK m \in UnderWay : IsSwitched(m) /\ m.obj = r.obj
    BY <1>0, <1>3 DEF FocusInv, WillSwitch
  <2>2. m # Msg1
    BY <1>0, <1>3, <2>1 DEF FocusFirst
  <2>. QED BY <1>0, <2>1, <2>2
<1>4. MixKnows'
  <2>. SUFFICES ASSUME wk.m = "switch", wk.pc = "mix"
                PROVE  wk.o \in Known' /\ wk.o \notin Asked(Rest)
    BY <1>0 DEF FocusInv, MixKnows
  <2>2. wk.o \in Known /\ wk.o \notin Asked(UnderWay)
    BY DEF FocusInv, MixKnows
  <2>3. HandleHeader => Msg1.obj # wk.o
    <3>1. HandleHeader => Asks(Msg1)
      BY DEF HandleHeader, Asks
    <3>2. HandleHeader => Msg1.obj \in Asked(UnderWay)
      BY <1>0, <3>1, TakeRest DEF MessageOK, Asked
    <3>. QED BY <2>2, <3>2
  <2>4. wk.o \in Known'
    BY <2>2, <2>3, KnownKept
  <2>5. wk.o \notin Asked(Rest)
    BY <1>0, <2>2 DEF Asked
  <2>. QED BY <2>4, <2>5
<1>. QED BY <1>0, <1>1, <1>2, <1>3, <1>4 DEF FocusInv, WillSwitch

(* The call whose id is focus is in the list, or will be.                  *)
LEMMA FocusStays ==
  ASSUME DartClient, BaseInv, OrderInv, ListInv, LateReuse, [SystemNext]_svars, FocusInv,
         Take, focus' = focus, focus # kEmptyCallId,
         HandleHeader => Msg1.id # focus
  PROVE  FocusOK'
<1>1. FocusMsg(Msg1) /\ MessageOK(Msg1)
  BY FocusTaken, TakeRest
<1>2. PICK id : id = focus
  OBVIOUS
<1>3. Names(id)
  BY <1>2 DEF FocusInv, FocusOK
<1>4. Names(id)'
  BY <1>1, <1>2, <1>3, NamesKept
<1>. QED BY <1>2, <1>4 DEF FocusOK

(* A message that enters a call in the list: if no call had the focus      *)
(* the new one takes it, or it will be switched to.                        *)
LEMMA FocusEnters ==
  ASSUME DartClient, BaseInv, OrderInv, ListInv, LateReuse, [SystemNext]_svars, FocusInv,
         HandleIncoming \/ (HandleReply /\ Msg1.name = "invite" /\ Msg1.ok)
  PROVE  FocusInv'
<1>1. Take /\ mainQ' = mainQ /\ Enters(Msg1) /\ ~IsSwitched(Msg1) /\ ~HandleHeader
  BY DEF HandleIncoming, HandleReply, HandleHeader, Enters, IsSwitched
<1>2. PICK st \in {"ringing", "dialing"} :
        Msg1.id \notin Shown => items' = Append(items, NewCall(Msg1.id, Msg1.obj, st))
  BY DEF HandleIncoming, OnIncomingSip, HandleReply, Invited
<1>3. /\ Msg1.id \notin Shown
      /\ \E o \in Coming : /\ o = Msg1.obj /\ Msg1.id = slot[o]
                          /\ ShownObjs' = ShownObjs \cup {o}
  BY <1>1, <1>2, EnterTaken
<1>4. PICK o \in Coming : /\ o = Msg1.obj /\ Msg1.id = slot[o]
                         /\ ShownObjs' = ShownObjs \cup {o}
  BY <1>3
<1>5. /\ UnderWay = Rest \cup {Msg1} /\ UnderWay' = Rest /\ slot' = slot
      /\ \A m \in Rest : FocusFirst(Msg1, m)
  BY <1>1, FocusTaken DEF Take, UnderWay, Rest
<1>6. Asked(Rest) \subseteq ShownObjs'
  BY <1>4, <1>5 DEF FocusInv, Asked
<1>7. FocusOK'
  <2>1. CASE focus' = focus /\ focus # kEmptyCallId
    BY <1>1, <2>1, FocusStays
  <2>2. CASE HandleReply /\ focus = kEmptyCallId
    <3>1. IsInvited(Msg1) /\ focus' = focus
      BY <1>1, <2>2 DEF HandleReply, Invited, IsInvited, HandleIncoming, Enters
    <3>2. PICK m \in UnderWay : IsSwitched(m) /\ m.obj = Msg1.obj
      BY <1>5, <3>1 DEF FocusInv, WillSwitch
    <3>3. m \in Rest
      BY <1>1, <1>5, <3>2
    <3>. QED BY <1>5, <2>2, <3>1, <3>2, <3>3 DEF FocusOK
  <2>3. CASE HandleIncoming /\ focus = kEmptyCallId
    <3>1. focus' = Msg1.id
      BY <1>3, <2>3 DEF HandleIncoming, OnIncomingSip
    <3>2. o \in Known'
      BY <1>4 DEF Known
    <3>3. Names(Msg1.id)
      BY <1>4 DEF Names, Known
    <3>4. focus' # kEmptyCallId
      BY <3>1, <3>3, NamesId
    <3>5. slot'[o] = focus'
      BY <1>4, <1>5, <3>1
    <3>. QED BY <3>2, <3>4, <3>5 DEF FocusOK, Names
  <2>4. HandleReply \/ HandleIncoming
    OBVIOUS
  <2>5. focus # kEmptyCallId => focus' = focus
    BY <1>3 DEF HandleIncoming, OnIncomingSip, HandleReply, Invited
  <2>. QED BY <2>1, <2>2, <2>3, <2>4, <2>5
<1>. QED BY <1>1, <1>6, <1>7, FocusLeft

(* A message that changes calls of the list in place.                      *)
LEMMA FocusInPlace ==
  ASSUME DartClient, BaseInv, OrderInv, ListInv, LateReuse, [SystemNext]_svars, FocusInv,
         Take, mainQ' = mainQ, ~HandleHeader, ~IsSwitched(Msg1),
         focus' = focus, DOMAIN items' = DOMAIN items, ShownObjs' = ShownObjs
  PROVE  FocusInv'
<1>1. UnderWay = Rest \cup {Msg1} /\ UnderWay' = Rest
  BY FocusTaken DEF Take, UnderWay, Rest
<1>2. Asked(Rest) \subseteq ShownObjs'
  BY <1>1 DEF FocusInv, Asked
<1>3. FocusOK'
  <2>1. CASE focus # kEmptyCallId
    BY <2>1, FocusStays
  <2>2. CASE focus = kEmptyCallId /\ items' # <<>>
    <3>1. items # <<>>
      <4>1. items' \in Seq(CallModel) /\ items \in Seq(CallModel)
        BY StepBase DEF BaseInv, ModelTypes
      <4>. QED BY <2>2, <4>1
    <3>2. PICK m \in UnderWay : IsSwitched(m)
      BY <2>2, <3>1 DEF FocusInv, FocusOK
    <3>3. m \in Rest
      BY <1>1, <3>2
    <3>. QED BY <1>1, <2>2, <3>2, <3>3 DEF FocusOK
  <2>3. CASE focus = kEmptyCallId /\ items' = <<>>
    BY <2>3 DEF FocusOK
  <2>. QED BY <2>1, <2>2, <2>3
<1>. QED BY <1>2, <1>3, FocusLeft

(* OnSwitched takes the id of the event, whatever it is: it names a call.  *)
LEMMA FocusSwitched ==
  ASSUME DartClient, BaseInv, OrderInv, ListInv, LateReuse, [SystemNext]_svars, FocusInv,
         HandleSwitched
  PROVE  FocusInv'
<1>1. Take /\ mainQ' = mainQ /\ items' = items /\ IsSwitched(Msg1) /\ focus' = Msg1.id
  BY DEF HandleSwitched, OnSwitched, IsSwitched
<1>2. UnderWay = Rest \cup {Msg1} /\ FocusMsg(Msg1) /\ MessageOK(Msg1)
  BY <1>1, FocusTaken, TakeRest
<1>3. Asked(Rest) \subseteq ShownObjs'
  BY <1>1, <1>2 DEF FocusInv, Asked, ShownObjs
<1>4. PICK id : id = Msg1.id /\ Names(id)
  BY <1>1, <1>2 DEF FocusMsg
<1>5. Names(id)' /\ id # kEmptyCallId
  BY <1>1, <1>2, <1>4, NamesKept, NamesId
<1>6. FocusOK'
  BY <1>1, <1>4, <1>5 DEF FocusOK
<1>. QED BY <1>1, <1>3, <1>6, FocusLeft

(* The end of a call is handled up to its await: the header is asked for.  *)
LEMMA FocusAsks ==
  ASSUME DartClient, BaseInv, OrderInv, ListInv, LateReuse, [SystemNext]_svars, FocusInv,
         HandleTerminated
  PROVE  FocusInv'
<1>0. /\ Take /\ Leaves(Msg1) /\ Life(Msg1) /\ ~IsSwitched(Msg1) /\ ~HandleHeader
      /\ UNCHANGED <<items, focus>>
  BY DEF HandleTerminated, HandleHeader, Leaves, Life, IsSwitched, model
<1>1. /\ UnderWay = Rest \cup {Msg1} /\ MessageOK(Msg1)
      /\ \A m \in Rest : m \in Sent /\ FocusFirst(Msg1, m)
      /\ Msg1 \in ToSet(dartQ) /\ ToSet(dartQ') \subseteq ToSet(dartQ)
      /\ wk' = wk /\ slot' = slot
  BY <1>0, FocusTaken, TakeRest
<1>2. Msg1.obj \in ShownObjs /\ ShownObjs' = ShownObjs
  BY TerminatedTaken
<1>3. PICK e \in Sent : /\ Asks(e) /\ e.obj = Msg1.obj /\ e.id = Msg1.id
                       /\ Post(e) /\ UnderWay' = Rest \cup {e}
  BY TerminatedTaken
<1>4. ~IsSwitched(e) /\ ~IsInvited(e)
  BY <1>3 DEF Asks, IsSwitched, IsInvited
<1>5. PICK o \in Obj : o = Msg1.obj /\ slot[o] = Msg1.id
  BY <1>0, <1>1, <1>2, ItemTypes DEF MessageOK, BaseInv, ModelTypes, ShownObjs
<1>6. o \notin Asked(UnderWay)
  <2>1. o \in Pending
    BY <1>0, <1>1, <1>5 DEF Pending, Leaving
  <2>. QED BY <2>1 DEF ListInv, ListSound
<1>7. QueuesSorted(FocusOrder, dartQ, mainQ)'
  <2>1. ASSUME NEW m \in UnderWay PROVE <<m, e>> \in FocusOrder
    <3>1. m \in Sent
      BY QueueTypes DEF BaseInv
    <3>2. Asks(m) => m.obj # o
      BY <1>5, <1>6 DEF Asked
    <3>. QED BY <1>3, <1>4, <1>5, <3>1, <3>2 DEF FocusOrder, FocusFirst
  <2>2. dartQ # <<>> /\ dartQ' = Tail(dartQ) /\ TypeInv
    BY <1>0 DEF Take, BaseInv
  <2>. QED BY <1>3, <2>1, <2>2, TakenPosted DEF FocusInv
<1>8. ASSUME NEW m \in UnderWay' PROVE FocusMsg(m)'
  <2>1. CASE m = e
    BY <1>1, <1>3, <1>4, <1>5, <2>1 DEF FocusMsg
  <2>2. CASE m \in UnderWay
    BY <1>0, <2>2, FocusMsgKept
  <2>. QED BY <1>1, <1>3, <2>1, <2>2
<1>9. ASSUME NEW m \in UnderWay, IsSwitched(m) PROVE m \in UnderWay'
  BY <1>0, <1>1, <1>3, <1>9
<1>10. WillSwitch'
  <2>1. ASSUME NEW r \in UnderWay', IsInvited(r)
        PROVE  \E m \in UnderWay' : IsSwitched(m) /\ m.obj = r.obj
    <3>1. r \in UnderWay
      BY <1>1, <1>3, <1>4, <2>1
    <3>. QED BY <1>9, <2>1, <3>1 DEF FocusInv, WillSwitch
  <2>. QED BY <2>1 DEF WillSwitch
<1>11. Asked(UnderWay') \subseteq Asked(UnderWay) \cup {o}
  BY <1>1, <1>3, <1>5 DEF Asked
<1>12. Asked(UnderWay') \subseteq ShownObjs'
  BY <1>2, <1>5, <1>11 DEF FocusInv
<1>13. MixKnows'
  <2>. SUFFICES ASSUME wk.m = "switch", wk.pc = "mix"
                PROVE  wk.o \in Known' /\ wk.o \notin Asked(UnderWay')
    BY <1>1 DEF FocusInv, MixKnows
  <2>1. /\ wk.o \in Known /\ wk.o \notin Asked(UnderWay)
        /\ wk.o # o
    BY <1>0, <1>1, <1>5 DEF FocusInv, MixKnows
  <2>. QED BY <1>0, <1>11, <2>1, KnownKept
<1>14. FocusOK'
  <2>1. CASE focus # kEmptyCallId
    BY <1>0, <2>1, FocusStays
  <2>2. CASE focus = kEmptyCallId
    BY <1>0, <1>9, <2>2 DEF FocusInv, FocusOK
  <2>. QED BY <2>1, <2>2
<1>. QED BY <1>7, <1>8, <1>10, <1>12, <1>13, <1>14 DEF FocusInv

(* ... and then the call leaves the list, and hands the focus on.          *)
LEMMA FocusHeader ==
  ASSUME DartClient, BaseInv, OrderInv, ListInv, LateReuse, [SystemNext]_svars, FocusInv,
         HandleHeader
  PROVE  FocusInv'
<1>0. Take /\ mainQ' = mainQ /\ Asks(Msg1) /\ ~IsSwitched(Msg1)
  BY DEF HandleHeader, Asks, IsSwitched
<1>1. PICK o \in Ended : o = Msg1.obj /\ ShownObjs' = ShownObjs \ {o}
  BY HeaderTaken
<1>2. /\ UnderWay = Rest \cup {Msg1} /\ UnderWay' = Rest
      /\ \A m \in Rest : FocusFirst(Msg1, m)
  BY <1>0, FocusTaken DEF Take, UnderWay, Rest
<1>3. Asked(Rest) \subseteq ShownObjs'
  <2>1. o \notin Asked(Rest)
    BY <1>0, <1>1, <1>2 DEF Asked, FocusFirst
  <2>2. Asked(Rest) \subseteq Asked(UnderWay)
    BY <1>2 DEF Asked
  <2>. QED BY <1>1, <2>1, <2>2 DEF FocusInv
<1>4. /\ items' = Without(Msg1.obj)
      /\ focus # Msg1.id => focus' = focus
      /\ focus = Msg1.id => focus' = IF items' = <<>> THEN kEmptyCallId ELSE Head(items').id
  BY DEF HandleHeader, OnTerminatedResume
<1>5. items' \in Seq(CallModel) /\ ItemIds'
  BY <1>4, HeaderTaken, WithoutType DEF BaseInv, ModelTypes
<1>6. FocusOK'
  <2>1. CASE focus # Msg1.id /\ focus # kEmptyCallId
    BY <1>0, <1>4, <2>1, FocusStays
  <2>2. CASE focus # Msg1.id /\ focus = kEmptyCallId
    <3>1. items = <<>> => items' = <<>>
      BY <1>4 DEF Without, ShownObjs
    <3>2. ASSUME items # <<>> PROVE \E m \in Rest : IsSwitched(m)
      <4>1. PICK m \in UnderWay : IsSwitched(m)
        BY <2>2, <3>2 DEF FocusInv, FocusOK
      <4>. QED BY <1>0, <1>2, <4>1
    <3>. QED BY <1>2, <1>4, <2>2, <3>1, <3>2 DEF FocusOK
  <2>3. CASE focus = Msg1.id /\ items' = <<>>
    BY <1>4, <2>3 DEF FocusOK
  <2>4. CASE focus = Msg1.id /\ items' # <<>>
    <3>0. PICK s \in Seq(CallModel) : s = items'
      BY <1>5
    <3>1. 1 \in DOMAIN items' /\ Head(items') = items'[1] /\ items'[1].id \in Ids
      <4>1. 1 \in DOMAIN s /\ Head(s) = s[1] /\ s[1] \in CallModel
        BY <2>4, <3>0
      <4>. QED BY <3>0, <4>1, CallTypes
    <3>2. focus' = items'[1].id
      BY <1>4, <2>4, <3>1
    <3>3. items'[1].obj \in Known' /\ focus' = slot'[items'[1].obj]
      BY <1>5, <3>1, <3>2 DEF Known, ShownObjs, ItemIds
    <3>4. focus' # kEmptyCallId
      BY <3>1, <3>2, EngineAssumption DEF kEmptyCallId
    <3>. QED BY <3>3, <3>4 DEF FocusOK, Names
  <2>. QED BY <2>1, <2>2, <2>3, <2>4
<1>. QED BY <1>0, <1>3, <1>6, FocusLeft

LEMMA DartFocus ==
  ASSUME DartClient, BaseInv, OrderInv, ListInv, LateReuse, [SystemNext]_svars, FocusInv,
         Dart
  PROVE  FocusInv'
<1>1. CASE HandleIncoming \/ (HandleReply /\ Msg1.name = "invite" /\ Msg1.ok)
  BY <1>1, FocusEnters
<1>2. CASE HandleProceeding \/ HandleConnected
         \/ (HandleReply /\ ~(Msg1.name = "invite" /\ Msg1.ok))
  <2>1. Take /\ mainQ' = mainQ /\ ~HandleHeader /\ ~IsSwitched(Msg1)
    BY <1>2 DEF HandleProceeding, HandleConnected, HandleReply, HandleHeader, IsSwitched
  <2>2. focus' = focus /\ DOMAIN items' = DOMAIN items
    BY <1>2
    DEF HandleProceeding, OnProceeding, HandleConnected, OnConnected, HandleReply, Answered,
        ConfSet, model
  <2>3. ShownObjs' = ShownObjs
    <3>1. \A k \in DOMAIN items : items'[k].obj = items[k].obj
      <4>1. \A k \in DOMAIN items : items[k] \in CallModel
        BY DEF BaseInv, ModelTypes
      <4>2. ASSUME NEW k \in DOMAIN items PROVE items'[k].obj = items[k].obj
        <5>1. PICK c \in CallModel : c = items[k]
          BY <4>1
        <5>2. \/ items'[k] = c
              \/ items'[k] = [c EXCEPT !.st = "connected", !.starts = @ + 1]
              \/ \E st : items'[k] = [c EXCEPT !.st = st]
          <6>1. CASE HandleProceeding \/ HandleConnected
            BY <5>1, <6>1 DEF HandleProceeding, OnProceeding, HandleConnected, OnConnected
          <6>2. CASE HandleReply /\ ~(Msg1.name = "invite" /\ Msg1.ok)
            <7>1. \/ items' = items
                  \/ \E st : Answered(Msg1.obj, st)
              BY <6>2 DEF HandleReply, ConfSet, model
            <7>. QED BY <5>1, <7>1 DEF Answered
          <6>. QED BY <1>2, <6>1, <6>2
        <5>3. /\ [c EXCEPT !.st = "connected", !.starts = @ + 1].obj = c.obj
              /\ \A st : [c EXCEPT !.st = st].obj = c.obj
          BY DEF CallModel
        <5>. QED BY <5>1, <5>2, <5>3
      <4>. QED BY <4>2
    <3>. QED BY <2>2, <3>1 DEF ShownObjs
  <2>. QED BY <2>1, <2>2, <2>3, FocusInPlace
<1>3. CASE HandleSwitched
  BY <1>3, FocusSwitched
<1>4. CASE HandleTerminated
  BY <1>4, FocusAsks
<1>5. CASE HandleHeader
  BY <1>5, FocusHeader
<1>. QED BY <1>1, <1>2, <1>3, <1>4, <1>5 DEF Dart

LEMMA StepFocus ==
  ASSUME DartClient, BaseInv, OrderInv, ListInv, LateReuse, [SystemNext]_svars, FocusInv,
         HandOffLasts
  PROVE  FocusInv'
<1>1. CASE EngineStep
  <2>1. UNCHANGED model
    BY <1>1 DEF EngineStep
  <2>2. FocusKept
    <3>1. CASE \E t \in CbThreads : Callback(t)
      BY <2>1, <3>1, CallbackFocus
    <3>2. CASE Worker
      BY <2>1, <3>2, WorkerFocus
    <3>3. CASE Main
      BY <3>3, MainFocus
    <3>. QED BY <1>1, <3>1, <3>2, <3>3 DEF EngineStep, System
  <2>. QED BY <2>1, <2>2, FocusStepped DEF model
<1>2. CASE User
  <2>1. UNCHANGED model
    BY <1>2, UserSteps
  <2>. QED BY <1>2, <2>1, UserFocus, FocusStepped DEF model
<1>3. CASE Dart
  BY <1>3, DartFocus
<1>4. CASE Idle \/ UNCHANGED svars
  <2>1. UNCHANGED <<inv, slot, cb, wk, mainQ, dartQ, items, focus>>
    BY <1>4 DEF Idle, svars, vars, model
  <2>2. FocusKept
    <3>1. UnderWay' = UnderWay /\ Known' = Known
      BY <2>1 DEF UnderWay, Known, ShownObjs, Coming, Held, Registering, Entering
    <3>. QED BY <2>1, <3>1 DEF FocusInv, FocusKept, MixKnows
  <2>. QED BY <2>1, <2>2, FocusStepped
<1>. QED BY <1>1, <1>2, <1>3, <1>4 DEF SystemNext

LEMMA InitFocus == SystemInit => FocusInv
<1>. SUFFICES ASSUME SystemInit PROVE FocusInv
  OBVIOUS
<1>1. /\ wk = IdleWk /\ items = <<>> /\ focus = kEmptyCallId
      /\ dartQ = <<>> /\ mainQ = <<>>
  BY DEF SystemInit, Init, ModelInit
<1>2. UnderWay = {} /\ QueuesSorted(FocusOrder, dartQ, mainQ)
  BY <1>1 DEF UnderWay, Both, ToSet, QueuesSorted, Sorted, Across
<1>3. Asked(UnderWay) = {}
  BY <1>2 DEF Asked
<1>. QED BY <1>1, <1>2, <1>3 DEF FocusInv, WillSwitch, MixKnows, FocusOK, IdleWk

LEMMA FocusSettled ==
  ASSUME BaseInv, OrderInv, ListInv, FocusInv
  PROVE  FocusValid
<1>. SUFFICES ASSUME Quiet
              PROVE  IF items = <<>> THEN focus = kEmptyCallId ELSE focus \in Shown
  BY DEF FocusValid
<1>1. UnderWay = {}
  BY DEF Quiet, UnderWay, Both, ToSet
<1>2. Coming = {}
  BY <1>1 DEF Quiet, Coming, Entering, Held, Registering
<1>3. ASSUME focus # kEmptyCallId PROVE focus \in Shown
  <2>1. PICK o \in ShownObjs : slot[o] = focus
    BY <1>2, <1>3 DEF FocusInv, FocusOK, Names, Known
  <2>. QED BY <2>1 DEF ShownObjs, Shown, ListInv, ItemIds
<1>4. items = <<>> => Shown = {}
  BY DEF Shown
<1>5. items # <<>> => focus # kEmptyCallId
  BY <1>1 DEF FocusInv, FocusOK
<1>. QED BY <1>3, <1>4, <1>5

(* No other thread: between the two halves of a callback nothing leaves    *)
(* the map of calls.                                                       *)
OneThread == \A t, u \in CbThreads : t = u

(* The entry chosen by the first half is another's than the one removed.   *)
LEMMA StepHandOff ==
  ASSUME OneThread, TypeInv, HandOffLasts, [Next]_vars
  PROVE  HandOffLasts'
<1>1. ASSUME UNCHANGED cb, Registered \subseteq Registered' PROVE HandOffLasts'
  BY <1>1 DEF HandOffLasts
<1>2. ASSUME NEW t \in CbThreads, Callback(t) PROVE HandOffLasts'
  <2>. SUFFICES ASSUME cb'[t].pc = "disconnected", cb'[t].next # NoWire
                PROVE  cb'[t].next \in Registered'
    BY DEF OneThread, HandOffLasts
  <2>1. CASE Disconnected(t)
    <3>1. PICK o \in Obj :
            /\ calls' = [i \in Ids |-> IF i = wireId[o] THEN NoObj ELSE calls[i]]
            /\ LET left == {i \in Registered : i # wireId[o]} IN
               \E n \in IF left = {} THEN {NoWire} ELSE left :
                 cb' = [cb EXCEPT ![t] =
                          [pc |-> "disconnected", o |-> o, id |-> wireId[o],
                           focus |-> switchedCallId = wireId[o],
                           next |-> IF switchedCallId = wireId[o] THEN n ELSE NoWire]]
      BY <2>1 DEF Disconnected
    <3>2. PICK n : /\ n = NoWire \/ (n \in Registered /\ n # wireId[o])
                   /\ cb'[t].next = n
      BY <3>1 DEF TypeInv, TypeOK
    <3>. QED BY <3>1, <3>2 DEF Registered
  <2>2. CASE IncomingCall(t)
    <3>1. cb'[t].pc = "incoming"
      BY <2>2 DEF IncomingCall, TypeInv, TypeOK, IdleCb
    <3>. QED BY <3>1
  <2>3. CASE IncomingPost(t) \/ DisconnectedPost(t)
    <3>1. cb'[t].pc = "idle"
      BY <2>3 DEF IncomingPost, DisconnectedPost, TypeInv, TypeOK, IdleCb
    <3>. QED BY <3>1
  <2>4. CASE Provisional(t) \/ Confirmed(t)
    <3>1. UNCHANGED <<cb, calls>>
      BY <2>4 DEF Provisional, Confirmed
    <3>. QED BY <3>1 DEF HandOffLasts, Registered
  <2>. QED BY <1>2, <2>1, <2>2, <2>3, <2>4 DEF Callback
<1>3. CASE Worker
  <2>1. cb' = cb
    BY <1>3
    DEF Worker, InviteMake, InviteFail, InviteWire, InvitePut, InviteDone, Accept, Hangup,
        Upgrade, SwitchLookup, SwitchDone, Conference
  <2>2. \/ calls' = calls
        \/ \E o \in Obj : calls' = [calls EXCEPT ![wireId[o]] = o]
    <3>1. CASE InvitePut
      <4>1. wk.o \in Obj /\ calls' = [calls EXCEPT ![wireId[wk.o]] = wk.o]
        BY <3>1 DEF InvitePut, TypeInv, TypeOK, WorkerOK
      <4>. QED BY <4>1
    <3>. QED
      BY <1>3, <3>1
      DEF Worker, InviteMake, InviteFail, InviteWire, InviteDone, Accept, Hangup,
          Upgrade, SwitchLookup, SwitchDone, Conference, engine
  <2>3. Registered \subseteq Registered'
    BY <2>2, Sentinels DEF Registered, TypeInv, TypeOK
  <2>. QED BY <1>1, <2>1, <2>3
<1>4. CASE Main \/ Client \/ UNCHANGED vars
  <2>1. UNCHANGED <<cb, calls>>
    BY <1>4
    DEF Main, MainEvent, MainRequest, MainHeader, Client, ClientTake, ClientSend,
        ClientTakeAndSend, engine, vars
  <2>. QED BY <1>1, <2>1 DEF Registered
<1>. QED BY <1>2, <1>3, <1>4 DEF Next, System

LEMMA HandOffInvariant ==
  ASSUME DartClient, OneThread
  PROVE  SafeSystem => []HandOffLasts
<1>1. Init => HandOffLasts
  BY DEF Init, HandOffLasts, IdleCb
<1>2. TypeInv /\ HandOffLasts /\ [Next]_vars => HandOffLasts'
  BY StepHandOff
<1>. QED BY <1>1, <1>2, DartIsAClient, TypeInvariant, PTL DEF Spec

(* When everything has settled the call Dart shows as switched is in its   *)
(* list, and none is when the list is empty: whatever the order in which   *)
(* switched, terminated and the replies came, provided the call the engine *)
(* hands the focus to has not ended before it is told of.                  *)
THEOREM FocusFollows ==
  ASSUME DartClient
  PROVE  SafeSystem /\ []LateReuse /\ []HandOffLasts => []FocusValid
<1>1. BaseInv /\ OrderInv /\ ListInv /\ LateReuse /\ [SystemNext]_svars /\ FocusInv
        /\ HandOffLasts => FocusInv'
  BY StepFocus
<1>2. BaseInv /\ OrderInv /\ ListInv /\ FocusInv => FocusValid
  BY FocusSettled
<1>. QED BY <1>1, <1>2, SystemInvariant, InitFocus, PTL DEF SafeSystem

(* PJSUA has one thread for callbacks unless it is told otherwise, and     *)
(* SipCore never sets threadCnt: then nothing more is needed.              *)
THEOREM FocusIsValid ==
  ASSUME DartClient, OneThread
  PROVE  SafeSystem /\ []LateReuse => []FocusValid
  BY FocusFollows, HandOffInvariant, PTL

-----------------------------------------------------------------------------
(* What holds of the engine with any client holds with Dart as its client: *)
(* the map of calls is sound, events carry the ids of slots, ...           *)
THEOREM TableWithDart ==
  ASSUME DartClient
  PROVE  SafeSystem => [](TableSound /\ EventIds)
<1>1. ~FastPeer
  BY DEF DartClient
<1>. QED BY <1>1, DartIsAClient, TableCorrect, EventsNamed, PTL

(* ... and, without re-INVITEs, come to Dart in the order of a call's life. *)
THEOREM OrderWithDart ==
  ASSUME DartClient, "upgrade" \notin Methods
  PROVE  SafeSystem => []EventOrder
  BY DartIsAClient, EventsOrdered, PTL

=============================================================================
