--------------------------- MODULE SipCallsProofs ---------------------------
(***************************************************************************)
(* Proofs about the call table of the engine, for any number of calls,     *)
(* slots and callback threads, and for any client.                         *)
(***************************************************************************)
EXTENDS SipCalls, SequencesExt, TLAPS

(* What the worker and a callback remember between two of their steps.     *)
WorkerOK ==
  /\ wk.m = "invite" /\ wk.pc \in {"made", "wired", "put"} => wk.o \in Obj
  /\ wk.m = "switch" /\ wk.pc = "mix" => wk.o \in Obj /\ wk.id \in Ids

CallbackOK == \A t \in CbThreads : cb[t].pc # "idle" => cb[t].o \in Obj

TypeInv == TypeOK /\ WorkerOK /\ CallbackOK

-----------------------------------------------------------------------------
(* Messages built by the actions are messages.                             *)

LEMMA EventType ==
  ASSUME NEW n \in EventNames, NEW id \in WireIds, NEW o \in Obj
  PROVE  Event(n, id, o) \in Msg
  BY DEF Event, Msg

LEMMA RequestType ==
  ASSUME NEW m \in AllMethods, NEW id \in WireIds, NEW w \in Awaiters
  PROVE  Request(m, id, w) \in Msg
  BY DEF Request, Msg

LEMMA ReplyType ==
  ASSUME NEW m \in AllMethods, NEW id \in WireIds,
         NEW w \in Who \cup {NoObj}, NEW ok \in BOOLEAN
  PROVE  Reply(m, id, w, ok) \in Rep
  BY DEF Reply, Rep

(* The queues stay sequences of messages.                                  *)
LEMMA PostType ==
  ASSUME mainQ \in Seq(Msg), NEW e \in Msg, Post(e)
  PROVE  mainQ' \in Seq(Msg)
  BY DEF Post

(* Done sends a well-formed reply and leaves the worker idle.              *)
LEMMA DoneType ==
  ASSUME TypeOK, wk.m \in AllMethods, NEW id \in WireIds, NEW ok \in BOOLEAN,
         Done(id, ok)
  PROVE  /\ dartQ' \in Seq(Msg \cup Rep)
         /\ wk' = IdleWk
<1>1. (IF wk.m = "invite" THEN wk.o ELSE wk.obj) \in Who \cup {NoObj}
  BY DEF TypeOK, Who
<1>2. Reply(wk.m, id, IF wk.m = "invite" THEN wk.o ELSE wk.obj, ok) \in Rep
  BY <1>1, ReplyType
<1>. QED BY <1>2 DEF Done, TypeOK

(* An idle worker is well typed.                                           *)
LEMMA IdleType ==
  /\ IdleWk \in [m: AllMethods \cup {"idle"},
                 pc: {"start", "made", "wired", "put", "mix"},
                 id: WireIds, obj: Awaiters \cup {NoObj}, o: Obj \cup {NoObj}]
  /\ IdleCb \in [pc: {"idle", "incoming", "disconnected"},
                 o: Obj \cup {NoObj}, id: Ids \cup {NoWire},
                 focus: BOOLEAN, next: Ids \cup {NoWire}]
  BY DEF IdleWk, IdleCb, WireIds, NoId, NoObj, NoWire

-----------------------------------------------------------------------------
(* Type correctness.                                                       *)

LEMMA InitType == Init => TypeInv
  BY IdleType DEF Init, TypeInv, TypeOK, WorkerOK, CallbackOK, IdleWk, IdleCb,
     NoWire, NoObj

(* The steps of a PJSIP thread.                                            *)
LEMMA CallbackType ==
  ASSUME TypeInv, NEW t \in CbThreads, Callback(t)
  PROVE  TypeInv'
<1>1. CASE IncomingCall(t)
  <2>1. PICK o \in Obj, id \in Ids :
          /\ inv' = [inv EXCEPT ![o] = "incoming"]
          /\ slot' = [slot EXCEPT ![o] = id]
          /\ role' = [role EXCEPT ![o] = "uas"]
          /\ wireId' = [wireId EXCEPT ![o] = id]
          /\ calls' = [calls EXCEPT ![id] = o]
          /\ cb' = [cb EXCEPT ![t] = [IdleCb EXCEPT !.pc = "incoming",
                                                    !.o = o, !.id = id]]
          /\ UNCHANGED <<hungUp, reinvited, wasConnected, proceedingFired,
                         switchedCallId, wk, mainQ, dartQ>>
    BY <1>1 DEF IncomingCall
  <2>2. cb' \in [CbThreads -> [pc: {"idle", "incoming", "disconnected"},
                               o: Obj \cup {NoObj}, id: Ids \cup {NoWire},
                               focus: BOOLEAN, next: Ids \cup {NoWire}]]
    BY <2>1, IdleType DEF TypeInv, TypeOK
  <2>3. CallbackOK'
    BY <2>1, IdleType DEF TypeInv, TypeOK, CallbackOK, IdleCb
  <2>. QED BY <2>1, <2>2, <2>3 DEF TypeInv, TypeOK, WorkerOK
<1>2. CASE IncomingPost(t)
  <2>1. Event("incoming", cb[t].id, cb[t].o) \in Msg
    BY <1>2, EventType
    DEF IncomingPost, TypeInv, TypeOK, CallbackOK, EventNames, WireIds
  <2>. QED
    BY <1>2, <2>1, PostType, IdleType
    DEF IncomingPost, TypeInv, TypeOK, WorkerOK, CallbackOK, engine, session,
        fields, IdleCb
<1>3. CASE Provisional(t)
  <2>1. PICK o \in Obj :
          /\ proceedingFired' = [proceedingFired EXCEPT ![o] = TRUE]
          /\ Post(Event("proceeding", wireId[o], o))
    BY <1>3 DEF Provisional
  <2>2. Event("proceeding", wireId[o], o) \in Msg
    BY EventType DEF TypeInv, TypeOK, EventNames, WireIds
  <2>. QED
    BY <1>3, <2>1, <2>2, PostType
    DEF Provisional, TypeInv, TypeOK, WorkerOK, CallbackOK, session
<1>4. CASE Confirmed(t)
  <2>1. PICK o \in Obj :
          /\ inv' = [inv EXCEPT ![o] = "confirmed"]
          /\ wasConnected' = [wasConnected EXCEPT ![o] = TRUE]
          /\ IF wasConnected[o] THEN UNCHANGED mainQ
             ELSE Post(Event("connected", wireId[o], o))
    BY <1>4 DEF Confirmed
  <2>2. Event("connected", wireId[o], o) \in Msg
    BY EventType DEF TypeInv, TypeOK, EventNames, WireIds
  <2>3. mainQ' \in Seq(Msg)
    BY <2>1, <2>2, PostType DEF TypeInv, TypeOK
  <2>. QED
    BY <1>4, <2>1, <2>3
    DEF Confirmed, TypeInv, TypeOK, WorkerOK, CallbackOK
<1>5. CASE Disconnected(t)
  <2>1. PICK o \in Obj :
          /\ inv' = [inv EXCEPT ![o] = "ended"]
          /\ calls' = [i \in Ids |-> IF i = wireId[o] THEN NoObj ELSE calls[i]]
          /\ \E n \in Ids \cup {NoWire} :
               cb' = [cb EXCEPT ![t] =
                        [pc |-> "disconnected", o |-> o, id |-> wireId[o],
                         focus |-> switchedCallId = wireId[o],
                         next |-> IF switchedCallId = wireId[o] THEN n
                                  ELSE NoWire]]
    BY ZenonT(40), <1>5 DEF Disconnected, Registered
  <2>. QED
    BY <1>5, <2>1
    DEF Disconnected, TypeInv, TypeOK, WorkerOK, CallbackOK, fields, NoObj
<1>6. CASE DisconnectedPost(t)
  <2>1. cb[t].o \in Obj /\ cb[t].next \in WireIds /\ cb[t].id \in WireIds
    BY <1>6 DEF DisconnectedPost, TypeInv, TypeOK, CallbackOK, WireIds
  <2>2. /\ Event("switched", cb[t].next, cb[t].o) \in Msg
        /\ Event("terminated", cb[t].id, cb[t].o) \in Msg
    BY <2>1, EventType DEF EventNames
  <2>3. mainQ' \in Seq(Msg)
    BY <1>6, <2>2 DEF DisconnectedPost, TypeInv, TypeOK
  <2>. QED
    BY <1>6, <2>1, <2>3, IdleType
    DEF DisconnectedPost, TypeInv, TypeOK, WorkerOK, CallbackOK, IdleCb, NoWire
<1>. QED BY <1>1, <1>2, <1>3, <1>4, <1>5, <1>6 DEF Callback

(* The steps of the worker.                                                *)
LEMMA WorkerType ==
  ASSUME TypeInv, Worker
  PROVE  TypeInv'
<1>. USE DEF TypeInv
<1>0. wk.id \in WireIds /\ NoId \in WireIds /\ wk.m \in AllMethods
  BY DEF TypeOK, WireIds, Worker, InviteMake, InviteFail, InviteWire,
         InvitePut, InviteDone, Accept, Hangup, Upgrade, SwitchLookup,
         SwitchDone, Conference, AllMethods
<1>1. CASE InviteMake
  <2>1. PICK o \in Obj, id \in Ids :
          /\ inv' = [inv EXCEPT ![o] = "calling"]
          /\ slot' = [slot EXCEPT ![o] = id]
          /\ role' = [role EXCEPT ![o] = "uac"]
          /\ wk' = [wk EXCEPT !.pc = "made", !.o = o]
    BY <1>1 DEF InviteMake
  <2>. QED
    BY <1>1, <2>1 DEF InviteMake, TypeOK, WorkerOK, CallbackOK, fields
<1>2. CASE InviteFail
  <2>1. dartQ' \in Seq(Msg \cup Rep) /\ wk' = IdleWk
    BY <1>2, <1>0, DoneType DEF InviteFail
  <2>. QED
    BY <1>2, <2>1, IdleType
    DEF InviteFail, TypeOK, WorkerOK, CallbackOK, engine, session, fields,
        IdleWk
<1>3. CASE InviteWire
  <2>1. CASE inv[wk.o] = "ended"
    <3>1. dartQ' \in Seq(Msg \cup Rep) /\ wk' = IdleWk
      BY <1>3, <1>0, <2>1, DoneType DEF InviteWire
    <3>. QED
      BY <1>3, <2>1, <3>1, IdleType
      DEF InviteWire, TypeOK, WorkerOK, CallbackOK, session, IdleWk
  <2>2. CASE inv[wk.o] # "ended"
    BY ZenonT(40), <1>3, <2>2 DEF InviteWire, TypeOK, WorkerOK, CallbackOK, session
  <2>. QED BY <2>1, <2>2
<1>4. CASE InvitePut
  BY <1>4 DEF InvitePut, TypeOK, WorkerOK, CallbackOK, session, fields
<1>5. CASE InviteDone
  <2>1. wk.o \in Obj /\ wireId[wk.o] \in Ids \cup {NoWire}
    BY <1>5 DEF InviteDone, TypeOK, WorkerOK
  <2>2. Event("switched", wireId[wk.o], wk.o) \in Msg
    BY <2>1, EventType DEF EventNames, WireIds
  <2>3. dartQ' \in Seq(Msg \cup Rep) /\ wk' = IdleWk
    BY <1>5, <1>0, <2>1, DoneType DEF InviteDone, WireIds
  <2>4. mainQ' \in Seq(Msg)
    BY <1>5, <2>2, PostType DEF InviteDone, TypeOK
  <2>. QED
    BY <1>5, <2>1, <2>3, <2>4, IdleType
    DEF InviteDone, TypeOK, WorkerOK, CallbackOK, session, fields, IdleWk
<1>6. CASE Accept
  <2>1. dartQ' \in Seq(Msg \cup Rep) /\ wk' = IdleWk
    BY <1>6, <1>0, DoneType DEF Accept
  <2>. QED
    BY <1>6, <2>1, IdleType
    DEF Accept, TypeOK, WorkerOK, CallbackOK, fields, IdleWk
<1>7. CASE Hangup
  <2>1. dartQ' \in Seq(Msg \cup Rep) /\ wk' = IdleWk
    BY <1>7, <1>0, DoneType DEF Hangup
  <2>2. hungUp' \in SUBSET Obj
    <3>1. Found => Target \in Obj
      BY DEF Found, Target, TypeOK
    <3>. QED BY ZenonT(40), <1>7, <3>1 DEF Hangup, TypeOK
  <2>. QED
    BY <1>7, <2>1, <2>2, IdleType
    DEF Hangup, TypeOK, WorkerOK, CallbackOK, fields, IdleWk
<1>8. CASE Upgrade
  <2>1. dartQ' \in Seq(Msg \cup Rep) /\ wk' = IdleWk
    BY <1>8, <1>0, DoneType DEF Upgrade
  <2>2. reinvited' \in SUBSET Obj
    <3>1. Found => Target \in Obj
      BY DEF Found, Target, TypeOK
    <3>. QED BY <1>8, <3>1 DEF Upgrade, TypeOK
  <2>. QED
    BY <1>8, <2>1, <2>2, IdleType
    DEF Upgrade, TypeOK, WorkerOK, CallbackOK, fields, IdleWk
<1>9. CASE SwitchLookup
  <2>1. CASE Found
    BY <1>9, <2>1
    DEF SwitchLookup, Found, Target, TypeOK, WorkerOK, CallbackOK, engine,
        session, fields
  <2>2. CASE ~Found
    <3>1. dartQ' \in Seq(Msg \cup Rep) /\ wk' = IdleWk
      BY <1>9, <1>0, <2>2, DoneType DEF SwitchLookup
    <3>. QED
      BY <1>9, <3>1, IdleType
      DEF SwitchLookup, TypeOK, WorkerOK, CallbackOK, engine, session,
          fields, IdleWk
  <2>. QED BY <2>1, <2>2
<1>10. CASE SwitchDone
  <2>1. wk.o \in Obj /\ wk.id \in Ids
    BY <1>10 DEF SwitchDone, WorkerOK
  <2>2. Event("switched", wk.id, wk.o) \in Msg
    BY <1>0, <2>1, EventType DEF EventNames
  <2>3. dartQ' \in Seq(Msg \cup Rep) /\ wk' = IdleWk
    BY <1>10, <1>0, DoneType DEF SwitchDone
  <2>4. mainQ' \in Seq(Msg)
    BY <1>10, <2>2, PostType DEF SwitchDone, TypeOK
  <2>. QED
    BY <1>10, <2>1, <2>3, <2>4, IdleType
    DEF SwitchDone, TypeOK, WorkerOK, CallbackOK, session, fields, IdleWk
<1>11. CASE Conference
  <2>1. dartQ' \in Seq(Msg \cup Rep) /\ wk' = IdleWk
    BY <1>11, <1>0, DoneType DEF Conference
  <2>. QED
    BY <1>11, <2>1, IdleType
    DEF Conference, TypeOK, WorkerOK, CallbackOK, session, fields, IdleWk
<1>. QED
  BY <1>1, <1>2, <1>3, <1>4, <1>5, <1>6, <1>7, <1>8, <1>9, <1>10, <1>11
  DEF Worker

(* The steps of the main looper.                                           *)
LEMMA MainType ==
  ASSUME TypeInv, Main
  PROVE  TypeInv'
<1>. USE DEF TypeInv
<1>1. mainQ \in Seq(Msg) /\ mainQ # <<>>
  BY DEF Main, MainEvent, MainRequest, MainHeader, MainIdle, TypeOK
<1>2. Head(mainQ) \in Msg /\ Tail(mainQ) \in Seq(Msg)
  BY <1>1
<1>3. CASE MainEvent
  BY <1>2, <1>3
  DEF MainEvent, TypeOK, WorkerOK, CallbackOK, engine, session, fields
<1>4. CASE MainRequest
  <2>1. /\ Head(mainQ).name \in AllMethods
        /\ Head(mainQ).id \in WireIds
        /\ Head(mainQ).obj \in Awaiters
    BY <1>2, <1>4 DEF MainRequest, Msg
  <2>2. /\ wk' \in [m: AllMethods \cup {"idle"},
                    pc: {"start", "made", "wired", "put", "mix"},
                    id: WireIds, obj: Awaiters \cup {NoObj},
                    o: Obj \cup {NoObj}]
        /\ wk'.pc = "start"
    BY <1>4, <2>1 DEF MainRequest, IdleWk, NoObj
  <2>. QED
    BY <1>2, <1>4, <2>2
    DEF MainRequest, TypeOK, WorkerOK, CallbackOK, engine, session, fields
<1>5. CASE MainHeader
  <2>1. Head(mainQ).id \in WireIds /\ Head(mainQ).obj \in Who \cup {NoObj}
    BY <1>2, <1>5 DEF MainHeader, Msg, Who
  <2>2. Reply("header", Head(mainQ).id, Head(mainQ).obj, TRUE) \in Rep
    BY <2>1, ReplyType DEF AllMethods
  <2>3. dartQ' \in Seq(Msg \cup Rep)
    <3>1. PICK r \in Rep : dartQ' = Append(dartQ, r)
      BY <1>5, <2>2 DEF MainHeader
    <3>. QED BY <3>1 DEF TypeOK
  <2>. QED
    BY <1>2, <1>5, <2>3
    DEF MainHeader, TypeOK, WorkerOK, CallbackOK, engine, session, fields
<1>. QED BY <1>3, <1>4, <1>5 DEF Main

(* The steps of the client.                                                *)
LEMMA ClientType ==
  ASSUME TypeInv, Client
  PROVE  TypeInv'
<1>. USE DEF TypeInv, TypeOK, WorkerOK, CallbackOK, engine, session, fields
<1>1. CASE ClientTake
  BY <1>1 DEF ClientTake
<1>2. CASE ClientSend
  <2>1. PICK m \in Methods, id \in WireIds, who \in Awaiters :
          Post(Request(m, id, who))
    BY <1>2 DEF ClientSend
  <2>2. m \in AllMethods
    BY EngineAssumption
  <2>3. Request(m, id, who) \in Msg
    BY <2>2, RequestType
  <2>. QED BY <1>2, <2>1, <2>3, PostType DEF ClientSend
<1>3. CASE ClientTakeAndSend
  <2>1. PICK id \in WireIds, who \in Awaiters :
          Post(Request("header", id, who))
    BY <1>3 DEF ClientTakeAndSend
  <2>2. Request("header", id, who) \in Msg
    BY RequestType DEF AllMethods
  <2>. QED BY <1>3, <2>1, <2>2, PostType DEF ClientTakeAndSend
<1>. QED BY <1>1, <1>2, <1>3 DEF Client

(* No step does anything but one of the actions above.                     *)
LEMMA StepType == TypeInv /\ [Next]_vars => TypeInv'
<1>1. TypeInv /\ UNCHANGED vars => TypeInv'
  BY DEF TypeInv, TypeOK, WorkerOK, CallbackOK, vars
<1>. QED
  BY <1>1, CallbackType, WorkerType, MainType, ClientType DEF Next, System

LEMMA TypeInvariant == Spec => []TypeInv
  BY InitType, StepType, PTL DEF Spec

(* Every variable of the engine keeps its type, whatever the client asks   *)
(* for: no null in the map, no event without a call.                       *)
THEOREM TypeCorrect == Spec => []TypeOK
<1>1. TypeInv => TypeOK
  BY DEF TypeInv
<1>. QED BY <1>1, TypeInvariant, PTL

-----------------------------------------------------------------------------
(* TableSound.  It is not inductive: that the entry a call is put under is *)
(* free follows from slots being unique among live calls, and that a call  *)
(* is found under its wire id from the wire id being its slot or not yet   *)
(* set; a call that callInvite is registering is live because, without a   *)
(* fast peer, no callback has run for it.                                  *)

SlotsUnique ==
  /\ \A o \in Obj : Alive(o) => slot[o] \in Ids
  /\ \A o, p \in Obj : Alive(o) /\ Alive(p) /\ slot[o] = slot[p] => o = p

WireIsSlot ==
  /\ \A o \in Obj : inv[o] = "unborn" => wireId[o] = NoWire
  /\ \A o \in Obj : Alive(o) => wireId[o] \in {NoWire, slot[o]}

RegisteringOK ==
  /\ wk.m = "invite" /\ wk.pc = "start" => wk.o = NoObj
  /\ wk.m = "invite" /\ wk.pc # "start" =>
       /\ wk.pc \in {"made", "wired", "put"}
       /\ wk.o \in Obj /\ Alive(wk.o)
  /\ wk.m = "invite" /\ wk.pc \in {"wired", "put"} =>
       wireId[wk.o] = slot[wk.o]
  /\ wk.m = "invite" /\ wk.pc = "put" => calls[wireId[wk.o]] = wk.o

EndingOK == \A t \in CbThreads :
              cb[t].pc = "disconnected" => inv[cb[t].o] = "ended"

TableInv == TableSound /\ SlotsUnique /\ WireIsSlot /\ RegisteringOK /\ EndingOK

\* The sentinels are not ids and not calls.
LEMMA Sentinels == NoWire \notin Ids /\ NoId \notin Ids /\ NoObj \notin Obj
  BY EngineAssumption DEF NoWire, NoId, NoObj, Obj

LEMMA InitTable == Init => TableInv
  BY Sentinels
  DEF Init, TableInv, TableSound, SlotsUnique, WireIsSlot, RegisteringOK,
      EndingOK, Registered, Registering, Alive, IdleWk, IdleCb

(* Steps that leave the table, the sessions and the callbacks alone, and   *)
(* do not begin or end the registering of a call.                          *)
LEMMA FrameTable ==
  ASSUME TableInv, UNCHANGED <<inv, slot, wireId, calls, cb>>,
         ~(wk.m = "invite" /\ wk.pc # "start"),
         wk'.m = "invite" => wk'.pc = "start" /\ wk'.o = NoObj
  PROVE  TableInv'
<1>1. \A o \in Obj : ~Registering(o)
  BY Sentinels DEF TableInv, RegisteringOK, Registering
<1>2. RegisteringOK'
  BY DEF RegisteringOK
<1>. QED
  BY <1>1, <1>2
  DEF TableInv, TableSound, SlotsUnique, WireIsSlot, EndingOK, Registered,
      Alive

(* The steps of a PJSIP thread keep the table sound.                       *)
LEMMA CallbackTable ==
  ASSUME TypeInv, TableInv, ~FastPeer, NEW t \in CbThreads, Callback(t)
  PROVE  TableInv'
<1>. USE Sentinels
<1>1. CASE IncomingCall(t)
  <2>1. PICK o \in Obj, id \in Ids :
          /\ Fresh(o) /\ FreeSlot(id)
          /\ inv' = [inv EXCEPT ![o] = "incoming"]
          /\ slot' = [slot EXCEPT ![o] = id]
          /\ wireId' = [wireId EXCEPT ![o] = id]
          /\ calls' = [calls EXCEPT ![id] = o]
          /\ cb' = [cb EXCEPT ![t] = [IdleCb EXCEPT !.pc = "incoming",
                                                    !.o = o, !.id = id]]
          /\ wk' = wk
    BY <1>1 DEF IncomingCall
  <2>2. inv[o] = "unborn" /\ \A p \in Obj : Alive(p) => slot[p] # id
    BY <2>1 DEF Fresh, FreeSlot
  <2>3. \A p \in Obj : Alive(p)' <=> Alive(p) \/ p = o
    BY <2>1 DEF Alive, TypeInv, TypeOK
  <2>4. SlotsUnique'
    BY <2>1, <2>2, <2>3 DEF TableInv, SlotsUnique, TypeInv, TypeOK
  <2>5. WireIsSlot'
    BY <2>1, <2>2, <2>3 DEF TableInv, WireIsSlot, TypeInv, TypeOK
  <2>6. RegisteringOK'
    BY <2>1, <2>2, <2>3
    DEF TableInv, SlotsUnique, RegisteringOK, Alive, TypeInv, TypeOK
  <2>7. EndingOK'
    BY <2>1, <2>2 DEF TableInv, EndingOK, TypeInv, TypeOK, CallbackOK
  <2>8. TableSound'
    <3>1. \A p \in Obj : Alive(p) => p # o
      BY <2>2 DEF Alive
    <3>2. \A j \in Registered' : Alive(calls[j])' /\ wireId'[calls'[j]] = j
      BY <2>1, <2>3, <3>1
      DEF TableInv, TableSound, Registered, TypeInv, TypeOK
    <3>3. \A p \in Obj : Alive(p)' /\ ~Registering(p)' =>
            wireId'[p] \in Ids /\ calls'[wireId'[p]] = p
      BY <2>1, <2>2, <2>3, <3>1
      DEF TableInv, TableSound, WireIsSlot, Registering, TypeInv, TypeOK
    <3>. QED BY <3>2, <3>3 DEF TableSound
  <2>. QED BY <2>4, <2>5, <2>6, <2>7, <2>8 DEF TableInv
<1>2. CASE IncomingPost(t)
  BY <1>2
  DEF IncomingPost, engine, session, fields, IdleCb, TableInv, TableSound,
      SlotsUnique, WireIsSlot, RegisteringOK, EndingOK, Registered,
      Registering, Alive, TypeInv, TypeOK
<1>3. CASE Provisional(t)
  BY <1>3
  DEF Provisional, session, TableInv, TableSound, SlotsUnique, WireIsSlot,
      RegisteringOK, EndingOK, Registered, Registering, Alive
<1>4. CASE Confirmed(t)
  <2>1. PICK o \in Obj :
          /\ Alive(o)
          /\ inv[o] # "unborn"
          /\ inv' = [inv EXCEPT ![o] = "confirmed"]
    BY <1>4 DEF Confirmed, Alive
  <2>2. UNCHANGED <<slot, wireId, calls, cb, wk>>
    BY <1>4 DEF Confirmed
  <2>3. /\ \A p \in Obj : Alive(p)' <=> Alive(p)
        /\ \A p \in Obj : inv'[p] = "unborn" <=> inv[p] = "unborn"
        /\ \A p \in Obj : inv'[p] = "ended" <=> inv[p] = "ended"
    BY <2>1 DEF Alive, TypeInv, TypeOK
  <2>4. TableSound'
    BY <2>2, <2>3
    DEF TableInv, TableSound, Registered, Registering, TypeInv, TypeOK
  <2>5. SlotsUnique' /\ WireIsSlot'
    BY <2>2, <2>3 DEF TableInv, SlotsUnique, WireIsSlot
  <2>6. RegisteringOK'
    BY <2>2, <2>3 DEF TableInv, RegisteringOK
  <2>7. EndingOK'
    BY <2>2, <2>3 DEF TableInv, EndingOK, TypeInv, TypeOK, CallbackOK
  <2>. QED BY <2>4, <2>5, <2>6, <2>7 DEF TableInv
<1>5. CASE Disconnected(t)
  <2>1. PICK o \in Obj :
          /\ CanCallBack(t, o)
          /\ Alive(o)
          /\ inv' = [inv EXCEPT ![o] = "ended"]
          /\ calls' = [i \in Ids |-> IF i = wireId[o] THEN NoObj ELSE calls[i]]
          /\ \E f \in BOOLEAN, n \in Ids \cup {NoWire} :
               cb' = [cb EXCEPT ![t] =
                        [pc |-> "disconnected", o |-> o, id |-> wireId[o],
                         focus |-> f, next |-> n]]
    BY <1>5 DEF Disconnected, Registered
  <2>2. UNCHANGED <<slot, wireId, wk>>
    BY <1>5 DEF Disconnected, fields
  <2>3. /\ \A p \in Obj : Alive(p)' <=> Alive(p) /\ p # o
        /\ \A p \in Obj : inv'[p] = "unborn" <=> inv[p] = "unborn"
    BY <2>1 DEF Alive, TypeInv, TypeOK
  <2>4. ~Registering(o)
    BY <2>1 DEF CanCallBack, Registering
  <2>5. wireId[o] \in Ids /\ calls[wireId[o]] = o
    BY <2>1, <2>4 DEF TableInv, TableSound
  <2>6. TableSound'
    <3>1. \A j \in Registered' : Alive(calls[j])' /\ wireId'[calls'[j]] = j
      BY <2>1, <2>2, <2>3
      DEF TableInv, TableSound, Registered, TypeInv, TypeOK
    <3>2. \A p \in Obj : Alive(p)' /\ ~Registering(p)' =>
            wireId'[p] \in Ids /\ calls'[wireId'[p]] = p
      BY <2>1, <2>2, <2>3, <2>5 DEF TableInv, TableSound, Registering
    <3>. QED BY <3>1, <3>2 DEF TableSound
  <2>7. SlotsUnique' /\ WireIsSlot'
    BY <2>2, <2>3 DEF TableInv, SlotsUnique, WireIsSlot
  <2>8. RegisteringOK'
    <3>1. wk.m = "invite" /\ wk.pc \in {"wired", "put"} =>
            wireId[wk.o] \in Ids
      BY DEF TableInv, RegisteringOK, SlotsUnique
    <3>. QED
      BY <2>1, <2>2, <2>3, <2>4, <2>5, <3>1
      DEF TableInv, RegisteringOK, Registering
  <2>9. EndingOK'
    BY <2>1 DEF TableInv, EndingOK, TypeInv, TypeOK, CallbackOK
  <2>. QED BY <2>6, <2>7, <2>8, <2>9 DEF TableInv
<1>6. CASE DisconnectedPost(t)
  <2>1. cb[t].o \in Obj /\ inv[cb[t].o] = "ended"
    BY <1>6 DEF DisconnectedPost, TableInv, EndingOK, TypeInv, CallbackOK
  <2>2. /\ UNCHANGED <<inv, slot, calls, wk>>
        /\ wireId' = [wireId EXCEPT ![cb[t].o] = NoWire]
        /\ cb' = [cb EXCEPT ![t] = IdleCb]
    BY <1>6 DEF DisconnectedPost
  <2>3. \A p \in Obj : Alive(p) => wireId'[p] = wireId[p]
    BY <2>1, <2>2 DEF Alive, TypeInv, TypeOK
  <2>4. \A p \in Obj : Alive(p)' <=> Alive(p)
    BY <2>2 DEF Alive
  <2>5. TableSound'
    BY <2>2, <2>3, <2>4
    DEF TableInv, TableSound, Registered, Registering, TypeInv, TypeOK
  <2>6. SlotsUnique' /\ WireIsSlot'
    BY <2>1, <2>2, <2>3, <2>4
    DEF TableInv, SlotsUnique, WireIsSlot, TypeInv, TypeOK
  <2>7. RegisteringOK'
    BY <2>2, <2>3, <2>4 DEF TableInv, RegisteringOK
  <2>8. EndingOK'
    BY <2>2 DEF TableInv, EndingOK, TypeInv, TypeOK, IdleCb
  <2>. QED BY <2>5, <2>6, <2>7, <2>8 DEF TableInv
<1>. QED BY <1>1, <1>2, <1>3, <1>4, <1>5, <1>6 DEF Callback

(* The steps of the worker keep the table sound.  Only the four of         *)
(* callInvite touch it; the others end a method or look a call up.         *)
LEMMA WorkerTable ==
  ASSUME TypeInv, TableInv, Worker
  PROVE  TableInv'
<1>. USE Sentinels
<1>1. CASE InviteMake
  <2>1. PICK o \in Obj, id \in Ids :
          /\ Fresh(o) /\ FreeSlot(id)
          /\ inv' = [inv EXCEPT ![o] = "calling"]
          /\ slot' = [slot EXCEPT ![o] = id]
          /\ wk' = [wk EXCEPT !.pc = "made", !.o = o]
    BY <1>1 DEF InviteMake
  <2>2. /\ UNCHANGED <<wireId, calls, cb>>
        /\ wk.m = "invite" /\ wk.pc = "start" /\ wk.o = NoObj
    BY <1>1 DEF InviteMake, fields, TableInv, RegisteringOK
  <2>3. inv[o] = "unborn" /\ \A p \in Obj : Alive(p) => slot[p] # id
    BY <2>1 DEF Fresh, FreeSlot
  <2>4. \A p \in Obj : Alive(p)' <=> Alive(p) \/ p = o
    BY <2>1 DEF Alive, TypeInv, TypeOK
  <2>5. TableSound'
    <3>1. \A j \in Registered' : Alive(calls[j])' /\ wireId'[calls'[j]] = j
      BY <2>2, <2>4 DEF TableInv, TableSound, Registered, TypeInv, TypeOK
    <3>2. Registering(o)'
      BY <2>1, <2>2 DEF Registering, TypeInv, TypeOK
    <3>3. \A p \in Obj : ~Registering(p)
      BY <2>2 DEF Registering
    <3>. QED BY <2>2, <2>4, <3>1, <3>2, <3>3 DEF TableInv, TableSound
  <2>6. SlotsUnique'
    BY <2>1, <2>3, <2>4 DEF TableInv, SlotsUnique, TypeInv, TypeOK
  <2>7. WireIsSlot'
    BY <2>1, <2>2, <2>3, <2>4 DEF TableInv, WireIsSlot, TypeInv, TypeOK
  <2>8. RegisteringOK'
    BY <2>1, <2>2, <2>4 DEF RegisteringOK, TypeInv, TypeOK
  <2>9. EndingOK'
    BY <2>1, <2>2, <2>3
    DEF TableInv, EndingOK, TypeInv, TypeOK, CallbackOK
  <2>. QED BY <2>5, <2>6, <2>7, <2>8, <2>9 DEF TableInv
<1>2. CASE InviteFail
  <2>1. UNCHANGED <<inv, slot, wireId, calls, cb>> /\ wk' = IdleWk
    BY <1>2 DEF InviteFail, Done, engine, session, fields
  <2>. QED BY <1>2, <2>1, FrameTable DEF InviteFail, IdleWk
<1>3. CASE InviteWire
  <2>1. /\ wk.o \in Obj /\ Alive(wk.o) /\ inv[wk.o] # "ended"
        /\ slot[wk.o] \in Ids
    BY <1>3 DEF InviteWire, TableInv, RegisteringOK, SlotsUnique, Alive
  <2>2. /\ wireId' = [wireId EXCEPT ![wk.o] = slot[wk.o]]
        /\ wk' = [wk EXCEPT !.pc = "wired"]
        /\ UNCHANGED <<inv, slot, calls, cb>>
        /\ wk.m = "invite" /\ wk.pc = "made"
    BY <1>3, <2>1 DEF InviteWire, session
  <2>3. \A p \in Obj : Registering(p)' <=> p = wk.o
    BY <2>1, <2>2 DEF Registering, TypeInv, TypeOK
  <2>4. \A j \in Registered : wireId[calls[j]] = j /\ Alive(calls[j])
    BY DEF TableInv, TableSound
  <2>5. \A j \in Registered : calls[j] = wk.o => slot[wk.o] = j
    BY <2>1, <2>4 DEF TableInv, WireIsSlot, Registered, TypeInv, TypeOK
  <2>6. TableSound'
    <3>1. \A j \in Registered' : Alive(calls[j])' /\ wireId'[calls'[j]] = j
      BY <2>1, <2>2, <2>4, <2>5 DEF Registered, Alive, TypeInv, TypeOK
    <3>2. \A p \in Obj : Alive(p)' /\ ~Registering(p)' =>
            wireId'[p] \in Ids /\ calls'[wireId'[p]] = p
      BY <2>1, <2>2, <2>3
      DEF TableInv, TableSound, Registering, Alive, TypeInv, TypeOK
    <3>. QED BY <3>1, <3>2 DEF TableSound
  <2>7. SlotsUnique'
    BY <2>2 DEF TableInv, SlotsUnique, Alive
  <2>8. WireIsSlot'
    BY <2>1, <2>2 DEF TableInv, WireIsSlot, Alive, TypeInv, TypeOK
  <2>9. RegisteringOK'
    BY <2>1, <2>2 DEF RegisteringOK, Alive, TypeInv, TypeOK
  <2>10. EndingOK'
    BY <2>2 DEF TableInv, EndingOK
  <2>. QED BY <2>6, <2>7, <2>8, <2>9, <2>10 DEF TableInv
<1>4. CASE InvitePut
  <2>1. /\ wk.o \in Obj /\ Alive(wk.o)
        /\ wireId[wk.o] = slot[wk.o] /\ slot[wk.o] \in Ids
    BY <1>4 DEF InvitePut, TableInv, RegisteringOK, SlotsUnique
  <2>2. /\ calls' = [calls EXCEPT ![wireId[wk.o]] = wk.o]
        /\ wk' = [wk EXCEPT !.pc = "put"]
        /\ UNCHANGED <<inv, slot, wireId, cb>>
        /\ wk.m = "invite" /\ wk.pc = "wired"
    BY <1>4 DEF InvitePut, session, fields
  <2>3. \A p \in Obj : Registering(p)' <=> p = wk.o
    BY <2>1, <2>2 DEF Registering, TypeInv, TypeOK
  <2>4. TableSound'
    <3>1. \A j \in Registered' : Alive(calls[j])' /\ wireId'[calls'[j]] = j
      BY <2>1, <2>2
      DEF TableInv, TableSound, Registered, Alive, TypeInv, TypeOK
    <3>2. \A p \in Obj : Alive(p) /\ p # wk.o =>
            wireId[p] \in Ids /\ calls[wireId[p]] = p /\ wireId[p] = slot[p]
      BY DEF TableInv, TableSound, WireIsSlot, Registering
    <3>3. \A p \in Obj : Alive(p)' /\ ~Registering(p)' =>
            wireId'[p] \in Ids /\ calls'[wireId'[p]] = p
      BY <2>1, <2>2, <2>3, <3>2
      DEF TableInv, SlotsUnique, Alive, TypeInv, TypeOK
    <3>. QED BY <3>1, <3>3 DEF TableSound
  <2>5. SlotsUnique' /\ WireIsSlot' /\ EndingOK'
    BY <2>2 DEF TableInv, SlotsUnique, WireIsSlot, EndingOK, Alive
  <2>6. RegisteringOK'
    BY <2>1, <2>2 DEF RegisteringOK, Alive, TypeInv, TypeOK
  <2>. QED BY <2>4, <2>5, <2>6 DEF TableInv
<1>5. CASE InviteDone
  <2>1. /\ UNCHANGED <<inv, slot, wireId, calls, cb>> /\ wk' = IdleWk
        /\ wk.m = "invite" /\ wk.pc = "put"
    BY <1>5 DEF InviteDone, Done, session, fields
  <2>2. /\ wk.o \in Obj /\ wireId[wk.o] = slot[wk.o] /\ slot[wk.o] \in Ids
        /\ calls[wireId[wk.o]] = wk.o
    BY <2>1 DEF TableInv, RegisteringOK, SlotsUnique
  <2>3. \A p \in Obj : Alive(p) => wireId[p] \in Ids /\ calls[wireId[p]] = p
    BY <2>1, <2>2 DEF TableInv, TableSound, Registering
  <2>4. TableSound'
    BY <2>1, <2>3 DEF TableInv, TableSound, Registered, Alive
  <2>5. SlotsUnique' /\ WireIsSlot' /\ EndingOK'
    BY <2>1 DEF TableInv, SlotsUnique, WireIsSlot, EndingOK, Alive
  <2>6. RegisteringOK'
    BY <2>1 DEF RegisteringOK, IdleWk
  <2>. QED BY <2>4, <2>5, <2>6 DEF TableInv
<1>6. CASE Accept
  <2>1. /\ UNCHANGED <<slot, wireId, calls, cb>> /\ wk' = IdleWk
        /\ wk.m = "accept"
    BY <1>6 DEF Accept, Done, fields
  <2>2. \/ UNCHANGED inv
        \/ /\ Found /\ inv[Target] \in {"incoming", "answered"}
           /\ inv' = [inv EXCEPT ![Target] = "answered"]
    BY <1>6 DEF Accept
  <2>3. /\ \A p \in Obj : Alive(p)' <=> Alive(p)
        /\ \A p \in Obj : inv'[p] = "unborn" <=> inv[p] = "unborn"
        /\ \A p \in Obj : inv'[p] = "ended" <=> inv[p] = "ended"
    BY <2>2 DEF Alive, TypeInv, TypeOK
  <2>4. \A p \in Obj : ~Registering(p)
    BY <2>1 DEF Registering
  <2>5. TableSound'
    BY <2>1, <2>3, <2>4
    DEF TableInv, TableSound, Registered, TypeInv, TypeOK
  <2>6. SlotsUnique' /\ WireIsSlot'
    BY <2>1, <2>3 DEF TableInv, SlotsUnique, WireIsSlot
  <2>7. RegisteringOK'
    BY <2>1 DEF RegisteringOK, IdleWk
  <2>8. EndingOK'
    BY <2>1, <2>3 DEF TableInv, EndingOK, TypeInv, CallbackOK
  <2>. QED BY <2>5, <2>6, <2>7, <2>8 DEF TableInv
<1>7. CASE Hangup \/ Upgrade \/ SwitchDone \/ Conference
  <2>1. /\ UNCHANGED <<inv, slot, wireId, calls, cb>>
        /\ wk.m # "invite" /\ wk' = IdleWk
    BY <1>7
    DEF Hangup, Upgrade, SwitchDone, Conference, Done, session, fields
  <2>. QED BY <2>1, FrameTable DEF IdleWk
<1>8. CASE SwitchLookup
  <2>1. /\ UNCHANGED <<inv, slot, wireId, calls, cb>>
        /\ wk.m = "switch"
        /\ wk' = IdleWk \/ wk' = [wk EXCEPT !.pc = "mix", !.o = Target]
    BY <1>8 DEF SwitchLookup, Done, engine, session, fields
  <2>2. wk'.m # "invite"
    <3>1. wk' = IdleWk => wk'.m = "idle"
      BY DEF IdleWk
    <3>2. wk' = [wk EXCEPT !.pc = "mix", !.o = Target] => wk'.m = wk.m
      BY DEF TypeInv, TypeOK
    <3>. QED BY <2>1, <3>1, <3>2
  <2>. QED BY <2>1, <2>2, FrameTable
<1>. QED
  BY <1>1, <1>2, <1>3, <1>4, <1>5, <1>6, <1>7, <1>8 DEF Worker

LEMMA StepTable == TypeInv /\ ~FastPeer /\ TableInv /\ [Next]_vars => TableInv'
<1>. SUFFICES ASSUME TypeInv, ~FastPeer, TableInv, [Next]_vars
              PROVE  TableInv'
  OBVIOUS
<1>1. CASE \E t \in CbThreads : Callback(t)
  BY <1>1, CallbackTable
<1>2. CASE Worker
  BY <1>2, WorkerTable
<1>3. CASE Main
  <2>1. /\ UNCHANGED <<inv, slot, wireId, calls, cb>>
        /\ wk.m = "idle"
        /\ \/ wk'.pc = "start" /\ wk'.o = NoObj
           \/ wk'.m = "idle"
    BY <1>3
    DEF Main, MainEvent, MainRequest, MainHeader, MainIdle, IdleWk, engine,
        session, fields, TypeInv, TypeOK
  <2>. QED BY <2>1, FrameTable
<1>4. CASE Client \/ UNCHANGED vars
  BY <1>4
  DEF Client, ClientTake, ClientSend, ClientTakeAndSend, vars, engine,
      session, fields, TableInv, TableSound, SlotsUnique, WireIsSlot,
      RegisteringOK, EndingOK, Registered, Registering, Alive
<1>. QED BY <1>1, <1>2, <1>3, <1>4 DEF Next, System

(* The table of calls agrees with PJSIP at every moment, for any number of *)
(* calls, slots and threads and any client, as long as no callback of an   *)
(* outgoing call runs before callInvite has put it into the map.           *)
THEOREM TableCorrect ==
  ASSUME ~FastPeer
  PROVE  Spec => []TableSound
<1>1. TableInv => TableSound
  BY DEF TableInv
<1>2. TypeInv /\ TableInv /\ [Next]_vars => TableInv'
  BY StepTable
<1>. QED BY <1>1, <1>2, InitTable, TypeInvariant, PTL DEF Spec

-----------------------------------------------------------------------------
(* EventIds.  A callback reads wireId of a live call that callInvite is    *)
(* not registering, which the table has under an id of a slot.             *)

Named == [kind: {"event"}, name: EventNames, id: Ids, obj: Obj, ok: {TRUE}]
         \cup [kind: {"request"}, name: AllMethods, id: WireIds, obj: Awaiters,
               ok: {TRUE}]

NamesInv ==
  /\ mainQ \in Seq(Named)
  /\ dartQ \in Seq(Named \cup Rep)
  /\ \A t \in CbThreads : cb[t].pc # "idle" => cb[t].id \in Ids

LEMMA EventNamed ==
  ASSUME NEW n \in EventNames, NEW id \in Ids, NEW o \in Obj
  PROVE  Event(n, id, o) \in Named
  BY DEF Event, Named

LEMMA RequestNamed ==
  ASSUME NEW m \in AllMethods, NEW id \in WireIds, NEW w \in Awaiters
  PROVE  Request(m, id, w) \in Named
  BY DEF Request, Named

LEMMA PostNamed ==
  ASSUME mainQ \in Seq(Named), NEW e \in Named, Post(e)
  PROVE  mainQ' \in Seq(Named)
  BY DEF Post

LEMMA DoneNamed ==
  ASSUME TypeInv, NamesInv, wk.m \in AllMethods, NEW id \in WireIds,
         NEW ok \in BOOLEAN, Done(id, ok)
  PROVE  dartQ' \in Seq(Named \cup Rep)
<1>1. (IF wk.m = "invite" THEN wk.o ELSE wk.obj) \in Who \cup {NoObj}
  BY DEF TypeInv, TypeOK, Who
<1>2. Reply(wk.m, id, IF wk.m = "invite" THEN wk.o ELSE wk.obj, ok) \in Rep
  BY <1>1, ReplyType
<1>. QED BY <1>2 DEF Done, NamesInv

(* The steps of a PJSIP thread.                                            *)
LEMMA CallbackNames ==
  ASSUME TypeInv, TableInv, ~FastPeer, NamesInv, NEW t \in CbThreads, Callback(t)
  PROVE  NamesInv'
<1>. DEFINE CbNames(c) == \A u \in CbThreads : c[u].pc # "idle" => c[u].id \in Ids
<1>0. /\ mainQ \in Seq(Named) /\ dartQ \in Seq(Named \cup Rep) /\ CbNames(cb)
      /\ \A o \in Obj : CanCallBack(t, o) /\ Alive(o) => wireId[o] \in Ids
      /\ cb' = [cb EXCEPT ![t] = IdleCb] => CbNames(cb')
  BY DEF NamesInv, TableInv, TableSound, CanCallBack, Registering, TypeInv, TypeOK,
         IdleCb
<1>1. CASE IncomingCall(t)
  <2>1. PICK o \in Obj, id \in Ids :
          cb' = [cb EXCEPT ![t] = [IdleCb EXCEPT !.pc = "incoming", !.o = o,
                                                 !.id = id]]
    BY <1>1 DEF IncomingCall
  <2>2. CbNames(cb')
    BY <1>0, <2>1 DEF TypeInv, TypeOK, IdleCb
  <2>. QED BY <1>0, <1>1, <2>2 DEF IncomingCall, NamesInv
<1>2. CASE IncomingPost(t)
  <2>1. Event("incoming", cb[t].id, cb[t].o) \in Named
    BY <1>0, <1>2, EventNamed
    DEF IncomingPost, TypeInv, CallbackOK, EventNames
  <2>2. mainQ' \in Seq(Named)
    BY <1>0, <1>2, <2>1, PostNamed DEF IncomingPost
  <2>. QED BY <1>0, <1>2, <2>2 DEF IncomingPost, NamesInv
<1>3. CASE Provisional(t)
  <2>1. PICK o \in Obj : /\ CanCallBack(t, o) /\ Alive(o)
                         /\ Post(Event("proceeding", wireId[o], o))
    BY <1>3 DEF Provisional, Alive
  <2>2. Event("proceeding", wireId[o], o) \in Named
    BY <1>0, <2>1, EventNamed DEF EventNames
  <2>3. mainQ' \in Seq(Named)
    BY <1>0, <2>1, <2>2, PostNamed
  <2>. QED BY <1>0, <1>3, <2>3 DEF Provisional, NamesInv
<1>4. CASE Confirmed(t)
  <2>1. PICK o \in Obj : /\ CanCallBack(t, o) /\ Alive(o)
                         /\ IF wasConnected[o] THEN UNCHANGED mainQ
                            ELSE Post(Event("connected", wireId[o], o))
    BY <1>4 DEF Confirmed, Alive
  <2>2. Event("connected", wireId[o], o) \in Named
    BY <1>0, <2>1, EventNamed DEF EventNames
  <2>3. mainQ' \in Seq(Named)
    BY <1>0, <2>1, <2>2, PostNamed
  <2>. QED BY <1>0, <1>4, <2>3 DEF Confirmed, NamesInv
<1>5. CASE Disconnected(t)
  <2>1. PICK o \in Obj :
          /\ CanCallBack(t, o) /\ Alive(o)
          /\ \E f \in BOOLEAN, n \in Ids \cup {NoWire} :
               cb' = [cb EXCEPT ![t] =
                        [pc |-> "disconnected", o |-> o, id |-> wireId[o],
                         focus |-> f, next |-> n]]
    BY <1>5 DEF Disconnected, Registered
  <2>2. CbNames(cb')
    BY <1>0, <2>1 DEF TypeInv, TypeOK
  <2>. QED BY <1>0, <1>5, <2>2 DEF Disconnected, NamesInv
<1>6. CASE DisconnectedPost(t)
  <2>. DEFINE sw == IF cb[t].focus /\ cb[t].next # NoWire
                    THEN <<Event("switched", cb[t].next, cb[t].o)>> ELSE <<>>
              te == <<Event("terminated", cb[t].id, cb[t].o)>>
  <2>1. /\ cb[t].o \in Obj /\ cb[t].id \in Ids
        /\ cb[t].next # NoWire => cb[t].next \in Ids
    BY <1>0, <1>6 DEF DisconnectedPost, TypeInv, TypeOK, CallbackOK
  <2>2. sw \in Seq(Named)
    BY <2>1, EventNamed DEF EventNames
  <2>3. te \in Seq(Named)
    BY <2>1, EventNamed DEF EventNames
  <2>4. mainQ' = mainQ \o sw \o te
    BY <1>6 DEF DisconnectedPost
  <2>5. mainQ' \in Seq(Named)
    <3>. HIDE DEF sw, te
    <3>. QED BY <1>0, <2>2, <2>3, <2>4
  <2>. QED BY <1>0, <1>6, <2>5 DEF DisconnectedPost, NamesInv
<1>. QED BY <1>1, <1>2, <1>3, <1>4, <1>5, <1>6 DEF Callback

(* The steps of the worker.                                                *)
LEMMA WorkerNames ==
  ASSUME TypeInv, TableInv, NamesInv, Worker
  PROVE  NamesInv'
<1>0. wk.id \in WireIds /\ NoId \in WireIds /\ wk.m \in AllMethods
  BY DEF TypeInv, TypeOK, WireIds, Worker, InviteMake, InviteFail, InviteWire,
         InvitePut, InviteDone, Accept, Hangup, Upgrade, SwitchLookup,
         SwitchDone, Conference, AllMethods
<1>1. cb' = cb
  BY DEF Worker, InviteMake, InviteFail, InviteWire, InvitePut, InviteDone, Accept,
         Hangup, Upgrade, SwitchLookup, SwitchDone, Conference
<1>2. dartQ' \in Seq(Named \cup Rep)
  <2>1. ASSUME NEW id \in WireIds, NEW ok \in BOOLEAN, Done(id, ok)
        PROVE  dartQ' \in Seq(Named \cup Rep)
    BY <1>0, <2>1, DoneNamed
  <2>2. wireId[wk.o] \in WireIds \/ ~InviteDone
    BY DEF InviteDone, TypeInv, TypeOK, WorkerOK, WireIds
  <2>. QED
    BY <1>0, <2>1, <2>2
    DEF Worker, InviteMake, InviteFail, InviteWire, InvitePut, InviteDone, Accept,
        Hangup, Upgrade, SwitchLookup, SwitchDone, Conference, NamesInv
<1>3. mainQ' \in Seq(Named)
  <2>1. CASE InviteDone
    <3>1. wk.o \in Obj /\ wireId[wk.o] \in Ids
      BY <2>1 DEF InviteDone, TableInv, RegisteringOK, SlotsUnique
    <3>2. Event("switched", wireId[wk.o], wk.o) \in Named
      BY <3>1, EventNamed DEF EventNames
    <3>. QED BY <2>1, <3>2, PostNamed DEF InviteDone, NamesInv
  <2>2. CASE SwitchDone
    <3>1. wk.o \in Obj /\ wk.id \in Ids
      BY <2>2 DEF SwitchDone, TypeInv, WorkerOK
    <3>2. Event("switched", wk.id, wk.o) \in Named
      BY <3>1, EventNamed DEF EventNames
    <3>. QED BY <2>2, <3>2, PostNamed DEF SwitchDone, NamesInv
  <2>3. CASE ~InviteDone /\ ~SwitchDone
    BY <2>3
    DEF Worker, InviteMake, InviteFail, InviteWire, InvitePut, Accept, Hangup,
        Upgrade, SwitchLookup, Conference, NamesInv
  <2>. QED BY <2>1, <2>2, <2>3
<1>. QED BY <1>1, <1>2, <1>3 DEF NamesInv

(* The steps of the main looper.                                           *)
LEMMA MainNames ==
  ASSUME TypeInv, NamesInv, Main
  PROVE  NamesInv'
<1>1. /\ Head(mainQ) \in Named /\ Tail(mainQ) \in Seq(Named)
      /\ mainQ' = Tail(mainQ) /\ cb' = cb
  <2>1. mainQ \in Seq(Named) /\ mainQ # <<>> /\ mainQ' = Tail(mainQ) /\ cb' = cb
    BY DEF NamesInv, Main, MainEvent, MainRequest, MainHeader, MainIdle
  <2>. QED BY <2>1
<1>2. dartQ' \in Seq(Named \cup Rep)
  <2>1. CASE MainEvent
    BY <1>1, <2>1 DEF MainEvent, NamesInv
  <2>2. CASE MainRequest
    BY <2>2 DEF MainRequest, NamesInv
  <2>3. CASE MainHeader
    <3>1. Head(mainQ).id \in WireIds /\ Head(mainQ).obj \in Who \cup {NoObj}
      BY <1>1 DEF Named, Who, WireIds
    <3>2. Reply("header", Head(mainQ).id, Head(mainQ).obj, TRUE) \in Rep
      BY <3>1, ReplyType DEF AllMethods
    <3>3. PICK r \in Rep : dartQ' = Append(dartQ, r)
      BY <2>3, <3>2 DEF MainHeader
    <3>. QED BY <3>3 DEF NamesInv
  <2>. QED BY <2>1, <2>2, <2>3 DEF Main
<1>. QED BY <1>1, <1>2 DEF NamesInv

(* The steps of the client.                                                *)
LEMMA ClientNames ==
  ASSUME TypeInv, NamesInv, Client
  PROVE  NamesInv'
<1>1. \A m \in AllMethods, id \in WireIds, who \in Awaiters :
        Post(Request(m, id, who)) => mainQ' \in Seq(Named)
  BY RequestNamed, PostNamed DEF NamesInv
<1>2. mainQ' \in Seq(Named)
  BY <1>1, EngineAssumption
  DEF Client, ClientTake, ClientSend, ClientTakeAndSend, AllMethods, NamesInv
<1>3. dartQ' \in Seq(Named \cup Rep) /\ cb' = cb
  BY DEF Client, ClientTake, ClientSend, ClientTakeAndSend, NamesInv
<1>. QED BY <1>2, <1>3 DEF NamesInv

LEMMA StepNames ==
  TypeInv /\ ~FastPeer /\ TableInv /\ NamesInv /\ [Next]_vars => NamesInv'
<1>1. NamesInv /\ UNCHANGED vars => NamesInv'
  BY DEF NamesInv, vars
<1>. QED
  BY <1>1, CallbackNames, WorkerNames, MainNames, ClientNames DEF Next, System

(* Every event on its way to Dart carries the id of a slot, for any number *)
(* of calls, slots and threads and any client, under the assumption of     *)
(* TableCorrect; without it a 1xx may be reported for call -1.             *)
THEOREM EventsNamed ==
  ASSUME ~FastPeer
  PROVE  Spec => []EventIds
<1>1. Init => NamesInv
  BY DEF Init, NamesInv, IdleCb
<1>2. NamesInv => EventIds
  <2>. SUFFICES ASSUME NamesInv, NEW i \in DOMAIN Stream, Stream[i].kind = "event"
               PROVE  Stream[i].id \in Ids
    BY DEF EventIds
  <2>1. Stream \in Seq(Named \cup Rep)
    BY DEF NamesInv, Stream
  <2>2. Stream[i] \in Named \cup Rep
    BY <2>1
  <2>. QED BY <2>2 DEF Named, Rep
<1>3. TypeInv /\ TableInv /\ [Next]_vars => TableInv'
  BY StepTable
<1>4. TypeInv /\ TableInv /\ NamesInv /\ [Next]_vars => NamesInv'
  BY StepNames
<1>. QED BY <1>1, <1>2, <1>3, <1>4, InitTable, TypeInvariant, PTL DEF Spec

-----------------------------------------------------------------------------
(* EventOrder.  The queues are looked at one by one: an event goes to the  *)
(* end of mainQ, moves from there to the end of dartQ and is taken from    *)
(* its head; replies and requests come and go between the events.          *)

(* b may come after a.  One pair is out of order in the code as it is: the *)
(* 1xx of a re-INVITE of an outgoing call that was connected without one.  *)
Follows(a, b) ==
  Life(a) /\ Life(b) /\ a.obj = b.obj =>
    \/ Rank[a.name] < Rank[b.name]
    \/ "upgrade" \in Methods /\ a.name = "connected" /\ b.name = "proceeding"

Sent  == Msg \cup Rep
Order == {p \in Sent \X Sent : Follows(p[1], p[2])}

Sorted(R, s) == \A i, j \in DOMAIN s : i < j => <<s[i], s[j]>> \in R
Across(R, s, r) == \A i \in DOMAIN s, j \in DOMAIN r : <<s[i], r[j]>> \in R
QueuesSorted(R, d, q) == Sorted(R, d) /\ Sorted(R, q) /\ Across(R, d, q)

(* What the fields of a call tell of an event of its life under way: the   *)
(* callback that posted it has returned, and cannot post it again.         *)
Past(m) ==
  Life(m) =>
    /\ inv[m.obj] # "unborn"
    /\ \A t \in CbThreads : cb[t].o = m.obj => cb[t].pc = "disconnected"
    /\ \/ inv[m.obj] = "ended"
       \/ /\ m.name = "incoming" => role[m.obj] = "uas"
          /\ m.name = "proceeding" => role[m.obj] = "uac" /\ proceedingFired[m.obj]
          /\ m.name = "connected" => wasConnected[m.obj]
    /\ m.name = "terminated" =>
         inv[m.obj] = "ended" /\ \A t \in CbThreads : cb[t].o # m.obj

Both(d, q) == ToSet(d) \cup ToSet(q)
UnderWay == Both(dartQ, mainQ)

(* One callback at a time of each call.                                    *)
OneCallback == \A t \in CbThreads :
  /\ cb[t].pc = "idle" => cb[t].o = NoObj
  /\ cb[t].pc # "idle" => inv[cb[t].o] # "unborn"
  /\ cb[t].pc = "incoming" => role[cb[t].o] = "uas"
  /\ cb[t].pc = "disconnected" => inv[cb[t].o] = "ended"
  /\ \A u \in CbThreads : u # t /\ cb[u].o = cb[t].o => cb[t].o = NoObj

ConnectedOK == \A o \in Obj : wasConnected[o] => inv[o] \in {"confirmed", "ended"}

(* A re-INVITE comes from a request of the client.                         *)
UpgradeOK ==
  "upgrade" \notin Methods =>
    /\ reinvited = {}
    /\ wk.m # "upgrade"
    /\ \A m \in UnderWay : m.kind = "request" => m.name # "upgrade"

OrderInv ==
  /\ QueuesSorted(Order, dartQ, mainQ)
  /\ \A m \in UnderWay : Past(m)
  /\ OneCallback
  /\ ConnectedOK
  /\ UpgradeOK

LEMMA Ranks ==
  /\ Rank["incoming"] = 1 /\ Rank["proceeding"] = 1
  /\ Rank["connected"] = 2 /\ Rank["terminated"] = 3
  BY DEF Rank

(* What becomes of two sorted queues when a message is posted, sent,       *)
(* moved, dropped or taken.                                                *)
LEMMA PostSorted ==
  ASSUME NEW M, NEW R, NEW d \in Seq(M), NEW q \in Seq(M), NEW e \in M,
         QueuesSorted(R, d, q),
         \A i \in DOMAIN d : <<d[i], e>> \in R,
         \A i \in DOMAIN q : <<q[i], e>> \in R
  PROVE  QueuesSorted(R, d, Append(q, e))
<1>1. /\ Append(q, e) \in Seq(M) /\ DOMAIN Append(q, e) = 1..Len(q) + 1
      /\ DOMAIN q = 1..Len(q) /\ Len(q) \in Nat
      /\ \A i \in DOMAIN q : Append(q, e)[i] = q[i]
      /\ Append(q, e)[Len(q) + 1] = e
  OBVIOUS
<1>. DEFINE r == Append(q, e)
<1>2. \A i \in DOMAIN r : \/ i \in DOMAIN q /\ r[i] = q[i]
                          \/ i = Len(q) + 1 /\ r[i] = e
  BY <1>1
<1>. HIDE DEF r
<1>3. Sorted(R, r)
  <2>. SUFFICES ASSUME NEW i \in DOMAIN r, NEW j \in DOMAIN r, i < j
               PROVE  <<r[i], r[j]>> \in R
    BY DEF Sorted
  <2>1. i \in DOMAIN q /\ r[i] = q[i]
    BY <1>1, <1>2 DEF r
  <2>. QED BY <1>2, <2>1 DEF QueuesSorted, Sorted
<1>4. Across(R, d, r)
  BY <1>2 DEF QueuesSorted, Across
<1>. QED BY <1>3, <1>4 DEF QueuesSorted, r

LEMMA SendSorted ==
  ASSUME NEW M, NEW R, NEW d \in Seq(M), NEW q \in Seq(M), NEW e \in M,
         QueuesSorted(R, d, q),
         \A i \in DOMAIN d : <<d[i], e>> \in R,
         \A i \in DOMAIN q : <<e, q[i]>> \in R
  PROVE  QueuesSorted(R, Append(d, e), q)
<1>. DEFINE r == Append(d, e)
<1>1. /\ DOMAIN r = 1..Len(d) + 1 /\ DOMAIN d = 1..Len(d) /\ Len(d) \in Nat
      /\ \A i \in DOMAIN r : \/ i \in DOMAIN d /\ r[i] = d[i]
                             \/ i = Len(d) + 1 /\ r[i] = e
  OBVIOUS
<1>. HIDE DEF r
<1>2. Sorted(R, r)
  <2>. SUFFICES ASSUME NEW i \in DOMAIN r, NEW j \in DOMAIN r, i < j
               PROVE  <<r[i], r[j]>> \in R
    BY DEF Sorted
  <2>1. i \in DOMAIN d /\ r[i] = d[i]
    BY <1>1
  <2>. QED BY <1>1, <2>1 DEF QueuesSorted, Sorted
<1>3. Across(R, r, q)
  <2>. SUFFICES ASSUME NEW i \in DOMAIN r, NEW j \in DOMAIN q
               PROVE  <<r[i], q[j]>> \in R
    BY DEF Across
  <2>. QED BY <1>1 DEF QueuesSorted, Across
<1>. QED BY <1>2, <1>3 DEF QueuesSorted, r

LEMMA TailSorted ==
  ASSUME NEW M, NEW R, NEW s \in Seq(M), s # <<>>, Sorted(R, s)
  PROVE  /\ Tail(s) \in Seq(M) /\ Sorted(R, Tail(s))
         /\ 1 \in DOMAIN s /\ Head(s) = s[1] /\ Head(s) \in M
         /\ \A i \in DOMAIN Tail(s) : i + 1 \in DOMAIN s /\ Tail(s)[i] = s[i + 1]
         /\ \A i \in DOMAIN Tail(s) : <<Head(s), Tail(s)[i]>> \in R
<1>. DEFINE r == Tail(s)
<1>1. /\ r \in Seq(M) /\ 1 \in DOMAIN s /\ Head(s) = s[1] /\ Head(s) \in M
      /\ \A i \in DOMAIN r : i \in Nat /\ 1 < i + 1 /\ i + 1 \in DOMAIN s /\ r[i] = s[i + 1]
  OBVIOUS
<1>. HIDE DEF r
<1>2. ASSUME NEW i \in DOMAIN r, NEW j \in DOMAIN r, i < j
      PROVE  <<r[i], r[j]>> \in R
  <2>1. i + 1 < j + 1 /\ i + 1 \in DOMAIN s /\ j + 1 \in DOMAIN s
    BY <1>1, <1>2
  <2>2. <<s[i + 1], s[j + 1]>> \in R
    BY <2>1 DEF Sorted
  <2>. QED BY <1>1, <2>2
<1>3. ASSUME NEW i \in DOMAIN r PROVE <<s[1], r[i]>> \in R
  <2>1. 1 < i + 1 /\ i + 1 \in DOMAIN s
    BY <1>1
  <2>2. <<s[1], s[i + 1]>> \in R
    BY <1>1, <2>1 DEF Sorted
  <2>. QED BY <1>1, <2>2
<1>. QED BY <1>1, <1>2, <1>3 DEF Sorted, r

LEMMA DropSorted ==
  ASSUME NEW M, NEW R, NEW d \in Seq(M), NEW q \in Seq(M), q # <<>>, QueuesSorted(R, d, q)
  PROVE  QueuesSorted(R, d, Tail(q))
<1>1. Sorted(R, Tail(q)) /\ \A i \in DOMAIN Tail(q) : \E k \in DOMAIN q : Tail(q)[i] = q[k]
  BY TailSorted DEF QueuesSorted
<1>. QED BY <1>1 DEF QueuesSorted, Across

LEMMA TakeSorted ==
  ASSUME NEW M, NEW R, NEW d \in Seq(M), NEW q \in Seq(M), d # <<>>, QueuesSorted(R, d, q)
  PROVE  QueuesSorted(R, Tail(d), q)
<1>1. Sorted(R, Tail(d)) /\ \A i \in DOMAIN Tail(d) : \E k \in DOMAIN d : Tail(d)[i] = d[k]
  BY TailSorted DEF QueuesSorted
<1>. QED BY <1>1 DEF QueuesSorted, Across

LEMMA MoveSorted ==
  ASSUME NEW M, NEW R, NEW d \in Seq(M), NEW q \in Seq(M), q # <<>>, QueuesSorted(R, d, q)
  PROVE  QueuesSorted(R, Append(d, Head(q)), Tail(q))
<1>1. /\ 1 \in DOMAIN q /\ Head(q) = q[1] /\ Tail(q) \in Seq(M) /\ Head(q) \in M
      /\ \A i \in DOMAIN Tail(q) : <<Head(q), Tail(q)[i]>> \in R
  BY TailSorted DEF QueuesSorted
<1>2. QueuesSorted(R, d, Tail(q))
  BY DropSorted
<1>3. \A i \in DOMAIN d : <<d[i], Head(q)>> \in R
  BY <1>1 DEF QueuesSorted, Across
<1>. QED BY <1>1, <1>2, <1>3, SendSorted

(* The messages in the two queues.                                         *)
LEMMA SetOfAppend ==
  ASSUME NEW M, NEW s \in Seq(M), NEW e \in M
  PROVE  Append(s, e) \in Seq(M) /\ ToSet(Append(s, e)) = ToSet(s) \cup {e}
<1>1. /\ DOMAIN Append(s, e) = DOMAIN s \cup {Len(s) + 1}
      /\ Append(s, e)[Len(s) + 1] = e
      /\ \A i \in DOMAIN s : Append(s, e)[i] = s[i]
  OBVIOUS
<1>. QED BY <1>1 DEF ToSet

LEMMA SetOfHeadTail ==
  ASSUME NEW M, NEW s \in Seq(M), s # <<>>
  PROVE  /\ Tail(s) \in Seq(M) /\ Head(s) \in M
         /\ ToSet(s) = ToSet(Tail(s)) \cup {Head(s)}
<1>. DEFINE r == Tail(s)
<1>1. /\ r \in Seq(M) /\ Head(s) \in M /\ Head(s) = s[1] /\ 1 \in DOMAIN s
      /\ \A i \in DOMAIN r : i + 1 \in DOMAIN s /\ r[i] = s[i + 1]
  OBVIOUS
<1>2. \A i \in DOMAIN s : i # 1 => \E k \in DOMAIN r : s[i] = r[k]
  <2>. SUFFICES ASSUME NEW i \in DOMAIN s, i # 1 PROVE \E k \in DOMAIN r : s[i] = r[k]
    OBVIOUS
  <2>1. i - 1 \in DOMAIN r /\ r[i - 1] = s[i]
    OBVIOUS
  <2>. QED BY <2>1
<1>. HIDE DEF r
<1>3. ToSet(s) \subseteq ToSet(r) \cup {Head(s)}
  BY <1>1, <1>2 DEF ToSet
<1>4. ToSet(r) \cup {Head(s)} \subseteq ToSet(s)
  BY <1>1 DEF ToSet
<1>. QED BY <1>1, <1>3, <1>4 DEF r

LEMMA AppendIsConcat ==
  ASSUME NEW M, NEW s \in Seq(M), NEW e \in M
  PROVE  s \o <<e>> = Append(s, e)
<1>. DEFINE r == s \o <<e>>
            a == Append(s, e)
<1>1. <<e>> \in Seq(M) /\ Len(<<e>>) = 1 /\ <<e>>[1] = e
  OBVIOUS
<1>2. r \in Seq(M) /\ a \in Seq(M) /\ Len(r) = Len(s) + 1 /\ Len(a) = Len(s) + 1
  BY <1>1
<1>3. ASSUME NEW i \in 1..Len(s) + 1 PROVE r[i] = a[i]
  BY <1>1, <1>3
<1>. HIDE DEF r, a
<1>4. r = a
  BY <1>2, <1>3
<1>. QED BY <1>4 DEF r, a

LEMMA BothAppend ==
  ASSUME NEW M, NEW d \in Seq(M), NEW q \in Seq(M), NEW e \in M
  PROVE  /\ Append(q, e) \in Seq(M) /\ Append(d, e) \in Seq(M)
         /\ Both(d, Append(q, e)) = Both(d, q) \cup {e}
         /\ Both(Append(d, e), q) = Both(d, q) \cup {e}
  BY SetOfAppend DEF Both

LEMMA BothDrop ==
  ASSUME NEW M, NEW d \in Seq(M), NEW q \in Seq(M), q # <<>>
  PROVE  /\ Tail(q) \in Seq(M) /\ Head(q) \in M
         /\ Both(d, q) = Both(d, Tail(q)) \cup {Head(q)}
         /\ Both(Append(d, Head(q)), Tail(q)) = Both(d, q)
  BY SetOfHeadTail, SetOfAppend DEF Both

LEMMA BothTake ==
  ASSUME NEW M, NEW d \in Seq(M), NEW q \in Seq(M), d # <<>>
  PROVE  /\ Tail(d) \in Seq(M) /\ Head(d) \in M
         /\ Both(d, q) = Both(Tail(d), q) \cup {Head(d)}
  BY SetOfHeadTail DEF Both

(* The head of dartQ comes before all that is left.                        *)
LEMMA HeadFirst ==
  ASSUME NEW M, NEW R, NEW d \in Seq(M), NEW q \in Seq(M), d # <<>>, QueuesSorted(R, d, q)
  PROVE  \A m \in Both(Tail(d), q) : <<Head(d), m>> \in R
<1>1. /\ 1 \in DOMAIN d /\ Head(d) = d[1]
      /\ \A i \in DOMAIN Tail(d) : <<Head(d), Tail(d)[i]>> \in R
  BY TailSorted DEF QueuesSorted
<1>. QED BY <1>1 DEF QueuesSorted, Across, Both, ToSet

(* A message under way stays in the past: no step takes back what its      *)
(* event told.                                                             *)
LEMMA EventObj ==
  ASSUME NEW m \in Msg \cup Rep, Life(m)
  PROVE  /\ m.obj \in Obj
         /\ m.name \in {"incoming", "proceeding", "connected", "terminated"}
  BY DEF Msg, Rep, Life, EventNames

LEMMA CallbackPast ==
  ASSUME TypeInv, OneCallback, NEW t \in CbThreads, Callback(t),
         NEW m \in Msg \cup Rep, Past(m)
  PROVE  Past(m)'
<1>. SUFFICES ASSUME Life(m) PROVE Past(m)'
  BY DEF Past, Life
<1>0. m.obj \in Obj /\ NoObj \notin Obj /\ cb[t].o \in Obj \cup {NoObj}
  BY EventObj, Sentinels DEF TypeInv, TypeOK
<1>1. CASE IncomingCall(t)
  <2>1. PICK o \in Obj :
          /\ inv[o] = "unborn" /\ inv' = [inv EXCEPT ![o] = "incoming"]
          /\ role' = [role EXCEPT ![o] = "uas"]
          /\ \E id \in Ids :
               cb' = [cb EXCEPT ![t] = [IdleCb EXCEPT !.pc = "incoming", !.o = o,
                                                      !.id = id]]
          /\ UNCHANGED <<wasConnected, proceedingFired>>
    BY <1>1 DEF IncomingCall, Fresh
  <2>2. o # m.obj
    BY <2>1 DEF Past
  <2>3. \A u \in CbThreads : cb'[u].o = m.obj => u # t /\ cb'[u] = cb[u]
    BY <2>1, <2>2 DEF TypeInv, TypeOK, IdleCb
  <2>. QED BY <1>0, <2>1, <2>2, <2>3 DEF Past, Life, TypeInv, TypeOK
<1>2. CASE IncomingPost(t)
  <2>1. \A u \in CbThreads : cb'[u].o = m.obj => cb'[u] = cb[u]
    BY <1>0, <1>2 DEF IncomingPost, IdleCb, TypeInv, TypeOK
  <2>. QED BY <1>2, <2>1 DEF IncomingPost, engine, session, fields, Past, Life
<1>3. CASE Provisional(t)
  BY <1>0, <1>3 DEF Provisional, session, Past, Life, TypeInv, TypeOK
<1>4. CASE Confirmed(t)
  BY <1>0, <1>4 DEF Confirmed, session, Past, Life, TypeInv, TypeOK
<1>5. CASE Disconnected(t)
  <2>1. PICK o \in Obj :
          /\ CanCallBack(t, o) /\ Alive(o)
          /\ inv' = [inv EXCEPT ![o] = "ended"]
          /\ \E c : c.pc = "disconnected" /\ c.o = o /\ cb' = [cb EXCEPT ![t] = c]
          /\ UNCHANGED <<role, fields>>
    BY <1>5 DEF Disconnected
  <2>2. \A u \in CbThreads : \/ cb'[u] = cb[u] /\ u # t
                             \/ u = t /\ cb'[u].o = o /\ cb'[u].pc = "disconnected"
    BY <2>1 DEF TypeInv, TypeOK
  <2>. QED BY <1>0, <2>1, <2>2 DEF Past, Life, fields, Alive, TypeInv, TypeOK
<1>6. CASE DisconnectedPost(t)
  <2>1. inv[cb[t].o] = "ended" /\ cb[t].o \in Obj
    BY <1>6 DEF DisconnectedPost, OneCallback, TypeInv, CallbackOK
  <2>2. \A u \in CbThreads : cb'[u].o = m.obj => cb'[u] = cb[u]
    BY <1>0, <1>6 DEF DisconnectedPost, IdleCb, TypeInv, TypeOK
  <2>. QED BY <1>0, <1>6, <2>1, <2>2 DEF DisconnectedPost, Past, Life, TypeInv, TypeOK
<1>. QED BY <1>1, <1>2, <1>3, <1>4, <1>5, <1>6 DEF Callback

(* The worker and the looper leave callbacks and fields alone, but for a   *)
(* call that is made or answered.                                          *)
QuietFields ==
  /\ UNCHANGED <<cb, wasConnected, proceedingFired>>
  /\ \A o \in Obj :
       \/ inv[o] = "unborn"
       \/ role'[o] = role[o] /\ inv'[o] = inv[o]
       \/ role'[o] = role[o] /\ inv[o] \in {"incoming", "answered"}
            /\ inv'[o] = "answered"
  /\ \A o \in Obj : inv[o] = "unborn" => inv'[o] \in {"unborn", "calling"}

LEMMA OtherFields ==
  ASSUME TypeInv, Worker \/ Main \/ Client
  PROVE  QuietFields
<1>1. CASE InviteMake
  BY <1>1 DEF InviteMake, Fresh, QuietFields, fields, TypeInv, TypeOK
<1>2. CASE Accept
  <2>1. Found => Target \in Obj
    BY DEF Found, Target, TypeInv, TypeOK
  <2>. QED BY <1>2, <2>1 DEF Accept, QuietFields, fields, TypeInv, TypeOK
<1>3. CASE InviteFail \/ InviteWire \/ InvitePut \/ InviteDone
  BY <1>3
  DEF InviteFail, InviteWire, InvitePut, InviteDone, QuietFields, engine, session, fields
<1>4. CASE Hangup \/ Upgrade \/ SwitchLookup \/ SwitchDone \/ Conference
  BY <1>4
  DEF Hangup, Upgrade, SwitchLookup, SwitchDone, Conference, QuietFields, engine,
      session, fields
<1>5. CASE Main
  BY <1>5
  DEF Main, MainEvent, MainRequest, MainHeader, QuietFields, engine, session, fields
<1>6. CASE Client
  BY <1>6
  DEF Client, ClientTake, ClientSend, ClientTakeAndSend, QuietFields, engine, session,
      fields
<1>. QED BY <1>1, <1>2, <1>3, <1>4, <1>5, <1>6 DEF Worker

LEMMA QuietPast ==
  ASSUME TypeInv, OneCallback, ConnectedOK, QuietFields
  PROVE  /\ \A m \in Msg \cup Rep : Past(m) => Past(m)'
         /\ OneCallback'
         /\ ConnectedOK'
<1>1. ASSUME NEW m \in Msg \cup Rep, Past(m), Life(m) PROVE Past(m)'
  BY <1>1, EventObj DEF QuietFields, Past, Life
<1>2. \A m \in Msg \cup Rep : ~Life(m) => Past(m)'
  BY DEF Past, Life
<1>3. OneCallback'
  <2>1. \A t \in CbThreads : cb[t].o = NoObj \/ cb[t].o \in Obj
    BY DEF TypeInv, TypeOK
  <2>. QED BY <2>1 DEF QuietFields, OneCallback, TypeInv, CallbackOK
<1>4. ConnectedOK'
  BY DEF QuietFields, ConnectedOK
<1>. QED BY <1>1, <1>2, <1>3, <1>4

(* The steps of a PJSIP thread keep to one callback a call.                *)
LEMMA CallbackFields ==
  ASSUME TypeInv, OneCallback, ConnectedOK, NEW t \in CbThreads, Callback(t)
  PROVE  OneCallback' /\ ConnectedOK'
<1>0. /\ NoObj \notin Obj
      /\ \A u \in CbThreads : cb[u].o \in Obj \cup {NoObj}
      /\ \A u \in CbThreads : cb[u].pc # "idle" => cb[u].o \in Obj
  BY Sentinels DEF TypeInv, TypeOK, CallbackOK
<1>1. CASE IncomingCall(t)
  <2>1. PICK o \in Obj :
          /\ inv[o] = "unborn" /\ inv' = [inv EXCEPT ![o] = "incoming"]
          /\ role' = [role EXCEPT ![o] = "uas"]
          /\ \E id \in Ids :
               cb' = [cb EXCEPT ![t] = [IdleCb EXCEPT !.pc = "incoming", !.o = o,
                                                      !.id = id]]
          /\ UNCHANGED wasConnected
    BY <1>1 DEF IncomingCall, Fresh
  <2>2. \A u \in CbThreads : \/ cb'[u] = cb[u] /\ u # t
                             \/ u = t /\ cb'[u].o = o /\ cb'[u].pc = "incoming"
    BY <2>1 DEF TypeInv, TypeOK, IdleCb
  <2>3. \A u \in CbThreads : cb[u].o # o
    BY <1>0, <2>1 DEF OneCallback
  <2>4. OneCallback'
    BY <1>0, <2>1, <2>2, <2>3 DEF OneCallback, TypeInv, TypeOK
  <2>5. ConnectedOK'
    BY <2>1 DEF ConnectedOK, TypeInv, TypeOK
  <2>. QED BY <2>4, <2>5
<1>2. CASE IncomingPost(t)
  <2>1. \A u \in CbThreads : \/ cb'[u] = cb[u] /\ u # t
                             \/ u = t /\ cb'[u].o = NoObj /\ cb'[u].pc = "idle"
    BY <1>2 DEF IncomingPost, IdleCb, TypeInv, TypeOK
  <2>. QED
    BY <1>0, <1>2, <2>1 DEF IncomingPost, engine, session, fields, OneCallback, ConnectedOK
<1>3. CASE Provisional(t)
  BY <1>3 DEF Provisional, session, OneCallback, ConnectedOK
<1>4. CASE Confirmed(t)
  BY <1>0, <1>4 DEF Confirmed, CanCallBack, OneCallback, ConnectedOK, TypeInv, TypeOK
<1>5. CASE Disconnected(t)
  <2>1. PICK o \in Obj :
          /\ CanCallBack(t, o) /\ Alive(o)
          /\ inv' = [inv EXCEPT ![o] = "ended"]
          /\ \E c : c.pc = "disconnected" /\ c.o = o /\ cb' = [cb EXCEPT ![t] = c]
          /\ UNCHANGED <<role, wasConnected>>
    BY <1>5 DEF Disconnected, fields
  <2>2. \A u \in CbThreads : \/ cb'[u] = cb[u] /\ u # t
                             \/ u = t /\ cb'[u].o = o /\ cb'[u].pc = "disconnected"
    BY <2>1 DEF TypeInv, TypeOK
  <2>3. \A u \in CbThreads : cb[u].o # o
    BY <2>1 DEF CanCallBack
  <2>4. OneCallback'
    BY <1>0, <2>1, <2>2, <2>3 DEF OneCallback, TypeInv, TypeOK
  <2>5. ConnectedOK'
    BY <2>1 DEF ConnectedOK, TypeInv, TypeOK
  <2>. QED BY <2>4, <2>5
<1>6. CASE DisconnectedPost(t)
  <2>1. \A u \in CbThreads : \/ cb'[u] = cb[u] /\ u # t
                             \/ u = t /\ cb'[u].o = NoObj /\ cb'[u].pc = "idle"
    BY <1>6 DEF DisconnectedPost, IdleCb, TypeInv, TypeOK
  <2>2. \A u \in CbThreads : u # t => cb[u].o # cb[t].o
    BY <1>0, <1>6 DEF DisconnectedPost, OneCallback
  <2>. QED
    BY <1>0, <1>6, <2>1, <2>2
    DEF DisconnectedPost, OneCallback, ConnectedOK, TypeInv, TypeOK
<1>. QED BY <1>1, <1>2, <1>3, <1>4, <1>5, <1>6 DEF Callback

(* What the steps do to the messages under way, for any order R that they  *)
(* are in: one is posted, ...                                              *)
LEMMA QueueTypes ==
  ASSUME TypeInv
  PROVE  /\ dartQ \in Seq(Sent) /\ mainQ \in Seq(Sent)
         /\ \A m \in UnderWay : m \in Sent
  BY DEF TypeInv, TypeOK, Sent, UnderWay, Both, ToSet

LEMMA Posted ==
  ASSUME TypeInv, NEW R, QueuesSorted(R, dartQ, mainQ), NEW e \in Sent,
         Post(e), dartQ' = dartQ,
         \A m \in UnderWay : <<m, e>> \in R
  PROVE  QueuesSorted(R, dartQ, mainQ)' /\ UnderWay' = UnderWay \cup {e}
<1>1. QueuesSorted(R, dartQ, Append(mainQ, e))
  BY QueueTypes, PostSorted DEF UnderWay, Both, ToSet
<1>2. Both(dartQ, Append(mainQ, e)) = UnderWay \cup {e}
  BY QueueTypes, BothAppend DEF UnderWay
<1>. QED BY <1>1, <1>2 DEF Post, UnderWay

(* ... two are posted, ...                                                 *)
LEMMA PostedTwo ==
  ASSUME TypeInv, NEW R, QueuesSorted(R, dartQ, mainQ), NEW w \in Sent, NEW e \in Sent,
         mainQ' = mainQ \o <<w>> \o <<e>>, dartQ' = dartQ,
         \A m \in UnderWay : <<m, w>> \in R /\ <<m, e>> \in R,
         <<w, e>> \in R
  PROVE  QueuesSorted(R, dartQ, mainQ)' /\ UnderWay' = UnderWay \cup {w, e}
<1>. DEFINE q == Append(mainQ, w)
<1>1. /\ q \in Seq(Sent) /\ q = mainQ \o <<w>>
      /\ Both(dartQ, q) = UnderWay \cup {w}
  <2>1. q \in Seq(Sent) /\ Both(dartQ, q) = UnderWay \cup {w}
    BY QueueTypes, BothAppend DEF UnderWay
  <2>2. q = mainQ \o <<w>>
    BY QueueTypes, AppendIsConcat
  <2>. QED BY <2>1, <2>2
<1>2. QueuesSorted(R, dartQ, q)
  BY QueueTypes, PostSorted DEF UnderWay, Both, ToSet
<1>. HIDE DEF q
<1>3. mainQ' = Append(q, e)
  BY <1>1, AppendIsConcat
<1>4. \A m \in Both(dartQ, q) : <<m, e>> \in R
  BY <1>1
<1>5. QueuesSorted(R, dartQ, Append(q, e))
  BY <1>1, <1>2, <1>4, QueueTypes, PostSorted DEF Both, ToSet
<1>6. Both(dartQ, Append(q, e)) = UnderWay \cup {w, e}
  <2>1. Both(dartQ, Append(q, e)) = Both(dartQ, q) \cup {e}
    <3>1. dartQ \in Seq(Sent)
      BY QueueTypes
    <3>2. q \in Seq(Sent)
      BY <1>1
    <3>. QED BY <3>1, <3>2, BothAppend
  <2>. QED BY <1>1, <2>1
<1>. QED BY <1>3, <1>5, <1>6 DEF UnderWay

(* ... a reply is sent, ...                                                *)
LEMMA Replied ==
  ASSUME TypeInv, NEW R, QueuesSorted(R, dartQ, mainQ), NEW r \in Sent,
         mainQ' = mainQ, dartQ' = Append(dartQ, r),
         \A m \in UnderWay : <<m, r>> \in R /\ <<r, m>> \in R
  PROVE  QueuesSorted(R, dartQ, mainQ)' /\ UnderWay' = UnderWay \cup {r}
<1>1. QueuesSorted(R, Append(dartQ, r), mainQ)
  BY QueueTypes, SendSorted DEF UnderWay, Both, ToSet
<1>2. Both(Append(dartQ, r), mainQ) = UnderWay \cup {r}
  BY QueueTypes, BothAppend DEF UnderWay
<1>. QED BY <1>1, <1>2 DEF UnderWay

(* ... one is posted and a reply sent, ...                                 *)
LEMMA PostedReplied ==
  ASSUME TypeInv, NEW R, QueuesSorted(R, dartQ, mainQ), NEW e \in Sent, NEW r \in Sent,
         Post(e), dartQ' = Append(dartQ, r),
         \A m \in UnderWay : <<m, r>> \in R /\ <<r, m>> \in R /\ <<m, e>> \in R,
         <<r, e>> \in R
  PROVE  QueuesSorted(R, dartQ, mainQ)' /\ UnderWay' = UnderWay \cup {e, r}
<1>. DEFINE d == Append(dartQ, r)
<1>1. QueuesSorted(R, d, mainQ)
  BY QueueTypes, SendSorted DEF UnderWay, Both, ToSet
<1>2. d \in Seq(Sent) /\ Both(d, mainQ) = UnderWay \cup {r}
  BY QueueTypes, BothAppend DEF UnderWay
<1>. HIDE DEF d
<1>3. \A m \in Both(d, mainQ) : <<m, e>> \in R
  BY <1>2
<1>4. QueuesSorted(R, d, Append(mainQ, e))
  BY <1>1, <1>2, <1>3, QueueTypes, PostSorted DEF Both, ToSet
<1>5. Both(d, Append(mainQ, e)) = UnderWay \cup {e, r}
  BY <1>2, QueueTypes, BothAppend
<1>6. dartQ' = d
  BY DEF d
<1>. QED BY <1>4, <1>5, <1>6 DEF Post, UnderWay

(* ... the head of the looper's queue is dropped, answered or moved, ...   *)
LEMMA Dropped ==
  ASSUME TypeInv, NEW R, QueuesSorted(R, dartQ, mainQ), mainQ # <<>>,
         mainQ' = Tail(mainQ), dartQ' = dartQ
  PROVE  QueuesSorted(R, dartQ, mainQ)' /\ UnderWay = UnderWay' \cup {Head(mainQ)}
<1>1. QueuesSorted(R, dartQ, Tail(mainQ))
  BY QueueTypes, DropSorted
<1>2. UnderWay = Both(dartQ, Tail(mainQ)) \cup {Head(mainQ)}
  BY QueueTypes, BothDrop DEF UnderWay
<1>. QED BY <1>1, <1>2 DEF UnderWay

LEMMA DroppedReplied ==
  ASSUME TypeInv, NEW R, QueuesSorted(R, dartQ, mainQ), NEW r \in Sent, mainQ # <<>>,
         mainQ' = Tail(mainQ), dartQ' = Append(dartQ, r),
         \A m \in UnderWay : <<m, r>> \in R /\ <<r, m>> \in R
  PROVE  /\ QueuesSorted(R, dartQ, mainQ)'
         /\ \E U : UnderWay = U \cup {Head(mainQ)} /\ UnderWay' = U \cup {r}
<1>. DEFINE q == Tail(mainQ)
<1>1. QueuesSorted(R, dartQ, q)
  BY QueueTypes, DropSorted
<1>2. q \in Seq(Sent) /\ UnderWay = Both(dartQ, q) \cup {Head(mainQ)}
  BY QueueTypes, BothDrop DEF UnderWay
<1>3. mainQ' = q
  OBVIOUS
<1>. HIDE DEF q
<1>4. QueuesSorted(R, Append(dartQ, r), q)
  BY <1>1, <1>2, QueueTypes, SendSorted DEF Both, ToSet
<1>5. Both(Append(dartQ, r), q) = Both(dartQ, q) \cup {r}
  BY <1>2, QueueTypes, BothAppend
<1>. QED BY <1>2, <1>3, <1>4, <1>5 DEF UnderWay

LEMMA Moved ==
  ASSUME TypeInv, NEW R, QueuesSorted(R, dartQ, mainQ), mainQ # <<>>,
         mainQ' = Tail(mainQ), dartQ' = Append(dartQ, Head(mainQ))
  PROVE  QueuesSorted(R, dartQ, mainQ)' /\ UnderWay' = UnderWay
<1>1. QueuesSorted(R, Append(dartQ, Head(mainQ)), Tail(mainQ))
  BY QueueTypes, MoveSorted
<1>2. Both(Append(dartQ, Head(mainQ)), Tail(mainQ)) = UnderWay
  BY QueueTypes, BothDrop DEF UnderWay
<1>. QED BY <1>1, <1>2 DEF UnderWay

(* ... or the client takes the oldest, which comes before all that is left.*)
LEMMA Taken ==
  ASSUME TypeInv, NEW R, QueuesSorted(R, dartQ, mainQ), dartQ # <<>>,
         dartQ' = Tail(dartQ), mainQ' = mainQ
  PROVE  /\ QueuesSorted(R, dartQ, mainQ)'
         /\ UnderWay = UnderWay' \cup {Head(dartQ)}
         /\ \A m \in UnderWay' : <<Head(dartQ), m>> \in R
<1>1. QueuesSorted(R, Tail(dartQ), mainQ)
  BY QueueTypes, TakeSorted
<1>2. UnderWay = Both(Tail(dartQ), mainQ) \cup {Head(dartQ)}
  BY QueueTypes, BothTake DEF UnderWay
<1>3. \A m \in Both(Tail(dartQ), mainQ) : <<Head(dartQ), m>> \in R
  BY QueueTypes, HeadFirst
<1>. QED BY <1>1, <1>2, <1>3 DEF UnderWay

LEMMA TakenPosted ==
  ASSUME TypeInv, NEW R, QueuesSorted(R, dartQ, mainQ), NEW e \in Sent, dartQ # <<>>,
         dartQ' = Tail(dartQ), Post(e),
         \A m \in UnderWay : <<m, e>> \in R
  PROVE  /\ QueuesSorted(R, dartQ, mainQ)'
         /\ \E U : /\ UnderWay = U \cup {Head(dartQ)} /\ UnderWay' = U \cup {e}
                  /\ \A m \in U : <<Head(dartQ), m>> \in R
<1>. DEFINE d == Tail(dartQ)
<1>1. QueuesSorted(R, d, mainQ)
  BY QueueTypes, TakeSorted
<1>2. d \in Seq(Sent) /\ UnderWay = Both(d, mainQ) \cup {Head(dartQ)}
  BY QueueTypes, BothTake DEF UnderWay
<1>3. \A m \in Both(d, mainQ) : <<Head(dartQ), m>> \in R
  BY QueueTypes, HeadFirst
<1>4. dartQ' = d
  OBVIOUS
<1>. HIDE DEF d
<1>5. QueuesSorted(R, d, Append(mainQ, e))
  BY <1>1, <1>2, QueueTypes, PostSorted DEF Both, ToSet
<1>6. Both(d, Append(mainQ, e)) = Both(d, mainQ) \cup {e}
  BY <1>2, QueueTypes, BothAppend
<1>. QED BY <1>2, <1>3, <1>4, <1>5, <1>6 DEF Post, UnderWay

(* The steps of a PJSIP thread, for the queues.                            *)
LEMMA CallbackOrder ==
  ASSUME TypeInv, OrderInv, NEW t \in CbThreads, Callback(t)
  PROVE  OrderInv'
<1>1. OneCallback' /\ ConnectedOK'
  BY CallbackFields DEF OrderInv
<1>2. \A m \in UnderWay : m \in Msg \cup Rep
  BY QueueTypes DEF Sent
<1>3. \A m \in UnderWay : Past(m)'
  BY <1>2, CallbackPast DEF OrderInv
<1>4. reinvited' \subseteq reinvited /\ wk' = wk /\ dartQ' = dartQ
  BY DEF Callback, IncomingCall, IncomingPost, Provisional, Confirmed, Disconnected,
         DisconnectedPost, engine, session, fields
<1>5. ASSUME QueuesSorted(Order, dartQ, mainQ)',
             \A m \in UnderWay' : m \in UnderWay \/ (Past(m)' /\ m.kind = "event")
      PROVE  OrderInv'
  BY <1>1, <1>3, <1>4, <1>5 DEF OrderInv, UpgradeOK
<1>6. ASSUME mainQ' = mainQ PROVE OrderInv'
  <2>1. UnderWay' = UnderWay /\ QueuesSorted(Order, dartQ, mainQ)'
    BY <1>4, <1>6 DEF UnderWay, OrderInv
  <2>. QED BY <1>5, <2>1
<1>7. ASSUME NEW e \in Msg, Post(e), e.kind = "event", Past(e)',
             \A m \in UnderWay : Follows(m, e)
      PROVE  OrderInv'
  <2>1. e \in Sent /\ \A m \in UnderWay : <<m, e>> \in Order
    BY <1>7, QueueTypes DEF Order, Sent
  <2>2. QueuesSorted(Order, dartQ, mainQ)' /\ UnderWay' = UnderWay \cup {e}
    BY <1>4, <1>7, <2>1, Posted DEF OrderInv
  <2>3. ASSUME NEW m \in UnderWay', m \notin UnderWay
        PROVE  Past(m)' /\ m.kind = "event"
    <3>1. m = e
      BY <2>2, <2>3
    <3>. QED BY <1>7, <3>1
  <2>. QED BY <1>5, <2>2, <2>3
<1>8. \A m \in UnderWay : Life(m) =>
        m.obj \in Obj /\ m.name \in {"incoming", "proceeding", "connected", "terminated"}
  BY <1>2, EventObj
<1>9. CASE IncomingCall(t) \/ Disconnected(t)
  BY <1>6, <1>9 DEF IncomingCall, Disconnected
<1>10. CASE IncomingPost(t)
  <2>. DEFINE o == cb[t].o
              e == Event("incoming", cb[t].id, o)
  <2>1. /\ o \in Obj /\ o # NoObj /\ inv[o] # "unborn" /\ role[o] = "uas"
        /\ cb[t].id \in WireIds
        /\ \A u \in CbThreads : u # t => cb[u].o # o
    BY <1>10, Sentinels
    DEF IncomingPost, OrderInv, OneCallback, TypeInv, TypeOK, CallbackOK, WireIds
  <2>2. e \in Msg /\ e.kind = "event"
    BY <2>1, EventType DEF EventNames, Event
  <2>3. \A m \in UnderWay : Follows(m, e)
    BY <1>10 DEF IncomingPost, OrderInv, Past, Follows, Event
  <2>4. PICK d \in Msg : d = e
    BY <2>2
  <2>5. PICK b \in Obj : b = o
    BY <2>1
  <2>6. /\ d.kind = "event" /\ d.name = "incoming" /\ d.obj = b
        /\ \A u \in CbThreads : cb'[u].o # b
        /\ UNCHANGED <<inv, role>> /\ inv[b] # "unborn" /\ role[b] = "uas"
    BY <1>10, <2>1, <2>4, <2>5
    DEF IncomingPost, Event, engine, session, IdleCb, TypeInv, TypeOK
  <2>7. Past(d)'
    BY <2>6 DEF Past, Life
  <2>8. Post(d) /\ \A m \in UnderWay : Follows(m, d)
    BY <1>10, <2>3, <2>4 DEF IncomingPost
  <2>. QED BY <1>7, <2>6, <2>7, <2>8
<1>11. CASE Provisional(t)
  <2>1. PICK o \in Obj :
          /\ CanCallBack(t, o)
          /\ inv[o] = "calling" \/ (inv[o] = "confirmed" /\ o \in reinvited)
          /\ role[o] = "uac" /\ ~proceedingFired[o]
          /\ proceedingFired' = [proceedingFired EXCEPT ![o] = TRUE]
          /\ Post(Event("proceeding", wireId[o], o))
          /\ UNCHANGED <<session, wasConnected, cb>>
    BY <1>11 DEF Provisional
  <2>2. PICK e \in Msg : e = Event("proceeding", wireId[o], o)
    BY EventType DEF EventNames, WireIds, TypeInv, TypeOK
  <2>3. e.kind = "event" /\ e.name = "proceeding" /\ e.obj = o
    BY <2>2 DEF Event
  <2>4. Past(e)'
    BY <2>1, <2>3 DEF Past, Life, session, CanCallBack, TypeInv, TypeOK
  <2>5. ASSUME NEW m \in UnderWay, Life(m), m.obj = o
        PROVE  Follows(m, e)
    <3>1. m.name = "connected"
      BY <1>8, <2>1, <2>5 DEF OrderInv, Past
    <3>2. o \in reinvited
      BY <2>1, <2>5, <3>1 DEF OrderInv, Past, ConnectedOK
    <3>3. "upgrade" \in Methods
      BY <3>2 DEF OrderInv, UpgradeOK
    <3>. QED BY <2>3, <3>1, <3>3 DEF Follows
  <2>6. \A m \in UnderWay : Follows(m, e)
    BY <2>3, <2>5 DEF Follows
  <2>. QED BY <1>7, <2>1, <2>2, <2>3, <2>4, <2>6
<1>12. CASE Confirmed(t)
  <2>1. PICK o \in Obj :
          /\ CanCallBack(t, o)
          /\ inv[o] \in {"calling", "answered", "confirmed"}
          /\ inv' = [inv EXCEPT ![o] = "confirmed"]
          /\ wasConnected' = [wasConnected EXCEPT ![o] = TRUE]
          /\ IF wasConnected[o] THEN mainQ' = mainQ
             ELSE Post(Event("connected", wireId[o], o))
          /\ cb' = cb
    BY <1>12 DEF Confirmed
  <2>2. PICK e \in Msg : e = Event("connected", wireId[o], o)
    BY EventType DEF EventNames, WireIds, TypeInv, TypeOK
  <2>3. e.kind = "event" /\ e.name = "connected" /\ e.obj = o
    BY <2>2 DEF Event
  <2>4. Past(e)'
    BY <2>1, <2>3 DEF Past, Life, CanCallBack, TypeInv, TypeOK
  <2>5. CASE wasConnected[o]
    BY <1>6, <2>1, <2>5
  <2>6. CASE ~wasConnected[o]
    <3>1. ASSUME NEW m \in UnderWay, Life(m), m.obj = o
          PROVE  Follows(m, e)
      <4>1. m.name \in {"incoming", "proceeding"}
        BY <1>8, <2>1, <2>6, <3>1 DEF OrderInv, Past
      <4>. QED BY <2>3, <4>1, Ranks DEF Follows
    <3>2. \A m \in UnderWay : Follows(m, e)
      BY <2>3, <3>1 DEF Follows
    <3>. QED BY <1>7, <2>1, <2>2, <2>3, <2>4, <2>6, <3>2
  <2>. QED BY <2>5, <2>6
<1>13. CASE DisconnectedPost(t)
  <2>1. PICK o \in Obj, id \in Ids \cup {NoWire}, next \in Ids \cup {NoWire} :
          cb[t].o = o /\ cb[t].id = id /\ cb[t].next = next
    BY <1>13 DEF DisconnectedPost, TypeInv, TypeOK, CallbackOK
  <2>2. /\ o # NoObj /\ inv[o] = "ended" /\ inv' = inv
        /\ \A u \in CbThreads : cb'[u].o # o
    BY <1>13, <2>1, Sentinels
    DEF DisconnectedPost, OrderInv, OneCallback, IdleCb, TypeInv, TypeOK
  <2>3. PICK w \in Msg, e \in Msg :
          w = Event("switched", next, o) /\ e = Event("terminated", id, o)
    BY EventType DEF EventNames, WireIds
  <2>4. /\ w.kind = "event" /\ w.name = "switched"
        /\ e.kind = "event" /\ e.name = "terminated" /\ e.obj = o
    BY <2>3 DEF Event
  <2>5. Past(e)' /\ Past(w)'
    BY <2>2, <2>4 DEF Past, Life
  <2>6. ASSUME NEW m \in UnderWay, Life(m), m.obj = o
        PROVE  Follows(m, e)
    <3>1. m.name \in {"incoming", "proceeding", "connected"}
      BY <1>8, <2>1, <2>6 DEF OrderInv, Past
    <3>. QED BY <2>4, <3>1, Ranks DEF Follows
  <2>7. /\ \A m \in UnderWay : Follows(m, e) /\ Follows(m, w)
        /\ Follows(w, e)
    BY <2>4, <2>6 DEF Follows, Life
  <2>8. CASE cb[t].focus /\ next # NoWire
    <3>1. mainQ \in Seq(Msg) /\ mainQ' = mainQ \o <<w>> \o <<e>>
      BY <1>13, <2>1, <2>3, <2>8 DEF DisconnectedPost, TypeInv, TypeOK
    <3>2. w \in Sent /\ e \in Sent /\ <<w, e>> \in Order
      BY <2>7 DEF Order, Sent
    <3>3. \A m \in UnderWay : <<m, w>> \in Order /\ <<m, e>> \in Order
      BY <2>7, <3>2, QueueTypes DEF Order
    <3>4. QueuesSorted(Order, dartQ, mainQ)' /\ UnderWay' = UnderWay \cup {w, e}
      BY <1>4, <3>1, <3>2, <3>3, PostedTwo DEF OrderInv
    <3>5. ASSUME NEW m \in UnderWay', m \notin UnderWay
          PROVE  Past(m)' /\ m.kind = "event"
      <4>1. CASE m = w
        BY <2>4, <2>5, <4>1
      <4>2. CASE m = e
        BY <2>4, <2>5, <4>2
      <4>. QED BY <3>4, <3>5, <4>1, <4>2
    <3>. QED BY <1>5, <3>4, <3>5
  <2>9. CASE ~(cb[t].focus /\ next # NoWire)
    <3>1. mainQ \in Seq(Msg) /\ mainQ' = mainQ \o <<>> \o <<e>>
      BY <1>13, <2>1, <2>3, <2>9 DEF DisconnectedPost, TypeInv, TypeOK
    <3>2. Post(e)
      BY <3>1 DEF Post
    <3>. QED BY <1>7, <2>4, <2>5, <2>7, <3>2
  <2>. QED BY <2>8, <2>9
<1>. QED BY <1>9, <1>10, <1>11, <1>12, <1>13 DEF Callback

(* The steps of the worker.                                                *)
LEMMA WorkerOrder ==
  ASSUME TypeInv, OrderInv, Worker
  PROVE  OrderInv'
<1>0. wk.id \in WireIds /\ NoId \in WireIds /\ wk.m \in AllMethods
  BY DEF TypeInv, TypeOK, WireIds, Worker, InviteMake, InviteFail, InviteWire,
         InvitePut, InviteDone, Accept, Hangup, Upgrade, SwitchLookup,
         SwitchDone, Conference, AllMethods
<1>1. /\ \A m \in Msg \cup Rep : Past(m) => Past(m)'
      /\ OneCallback' /\ ConnectedOK'
  BY OtherFields, QuietPast DEF OrderInv
<1>2. \A m \in UnderWay : m \in Msg \cup Rep
  BY QueueTypes DEF Sent
<1>3. reinvited' \subseteq reinvited \/ wk.m = "upgrade"
  BY DEF Worker, InviteMake, InviteFail, InviteWire, InvitePut, InviteDone, Accept,
         Hangup, Upgrade, SwitchLookup, SwitchDone, Conference, engine, session
<1>4. wk'.m = wk.m \/ wk' = IdleWk
  BY DEF Worker, InviteMake, InviteFail, InviteWire, InvitePut, InviteDone, Accept,
         Hangup, Upgrade, SwitchLookup, SwitchDone, Conference, Done, TypeInv, TypeOK
<1>5. ASSUME QueuesSorted(Order, dartQ, mainQ)',
             \A m \in UnderWay' : m \in UnderWay \/ (~Life(m) /\ m.kind # "request")
      PROVE  OrderInv'
  <2>1. \A m \in UnderWay' : Past(m)'
    BY <1>1, <1>2, <1>5 DEF OrderInv, Past, Life
  <2>2. UpgradeOK'
    BY <1>3, <1>4, <1>5 DEF OrderInv, UpgradeOK, IdleWk
  <2>. QED BY <1>1, <1>5, <2>1, <2>2 DEF OrderInv
<1>6. ASSUME UNCHANGED <<dartQ, mainQ>> PROVE OrderInv'
  BY <1>5, <1>6 DEF OrderInv, UnderWay
<1>7. ASSUME NEW id \in WireIds, NEW ok \in BOOLEAN, Done(id, ok)
      PROVE  \E r \in Rep : dartQ' = Append(dartQ, r)
  <2>1. (IF wk.m = "invite" THEN wk.o ELSE wk.obj) \in Who \cup {NoObj}
    BY DEF TypeInv, TypeOK, Who
  <2>2. Reply(wk.m, id, IF wk.m = "invite" THEN wk.o ELSE wk.obj, ok) \in Rep
    BY <1>0, <2>1, ReplyType
  <2>. QED BY <1>7, <2>2 DEF Done
<1>8. ASSUME NEW r \in Rep
      PROVE  /\ r \in Sent /\ ~Life(r) /\ r.kind # "request"
             /\ \A m \in Sent : <<m, r>> \in Order /\ <<r, m>> \in Order
  BY DEF Rep, Life, Sent, Order, Follows
<1>9. ASSUME mainQ' = mainQ, NEW r \in Rep, dartQ' = Append(dartQ, r)
      PROVE  OrderInv'
  <2>1. QueuesSorted(Order, dartQ, mainQ)' /\ UnderWay' = UnderWay \cup {r}
    BY <1>8, <1>9, QueueTypes, Replied DEF OrderInv
  <2>. QED BY <1>5, <1>8, <2>1
<1>10. ASSUME NEW e \in Msg, e.kind = "event", e.name = "switched", Post(e),
              NEW r \in Rep, dartQ' = Append(dartQ, r)
      PROVE  OrderInv'
  <2>1. /\ e \in Sent /\ ~Life(e) /\ e.kind # "request"
        /\ \A m \in Sent : <<m, e>> \in Order
    BY <1>10 DEF Life, Sent, Order, Follows
  <2>2. QueuesSorted(Order, dartQ, mainQ)' /\ UnderWay' = UnderWay \cup {e, r}
    BY <1>8, <1>10, <2>1, QueueTypes, PostedReplied DEF OrderInv
  <2>. QED BY <1>5, <1>8, <2>1, <2>2
<1>11. CASE InviteMake \/ InvitePut
  BY <1>6, <1>11 DEF InviteMake, InvitePut
<1>12. CASE InviteFail \/ Accept \/ Hangup \/ Upgrade \/ Conference
  BY <1>0, <1>7, <1>9, <1>12 DEF InviteFail, Accept, Hangup, Upgrade, Conference
<1>13. CASE InviteWire \/ SwitchLookup
  BY <1>0, <1>6, <1>7, <1>9, <1>13 DEF InviteWire, SwitchLookup
<1>14. CASE InviteDone
  <2>1. wk.o \in Obj /\ wireId[wk.o] \in WireIds
    BY <1>14 DEF InviteDone, TypeInv, TypeOK, WorkerOK, WireIds
  <2>2. PICK e \in Msg : e = Event("switched", wireId[wk.o], wk.o)
    BY <2>1, EventType DEF EventNames
  <2>. QED BY <1>7, <1>10, <1>14, <2>1, <2>2 DEF InviteDone, Event
<1>15. CASE SwitchDone
  <2>1. wk.o \in Obj
    BY <1>15 DEF SwitchDone, TypeInv, WorkerOK
  <2>2. PICK e \in Msg : e = Event("switched", wk.id, wk.o)
    BY <1>0, <2>1, EventType DEF EventNames
  <2>. QED BY <1>0, <1>7, <1>10, <1>15, <2>2 DEF SwitchDone, Event
<1>. QED BY <1>11, <1>12, <1>13, <1>14, <1>15 DEF Worker

(* The steps of the main looper.                                           *)
LEMMA MainOrder ==
  ASSUME TypeInv, OrderInv, Main
  PROVE  OrderInv'
<1>1. /\ \A m \in Msg \cup Rep : Past(m) => Past(m)'
      /\ OneCallback' /\ ConnectedOK'
  BY OtherFields, QuietPast DEF OrderInv
<1>2. \A m \in UnderWay : m \in Msg \cup Rep
  BY QueueTypes DEF Sent
<1>3. mainQ # <<>> /\ mainQ' = Tail(mainQ) /\ reinvited' = reinvited
  BY DEF Main, MainEvent, MainRequest, MainHeader, MainIdle, engine, session
<1>4. Head(mainQ) \in UnderWay /\ Head(mainQ) \in Msg
  <2>1. mainQ \in Seq(Msg)
    BY DEF TypeInv, TypeOK
  <2>2. 1 \in DOMAIN mainQ /\ Head(mainQ) = mainQ[1] /\ Head(mainQ) \in Msg
    BY <1>3, <2>1
  <2>. QED BY <2>2 DEF UnderWay, Both, ToSet
<1>5. wk'.m = wk.m \/ (Head(mainQ).kind = "request" /\ wk'.m = Head(mainQ).name)
  BY DEF Main, MainEvent, MainRequest, MainHeader, IdleWk
<1>6. ASSUME QueuesSorted(Order, dartQ, mainQ)',
             \A m \in UnderWay' : m \in UnderWay \/ (~Life(m) /\ m.kind # "request")
      PROVE  OrderInv'
  <2>1. \A m \in UnderWay' : Past(m)'
    BY <1>1, <1>2, <1>6 DEF OrderInv, Past, Life
  <2>2. UpgradeOK'
    BY <1>3, <1>4, <1>5, <1>6 DEF OrderInv, UpgradeOK
  <2>. QED BY <1>1, <1>6, <2>1, <2>2 DEF OrderInv
<1>7. CASE MainEvent
  <2>1. QueuesSorted(Order, dartQ, mainQ)' /\ UnderWay' = UnderWay
    BY <1>3, <1>7, Moved DEF MainEvent, OrderInv
  <2>. QED BY <1>6, <2>1
<1>8. CASE MainRequest
  <2>1. QueuesSorted(Order, dartQ, mainQ)' /\ UnderWay' \subseteq UnderWay
    BY <1>3, <1>8, Dropped DEF MainRequest, OrderInv
  <2>. QED BY <1>6, <2>1
<1>9. CASE MainHeader
  <2>1. Head(mainQ).id \in WireIds /\ Head(mainQ).obj \in Who \cup {NoObj}
    BY <1>4, <1>9 DEF MainHeader, Msg, Who
  <2>2. PICK r \in Rep : dartQ' = Append(dartQ, r)
    BY <1>9, <2>1, ReplyType DEF MainHeader, AllMethods
  <2>3. /\ r \in Sent /\ ~Life(r) /\ r.kind # "request"
        /\ \A m \in Sent : <<m, r>> \in Order /\ <<r, m>> \in Order
    BY DEF Rep, Life, Sent, Order, Follows
  <2>4. /\ QueuesSorted(Order, dartQ, mainQ)'
        /\ UnderWay' \subseteq UnderWay \cup {r}
    BY <1>3, <2>2, <2>3, QueueTypes, DroppedReplied DEF OrderInv
  <2>. QED BY <1>6, <2>3, <2>4
<1>. QED BY <1>7, <1>8, <1>9 DEF Main

(* The steps of the client.                                                *)
LEMMA ClientOrder ==
  ASSUME TypeInv, OrderInv, Client
  PROVE  OrderInv'
<1>1. /\ \A m \in Msg \cup Rep : Past(m) => Past(m)'
      /\ OneCallback' /\ ConnectedOK'
  BY OtherFields, QuietPast DEF OrderInv
<1>2. \A m \in UnderWay : m \in Msg \cup Rep
  BY QueueTypes DEF Sent
<1>3. reinvited' = reinvited /\ wk' = wk
  BY DEF Client, ClientTake, ClientSend, ClientTakeAndSend, engine, session
<1>4. ASSUME QueuesSorted(Order, dartQ, mainQ)',
             \A m \in UnderWay' : \/ m \in UnderWay
                                  \/ /\ m.kind = "request"
                                     /\ m.name \in Methods \cup {"header"}
      PROVE  OrderInv'
  <2>1. \A m \in UnderWay' : Past(m)'
    BY <1>1, <1>2, <1>4 DEF OrderInv, Past, Life
  <2>2. UpgradeOK'
    BY <1>3, <1>4 DEF OrderInv, UpgradeOK
  <2>. QED BY <1>1, <1>4, <2>1, <2>2 DEF OrderInv
<1>5. ASSUME NEW m \in Methods \cup {"header"}, NEW id \in WireIds, NEW w \in Awaiters
      PROVE  \E e \in Msg : /\ e = Request(m, id, w)
                            /\ e.kind = "request" /\ e.name = m
                            /\ e \in Sent /\ ~Life(e)
                            /\ \A a \in Sent : <<a, e>> \in Order
  <2>1. Request(m, id, w) \in Msg
    BY RequestType, EngineAssumption DEF AllMethods
  <2>2. Request(m, id, w).kind = "request" /\ Request(m, id, w).name = m
    BY DEF Request
  <2>. QED BY <2>1, <2>2 DEF Life, Sent, Order, Follows
<1>6. CASE ClientTake
  <2>1. QueuesSorted(Order, dartQ, mainQ)' /\ UnderWay' \subseteq UnderWay
    BY <1>6, Taken DEF ClientTake, OrderInv
  <2>. QED BY <1>4, <2>1
<1>7. CASE ClientSend
  <2>1. PICK e \in Msg : /\ Post(e) /\ e.kind = "request"
                         /\ e.name \in Methods \cup {"header"}
                         /\ e \in Sent /\ \A a \in Sent : <<a, e>> \in Order
    BY <1>5, <1>7 DEF ClientSend
  <2>2. QueuesSorted(Order, dartQ, mainQ)' /\ UnderWay' = UnderWay \cup {e}
    BY <1>7, <2>1, QueueTypes, Posted DEF ClientSend, OrderInv
  <2>. QED BY <1>4, <2>1, <2>2
<1>8. CASE ClientTakeAndSend
  <2>1. PICK e \in Msg : /\ Post(e) /\ e.kind = "request"
                         /\ e.name \in Methods \cup {"header"}
                         /\ e \in Sent /\ \A a \in Sent : <<a, e>> \in Order
    BY <1>5, <1>8 DEF ClientTakeAndSend
  <2>2. /\ QueuesSorted(Order, dartQ, mainQ)'
        /\ UnderWay' \subseteq UnderWay \cup {e}
    BY <1>8, <2>1, QueueTypes, TakenPosted DEF ClientTakeAndSend, OrderInv
  <2>. QED BY <1>4, <2>1, <2>2
<1>. QED BY <1>6, <1>7, <1>8 DEF Client

LEMMA InitOrder == Init => OrderInv
  BY DEF Init, OrderInv, QueuesSorted, Sorted, Across, UnderWay, Both, ToSet, OneCallback,
         ConnectedOK, UpgradeOK, IdleCb, IdleWk

LEMMA StepOrder == TypeInv /\ OrderInv /\ [Next]_vars => OrderInv'
<1>1. OrderInv /\ UNCHANGED vars => OrderInv'
  BY DEF OrderInv, UnderWay, Past, OneCallback, ConnectedOK, UpgradeOK, vars, Life
<1>. QED
  BY <1>1, CallbackOrder, WorkerOrder, MainOrder, ClientOrder DEF Next, System

(* Any two events of a call's life that are under way follow each other,   *)
(* whatever the client asks for and whenever callbacks run.                *)
EventsFollow ==
  \A i, j \in DOMAIN Stream : i < j => Follows(Stream[i], Stream[j])

LEMMA StreamSorted == TypeInv /\ OrderInv => EventsFollow
<1>. SUFFICES ASSUME TypeInv, OrderInv, NEW i \in DOMAIN Stream, NEW j \in DOMAIN Stream,
                     i < j
             PROVE  Follows(Stream[i], Stream[j])
  BY DEF EventsFollow
<1>1. /\ dartQ \in Seq(Sent) /\ mainQ \in Seq(Sent)
      /\ QueuesSorted(Order, dartQ, mainQ)
  BY QueueTypes DEF OrderInv
<1>2. /\ Len(dartQ) \in Nat /\ DOMAIN dartQ = 1..Len(dartQ)
      /\ i \in Nat /\ j \in Nat
      /\ i \in DOMAIN dartQ => Stream[i] = dartQ[i]
      /\ j \in DOMAIN dartQ => Stream[j] = dartQ[j]
      /\ i \notin DOMAIN dartQ =>
           i - Len(dartQ) \in DOMAIN mainQ /\ Stream[i] = mainQ[i - Len(dartQ)]
      /\ j \notin DOMAIN dartQ =>
           j - Len(dartQ) \in DOMAIN mainQ /\ Stream[j] = mainQ[j - Len(dartQ)]
  BY <1>1 DEF Stream
<1>3. CASE j \in DOMAIN dartQ
  <2>1. i \in DOMAIN dartQ
    BY <1>2, <1>3
  <2>. QED BY <1>1, <1>2, <1>3, <2>1 DEF QueuesSorted, Sorted, Order
<1>4. CASE j \notin DOMAIN dartQ /\ i \in DOMAIN dartQ
  BY <1>1, <1>2, <1>4 DEF QueuesSorted, Across, Order
<1>5. CASE j \notin DOMAIN dartQ /\ i \notin DOMAIN dartQ
  <2>1. i - Len(dartQ) < j - Len(dartQ)
    BY <1>2
  <2>. QED BY <1>1, <1>2, <1>5, <2>1 DEF QueuesSorted, Sorted, Order
<1>. QED BY <1>3, <1>4, <1>5

(* For any number of calls, slots and threads, any client and any peer:    *)
(* the events of a call reach Dart in the order of its life, each at most  *)
(* once, but that after an upgrade to video of a call that was connected   *)
(* without a 1xx its proceeding may come after its connected.              *)
THEOREM EventsInOrder == Spec => []EventsFollow
<1>1. TypeInv /\ OrderInv /\ [Next]_vars => OrderInv'
  BY StepOrder
<1>. QED BY <1>1, InitOrder, TypeInvariant, StreamSorted, PTL DEF Spec

(* Where no upgrade is asked for, the order is the one Dart relies on.     *)
THEOREM EventsOrdered ==
  ASSUME "upgrade" \notin Methods
  PROVE  Spec => []EventOrder
<1>1. EventsFollow => EventOrder
  BY DEF EventsFollow, Follows, EventOrder
<1>. QED BY <1>1, EventsInOrder, PTL

=============================================================================
