------------------------------ MODULE Messages ------------------------------
(***************************************************************************)
(* SIP MESSAGEs: messageSend, onInstantMessageStatus and onInstantMessage  *)
(* of the Android engine, and MessagesModel of the Dart library.           *)
(*                                                                         *)
(* The engine numbers messages with nextMsgId and keeps the numbers of     *)
(* those sent in a FIFO; PJSIP reports an outcome without saying of which  *)
(* message, and the oldest number is taken.  What PJSIP may do is set by   *)
(* three constants, each of which the code takes to be as in the passing   *)
(* runs.  A message is a number; of, told and got are its identity, which  *)
(* the program does not have.                                              *)
(***************************************************************************)
EXTENDS Integers, Sequences, SequencesExt

CONSTANTS
  MaxSent,      \* messages a behaviour sends (a bound)
  MaxReceived,  \* messages a behaviour receives (a bound)
  MaxItems,     \* MessagesModel.maxItems
  InOrder,      \* outcomes are reported in the order of sending
  FastPeer,     \* an outcome may come before messageSend has returned
  Overlap       \* onInstantMessage may run while messageSend does

ASSUME MessagesAssumption ==
  /\ MaxSent \in Nat /\ MaxReceived \in Nat
  /\ MaxItems \in Nat \ {0}
  /\ InOrder \in BOOLEAN /\ FastPeer \in BOOLEAN /\ Overlap \in BOOLEAN

SentMsgs     == 1..MaxSent
ReceivedMsgs == (MaxSent + 1)..(MaxSent + MaxReceived)
AllMsgs      == SentMsgs \cup ReceivedMsgs
NoMsg        == 0

VARIABLES
  nextMsgId,
  pendingMsgIds,
  sent,          \* how many messages the app has sent
  received,      \* how many PJSIP has received
  tx,            \* messages without an outcome, in the order of sending
  wk,            \* messageSend on the worker
  cb,            \* onInstantMessage on a PJSIP thread
  mainQ,         \* events posted to the main looper
  dartQ,         \* what the main thread has sent to Dart
  list           \* MessagesModel._messages

mvars == <<nextMsgId, pendingMsgIds, sent, received, tx, wk, cb, mainQ, dartQ,
           list>>

IdleWk == [pc |-> "idle", msg |-> NoMsg, id |-> 0]
IdleCb == [pc |-> "idle", id |-> 0]

Note(kind, id, of) == [kind |-> kind, id |-> id, of |-> of]
Notes == [kind: {"sent", "status", "incoming"}, id: Nat, of: AllMsgs]

MsgTypeOK ==
  /\ nextMsgId \in Nat
  /\ pendingMsgIds \in Seq(Nat)
  /\ sent \in 0..MaxSent
  /\ received \in 0..MaxReceived
  /\ tx \in Seq(SentMsgs)
  /\ wk \in [pc: {"idle", "start", "read", "bump", "add", "reply"},
             msg: SentMsgs \cup {NoMsg}, id: Nat]
  /\ cb \in [pc: {"idle", "bump"}, id: Nat]
  /\ mainQ \in Seq(Notes)
  /\ dartQ \in Seq(Notes)
  /\ list \in Seq([id: Nat, of: AllMsgs, got: SentMsgs \cup {NoMsg}])
  /\ Len(list) <= MaxItems

MsgInit ==
  /\ nextMsgId = 1
  /\ pendingMsgIds = <<>>
  /\ sent = 0 /\ received = 0
  /\ tx = <<>>
  /\ wk = IdleWk /\ cb = IdleCb
  /\ mainQ = <<>> /\ dartQ = <<>>
  /\ list = <<>>

-----------------------------------------------------------------------------
(* messageSend.  The main thread waits for it, so it forwards no event     *)
(* before the reply.                                                       *)

Send ==
  /\ wk.pc = "idle" /\ sent < MaxSent
  /\ sent' = sent + 1
  /\ wk' = [pc |-> "start", msg |-> sent + 1, id |-> 0]
  /\ UNCHANGED <<nextMsgId, pendingMsgIds, received, tx, cb, mainQ, dartQ, list>>

\* No account, or PJSIP refuses: an error reply, and Dart adds nothing.
SendFails ==
  /\ wk.pc = "start"
  /\ wk' = IdleWk
  /\ UNCHANGED <<nextMsgId, pendingMsgIds, sent, received, tx, cb, mainQ,
                 dartQ, list>>

\* buddy.sendInstantMessage
Transmit ==
  /\ wk.pc = "start"
  /\ tx' = Append(tx, wk.msg)
  /\ wk' = [wk EXCEPT !.pc = "read"]
  /\ UNCHANGED <<nextMsgId, pendingMsgIds, sent, received, cb, mainQ, dartQ, list>>

\* val msgId = nextMsgId++, two accesses to a plain field.
ReadId ==
  /\ wk.pc = "read"
  /\ Overlap \/ cb.pc = "idle"
  /\ wk' = [wk EXCEPT !.pc = "bump", !.id = nextMsgId]
  /\ UNCHANGED <<nextMsgId, pendingMsgIds, sent, received, tx, cb, mainQ,
                 dartQ, list>>

BumpId ==
  /\ wk.pc = "bump"
  /\ nextMsgId' = wk.id + 1
  /\ wk' = [wk EXCEPT !.pc = "add"]
  /\ UNCHANGED <<pendingMsgIds, sent, received, tx, cb, mainQ, dartQ, list>>

\* Mutant: the number is not queued.
AddPendingForgotten ==
  /\ wk.pc = "add"
  /\ wk' = [wk EXCEPT !.pc = "reply"]
  /\ UNCHANGED <<nextMsgId, pendingMsgIds, sent, received, tx, cb, mainQ,
                 dartQ, list>>

\* Mutant: the number is put at the front of the queue.
AddPendingFront ==
  /\ wk.pc = "add"
  /\ pendingMsgIds' = <<wk.id>> \o pendingMsgIds
  /\ wk' = [wk EXCEPT !.pc = "reply"]
  /\ UNCHANGED <<nextMsgId, sent, received, tx, cb, mainQ, dartQ, list>>

AddPending ==
  /\ wk.pc = "add"
  /\ pendingMsgIds' = Append(pendingMsgIds, wk.id)
  /\ wk' = [wk EXCEPT !.pc = "reply"]
  /\ UNCHANGED <<nextMsgId, sent, received, tx, cb, mainQ, dartQ, list>>

SendReply ==
  /\ wk.pc = "reply"
  /\ dartQ' = Append(dartQ, Note("sent", wk.id, wk.msg))
  /\ wk' = IdleWk
  /\ UNCHANGED <<nextMsgId, pendingMsgIds, sent, received, tx, cb, mainQ, list>>

Worker == SendFails \/ Transmit \/ ReadId \/ BumpId \/ AddPending \/ SendReply

-----------------------------------------------------------------------------
(* Callbacks of PJSIP.                                                     *)

\* onInstantMessageStatus: the outcome of tx[i]; poll() ?: return.
Status ==
  \E i \in DOMAIN tx :
    /\ InOrder => i = 1
    /\ FastPeer \/ tx[i] # wk.msg
    /\ tx' = RemoveAt(tx, i)
    /\ IF pendingMsgIds = <<>>
       THEN UNCHANGED <<pendingMsgIds, mainQ>>
       ELSE /\ pendingMsgIds' = Tail(pendingMsgIds)
            /\ mainQ' = Append(mainQ, Note("status", Head(pendingMsgIds), tx[i]))
    /\ UNCHANGED <<nextMsgId, sent, received, wk, cb, dartQ, list>>

\* onInstantMessage: nextMsgId++ on a PJSIP thread.
Receive ==
  /\ cb.pc = "idle" /\ received < MaxReceived
  /\ Overlap \/ wk.pc # "bump"
  /\ received' = received + 1
  /\ cb' = [pc |-> "bump", id |-> nextMsgId]
  /\ UNCHANGED <<nextMsgId, pendingMsgIds, sent, tx, wk, mainQ, dartQ, list>>

\* Mutant: received messages take a number but do not use it up.
ReceivePostNoBump ==
  /\ cb.pc = "bump"
  /\ mainQ' = Append(mainQ, Note("incoming", cb.id, MaxSent + received))
  /\ cb' = IdleCb
  /\ UNCHANGED <<nextMsgId, pendingMsgIds, sent, received, tx, wk, dartQ, list>>

ReceivePost ==
  /\ cb.pc = "bump"
  /\ nextMsgId' = cb.id + 1
  /\ mainQ' = Append(mainQ, Note("incoming", cb.id, MaxSent + received))
  /\ cb' = IdleCb
  /\ UNCHANGED <<pendingMsgIds, sent, received, tx, wk, dartQ, list>>

Forward ==
  /\ wk.pc = "idle" /\ mainQ # <<>>
  /\ dartQ' = Append(dartQ, Head(mainQ))
  /\ mainQ' = Tail(mainQ)
  /\ UNCHANGED <<nextMsgId, pendingMsgIds, sent, received, tx, wk, cb, list>>

-----------------------------------------------------------------------------
(* MessagesModel.                                                          *)

\* Mutant: the list grows without end.
AddedUnbounded(item) == list' = Append(list, item)

\* Add to the list; beyond maxItems the oldest one goes.
Added(item) ==
  list' = IF Len(list) = MaxItems THEN Append(Tail(list), item)
          ELSE Append(list, item)

Known(id) == \E k \in DOMAIN list : list[k].id = id

\* send after its await.
OnSent(m) == Added([id |-> m.id, of |-> m.of, got |-> NoMsg])

\* onMessageSentState: the first message with the number.
OnMessageSentState(m) ==
  list' = [k \in DOMAIN list |->
             IF list[k].id = m.id /\ \A j \in DOMAIN list :
                                       j < k => list[j].id # m.id
             THEN [list[k] EXCEPT !.got = m.of] ELSE list[k]]

\* onMessageIncoming: a known number is skipped; the model itself gets 0.
OnMessageIncoming(m) ==
  IF Known(m.id) THEN UNCHANGED list
  ELSE Added([id |-> 0, of |-> m.of, got |-> NoMsg])

Dart ==
  /\ dartQ # <<>>
  /\ dartQ' = Tail(dartQ)
  /\ LET m == Head(dartQ) IN
       \/ m.kind = "sent"     /\ OnSent(m)
       \/ m.kind = "status"   /\ OnMessageSentState(m)
       \/ m.kind = "incoming" /\ OnMessageIncoming(m)
  /\ UNCHANGED <<nextMsgId, pendingMsgIds, sent, received, tx, wk, cb, mainQ>>

\* The user deletes a message.
RemoveMessage ==
  \E k \in DOMAIN list :
    /\ list' = RemoveAt(list, k)
    /\ UNCHANGED <<nextMsgId, pendingMsgIds, sent, received, tx, wk, cb,
                   mainQ, dartQ>>

MsgNext ==
  \/ Send
  \/ Worker
  \/ Status
  \/ Receive
  \/ ReceivePost
  \/ Forward
  \/ Dart
  \/ RemoveMessage

MsgSafe == MsgInit /\ [][MsgNext]_mvars

(* The loops take their next task, a callback returns, and PJSIP reports   *)
(* an outcome of every transaction (408 when nobody answers).              *)
MsgFairness ==
  /\ WF_mvars(Worker) /\ WF_mvars(ReceivePost) /\ WF_mvars(Forward)
  /\ WF_mvars(Dart) /\ WF_mvars(Status)

MsgSpec == MsgSafe /\ MsgFairness

-----------------------------------------------------------------------------
(* Properties.                                                             *)

(* The outcome shown for a message is its own: "Unique id assigned by      *)
(* library (allows get message sent status)" (messages_model.dart).        *)
OwnStatus ==
  \A k \in DOMAIN list : list[k].got # NoMsg => list[k].got = list[k].of

(* No received message is taken for one that is there already: the number  *)
(* on its way is no number of the list, nor of a reply that precedes it.   *)
NoneSkipped ==
  LET stream == dartQ \o mainQ IN
  \A i \in DOMAIN stream : stream[i].kind = "incoming" =>
    /\ ~Known(stream[i].id)
    /\ \A j \in 1..(i - 1) : stream[j].kind = "sent" =>
         stream[j].id # stream[i].id

(* A message that was sent and is still shown gets its outcome.            *)
Waiting(n) == \E k \in DOMAIN list : list[k].of = n /\ list[k].got = NoMsg
StatusArrives == \A n \in SentMsgs : Waiting(n) ~> ~Waiting(n)
=============================================================================
