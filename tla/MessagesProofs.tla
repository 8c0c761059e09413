--------------------------- MODULE MessagesProofs ---------------------------
(***************************************************************************)
(* Proofs about messages, for any number of them and any length of the     *)
(* list, where PJSIP behaves as the code takes it to: outcomes come in the *)
(* order of sending and after messageSend has returned, and no             *)
(* onInstantMessage runs between the two accesses to nextMsgId.            *)
(***************************************************************************)
EXTENDS Messages, TLAPS

(* The types, what stands behind a program counter, and that outcomes are  *)
(* of messages that were sent.                                             *)
MsgNotes == {n \in Notes : n.kind # "incoming" => n.of \in SentMsgs}
MsgItems == [id: Nat, of: AllMsgs, got: SentMsgs \cup {NoMsg}]

EngineTyped ==
  /\ nextMsgId \in Nat /\ nextMsgId > 0
  /\ pendingMsgIds \in Seq(Nat) /\ tx \in Seq(SentMsgs)
  /\ sent \in 0..MaxSent /\ received \in 0..MaxReceived
ThreadsTyped ==
  /\ wk \in [pc: {"idle", "start", "read", "bump", "add", "reply"},
             msg: SentMsgs \cup {NoMsg}, id: Nat]
  /\ wk.pc # "idle" => wk.msg \in SentMsgs
  /\ cb \in [pc: {"idle", "bump"}, id: Nat]
  /\ cb.pc = "bump" => received > 0
QueuesTyped == mainQ \in Seq(MsgNotes) /\ dartQ \in Seq(MsgNotes)
ListTyped   == list \in Seq(MsgItems) /\ Len(list) <= MaxItems
MsgTyped    == EngineTyped /\ ThreadsTyped /\ QueuesTyped /\ ListTyped

(* A claim says whose number it is: the queue of the engine by position,   *)
(* the others by what they carry.                                          *)
QueueClaims  == {<<pendingMsgIds[k], tx[k]>> : k \in DOMAIN pendingMsgIds}
NoteClaims(q) == {<<m.id, m.of>> : m \in {n \in ToSet(q) : n.kind # "incoming"}}
ListClaims   == {<<m.id, m.of>> : m \in {n \in ToSet(list) : n.id # 0}}
WorkerClaims == IF wk.pc \in {"bump", "add", "reply"} THEN {<<wk.id, wk.msg>>} ELSE {}
Claims == QueueClaims \cup NoteClaims(mainQ) \cup NoteClaims(dartQ) \cup ListClaims
            \cup WorkerClaims

(* The numbers of messages that have come in and are on their way.         *)
IncomingIds ==
  {m.id : m \in {n \in ToSet(mainQ) \cup ToSet(dartQ) : n.kind = "incoming"}}

(* The queue of numbers and the transactions go together; messageSend adds *)
(* to the transactions first.                                              *)
Aligned ==
  /\ Len(tx) = Len(pendingMsgIds) + (IF wk.pc \in {"read", "bump", "add"} THEN 1 ELSE 0)
  /\ wk.pc \in {"read", "bump", "add"} => tx[Len(tx)] = wk.msg

(* No two messages have the same number.                                   *)
ClaimsAgree == \A p, q \in Claims : p[1] = q[1] => p[2] = q[2]

(* Every number that has been given is below the next one.                 *)
Fresh ==
  /\ \A p \in Claims :
       /\ p[1] \in Nat /\ p[1] > 0 /\ p[1] <= nextMsgId
       /\ wk.pc # "bump" => p[1] # nextMsgId
  /\ \A id \in IncomingIds : id \in Nat /\ id > 0 /\ id < nextMsgId
  /\ wk.pc = "bump" => wk.id = nextMsgId /\ cb.pc = "idle"
  /\ cb.pc = "bump" => cb.id = nextMsgId

(* A number is of a message that was sent or of one that came in.          *)
Distinct == \A p \in Claims : p[1] \notin IncomingIds

NumbersInv == Aligned /\ ClaimsAgree /\ Fresh /\ Distinct

\* What the code takes PJSIP to do.
AsExpected == InOrder /\ ~FastPeer /\ ~Overlap
-----------------------------------------------------------------------------
(* Sequences.                                                              *)

LEMMA SetOfAppend ==
  ASSUME NEW S, NEW q \in Seq(S), NEW e \in S
  PROVE  ToSet(Append(q, e)) = ToSet(q) \cup {e}
<1>1. /\ DOMAIN Append(q, e) = DOMAIN q \cup {Len(q) + 1}
      /\ Append(q, e)[Len(q) + 1] = e
      /\ \A i \in DOMAIN q : Append(q, e)[i] = q[i]
  OBVIOUS
<1>. QED BY <1>1 DEF ToSet

LEMMA SetOfTail ==
  ASSUME NEW S, NEW q \in Seq(S), q # <<>>
  PROVE  Head(q) \in ToSet(q) /\ ToSet(Tail(q)) \subseteq ToSet(q)
<1>1. /\ 1 \in DOMAIN q /\ Head(q) = q[1]
      /\ \A i \in DOMAIN Tail(q) : i + 1 \in DOMAIN q /\ Tail(q)[i] = q[i + 1]
  OBVIOUS
<1>. QED BY <1>1 DEF ToSet

LEMMA SetOfSeq ==
  ASSUME NEW S, NEW q \in Seq(S)
  PROVE  ToSet(q) \subseteq S
  BY DEF ToSet

LEMMA ConcatParts ==
  ASSUME NEW S, NEW a \in Seq(S), NEW b \in Seq(S)
  PROVE  /\ a \o b \in Seq(S) /\ Len(a \o b) = Len(a) + Len(b)
         /\ \A k \in 1..Len(a) : (a \o b)[k] = a[k]
         /\ \A k \in 1..Len(b) : (a \o b)[k + Len(a)] = b[k]
<1>1. /\ Len(a) \in Nat /\ Len(b) \in Nat
      /\ a \o b \in Seq(S) /\ Len(a \o b) = Len(a) + Len(b)
      /\ \A k \in 1..(Len(a) + Len(b)) :
           (a \o b)[k] = IF k <= Len(a) THEN a[k] ELSE b[k - Len(a)]
  OBVIOUS
<1>2. ASSUME NEW k \in 1..Len(a) PROVE (a \o b)[k] = a[k]
  BY <1>1
<1>3. ASSUME NEW k \in 1..Len(b) PROVE (a \o b)[k + Len(a)] = b[k]
  <2>1. /\ k + Len(a) \in 1..(Len(a) + Len(b)) /\ ~(k + Len(a) <= Len(a))
        /\ (k + Len(a)) - Len(a) = k
    BY <1>1
  <2>. QED BY <1>1, <2>1
<1>. QED BY <1>1, <1>2, <1>3

LEMMA RemoveAtType ==
  ASSUME NEW S, NEW q \in Seq(S), NEW i \in DOMAIN q
  PROVE  /\ RemoveAt(q, i) \in Seq(S)
         /\ Len(RemoveAt(q, i)) = Len(q) - 1
         /\ \A k \in 1..(Len(q) - 1) :
              RemoveAt(q, i)[k] = IF k < i THEN q[k] ELSE q[k + 1]
<1>. DEFINE l == SubSeq(q, 1, i - 1)
            r == SubSeq(q, i + 1, Len(q))
<1>1. i \in 1..Len(q) /\ Len(q) \in Nat
  OBVIOUS
<1>2. /\ l \in Seq(S) /\ Len(l) = i - 1
      /\ \A k \in 1..(i - 1) : l[k] = q[k]
  BY <1>1
<1>3. /\ r \in Seq(S) /\ Len(r) = Len(q) - i
      /\ \A k \in 1..(Len(q) - i) : r[k] = q[k + i]
  BY <1>1
<1>. HIDE DEF l, r
<1>4. /\ l \o r \in Seq(S) /\ Len(l \o r) = (i - 1) + (Len(q) - i)
      /\ \A k \in 1..(i - 1) : (l \o r)[k] = l[k]
      /\ \A k \in 1..(Len(q) - i) : (l \o r)[k + (i - 1)] = r[k]
  <2>1. /\ l \o r \in Seq(S) /\ Len(l \o r) = Len(l) + Len(r)
        /\ \A k \in 1..Len(l) : (l \o r)[k] = l[k]
        /\ \A k \in 1..Len(r) : (l \o r)[k + Len(l)] = r[k]
    <3>1. l \in Seq(S) /\ r \in Seq(S)
      BY <1>2, <1>3
    <3>. QED BY ONLY <3>1, ConcatParts
  <2>. QED BY <1>2, <1>3, <2>1, Zenon
<1>5. RemoveAt(q, i) = l \o r
  BY DEF RemoveAt, l, r
<1>6. /\ l \o r \in Seq(S) /\ Len(l \o r) = Len(q) - 1
  BY <1>1, <1>4
<1>7. ASSUME NEW k \in 1..(Len(q) - 1)
      PROVE  (l \o r)[k] = IF k < i THEN q[k] ELSE q[k + 1]
  <2>1. CASE k < i
    <3>1. k \in 1..(i - 1)
      BY <1>1, <2>1
    <3>. QED BY <1>2, <1>4, <2>1, <3>1
  <2>2. CASE ~(k < i)
    <3>. DEFINE m == k - (i - 1)
    <3>1. m \in 1..(Len(q) - i) /\ m + (i - 1) = k /\ m + i = k + 1
      BY <1>1, <2>2
    <3>. HIDE DEF m
    <3>2. (l \o r)[m + (i - 1)] = r[m] /\ r[m] = q[m + i]
      BY <1>3, <1>4, <3>1
    <3>. QED BY <2>2, <3>1, <3>2
  <2>. QED BY <2>1, <2>2
<1>. QED BY <1>5, <1>6, <1>7

LEMMA SetOfRemoveAt ==
  ASSUME NEW S, NEW q \in Seq(S), NEW i \in DOMAIN q
  PROVE  ToSet(RemoveAt(q, i)) \subseteq ToSet(q)
<1>1. DOMAIN RemoveAt(q, i) = 1..(Len(q) - 1)
  BY RemoveAtType
<1>2. ASSUME NEW k \in 1..(Len(q) - 1) PROVE RemoveAt(q, i)[k] \in ToSet(q)
  <2>1. k \in DOMAIN q /\ k + 1 \in DOMAIN q
    OBVIOUS
  <2>. QED BY RemoveAtType, <2>1 DEF ToSet
<1>. QED BY <1>1, <1>2 DEF ToSet

-----------------------------------------------------------------------------
(* Types.                                                                  *)

LEMMA TypesBegin == MsgInit => MsgTyped
  BY MessagesAssumption
  DEF MsgInit, MsgTyped, EngineTyped, ThreadsTyped, QueuesTyped, ListTyped, IdleWk, IdleCb,
      NoMsg

LEMMA AddedTyped ==
  ASSUME ListTyped, NEW item \in MsgItems, Added(item)
  PROVE  ListTyped'
<1>1. list \in Seq(MsgItems) /\ Len(list) <= MaxItems /\ MaxItems \in Nat /\ MaxItems > 0
  BY MessagesAssumption DEF ListTyped
<1>2. CASE Len(list) = MaxItems
  <2>1. Tail(list) \in Seq(MsgItems) /\ Len(Tail(list)) = Len(list) - 1
    BY <1>1, <1>2
  <2>2. list' = Append(Tail(list), item)
    BY <1>2 DEF Added
  <2>. QED BY <1>1, <2>1, <2>2 DEF ListTyped
<1>3. CASE Len(list) # MaxItems
  BY <1>1, <1>3 DEF Added, ListTyped
<1>. QED BY <1>2, <1>3

(* An outcome is put down: the list keeps its length, and an item all but  *)
(* its outcome.                                                            *)
LEMMA StateSent ==
  ASSUME ListTyped, NEW m, OnMessageSentState(m)
  PROVE  /\ Len(list) \in Nat /\ DOMAIN list = 1..Len(list)
         /\ DOMAIN list' = DOMAIN list /\ list' = [k \in DOMAIN list |-> list'[k]]
         /\ \A k \in DOMAIN list :
              /\ list[k] \in MsgItems
              /\ \/ list'[k] = list[k]
                 \/ /\ list[k].id = m.id
                    /\ list'[k] = [list[k] EXCEPT !.got = m.of]
  BY DEF OnMessageSentState, ListTyped

LEMMA DartTyped ==
  ASSUME QueuesTyped, ListTyped, Dart
  PROVE  QueuesTyped' /\ ListTyped'
<1>. DEFINE m == Head(dartQ)
<1>1. m \in MsgNotes /\ QueuesTyped'
  BY DEF QueuesTyped, Dart
<1>2. m.id \in Nat /\ m.of \in AllMsgs /\ (m.kind # "incoming" => m.of \in SentMsgs)
  BY <1>1 DEF MsgNotes, Notes
<1>. HIDE DEF m
<1>4. CASE m.kind = "sent" /\ OnSent(m)
  <2>1. [id |-> m.id, of |-> m.of, got |-> NoMsg] \in MsgItems
    BY <1>2 DEF MsgItems
  <2>. QED BY <1>1, <1>4, <2>1, AddedTyped DEF OnSent
<1>5. CASE m.kind = "status" /\ OnMessageSentState(m)
  <2>1. \A i \in MsgItems : [i EXCEPT !.got = m.of] \in MsgItems
    BY <1>2, <1>5 DEF MsgItems
  <2>2. \A k \in DOMAIN list : list'[k] \in MsgItems
    <3>1. ASSUME NEW k \in DOMAIN list PROVE list'[k] \in MsgItems
      <4>1. list[k] \in MsgItems
        BY <3>1 DEF ListTyped
      <4>2. list'[k] = list[k] \/ list'[k] = [list[k] EXCEPT !.got = m.of]
        BY <1>5 DEF OnMessageSentState
      <4>. QED BY <2>1, <4>1, <4>2
    <3>. QED BY <3>1
  <2>3. list' \in [1..Len(list) -> MsgItems] /\ Len(list) \in Nat
    BY <1>5, <2>2, StateSent
  <2>4. list' \in Seq(MsgItems) /\ Len(list') = Len(list)
    BY <2>3
  <2>. QED BY <1>1, <2>4 DEF ListTyped
<1>6. CASE m.kind = "incoming" /\ OnMessageIncoming(m)
  <2>1. [id |-> 0, of |-> m.of, got |-> NoMsg] \in MsgItems
    BY <1>2 DEF MsgItems
  <2>2. CASE UNCHANGED list
    BY <1>1, <2>2 DEF ListTyped
  <2>. QED BY <1>1, <1>6, <2>1, <2>2, AddedTyped DEF OnMessageIncoming
<1>. QED BY <1>4, <1>5, <1>6 DEF Dart, m

(* A note that is posted.                                                  *)
LEMMA NoteTyped ==
  \A id \in Nat :
    /\ \A of \in SentMsgs :
         Note("sent", id, of) \in MsgNotes /\ Note("status", id, of) \in MsgNotes
    /\ \A of \in AllMsgs : Note("incoming", id, of) \in MsgNotes
  BY DEF Note, MsgNotes, Notes, AllMsgs

(* The oldest outcome is reported.                                         *)
LEMMA StatusTyped ==
  ASSUME EngineTyped, QueuesTyped, Status
  PROVE  EngineTyped' /\ QueuesTyped'
<1>1. PICK i \in DOMAIN tx :
        /\ tx' = RemoveAt(tx, i)
        /\ \/ pendingMsgIds' = pendingMsgIds /\ mainQ' = mainQ
           \/ /\ pendingMsgIds # <<>> /\ pendingMsgIds' = Tail(pendingMsgIds)
              /\ mainQ' = Append(mainQ, Note("status", Head(pendingMsgIds), tx[i]))
  BY DEF Status
<1>2. tx \in Seq(SentMsgs) /\ tx[i] \in SentMsgs
  BY DEF EngineTyped
<1>3. tx' \in Seq(SentMsgs)
  BY <1>1, <1>2, RemoveAtType
<1>4. pendingMsgIds' \in Seq(Nat) /\ mainQ' \in Seq(MsgNotes)
  <2>1. CASE pendingMsgIds' = pendingMsgIds /\ mainQ' = mainQ
    BY <2>1 DEF EngineTyped, QueuesTyped
  <2>2. ASSUME pendingMsgIds # <<>>, pendingMsgIds' = Tail(pendingMsgIds),
               mainQ' = Append(mainQ, Note("status", Head(pendingMsgIds), tx[i]))
        PROVE  pendingMsgIds' \in Seq(Nat) /\ mainQ' \in Seq(MsgNotes)
    <3>1. Head(pendingMsgIds) \in Nat /\ Tail(pendingMsgIds) \in Seq(Nat)
      BY <2>2 DEF EngineTyped
    <3>2. Note("status", Head(pendingMsgIds), tx[i]) \in MsgNotes
      BY <1>2, <3>1, NoteTyped
    <3>. QED BY <2>2, <3>1, <3>2 DEF QueuesTyped
  <2>. QED BY <1>1, <2>1, <2>2
<1>. QED BY <1>3, <1>4 DEF Status, EngineTyped, QueuesTyped

LEMMA TypesKeep == MsgTyped /\ [MsgNext]_mvars => MsgTyped'
<1>. SUFFICES ASSUME EngineTyped, ThreadsTyped, QueuesTyped, ListTyped, [MsgNext]_mvars
             PROVE  EngineTyped' /\ ThreadsTyped' /\ QueuesTyped' /\ ListTyped'
  BY DEF MsgTyped
<1>0. MaxSent \in Nat /\ MaxReceived \in Nat
  BY MessagesAssumption
<1>1. CASE Send
  BY <1>0, <1>1 DEF Send, SentMsgs, EngineTyped, ThreadsTyped, QueuesTyped, ListTyped
<1>2. CASE SendFails \/ ReadId \/ BumpId
  <2>1. EngineTyped' /\ QueuesTyped' /\ ListTyped'
    BY <1>2
    DEF SendFails, ReadId, BumpId, EngineTyped, ThreadsTyped, QueuesTyped, ListTyped
  <2>2. ThreadsTyped'
    <3>1. CASE SendFails
      BY <3>1 DEF SendFails, ThreadsTyped, IdleWk, NoMsg
    <3>2. CASE ReadId
      <4>1. nextMsgId \in Nat /\ wk' = [wk EXCEPT !.pc = "bump", !.id = nextMsgId]
            /\ wk.msg \in SentMsgs
        BY <3>2 DEF ReadId, EngineTyped, ThreadsTyped
      <4>2. wk'.pc = "bump" /\ wk'.msg = wk.msg
            /\ wk' \in [pc: {"idle", "start", "read", "bump", "add", "reply"},
                        msg: SentMsgs \cup {NoMsg}, id: Nat]
        BY <4>1 DEF ThreadsTyped
      <4>. QED BY <3>2, <4>1, <4>2 DEF ReadId, ThreadsTyped
    <3>3. CASE BumpId
      BY <3>3 DEF BumpId, ThreadsTyped
    <3>. QED BY <1>2, <3>1, <3>2, <3>3
  <2>. QED BY <2>1, <2>2
<1>3. CASE Transmit
  <2>1. wk.msg \in SentMsgs /\ ThreadsTyped'
    BY <1>3 DEF Transmit, ThreadsTyped
  <2>. QED BY <1>3, <2>1 DEF Transmit, EngineTyped, QueuesTyped, ListTyped
<1>4. CASE AddPending
  <2>1. wk.id \in Nat /\ ThreadsTyped'
    BY <1>4 DEF AddPending, ThreadsTyped
  <2>. QED BY <1>4, <2>1 DEF AddPending, EngineTyped, QueuesTyped, ListTyped
<1>5. CASE SendReply
  <2>1. Note("sent", wk.id, wk.msg) \in MsgNotes
    <3>1. wk.id \in Nat /\ wk.msg \in SentMsgs
      BY <1>5 DEF SendReply, ThreadsTyped
    <3>. QED BY <3>1, NoteTyped
  <2>2. QueuesTyped' /\ EngineTyped' /\ ListTyped'
    BY <1>5, <2>1 DEF SendReply, QueuesTyped, EngineTyped, ListTyped
  <2>3. ThreadsTyped'
    BY <1>5 DEF SendReply, ThreadsTyped, IdleWk, NoMsg
  <2>. QED BY <2>2, <2>3
<1>6. CASE Status
  <2>1. ThreadsTyped' /\ ListTyped'
    BY <1>6 DEF Status, ThreadsTyped, ListTyped
  <2>. QED BY <1>6, <2>1, StatusTyped
<1>7. CASE Receive
  BY <1>0, <1>7 DEF Receive, EngineTyped, ThreadsTyped, QueuesTyped, ListTyped
<1>8. CASE ReceivePost
  <2>1. MaxSent + received \in AllMsgs /\ cb.id \in Nat
    BY <1>0, <1>8
    DEF ReceivePost, AllMsgs, ReceivedMsgs, EngineTyped, ThreadsTyped
  <2>2. Note("incoming", cb.id, MaxSent + received) \in MsgNotes
    BY <2>1, NoteTyped
  <2>3. QueuesTyped' /\ EngineTyped' /\ ListTyped'
    BY <1>8, <2>1, <2>2 DEF ReceivePost, QueuesTyped, EngineTyped, ListTyped
  <2>4. ThreadsTyped'
    BY <1>8 DEF ReceivePost, ThreadsTyped, IdleCb
  <2>. QED BY <2>3, <2>4
<1>9. CASE Forward
  <2>1. Head(mainQ) \in MsgNotes /\ Tail(mainQ) \in Seq(MsgNotes)
    BY <1>9 DEF Forward, QueuesTyped
  <2>. QED BY <1>9, <2>1 DEF Forward, EngineTyped, ThreadsTyped, QueuesTyped, ListTyped
<1>10. CASE Dart
  <2>1. EngineTyped' /\ ThreadsTyped'
    BY <1>10 DEF Dart, EngineTyped, ThreadsTyped
  <2>. QED BY <1>10, <2>1, DartTyped
<1>11. CASE RemoveMessage
  <2>1. PICK k \in DOMAIN list : list' = RemoveAt(list, k)
    BY <1>11 DEF RemoveMessage
  <2>2. list' \in Seq(MsgItems) /\ Len(list') = Len(list) - 1
    BY <2>1, RemoveAtType DEF ListTyped
  <2>3. ListTyped'
    BY <2>2, MessagesAssumption DEF ListTyped
  <2>. QED BY <1>11, <2>3 DEF RemoveMessage, EngineTyped, ThreadsTyped, QueuesTyped
<1>12. CASE UNCHANGED mvars
  BY <1>12 DEF mvars, EngineTyped, ThreadsTyped, QueuesTyped, ListTyped
<1>. QED BY <1>1, <1>2, <1>3, <1>4, <1>5, <1>6, <1>7, <1>8, <1>9, <1>10, <1>11, <1>12
         DEF MsgNext, Worker

(* Numbers, queues and list have their types, and the list its length.     *)
THEOREM MessagesTyped == MsgSafe => []MsgTypeOK
<1>1. MsgTyped => MsgTypeOK
  <2>1. Seq(MsgNotes) \subseteq Seq(Notes)
    BY DEF MsgNotes
  <2>. QED BY <2>1
           DEF MsgTyped, EngineTyped, ThreadsTyped, QueuesTyped, ListTyped, MsgTypeOK, MsgItems
<1>. QED BY <1>1, TypesBegin, TypesKeep, PTL DEF MsgSafe

-----------------------------------------------------------------------------
(* Numbers.                                                                *)

LEMMA NumbersBegin == MsgInit => NumbersInv
<1>. SUFFICES ASSUME MsgInit PROVE NumbersInv
  OBVIOUS
<1>1. /\ pendingMsgIds = <<>> /\ tx = <<>> /\ nextMsgId = 1
      /\ mainQ = <<>> /\ dartQ = <<>> /\ list = <<>>
      /\ wk.pc = "idle" /\ cb.pc = "idle"
  BY DEF MsgInit, IdleWk, IdleCb
<1>2. Claims = {} /\ IncomingIds = {}
  BY <1>1 DEF Claims, QueueClaims, NoteClaims, ListClaims, WorkerClaims, IncomingIds, ToSet
<1>. QED BY <1>1, <1>2 DEF NumbersInv, Aligned, ClaimsAgree, Fresh, Distinct

(* A step that gives no number out leaves the numbers as they are.         *)
LEMMA ClaimsKept ==
  ASSUME NumbersInv, Claims' \subseteq Claims, IncomingIds' \subseteq IncomingIds,
         nextMsgId' = nextMsgId, cb' = cb, wk' = wk \/ "bump" \notin {wk.pc, wk'.pc}
  PROVE  ClaimsAgree' /\ Fresh' /\ Distinct'
  BY DEF NumbersInv, ClaimsAgree, Fresh, Distinct

(* Notes that are added to a queue, or leave it.                           *)
LEMMA NotesAppend ==
  ASSUME NEW q \in Seq(MsgNotes), NEW e \in MsgNotes
  PROVE  NoteClaims(Append(q, e)) =
           NoteClaims(q) \cup (IF e.kind = "incoming" THEN {} ELSE {<<e.id, e.of>>})
  BY SetOfAppend DEF NoteClaims

LEMMA NotesTail ==
  ASSUME NEW q \in Seq(MsgNotes), q # <<>>
  PROVE  /\ NoteClaims(Tail(q)) \subseteq NoteClaims(q)
         /\ Head(q).kind # "incoming" => <<Head(q).id, Head(q).of>> \in NoteClaims(q)
  BY SetOfTail DEF NoteClaims

(* messageSend: only the number that ReadId takes is new.                  *)
LEMMA WorkerNumbers ==
  ASSUME AsExpected, MsgTyped, NumbersInv, Send \/ Worker
  PROVE  NumbersInv'
<1>. USE DEF MsgTyped, EngineTyped, ThreadsTyped, QueuesTyped
<1>0. IncomingIds' = IncomingIds /\ ListClaims' = ListClaims
  <2>1. CASE SendReply
    <3>1. Note("sent", wk.id, wk.msg) \in MsgNotes /\ Note("sent", wk.id, wk.msg).kind = "sent"
      BY <2>1, NoteTyped DEF SendReply, Note
    <3>2. ToSet(dartQ)' = ToSet(dartQ) \cup {Note("sent", wk.id, wk.msg)}
      BY <2>1, <3>1, SetOfAppend DEF SendReply
    <3>. QED BY <2>1, <3>1, <3>2 DEF SendReply, IncomingIds, ListClaims
  <2>2. CASE ~SendReply
    BY <2>2 DEF Worker, Send, SendFails, Transmit, ReadId, BumpId, AddPending, IncomingIds,
                ListClaims
  <2>. QED BY <2>1, <2>2
<1>1. CASE Send \/ SendFails
  <2>1. Claims' = Claims /\ Aligned'
    BY SMTT(30), <1>1
    DEF Send, SendFails, IdleWk, Claims, QueueClaims, NoteClaims, ListClaims, WorkerClaims,
        NumbersInv, Aligned
  <2>. QED BY <1>0, <1>1, <2>1, ClaimsKept DEF Send, SendFails, IdleWk, NumbersInv
<1>2. CASE Transmit
  <2>1. /\ tx' = Append(tx, wk.msg) /\ wk.msg \in SentMsgs /\ Len(tx) = Len(pendingMsgIds)
        /\ wk.pc = "start" /\ wk'.pc = "read" /\ wk'.msg = wk.msg
    BY <1>2 DEF Transmit, NumbersInv, Aligned
  <2>2. Aligned'
    BY <1>2, <2>1 DEF Transmit, Aligned
  <2>3. \A k \in DOMAIN pendingMsgIds : tx'[k] = tx[k]
    BY <2>1
  <2>4. Claims' = Claims
    BY <1>2, <2>1, <2>3
    DEF Transmit, Claims, QueueClaims, NoteClaims, ListClaims, WorkerClaims
  <2>. QED BY <1>0, <1>2, <2>1, <2>2, <2>4, ClaimsKept DEF Transmit, NumbersInv
<1>3. CASE ReadId
  <2>1. /\ wk.pc = "read" /\ wk'.pc = "bump" /\ wk'.msg = wk.msg /\ wk'.id = nextMsgId
        /\ nextMsgId' = nextMsgId /\ cb' = cb /\ cb.pc = "idle"
        /\ tx' = tx /\ pendingMsgIds' = pendingMsgIds
    BY <1>3 DEF ReadId, AsExpected
  <2>2. Aligned'
    BY <2>1 DEF NumbersInv, Aligned
  <2>3. Claims' = Claims \cup {<<nextMsgId, wk.msg>>}
    BY <1>3, <2>1 DEF ReadId, Claims, QueueClaims, NoteClaims, ListClaims, WorkerClaims
  <2>. QED BY <1>0, <2>1, <2>2, <2>3 DEF NumbersInv, ClaimsAgree, Fresh, Distinct
<1>4. CASE BumpId
  <2>1. /\ wk.pc = "bump" /\ wk'.pc = "add" /\ wk'.msg = wk.msg /\ wk'.id = wk.id
        /\ nextMsgId' = wk.id + 1 /\ cb' = cb
        /\ tx' = tx /\ pendingMsgIds' = pendingMsgIds
    BY <1>4 DEF BumpId
  <2>2. Aligned'
    BY <2>1 DEF NumbersInv, Aligned
  <2>3. Claims' = Claims
    BY <1>4, <2>1 DEF BumpId, Claims, QueueClaims, NoteClaims, ListClaims, WorkerClaims
  <2>4. Fresh'
    BY <1>0, <2>1, <2>3 DEF NumbersInv, Fresh
  <2>. QED BY <1>0, <2>1, <2>2, <2>3, <2>4 DEF NumbersInv, ClaimsAgree, Distinct
<1>5. CASE AddPending
  <2>1. /\ wk.pc = "add" /\ wk'.pc = "reply" /\ wk'.msg = wk.msg /\ wk'.id = wk.id
        /\ pendingMsgIds' = Append(pendingMsgIds, wk.id) /\ tx' = tx
        /\ Len(tx) = Len(pendingMsgIds) + 1 /\ tx[Len(pendingMsgIds) + 1] = wk.msg
    BY <1>5 DEF AddPending, NumbersInv, Aligned
  <2>2. Aligned'
    BY <1>5, <2>1 DEF Aligned
  <2>3. /\ DOMAIN pendingMsgIds' = DOMAIN pendingMsgIds \cup {Len(pendingMsgIds) + 1}
        /\ pendingMsgIds'[Len(pendingMsgIds) + 1] = wk.id
        /\ \A k \in DOMAIN pendingMsgIds : pendingMsgIds'[k] = pendingMsgIds[k]
    BY <2>1
  <2>4. QueueClaims' = QueueClaims \cup {<<wk.id, wk.msg>>}
    BY <2>1, <2>3 DEF QueueClaims
  <2>5. Claims' = Claims
    BY <1>5, <2>1, <2>4 DEF AddPending, Claims, NoteClaims, ListClaims, WorkerClaims
  <2>. QED BY <1>0, <1>5, <2>1, <2>2, <2>5, ClaimsKept DEF AddPending, NumbersInv
<1>6. CASE SendReply
  <2>. DEFINE e == Note("sent", wk.id, wk.msg)
  <2>1. /\ wk.pc = "reply" /\ wk'.pc = "idle" /\ dartQ' = Append(dartQ, e)
        /\ e \in MsgNotes /\ e.kind = "sent" /\ e.id = wk.id /\ e.of = wk.msg
    BY <1>6, NoteTyped DEF SendReply, IdleWk, Note
  <2>. HIDE DEF e
  <2>2. Aligned'
    BY <1>6, <2>1 DEF SendReply, NumbersInv, Aligned
  <2>3. NoteClaims(Append(dartQ, e)) = NoteClaims(dartQ) \cup {<<wk.id, wk.msg>>}
    BY <2>1, NotesAppend
  <2>4. Claims' = Claims
    BY ZenonT(40), <1>6, <2>1, <2>3
    DEF SendReply, Claims, QueueClaims, NoteClaims, ListClaims, WorkerClaims
  <2>. QED BY <1>0, <1>6, <2>1, <2>2, <2>4, ClaimsKept DEF SendReply, NumbersInv
<1>. QED BY <1>1, <1>2, <1>3, <1>4, <1>5, <1>6 DEF Worker

(* The oldest outcome goes to the oldest number: PJSIP reports in order,   *)
(* and not before the number is queued.                                    *)
LEMMA StatusNumbers ==
  ASSUME AsExpected, MsgTyped, NumbersInv, Status
  PROVE  NumbersInv'
<1>. USE DEF MsgTyped, EngineTyped, QueuesTyped
<1>1. /\ 1 \in DOMAIN tx /\ tx' = RemoveAt(tx, 1) /\ tx[1] # wk.msg
      /\ \/ pendingMsgIds = <<>>
         \/ /\ pendingMsgIds # <<>> /\ pendingMsgIds' = Tail(pendingMsgIds)
            /\ mainQ' = Append(mainQ, Note("status", Head(pendingMsgIds), tx[1]))
  BY DEF Status, AsExpected
<1>2. pendingMsgIds # <<>>
  <2>1. ASSUME pendingMsgIds = <<>> PROVE FALSE
    BY <1>1, <2>1 DEF NumbersInv, Aligned
  <2>. QED BY <2>1
<1>. DEFINE e == Note("status", Head(pendingMsgIds), tx[1])
<1>3. /\ e \in MsgNotes /\ e.kind = "status"
      /\ e.id = pendingMsgIds[1] /\ e.of = tx[1] /\ 1 \in DOMAIN pendingMsgIds
  <2>1. Head(pendingMsgIds) \in Nat /\ Head(pendingMsgIds) = pendingMsgIds[1]
        /\ 1 \in DOMAIN pendingMsgIds
    BY <1>2
  <2>2. tx[1] \in SentMsgs
    BY <1>1
  <2>. QED BY <2>1, <2>2, NoteTyped DEF Note
<1>4. mainQ' = Append(mainQ, e) /\ pendingMsgIds' = Tail(pendingMsgIds)
  BY <1>1, <1>2
<1>. HIDE DEF e
<1>5. /\ Len(tx') = Len(tx) - 1 /\ tx' \in Seq(SentMsgs)
      /\ \A k \in 1..(Len(tx) - 1) : tx'[k] = tx[k + 1]
  <2>1. /\ Len(tx') = Len(tx) - 1 /\ tx' \in Seq(SentMsgs)
        /\ \A k \in 1..(Len(tx) - 1) : tx'[k] = IF k < 1 THEN tx[k] ELSE tx[k + 1]
    BY <1>1, RemoveAtType
  <2>2. \A k \in 1..(Len(tx) - 1) : ~(k < 1)
    OBVIOUS
  <2>. QED BY <2>1, <2>2
<1>6. /\ Len(pendingMsgIds') = Len(pendingMsgIds) - 1
      /\ DOMAIN pendingMsgIds' = 1..(Len(pendingMsgIds) - 1)
      /\ \A k \in 1..(Len(pendingMsgIds) - 1) : pendingMsgIds'[k] = pendingMsgIds[k + 1]
      /\ Len(pendingMsgIds) \in Nat /\ Len(pendingMsgIds) > 0 /\ Len(tx) \in Nat
      /\ DOMAIN pendingMsgIds = 1..Len(pendingMsgIds)
  BY <1>2, <1>4
<1>7. wk' = wk /\ Len(tx) >= Len(pendingMsgIds)
  BY <1>6 DEF Status, NumbersInv, Aligned
<1>8. Aligned'
  <2>1. CASE wk.pc \in {"read", "bump", "add"}
    <3>1. Len(tx) = Len(pendingMsgIds) + 1 /\ tx[Len(tx)] = wk.msg
      BY <2>1 DEF NumbersInv, Aligned
    <3>2. Len(tx) - 1 \in 1..(Len(tx) - 1) /\ (Len(tx) - 1) + 1 = Len(tx)
      BY <1>6, <3>1
    <3>3. tx'[Len(tx')] = wk.msg
      BY <1>5, <3>1, <3>2
    <3>. QED BY <1>5, <1>6, <1>7, <2>1, <3>1, <3>3 DEF Aligned
  <2>2. CASE wk.pc \notin {"read", "bump", "add"}
    BY <1>5, <1>6, <1>7, <2>2 DEF NumbersInv, Aligned
  <2>. QED BY <2>1, <2>2
<1>9. QueueClaims' \subseteq QueueClaims
  <2>1. ASSUME NEW k \in 1..(Len(pendingMsgIds) - 1)
        PROVE  /\ k + 1 \in DOMAIN pendingMsgIds
               /\ pendingMsgIds'[k] = pendingMsgIds[k + 1] /\ tx'[k] = tx[k + 1]
    <3>1. k \in 1..(Len(tx) - 1) /\ k + 1 \in 1..Len(pendingMsgIds)
      BY <1>6, <1>7
    <3>. QED BY <1>5, <1>6, <3>1
  <2>. QED BY <1>6, <2>1 DEF QueueClaims
<1>10. /\ NoteClaims(Append(mainQ, e)) \subseteq NoteClaims(mainQ) \cup {<<e.id, e.of>>}
       /\ <<e.id, e.of>> \in QueueClaims
  BY <1>3, NotesAppend DEF QueueClaims
<1>11. Claims' \subseteq Claims
  BY <1>4, <1>7, <1>9, <1>10
  DEF Status, Claims, NoteClaims, ListClaims, WorkerClaims
<1>12. IncomingIds' \subseteq IncomingIds
  <2>1. ToSet(mainQ)' = ToSet(mainQ) \cup {e}
    BY <1>3, <1>4, SetOfAppend
  <2>. QED BY <1>3, <2>1 DEF Status, IncomingIds
<1>. QED BY <1>7, <1>8, <1>11, <1>12, ClaimsKept DEF Status, NumbersInv

(* A received message takes a number that no other has.                    *)
LEMMA ReceiveNumbers ==
  ASSUME AsExpected, MsgTyped, NumbersInv, Receive \/ ReceivePost
  PROVE  NumbersInv'
<1>. USE DEF MsgTyped, EngineTyped, ThreadsTyped, QueuesTyped
<1>1. CASE Receive
  <2>1. Claims' = Claims /\ IncomingIds' = IncomingIds /\ Aligned'
    BY <1>1
    DEF Receive, Claims, QueueClaims, NoteClaims, ListClaims, WorkerClaims, IncomingIds,
        NumbersInv, Aligned
  <2>. QED BY <1>1, <2>1
           DEF Receive, AsExpected, NumbersInv, ClaimsAgree, Fresh, Distinct
<1>2. CASE ReceivePost
  <2>. DEFINE e == Note("incoming", cb.id, MaxSent + received)
  <2>1. e \in MsgNotes /\ e.kind = "incoming" /\ e.id = cb.id
    <3>1. MaxSent + received \in AllMsgs /\ cb.id \in Nat
      BY <1>2, MessagesAssumption DEF ReceivePost, AllMsgs, ReceivedMsgs
    <3>. QED BY <3>1, NoteTyped DEF Note
  <2>2. /\ mainQ' = Append(mainQ, e) /\ cb'.pc = "idle" /\ cb.pc = "bump"
        /\ nextMsgId' = nextMsgId + 1 /\ cb.id = nextMsgId /\ wk.pc # "bump"
        /\ wk' = wk /\ tx' = tx /\ pendingMsgIds' = pendingMsgIds /\ dartQ' = dartQ
        /\ list' = list
    BY <1>2 DEF ReceivePost, IdleCb, NumbersInv, Fresh
  <2>. HIDE DEF e
  <2>3. NoteClaims(Append(mainQ, e)) = NoteClaims(mainQ)
    BY ZenonT(40), <2>1, NotesAppend
  <2>4. Claims' = Claims /\ Aligned'
    BY <2>2, <2>3
    DEF Claims, QueueClaims, NoteClaims, ListClaims, WorkerClaims, NumbersInv, Aligned
  <2>5. ToSet(mainQ)' = ToSet(mainQ) \cup {e}
    BY <2>1, <2>2, SetOfAppend
  <2>6. IncomingIds' = IncomingIds \cup {nextMsgId}
    BY <2>1, <2>2, <2>5 DEF IncomingIds
  <2>7. Fresh'
    BY <2>2, <2>4, <2>6 DEF NumbersInv, Fresh
  <2>. QED BY <2>2, <2>4, <2>6, <2>7 DEF NumbersInv, ClaimsAgree, Fresh, Distinct
<1>. QED BY <1>1, <1>2

LEMMA ForwardNumbers ==
  ASSUME MsgTyped, NumbersInv, Forward
  PROVE  NumbersInv'
<1>. USE DEF MsgTyped, QueuesTyped
<1>. DEFINE e == Head(mainQ)
<1>1. mainQ # <<>> /\ e \in MsgNotes /\ mainQ' = Tail(mainQ) /\ dartQ' = Append(dartQ, e)
  BY DEF Forward
<1>2. /\ NoteClaims(Tail(mainQ)) \subseteq NoteClaims(mainQ)
      /\ e.kind # "incoming" => <<e.id, e.of>> \in NoteClaims(mainQ)
      /\ e \in ToSet(mainQ) /\ ToSet(Tail(mainQ)) \subseteq ToSet(mainQ)
  BY <1>1, NotesTail, SetOfTail
<1>. HIDE DEF e
<1>3. /\ NoteClaims(Append(dartQ, e)) =
           NoteClaims(dartQ) \cup (IF e.kind = "incoming" THEN {} ELSE {<<e.id, e.of>>})
      /\ ToSet(Append(dartQ, e)) = ToSet(dartQ) \cup {e}
  BY <1>1, NotesAppend, SetOfAppend
<1>4. Claims' \subseteq Claims
  BY <1>1, <1>2, <1>3
  DEF Forward, Claims, QueueClaims, NoteClaims, ListClaims, WorkerClaims
<1>5. IncomingIds' \subseteq IncomingIds
  <2>1. ToSet(mainQ)' \cup ToSet(dartQ)' \subseteq ToSet(mainQ) \cup ToSet(dartQ)
    BY <1>1, <1>2, <1>3
  <2>. QED BY <2>1 DEF IncomingIds
<1>6. Aligned'
  BY DEF Forward, NumbersInv, Aligned
<1>. QED BY <1>4, <1>5, <1>6, ClaimsKept DEF Forward, NumbersInv

-----------------------------------------------------------------------------
(* The list.                                                               *)

LEMMA AddedItems ==
  ASSUME ListTyped, NEW item \in MsgItems, Added(item)
  PROVE  ToSet(list)' \subseteq ToSet(list) \cup {item}
<1>1. list \in Seq(MsgItems) /\ MaxItems > 0
  BY MessagesAssumption DEF ListTyped
<1>2. CASE Len(list) = MaxItems
  <2>. DEFINE t == Tail(list)
  <2>1. list # <<>> /\ t \in Seq(MsgItems) /\ list' = Append(t, item)
    BY <1>1, <1>2 DEF Added
  <2>2. ToSet(t) \subseteq ToSet(list)
    BY <1>1, <2>1, SetOfTail
  <2>. HIDE DEF t
  <2>3. ToSet(Append(t, item)) = ToSet(t) \cup {item}
    BY <2>1, SetOfAppend
  <2>. QED BY <2>1, <2>2, <2>3
<1>3. CASE Len(list) # MaxItems
  <2>1. list' = Append(list, item)
    BY <1>3 DEF Added
  <2>. QED BY <1>1, <2>1, SetOfAppend
<1>. QED BY <1>2, <1>3

(* What Dart does with a note: an item of the new list is an old one, the  *)
(* one of the note, or an old one with the outcome the note brings.        *)
LEMMA DartItems ==
  ASSUME MsgTyped, Dart, NEW x \in ToSet(list)'
  PROVE  LET m == Head(dartQ) IN
         \/ x \in ToSet(list)
         \/ x.got = NoMsg /\ x.id = 0
         \/ x.got = NoMsg /\ m.kind # "incoming" /\ x.id = m.id /\ x.of = m.of
         \/ \E y \in ToSet(list) : /\ x.id = y.id /\ x.of = y.of /\ y.id = m.id
                                  /\ m.kind # "incoming" /\ x.got = m.of
<1>. DEFINE m == Head(dartQ)
<1>0. ListTyped /\ m \in MsgNotes
  BY DEF MsgTyped, QueuesTyped, Dart
<1>1. m.id \in Nat /\ m.of \in AllMsgs
  BY <1>0 DEF MsgNotes, Notes
<1>2. \/ m.kind = "sent" /\ OnSent(m)
      \/ m.kind = "status" /\ OnMessageSentState(m)
      \/ m.kind = "incoming" /\ OnMessageIncoming(m)
  BY DEF Dart
<1>. HIDE DEF m
<1>3. CASE m.kind = "sent" /\ OnSent(m)
  <2>. DEFINE item == [id |-> m.id, of |-> m.of, got |-> NoMsg]
  <2>1. item \in MsgItems /\ Added(item)
    BY <1>1, <1>3 DEF MsgItems, OnSent
  <2>2. x \in ToSet(list) \cup {item}
    BY <1>0, <2>1, AddedItems
  <2>. QED BY <1>3, <2>2 DEF m
<1>4. CASE m.kind = "status" /\ OnMessageSentState(m)
  <2>1. PICK k \in DOMAIN list : x = list'[k]
    BY <1>4 DEF ToSet, OnMessageSentState
  <2>2. list[k] \in ToSet(list) /\ list[k] \in MsgItems
    BY <1>0 DEF ToSet, ListTyped
  <2>3. \/ x = list[k]
        \/ list[k].id = m.id /\ x = [list[k] EXCEPT !.got = m.of]
    BY <1>4, <2>1 DEF OnMessageSentState
  <2>4. CASE x = list[k]
    BY <2>2, <2>4
  <2>5. CASE list[k].id = m.id /\ x = [list[k] EXCEPT !.got = m.of]
    <3>1. x.id = list[k].id /\ x.of = list[k].of /\ x.got = m.of
      BY <2>2, <2>5 DEF MsgItems
    <3>. QED BY <1>4, <2>2, <2>5, <3>1 DEF m
  <2>. QED BY <2>3, <2>4, <2>5
<1>5. CASE m.kind = "incoming" /\ OnMessageIncoming(m)
  <2>. DEFINE item == [id |-> 0, of |-> m.of, got |-> NoMsg]
  <2>1. item \in MsgItems
    BY <1>1 DEF MsgItems
  <2>2. UNCHANGED list \/ Added(item)
    BY <1>5 DEF OnMessageIncoming
  <2>3. x \in ToSet(list) \cup {item}
    BY <1>0, <2>1, <2>2, AddedItems
  <2>4. item.got = NoMsg /\ item.id = 0
    OBVIOUS
  <2>. HIDE DEF item
  <2>5. CASE x = item
    <3>1. x.got = NoMsg /\ x.id = 0
      BY <2>4, <2>5
    <3>. QED BY <3>1
  <2>6. CASE x \in ToSet(list)
    BY <2>6
  <2>. QED BY <2>3, <2>5, <2>6
<1>. QED BY <1>2, <1>3, <1>4, <1>5

LEMMA DartNumbers ==
  ASSUME MsgTyped, NumbersInv, Dart
  PROVE  NumbersInv'
<1>. DEFINE m == Head(dartQ)
<1>1. /\ dartQ # <<>> /\ dartQ' = Tail(dartQ) /\ dartQ \in Seq(MsgNotes)
  BY DEF Dart, MsgTyped, QueuesTyped
<1>2. /\ NoteClaims(Tail(dartQ)) \subseteq NoteClaims(dartQ)
      /\ m.kind # "incoming" => <<m.id, m.of>> \in NoteClaims(dartQ)
      /\ ToSet(Tail(dartQ)) \subseteq ToSet(dartQ)
  BY <1>1, NotesTail, SetOfTail
<1>3. ListClaims' \subseteq ListClaims \cup NoteClaims(dartQ)
  <2>1. ASSUME NEW x \in ToSet(list)', x.id # 0
        PROVE  <<x.id, x.of>> \in ListClaims \cup NoteClaims(dartQ)
    BY <1>2, <2>1, DartItems DEF ListClaims
  <2>. QED BY <2>1 DEF ListClaims
<1>4. Claims' \subseteq Claims
  BY <1>1, <1>2, <1>3 DEF Dart, Claims, QueueClaims, NoteClaims, WorkerClaims
<1>5. IncomingIds' \subseteq IncomingIds
  BY <1>1, <1>2 DEF Dart, IncomingIds
<1>6. Aligned'
  BY DEF Dart, NumbersInv, Aligned
<1>. QED BY <1>4, <1>5, <1>6, ClaimsKept DEF Dart, NumbersInv

LEMMA RemoveNumbers ==
  ASSUME MsgTyped, NumbersInv, RemoveMessage
  PROVE  NumbersInv' /\ ToSet(list)' \subseteq ToSet(list)
<1>1. ToSet(list)' \subseteq ToSet(list)
  <2>1. PICK k \in DOMAIN list : list' = RemoveAt(list, k)
    BY DEF RemoveMessage
  <2>. QED BY <2>1, SetOfRemoveAt DEF MsgTyped, ListTyped
<1>2. Claims' \subseteq Claims /\ IncomingIds' \subseteq IncomingIds /\ Aligned'
  BY <1>1
  DEF RemoveMessage, Claims, QueueClaims, NoteClaims, ListClaims, WorkerClaims, IncomingIds,
      NumbersInv, Aligned
<1>. QED BY <1>1, <1>2, ClaimsKept DEF RemoveMessage, NumbersInv

LEMMA NumbersKeep ==
  ASSUME AsExpected, MsgTyped, NumbersInv, [MsgNext]_mvars
  PROVE  NumbersInv'
<1>1. CASE UNCHANGED mvars
  <2>1. Claims' = Claims /\ IncomingIds' = IncomingIds /\ Aligned'
    BY <1>1
    DEF mvars, Claims, QueueClaims, NoteClaims, ListClaims, WorkerClaims, IncomingIds,
        NumbersInv, Aligned
  <2>. QED BY <1>1, <2>1, ClaimsKept DEF mvars, NumbersInv
<1>. QED BY <1>1, WorkerNumbers, StatusNumbers, ReceiveNumbers, ForwardNumbers, DartNumbers,
            RemoveNumbers DEF MsgNext

LEMMA NumbersHold == AsExpected /\ MsgSafe => [](MsgTyped /\ NumbersInv)
<1>1. AsExpected /\ MsgTyped /\ NumbersInv /\ [MsgNext]_mvars => (MsgTyped /\ NumbersInv)'
  BY TypesKeep, NumbersKeep
<1>2. AsExpected => []AsExpected
  BY DEF AsExpected, PTL
<1>. QED BY <1>1, <1>2, TypesBegin, NumbersBegin, PTL DEF MsgSafe

(* The outcome shown for a message is its own, whatever is received, shown *)
(* and deleted while it is under way.                                      *)
THEOREM OutcomesTheirOwn == InOrder /\ ~FastPeer /\ ~Overlap /\ MsgSafe => []OwnStatus
<1>1. MsgInit => OwnStatus
  BY DEF MsgInit, OwnStatus
<1>2. ASSUME MsgTyped, NumbersInv, OwnStatus, [MsgNext]_mvars PROVE OwnStatus'
  <2>1. \A x \in ToSet(list) : x.got # NoMsg => x.got = x.of
    BY <1>2 DEF OwnStatus, ToSet
  <2>2. ASSUME NEW x \in ToSet(list)', x.got # NoMsg PROVE x.got = x.of
    <3>1. CASE ToSet(list)' \subseteq ToSet(list)
      BY <2>1, <2>2, <3>1
    <3>2. CASE Dart
      <4>. DEFINE m == Head(dartQ)
      <4>1. dartQ # <<>> /\ dartQ \in Seq(MsgNotes)
        BY <1>2, <3>2 DEF Dart, MsgTyped, QueuesTyped
      <4>2. m.kind # "incoming" => <<m.id, m.of>> \in Claims
        BY <4>1, NotesTail DEF Claims
      <4>3. ASSUME NEW y \in ToSet(list), x.id = y.id, x.of = y.of, y.id = m.id,
                  m.kind # "incoming", x.got = m.of
            PROVE  x.got = x.of
        <5>1. m.id # 0
          BY <1>2, <4>2, <4>3 DEF NumbersInv, Fresh
        <5>2. <<y.id, y.of>> \in Claims
          BY <4>3, <5>1 DEF Claims, ListClaims
        <5>3. \A p, q \in Claims : p[1] = q[1] => p[2] = q[2]
          BY <1>2 DEF NumbersInv, ClaimsAgree
        <5>4. y.of = m.of
          BY <4>2, <4>3, <5>2, <5>3
        <5>. QED BY <4>3, <5>4
      <4>. QED BY <1>2, <2>1, <2>2, <3>2, <4>3, DartItems
    <3>3. Dart \/ ToSet(list)' \subseteq ToSet(list)
      <4>1. CASE RemoveMessage
        BY <1>2, <4>1, RemoveNumbers
      <4>2. CASE ~(Dart \/ RemoveMessage)
        BY <1>2, <4>2
        DEF MsgNext, Send, Worker, SendFails, Transmit, ReadId, BumpId, AddPending,
            SendReply, Status, Receive, ReceivePost, Forward, mvars
      <4>. QED BY <4>1, <4>2
    <3>. QED BY <3>1, <3>2, <3>3
  <2>. QED BY <2>2 DEF OwnStatus, ToSet
<1>3. AsExpected <=> InOrder /\ ~FastPeer /\ ~Overlap
  BY DEF AsExpected
<1>. QED BY <1>1, <1>2, <1>3, NumbersHold, PTL DEF MsgSafe
=============================================================================
