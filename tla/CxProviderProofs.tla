-------------------------- MODULE CxProviderProofs --------------------------
(***************************************************************************)
(* Proofs about CallKit on iOS, for any calls and any order in which       *)
(* pushes, INVITEs, actions of CallKit and messages of Flutter are taken:  *)
(* a CallKit call is matched with the SIP call it announces, and declining *)
(* it stands.                                                              *)
(***************************************************************************)
EXTENDS CxProvider, TLAPS

-----------------------------------------------------------------------------
(* Types.                                                                  *)

Dialogs == {"none", "ringing", "accepted", "up", "gone"}
Screens == {"none", "ringing", "answered", "over"}
CxModel == [id: MaybeCall, incoming: BOOLEAN, connected: BOOLEAN,
            answered: BOOLEAN, rejected: BOOLEAN, endedLocal: BOOLEAN,
            end: {"none", "open", "failed"}]
Matcher == [known: BOOLEAN, uuid: MaybeCall, id: MaybeCall]

KitTypes ==
  /\ dialog \in [KitCalls -> Dialogs] /\ cxShown \in [KitCalls -> Screens]
  /\ callsList \subseteq {c \in KitCalls : cxShown[c] # "none"}
  /\ cx \in [KitCalls -> CxModel]
  /\ looper \in Seq(Items) /\ cxQ \in Seq(Items)
  /\ toFlutter \in Seq(Items) /\ toNative \in Seq(Items)
  /\ matchers \in [MaybeCall -> Matcher]

-----------------------------------------------------------------------------
(* The invariant.                                                          *)

Held(q) == {q[i] : i \in DOMAIN q}

Shown(c) == cxShown[c] # "none"

(* What a message says is so, and stays so.                                *)
Sound(m) ==
  /\ m.call \in KitCalls
  /\ m.kind \in {"incoming", "header"} => dialog[m.call] # "none"
  /\ m.kind = "terminated" => dialog[m.call] = "gone"
  /\ m.kind = "push" => Shown(m.call)
  /\ m.kind \in {"header", "update"} => m.id \in {m.call, NoCall}
  /\ m.kind = "update" /\ m.id # NoCall => dialog[m.id] # "none"

Messages == Held(looper) \cup Held(toFlutter) \cup Held(toNative)

(* A hint brings a push and an INVITE of the same call together, and no    *)
(* push has been seen without a hint.                                      *)
MatcherOK(h) ==
  LET m == matchers[h] IN
  /\ m.uuid \in {h, NoCall} /\ m.id \in {h, NoCall}
  /\ m.known <=> m.uuid = h \/ m.id = h
  /\ m.uuid = h => Shown(h)
  /\ m.id = h => dialog[h] # "none"

CxOK(u) ==
  /\ cx[u].id \in {u, NoCall}
  /\ ~cx[u].incoming => cx[u].id = u
  /\ cx[u].id = u => dialog[u] # "none"
  /\ cx[u].id = u /\ cx[u].rejected => dialog[u] = "gone"
  /\ ~Shown(u) => cx[u].incoming /\ cx[u].id = NoCall
  /\ u \in callsList /\ cx[u].answered => cx[u].id = NoCall \/ cx[u].rejected

OwnInv ==
  /\ \A m \in Messages : Sound(m)
  /\ \A h \in KitCalls : MatcherOK(h)
  /\ matchers[NoCall].uuid = NoCall
  /\ \A u \in KitCalls : CxOK(u)

(* A CallKit call that waits for its SIP call: either its end or its match *)
(* is on the way to the provider, ...                                      *)
Waits(u)   == u \in callsList /\ dialog[u] # "gone" /\ cx[u].id # u
Settled(u) == \/ Item("endKit", u) \in Held(toNative)
              \/ ItemWith("update", u, u) \in Held(toNative)
(* ... or the app has its push, or will have it; ...                       *)
PushComes(u) == Item("push", u) \in Held(toFlutter)
(* ... and so with the INVITE of a live call.                              *)
InviteComes(u) == \/ Item("incoming", u) \in Held(looper) \cup Held(toFlutter)
                  \/ Item("header", u) \in Held(toNative)
                  \/ ItemWith("header", u, u) \in Held(toFlutter)

PushKnown   == \A u \in KitCalls : Waits(u) =>
                 PushComes(u) \/ matchers[u].uuid = u \/ Settled(u)
InviteKnown == \A u \in KitCalls : Live(u) /\ cx[u].incoming =>
                 InviteComes(u) \/ matchers[u].id = u
BothKnown   == \A u \in KitCalls :
                 Waits(u) /\ matchers[u].uuid = u /\ matchers[u].id = u => Settled(u)

MatchInv == OwnInv /\ PushKnown /\ InviteKnown /\ BothKnown

-----------------------------------------------------------------------------
(* Queues, as the sets of their messages.                                  *)

LEMMA HeldAppend ==
  ASSUME NEW S, NEW q \in Seq(S), NEW e \in S
  PROVE  Append(q, e) \in Seq(S) /\ Held(Append(q, e)) = Held(q) \cup {e}
<1>1. /\ Append(q, e) \in Seq(S)
      /\ \A k \in DOMAIN q : k \in DOMAIN Append(q, e) /\ Append(q, e)[k] = q[k]
      /\ Len(q) + 1 \in DOMAIN Append(q, e) /\ Append(q, e)[Len(q) + 1] = e
      /\ \A k \in DOMAIN Append(q, e) : k \in DOMAIN q \/ k = Len(q) + 1
  OBVIOUS
<1>. QED BY <1>1 DEF Held

LEMMA HeldTail ==
  ASSUME NEW S, NEW q \in Seq(S), q # <<>>
  PROVE  /\ Tail(q) \in Seq(S) /\ Head(q) \in S
         /\ Held(q) = Held(Tail(q)) \cup {Head(q)}
<1>1. /\ Tail(q) \in Seq(S) /\ Head(q) \in S
      /\ \A k \in DOMAIN q : k > 1 => k - 1 \in DOMAIN Tail(q) /\ Tail(q)[k - 1] = q[k]
      /\ \A k \in DOMAIN Tail(q) : k + 1 \in DOMAIN q /\ Tail(q)[k] = q[k + 1]
      /\ 1 \in DOMAIN q /\ Head(q) = q[1]
      /\ \A k \in DOMAIN q : k = 1 \/ k > 1
  OBVIOUS
<1>2. ASSUME NEW x \in Held(q) PROVE x \in Held(Tail(q)) \cup {Head(q)}
  <2>1. PICK k \in DOMAIN q : x = q[k]
    BY <1>2 DEF Held
  <2>2. k = 1 \/ k > 1
    BY <1>1
  <2>. QED BY <1>1, <2>1, <2>2 DEF Held
<1>3. Held(Tail(q)) \cup {Head(q)} \subseteq Held(q)
  BY <1>1 DEF Held
<1>. QED BY <1>1, <1>2, <1>3

LEMMA ItemOK ==
  ASSUME NEW kind \in {"incoming", "connected", "terminated", "answer", "end", "push",
                       "header", "update", "endKit"},
         NEW c \in MaybeCall, NEW d \in MaybeCall
  PROVE  /\ Item(kind, c) \in Items /\ ItemWith(kind, c, d) \in Items
         /\ Item(kind, c).kind = kind /\ Item(kind, c).call = c
         /\ Item(kind, c).id = NoCall
         /\ ItemWith(kind, c, d).kind = kind /\ ItemWith(kind, c, d).call = c
         /\ ItemWith(kind, c, d).id = d
  BY DEF Item, ItemWith, Items, MaybeCall

LEMMA ItemIs ==
  ASSUME NEW m \in Items
  PROVE  /\ m.call \in MaybeCall /\ m.id \in MaybeCall
         /\ m = ItemWith(m.kind, m.call, m.id)
         /\ m.id = NoCall => m = Item(m.kind, m.call)
  BY DEF Item, ItemWith, Items

-----------------------------------------------------------------------------
(* What answering and hanging up do.                                       *)

LEMMA AcceptEffect ==
  ASSUME KitTypes, NEW id, CallAccept(id)
  PROVE  /\ dialog' \in [KitCalls -> Dialogs]
         /\ \A c \in KitCalls :
              dialog'[c] = IF c = id /\ dialog[c] = "ringing" THEN "accepted" ELSE dialog[c]
  BY DEF KitTypes, CallAccept, Dialogs

LEMMA HangUpEffect ==
  ASSUME KitTypes, NEW id \in MaybeCall, HangUp(id)
  PROVE  /\ dialog' \in [KitCalls -> Dialogs]
         /\ \A c \in KitCalls :
              dialog'[c] = IF c = id /\ Live(c) THEN "gone" ELSE dialog[c]
         /\ looper' \in Seq(Items)
         /\ Held(looper) \subseteq Held(looper')
         /\ \A m \in Held(looper') \ Held(looper) :
              m = Item("terminated", id) /\ id \in KitCalls /\ dialog'[id] = "gone"
<1>1. CASE Live(id)
  <2>1. /\ id \in KitCalls
        /\ dialog' = [dialog EXCEPT ![id] = "gone"]
        /\ looper' = Append(looper, Item("terminated", id))
    BY <1>1 DEF HangUp, Live
  <2>2. /\ looper' \in Seq(Items)
        /\ Held(looper') = Held(looper) \cup {Item("terminated", id)}
    <3>1. Item("terminated", id) \in Items /\ looper \in Seq(Items)
      BY ItemOK DEF KitTypes
    <3>. HIDE DEF Item
    <3>. QED BY <2>1, <3>1, HeldAppend
  <2>. QED BY <1>1, <2>1, <2>2 DEF KitTypes, Dialogs
<1>2. CASE ~Live(id)
  BY <1>2 DEF HangUp, KitTypes
<1>. QED BY <1>1, <1>2

(* The CallModel of u is replaced, ids and flags as given.                 *)
Replaced(u, call, bye) ==
  /\ cx' \in [KitCalls -> CxModel]
  /\ \A v \in KitCalls : v # u => cx'[v] = cx[v]
  /\ cx'[u].id = call.id /\ cx'[u].incoming = call.incoming
  /\ cx'[u].rejected = call.rejected
  /\ cx'[u].answered = (call.answered /\ bye)

LEMMA ProceedAnswerEffect ==
  ASSUME KitTypes, NEW u \in KitCalls, NEW call \in CxModel, ProceedAnswer(u, call)
  PROVE  /\ Replaced(u, call, FALSE) /\ CallAccept(call.id) /\ looper' = looper
<1>1. PICK r \in CxModel : r = [call EXCEPT !.answered = FALSE]
  BY DEF CxModel
<1>2. /\ r.id = call.id /\ r.incoming = call.incoming /\ r.rejected = call.rejected
      /\ r.answered = FALSE
  BY <1>1 DEF CxModel
<1>3. cx' = [cx EXCEPT ![u] = r] /\ CallAccept(call.id) /\ looper' = looper
  BY <1>1 DEF ProceedAnswer
<1>. QED BY <1>2, <1>3 DEF Replaced, KitTypes

LEMMA ProceedEndEffect ==
  ASSUME KitTypes, NEW u \in KitCalls, NEW call \in CxModel, ProceedEnd(u, call)
  PROVE  Replaced(u, call, TRUE) /\ HangUp(call.id)
<1>. DEFINE bye == ~call.incoming \/ call.connected
            f == [call EXCEPT !.endedLocal = @ \/ bye,
                              !.end = IF Live(call.id) THEN "open" ELSE "failed"]
<1>1. f \in CxModel
  BY DEF CxModel
<1>2. /\ f.id = call.id /\ f.incoming = call.incoming /\ f.rejected = call.rejected
      /\ f.answered = call.answered
  BY DEF CxModel
<1>3. cx' = [cx EXCEPT ![u] = f] /\ HangUp(call.id)
  BY DEF ProceedEnd
<1>4. call.answered \in BOOLEAN
  BY DEF CxModel
<1>. HIDE DEF f
<1>5. /\ cx' \in [KitCalls -> CxModel] /\ cx'[u] = f
      /\ \A v \in KitCalls : v # u => cx'[v] = cx[v]
  BY <1>1, <1>3 DEF KitTypes
<1>. QED BY <1>2, <1>3, <1>4, <1>5 DEF Replaced

-----------------------------------------------------------------------------
(* A step without the app's matchers.                                      *)

(* What messages speak of only grows.                                      *)
Grows ==
  \A c \in KitCalls : /\ dialog[c] # "none" => dialog'[c] # "none"
                      /\ dialog[c] = "gone" => dialog'[c] = "gone"
                      /\ Shown(c) => Shown(c)'

LEMMA SoundStays ==
  ASSUME Grows, NEW m \in Items, Sound(m)
  PROVE  Sound(m)'
  BY DEF Grows, Sound

(* The CallModel of u stays as it is, or gets the id of u.                 *)
KeepsCx(u) ==
  /\ \/ cx'[u].incoming = cx[u].incoming
     \/ ~cx'[u].incoming /\ cx'[u].id = u
  /\ \/ /\ cx'[u].id = cx[u].id
        /\ cx'[u].rejected => cx[u].rejected \/ cx[u].id # u
     \/ /\ u \in callsList' /\ cx'[u].id = u /\ dialog'[u] # "none"
        /\ cx'[u].rejected => dialog'[u] = "gone"
  /\ u \in callsList' /\ cx'[u].answered => cx'[u].id = NoCall \/ cx'[u].rejected

(* What is on the way for u arrives, or is no longer needed.               *)
KeepsWay(u) ==
  /\ u \in callsList' =>
       \/ u \in callsList \/ cx'[u].id = u
       \/ PushComes(u)' /\ matchers[u].uuid # u
  /\ Live(u)' /\ cx'[u].incoming => Live(u) \/ InviteComes(u)'
  /\ Settled(u) => Settled(u)' \/ ~Waits(u)'
  /\ PushComes(u) => PushComes(u)'
  /\ InviteComes(u) /\ Live(u)' => InviteComes(u)'

Tells == \A m \in Messages' : m \in Messages \/ Sound(m)'

LEMMA MessageTypes ==
  ASSUME KitTypes
  PROVE  Messages \subseteq Items
<1>1. ASSUME NEW q \in Seq(Items) PROVE Held(q) \subseteq Items
  BY DEF Held
<1>. QED BY <1>1 DEF KitTypes, Messages

LEMMA Frame ==
  ASSUME KitTypes, KitTypes', MatchInv, Grows, Tells, matchers' = matchers,
         \A u \in KitCalls : KeepsCx(u) /\ KeepsWay(u)
  PROVE  MatchInv'
<1>1. \A m \in Messages' : Sound(m)'
  <2>. SUFFICES ASSUME NEW m \in Messages', m \in Messages PROVE Sound(m)'
    BY DEF Tells
  <2>1. m \in Items /\ Sound(m)
    BY MessageTypes DEF MatchInv, OwnInv
  <2>. QED BY <2>1, SoundStays
<1>2. ASSUME NEW h \in KitCalls PROVE MatcherOK(h)'
  <2>1. MatcherOK(h)
    BY DEF MatchInv, OwnInv
  <2>. QED BY <2>1 DEF MatcherOK, Grows
<1>3. ASSUME NEW u \in KitCalls PROVE CxOK(u)'
  <2>1. CxOK(u) /\ KeepsCx(u)
    BY DEF MatchInv, OwnInv
  <2>2. u \in callsList' => Shown(u)'
    BY DEF KitTypes, Shown
  <2>3. Shown(u) => Shown(u)'
    BY DEF Grows
  <2>4. /\ dialog[u] # "none" => dialog'[u] # "none"
        /\ dialog[u] = "gone" => dialog'[u] = "gone"
    BY DEF Grows
  <2>5. NoCall # u
    BY KitAssumption
  <2>. QED BY <2>1, <2>2, <2>3, <2>4, <2>5 DEF CxOK, KeepsCx
<1>4. OwnInv'
  BY <1>1, <1>2, <1>3 DEF OwnInv, MatchInv
<1>5. ASSUME NEW u \in KitCalls, Waits(u)'
      PROVE  Waits(u) \/ (PushComes(u)' /\ matchers[u].uuid # u)
  <2>1. KeepsCx(u) /\ KeepsWay(u)
    OBVIOUS
  <2>2. cx'[u].id = cx[u].id /\ dialog[u] # "gone"
    BY <1>5, <2>1 DEF Waits, KeepsCx, Grows
  <2>. QED BY <1>5, <2>1, <2>2 DEF Waits, KeepsWay
<1>6. PushKnown'
  <2>. SUFFICES ASSUME NEW u \in KitCalls, Waits(u)'
                PROVE  PushComes(u)' \/ (matchers[u].uuid = u)' \/ Settled(u)'
    BY DEF PushKnown
  <2>1. CASE Waits(u)
    <3>1. PushComes(u) \/ matchers[u].uuid = u \/ Settled(u)
      BY <2>1 DEF MatchInv, PushKnown
    <3>. QED BY <3>1 DEF KeepsWay
  <2>. QED BY <1>5, <2>1
<1>7. InviteKnown'
  <2>. SUFFICES ASSUME NEW u \in KitCalls, Live(u)', (cx[u].incoming)'
                PROVE  InviteComes(u)' \/ (matchers[u].id = u)'
    BY DEF InviteKnown
  <2>1. KeepsCx(u) /\ KeepsWay(u)
    OBVIOUS
  <2>2. cx[u].incoming /\ (Live(u) \/ InviteComes(u)')
    BY <2>1 DEF KeepsWay, KeepsCx
  <2>3. InviteComes(u)' \/ InviteComes(u) \/ matchers[u].id = u
    BY <2>2 DEF MatchInv, InviteKnown
  <2>. QED BY <2>1, <2>3 DEF KeepsWay
<1>8. BothKnown'
  <2>. SUFFICES ASSUME NEW u \in KitCalls, Waits(u)', (matchers[u].uuid = u)',
                       (matchers[u].id = u)'
                PROVE  Settled(u)'
    BY DEF BothKnown
  <2>1. Waits(u) /\ Settled(u)
    BY <1>5 DEF MatchInv, BothKnown
  <2>. QED BY <2>1 DEF KeepsWay
<1>. QED BY <1>4, <1>6, <1>7, <1>8 DEF MatchInv

LEMMA WayKept ==
  ASSUME NEW u \in KitCalls, Live(u)' => Live(u), callsList' \subseteq callsList,
         Held(looper) \subseteq Held(looper)',
         Held(toFlutter) \subseteq Held(toFlutter)',
         Held(toNative) \subseteq Held(toNative)'
  PROVE  KeepsWay(u)
<1>1. (Settled(u) => Settled(u)') /\ (PushComes(u) => PushComes(u)')
  BY DEF Settled, PushComes
<1>2. InviteComes(u) => InviteComes(u)'
  BY DEF InviteComes
<1>. QED BY <1>1, <1>2 DEF KeepsWay

LEMMA CxKept ==
  ASSUME KitTypes, MatchInv, NEW u \in KitCalls, cx' = cx, callsList' \subseteq callsList
  PROVE  KeepsCx(u)
  BY DEF KeepsCx, MatchInv, OwnInv, CxOK

LEMMA EstablishedKeeps ==
  ASSUME KitTypes, MatchInv, NEW c \in KitCalls, Established(c)
  PROVE  KitTypes' /\ MatchInv'
<1>1. /\ dialog[c] \in {"accepted", "ringing"}
      /\ dialog' = [dialog EXCEPT ![c] = "up"]
      /\ looper' = Append(looper, Item("connected", c))
      /\ cx' = cx /\ callsList' = callsList /\ cxShown' = cxShown /\ cxQ' = cxQ
      /\ toFlutter' = toFlutter /\ toNative' = toNative /\ matchers' = matchers
  BY DEF Established, kit, channel
<1>2. c \in MaybeCall /\ looper \in Seq(Items)
  BY DEF MaybeCall, KitTypes
<1>3. PICK e \in Items : e = Item("connected", c)
  BY <1>2, ItemOK
<1>4. e.kind = "connected" /\ e.call = c /\ e.id = NoCall
  BY <1>2, <1>3, ItemOK
<1>5. looper' = Append(looper, e)
  BY <1>1, <1>3
<1>6. /\ looper' \in Seq(Items)
      /\ Held(looper') = Held(looper) \cup {e}
  BY <1>2, <1>5, HeldAppend
<1>7. /\ dialog' \in [KitCalls -> Dialogs] /\ dialog'[c] = "up"
      /\ \A u \in KitCalls : u # c => dialog'[u] = dialog[u]
  BY <1>1 DEF KitTypes, Dialogs
<1>8. KitTypes'
  BY <1>1, <1>6, <1>7 DEF KitTypes
<1>9. Grows
  BY <1>1, <1>7 DEF Grows, Shown
<1>10. Tells
  <2>1. Sound(e)'
    BY <1>4 DEF Sound
  <2>. QED BY <1>1, <1>6, <2>1 DEF Tells, Messages
<1>11. ASSUME NEW u \in KitCalls PROVE KeepsCx(u) /\ KeepsWay(u)
  <2>1. Live(u)' => Live(u)
    BY <1>1, <1>7 DEF Live
  <2>. QED BY <1>1, <1>6, <2>1, WayKept, CxKept
<1>. QED BY <1>1, <1>8, <1>9, <1>10, <1>11, Frame

LEMMA HangUpKeeps ==
  ASSUME KitTypes, MatchInv, NEW c \in KitCalls, HangUp(c),
         UNCHANGED <<kit, channel, matchers>>, cxQ' \in Seq(Items)
  PROVE  KitTypes' /\ MatchInv'
<1>1. /\ cx' = cx /\ callsList' = callsList /\ cxShown' = cxShown
      /\ toFlutter' = toFlutter /\ toNative' = toNative /\ matchers' = matchers
  BY DEF kit, channel
<1>2. c \in MaybeCall
  BY DEF MaybeCall
<1>3. /\ dialog' \in [KitCalls -> Dialogs]
      /\ \A u \in KitCalls :
           dialog'[u] = IF u = c /\ Live(u) THEN "gone" ELSE dialog[u]
      /\ looper' \in Seq(Items)
      /\ Held(looper) \subseteq Held(looper')
      /\ \A m \in Held(looper') \ Held(looper) :
           m = Item("terminated", c) /\ dialog'[c] = "gone"
  BY <1>2, HangUpEffect
<1>4. KitTypes'
  BY <1>1, <1>3 DEF KitTypes
<1>5. Grows
  BY <1>1, <1>3 DEF Grows, Shown, Live
<1>6. Tells
  <2>. SUFFICES ASSUME NEW m \in Held(looper') \ Held(looper) PROVE Sound(m)'
    BY <1>1 DEF Tells, Messages
  <2>1. m.kind = "terminated" /\ m.call = c
    BY <1>2, <1>3, ItemOK
  <2>. QED BY <1>3, <2>1 DEF Sound
<1>7. ASSUME NEW u \in KitCalls PROVE KeepsCx(u) /\ KeepsWay(u)
  <2>1. Live(u)' => Live(u)
    BY <1>3 DEF Live
  <2>. QED BY <1>1, <1>3, <2>1, WayKept, CxKept
<1>. QED BY <1>1, <1>4, <1>5, <1>6, <1>7, Frame

(* Requests to CallKit only add an action of its queue.                    *)
LEMMA ScreenKeeps ==
  ASSUME KitTypes, MatchInv, cxQ' \in Seq(Items),
         UNCHANGED <<callsList, cx, looper, channel, matchers>>,
         cxShown' \in [KitCalls -> Screens],
         \A u \in KitCalls : Shown(u) => Shown(u)',
         dialog' \in [KitCalls -> Dialogs],
         \A u \in KitCalls : \/ dialog'[u] = dialog[u]
                             \/ dialog[u] = "ringing" /\ dialog'[u] = "accepted"
  PROVE  KitTypes' /\ MatchInv'
<1>1. /\ cx' = cx /\ callsList' = callsList /\ looper' = looper
      /\ toFlutter' = toFlutter /\ toNative' = toNative /\ matchers' = matchers
  BY DEF channel
<1>2. KitTypes'
  <2>1. callsList' \subseteq {c \in KitCalls : cxShown'[c] # "none"}
    BY <1>1 DEF KitTypes, Shown
  <2>. QED BY <1>1, <2>1 DEF KitTypes
<1>3. Grows
  BY DEF Grows
<1>4. Tells
  BY <1>1 DEF Tells, Messages
<1>5. ASSUME NEW u \in KitCalls PROVE KeepsCx(u) /\ KeepsWay(u)
  <2>1. Live(u)' => Live(u)
    BY DEF Live
  <2>. QED BY <1>1, <2>1, WayKept, CxKept
<1>. QED BY <1>1, <1>2, <1>3, <1>4, <1>5, Frame

LEMMA RequestAnswerEffect ==
  ASSUME KitTypes, NEW u \in KitCalls, RequestAnswer(u)
  PROVE  /\ cxQ' \in Seq(Items) /\ cxShown' \in [KitCalls -> Screens]
         /\ \A v \in KitCalls : Shown(v) => Shown(v)'
<1>1. Item("answer", u) \in Items
  BY ItemOK DEF MaybeCall
<1>2. /\ cxShown' = [cxShown EXCEPT ![u] = "answered"]
      /\ cxQ' = Append(cxQ, Item("answer", u))
  BY DEF RequestAnswer
<1>. QED BY <1>1, <1>2 DEF KitTypes, Shown, Screens

LEMMA RequestEndEffect ==
  ASSUME KitTypes, NEW u \in KitCalls, RequestEnd(u)
  PROVE  cxQ' \in Seq(Items)
  BY ItemOK DEF KitTypes, RequestEnd, MaybeCall

LEMMA UserAnswersKeeps ==
  ASSUME KitTypes, MatchInv, NEW u \in KitCalls, UserAnswers(u)
  PROVE  KitTypes' /\ MatchInv'
<1>1. RequestAnswer(u) /\ UNCHANGED <<dialog, callsList, cx, looper, channel, matchers>>
  BY DEF UserAnswers
<1>2. dialog' = dialog /\ dialog' \in [KitCalls -> Dialogs]
  BY <1>1 DEF KitTypes
<1>. QED BY <1>1, <1>2, RequestAnswerEffect, ScreenKeeps

LEMMA UserEndsKeeps ==
  ASSUME KitTypes, MatchInv, NEW u \in KitCalls, UserEnds(u)
  PROVE  KitTypes' /\ MatchInv'
<1>1. /\ RequestEnd(u) /\ UNCHANGED <<callsList, cx, looper, channel, matchers>>
      /\ dialog' = dialog /\ cxShown' = cxShown
  BY DEF UserEnds, kit
<1>2. /\ dialog' \in [KitCalls -> Dialogs] /\ cxShown' \in [KitCalls -> Screens]
      /\ \A v \in KitCalls : Shown(v) => Shown(v)'
  BY <1>1 DEF KitTypes, Shown
<1>. QED BY <1>1, <1>2, RequestEndEffect, ScreenKeeps

LEMMA AppAcceptsKeeps ==
  ASSUME KitTypes, MatchInv, NEW c \in KitCalls, AppAccepts(c)
  PROVE  KitTypes' /\ MatchInv'
<1>1. UNCHANGED <<callsList, cx, looper, channel, matchers>>
  BY DEF AppAccepts
<1>2. CASE CallAccept(c) /\ UNCHANGED <<cxShown, cxQ>>
  <2>1. /\ cxShown' \in [KitCalls -> Screens] /\ cxQ' \in Seq(Items)
        /\ \A v \in KitCalls : Shown(v) => Shown(v)'
    BY <1>2 DEF KitTypes, Shown
  <2>2. /\ dialog' \in [KitCalls -> Dialogs]
        /\ \A v \in KitCalls : \/ dialog'[v] = dialog[v]
                               \/ dialog[v] = "ringing" /\ dialog'[v] = "accepted"
    BY <1>2, AcceptEffect
  <2>. QED BY <1>1, <2>1, <2>2, ScreenKeeps
<1>3. CASE \E u \in WithId(c) : RequestAnswer(u) /\ UNCHANGED dialog
  <2>1. PICK u \in WithId(c) : RequestAnswer(u) /\ UNCHANGED dialog
    BY <1>3
  <2>2. u \in KitCalls
    BY DEF WithId, KitTypes
  <2>3. dialog' \in [KitCalls -> Dialogs] /\ dialog' = dialog
    BY <2>1 DEF KitTypes
  <2>. QED BY <1>1, <2>1, <2>2, <2>3, RequestAnswerEffect, ScreenKeeps
<1>. QED BY <1>2, <1>3 DEF AppAccepts

LEMMA AppEndsKeeps ==
  ASSUME KitTypes, MatchInv, NEW c \in KitCalls, AppEnds(c)
  PROVE  KitTypes' /\ MatchInv'
<1>1. UNCHANGED <<kit, channel, matchers>>
  BY DEF AppEnds
<1>2. CASE HangUp(c) /\ UNCHANGED cxQ
  <2>1. cxQ' \in Seq(Items)
    BY <1>2 DEF KitTypes
  <2>. QED BY <1>1, <1>2, <2>1, HangUpKeeps
<1>3. CASE \E u \in WithId(c) : RequestEnd(u) /\ UNCHANGED <<dialog, looper>>
  <2>1. PICK u \in WithId(c) : RequestEnd(u) /\ UNCHANGED <<dialog, looper>>
    BY <1>3
  <2>2. u \in KitCalls
    BY DEF WithId, KitTypes
  <2>3. /\ dialog' \in [KitCalls -> Dialogs] /\ dialog' = dialog
        /\ cxShown' \in [KitCalls -> Screens]
        /\ \A v \in KitCalls : Shown(v) => Shown(v)'
        /\ UNCHANGED <<callsList, cx, looper, channel, matchers>>
    BY <1>1, <2>1 DEF KitTypes, kit, Shown
  <2>. QED BY <2>1, <2>2, <2>3, RequestEndEffect, ScreenKeeps
<1>. QED BY <1>2, <1>3 DEF AppEnds

-----------------------------------------------------------------------------
(* What the provider does with the call u of its list.                     *)

Acts ==
  /\ dialog' \in [KitCalls -> Dialogs] /\ cx' \in [KitCalls -> CxModel]
  /\ looper' \in Seq(Items) /\ Held(looper) \subseteq Held(looper)'
  /\ \A m \in Held(looper)' \ Held(looper) : Sound(m)'
  /\ \A v \in KitCalls :
       /\ \/ dialog'[v] = dialog[v]
          \/ dialog[v] = "ringing" /\ dialog'[v] = "accepted" /\ ~cx[v].rejected
          \/ Live(v) /\ dialog'[v] = "gone"
       /\ KeepsCx(v)

(* The CallModel put in the place of that of u.                            *)
NextModel(u, call) ==
  /\ call \in CxModel /\ call.incoming = cx[u].incoming
  /\ \/ call.id = NoCall /\ cx[u].id = NoCall
     \/ call.id = u /\ dialog[u] # "none"

LEMMA ModelActs ==
  ASSUME KitTypes, MatchInv, NEW u \in callsList, NEW call, NextModel(u, call),
         callsList' = callsList, NEW bye \in BOOLEAN, Replaced(u, call, bye),
         call.id = u /\ call.rejected => dialog'[u] = "gone",
         call.answered /\ bye => call.id = NoCall \/ call.rejected,
         dialog' \in [KitCalls -> Dialogs], looper' \in Seq(Items),
         Held(looper) \subseteq Held(looper)',
         \A m \in Held(looper)' \ Held(looper) : Sound(m)',
         \A v \in KitCalls :
           \/ dialog'[v] = dialog[v]
           \/ dialog[v] = "ringing" /\ dialog'[v] = "accepted" /\ ~cx[v].rejected
           \/ Live(v) /\ dialog'[v] = "gone"
  PROVE  Acts
<1>1. u \in KitCalls /\ u # NoCall
  BY KitAssumption DEF KitTypes
<1>2. ASSUME NEW v \in KitCalls PROVE KeepsCx(v)
  <2>1. CASE v = u
    <3>1. call.id = u => dialog'[u] # "none"
      BY <1>1 DEF NextModel
    <3>2. /\ cx'[u].incoming = cx[u].incoming /\ cx'[u].id = call.id
          /\ cx'[u].rejected = call.rejected
          /\ cx'[u].answered => call.answered /\ bye
      BY DEF Replaced, NextModel
    <3>3. (call.id = NoCall /\ cx[u].id = NoCall) \/ call.id = u
      BY DEF NextModel
    <3>4. KeepsCx(u)
      BY <1>1, <3>1, <3>2, <3>3 DEF KeepsCx
    <3>. QED BY <2>1, <3>4
  <2>2. CASE v # u
    <3>1. cx'[v] = cx[v] /\ CxOK(v)
      BY <2>2 DEF Replaced, MatchInv, OwnInv
    <3>. QED BY <3>1 DEF KeepsCx, CxOK
  <2>. QED BY <2>1, <2>2
<1>. QED BY <1>2 DEF Acts, Replaced

LEMMA SetActs ==
  ASSUME KitTypes, MatchInv, NEW u \in callsList, NEW call, NextModel(u, call),
         callsList' = callsList,
         call.id = u => ~call.rejected /\ ~call.answered,
         cx' = [cx EXCEPT ![u] = call], UNCHANGED <<dialog, looper>>
  PROVE  Acts
<1>1. u \in KitCalls /\ u # NoCall
  BY KitAssumption DEF KitTypes
<1>2. Replaced(u, call, TRUE)
  <2>1. call.answered \in BOOLEAN /\ call \in CxModel
    BY DEF NextModel, CxModel
  <2>. QED BY <1>1, <2>1 DEF Replaced, KitTypes
<1>3. dialog' \in [KitCalls -> Dialogs] /\ looper' \in Seq(Items)
  BY DEF KitTypes
<1>4. Held(looper)' = Held(looper)
  BY DEF Held
<1>5. call.id \in {u, NoCall}
  BY DEF NextModel
<1>. QED BY <1>1, <1>2, <1>3, <1>4, <1>5, ModelActs

LEMMA AnswerActs ==
  ASSUME KitTypes, MatchInv, NEW u \in callsList, NEW call, NextModel(u, call),
         callsList' = callsList, call.id = u, call.rejected = cx[u].rejected,
         call.rejected => dialog[u] = "gone",
         ProceedAnswer(u, call)
  PROVE  Acts
<1>1. u \in KitCalls /\ call \in CxModel
  BY DEF KitTypes, NextModel
<1>2. Replaced(u, call, FALSE) /\ CallAccept(u) /\ looper' = looper
  BY <1>1, ProceedAnswerEffect
<1>3. /\ dialog' \in [KitCalls -> Dialogs]
      /\ \A v \in KitCalls :
           dialog'[v] = IF v = u /\ dialog[v] = "ringing" THEN "accepted" ELSE dialog[v]
  BY <1>2, AcceptEffect
<1>4. looper' \in Seq(Items) /\ Held(looper)' = Held(looper)
  BY <1>2 DEF KitTypes, Held
<1>5. \A v \in KitCalls :
         \/ dialog'[v] = dialog[v]
         \/ dialog[v] = "ringing" /\ dialog'[v] = "accepted" /\ ~cx[v].rejected
  BY <1>1, <1>3
<1>6. call.rejected => dialog'[u] = "gone"
  BY <1>1, <1>3
<1>. QED BY <1>2, <1>3, <1>4, <1>5, <1>6, ModelActs

LEMMA EndActs ==
  ASSUME KitTypes, MatchInv, NEW u \in callsList, NEW call, NextModel(u, call),
         callsList' = callsList, call.id = u,
         call.answered => call.rejected,
         ProceedEnd(u, call)
  PROVE  Acts
<1>1. u \in KitCalls /\ u \in MaybeCall /\ call \in CxModel
  BY DEF KitTypes, NextModel, MaybeCall
<1>2. Replaced(u, call, TRUE) /\ HangUp(u)
  BY <1>1, ProceedEndEffect
<1>3. /\ dialog' \in [KitCalls -> Dialogs]
      /\ \A c \in KitCalls :
           dialog'[c] = IF c = u /\ Live(c) THEN "gone" ELSE dialog[c]
      /\ looper' \in Seq(Items)
      /\ Held(looper) \subseteq Held(looper')
      /\ \A m \in Held(looper') \ Held(looper) :
           m = Item("terminated", u) /\ dialog'[u] = "gone"
  BY <1>1, <1>2, HangUpEffect
<1>4. \A m \in Held(looper)' \ Held(looper) : Sound(m)'
  <2>. SUFFICES ASSUME NEW m \in Held(looper') \ Held(looper) PROVE Sound(m)'
    OBVIOUS
  <2>1. m.kind = "terminated" /\ m.call = u
    BY <1>1, <1>3, ItemOK
  <2>. QED BY <1>1, <1>3, <2>1 DEF Sound
<1>5. \A v \in KitCalls : dialog'[v] = dialog[v] \/ (Live(v) /\ dialog'[v] = "gone")
  BY <1>3
<1>6. dialog'[u] = "gone"
  <2>1. dialog[u] # "none" /\ dialog[u] \in Dialogs
    BY <1>1, KitAssumption DEF NextModel, KitTypes
  <2>. QED BY <1>1, <1>3, <2>1 DEF Live, Dialogs
<1>. QED BY <1>2, <1>3, <1>4, <1>5, <1>6, ModelActs

LEMMA NothingActs ==
  ASSUME KitTypes, MatchInv, UNCHANGED <<callsList, cx, dialog, looper>>
  PROVE  Acts
<1>1. \A v \in KitCalls : KeepsCx(v)
  BY CxKept
<1>2. Held(looper)' = Held(looper)
  BY DEF Held
<1>. QED BY <1>1, <1>2 DEF Acts, KitTypes

LEMMA CxAnswerActs ==
  ASSUME KitTypes, MatchInv, NEW u, CxAnswer(u), callsList' = callsList
  PROVE  Acts
<1>1. CASE u \notin callsList
  <2>1. UNCHANGED <<cx, dialog, looper>>
    BY <1>1 DEF CxAnswer
  <2>. QED BY <2>1, NothingActs
<1>2. CASE u \in callsList
  <2>1. u \in KitCalls /\ cx[u] \in CxModel /\ CxOK(u)
    BY <1>2 DEF KitTypes, MatchInv, OwnInv
  <2>2. PICK call \in CxModel : call = [cx[u] EXCEPT !.answered = TRUE]
    BY <2>1 DEF CxModel
  <2>3. /\ call.id = cx[u].id /\ call.incoming = cx[u].incoming
        /\ call.rejected = cx[u].rejected
    BY <2>1, <2>2 DEF CxModel
  <2>4. NextModel(u, call)
    BY <2>1, <2>3 DEF NextModel, CxOK
  <2>5. CASE call.id = NoCall
    <3>1. cx' = [cx EXCEPT ![u] = call] /\ UNCHANGED <<dialog, looper>>
      BY <1>2, <2>2, <2>5 DEF CxAnswer
    <3>2. call.id # u
      BY <2>1, <2>5, KitAssumption
    <3>. QED BY <1>2, <2>4, <3>1, <3>2, SetActs
  <2>6. CASE call.id # NoCall
    <3>1. ProceedAnswer(u, call)
      BY <1>2, <2>2, <2>6 DEF CxAnswer
    <3>2. call.id = u /\ (call.rejected => dialog[u] = "gone")
      BY <2>1, <2>3, <2>6 DEF CxOK
    <3>. QED BY <1>2, <2>3, <2>4, <3>1, <3>2, AnswerActs
  <2>. QED BY <2>5, <2>6
<1>. QED BY <1>1, <1>2

LEMMA CxEndActs ==
  ASSUME KitTypes, MatchInv, NEW u, CxEnd(u), callsList' = callsList
  PROVE  Acts
<1>1. CASE u \notin callsList
  <2>1. UNCHANGED <<cx, dialog, looper>>
    BY <1>1 DEF CxEnd
  <2>. QED BY <2>1, NothingActs
<1>2. CASE u \in callsList
  <2>1. u \in KitCalls /\ cx[u] \in CxModel /\ CxOK(u)
    BY <1>2 DEF KitTypes, MatchInv, OwnInv
  <2>2. PICK call \in CxModel : call = [cx[u] EXCEPT !.end = "open"]
    BY <2>1 DEF CxModel
  <2>3. /\ call.id = cx[u].id /\ call.incoming = cx[u].incoming
        /\ call.rejected = cx[u].rejected /\ call.answered = cx[u].answered
    BY <2>1, <2>2 DEF CxModel
  <2>4. NextModel(u, call)
    BY <2>1, <2>3 DEF NextModel, CxOK
  <2>5. CASE call.id = NoCall
    <3>1. PICK noted \in CxModel : noted = [call EXCEPT !.rejected = TRUE]
      BY DEF CxModel
    <3>2. noted.id = call.id /\ noted.incoming = call.incoming
      BY <3>1 DEF CxModel
    <3>3. cx' = [cx EXCEPT ![u] = noted] /\ UNCHANGED <<dialog, looper>>
      BY <1>2, <2>2, <2>5, <3>1 DEF CxEnd
    <3>4. NextModel(u, noted) /\ noted.id # u
      BY <2>1, <2>3, <2>5, <3>2, KitAssumption DEF NextModel
    <3>. QED BY <1>2, <3>3, <3>4, SetActs
  <2>6. CASE call.id # NoCall
    <3>1. ProceedEnd(u, call)
      BY <1>2, <2>2, <2>6 DEF CxEnd
    <3>2. call.id = u /\ (call.answered => call.rejected)
      BY <1>2, <2>1, <2>3, <2>6 DEF CxOK
    <3>. QED BY <1>2, <2>4, <3>1, <3>2, EndActs
  <2>. QED BY <2>5, <2>6
<1>. QED BY <1>1, <1>2

LEMMA ActsGrow ==
  ASSUME Acts, KitTypes, cxShown' = cxShown
  PROVE  Grows /\ \A v \in KitCalls : Live(v)' => Live(v)
<1>1. ASSUME NEW v \in KitCalls
      PROVE  /\ dialog[v] # "none" => dialog'[v] # "none"
             /\ dialog[v] = "gone" => dialog'[v] = "gone"
             /\ Live(v)' => Live(v)
  BY DEF Acts, Live
<1>. QED BY <1>1 DEF Grows, Shown

LEMMA PerformActs ==
  ASSUME KitTypes, MatchInv, Perform
  PROVE  Acts
<1>1. callsList' = callsList
  BY DEF Perform
<1>. QED BY <1>1, CxAnswerActs, CxEndActs DEF Perform

LEMMA PerformKeeps ==
  ASSUME KitTypes, MatchInv, Perform
  PROVE  KitTypes' /\ MatchInv'
<1>1. /\ cxShown' = cxShown /\ callsList' = callsList /\ toFlutter' = toFlutter
      /\ toNative' = toNative /\ matchers' = matchers
      /\ cxQ # <<>> /\ cxQ' = Tail(cxQ)
  BY DEF Perform, channel
<1>2. cxQ' \in Seq(Items)
  BY <1>1, HeldTail DEF KitTypes
<1>3. Acts /\ Grows /\ \A v \in KitCalls : Live(v)' => Live(v)
  BY <1>1, PerformActs, ActsGrow
<1>4. KitTypes'
  BY <1>1, <1>2, <1>3 DEF KitTypes, Acts
<1>5. Tells
  BY <1>1, <1>3 DEF Tells, Messages, Acts
<1>6. ASSUME NEW v \in KitCalls PROVE KeepsCx(v) /\ KeepsWay(v)
  BY <1>1, <1>3, WayKept DEF Acts
<1>. QED BY <1>1, <1>3, <1>4, <1>5, <1>6, Frame

-----------------------------------------------------------------------------
(* Blocks of the engine, and calls that begin.                             *)

LEMMA PostedKeeps ==
  ASSUME KitTypes, MatchInv, Posted
  PROVE  KitTypes' /\ MatchInv'
<1>1. PICK e \in Items : e = Head(looper)
  BY HeldTail DEF Posted, KitTypes
<1>2. /\ looper # <<>> /\ looper' = Tail(looper) /\ toFlutter' = Append(toFlutter, e)
      /\ dialog' = dialog /\ cxQ' = cxQ /\ toNative' = toNative
      /\ matchers' = matchers
  BY <1>1 DEF Posted
<1>3. /\ looper' \in Seq(Items) /\ Held(looper) = Held(looper') \cup {e}
      /\ toFlutter' \in Seq(Items) /\ Held(toFlutter') = Held(toFlutter) \cup {e}
  BY <1>1, <1>2, HeldTail, HeldAppend DEF KitTypes
<1>4. /\ callsList' \subseteq callsList
      /\ cxShown' \in [KitCalls -> Screens]
      /\ \A v \in KitCalls : Shown(v) => cxShown'[v] # "none"
      /\ cx' \in [KitCalls -> CxModel]
      /\ \A v \in KitCalls : /\ cx'[v].incoming = cx[v].incoming
                             /\ cx'[v].id = cx[v].id
                             /\ cx'[v].rejected = cx[v].rejected
                             /\ cx'[v].answered = cx[v].answered
  <2>1. CASE OnSipIncoming
    BY <2>1 DEF OnSipIncoming, kit, KitTypes, Shown
  <2>2. CASE OnSipConnected(e.call)
    <3>1. /\ cxShown' = cxShown /\ callsList' = callsList
          /\ cx' = [u \in KitCalls |-> IF u \in WithId(e.call)
                                       THEN [cx[u] EXCEPT !.connected = TRUE] ELSE cx[u]]
      BY <2>2 DEF OnSipConnected
    <3>2. ASSUME NEW v \in KitCalls
          PROVE  /\ cx'[v] \in CxModel /\ cx'[v].incoming = cx[v].incoming
                 /\ cx'[v].id = cx[v].id /\ cx'[v].rejected = cx[v].rejected
                 /\ cx'[v].answered = cx[v].answered
      <4>1. cx[v] \in CxModel
        BY DEF KitTypes
      <4>2. cx'[v] = [cx[v] EXCEPT !.connected = TRUE] \/ cx'[v] = cx[v]
        BY <3>1
      <4>. QED BY <4>1, <4>2 DEF CxModel
    <3>3. cx' \in [KitCalls -> CxModel]
      <4>1. DOMAIN cx' = KitCalls /\ cx' = [v \in KitCalls |-> cx'[v]]
        BY <3>1
      <4>. QED BY <4>1, <3>2
    <3>. QED BY <3>1, <3>2, <3>3 DEF KitTypes, Shown
  <2>3. CASE OnSipTerminated(e.call)
    <3>1. cx' = cx /\ callsList' \subseteq callsList
      BY <2>3 DEF OnSipTerminated
    <3>2. /\ cxShown' \in [KitCalls -> Screens]
          /\ \A v \in KitCalls : Shown(v) => cxShown'[v] # "none"
      BY <2>3 DEF OnSipTerminated, KitTypes, Screens, Shown
    <3>. QED BY <3>1, <3>2 DEF KitTypes
  <2>. QED BY <1>1, <2>1, <2>2, <2>3 DEF Posted
<1>5. KitTypes'
  <2>1. callsList' \subseteq {c \in KitCalls : cxShown'[c] # "none"}
    BY <1>4 DEF KitTypes, Shown
  <2>. QED BY <1>2, <1>3, <1>4, <2>1 DEF KitTypes
<1>6. Grows
  BY <1>2, <1>4 DEF Grows, Shown
<1>7. Tells
  BY <1>2, <1>3 DEF Tells, Messages
<1>8. ASSUME NEW v \in KitCalls PROVE KeepsCx(v) /\ KeepsWay(v)
  <2>1. CxOK(v)
    BY DEF MatchInv, OwnInv
  <2>2. KeepsCx(v)
    BY <1>4, <2>1 DEF KeepsCx, CxOK
  <2>3. Settled(v)' = Settled(v) /\ (Live(v)' => Live(v))
    BY <1>2 DEF Settled, Live
  <2>4. PushComes(v) => PushComes(v)'
    BY <1>3 DEF PushComes
  <2>5. InviteComes(v) => InviteComes(v)'
    BY <1>2, <1>3 DEF InviteComes
  <2>. QED BY <1>4, <2>2, <2>3, <2>4, <2>5 DEF KeepsWay
<1>. QED BY <1>2, <1>5, <1>6, <1>7, <1>8, Frame

LEMMA InviteKeeps ==
  ASSUME KitTypes, MatchInv, NEW c \in KitCalls, Invite(c)
  PROVE  KitTypes' /\ MatchInv'
<1>1. /\ dialog[c] = "none" /\ dialog' = [dialog EXCEPT ![c] = "ringing"]
      /\ looper' = Append(looper, Item("incoming", c))
      /\ cx' = cx /\ callsList' = callsList /\ cxShown' = cxShown /\ cxQ' = cxQ
      /\ toFlutter' = toFlutter /\ toNative' = toNative /\ matchers' = matchers
  BY DEF Invite, kit, channel
<1>2. PICK e \in Items : e = Item("incoming", c) /\ e.kind = "incoming" /\ e.call = c
  BY ItemOK DEF MaybeCall
<1>3. looper' \in Seq(Items) /\ Held(looper') = Held(looper) \cup {e}
  <2>1. looper' = Append(looper, e) /\ looper \in Seq(Items)
    BY <1>1, <1>2 DEF KitTypes
  <2>. QED BY <2>1, HeldAppend
<1>4. /\ dialog' \in [KitCalls -> Dialogs] /\ dialog'[c] = "ringing"
      /\ \A v \in KitCalls : v # c => dialog'[v] = dialog[v]
  BY <1>1 DEF KitTypes, Dialogs
<1>5. KitTypes'
  BY <1>1, <1>3, <1>4 DEF KitTypes
<1>6. Grows
  BY <1>1, <1>4 DEF Grows, Shown
<1>7. Tells
  <2>1. Sound(e)'
    BY <1>2, <1>4 DEF Sound
  <2>. QED BY <1>1, <1>3, <2>1 DEF Tells, Messages
<1>8. ASSUME NEW v \in KitCalls PROVE KeepsCx(v) /\ KeepsWay(v)
  <2>1. KeepsCx(v)
    BY <1>1, CxKept
  <2>2. Settled(v)' = Settled(v) /\ PushComes(v)' = PushComes(v)
    BY <1>1 DEF Settled, PushComes
  <2>3. InviteComes(v) => InviteComes(v)'
    BY <1>1, <1>3 DEF InviteComes
  <2>4. Live(v)' => Live(v) \/ InviteComes(v)'
    <3>1. CASE v = c
      BY <1>2, <1>3, <3>1 DEF InviteComes
    <3>2. CASE v # c
      BY <1>4, <3>2 DEF Live
    <3>. QED BY <3>1, <3>2
  <2>. QED BY <1>1, <2>1, <2>2, <2>3, <2>4 DEF KeepsWay
<1>. QED BY <1>1, <1>5, <1>6, <1>7, <1>8, Frame

LEMMA NewCxIs ==
  ASSUME NEW id \in MaybeCall, NEW incoming \in BOOLEAN
  PROVE  /\ NewCx(id, incoming) \in CxModel
         /\ NewCx(id, incoming).id = id /\ NewCx(id, incoming).incoming = incoming
         /\ NewCx(id, incoming).answered = FALSE /\ NewCx(id, incoming).rejected = FALSE
  BY DEF NewCx, CxModel

LEMMA PushKeeps ==
  ASSUME KitTypes, MatchInv, NEW c \in KitCalls, Push(c)
  PROVE  KitTypes' /\ MatchInv'
<1>1. /\ ~Shown(c) /\ callsList' = callsList \cup {c}
      /\ cx' = [cx EXCEPT ![c] = NewCx(NoCall, TRUE)]
      /\ cxShown' = [cxShown EXCEPT ![c] = "ringing"]
      /\ toFlutter' = Append(toFlutter, Item("push", c))
      /\ dialog' = dialog /\ looper' = looper /\ cxQ' = cxQ /\ toNative' = toNative
      /\ matchers' = matchers
  BY DEF Push, Shown
<1>2. PICK e \in Items : e = Item("push", c) /\ e.kind = "push" /\ e.call = c
  BY ItemOK DEF MaybeCall
<1>3. toFlutter' \in Seq(Items) /\ Held(toFlutter') = Held(toFlutter) \cup {e}
  <2>1. toFlutter' = Append(toFlutter, e) /\ toFlutter \in Seq(Items)
    BY <1>1, <1>2 DEF KitTypes
  <2>. QED BY <2>1, HeldAppend
<1>4. PICK r \in CxModel : /\ r = NewCx(NoCall, TRUE) /\ r.id = NoCall
                           /\ r.incoming = TRUE /\ r.answered = FALSE /\ r.rejected = FALSE
  BY NewCxIs DEF MaybeCall
<1>5. /\ cx' \in [KitCalls -> CxModel] /\ cx'[c] = r
      /\ \A v \in KitCalls : v # c => cx'[v] = cx[v]
  BY <1>1, <1>4 DEF KitTypes
<1>6. /\ cxShown' \in [KitCalls -> Screens] /\ cxShown'[c] # "none"
      /\ \A v \in KitCalls : v # c => cxShown'[v] = cxShown[v]
  BY <1>1 DEF KitTypes, Screens
<1>7. KitTypes'
  <2>1. callsList' \subseteq {v \in KitCalls : cxShown'[v] # "none"}
    BY <1>1, <1>6 DEF KitTypes
  <2>. QED BY <1>1, <1>3, <1>5, <1>6, <2>1 DEF KitTypes
<1>8. Grows
  BY <1>1, <1>6 DEF Grows, Shown
<1>9. Tells
  <2>1. Sound(e)'
    BY <1>2, <1>6 DEF Sound, Shown
  <2>. QED BY <1>1, <1>3, <2>1 DEF Tells, Messages
<1>10. ASSUME NEW v \in KitCalls PROVE KeepsCx(v) /\ KeepsWay(v)
  <2>1. CxOK(v) /\ MatcherOK(v)
    BY DEF MatchInv, OwnInv
  <2>2. KeepsCx(v)
    <3>1. CASE v = c
      <4>1. cx[c].incoming = TRUE /\ cx[c].id = NoCall
        <5>1. cx[c].incoming \in BOOLEAN
          BY DEF KitTypes, CxModel
        <5>. QED BY <1>1, <2>1, <3>1, <5>1 DEF CxOK
      <4>2. KeepsCx(c)
        BY <1>4, <1>5, <4>1 DEF KeepsCx
      <4>. QED BY <3>1, <4>2
    <3>2. CASE v # c
      BY <1>1, <1>5, <2>1, <3>2 DEF KeepsCx, CxOK
    <3>. QED BY <3>1, <3>2
  <2>3. Settled(v)' = Settled(v) /\ Live(v)' = Live(v)
    BY <1>1 DEF Settled, Live
  <2>4. PushComes(v) => PushComes(v)'
    BY <1>3 DEF PushComes
  <2>5. InviteComes(v) => InviteComes(v)'
    BY <1>1, <1>3 DEF InviteComes
  <2>6. v \in callsList' => v \in callsList \/ (PushComes(v)' /\ matchers[v].uuid # v)
    <3>. SUFFICES ASSUME v = c PROVE PushComes(v)' /\ matchers[v].uuid # v
      BY <1>1
    <3>1. matchers[v].uuid # v
      BY <1>1, <2>1 DEF MatcherOK
    <3>2. PushComes(v)'
      BY <1>2, <1>3 DEF PushComes
    <3>. QED BY <3>1, <3>2
  <2>. QED BY <2>2, <2>3, <2>4, <2>5, <2>6 DEF KeepsWay
<1>. QED BY <1>1, <1>7, <1>8, <1>9, <1>10, Frame

LEMMA DialKeeps ==
  ASSUME KitTypes, MatchInv, NEW c \in KitCalls, Dial(c)
  PROVE  KitTypes' /\ MatchInv'
<1>1. /\ dialog[c] = "none" /\ dialog' = [dialog EXCEPT ![c] = "ringing"]
      /\ callsList' = callsList \cup {c}
      /\ cx' = [cx EXCEPT ![c] = NewCx(c, FALSE)]
      /\ cxShown' = [cxShown EXCEPT ![c] = "answered"]
      /\ looper' = looper /\ cxQ' = cxQ /\ toFlutter' = toFlutter
      /\ toNative' = toNative /\ matchers' = matchers
  BY DEF Dial, channel
<1>2. PICK r \in CxModel : /\ r = NewCx(c, FALSE) /\ r.id = c
                           /\ r.incoming = FALSE /\ r.answered = FALSE /\ r.rejected = FALSE
  BY NewCxIs DEF MaybeCall
<1>3. /\ cx' \in [KitCalls -> CxModel] /\ cx'[c] = r
      /\ \A v \in KitCalls : v # c => cx'[v] = cx[v]
  BY <1>1, <1>2 DEF KitTypes
<1>4. /\ cxShown' \in [KitCalls -> Screens] /\ cxShown'[c] # "none"
      /\ \A v \in KitCalls : v # c => cxShown'[v] = cxShown[v]
  BY <1>1 DEF KitTypes, Screens
<1>5. /\ dialog' \in [KitCalls -> Dialogs] /\ dialog'[c] = "ringing"
      /\ \A v \in KitCalls : v # c => dialog'[v] = dialog[v]
  BY <1>1 DEF KitTypes, Dialogs
<1>6. KitTypes'
  <2>1. callsList' \subseteq {v \in KitCalls : cxShown'[v] # "none"}
    BY <1>1, <1>4 DEF KitTypes
  <2>. QED BY <1>1, <1>3, <1>4, <1>5, <2>1 DEF KitTypes
<1>7. Grows
  BY <1>1, <1>4, <1>5 DEF Grows, Shown
<1>8. Tells
  BY <1>1 DEF Tells, Messages
<1>9. ASSUME NEW v \in KitCalls PROVE KeepsCx(v) /\ KeepsWay(v)
  <2>1. CxOK(v)
    BY DEF MatchInv, OwnInv
  <2>2. Settled(v)' = Settled(v) /\ PushComes(v)' = PushComes(v)
        /\ InviteComes(v)' = InviteComes(v)
    BY <1>1 DEF Settled, PushComes, InviteComes
  <2>3. CASE v = c
    <3>1. KeepsCx(c)
      BY <1>1, <1>2, <1>3, <1>5 DEF KeepsCx
    <3>2. cx'[v].id = v /\ ~cx'[v].incoming
      BY <1>2, <1>3, <2>3
    <3>. QED BY <2>2, <2>3, <3>1, <3>2 DEF KeepsWay
  <2>4. CASE v # c
    <3>1. KeepsCx(v)
      BY <1>1, <1>3, <2>1, <2>4 DEF KeepsCx, CxOK
    <3>2. (Live(v)' => Live(v)) /\ (v \in callsList' => v \in callsList)
      BY <1>1, <1>5, <2>4 DEF Live
    <3>. QED BY <2>2, <3>1, <3>2 DEF KeepsWay
  <2>. QED BY <2>3, <2>4
<1>. QED BY <1>1, <1>6, <1>7, <1>8, <1>9, Frame

-----------------------------------------------------------------------------
(* Messages of Flutter.                                                    *)

LEMMA UpdateActs ==
  ASSUME KitTypes, MatchInv, NEW u, NEW id, UpdateDetails(u, id),
         id # NoCall => id = u /\ dialog[u] # "none"
  PROVE  Acts /\ (u \in callsList /\ id # NoCall => cx'[u].id = u)
<1>1. callsList' = callsList
  BY DEF UpdateDetails
<1>2. CASE ~(u \in callsList /\ id # NoCall)
  <2>1. UNCHANGED <<cx, dialog, looper>>
    BY <1>2 DEF UpdateDetails
  <2>. QED BY <1>1, <1>2, <2>1, NothingActs
<1>3. CASE u \in callsList /\ id # NoCall
  <2>1. u \in KitCalls /\ u \in MaybeCall /\ cx[u] \in CxModel /\ CxOK(u)
        /\ id = u /\ dialog[u] # "none"
    BY <1>3 DEF KitTypes, MatchInv, OwnInv, MaybeCall
  <2>2. PICK call \in CxModel : call = [cx[u] EXCEPT !.id = id]
    BY <2>1 DEF CxModel
  <2>3. /\ call.id = u /\ call.incoming = cx[u].incoming
        /\ call.rejected = cx[u].rejected /\ call.answered = cx[u].answered
    BY <2>1, <2>2 DEF CxModel
  <2>4. NextModel(u, call)
    BY <2>1, <2>3 DEF NextModel
  <2>5. CASE call.rejected
    <3>1. ProceedEnd(u, call)
      BY <1>3, <2>2, <2>5 DEF UpdateDetails
    <3>2. Acts
      BY <1>1, <1>3, <2>3, <2>4, <2>5, <3>1, EndActs
    <3>3. cx'[u].id = u
      BY <2>1, <2>3, <3>1, ProceedEndEffect DEF Replaced
    <3>. QED BY <3>2, <3>3
  <2>6. CASE ~call.rejected /\ call.answered
    <3>1. ProceedAnswer(u, call)
      BY <1>3, <2>2, <2>6 DEF UpdateDetails
    <3>2. Acts
      BY <1>1, <1>3, <2>3, <2>4, <2>6, <3>1, AnswerActs
    <3>3. cx'[u].id = u
      BY <2>1, <2>3, <3>1, ProceedAnswerEffect DEF Replaced
    <3>. QED BY <3>2, <3>3
  <2>7. CASE ~call.rejected /\ ~call.answered
    <3>1. cx' = [cx EXCEPT ![u] = call] /\ UNCHANGED <<dialog, looper>>
      BY <1>3, <2>2, <2>7 DEF UpdateDetails
    <3>2. Acts
      BY <1>1, <1>3, <2>3, <2>4, <2>7, <3>1, SetActs
    <3>3. cx'[u].id = u
      BY <2>1, <2>3, <3>1 DEF KitTypes
    <3>. QED BY <3>2, <3>3
  <2>. QED BY <2>5, <2>6, <2>7
<1>. QED BY <1>2, <1>3

LEMMA MessageSound ==
  ASSUME MatchInv, NEW m \in Messages
  PROVE  Sound(m)
  BY DEF MatchInv, OwnInv

LEMMA HeaderKeeps ==
  ASSUME KitTypes, MatchInv, NEW e \in Items, Sound(e), e.kind = "header",
         toNative' \in Seq(Items), Held(toNative) = Held(toNative') \cup {e},
         GetSipHeader(e.call), matchers' = matchers
  PROVE  KitTypes' /\ MatchInv'
<1>1. /\ dialog' = dialog /\ looper' = looper /\ cxQ' = cxQ
      /\ cx' = cx /\ callsList' = callsList /\ cxShown' = cxShown
  BY DEF GetSipHeader, kit
<1>2. PICK c \in KitCalls : c = e.call
  BY DEF Sound
<1>3. PICK d \in {c, NoCall} : d = IF Live(c) THEN c ELSE NoCall
  OBVIOUS
<1>4. PICK h \in Items : /\ h = ItemWith("header", c, d)
                         /\ h.kind = "header" /\ h.call = c /\ h.id = d
  BY ItemOK DEF MaybeCall
<1>5. toFlutter' = Append(toFlutter, h)
  BY <1>2, <1>3, <1>4 DEF GetSipHeader
<1>6. toFlutter' \in Seq(Items) /\ Held(toFlutter') = Held(toFlutter) \cup {h}
  BY <1>5, HeldAppend DEF KitTypes
<1>7. KitTypes'
  BY <1>1, <1>6 DEF KitTypes
<1>8. Grows
  BY <1>1 DEF Grows, Shown
<1>9. Tells
  <2>1. Sound(h)'
    BY <1>1, <1>2, <1>4 DEF Sound
  <2>. QED BY <1>1, <1>6, <2>1 DEF Tells, Messages
<1>10. ASSUME NEW v \in KitCalls PROVE KeepsCx(v) /\ KeepsWay(v)
  <2>1. KeepsCx(v)
    BY <1>1, CxKept
  <2>2. Live(v)' = Live(v)
    BY <1>1 DEF Live
  <2>3. Settled(v) => Settled(v)'
    <3>1. Item("endKit", v) # e /\ ItemWith("update", v, v) # e
      BY ItemOK DEF MaybeCall
    <3>. QED BY <3>1 DEF Settled
  <2>4. PushComes(v) => PushComes(v)'
    BY <1>6 DEF PushComes
  <2>5. InviteComes(v) /\ Live(v)' => InviteComes(v)'
    <3>1. CASE Item("header", v) = e
      <4>1. v = c
        BY <1>2, <3>1, ItemOK DEF MaybeCall
      <4>2. Live(v) => h = ItemWith("header", v, v)
        BY <1>3, <1>4, <4>1
      <4>. QED BY <1>6, <2>2, <4>2 DEF InviteComes
    <3>2. CASE Item("header", v) # e
      BY <1>1, <1>6, <3>2 DEF InviteComes
    <3>. QED BY <3>1, <3>2
  <2>. QED BY <1>1, <2>1, <2>2, <2>3, <2>4, <2>5 DEF KeepsWay
<1>. QED BY <1>7, <1>8, <1>9, <1>10, Frame

LEMMA UpdateKeeps ==
  ASSUME KitTypes, MatchInv, NEW e \in Items, Sound(e), e.kind = "update",
         toNative' \in Seq(Items), Held(toNative) = Held(toNative') \cup {e},
         UpdateDetails(e.call, e.id), matchers' = matchers
  PROVE  KitTypes' /\ MatchInv'
<1>1. /\ cxShown' = cxShown /\ callsList' = callsList /\ cxQ' = cxQ
      /\ toFlutter' = toFlutter
  BY DEF UpdateDetails
<1>2. e.id # NoCall => e.id = e.call /\ dialog[e.call] # "none"
  BY DEF Sound
<1>3. /\ Acts /\ Grows /\ \A v \in KitCalls : Live(v)' => Live(v)
      /\ e.call \in callsList /\ e.id # NoCall => cx'[e.call].id = e.call
  BY <1>1, <1>2, UpdateActs, ActsGrow
<1>4. KitTypes'
  BY <1>1, <1>3 DEF KitTypes, Acts
<1>5. Tells
  BY <1>1, <1>3 DEF Tells, Messages, Acts
<1>6. ASSUME NEW v \in KitCalls PROVE KeepsCx(v) /\ KeepsWay(v)
  <2>1. KeepsCx(v) /\ Held(looper) \subseteq Held(looper')
    BY <1>3 DEF Acts
  <2>2. Settled(v) => Settled(v)' \/ ~Waits(v)'
    <3>1. CASE ItemWith("update", v, v) = e
      <4>1. e.call = v /\ e.id = v /\ v # NoCall
        BY <3>1, KitAssumption, ItemOK DEF MaybeCall
      <4>. QED BY <1>1, <1>3, <4>1 DEF Waits
    <3>2. CASE ItemWith("update", v, v) # e
      <4>1. Item("endKit", v) # e
        BY ItemOK DEF MaybeCall
      <4>. QED BY <3>2, <4>1 DEF Settled
    <3>. QED BY <3>1, <3>2
  <2>3. PushComes(v) => PushComes(v)'
    BY <1>1 DEF PushComes
  <2>4. InviteComes(v) => InviteComes(v)'
    <3>1. Item("header", v) # e
      BY ItemOK DEF MaybeCall
    <3>. QED BY <1>1, <2>1, <3>1 DEF InviteComes
  <2>. QED BY <1>1, <1>3, <2>1, <2>2, <2>3, <2>4 DEF KeepsWay
<1>. QED BY <1>3, <1>4, <1>5, <1>6, Frame

LEMMA EndKitKeeps ==
  ASSUME KitTypes, MatchInv, NEW e \in Items, Sound(e), e.kind = "endKit",
         toNative' \in Seq(Items), Held(toNative) = Held(toNative') \cup {e},
         EndKitCall(e.call), matchers' = matchers
  PROVE  KitTypes' /\ MatchInv'
<1>1. /\ cxShown' = cxShown /\ cx' = cx /\ dialog' = dialog /\ looper' = looper
      /\ toFlutter' = toFlutter
  BY DEF EndKitCall
<1>2. e.call \in KitCalls
  BY DEF Sound
<1>3. callsList' = callsList \ {e.call}
  BY DEF EndKitCall
<1>4. cxQ' \in Seq(Items)
  <2>1. Item("end", e.call) \in Items
    BY <1>2, ItemOK DEF MaybeCall
  <2>2. cxQ' = cxQ \/ cxQ' = Append(cxQ, Item("end", e.call))
    BY DEF EndKitCall
  <2>3. cxQ \in Seq(Items)
    BY DEF KitTypes
  <2>. QED BY <2>1, <2>2, <2>3, HeldAppend
<1>5. KitTypes'
  BY <1>1, <1>3, <1>4 DEF KitTypes
<1>6. Grows
  BY <1>1 DEF Grows, Shown
<1>7. Tells
  BY <1>1 DEF Tells, Messages
<1>8. ASSUME NEW v \in KitCalls PROVE KeepsCx(v) /\ KeepsWay(v)
  <2>1. KeepsCx(v)
    BY <1>1, <1>3, CxKept
  <2>2. Settled(v) => Settled(v)' \/ ~Waits(v)'
    <3>1. CASE Item("endKit", v) = e
      <4>1. e.call = v
        BY <3>1, ItemOK DEF MaybeCall
      <4>. QED BY <1>3, <4>1 DEF Waits
    <3>2. CASE Item("endKit", v) # e
      <4>1. ItemWith("update", v, v) # e
        BY ItemOK DEF MaybeCall
      <4>. QED BY <3>2, <4>1 DEF Settled
    <3>. QED BY <3>1, <3>2
  <2>3. PushComes(v) => PushComes(v)'
    BY <1>1 DEF PushComes
  <2>4. InviteComes(v) => InviteComes(v)'
    <3>1. Item("header", v) # e
      BY ItemOK DEF MaybeCall
    <3>. QED BY <1>1, <3>1 DEF InviteComes
  <2>5. Live(v)' = Live(v)
    BY <1>1 DEF Live
  <2>. QED BY <1>3, <2>1, <2>2, <2>3, <2>4, <2>5 DEF KeepsWay
<1>. QED BY <1>5, <1>6, <1>7, <1>8, Frame

LEMMA FromFlutterHead ==
  ASSUME KitTypes, MatchInv, FromFlutter
  PROVE  \E e \in Items :
           /\ e = Head(toNative) /\ Sound(e)
           /\ toNative' \in Seq(Items) /\ Held(toNative) = Held(toNative') \cup {e}
<1>1. toNative # <<>> /\ toNative' = Tail(toNative) /\ toNative \in Seq(Items)
  BY DEF FromFlutter, KitTypes
<1>2. PICK e \in Items : e = Head(toNative)
  BY <1>1, HeldTail
<1>3. toNative' \in Seq(Items) /\ Held(toNative) = Held(toNative') \cup {e}
  BY <1>1, <1>2, HeldTail
<1>4. e \in Messages
  BY <1>3 DEF Messages
<1>. QED BY <1>2, <1>3, <1>4, MessageSound

LEMMA FromFlutterKeeps ==
  ASSUME KitTypes, MatchInv, FromFlutter
  PROVE  KitTypes' /\ MatchInv'
<1>1. PICK e \in Items :
           /\ e = Head(toNative) /\ Sound(e)
           /\ toNative' \in Seq(Items) /\ Held(toNative) = Held(toNative') \cup {e}
  BY FromFlutterHead
<1>2. matchers' = matchers
  BY DEF FromFlutter
<1>3. \/ e.kind = "header" /\ GetSipHeader(e.call)
      \/ e.kind = "update" /\ UpdateDetails(e.call, e.id)
      \/ e.kind = "endKit" /\ EndKitCall(e.call)
  BY <1>1 DEF FromFlutter
<1>. QED BY <1>1, <1>2, <1>3, HeaderKeeps, UpdateKeeps, EndKitKeeps

-----------------------------------------------------------------------------
(* The app's matchers.                                                     *)

(* What a step of the app does for u.                                      *)
Matches(u) ==
  /\ MatcherOK(u)'
  /\ Settled(u) => Settled(u)'
  /\ Waits(u) /\ (PushComes(u) \/ matchers[u].uuid = u) =>
       PushComes(u)' \/ matchers'[u].uuid = u \/ Settled(u)'
  /\ Live(u) /\ (InviteComes(u) \/ matchers[u].id = u) =>
       InviteComes(u)' \/ matchers'[u].id = u
  /\ Waits(u) /\ matchers'[u].uuid = u /\ matchers'[u].id = u =>
       Settled(u)' \/ (matchers[u].uuid = u /\ matchers[u].id = u)

AppOnly == UNCHANGED <<dialog, kit, looper, cxQ>>

LEMMA AppFrame ==
  ASSUME KitTypes, MatchInv, AppOnly, Tells,
         toFlutter' \in Seq(Items), toNative' \in Seq(Items),
         matchers' \in [MaybeCall -> Matcher], matchers'[NoCall].uuid = NoCall,
         \A u \in KitCalls : Matches(u)
  PROVE  KitTypes' /\ MatchInv'
<1>1. /\ dialog' = dialog /\ cx' = cx /\ callsList' = callsList
      /\ cxShown' = cxShown /\ looper' = looper /\ cxQ' = cxQ
  BY DEF AppOnly, kit
<1>2. KitTypes'
  BY <1>1 DEF KitTypes
<1>3. Grows
  BY <1>1 DEF Grows, Shown
<1>4. \A m \in Messages' : Sound(m)'
  <2>. SUFFICES ASSUME NEW m \in Messages', m \in Messages PROVE Sound(m)'
    BY DEF Tells
  <2>1. m \in Items /\ Sound(m)
    BY MessageTypes DEF MatchInv, OwnInv
  <2>. QED BY <1>3, <2>1, SoundStays
<1>5. ASSUME NEW u \in KitCalls PROVE CxOK(u)'
  <2>1. CxOK(u)
    BY DEF MatchInv, OwnInv
  <2>. QED BY <1>1, <2>1 DEF CxOK, Shown
<1>6. OwnInv'
  BY <1>4, <1>5 DEF OwnInv, Matches
<1>7. \A u \in KitCalls : Waits(u)' = Waits(u) /\ Live(u)' = Live(u)
  BY <1>1 DEF Waits, Live
<1>8. PushKnown'
  <2>. SUFFICES ASSUME NEW u \in KitCalls, Waits(u)'
                PROVE  PushComes(u)' \/ (matchers[u].uuid = u)' \/ Settled(u)'
    BY DEF PushKnown
  <2>1. Waits(u) /\ Matches(u)
    BY <1>7
  <2>2. PushComes(u) \/ matchers[u].uuid = u \/ Settled(u)
    BY <2>1 DEF MatchInv, PushKnown
  <2>. QED BY <2>1, <2>2 DEF Matches
<1>9. InviteKnown'
  <2>. SUFFICES ASSUME NEW u \in KitCalls, Live(u)', (cx[u].incoming)'
                PROVE  InviteComes(u)' \/ (matchers[u].id = u)'
    BY DEF InviteKnown
  <2>1. Live(u) /\ cx[u].incoming /\ Matches(u)
    BY <1>1, <1>7
  <2>2. InviteComes(u) \/ matchers[u].id = u
    BY <2>1 DEF MatchInv, InviteKnown
  <2>. QED BY <2>1, <2>2 DEF Matches
<1>10. BothKnown'
  <2>. SUFFICES ASSUME NEW u \in KitCalls, Waits(u)', (matchers[u].uuid = u)',
                       (matchers[u].id = u)'
                PROVE  Settled(u)'
    BY DEF BothKnown
  <2>1. Waits(u) /\ Matches(u)
    BY <1>7
  <2>2. matchers[u].uuid = u /\ matchers[u].id = u => Settled(u)
    BY <2>1 DEF MatchInv, BothKnown
  <2>. QED BY <2>1, <2>2 DEF Matches
<1>. QED BY <1>2, <1>6, <1>8, <1>9, <1>10 DEF MatchInv

(* The app takes message e, and may send s to the plugin.                  *)
Takes(e) == /\ e \in Items /\ Sound(e) /\ AppOnly
            /\ toFlutter' \in Seq(Items)
            /\ Held(toFlutter) = Held(toFlutter') \cup {e}

LEMMA SendIs ==
  ASSUME KitTypes, NEW s \in Items, SendNative(s)
  PROVE  toNative' \in Seq(Items) /\ Held(toNative') = Held(toNative) \cup {s}
  BY HeldAppend DEF SendNative, KitTypes

LEMMA MatcherIs ==
  ASSUME KitTypes, MatchInv, NEW u \in KitCalls
  PROVE  /\ MatcherOK(u) /\ matchers[u] \in Matcher /\ u # NoCall
         /\ Shown(u) \in BOOLEAN /\ matchers[u].known \in BOOLEAN
  BY KitAssumption DEF MatchInv, OwnInv, KitTypes, Matcher, MaybeCall, Shown

LEMMA MatcherStays ==
  ASSUME KitTypes, MatchInv, AppOnly, NEW u \in KitCalls, matchers'[u] = matchers[u]
  PROVE  MatcherOK(u)'
<1>1. MatcherOK(u) /\ dialog' = dialog /\ cxShown' = cxShown
  BY MatcherIs DEF AppOnly, kit
<1>. QED BY <1>1 DEF MatcherOK, Shown

(* A matcher that stays, of a call whose messages stay.                    *)
LEMMA OthersMatch ==
  ASSUME KitTypes, MatchInv, NEW e, Takes(e), NEW u \in KitCalls, e.call # u,
         matchers'[u] = matchers[u], Held(toNative) \subseteq Held(toNative')
  PROVE  Matches(u)
<1>1. looper' = looper /\ e \in Items /\ Held(toFlutter) = Held(toFlutter') \cup {e}
  BY DEF Takes, AppOnly
<1>2. MatcherOK(u)'
  BY MatcherStays DEF Takes
<1>3. /\ Item("push", u) # e /\ Item("incoming", u) # e
      /\ ItemWith("header", u, u) # e
  BY ItemOK DEF MaybeCall
<1>4. Settled(u) => Settled(u)'
  BY DEF Settled
<1>5. PushComes(u) => PushComes(u)'
  BY <1>1, <1>3 DEF PushComes
<1>6. InviteComes(u) => InviteComes(u)'
  BY <1>1, <1>3 DEF InviteComes
<1>. QED BY <1>2, <1>4, <1>5, <1>6 DEF Matches

LEMMA PushMatches ==
  ASSUME KitTypes, MatchInv, NEW e, Takes(e), e.kind = "push", OnIncomingPush(e.call)
  PROVE  KitTypes' /\ MatchInv'
<1>1. PICK c \in KitCalls : c = e.call /\ Shown(c)
  BY DEF Takes, Sound
<1>2. MatcherOK(c) /\ matchers[c] \in Matcher /\ c # NoCall
  BY MatcherIs
<1>3. PICK d \in MaybeCall : d = matchers[c].id
  BY <1>2 DEF Matcher
<1>4. PICK s \in Items : /\ s = ItemWith("update", c, d)
                         /\ s.kind = "update" /\ s.call = c /\ s.id = d
  BY ItemOK DEF MaybeCall
<1>5. SendNative(s)
  BY <1>1, <1>3, <1>4 DEF OnIncomingPush
<1>6. toNative' \in Seq(Items) /\ Held(toNative') = Held(toNative) \cup {s}
  BY <1>5, SendIs
<1>7. dialog' = dialog /\ looper' = looper /\ cxShown' = cxShown /\ AppOnly
  BY DEF Takes, AppOnly, kit
<1>8. /\ toFlutter' \in Seq(Items) /\ Held(toFlutter) = Held(toFlutter') \cup {e}
  BY DEF Takes
<1>9. Tells
  <2>1. Sound(s)'
    BY <1>2, <1>3, <1>4, <1>7 DEF Sound, MatcherOK
  <2>. QED BY <1>6, <1>7, <1>8, <2>1 DEF Tells, Messages
<1>10. PICK r \in Matcher : r = [known |-> TRUE, uuid |-> c, id |-> NoCall]
  BY DEF Matcher, MaybeCall
<1>11. r.known = TRUE /\ r.uuid = c /\ r.id = NoCall
  BY <1>10
<1>12. matchers' = IF matchers[c].known THEN matchers ELSE [matchers EXCEPT ![c] = r]
  BY <1>1, <1>10 DEF OnIncomingPush
<1>13. /\ matchers' \in [MaybeCall -> Matcher]
       /\ \A h \in MaybeCall : h # c => matchers'[h] = matchers[h]
       /\ matchers'[c] = IF matchers[c].known THEN matchers[c] ELSE r
  BY <1>12 DEF KitTypes, MaybeCall
<1>14. matchers'[NoCall].uuid = NoCall
  BY <1>2, <1>13 DEF MatchInv, OwnInv, MaybeCall
<1>15. ASSUME NEW u \in KitCalls PROVE Matches(u)
  <2>1. CASE u # c
    BY <1>1, <1>6, <1>13, <2>1, OthersMatch DEF MaybeCall
  <2>2. CASE u = c
    <3>1. Settled(c) => Settled(c)'
      BY <1>6 DEF Settled
    <3>2. InviteComes(c) => InviteComes(c)'
      <4>1. Item("incoming", c) # e /\ ItemWith("header", c, c) # e
        BY ItemOK DEF MaybeCall
      <4>. QED BY <1>6, <1>7, <1>8, <4>1 DEF InviteComes
    <3>3. matchers[c].id = c => Settled(c)'
      BY <1>3, <1>4, <1>6 DEF Settled
    <3>4. CASE matchers[c].known
      <4>1. matchers'[c] = matchers[c]
        BY <1>13, <3>4
      <4>2. matchers[c].uuid = c \/ matchers[c].id = c
        BY <1>2, <3>4 DEF MatcherOK
      <4>3. MatcherOK(c)'
        BY <1>7, <4>1, MatcherStays
      <4>4. Matches(c)
        BY <3>1, <3>2, <3>3, <4>1, <4>2, <4>3 DEF Matches
      <4>. QED BY <2>2, <4>4
    <3>5. CASE ~matchers[c].known
      <4>1. matchers'[c] = r /\ matchers[c].id # c
        BY <1>2, <1>13, <3>5 DEF MatcherOK
      <4>2. MatcherOK(c)'
        BY <1>1, <1>2, <1>7, <1>11, <4>1 DEF MatcherOK, Shown
      <4>3. Matches(c)
        BY <1>2, <1>11, <3>1, <3>2, <4>1, <4>2 DEF Matches
      <4>. QED BY <2>2, <4>3
    <3>. QED BY <3>4, <3>5
  <2>. QED BY <2>1, <2>2
<1>. QED BY <1>6, <1>7, <1>8, <1>9, <1>13, <1>14, <1>15, AppFrame

LEMMA IncomingMatches ==
  ASSUME KitTypes, MatchInv, NEW e, Takes(e), e.kind = "incoming",
         SendNative(Item("header", e.call)), matchers' = matchers
  PROVE  KitTypes' /\ MatchInv'
<1>1. PICK c \in KitCalls : c = e.call /\ dialog[c] # "none"
  BY DEF Takes, Sound
<1>2. PICK s \in Items : /\ s = Item("header", c) /\ s.kind = "header"
                         /\ s.call = c /\ s.id = NoCall
  BY ItemOK DEF MaybeCall
<1>3. toNative' \in Seq(Items) /\ Held(toNative') = Held(toNative) \cup {s}
  BY <1>1, <1>2, SendIs
<1>4. dialog' = dialog /\ looper' = looper /\ cxShown' = cxShown /\ AppOnly
  BY DEF Takes, AppOnly, kit
<1>5. toFlutter' \in Seq(Items) /\ Held(toFlutter) = Held(toFlutter') \cup {e}
  BY DEF Takes
<1>6. Tells
  <2>1. Sound(s)'
    BY <1>1, <1>2, <1>4 DEF Sound
  <2>. QED BY <1>3, <1>4, <1>5, <2>1 DEF Tells, Messages
<1>7. /\ matchers' \in [MaybeCall -> Matcher] /\ matchers'[NoCall].uuid = NoCall
  BY DEF KitTypes, MatchInv, OwnInv
<1>8. ASSUME NEW u \in KitCalls PROVE Matches(u)
  <2>1. CASE u # c
    BY <1>1, <1>3, <2>1, OthersMatch
  <2>2. CASE u = c
    <3>1. Settled(c) => Settled(c)'
      BY <1>3 DEF Settled
    <3>2. InviteComes(c)'
      BY <1>2, <1>3 DEF InviteComes
    <3>3. PushComes(c) => PushComes(c)'
      <4>1. Item("push", c) # e
        BY ItemOK DEF MaybeCall
      <4>. QED BY <1>5, <4>1 DEF PushComes
    <3>4. MatcherOK(c)'
      BY <1>4, MatcherStays
    <3>5. Matches(c)
      BY <3>1, <3>2, <3>3, <3>4 DEF Matches
    <3>. QED BY <2>2, <3>5
  <2>. QED BY <2>1, <2>2
<1>. QED BY <1>3, <1>4, <1>5, <1>6, <1>7, <1>8, AppFrame

LEMMA ConnectedMatches ==
  ASSUME KitTypes, MatchInv, NEW e, Takes(e), e.kind = "connected",
         UNCHANGED <<matchers, toNative>>
  PROVE  KitTypes' /\ MatchInv'
<1>1. looper' = looper /\ AppOnly /\ toNative' = toNative /\ matchers' = matchers
  BY DEF Takes, AppOnly
<1>2. toFlutter' \in Seq(Items) /\ Held(toFlutter) = Held(toFlutter') \cup {e}
  BY DEF Takes
<1>3. Tells
  BY <1>1, <1>2 DEF Tells, Messages
<1>4. /\ matchers' \in [MaybeCall -> Matcher] /\ matchers'[NoCall].uuid = NoCall
      /\ toNative' \in Seq(Items)
  BY <1>1 DEF KitTypes, MatchInv, OwnInv
<1>5. ASSUME NEW u \in KitCalls PROVE Matches(u)
  <2>1. /\ Item("push", u) # e /\ Item("incoming", u) # e
        /\ ItemWith("header", u, u) # e
    BY ItemOK DEF MaybeCall
  <2>2. Settled(u)' = Settled(u)
    BY <1>1 DEF Settled
  <2>3. PushComes(u) => PushComes(u)'
    BY <1>2, <2>1 DEF PushComes
  <2>4. InviteComes(u) => InviteComes(u)'
    BY <1>1, <1>2, <2>1 DEF InviteComes
  <2>5. MatcherOK(u)'
    BY <1>1, MatcherStays
  <2>. QED BY <1>1, <2>2, <2>3, <2>4, <2>5 DEF Matches
<1>. QED BY <1>1, <1>2, <1>3, <1>4, <1>5, AppFrame

LEMMA TerminatedMatches ==
  ASSUME KitTypes, MatchInv, NEW e, Takes(e), e.kind = "terminated",
         matchers' = [h \in MaybeCall |-> IF matchers[h].id = e.call
                                          THEN NoMatcher ELSE matchers[h]],
         UNCHANGED toNative
  PROVE  KitTypes' /\ MatchInv'
<1>1. PICK c \in KitCalls : c = e.call /\ dialog[c] = "gone"
  BY DEF Takes, Sound
<1>2. looper' = looper /\ dialog' = dialog /\ AppOnly /\ toNative' = toNative
  BY DEF Takes, AppOnly
<1>3. toFlutter' \in Seq(Items) /\ Held(toFlutter) = Held(toFlutter') \cup {e}
  BY DEF Takes
<1>4. Tells
  BY <1>2, <1>3 DEF Tells, Messages
<1>5. /\ NoMatcher \in Matcher /\ NoMatcher.uuid = NoCall /\ NoMatcher.id = NoCall
      /\ NoMatcher.known = FALSE
  BY DEF NoMatcher, Matcher, MaybeCall
<1>6. /\ matchers' \in [MaybeCall -> Matcher]
      /\ \A h \in MaybeCall : \/ matchers'[h] = matchers[h]
                              \/ matchers'[h] = NoMatcher /\ matchers[h].id = c
  BY <1>1, <1>5 DEF KitTypes
<1>7. matchers'[NoCall].uuid = NoCall /\ toNative' \in Seq(Items)
  <2>1. matchers[NoCall].uuid = NoCall
    BY DEF MatchInv, OwnInv
  <2>. QED BY <1>2, <1>5, <1>6, <2>1 DEF MaybeCall, KitTypes
<1>8. ASSUME NEW u \in KitCalls PROVE Matches(u)
  <2>1. MatcherOK(u) /\ u # NoCall
    BY MatcherIs
  <2>2. CASE u # c
    <3>1. matchers'[u] = matchers[u]
      <4>1. matchers[u].id # c
        BY <2>1, <2>2, KitAssumption DEF MatcherOK
      <4>. QED BY <1>6, <4>1 DEF MaybeCall
    <3>. QED BY <1>1, <1>2, <2>2, <3>1, OthersMatch
  <2>3. CASE u = c
    <3>1. ~Waits(u) /\ ~Live(u)
      BY <1>1, <2>3 DEF Waits, Live
    <3>2. Settled(u)' = Settled(u)
      BY <1>2 DEF Settled
    <3>3. MatcherOK(u)'
      <4>1. CASE matchers'[u] = matchers[u]
        BY <1>2, <4>1, MatcherStays
      <4>2. CASE matchers'[u] = NoMatcher
        BY <1>5, <2>1, <4>2 DEF MatcherOK
      <4>. QED BY <1>6, <4>1, <4>2 DEF MaybeCall
    <3>. QED BY <3>1, <3>2, <3>3 DEF Matches
  <2>. QED BY <2>2, <2>3
<1>. QED BY <1>2, <1>3, <1>4, <1>6, <1>7, <1>8, AppFrame

LEMMA MatcherWithId ==
  ASSUME NEW m \in Matcher, NEW c \in MaybeCall
  PROVE  \E r \in Matcher : /\ r = [m EXCEPT !.id = c]
                            /\ r.uuid = m.uuid /\ r.id = c /\ r.known = m.known
<1>1. [m EXCEPT !.id = c] \in Matcher
  BY DEF Matcher
<1>2. /\ [m EXCEPT !.id = c].uuid = m.uuid /\ [m EXCEPT !.id = c].id = c
      /\ [m EXCEPT !.id = c].known = m.known
  BY DEF Matcher
<1>. QED BY <1>1, <1>2

LEMMA NewMatcher ==
  ASSUME NEW c \in MaybeCall
  PROVE  /\ [known |-> TRUE, uuid |-> NoCall, id |-> c] \in Matcher
         /\ [known |-> TRUE, uuid |-> NoCall, id |-> c].uuid = NoCall
         /\ [known |-> TRUE, uuid |-> NoCall, id |-> c].id = c
         /\ [known |-> TRUE, uuid |-> NoCall, id |-> c].known = TRUE
  BY DEF Matcher, MaybeCall

LEMMA NoHintMatches ==
  ASSUME KitTypes, MatchInv, NEW e, Takes(e), e.kind = "header", e.id = NoCall,
         OnHint(e.call, NoCall)
  PROVE  KitTypes' /\ MatchInv'
<1>1. PICK c \in KitCalls : c = e.call
  BY DEF Takes, Sound
<1>2. looper' = looper /\ AppOnly
  BY DEF Takes, AppOnly
<1>3. toFlutter' \in Seq(Items) /\ Held(toFlutter) = Held(toFlutter') \cup {e}
  BY DEF Takes
<1>4. NoCall \in MaybeCall /\ c \in MaybeCall /\ NoCall \notin KitCalls
      /\ matchers[NoCall].uuid = NoCall /\ matchers[NoCall] \in Matcher
  BY KitAssumption DEF MaybeCall, MatchInv, OwnInv, KitTypes
<1>5. PICK r \in Matcher : /\ r = [matchers[NoCall] EXCEPT !.id = c]
                           /\ r.uuid = NoCall
  <2>1. PICK m \in Matcher : m = matchers[NoCall] /\ m.uuid = NoCall
    BY <1>4
  <2>2. PICK r \in Matcher : r = [m EXCEPT !.id = c] /\ r.uuid = m.uuid
    BY <1>4, MatcherWithId
  <2>. QED BY <2>1, <2>2
<1>6. PICK s \in Matcher : /\ s = [known |-> TRUE, uuid |-> NoCall, id |-> c]
                           /\ s.uuid = NoCall
  BY <1>4, NewMatcher
<1>7. toNative' = toNative
  BY <1>4 DEF OnHint
<1>8. matchers' = [matchers EXCEPT ![NoCall] = r] \/ matchers' = [matchers EXCEPT ![NoCall] = s]
  <2>1. CASE matchers[NoCall].known
    <3>1. matchers' = [matchers EXCEPT ![NoCall].id = c]
      BY <1>1, <2>1 DEF OnHint
    <3>. QED BY <1>4, <1>5, <3>1 DEF KitTypes
  <2>2. CASE ~matchers[NoCall].known
    BY <1>1, <1>6, <2>2 DEF OnHint
  <2>. QED BY <2>1, <2>2
<1>9. /\ matchers' \in [MaybeCall -> Matcher] /\ matchers'[NoCall].uuid = NoCall
      /\ \A u \in KitCalls : matchers'[u] = matchers[u]
  <2>1. PICK t \in Matcher : t.uuid = NoCall /\ matchers' = [matchers EXCEPT ![NoCall] = t]
    BY <1>5, <1>6, <1>8
  <2>2. matchers \in [MaybeCall -> Matcher]
    BY DEF KitTypes
  <2>3. matchers' \in [MaybeCall -> Matcher] /\ matchers'[NoCall] = t
    BY <1>4, <2>1, <2>2
  <2>4. \A u \in KitCalls : u \in MaybeCall /\ u # NoCall
    BY KitAssumption DEF MaybeCall
  <2>. QED BY <2>1, <2>2, <2>3, <2>4
<1>10. Tells
  BY <1>2, <1>3, <1>7 DEF Tells, Messages
<1>11. ASSUME NEW u \in KitCalls PROVE Matches(u)
  <2>1. /\ Item("push", u) # e /\ Item("incoming", u) # e
        /\ ItemWith("header", u, u) # e
    BY <1>4, ItemOK DEF MaybeCall
  <2>2. Settled(u)' = Settled(u)
    BY <1>7 DEF Settled
  <2>3. PushComes(u) => PushComes(u)'
    BY <1>3, <2>1 DEF PushComes
  <2>4. InviteComes(u) => InviteComes(u)'
    BY <1>2, <1>3, <1>7, <2>1 DEF InviteComes
  <2>5. MatcherOK(u)'
    BY <1>2, <1>9, MatcherStays
  <2>. QED BY <1>9, <2>2, <2>3, <2>4, <2>5 DEF Matches
<1>12. toNative' \in Seq(Items)
  BY <1>7 DEF KitTypes
<1>. QED BY <1>2, <1>3, <1>9, <1>10, <1>11, <1>12, AppFrame

LEMMA OwnHintMatches ==
  ASSUME KitTypes, MatchInv, NEW e, Takes(e), e.kind = "header", e.id = e.call,
         OnHint(e.call, e.id)
  PROVE  KitTypes' /\ MatchInv'
<1>1. PICK c \in KitCalls : c = e.call /\ dialog[c] # "none"
  BY DEF Takes, Sound
<1>2. MatcherOK(c) /\ matchers[c] \in Matcher /\ c # NoCall /\ c \in MaybeCall
  BY MatcherIs DEF MaybeCall
<1>3. looper' = looper /\ dialog' = dialog /\ cxShown' = cxShown /\ AppOnly
  BY DEF Takes, AppOnly, kit
<1>4. toFlutter' \in Seq(Items) /\ Held(toFlutter) = Held(toFlutter') \cup {e}
  BY DEF Takes
<1>5. PICK s \in Items : /\ s = ItemWith("update", c, c)
                         /\ s.kind = "update" /\ s.call = c /\ s.id = c
  BY ItemOK DEF MaybeCall
<1>6. PICK r \in Matcher : /\ r = IF matchers[c].known THEN [matchers[c] EXCEPT !.id = c]
                                  ELSE [known |-> TRUE, uuid |-> NoCall, id |-> c]
                           /\ r.known = TRUE /\ r.id = c
                           /\ r.uuid = IF matchers[c].known THEN matchers[c].uuid ELSE NoCall
  <2>1. CASE matchers[c].known
    <3>1. PICK m \in Matcher : m = matchers[c] /\ m.known = TRUE
      BY <1>2, <2>1 DEF Matcher
    <3>2. PICK r \in Matcher : /\ r = [m EXCEPT !.id = c]
                               /\ r.uuid = m.uuid /\ r.id = c /\ r.known = m.known
      BY <1>2, MatcherWithId
    <3>. QED BY <2>1, <3>1, <3>2
  <2>2. CASE ~matchers[c].known
    BY <1>2, <2>2, NewMatcher
  <2>. QED BY <2>1, <2>2
<1>7. matchers' = [matchers EXCEPT ![c] = r]
  <2>1. CASE matchers[c].known
    <3>1. matchers' = [matchers EXCEPT ![c].id = c]
      BY <1>1, <2>1 DEF OnHint
    <3>. QED BY <1>2, <1>6, <2>1, <3>1 DEF KitTypes
  <2>2. CASE ~matchers[c].known
    BY <1>1, <1>6, <2>2 DEF OnHint
  <2>. QED BY <2>1, <2>2
<1>8. /\ matchers' \in [MaybeCall -> Matcher] /\ matchers'[c] = r
      /\ \A h \in MaybeCall : h # c => matchers'[h] = matchers[h]
  BY <1>2, <1>7 DEF KitTypes
<1>9. /\ matchers[c].known /\ matchers[c].uuid = c => SendNative(s)
      /\ SendNative(s) \/ toNative' = toNative
  BY <1>1, <1>2, <1>5 DEF OnHint, MatcherOK
<1>10. /\ toNative' \in Seq(Items)
       /\ Held(toNative) \subseteq Held(toNative')
       /\ Held(toNative') \subseteq Held(toNative) \cup {s}
       /\ SendNative(s) => s \in Held(toNative')
  <2>1. CASE SendNative(s)
    BY <2>1, SendIs
  <2>2. CASE ~SendNative(s)
    BY <1>9, <2>2 DEF KitTypes
  <2>. QED BY <2>1, <2>2
<1>11. Tells
  <2>1. Sound(s)'
    BY <1>1, <1>3, <1>5 DEF Sound
  <2>. QED BY <1>3, <1>4, <1>10, <2>1 DEF Tells, Messages
<1>12. matchers'[NoCall].uuid = NoCall
  BY <1>2, <1>8 DEF MatchInv, OwnInv, MaybeCall
<1>13. ASSUME NEW u \in KitCalls PROVE Matches(u)
  <2>1. CASE u # c
    BY <1>1, <1>8, <1>10, <2>1, OthersMatch DEF MaybeCall
  <2>2. CASE u = c
    <3>1. Settled(c) => Settled(c)'
      BY <1>10 DEF Settled
    <3>2. PushComes(c) => PushComes(c)'
      <4>1. Item("push", c) # e
        BY ItemOK DEF MaybeCall
      <4>. QED BY <1>4, <4>1 DEF PushComes
    <3>3. matchers[c].uuid = c => matchers[c].known /\ r.uuid = c
      BY <1>2, <1>6 DEF MatcherOK
    <3>4. r.uuid = c => Settled(c)'
      <4>1. r.uuid = c => matchers[c].known /\ matchers[c].uuid = c
        BY <1>2, <1>6
      <4>. QED BY <1>5, <1>9, <1>10, <4>1 DEF Settled
    <3>5. MatcherOK(c)'
      <4>1. r.uuid \in {c, NoCall} /\ (r.uuid = c => Shown(c))
        BY <1>2, <1>6 DEF MatcherOK
      <4>. QED BY <1>1, <1>3, <1>6, <1>8, <4>1 DEF MatcherOK, Shown
    <3>6. Matches(c)
      BY <1>6, <1>8, <3>1, <3>2, <3>3, <3>4, <3>5 DEF Matches
    <3>. QED BY <2>2, <3>6
  <2>. QED BY <2>1, <2>2
<1>. QED BY <1>3, <1>4, <1>8, <1>10, <1>11, <1>12, <1>13, AppFrame

LEMMA FlutterKeeps ==
  ASSUME KitTypes, MatchInv, Flutter
  PROVE  KitTypes' /\ MatchInv'
<1>1. toFlutter # <<>> /\ toFlutter' = Tail(toFlutter) /\ toFlutter \in Seq(Items)
  BY DEF Flutter, KitTypes
<1>2. PICK e \in Items : e = Head(toFlutter)
  BY <1>1, HeldTail
<1>3. toFlutter' \in Seq(Items) /\ Held(toFlutter) = Held(toFlutter') \cup {e}
  BY <1>1, <1>2, HeldTail
<1>4. Sound(e)
  BY <1>3, MessageSound DEF Messages
<1>5. Takes(e)
  BY <1>3, <1>4 DEF Takes, AppOnly, Flutter
<1>6. \/ e.kind = "push" /\ OnIncomingPush(e.call)
      \/ e.kind = "incoming" /\ SendNative(Item("header", e.call)) /\ UNCHANGED matchers
      \/ e.kind = "header" /\ OnHint(e.call, e.id)
      \/ e.kind = "connected" /\ UNCHANGED <<matchers, toNative>>
      \/ /\ e.kind = "terminated"
         /\ matchers' = [h \in MaybeCall |-> IF matchers[h].id = e.call
                                             THEN NoMatcher ELSE matchers[h]]
         /\ UNCHANGED toNative
  BY <1>2 DEF Flutter
<1>7. e.kind = "header" => e.id \in {e.call, NoCall}
  BY <1>4 DEF Sound
<1>. QED BY <1>5, <1>6, <1>7, PushMatches, IncomingMatches, NoHintMatches,
            OwnHintMatches, ConnectedMatches, TerminatedMatches

LEMMA TimerKeeps ==
  ASSUME KitTypes, MatchInv, NEW c \in KitCalls, Timer(c)
  PROVE  KitTypes' /\ MatchInv'
<1>1. MatcherOK(c) /\ matchers[c] \in Matcher /\ c # NoCall /\ c \in MaybeCall
  BY MatcherIs DEF MaybeCall
<1>2. /\ matchers[c].known /\ matchers[c].id = NoCall /\ matchers[c].uuid = c
      /\ matchers' = [matchers EXCEPT ![c] = NoMatcher]
      /\ SendNative(Item("endKit", c))
      /\ AppOnly /\ toFlutter' = toFlutter /\ looper' = looper
  BY <1>1 DEF Timer, MatcherOK, AppOnly
<1>3. PICK s \in Items : s = Item("endKit", c) /\ s.kind = "endKit" /\ s.call = c
  BY <1>1, ItemOK
<1>4. toNative' \in Seq(Items) /\ Held(toNative') = Held(toNative) \cup {s}
  BY <1>2, <1>3, SendIs
<1>5. Tells
  <2>1. Sound(s)'
    BY <1>3 DEF Sound
  <2>. QED BY <1>2, <1>4, <2>1 DEF Tells, Messages
<1>6. /\ NoMatcher \in Matcher /\ NoMatcher.uuid = NoCall /\ NoMatcher.id = NoCall
      /\ NoMatcher.known = FALSE
  BY DEF NoMatcher, Matcher, MaybeCall
<1>7. /\ matchers' \in [MaybeCall -> Matcher] /\ matchers'[c] = NoMatcher
      /\ \A h \in MaybeCall : h # c => matchers'[h] = matchers[h]
  BY <1>1, <1>2, <1>6 DEF KitTypes
<1>8. matchers'[NoCall].uuid = NoCall
  BY <1>1, <1>7 DEF MatchInv, OwnInv, MaybeCall
<1>9. ASSUME NEW u \in KitCalls PROVE Matches(u)
  <2>1. Settled(u) => Settled(u)'
    BY <1>4 DEF Settled
  <2>2. PushComes(u)' = PushComes(u) /\ (InviteComes(u) => InviteComes(u)')
    BY <1>2, <1>4 DEF PushComes, InviteComes
  <2>3. CASE u # c
    <3>1. matchers'[u] = matchers[u]
      BY <1>7, <2>3 DEF MaybeCall
    <3>2. MatcherOK(u)'
      BY <1>2, <3>1, MatcherStays
    <3>. QED BY <2>1, <2>2, <3>1, <3>2 DEF Matches
  <2>4. CASE u = c
    <3>1. Settled(c)'
      BY <1>3, <1>4 DEF Settled
    <3>2. MatcherOK(c)'
      BY <1>1, <1>6, <1>7 DEF MatcherOK
    <3>3. Matches(c)
      BY <1>1, <1>2, <2>2, <2>4, <3>1, <3>2 DEF Matches
    <3>. QED BY <2>4, <3>3
  <2>. QED BY <2>3, <2>4
<1>10. toFlutter' \in Seq(Items)
  BY <1>2 DEF KitTypes
<1>. QED BY <1>2, <1>4, <1>5, <1>7, <1>8, <1>9, <1>10, AppFrame

-----------------------------------------------------------------------------
(* The theorems.                                                           *)

LEMMA KitStarts ==
  ASSUME KitInit
  PROVE  KitTypes /\ MatchInv
<1>1. KitTypes
  <2>1. NewCx(NoCall, TRUE) \in CxModel /\ NoMatcher \in Matcher
    BY NewCxIs DEF MaybeCall, NoMatcher, Matcher
  <2>2. /\ dialog \in [KitCalls -> Dialogs] /\ cxShown \in [KitCalls -> Screens]
        /\ callsList \subseteq {c \in KitCalls : cxShown[c] # "none"}
    BY DEF KitInit, Dialogs, Screens
  <2>3. /\ looper \in Seq(Items) /\ cxQ \in Seq(Items)
        /\ toFlutter \in Seq(Items) /\ toNative \in Seq(Items)
    BY DEF KitInit
  <2>4. cx \in [KitCalls -> CxModel] /\ matchers \in [MaybeCall -> Matcher]
    BY <2>1 DEF KitInit
  <2>. QED BY <2>2, <2>3, <2>4 DEF KitTypes
<1>2. Messages = {}
  BY DEF KitInit, Messages, Held
<1>3. \A h \in MaybeCall : matchers[h].known = FALSE /\ matchers[h].uuid = NoCall
                           /\ matchers[h].id = NoCall
  BY DEF KitInit, NoMatcher
<1>4. \A h \in KitCalls : MatcherOK(h)
  BY <1>3, KitAssumption DEF MatcherOK, MaybeCall
<1>5. ASSUME NEW u \in KitCalls PROVE CxOK(u)
  <2>1. /\ cx[u].id = NoCall /\ cx[u].incoming = TRUE /\ u # NoCall
        /\ u \notin callsList
    BY NewCxIs, KitAssumption DEF KitInit, MaybeCall
  <2>. QED BY <2>1 DEF CxOK
<1>6. OwnInv
  BY <1>2, <1>3, <1>4, <1>5 DEF OwnInv, MaybeCall
<1>7. PushKnown /\ InviteKnown /\ BothKnown
  BY DEF KitInit, PushKnown, InviteKnown, BothKnown, Waits, Live
<1>. QED BY <1>1, <1>6, <1>7 DEF MatchInv

LEMMA KitKeeps ==
  ASSUME KitTypes, MatchInv, [KitNext]_kvars
  PROVE  KitTypes' /\ MatchInv'
<1>1. CASE UNCHANGED kvars
  BY <1>1 DEF kvars, KitTypes, MatchInv, OwnInv, Messages, Held, Sound, Shown,
              MatcherOK, CxOK, PushKnown, InviteKnown, BothKnown, Waits, Settled,
              PushComes, InviteComes, Live
<1>2. ASSUME NEW c \in KitCalls, EndsElsewhere(c)
      PROVE  KitTypes' /\ MatchInv'
  <2>1. HangUp(c) /\ UNCHANGED <<kit, channel, matchers>> /\ cxQ' \in Seq(Items)
    BY <1>2 DEF EndsElsewhere, KitTypes
  <2>. QED BY <2>1, HangUpKeeps
<1>. QED BY <1>1, <1>2, InviteKeeps, EstablishedKeeps, PushKeeps, UserAnswersKeeps,
            UserEndsKeeps, DialKeeps, AppAcceptsKeeps, AppEndsKeeps, TimerKeeps,
            PerformKeeps, PostedKeeps, FromFlutterKeeps, FlutterKeeps
         DEF KitNext

LEMMA KitInvariant == KitSafe => [](KitTypes /\ MatchInv)
  BY KitStarts, KitKeeps, PTL DEF KitSafe

LEMMA KitIsSafe == KitSpec => KitSafe
  BY DEF KitSpec

(* The provider, the channel and the matchers of the app keep their types. *)
THEOREM KitTyped == KitSpec => []KitTypeOK
<1>1. KitTypes /\ MatchInv => KitTypeOK
  <2>. SUFFICES ASSUME KitTypes, MatchInv PROVE KitTypeOK
    OBVIOUS
  <2>1. \A u \in callsList : cx[u].answered => cx[u].id = NoCall \/ cx[u].rejected
    BY DEF KitTypes, MatchInv, OwnInv, CxOK
  <2>. QED BY <2>1 DEF KitTypes, KitTypeOK, Dialogs, Screens, CxModel, Matcher
<1>. QED BY <1>1, KitInvariant, KitIsSafe, PTL

LEMMA MatchedAtRest ==
  ASSUME KitTypes, MatchInv
  PROVE  BothMatched
<1>1. \A u \in callsList : cx[u].id \in {u, NoCall}
  BY DEF KitTypes, MatchInv, OwnInv, CxOK
<1>2. ASSUME looper \o toFlutter \o toNative = <<>>, NEW u \in callsList, Live(u),
             cx[u].id # u
      PROVE  FALSE
  <2>1. looper = <<>> /\ toFlutter = <<>> /\ toNative = <<>>
    <3>1. /\ looper \in Seq(Items) /\ toFlutter \in Seq(Items) /\ toNative \in Seq(Items)
      BY DEF KitTypes
    <3>. QED BY <1>2, <3>1
  <2>2. Held(looper) = {} /\ Held(toFlutter) = {} /\ Held(toNative) = {}
    BY <2>1 DEF Held
  <2>3. ~PushComes(u) /\ ~InviteComes(u) /\ ~Settled(u)
    BY <2>2 DEF PushComes, InviteComes, Settled
  <2>4. u \in KitCalls /\ Waits(u)
    BY <1>2 DEF KitTypes, Waits, Live
  <2>5. matchers[u].uuid = u
    BY <2>3, <2>4 DEF MatchInv, PushKnown
  <2>6. cx[u].incoming
    BY <1>2, <2>4 DEF MatchInv, OwnInv, CxOK
  <2>7. matchers[u].id = u
    BY <1>2, <2>3, <2>4, <2>6 DEF MatchInv, InviteKnown
  <2>. QED BY <2>3, <2>4, <2>5, <2>7 DEF MatchInv, BothKnown
<1>. QED BY <1>1, <1>2 DEF BothMatched

(* Whichever of push and INVITE comes first, a CallKit call has the SIP    *)
(* call it announces once nothing is under way, and never another.         *)
THEOREM PushesMatched == KitSpec => []BothMatched
  BY MatchedAtRest, KitInvariant, KitIsSafe, PTL

(* A declined call is not accepted by the provider: neither an action of   *)
(* CallKit nor the match that runs the noted ones accepts it.              *)
THEOREM DeclinesStand == KitSpec => DeclineStands
<1>1. ASSUME KitTypes, MatchInv, Perform \/ FromFlutter, NEW u \in callsList,
             cx[u].rejected, dialog'[u] = "accepted"
      PROVE  dialog[u] = "accepted"
  <2>1. u \in KitCalls
    BY <1>1 DEF KitTypes
  <2>2. Acts \/ dialog' = dialog
    <3>1. CASE Perform
      BY <1>1, <3>1, PerformActs
    <3>2. CASE FromFlutter
      <4>1. PICK e \in Items : e = Head(toNative) /\ Sound(e)
        BY <1>1, <3>2, FromFlutterHead
      <4>2. CASE e.kind = "update" /\ UpdateDetails(e.call, e.id)
        <5>1. e.id # NoCall => e.id = e.call /\ dialog[e.call] # "none"
          BY <4>1, <4>2 DEF Sound
        <5>. QED BY <1>1, <4>2, <5>1, UpdateActs
      <4>3. CASE GetSipHeader(e.call) \/ EndKitCall(e.call)
        BY <4>3 DEF GetSipHeader, EndKitCall
      <4>. QED BY <3>2, <4>1, <4>2, <4>3 DEF FromFlutter
    <3>. QED BY <1>1, <3>1, <3>2
  <2>. QED BY <1>1, <2>1, <2>2 DEF Acts
<1>2. KitTypes /\ MatchInv =>
        [Perform \/ FromFlutter =>
           \A u \in callsList : cx[u].rejected =>
             (dialog'[u] = "accepted" => dialog[u] = "accepted")]_kvars
  BY <1>1
<1>. QED BY <1>2, KitInvariant, KitIsSafe, PTL DEF DeclineStands
=============================================================================
