---------------------------- MODULE ListsProofs -----------------------------
(***************************************************************************)
(* Proofs about the lists of the Dart models: the accounts and the         *)
(* subscriptions, for any number of them, with the process killed at any   *)
(* moment, the recent calls and the audio devices.                         *)
(***************************************************************************)
EXTENDS AccountsModel, Subscriptions, Cdrs, DevicesList, FiniteSetTheorems, TLAPS

-----------------------------------------------------------------------------
(* Accounts.  One method at a time, and no restart of the activity alone;  *)
(* an empty list is not loaded.                                            *)

Sequential == ~AccOverlap /\ ~EmptyRestored /\ Restarts \subseteq {"process"}

ListRegs  == {"none", "inProgress", "success", "failed", "removed"}
RegAnswers == {"success", "failed", "removed"}
EngAcc    == [uri: Uris, reg: EngRegs]
Requests  == [m: Methods, at: Nat, acc: Accs]
Replies   == [m: Methods, ok: BOOLEAN, at: Nat, acc: Accs]
States    == [m: {"regState"}, id: AccIds, reg: RegAnswers]
Signs     == [m: {"restored"}]
AccBlocks == Requests \cup States \cup Signs
Arrivals  == Replies \cup States

AccTypes ==
  /\ DOMAIN engAccs \subseteq AccIds /\ engAccs \in [DOMAIN engAccs -> EngAcc]
  /\ nextAccId \in 1..MaxAccIds + 1
  /\ accountsIds \subseteq 0..MaxAccIds /\ pendingIntents \subseteq AccIds
  /\ toPlugin \in Seq(AccBlocks) /\ toAccModel \in Seq(Arrivals)
  /\ accList \in Seq(Accs) /\ selIdx \in Nat /\ loadSel \in Nat
  /\ toLoad \in Seq(Uris) /\ saveDue \in BOOLEAN
  /\ savedAccs \in [uris: Seq(Uris), sel: Nat]

Adds == {"add", "load"}
Listed == {accList[i].id : i \in DOMAIN accList}

(* Nothing is under way, or one method, which waits for the engine or for  *)
(* Dart; meanwhile no change waits to be saved.                            *)
NoMethod(q)   == \A i \in DOMAIN q : ~IsMethod(q[i])
Only(q, r)    == /\ IsMethod(r) /\ \E i \in DOMAIN q : q[i] = r
                 /\ \A i, j \in DOMAIN q : IsMethod(q[i]) /\ IsMethod(q[j]) => i = j
Free          == NoMethod(toPlugin) /\ NoMethod(toAccModel)
Asked(r)      == Only(toPlugin, r) /\ NoMethod(toAccModel) /\ ~saveDue
Replied(r)    == NoMethod(toPlugin) /\ Only(toAccModel, r) /\ ~saveDue

(* The list has the accounts of the engine, each once, but for those it is *)
(* going to be told of.                                                    *)
Same(new, gone) ==
  /\ \A i, j \in DOMAIN accList : accList[i].id = accList[j].id => i = j
  /\ gone \subseteq Listed /\ new \cap Listed = {}
  /\ DOMAIN engAccs = (Listed \ gone) \cup new
  /\ \A i \in DOMAIN accList : accList[i].id \in DOMAIN engAccs =>
       engAccs[accList[i].id].uri = accList[i].uri
  /\ \A id \in DOMAIN engAccs \cup Listed : id < nextAccId
  /\ Cardinality(DOMAIN engAccs) <= MaxAccs

Added(r) == {id \in {r.acc.id} : r.m \in Adds /\ r.ok}
Gone(r)  == {id \in {r.acc.id} : r.m = "delete"}

(* The account a method is about is where it was when the method began.    *)
InPlace(r) ==
  r.m \notin Adds => /\ r.at \in DOMAIN accList
                     /\ accList[r.at].id = r.acc.id /\ accList[r.at].uri = r.acc.uri

RequestTrue(r) == InPlace(r) /\ Same({}, {})
ReplyTrue(r) ==
  /\ InPlace(r) /\ Same(Added(r), Gone(r))
  /\ r.m \in Adds /\ r.ok => engAccs[r.acc.id].uri = r.acc.uri
  /\ r.m \in {"delete", "load"} => r.ok

(* Loading goes through the saved list, and no account of it is refused.   *)
LoadGoesOn(r) ==
  /\ selIdx = 0 /\ savedAccs # NoSettings /\ loadSel = savedAccs.sel
  /\ Len(accList) + 1 + Len(toLoad) = Len(savedAccs.uris)
  /\ \A i \in DOMAIN accList : accList[i].uri = savedAccs.uris[i]
  /\ r.acc.uri = savedAccs.uris[Len(accList) + 1]
  /\ \A j \in DOMAIN toLoad : toLoad[j] = savedAccs.uris[Len(accList) + 1 + j]

(* Otherwise an account is selected, if there is one, and the list is that *)
(* which was saved, unless it is going to be saved.                        *)
Selected == /\ selIdx \in 0..Len(accList)
            /\ accList # <<>> => selIdx # 0
            /\ savedAccs # NoSettings /\ ~saveDue => savedAccs = Settings(accList, selIdx)

Goes(r) == IF r.m = "load" THEN LoadGoesOn(r) ELSE Selected

Phase == \/ Free /\ Same({}, {}) /\ Selected
         \/ \E r \in Requests : Asked(r) /\ RequestTrue(r) /\ Goes(r)
         \/ \E r \in Replies : Replied(r) /\ ReplyTrue(r) /\ Goes(r)

SavedFits ==
  savedAccs # NoSettings =>
    /\ savedAccs.sel \in 0..Len(savedAccs.uris) /\ Len(savedAccs.uris) <= MaxAccs
    /\ savedAccs.uris # <<>> => savedAccs.sel # 0

AccInv == AccTypes /\ Phase /\ SavedFits

-----------------------------------------------------------------------------
(* Registration states.  An account that is edited is not changed by an    *)
(* event meanwhile.                                                        *)

Answered(id)  == id \in DOMAIN engAccs /\ engAccs[id].reg \notin AwaitsAnswer
LastState(id) == RegState(id, engAccs[id].reg)

(* Message r shows the account id in a state that may not be that of the   *)
(* engine.                                                                 *)
Misleads(r, id) ==
  \/ r.m = "regState" /\ r.id = id /\ r # LastState(id)
  \/ r.m \in Adds \cup {"register", "unregister"} /\ r.ok /\ r.acc.id = id

(* Whatever shows a state that is not the last is followed by the last.    *)
StateFollows(id) ==
  /\ \A i \in DOMAIN toPlugin :
       toPlugin[i].m = "regState" /\ toPlugin[i].id = id /\ toPlugin[i] # LastState(id) =>
         \E j \in DOMAIN toPlugin : j > i /\ toPlugin[j] = LastState(id)
  /\ \A i \in DOMAIN toAccModel : Misleads(toAccModel[i], id) =>
       \/ \E j \in DOMAIN toAccModel : j > i /\ toAccModel[j] = LastState(id)
       \/ \E j \in DOMAIN toPlugin : toPlugin[j] = LastState(id)
  /\ \A i \in DOMAIN accList : accList[i].id = id /\ accList[i].reg # engAccs[id].reg =>
       \/ \E j \in DOMAIN toAccModel : toAccModel[j] = LastState(id)
       \/ \E j \in DOMAIN toPlugin : toPlugin[j] = LastState(id)

(* An edited account comes back as it is in the list.                      *)
EditAlone ==
  /\ \A i \in DOMAIN toPlugin : toPlugin[i].m = "update" =>
       /\ Len(toPlugin) = 1 /\ toAccModel = <<>>
       /\ toPlugin[i].acc = accList[toPlugin[i].at]
  /\ \A i \in DOMAIN toAccModel : toAccModel[i].m = "update" =>
       /\ Len(toAccModel) = 1 /\ toPlugin = <<>>
       /\ toAccModel[i].acc = accList[toAccModel[i].at]

RegInv == EditAlone /\ \A id \in AccIds : Answered(id) => StateFollows(id)

-----------------------------------------------------------------------------
(* Queues with at most one method.                                         *)

LEMMA TailOf ==
  ASSUME NEW S, NEW q \in Seq(S), q # <<>>
  PROVE  /\ Tail(q) \in Seq(S) /\ Head(q) \in S /\ Head(q) = q[1] /\ 1 \in DOMAIN q
         /\ \A i \in DOMAIN Tail(q) : i + 1 \in DOMAIN q /\ Tail(q)[i] = q[i + 1]
         /\ \A i \in DOMAIN q : i = 1 \/ (i > 1 /\ i - 1 \in DOMAIN Tail(q)
                                                /\ Tail(q)[i - 1] = q[i])
  OBVIOUS

LEMMA AppendOf ==
  ASSUME NEW S, NEW q \in Seq(S), NEW x \in S
  PROVE  /\ Append(q, x) \in Seq(S)
         /\ \A i \in DOMAIN q : i \in DOMAIN Append(q, x) /\ Append(q, x)[i] = q[i]
         /\ Len(q) + 1 \in DOMAIN Append(q, x) /\ Append(q, x)[Len(q) + 1] = x
         /\ \A i \in DOMAIN Append(q, x) : i \in DOMAIN q \/ i = Len(q) + 1
         /\ \A i \in DOMAIN q : i < Len(q) + 1
  OBVIOUS

LEMMA QueueTypes ==
  ASSUME NEW M, NEW q \in Seq(M)
  PROVE  /\ \A x \in M : Append(q, x) \in Seq(M)
         /\ q # <<>> => Head(q) \in M /\ Tail(q) \in Seq(M)
  OBVIOUS

LEMMA EmptyQueue == \A M : <<>> \in Seq(M)
  OBVIOUS

LEMMA OnlyTaken ==
  ASSUME NEW S, NEW q \in Seq(S), q # <<>>, NEW r, Only(q, r), IsMethod(Head(q))
  PROVE  r = Head(q) /\ NoMethod(Tail(q))
<1>1. r = Head(q)
  BY TailOf DEF Only
<1>2. ASSUME NEW i \in DOMAIN Tail(q), IsMethod(Tail(q)[i]) PROVE FALSE
  <2>1. i + 1 \in DOMAIN q /\ Tail(q)[i] = q[i + 1] /\ 1 \in DOMAIN q /\ Head(q) = q[1]
    BY TailOf
  <2>2. i \in Nat /\ i + 1 # 1
    OBVIOUS
  <2>. QED BY <1>2, <2>1, <2>2 DEF Only
<1>. QED BY <1>1, <1>2 DEF NoMethod

LEMMA OnlyStays ==
  ASSUME NEW S, NEW q \in Seq(S), q # <<>>, ~IsMethod(Head(q)), NEW r, Only(q, r)
  PROVE  Only(Tail(q), r)
<1>1. \A i \in DOMAIN Tail(q) : i + 1 \in DOMAIN q /\ Tail(q)[i] = q[i + 1] /\ i \in Nat
  BY TailOf
<1>2. PICK i \in DOMAIN q : q[i] = r
  BY DEF Only
<1>3. i - 1 \in DOMAIN Tail(q) /\ Tail(q)[i - 1] = q[i]
  BY <1>2, TailOf DEF Only
<1>4. ASSUME NEW j \in DOMAIN Tail(q), NEW k \in DOMAIN Tail(q),
             IsMethod(Tail(q)[j]), IsMethod(Tail(q)[k])
      PROVE  j = k
  <2>1. j + 1 = k + 1
    BY <1>1, <1>4 DEF Only
  <2>. QED BY <1>1, <2>1
<1>. QED BY <1>2, <1>3, <1>4 DEF Only

LEMMA NoneLess ==
  ASSUME NEW S, NEW q \in Seq(S), q # <<>>, NoMethod(q)
  PROVE  NoMethod(Tail(q))
  BY TailOf DEF NoMethod

LEMMA NoneMore ==
  ASSUME NEW S, NEW q \in Seq(S), NEW x \in S, ~IsMethod(x), NoMethod(q)
  PROVE  NoMethod(Append(q, x))
  BY AppendOf DEF NoMethod

LEMMA OnlyMore ==
  ASSUME NEW S, NEW q \in Seq(S), NEW x \in S, ~IsMethod(x), NEW r, Only(q, r)
  PROVE  Only(Append(q, x), r)
<1>1. PICK i \in DOMAIN q : q[i] = r
  BY DEF Only
<1>2. i \in DOMAIN Append(q, x) /\ Append(q, x)[i] = r
  BY <1>1, AppendOf
<1>3. ASSUME NEW j \in DOMAIN Append(q, x), IsMethod(Append(q, x)[j])
      PROVE  j \in DOMAIN q /\ Append(q, x)[j] = q[j]
  BY <1>3, AppendOf
<1>. QED BY <1>2, <1>3 DEF Only

LEMMA OnlyFirst ==
  ASSUME NEW S, NEW q \in Seq(S), NEW x \in S, IsMethod(x), NoMethod(q)
  PROVE  Only(Append(q, x), x)
<1>1. Len(q) + 1 \in DOMAIN Append(q, x) /\ Append(q, x)[Len(q) + 1] = x
  BY AppendOf
<1>2. ASSUME NEW j \in DOMAIN Append(q, x), IsMethod(Append(q, x)[j])
      PROVE  j = Len(q) + 1
  BY <1>2, AppendOf DEF NoMethod
<1>. QED BY <1>1, <1>2 DEF Only

(* A queue without its first block, or with one more, has the methods it   *)
(* had.                                                                    *)
SameMethods(q, p) == /\ NoMethod(q) => NoMethod(p)
                     /\ \A r : Only(q, r) => Only(p, r)

LEMMA BlockTaken ==
  ASSUME NEW S, NEW q \in Seq(S), q # <<>>, ~IsMethod(Head(q))
  PROVE  SameMethods(q, Tail(q))
  BY OnlyStays, NoneLess DEF SameMethods

LEMMA BlockAdded ==
  ASSUME NEW S, NEW q \in Seq(S), NEW x \in S, ~IsMethod(x)
  PROVE  SameMethods(q, Append(q, x))
  BY OnlyMore, NoneMore DEF SameMethods

-----------------------------------------------------------------------------
(* Steps that only concern registration states.                            *)

RegsOnly ==
  /\ DOMAIN engAccs' = DOMAIN engAccs
  /\ \A id \in DOMAIN engAccs : engAccs'[id].uri = engAccs[id].uri
  /\ nextAccId' = nextAccId
  /\ DOMAIN accList' = DOMAIN accList /\ Len(accList') = Len(accList)
  /\ \A i \in DOMAIN accList : /\ accList'[i].id = accList[i].id
                               /\ accList'[i].uri = accList[i].uri
  /\ UNCHANGED <<selIdx, toLoad, loadSel, saveDue, savedAccs>>

LEMMA RegsKeep ==
  ASSUME AccTypes, AccTypes', RegsOnly
  PROVE  /\ \A new, gone : Same(new, gone) => Same(new, gone)'
         /\ Selected => Selected'
         /\ \A r : LoadGoesOn(r) => LoadGoesOn(r)'
         /\ \A r : InPlace(r) => InPlace(r)'
<1>1. Listed' = Listed
  BY DEF Listed, RegsOnly
<1>2. ASSUME NEW new, NEW gone, Same(new, gone) PROVE Same(new, gone)'
  <2>1. \A i, j \in DOMAIN accList' : accList'[i].id = accList'[j].id => i = j
    BY <1>2 DEF Same, RegsOnly
  <2>2. \A i \in DOMAIN accList' : accList'[i].id \in DOMAIN engAccs' =>
          engAccs'[accList'[i].id].uri = accList'[i].uri
    BY <1>2 DEF Same, RegsOnly
  <2>3. /\ \A id \in DOMAIN engAccs' \cup Listed' : id < nextAccId'
        /\ Cardinality(DOMAIN engAccs') <= MaxAccs
        /\ gone \subseteq Listed' /\ new \cap Listed' = {}
        /\ DOMAIN engAccs' = (Listed' \ gone) \cup new
    BY <1>1, <1>2 DEF Same, RegsOnly
  <2>. QED BY <2>1, <2>2, <2>3 DEF Same
<1>3. Settings(accList', selIdx') = Settings(accList, selIdx)
  <2>1. [i \in DOMAIN accList' |-> accList'[i].uri] = [i \in DOMAIN accList |-> accList[i].uri]
    BY DEF RegsOnly
  <2>. QED BY <2>1 DEF Settings, RegsOnly
<1>4. accList' # <<>> <=> accList # <<>>
  BY DEF AccTypes, RegsOnly
<1>5. Selected => Selected'
  BY <1>3, <1>4 DEF Selected, RegsOnly
<1>6. ASSUME NEW r, LoadGoesOn(r) PROVE LoadGoesOn(r)'
  BY <1>6 DEF LoadGoesOn, RegsOnly
<1>7. ASSUME NEW r, InPlace(r) PROVE InPlace(r)'
  BY <1>7 DEF InPlace, RegsOnly
<1>. QED BY <1>2, <1>5, <1>6, <1>7

LEMMA PhaseKept ==
  ASSUME AccInv, AccTypes', RegsOnly,
         SameMethods(toPlugin, toPlugin'), SameMethods(toAccModel, toAccModel')
  PROVE  AccInv'
<1>1. saveDue' = saveDue /\ savedAccs' = savedAccs
  BY DEF RegsOnly
<1>2. SavedFits'
  BY <1>1 DEF AccInv, SavedFits
<1>3. \A r : Goes(r) => Goes(r)'
  BY RegsKeep DEF Goes, AccInv
<1>4. CASE Free /\ Same({}, {}) /\ Selected
  <2>1. Free'
    BY <1>4 DEF Free, SameMethods
  <2>2. Same({}, {})' /\ Selected'
    BY <1>4, RegsKeep DEF AccInv
  <2>. QED BY <1>2, <2>1, <2>2 DEF AccInv, Phase
<1>5. ASSUME NEW r \in Requests, Asked(r), RequestTrue(r), Goes(r) PROVE Phase'
  <2>1. Asked(r)'
    BY <1>1, <1>5 DEF Asked, SameMethods
  <2>2. RequestTrue(r)' /\ Goes(r)'
    BY <1>3, <1>5, RegsKeep DEF AccInv, RequestTrue
  <2>. QED BY <2>1, <2>2 DEF Phase
<1>6. ASSUME NEW r \in Replies, Replied(r), ReplyTrue(r), Goes(r) PROVE Phase'
  <2>1. Replied(r)'
    BY <1>1, <1>6 DEF Replied, SameMethods
  <2>2. ReplyTrue(r)'
    <3>1. InPlace(r)' /\ Same(Added(r), Gone(r))'
      BY <1>6, RegsKeep DEF AccInv, ReplyTrue
    <3>2. r.m \in Adds /\ r.ok => engAccs'[r.acc.id].uri = r.acc.uri
      BY <1>6 DEF ReplyTrue, Same, Added, RegsOnly
    <3>. QED BY <1>6, <3>1, <3>2 DEF ReplyTrue
  <2>3. Goes(r)'
    BY <1>3, <1>6
  <2>. QED BY <2>1, <2>2, <2>3 DEF Phase
<1>. QED BY <1>2, <1>4, <1>5, <1>6 DEF AccInv, Phase

-----------------------------------------------------------------------------
(* The kinds of messages.                                                  *)

LEMMA BlockKinds ==
  ASSUME NEW x \in AccBlocks
  PROVE  /\ x.m \in Methods => x \in Requests /\ IsMethod(x)
         /\ x.m = "regState" => x \in States /\ ~IsMethod(x)
         /\ x.m = "restored" => x \in Signs /\ ~IsMethod(x)
  BY DEF AccBlocks, Requests, States, Signs, IsMethod, Methods

LEMMA ArrivalKinds ==
  ASSUME NEW x \in Arrivals
  PROVE  /\ x.m \in Methods => x \in Replies /\ IsMethod(x)
         /\ x.m = "regState" => x \in States /\ ~IsMethod(x)
  BY DEF Arrivals, Replies, States, IsMethod, Methods

LEMMA AboutStates ==
  ASSUME NEW x \in States PROVE x \in AccBlocks /\ x \in Arrivals /\ ~IsMethod(x)
  BY DEF AccBlocks, Arrivals, States, IsMethod, Methods

LEMMA AboutRestored == Restored \in AccBlocks /\ ~IsMethod(Restored)
  BY DEF AccBlocks, Signs, Restored, IsMethod, Methods

LEMMA AccEdit ==
  ASSUME NEW a \in Accs, NEW reg \in ListRegs
  PROVE  /\ [a EXCEPT !.reg = reg] \in Accs
         /\ [a EXCEPT !.reg = reg].id = a.id /\ [a EXCEPT !.reg = reg].uri = a.uri
         /\ [a EXCEPT !.reg = reg].reg = reg
  BY DEF Accs, ListRegs

LEMMA AccNumber ==
  ASSUME NEW a \in Accs, NEW id \in 0..MaxAccIds
  PROVE  /\ [a EXCEPT !.id = id] \in Accs
         /\ [a EXCEPT !.id = id].id = id /\ [a EXCEPT !.id = id].uri = a.uri
         /\ [a EXCEPT !.id = id].reg = a.reg
  BY DEF Accs

(* Events and blocks that are no method.                                   *)

LEMMA ForwardKeeps ==
  ASSUME AccInv, toPlugin # <<>>, Head(toPlugin).m = "regState",
         ForwardRegState(Head(toPlugin)), UNCHANGED modelSide
  PROVE  AccInv'
<1>. DEFINE b == Head(toPlugin)
<1>1. b \in AccBlocks /\ toPlugin \in Seq(AccBlocks) /\ toAccModel \in Seq(Arrivals)
  BY TailOf DEF AccInv, AccTypes
<1>2. b \in States /\ ~IsMethod(b) /\ b \in Arrivals
  BY <1>1, BlockKinds, AboutStates
<1>3. toPlugin' = Tail(toPlugin) /\ toAccModel' = Append(toAccModel, b)
  BY DEF ForwardRegState
<1>4. toPlugin' \in Seq(AccBlocks) /\ toAccModel' \in Seq(Arrivals)
  BY <1>1, <1>2, <1>3, TailOf, AppendOf
<1>5. SameMethods(toPlugin, toPlugin') /\ SameMethods(toAccModel, toAccModel')
  BY <1>1, <1>2, <1>3, BlockTaken, BlockAdded
<1>6. RegsOnly
  BY DEF RegsOnly, ForwardRegState, engineSide, modelSide
<1>7. AccTypes'
  BY <1>4 DEF AccInv, AccTypes, ForwardRegState, engineSide, modelSide
<1>. QED BY <1>5, <1>6, <1>7, PhaseKept

LEMMA RaiseKeeps ==
  ASSUME AccInv, toPlugin # <<>>, Head(toPlugin).m = "restored",
         RaiseWhenRestored, UNCHANGED modelSide
  PROVE  AccInv'
<1>. DEFINE b == Head(toPlugin)
<1>1. b \in AccBlocks /\ toPlugin \in Seq(AccBlocks)
  BY TailOf DEF AccInv, AccTypes
<1>2. ~IsMethod(b)
  BY <1>1, BlockKinds
<1>3. toPlugin' = Tail(toPlugin) /\ toAccModel' = toAccModel
  BY DEF RaiseWhenRestored
<1>4. toPlugin' \in Seq(AccBlocks)
  BY <1>1, <1>3, TailOf
<1>5. SameMethods(toPlugin, toPlugin') /\ SameMethods(toAccModel, toAccModel')
  BY <1>1, <1>2, <1>3, BlockTaken DEF SameMethods
<1>6. RegsOnly
  BY DEF RegsOnly, RaiseWhenRestored, modelSide
<1>7. AccTypes'
  BY <1>4 DEF AccInv, AccTypes, RaiseWhenRestored, modelSide
<1>. QED BY <1>5, <1>6, <1>7, PhaseKept

LEMMA IntentKeeps ==
  ASSUME AccInv, NEW id \in DOMAIN engAccs, CallIntent(id)
  PROVE  AccInv'
<1>1. id \in AccIds /\ pendingIntents' \subseteq AccIds
  BY DEF AccInv, AccTypes, CallIntent
<1>2. RegsOnly
  BY DEF RegsOnly, CallIntent, modelSide
<1>3. AccTypes'
  BY <1>1 DEF AccInv, AccTypes, CallIntent, modelSide
<1>4. SameMethods(toPlugin, toPlugin') /\ SameMethods(toAccModel, toAccModel')
  BY DEF SameMethods, CallIntent
<1>. QED BY <1>2, <1>3, <1>4, PhaseKept

LEMMA AnswerKeeps ==
  ASSUME AccInv, NEW id \in DOMAIN engAccs, NEW reg \in EngRegs \ AwaitsAnswer,
         OnRegState(id, reg)
  PROVE  AccInv'
<1>1. id \in AccIds /\ reg \in RegAnswers /\ reg \in EngRegs /\ toPlugin \in Seq(AccBlocks)
      /\ engAccs \in [DOMAIN engAccs -> EngAcc]
  BY DEF AccInv, AccTypes, EngRegs, AwaitsAnswer, RegAnswers
<1>2. RegState(id, reg) \in States
  BY <1>1 DEF RegState, States
<1>3. toPlugin' = Append(toPlugin, RegState(id, reg)) /\ toAccModel' = toAccModel
      /\ engAccs' = [engAccs EXCEPT ![id].reg = reg]
  BY DEF OnRegState
<1>4. toPlugin' \in Seq(AccBlocks)
  BY <1>1, <1>2, <1>3, AboutStates, AppendOf
<1>5. SameMethods(toPlugin, toPlugin') /\ SameMethods(toAccModel, toAccModel')
  <2>1. RegState(id, reg) \in AccBlocks /\ ~IsMethod(RegState(id, reg))
    BY <1>2, AboutStates
  <2>2. SameMethods(toPlugin, toPlugin')
    BY <1>1, <1>3, <2>1, BlockAdded
  <2>. QED BY <1>3, <2>2 DEF SameMethods
<1>6. /\ DOMAIN engAccs' = DOMAIN engAccs
      /\ engAccs' \in [DOMAIN engAccs -> EngAcc]
      /\ \A k \in DOMAIN engAccs : engAccs'[k].uri = engAccs[k].uri
  BY <1>1, <1>3 DEF EngAcc
<1>7. RegsOnly
  BY <1>6 DEF RegsOnly, OnRegState, modelSide
<1>8. AccTypes'
  BY <1>1, <1>4, <1>6 DEF AccInv, AccTypes, OnRegState, modelSide
<1>. QED BY <1>5, <1>7, <1>8, PhaseKept

LEMMA ShownKeeps ==
  ASSUME AccInv, toAccModel # <<>>, Head(toAccModel).m = "regState",
         toAccModel' = Tail(toAccModel), OnRegStateChanged(Head(toAccModel)),
         UNCHANGED <<engineSide, savedAccs>>
  PROVE  AccInv'
<1>. DEFINE e == Head(toAccModel)
<1>1. e \in Arrivals /\ toAccModel \in Seq(Arrivals) /\ accList \in Seq(Accs)
  BY TailOf DEF AccInv, AccTypes
<1>2. e \in States /\ ~IsMethod(e)
  BY <1>1, ArrivalKinds
<1>3. toAccModel' \in Seq(Arrivals) /\ SameMethods(toAccModel, toAccModel')
  BY <1>1, <1>2, TailOf, BlockTaken
<1>4. /\ accList' \in Seq(Accs) /\ DOMAIN accList' = DOMAIN accList
      /\ Len(accList') = Len(accList)
      /\ \A i \in DOMAIN accList : /\ accList'[i].id = accList[i].id
                                   /\ accList'[i].uri = accList[i].uri
  <2>1. e.reg \in ListRegs
    BY <1>2 DEF States, RegAnswers, ListRegs
  <2>2. \A i \in DOMAIN accList :
          /\ [accList[i] EXCEPT !.reg = e.reg] \in Accs
          /\ [accList[i] EXCEPT !.reg = e.reg].id = accList[i].id
          /\ [accList[i] EXCEPT !.reg = e.reg].uri = accList[i].uri
    <3>1. \A i \in DOMAIN accList : accList[i] \in Accs
      BY <1>1
    <3>. QED BY <2>1, <3>1, AccEdit
  <2>3. accList' = [i \in DOMAIN accList |->
                     IF accList[i].id = e.id THEN [accList[i] EXCEPT !.reg = e.reg]
                     ELSE accList[i]]
    BY DEF OnRegStateChanged
  <2>4. \A i \in DOMAIN accList : /\ accList'[i] \in Accs
                                  /\ accList'[i].id = accList[i].id
                                  /\ accList'[i].uri = accList[i].uri
    BY <1>1, <2>2, <2>3
  <2>5. DOMAIN accList' = 1..Len(accList) /\ Len(accList) \in Nat
    BY <1>1, <2>3
  <2>. QED BY <1>1, <2>3, <2>4, <2>5
<1>5. RegsOnly
  BY <1>4 DEF RegsOnly, OnRegStateChanged, engineSide
<1>6. AccTypes'
  BY <1>3, <1>4 DEF AccInv, AccTypes, OnRegStateChanged, engineSide
<1>7. SameMethods(toPlugin, toPlugin')
  BY DEF SameMethods, OnRegStateChanged
<1>. QED BY <1>3, <1>5, <1>6, <1>7, PhaseKept

-----------------------------------------------------------------------------
(* How many accounts there are.                                            *)

LEMMA CountOf ==
  ASSUME AccTypes, Same({}, {})
  PROVE  Cardinality(DOMAIN engAccs) = Len(accList)
<1>. DEFINE f == [i \in 1..Len(accList) |-> accList[i].id]
<1>1. accList \in Seq(Accs) /\ Len(accList) \in Nat /\ DOMAIN accList = 1..Len(accList)
  BY DEF AccTypes
<1>2. DOMAIN engAccs = Listed
  BY DEF Same
<1>3. f \in Bijection(1..Len(accList), Listed)
  <2>1. f \in [1..Len(accList) -> Listed]
    BY <1>1 DEF Listed
  <2>2. \A i, j \in 1..Len(accList) : f[i] = f[j] => i = j
    BY <1>1 DEF Same
  <2>3. \A x \in Listed : \E i \in 1..Len(accList) : f[i] = x
    BY <1>1 DEF Listed
  <2>4. f \in Injection(1..Len(accList), Listed)
    BY <2>1, <2>2 DEF Injection, IsInjective
  <2>5. f \in Surjection(1..Len(accList), Listed)
    BY <2>1, <2>3 DEF Surjection
  <2>. QED BY <2>4, <2>5 DEF Bijection
<1>4. IsFiniteSet(1..Len(accList)) /\ Cardinality(1..Len(accList)) = Len(accList)
  BY <1>1, FS_Interval
<1>5. ExistsBijection(1..Len(accList), Listed)
  BY <1>3 DEF ExistsBijection
<1>. QED BY <1>2, <1>4, <1>5, FS_Bijection

LEMMA Finite ==
  ASSUME AccTypes
  PROVE  IsFiniteSet(DOMAIN engAccs) /\ Cardinality(DOMAIN engAccs) \in Nat
<1>1. MaxAccIds \in Nat /\ DOMAIN engAccs \subseteq 1..MaxAccIds
  BY AccAssumption DEF AccTypes, AccIds
<1>2. IsFiniteSet(1..MaxAccIds)
  BY <1>1, FS_Interval
<1>3. IsFiniteSet(DOMAIN engAccs)
  BY <1>1, <1>2, FS_Subset
<1>. QED BY <1>3, FS_CardinalityType

-----------------------------------------------------------------------------
(* When no method is under way.                                            *)

LEMMA NotAsked ==
  ASSUME AccInv, ~UnderWay
  PROVE  Free /\ Same({}, {}) /\ Selected
<1>1. NoMethod(toPlugin) /\ NoMethod(toAccModel)
  BY DEF UnderWay, NoMethod, Range
<1>. QED BY <1>1 DEF AccInv, Phase, Asked, Replied, Only, NoMethod

LEMMA NotSaving ==
  ASSUME AccInv, saveDue
  PROVE  Free /\ Same({}, {}) /\ Selected
  BY DEF AccInv, Phase, Asked, Replied

LEMMA SendKeeps ==
  ASSUME AccInv, ~AccOverlap, NEW r \in Requests, r.m # "load", InPlace(r), SendRequest(r)
  PROVE  AccInv'
<1>1. ~UnderWay /\ ~saveDue
  BY DEF SendRequest, MaySend
<1>2. Free /\ Same({}, {}) /\ Selected
  BY <1>1, NotAsked
<1>3. r \in AccBlocks /\ IsMethod(r) /\ toPlugin \in Seq(AccBlocks)
  BY DEF AccInv, AccTypes, AccBlocks, Requests, IsMethod
<1>4. toPlugin' \in Seq(AccBlocks) /\ Only(toPlugin', r)
  BY <1>2, <1>3, OnlyFirst, AppendOf DEF SendRequest, Free
<1>5. AccTypes' /\ SavedFits'
  BY <1>4 DEF AccInv, AccTypes, SavedFits, SendRequest, engineSide, modelSide
<1>6. Asked(r)'
  BY <1>1, <1>2, <1>4 DEF Asked, Free, NoMethod, SendRequest, modelSide
<1>7. RequestTrue(r)'
  BY <1>2 DEF RequestTrue, InPlace, Same, Listed, SendRequest, engineSide, modelSide
<1>8. Goes(r)'
  BY <1>2 DEF Goes, Selected, Settings, SendRequest, modelSide
<1>. QED BY <1>5, <1>6, <1>7, <1>8 DEF AccInv, Phase

LEMMA RequestsKeep ==
  ASSUME AccInv, ~AccOverlap
  PROVE  /\ \A uri \in Uris : AddAccount(uri) => AccInv'
         /\ \A i \in DOMAIN accList :
              UpdateAccount(i) \/ DeleteAccount(i) \/ RegisterAccount(i)
                \/ UnregisterAccount(i) => AccInv'
<1>1. ASSUME NEW uri \in Uris, AddAccount(uri) PROVE AccInv'
  <2>1. Acc(0, uri, "none") \in Accs
    BY AccAssumption DEF Acc, Accs
  <2>2. Request("add", 0, Acc(0, uri, "none")) \in Requests
    BY <2>1 DEF Request, Requests, Methods
  <2>3. InPlace(Request("add", 0, Acc(0, uri, "none")))
    BY DEF InPlace, Request, Adds
  <2>. QED BY <1>1, <2>2, <2>3, SendKeeps DEF AddAccount, Request
<1>2. ASSUME NEW i \in DOMAIN accList, NEW m \in Methods \ Adds,
             SendRequest(Request(m, i, accList[i]))
      PROVE  AccInv'
  <2>1. accList[i] \in Accs /\ i \in Nat
    BY DEF AccInv, AccTypes
  <2>2. Request(m, i, accList[i]) \in Requests
    BY <2>1 DEF Request, Requests
  <2>3. InPlace(Request(m, i, accList[i]))
    BY DEF InPlace, Request
  <2>4. Request(m, i, accList[i]).m # "load"
    BY DEF Request, Adds
  <2>. QED BY <1>2, <2>2, <2>3, <2>4, SendKeeps
<1>3. {"update", "delete", "register", "unregister"} \subseteq Methods \ Adds
  BY DEF Methods, Adds
<1>. QED BY <1>1, <1>2, <1>3
         DEF UpdateAccount, DeleteAccount, RegisterAccount, UnregisterAccount

LEMMA SelectKeeps ==
  ASSUME AccInv, ~AccOverlap, NEW i \in DOMAIN accList, SelectAccount(i)
  PROVE  AccInv'
<1>1. Free /\ Same({}, {}) /\ Selected
  BY NotAsked DEF SelectAccount
<1>2. accList \in Seq(Accs) /\ i \in 1..Len(accList) /\ i # 0 /\ i \in Nat
  BY DEF AccInv, AccTypes
<1>3. AccTypes' /\ SavedFits'
  BY <1>2 DEF AccInv, AccTypes, SavedFits, SelectAccount, engineSide
<1>4. Selected'
  BY <1>2 DEF Selected, SelectAccount
<1>5. Free' /\ Same({}, {})'
  BY <1>1 DEF Free, NoMethod, Same, Listed, SelectAccount, engineSide
<1>. QED BY <1>3, <1>4, <1>5 DEF AccInv, Phase

LEMMA SaveKeeps ==
  ASSUME AccInv, SaveChanges
  PROVE  AccInv'
<1>1. Free /\ Same({}, {}) /\ Selected
  BY NotSaving DEF SaveChanges
<1>2. accList \in Seq(Accs) /\ Len(accList) \in Nat /\ Len(accList) <= MaxAccs
  BY <1>1, CountOf DEF AccInv, AccTypes, Same
<1>. DEFINE uris == [i \in DOMAIN accList |-> accList[i].uri]
<1>3. uris \in Seq(Uris) /\ Len(uris) = Len(accList)
  <2>1. \A i \in 1..Len(accList) : accList[i].uri \in Uris
    <3>1. \A i \in 1..Len(accList) : accList[i] \in Accs
      BY <1>2
    <3>. QED BY <3>1 DEF Accs
  <2>2. DOMAIN accList = 1..Len(accList)
    BY <1>2
  <2>. QED BY <1>2, <2>1, <2>2
<1>4. savedAccs' = [uris |-> uris, sel |-> selIdx]
  BY DEF SaveChanges, Settings
<1>5. savedAccs' \in [uris: Seq(Uris), sel: Nat]
  BY <1>3, <1>4 DEF AccInv, AccTypes
<1>6. AccTypes'
  BY <1>5 DEF AccInv, AccTypes, SaveChanges, engineSide
<1>7. SavedFits'
  BY <1>1, <1>2, <1>3, <1>4 DEF SavedFits, Selected
<1>8. Free' /\ Same({}, {})'
  BY <1>1 DEF Free, NoMethod, Same, Listed, SaveChanges, engineSide
<1>9. Selected'
  BY <1>1 DEF Selected, SaveChanges, Settings
<1>. QED BY <1>6, <1>7, <1>8, <1>9 DEF AccInv, Phase

-----------------------------------------------------------------------------
(* The engine runs a method.                                               *)

LEMMA MethodAsked ==
  ASSUME AccInv, toPlugin # <<>>, Head(toPlugin).m \in Methods
  PROVE  LET r == Head(toPlugin) IN
           /\ r \in Requests /\ RequestTrue(r) /\ Goes(r)
           /\ NoMethod(Tail(toPlugin)) /\ NoMethod(toAccModel) /\ ~saveDue
<1>. DEFINE r == Head(toPlugin)
<1>1. toPlugin \in Seq(AccBlocks) /\ r \in AccBlocks /\ r = toPlugin[1] /\ 1 \in DOMAIN toPlugin
  BY TailOf DEF AccInv, AccTypes
<1>2. r \in Requests /\ IsMethod(r)
  BY <1>1, BlockKinds
<1>3. ~NoMethod(toPlugin)
  BY <1>1, <1>2 DEF NoMethod
<1>4. PICK x \in Requests : Asked(x) /\ RequestTrue(x) /\ Goes(x)
  BY <1>3 DEF AccInv, Phase, Free, Replied
<1>5. x = r /\ NoMethod(Tail(toPlugin))
  BY <1>1, <1>2, <1>4, OnlyTaken DEF Asked
<1>. QED BY <1>2, <1>4, <1>5 DEF Asked

LEMMA ReplyIs ==
  ASSUME NEW r \in Requests, NEW ok \in BOOLEAN, NEW id \in 0..MaxAccIds
  PROVE  LET y == Reply(r, ok, id) IN
           /\ y \in Replies /\ y \in Arrivals /\ IsMethod(y)
           /\ y.m = r.m /\ y.ok = ok /\ y.at = r.at
           /\ y.acc.id = id /\ y.acc.uri = r.acc.uri /\ y.acc.reg = r.acc.reg
<1>1. r.acc \in Accs /\ r.m \in Methods /\ r.at \in Nat
  BY DEF Requests
<1>. DEFINE a == [r.acc EXCEPT !.id = id]
<1>2. a \in Accs /\ a.id = id /\ a.uri = r.acc.uri /\ a.reg = r.acc.reg
  BY <1>1, AccNumber
<1>3. Reply(r, ok, id) = [m |-> r.m, ok |-> ok, at |-> r.at, acc |-> a]
  BY DEF Reply
<1>. HIDE DEF a
<1>4. Reply(r, ok, id) \in Replies
  BY <1>1, <1>2, <1>3 DEF Replies
<1>. QED BY <1>1, <1>2, <1>3, <1>4 DEF Arrivals, IsMethod

LEMMA ReplySent ==
  ASSUME AccInv, toPlugin # <<>>, Head(toPlugin).m \in Methods,
         NEW ok \in BOOLEAN, NEW id \in 0..MaxAccIds,
         NEW y, y = Reply(Head(toPlugin), ok, id), toAccModel' = Append(toAccModel, y),
         \/ toPlugin' = Tail(toPlugin)
         \/ toPlugin' = Append(Tail(toPlugin), Restored),
         DOMAIN engAccs' \subseteq AccIds, engAccs' \in [DOMAIN engAccs' -> EngAcc],
         nextAccId' \in 1..MaxAccIds + 1,
         accountsIds' \subseteq 0..MaxAccIds, pendingIntents' \subseteq AccIds,
         UNCHANGED modelSide, ReplyTrue(y)'
  PROVE  AccInv'
<1>. DEFINE r == Head(toPlugin)
<1>1. /\ r \in Requests /\ RequestTrue(r) /\ Goes(r)
      /\ NoMethod(Tail(toPlugin)) /\ NoMethod(toAccModel) /\ ~saveDue
  BY MethodAsked
<1>2. /\ y \in Replies /\ y \in Arrivals /\ IsMethod(y)
      /\ y.m = r.m /\ y.acc.uri = r.acc.uri
  BY <1>1, ReplyIs
<1>3. toPlugin \in Seq(AccBlocks) /\ toAccModel \in Seq(Arrivals)
      /\ Tail(toPlugin) \in Seq(AccBlocks)
  BY TailOf DEF AccInv, AccTypes
<1>4. toPlugin' \in Seq(AccBlocks) /\ NoMethod(toPlugin')
  <2>1. CASE toPlugin' = Tail(toPlugin)
    BY <1>1, <1>3, <2>1
  <2>2. CASE toPlugin' = Append(Tail(toPlugin), Restored)
    BY <1>1, <1>3, <2>2, AboutRestored, AppendOf, NoneMore
  <2>. QED BY <2>1, <2>2
<1>5. toAccModel' \in Seq(Arrivals) /\ Only(toAccModel', y)
  BY <1>1, <1>2, <1>3, AppendOf, OnlyFirst
<1>6. AccTypes' /\ SavedFits'
  BY <1>4, <1>5 DEF AccInv, AccTypes, SavedFits, modelSide
<1>7. Replied(y)'
  BY <1>1, <1>4, <1>5 DEF Replied, modelSide
<1>8. Goes(y)'
  BY <1>1, <1>2 DEF Goes, LoadGoesOn, Selected, Settings, modelSide
<1>9. \E x \in Replies : Replied(x)' /\ ReplyTrue(x)' /\ Goes(x)'
  BY <1>2, <1>7, <1>8
<1>. QED BY <1>6, <1>9 DEF AccInv, Phase

LEMMA RoomToLoad ==
  ASSUME AccInv, NEW r, r.m = "load", RequestTrue(r), Goes(r)
  PROVE  Cardinality(DOMAIN engAccs) < MaxAccs
<1>1. Cardinality(DOMAIN engAccs) = Len(accList) /\ LoadGoesOn(r)
  BY CountOf DEF AccInv, RequestTrue, Goes
<1>2. Len(accList) \in Nat /\ Len(toLoad) \in Nat /\ Len(savedAccs.uris) \in Nat
      /\ MaxAccs \in Nat
  BY AccAssumption DEF AccInv, AccTypes
<1>3. Len(savedAccs.uris) <= MaxAccs
  BY <1>1 DEF AccInv, SavedFits, LoadGoesOn
<1>. QED BY <1>1, <1>2, <1>3 DEF LoadGoesOn

LEMMA AddKeeps ==
  ASSUME AccInv, toPlugin # <<>>, Head(toPlugin).m \in Adds, nextAccId <= MaxAccIds,
         HandleAccountAdd(Head(toPlugin)), UNCHANGED modelSide
  PROVE  AccInv'
<1>. DEFINE r == Head(toPlugin)
<1>1. r.m \in Methods
  BY DEF Adds, Methods
<1>2. r \in Requests /\ RequestTrue(r) /\ Goes(r)
  BY <1>1, MethodAsked
<1>3. Same({}, {}) /\ AccTypes
  BY <1>2 DEF RequestTrue, AccInv
<1>4. nextAccId \in AccIds /\ nextAccId \in 0..MaxAccIds /\ 0 \in 0..MaxAccIds
  BY <1>3, AccAssumption DEF AccTypes, AccIds
<1>5. PICK ok \in BOOLEAN : ok <=> Cardinality(DOMAIN engAccs) < MaxAccs
  OBVIOUS
<1>6. PICK id \in 0..MaxAccIds : id = IF ok THEN nextAccId ELSE 0
  BY <1>4
<1>7. PICK y : y = Reply(r, ok, id)
  OBVIOUS
<1>8. /\ y.m = r.m /\ y.ok = ok /\ y.acc.id = id /\ y.acc.uri = r.acc.uri
  BY <1>2, <1>7, ReplyIs
<1>9. r.acc.uri \in Uris
  BY <1>2 DEF Requests, Accs
<1>10. CASE ok
  <2>. PICK n \in AccIds : n = nextAccId
    BY <1>4
  <2>. DEFINE new == [uri |-> r.acc.uri, reg |-> "registering"]
  <2>1. new \in EngAcc
    BY <1>9 DEF EngAcc, EngRegs, AwaitsAnswer
  <2>2. /\ engAccs' = [k \in DOMAIN engAccs \cup {n} |->
                         IF k = n THEN new ELSE engAccs[k]]
        /\ nextAccId' = nextAccId + 1
    BY <1>10, <1>5 DEF HandleAccountAdd, EngAdd
  <2>3. n \notin DOMAIN engAccs /\ n \notin Listed
    BY <1>3, <1>4 DEF Same, AccIds
  <2>4. /\ DOMAIN engAccs' = DOMAIN engAccs \cup {n}
        /\ engAccs' \in [DOMAIN engAccs' -> EngAcc]
        /\ engAccs'[n].uri = r.acc.uri
        /\ \A k \in DOMAIN engAccs : engAccs'[k] = engAccs[k]
    BY <1>3, <2>1, <2>2, <2>3 DEF AccTypes
  <2>5. DOMAIN engAccs' \subseteq AccIds /\ nextAccId' \in 1..MaxAccIds + 1
    <3>1. DOMAIN engAccs' \subseteq AccIds
      BY <1>3, <2>4 DEF AccTypes
    <3>2. n + 1 \in 1..MaxAccIds + 1
      BY AccAssumption DEF AccIds
    <3>. QED BY <2>2, <3>1, <3>2
  <2>6. Cardinality(DOMAIN engAccs') <= MaxAccs
    <3>1. Cardinality(DOMAIN engAccs') = Cardinality(DOMAIN engAccs) + 1
      BY <1>3, <2>3, <2>4, Finite, FS_AddElement
    <3>. QED BY <1>3, <1>10, <1>5, <3>1, Finite, AccAssumption
  <2>7. Listed' = Listed /\ accList' = accList
    BY DEF Listed, modelSide
  <2>8. Same({n}, {})'
    <3>1. \A k \in DOMAIN engAccs' \cup Listed' : k < nextAccId'
      <4>1. n \in Nat /\ nextAccId' = n + 1
        BY <1>3, <2>2, AccAssumption DEF AccTypes
      <4>2. \A k \in DOMAIN engAccs \cup Listed : k \in Nat /\ k < n
        BY <1>3, <1>4, AccAssumption DEF Same, AccTypes, AccIds
      <4>. QED BY <2>4, <2>7, <4>1, <4>2
    <3>2. DOMAIN engAccs' = Listed' \cup {n} /\ {n} \cap Listed' = {}
      BY <1>3, <2>3, <2>4, <2>7 DEF Same
    <3>3. \A i \in DOMAIN accList' : accList'[i].id \in DOMAIN engAccs' =>
            engAccs'[accList'[i].id].uri = accList'[i].uri
      <4>1. \A i \in DOMAIN accList : accList[i].id \in Listed /\ accList[i].id \in DOMAIN engAccs
        BY <1>3 DEF Same, Listed
      <4>. QED BY <1>3, <2>4, <2>7, <4>1 DEF Same
    <3>4. \A i, j \in DOMAIN accList' : accList'[i].id = accList'[j].id => i = j
      BY <1>3, <2>7 DEF Same
    <3>5. \A new2 : Same(new2, {})' <=>
            /\ \A i, j \in DOMAIN accList' : accList'[i].id = accList'[j].id => i = j
            /\ {} \subseteq Listed' /\ new2 \cap Listed' = {}
            /\ DOMAIN engAccs' = (Listed' \ {}) \cup new2
            /\ \A i \in DOMAIN accList' : accList'[i].id \in DOMAIN engAccs' =>
                 engAccs'[accList'[i].id].uri = accList'[i].uri
            /\ \A k \in DOMAIN engAccs' \cup Listed' : k < nextAccId'
            /\ Cardinality(DOMAIN engAccs') <= MaxAccs
      BY DEF Same
    <3>6. DOMAIN engAccs' = (Listed' \ {}) \cup {n}
      BY <3>2
    <3>. QED BY <2>6, <3>1, <3>2, <3>3, <3>4, <3>5, <3>6
  <2>9. ReplyTrue(y)'
    <3>1. Added(y) = {n} /\ Gone(y) = {}
      BY <1>8, <1>10, <1>6 DEF Added, Gone, Adds
    <3>2. InPlace(y)'
      BY <1>8 DEF InPlace
    <3>3. y.acc.id = n /\ y.ok
      BY <1>8, <1>10, <1>6
    <3>4. engAccs'[y.acc.id].uri = y.acc.uri
      BY <1>8, <2>4, <3>3
    <3>. QED BY <2>8, <3>1, <3>2, <3>3, <3>4 DEF ReplyTrue
  <2>10. /\ accountsIds' \subseteq 0..MaxAccIds /\ pendingIntents' \subseteq AccIds
         /\ toAccModel' = Append(toAccModel, y)
         /\ toPlugin' = Append(Tail(toPlugin), Restored)
    BY <1>3, <1>4, <1>5, <1>6, <1>7 DEF HandleAccountAdd, AccTypes
  <2>. QED BY <1>1, <1>7, <2>4, <2>5, <2>9, <2>10, ReplySent
<1>11. CASE ~ok
  <2>1. engAccs' = engAccs /\ nextAccId' = nextAccId
    BY <1>11, <1>5 DEF HandleAccountAdd, EngAdd
  <2>2. Same({}, {})'
    BY <1>3, <2>1 DEF Same, Listed, modelSide
  <2>3. r.m # "load"
    BY <1>2, <1>11, <1>5, RoomToLoad
  <2>4. ReplyTrue(y)'
    <3>1. Added(y) = {} /\ Gone(y) = {}
      BY <1>8, <1>11 DEF Added, Gone, Adds
    <3>2. InPlace(y)'
      BY <1>8 DEF InPlace
    <3>3. ~y.ok /\ y.m \notin {"delete", "load"}
      BY <1>8, <1>11, <2>3 DEF Adds
    <3>. QED BY <2>2, <3>1, <3>2, <3>3 DEF ReplyTrue
  <2>5. /\ accountsIds' \subseteq 0..MaxAccIds /\ pendingIntents' \subseteq AccIds
        /\ toAccModel' = Append(toAccModel, y)
        /\ toPlugin' = Append(Tail(toPlugin), Restored)
    BY <1>3, <1>4, <1>5, <1>6, <1>7 DEF HandleAccountAdd, AccTypes
  <2>6. /\ DOMAIN engAccs' \subseteq AccIds /\ engAccs' \in [DOMAIN engAccs' -> EngAcc]
        /\ nextAccId' \in 1..MaxAccIds + 1
    BY <1>3, <2>1 DEF AccTypes
  <2>. QED BY <1>1, <1>7, <2>4, <2>5, <2>6, ReplySent
<1>. QED BY <1>10, <1>11

LEMMA ReplyInPlace ==
  ASSUME NEW r \in Requests, NEW ok \in BOOLEAN, InPlace(r), r.m \notin Adds,
         UNCHANGED modelSide, NEW y, y = Reply(r, ok, r.acc.id)
  PROVE  /\ InPlace(y)' /\ Added(y) = {} /\ y.m = r.m /\ y.ok = ok
         /\ y.acc.id = r.acc.id /\ r.acc.id \in 0..MaxAccIds
<1>1. r.acc.id \in 0..MaxAccIds
  BY DEF Requests, Accs
<1>2. /\ y.m = r.m /\ y.ok = ok /\ y.at = r.at
      /\ y.acc.id = r.acc.id /\ y.acc.uri = r.acc.uri
  BY <1>1, ReplyIs
<1>. QED BY <1>1, <1>2 DEF InPlace, Added, modelSide

LEMMA DeleteKeeps ==
  ASSUME AccInv, toPlugin # <<>>, Head(toPlugin).m = "delete",
         HandleAccountDelete(Head(toPlugin)), UNCHANGED modelSide
  PROVE  AccInv'
<1>1. Head(toPlugin).m \in Methods
  BY DEF Methods
<1>2. PICK r \in Requests : r = Head(toPlugin)
  BY <1>1, MethodAsked
<1>3. RequestTrue(r) /\ Same({}, {}) /\ InPlace(r) /\ AccTypes /\ r.m \notin Adds
  BY <1>1, <1>2, MethodAsked DEF RequestTrue, AccInv, Adds
<1>4. PICK d : d = r.acc.id
  OBVIOUS
<1>5. d \in Listed /\ d \in DOMAIN engAccs
  BY <1>2, <1>3, <1>4 DEF InPlace, Same, Listed, Adds
<1>. PICK ok \in BOOLEAN : ok <=> d \in DOMAIN engAccs
  OBVIOUS
<1>6. PICK y : y = Reply(r, ok, d)
  OBVIOUS
<1>7. /\ InPlace(y)' /\ Added(y) = {} /\ y.m = "delete" /\ y.ok
      /\ y.acc.id = d /\ d \in 0..MaxAccIds
  <2>1. y = Reply(r, ok, r.acc.id) /\ r.m = "delete"
    BY <1>2, <1>4, <1>6
  <2>2. /\ InPlace(y)' /\ Added(y) = {} /\ y.m = r.m /\ y.ok = ok
        /\ y.acc.id = r.acc.id /\ r.acc.id \in 0..MaxAccIds
    BY <1>3, <2>1, ReplyInPlace
  <2>. QED BY <1>4, <1>5, <1>6, <2>1, <2>2
<1>8. /\ engAccs' = [id \in DOMAIN engAccs \ {d} |-> engAccs[id]]
      /\ toAccModel' = Append(toAccModel, y) /\ toPlugin' = Tail(toPlugin)
      /\ accountsIds' \subseteq accountsIds
      /\ UNCHANGED <<nextAccId, pendingIntents>>
  <2>1. ok = (d \in DOMAIN engAccs)
    OBVIOUS
  <2>. QED BY <1>2, <1>4, <1>5, <1>6, <2>1 DEF HandleAccountDelete
<1>9. /\ DOMAIN engAccs' = DOMAIN engAccs \ {d} /\ DOMAIN engAccs' \subseteq AccIds
      /\ engAccs' \in [DOMAIN engAccs' -> EngAcc]
      /\ \A k \in DOMAIN engAccs' : engAccs'[k] = engAccs[k]
  BY <1>3, <1>8 DEF AccTypes
<1>10. Cardinality(DOMAIN engAccs') <= MaxAccs
  <2>1. Cardinality(DOMAIN engAccs') = Cardinality(DOMAIN engAccs) - 1
    BY <1>3, <1>5, <1>9, Finite, FS_RemoveElement
  <2>. QED BY <1>3, <2>1, Finite, AccAssumption DEF Same
<1>11. Listed' = Listed /\ accList' = accList /\ nextAccId' = nextAccId
  BY <1>8 DEF Listed, modelSide
<1>12. Same({}, {d})'
  <2>1. \A i, j \in DOMAIN accList' : accList'[i].id = accList'[j].id => i = j
    BY <1>3, <1>11 DEF Same
  <2>2. \A i \in DOMAIN accList' : accList'[i].id \in DOMAIN engAccs' =>
          engAccs'[accList'[i].id].uri = accList'[i].uri
    BY <1>3, <1>9, <1>11 DEF Same
  <2>3. \A k \in DOMAIN engAccs' \cup Listed' : k < nextAccId'
    BY <1>3, <1>9, <1>11 DEF Same
  <2>4. DOMAIN engAccs' = (Listed' \ {d}) \cup {} /\ {d} \subseteq Listed'
        /\ {} \cap Listed' = {}
    BY <1>3, <1>5, <1>9, <1>11 DEF Same
  <2>. QED BY <1>10, <2>1, <2>2, <2>3, <2>4 DEF Same
<1>13. ReplyTrue(y)'
  <2>1. Gone(y) = {d}
    BY <1>7 DEF Gone
  <2>2. y.m \notin Adds
    BY <1>7 DEF Adds
  <2>. QED BY <1>7, <1>12, <2>1, <2>2 DEF ReplyTrue
<1>14. /\ nextAccId' \in 1..MaxAccIds + 1
       /\ accountsIds' \subseteq 0..MaxAccIds /\ pendingIntents' \subseteq AccIds
  BY <1>3, <1>8 DEF AccTypes
<1>. QED BY <1>1, <1>2, <1>6, <1>7, <1>8, <1>9, <1>13, <1>14, ReplySent

LEMMA RegisterKeeps ==
  ASSUME AccInv, toPlugin # <<>>, Head(toPlugin).m \in {"register", "unregister"},
         HandleAccountRegister(Head(toPlugin)), UNCHANGED modelSide
  PROVE  AccInv'
<1>1. Head(toPlugin).m \in Methods
  BY DEF Methods
<1>2. PICK r \in Requests : r = Head(toPlugin)
  BY <1>1, MethodAsked
<1>3. RequestTrue(r) /\ Same({}, {}) /\ InPlace(r) /\ AccTypes /\ r.m \notin Adds
  BY <1>1, <1>2, MethodAsked DEF RequestTrue, AccInv, Adds
<1>4. PICK d : d = r.acc.id
  OBVIOUS
<1>5. PICK ok \in BOOLEAN : ok <=> d \in DOMAIN engAccs /\ engAccs[d].reg \notin AwaitsAnswer
  OBVIOUS
<1>6. PICK y : y = Reply(r, ok, d)
  OBVIOUS
<1>7. /\ InPlace(y)' /\ Added(y) = {} /\ y.m = r.m
      /\ y.acc.id = d /\ d \in 0..MaxAccIds
  BY <1>2, <1>3, <1>4, <1>6, ReplyInPlace
<1>8. PICK reg \in AwaitsAnswer :
        reg = IF r.m = "register" THEN "registering" ELSE "unregistering"
  BY DEF AwaitsAnswer
<1>9. /\ engAccs' = IF ok THEN [engAccs EXCEPT ![d].reg = reg] ELSE engAccs
      /\ toAccModel' = Append(toAccModel, y) /\ toPlugin' = Tail(toPlugin)
      /\ UNCHANGED <<nextAccId, accountsIds, pendingIntents>>
  <2>1. ok = (d \in DOMAIN engAccs /\ engAccs[d].reg \notin AwaitsAnswer)
    BY <1>5
  <2>2. toAccModel' = Append(toAccModel, y)
    BY <1>2, <1>4, <1>6, <2>1 DEF HandleAccountRegister
  <2>. QED BY <1>2, <1>4, <1>8, <2>1, <2>2 DEF HandleAccountRegister
<1>10. /\ DOMAIN engAccs' = DOMAIN engAccs /\ engAccs' \in [DOMAIN engAccs -> EngAcc]
       /\ \A k \in DOMAIN engAccs : engAccs'[k].uri = engAccs[k].uri
  <2>1. reg \in EngRegs /\ engAccs \in [DOMAIN engAccs -> EngAcc]
    BY <1>3 DEF EngRegs, AccTypes
  <2>2. CASE ok
    BY <1>9, <2>1, <2>2 DEF EngAcc
  <2>3. CASE ~ok
    BY <1>9, <2>1, <2>3
  <2>. QED BY <2>2, <2>3
<1>11. Same({}, {})'
  BY <1>3, <1>9, <1>10 DEF Same, Listed, modelSide
<1>12. ReplyTrue(y)'
  <2>1. Gone(y) = {} /\ y.m \notin Adds /\ y.m \notin {"delete", "load"}
    BY <1>2, <1>7 DEF Gone, Adds
  <2>. QED BY <1>7, <1>11, <2>1 DEF ReplyTrue
<1>13. /\ nextAccId' \in 1..MaxAccIds + 1 /\ DOMAIN engAccs' \subseteq AccIds
       /\ accountsIds' \subseteq 0..MaxAccIds /\ pendingIntents' \subseteq AccIds
  BY <1>3, <1>9, <1>10 DEF AccTypes
<1>. QED BY <1>1, <1>2, <1>6, <1>7, <1>9, <1>10, <1>12, <1>13, ReplySent

LEMMA UpdateKeeps ==
  ASSUME AccInv, toPlugin # <<>>, Head(toPlugin).m = "update",
         HandleAccountUpdate(Head(toPlugin)), UNCHANGED modelSide
  PROVE  AccInv'
<1>1. Head(toPlugin).m \in Methods
  BY DEF Methods
<1>2. PICK r \in Requests : r = Head(toPlugin)
  BY <1>1, MethodAsked
<1>3. RequestTrue(r) /\ Same({}, {}) /\ InPlace(r) /\ AccTypes /\ r.m \notin Adds
  BY <1>1, <1>2, MethodAsked DEF RequestTrue, AccInv, Adds
<1>4. PICK ok \in BOOLEAN : ok <=> r.acc.id \in DOMAIN engAccs
  OBVIOUS
<1>5. PICK y : y = Reply(r, ok, r.acc.id)
  OBVIOUS
<1>6. /\ InPlace(y)' /\ Added(y) = {} /\ y.m = r.m
      /\ y.acc.id = r.acc.id /\ r.acc.id \in 0..MaxAccIds
  <2>1. InPlace(r) /\ y = Reply(r, ok, r.acc.id)
    BY <1>3, <1>5
  <2>. QED BY <1>3, <2>1, ReplyInPlace
<1>7. /\ toAccModel' = Append(toAccModel, y) /\ toPlugin' = Tail(toPlugin)
      /\ UNCHANGED engineSide
  <2>1. ok = (r.acc.id \in DOMAIN engAccs)
    BY <1>4
  <2>. QED BY <1>2, <1>5, <2>1 DEF HandleAccountUpdate
<1>8. Same({}, {})'
  BY <1>3, <1>7 DEF Same, Listed, engineSide, modelSide
<1>9. ReplyTrue(y)'
  <2>1. Gone(y) = {} /\ y.m \notin Adds /\ y.m \notin {"delete", "load"}
    BY <1>2, <1>6 DEF Gone, Adds
  <2>. QED BY <1>6, <1>8, <2>1 DEF ReplyTrue
<1>10. /\ nextAccId' \in 1..MaxAccIds + 1 /\ DOMAIN engAccs' \subseteq AccIds
       /\ engAccs' \in [DOMAIN engAccs' -> EngAcc]
       /\ accountsIds' \subseteq 0..MaxAccIds /\ pendingIntents' \subseteq AccIds
  BY <1>3, <1>7 DEF AccTypes, engineSide
<1>. QED BY <1>1, <1>2, <1>5, <1>6, <1>7, <1>9, <1>10, ReplySent

-----------------------------------------------------------------------------
(* Dart gets the answer of a method.                                       *)

LEMMA MethodReplied ==
  ASSUME AccInv, toAccModel # <<>>, Head(toAccModel).m \in Methods
  PROVE  LET r == Head(toAccModel) IN
           /\ r \in Replies /\ ReplyTrue(r) /\ Goes(r)
           /\ NoMethod(toPlugin) /\ NoMethod(Tail(toAccModel)) /\ ~saveDue
<1>. DEFINE r == Head(toAccModel)
<1>1. /\ toAccModel \in Seq(Arrivals) /\ r \in Arrivals
      /\ r = toAccModel[1] /\ 1 \in DOMAIN toAccModel
  BY TailOf DEF AccInv, AccTypes
<1>2. r \in Replies /\ IsMethod(r)
  BY <1>1, ArrivalKinds
<1>3. ~NoMethod(toAccModel)
  BY <1>1, <1>2 DEF NoMethod
<1>4. PICK x \in Replies : Replied(x) /\ ReplyTrue(x) /\ Goes(x)
  BY <1>3 DEF AccInv, Phase, Free, Asked
<1>5. x = r /\ NoMethod(Tail(toAccModel))
  BY <1>1, <1>2, <1>4, OnlyTaken DEF Replied
<1>. QED BY <1>2, <1>4, <1>5 DEF Replied

(* The model has the accounts of the engine again.                         *)
LEMMA MethodOver ==
  ASSUME AccInv, toAccModel # <<>>, Head(toAccModel).m \in Methods,
         toAccModel' = Tail(toAccModel), toPlugin' = toPlugin,
         UNCHANGED <<engineSide, savedAccs, loadSel>>,
         accList' \in Seq(Accs), selIdx' \in Nat, saveDue' \in BOOLEAN,
         toLoad' \in Seq(Uris), Same({}, {})', Selected'
  PROVE  AccInv'
<1>1. NoMethod(toPlugin) /\ NoMethod(Tail(toAccModel))
  BY MethodReplied
<1>2. toAccModel' \in Seq(Arrivals)
  BY TailOf DEF AccInv, AccTypes
<1>3. AccTypes' /\ SavedFits'
  BY <1>2 DEF AccInv, AccTypes, SavedFits, engineSide
<1>4. Free'
  BY <1>1 DEF Free, NoMethod
<1>. QED BY <1>3, <1>4 DEF AccInv, Phase

LEMMA AppendedSame ==
  ASSUME AccTypes, NEW a \in Accs, Same({a.id}, {}), engAccs[a.id].uri = a.uri,
         accList' = Append(accList, a), UNCHANGED <<engAccs, nextAccId>>
  PROVE  Same({}, {})' /\ accList' \in Seq(Accs) /\ Len(accList') = Len(accList) + 1
<1>1. accList \in Seq(Accs) /\ Len(accList) \in Nat
  BY DEF AccTypes
<1>2. /\ accList' \in Seq(Accs) /\ Len(accList') = Len(accList) + 1
      /\ DOMAIN accList = 1..Len(accList) /\ DOMAIN accList' = 1..Len(accList) + 1
      /\ \A i \in DOMAIN accList : accList'[i] = accList[i]
      /\ accList'[Len(accList) + 1] = a
  BY <1>1
<1>3. a.id \notin Listed
  BY DEF Same
<1>4. \A i, j \in DOMAIN accList' : accList'[i].id = accList'[j].id => i = j
  <2>1. \A i \in DOMAIN accList' : i \in DOMAIN accList \/ i = Len(accList) + 1
    BY <1>1, <1>2
  <2>2. \A i, j \in DOMAIN accList : accList[i].id = accList[j].id => i = j
    BY DEF Same
  <2>3. \A i \in DOMAIN accList : accList[i].id # a.id
    BY <1>3 DEF Listed
  <2>. QED BY <1>2, <2>1, <2>2, <2>3
<1>5. Listed' = Listed \cup {a.id}
  <2>1. ASSUME NEW x \in Listed' PROVE x \in Listed \cup {a.id}
    <3>1. PICK i \in DOMAIN accList' : x = accList'[i].id
      BY DEF Listed
    <3>2. CASE i \in DOMAIN accList
      BY <1>2, <3>1, <3>2 DEF Listed
    <3>3. CASE i = Len(accList) + 1
      BY <1>2, <3>1, <3>3
    <3>. QED BY <1>1, <1>2, <3>2, <3>3
  <2>2. ASSUME NEW x \in Listed PROVE x \in Listed'
    <3>1. PICK i \in DOMAIN accList : x = accList[i].id
      BY DEF Listed
    <3>2. i \in DOMAIN accList' /\ accList'[i] = accList[i]
      BY <1>1, <1>2
    <3>. QED BY <3>1, <3>2 DEF Listed
  <2>3. a.id \in Listed'
    <3>1. Len(accList) + 1 \in DOMAIN accList'
      BY <1>1, <1>2
    <3>. QED BY <1>2, <3>1 DEF Listed
  <2>. QED BY <2>1, <2>2, <2>3
<1>6. \A i \in DOMAIN accList' : accList'[i].id \in DOMAIN engAccs' =>
        engAccs'[accList'[i].id].uri = accList'[i].uri
  <2>1. ASSUME NEW i \in DOMAIN accList', accList'[i].id \in DOMAIN engAccs'
        PROVE  engAccs'[accList'[i].id].uri = accList'[i].uri
    <3>1. CASE i \in DOMAIN accList
      BY <1>2, <2>1, <3>1 DEF Same
    <3>2. CASE i = Len(accList) + 1
      BY <1>2, <3>2
    <3>. QED BY <1>1, <1>2, <3>1, <3>2
  <2>. QED BY <2>1
<1>7. \A id \in DOMAIN engAccs' \cup Listed' : id < nextAccId'
  <2>1. DOMAIN engAccs = (Listed \ {}) \cup {a.id}
    BY DEF Same
  <2>. QED BY <1>5, <2>1 DEF Same
<1>8. DOMAIN engAccs' = Listed' /\ Cardinality(DOMAIN engAccs') <= MaxAccs
  BY <1>5 DEF Same
<1>. QED BY <1>2, <1>4, <1>6, <1>7, <1>8 DEF Same

LEMMA AddedKeeps ==
  ASSUME AccInv, toAccModel # <<>>, Head(toAccModel).m = "add",
         toAccModel' = Tail(toAccModel), AccountAdded(Head(toAccModel)),
         UNCHANGED <<engineSide, savedAccs>>
  PROVE  AccInv'
<1>1. Head(toAccModel).m \in Methods
  BY DEF Methods
<1>2. PICK r \in Replies : r = Head(toAccModel)
  BY <1>1, MethodReplied
<1>3. ReplyTrue(r) /\ Goes(r) /\ AccTypes /\ r.acc \in Accs
  BY <1>1, <1>2, MethodReplied DEF AccInv, Replies
<1>4. Selected /\ Same(Added(r), Gone(r)) /\ Gone(r) = {}
  BY <1>2, <1>3 DEF Goes, ReplyTrue, Gone
<1>5. CASE r.ok
  <2>1. PICK a \in Accs : /\ a = [r.acc EXCEPT !.reg = "inProgress"]
                          /\ a.id = r.acc.id /\ a.uri = r.acc.uri
    BY <1>3, AccEdit DEF ListRegs
  <2>2. Added(r) = {a.id} /\ engAccs[a.id].uri = a.uri
    BY <1>2, <1>3, <1>5, <2>1 DEF Added, ReplyTrue, Adds
  <2>3. /\ accList' = Append(accList, a) /\ saveDue' = TRUE
        /\ selIdx' = IF selIdx = 0 THEN 1 ELSE selIdx
        /\ UNCHANGED <<toLoad, loadSel, toPlugin>>
    BY <1>2, <1>5, <2>1 DEF AccountAdded
  <2>4. Same({}, {})' /\ accList' \in Seq(Accs) /\ Len(accList') = Len(accList) + 1
    BY <1>3, <1>4, <2>2, <2>3, AppendedSame DEF engineSide
  <2>5. selIdx' \in Nat /\ selIdx' # 0 /\ selIdx' \in 0..Len(accList')
    BY <1>3, <1>4, <2>3, <2>4 DEF Selected, AccTypes
  <2>6. Selected'
    BY <2>3, <2>5 DEF Selected
  <2>. QED BY <1>1, <1>3, <2>3, <2>4, <2>5, <2>6, MethodOver DEF AccTypes
<1>6. CASE ~r.ok
  <2>1. UNCHANGED <<accList, selIdx, saveDue, toLoad, loadSel, toPlugin>>
    BY <1>2, <1>6 DEF AccountAdded
  <2>2. Added(r) = {}
    BY <1>6 DEF Added
  <2>3. Same({}, {})' /\ Selected'
    BY <1>4, <2>1, <2>2 DEF Same, Listed, Selected, Settings, engineSide
  <2>. QED BY <1>1, <1>3, <2>1, <2>3, MethodOver DEF AccTypes
<1>. QED BY <1>5, <1>6

LEMMA LoadedKeeps ==
  ASSUME AccInv, toAccModel # <<>>, Head(toAccModel).m = "load",
         toAccModel' = Tail(toAccModel), Loaded(Head(toAccModel)),
         UNCHANGED <<engineSide, savedAccs>>
  PROVE  AccInv'
<1>1. Head(toAccModel).m \in Methods
  BY DEF Methods
<1>2. PICK r \in Replies : r = Head(toAccModel)
  BY <1>1, MethodReplied
<1>3. /\ ReplyTrue(r) /\ Goes(r) /\ AccTypes /\ r.acc \in Accs
      /\ NoMethod(toPlugin) /\ NoMethod(Tail(toAccModel)) /\ ~saveDue
  BY <1>1, <1>2, MethodReplied DEF AccInv, Replies
<1>4. LoadGoesOn(r) /\ r.ok /\ Same(Added(r), Gone(r)) /\ Gone(r) = {}
  BY <1>2, <1>3 DEF Goes, ReplyTrue, Gone
<1>5. PICK a \in Accs : /\ a = [r.acc EXCEPT !.reg = "inProgress"]
                        /\ a.id = r.acc.id /\ a.uri = r.acc.uri
  BY <1>3, AccEdit DEF ListRegs
<1>6. Added(r) = {a.id} /\ engAccs[a.id].uri = a.uri
  BY <1>2, <1>3, <1>4, <1>5 DEF Added, ReplyTrue, Adds
<1>7. accList' = Append(accList, a) /\ UNCHANGED <<saveDue, loadSel>>
  BY <1>2, <1>4, <1>5 DEF Loaded
<1>8. Same({}, {})' /\ accList' \in Seq(Accs) /\ Len(accList') = Len(accList) + 1
  BY <1>3, <1>4, <1>6, <1>7, AppendedSame DEF engineSide
<1>. DEFINE uris == savedAccs.uris
<1>9. /\ uris \in Seq(Uris) /\ Len(uris) \in Nat /\ Len(accList) \in Nat
      /\ accList \in Seq(Accs) /\ toLoad \in Seq(Uris)
  BY <1>3 DEF AccTypes
<1>10. \A i \in DOMAIN accList' : accList'[i].uri = uris[i]
  <2>1. ASSUME NEW i \in DOMAIN accList' PROVE accList'[i].uri = uris[i]
    <3>1. CASE i \in DOMAIN accList
      <4>1. accList'[i] = accList[i]
        BY <1>7, <1>9, <3>1
      <4>. QED BY <1>4, <3>1, <4>1 DEF LoadGoesOn
    <3>2. CASE i = Len(accList) + 1
      BY <1>4, <1>5, <1>7, <1>9, <3>2 DEF LoadGoesOn
    <3>. QED BY <1>7, <1>8, <1>9, <3>1, <3>2
  <2>. QED BY <2>1
<1>11. savedAccs # NoSettings /\ loadSel = savedAccs.sel
  BY <1>4 DEF LoadGoesOn
<1>12. CASE toLoad # <<>>
  <2>1. PICK x : x = Request("load", 0, Acc(0, Head(toLoad), "none"))
    OBVIOUS
  <2>2. /\ toPlugin' = Append(toPlugin, x)
        /\ toLoad' = Tail(toLoad) /\ UNCHANGED selIdx
    BY <1>2, <1>4, <1>12, <2>1 DEF Loaded
  <2>3. /\ Tail(toLoad) \in Seq(Uris) /\ Head(toLoad) \in Uris /\ Head(toLoad) = toLoad[1]
        /\ 1 \in DOMAIN toLoad /\ Len(Tail(toLoad)) + 1 = Len(toLoad)
        /\ Len(toLoad) \in Nat
        /\ \A j \in DOMAIN Tail(toLoad) :
             j \in Nat /\ j + 1 \in DOMAIN toLoad /\ Tail(toLoad)[j] = toLoad[j + 1]
    BY <1>9, <1>12, TailOf
  <2>4. x \in Requests /\ IsMethod(x) /\ x \in AccBlocks /\ x.m = "load" /\ x.acc.uri = Head(toLoad)
    <3>1. Acc(0, Head(toLoad), "none") \in Accs
      BY <2>3, AccAssumption DEF Acc, Accs
    <3>. QED BY <2>1, <3>1 DEF Request, Requests, AccBlocks, Methods, IsMethod, Acc
  <2>5. toPlugin' \in Seq(AccBlocks) /\ Only(toPlugin', x)
    BY <1>3, <2>2, <2>4, OnlyFirst, AppendOf DEF AccTypes
  <2>6. toAccModel' \in Seq(Arrivals) /\ NoMethod(toAccModel')
    BY <1>3, TailOf DEF AccTypes
  <2>7. AccTypes' /\ SavedFits'
    BY <1>3, <1>7, <1>8, <2>2, <2>3, <2>5, <2>6
       DEF AccInv, AccTypes, SavedFits, engineSide
  <2>8. Asked(x)'
    BY <1>3, <1>7, <2>5, <2>6 DEF Asked
  <2>9. RequestTrue(x)'
    BY <1>8, <2>4 DEF RequestTrue, InPlace, Adds
  <2>10. LoadGoesOn(x)'
    <3>1. Len(accList') + 1 + Len(toLoad') = Len(uris)
      <4>1. Len(accList) + 1 + Len(toLoad) = Len(uris)
        BY <1>4 DEF LoadGoesOn
      <4>2. Len(toLoad') + 1 = Len(toLoad) /\ Len(toLoad') \in Nat
        BY <2>2, <2>3
      <4>3. \A n, k, u \in Nat : n + 1 + (k + 1) = u => (n + 1) + 1 + k = u
        OBVIOUS
      <4>4. Len(accList) + 1 + (Len(toLoad') + 1) = Len(uris)
        BY <4>1, <4>2
      <4>. QED BY <1>8, <1>9, <4>2, <4>3, <4>4
    <3>2. x.acc.uri = uris[Len(accList') + 1]
      <4>1. toLoad[1] = uris[Len(accList) + 1 + 1]
        BY <1>4, <2>3 DEF LoadGoesOn
      <4>2. Len(accList') + 1 = Len(accList) + 1 + 1
        BY <1>8
      <4>. QED BY <2>3, <2>4, <4>1, <4>2
    <3>3. ASSUME NEW j \in DOMAIN toLoad'
          PROVE  toLoad'[j] = uris[Len(accList') + 1 + j]
      <4>1. j \in Nat /\ j + 1 \in DOMAIN toLoad /\ toLoad'[j] = toLoad[j + 1]
        BY <2>2, <2>3
      <4>2. toLoad[j + 1] = uris[Len(accList) + 1 + (j + 1)]
        BY <1>4, <4>1 DEF LoadGoesOn
      <4>3. Len(accList) + 1 + (j + 1) = Len(accList') + 1 + j
        BY <1>8, <1>9, <4>1
      <4>. QED BY <4>1, <4>2, <4>3
    <3>4. selIdx' = 0 /\ savedAccs' = savedAccs /\ loadSel' = savedAccs.sel
      BY <1>4, <1>7, <2>2 DEF LoadGoesOn
    <3>. QED BY <1>10, <1>11, <3>1, <3>2, <3>3, <3>4 DEF LoadGoesOn
  <2>11. Goes(x)'
    BY <2>4, <2>10 DEF Goes
  <2>. QED BY <2>4, <2>7, <2>8, <2>9, <2>11 DEF AccInv, Phase
<1>13. CASE toLoad = <<>>
  <2>1. toLoad' = <<>> /\ selIdx' = savedAccs.sel /\ UNCHANGED toPlugin
    BY <1>2, <1>4, <1>11, <1>13 DEF Loaded
  <2>2. Len(accList') = Len(uris)
    BY <1>4, <1>8, <1>9, <1>13 DEF LoadGoesOn
  <2>3. /\ savedAccs.sel \in 0..Len(uris) /\ savedAccs.sel \in Nat
        /\ uris # <<>> => savedAccs.sel # 0
    BY <1>3, <1>11 DEF AccInv, SavedFits, AccTypes
  <2>4. uris # <<>>
    BY <1>8, <1>9, <2>2
  <2>5. savedAccs = Settings(accList', selIdx')
    <3>1. uris = [i \in DOMAIN accList' |-> accList'[i].uri]
      <4>1. DOMAIN accList' = DOMAIN uris
        BY <1>8, <1>9, <2>2
      <4>. QED BY <1>9, <1>10, <4>1
    <3>2. savedAccs = [uris |-> uris, sel |-> savedAccs.sel]
      BY <1>3 DEF AccTypes
    <3>. QED BY <2>1, <3>1, <3>2 DEF Settings
  <2>6. Selected'
    BY <2>1, <2>2, <2>3, <2>4, <2>5 DEF Selected
  <2>. QED BY <1>1, <1>3, <1>7, <1>8, <2>1, <2>3, <2>6, MethodOver DEF AccTypes
<1>. QED BY <1>12, <1>13

(* What is left of a sequence when one place is removed.                   *)
LEMMA Concat ==
  ASSUME NEW M, NEW a \in Seq(M), NEW b \in Seq(M)
  PROVE  /\ a \o b \in Seq(M) /\ Len(a \o b) = Len(a) + Len(b)
         /\ DOMAIN (a \o b) = 1..Len(a) + Len(b)
         /\ \A k \in 1..Len(a) : (a \o b)[k] = a[k]
         /\ \A k \in 1..Len(b) : (a \o b)[Len(a) + k] = b[k]
  OBVIOUS

LEMMA Removed ==
  ASSUME NEW M, NEW s \in Seq(M), NEW i \in DOMAIN s
  PROVE  /\ RemoveAt(s, i) \in Seq(M) /\ Len(RemoveAt(s, i)) = Len(s) - 1
         /\ DOMAIN RemoveAt(s, i) = 1..Len(s) - 1
         /\ \A k \in 1..Len(s) - 1 : RemoveAt(s, i)[k] = IF k < i THEN s[k] ELSE s[k + 1]
<1>. DEFINE a == SubSeq(s, 1, i - 1)
            b == SubSeq(s, i + 1, Len(s))
            r == a \o b
<1>1. i \in Nat /\ 1 <= i /\ i <= Len(s) /\ Len(s) \in Nat
  OBVIOUS
<1>2. /\ a \in Seq(M) /\ Len(a) = i - 1
      /\ \A k \in 1..i - 1 : a[k] = s[k]
  BY <1>1
<1>3. /\ b \in Seq(M) /\ Len(b) = Len(s) - i
      /\ \A k \in 1..Len(s) - i : b[k] = s[k + i]
  BY <1>1
<1>4. r = RemoveAt(s, i)
  BY DEF RemoveAt
<1>. HIDE DEF a, b
<1>5. /\ r \in Seq(M) /\ DOMAIN r = 1..Len(a) + Len(b)
      /\ Len(r) = Len(a) + Len(b)
      /\ \A k \in 1..Len(a) : r[k] = a[k]
      /\ \A k \in 1..Len(b) : r[Len(a) + k] = b[k]
  <2>1. a \in Seq(M) /\ b \in Seq(M)
    BY <1>2, <1>3
  <2>. QED BY <2>1, Concat
<1>. HIDE DEF r
<1>6. DOMAIN r = 1..Len(s) - 1 /\ Len(r) = Len(s) - 1
  <2>1. Len(a) + Len(b) = Len(s) - 1
    BY <1>1, <1>2, <1>3
  <2>. QED BY <1>5, <2>1
<1>7. ASSUME NEW k \in 1..Len(s) - 1
      PROVE  r[k] = IF k < i THEN s[k] ELSE s[k + 1]
  <2>1. CASE k < i
    <3>1. k \in 1..i - 1 /\ i - 1 = Len(a)
      BY <1>1, <1>2, <2>1
    <3>2. r[k] = a[k] /\ a[k] = s[k]
      BY <1>2, <1>5, <3>1
    <3>. QED BY <2>1, <3>2
  <2>2. CASE ~(k < i)
    <3>1. PICK n \in 1..Len(s) - i : n = k - (i - 1)
      BY <1>1, <2>2
    <3>2. n \in 1..Len(b) /\ Len(a) + n = k /\ n + i = k + 1
      <4>1. Len(a) = i - 1 /\ Len(b) = Len(s) - i
        BY <1>2, <1>3
      <4>. QED BY <1>1, <3>1, <4>1
    <3>3. r[k] = b[n] /\ b[n] = s[k + 1]
      BY <1>3, <1>5, <3>1, <3>2
    <3>. QED BY <2>2, <3>3
  <2>. QED BY <2>1, <2>2
<1>. QED BY <1>4, <1>5, <1>6, <1>7

(* Without its account at k the list is Listed without that id.            *)
LEMMA RemovedSame ==
  ASSUME AccTypes, NEW k \in DOMAIN accList, NEW d, d = accList[k].id, Same({}, {d}),
         accList' = RemoveAt(accList, k), UNCHANGED <<engAccs, nextAccId>>
  PROVE  Same({}, {})' /\ accList' \in Seq(Accs) /\ Len(accList') = Len(accList) - 1
<1>1. /\ accList \in Seq(Accs) /\ Len(accList) \in Nat /\ k \in 1..Len(accList)
      /\ DOMAIN accList = 1..Len(accList) /\ Len(accList) - 1 \in Nat
  BY DEF AccTypes
<1>2. /\ accList' \in Seq(Accs) /\ DOMAIN accList' = 1..Len(accList) - 1
      /\ Len(accList') = Len(accList) - 1
      /\ \A i \in 1..Len(accList) - 1 :
           accList'[i] = IF i < k THEN accList[i] ELSE accList[i + 1]
  BY <1>1, Removed
<1>3. Len(accList') = Len(accList) - 1
  BY <1>1, <1>2
<1>. DEFINE from(i) == IF i < k THEN i ELSE i + 1
<1>4. \A i \in DOMAIN accList' : /\ from(i) \in DOMAIN accList /\ from(i) # k
                                 /\ accList'[i] = accList[from(i)] /\ i \in Nat
  BY <1>1, <1>2
<1>5. \A j \in DOMAIN accList : j # k => \E i \in DOMAIN accList' : from(i) = j
  <2>1. ASSUME NEW j \in DOMAIN accList, j < k PROVE \E i \in DOMAIN accList' : from(i) = j
    BY <1>1, <1>2, <2>1
  <2>2. ASSUME NEW j \in DOMAIN accList, j > k PROVE \E i \in DOMAIN accList' : from(i) = j
    <3>1. j - 1 \in DOMAIN accList' /\ from(j - 1) = j
      BY <1>1, <1>2, <2>2
    <3>. QED BY <3>1
  <2>. QED BY <1>1, <2>1, <2>2
<1>6. \A i, j \in DOMAIN accList' : from(i) = from(j) => i = j
  BY <1>1, <1>4
<1>. HIDE DEF from
<1>7. \A i, j \in DOMAIN accList : accList[i].id = accList[j].id => i = j
  BY DEF Same
<1>8. \A i, j \in DOMAIN accList' : accList'[i].id = accList'[j].id => i = j
  BY <1>4, <1>6, <1>7
<1>9. Listed' = Listed \ {d}
  <2>1. ASSUME NEW x \in Listed' PROVE x \in Listed \ {d}
    <3>1. PICK i \in DOMAIN accList' : x = accList'[i].id
      BY DEF Listed
    <3>2. x = accList[from(i)].id /\ from(i) \in DOMAIN accList /\ x # d
      BY <1>4, <1>7, <3>1
    <3>. QED BY <3>2 DEF Listed
  <2>2. ASSUME NEW x \in Listed \ {d} PROVE x \in Listed'
    <3>1. PICK j \in DOMAIN accList : x = accList[j].id
      BY DEF Listed
    <3>2. PICK i \in DOMAIN accList' : from(i) = j
      BY <1>5, <2>2, <3>1
    <3>. QED BY <1>4, <3>1, <3>2 DEF Listed
  <2>. QED BY <2>1, <2>2
<1>10. DOMAIN engAccs' = Listed'
  BY <1>9 DEF Same
<1>11. \A i \in DOMAIN accList' : engAccs'[accList'[i].id].uri = accList'[i].uri
  <2>1. ASSUME NEW i \in DOMAIN accList' PROVE engAccs'[accList'[i].id].uri = accList'[i].uri
    <3>1. accList'[i].id \in DOMAIN engAccs
      BY <1>10 DEF Listed
    <3>. QED BY <1>4, <3>1 DEF Same
  <2>. QED BY <2>1
<1>12. /\ \A id \in DOMAIN engAccs' \cup Listed' : id < nextAccId'
       /\ Cardinality(DOMAIN engAccs') <= MaxAccs
  BY <1>9 DEF Same
<1>. QED BY <1>2, <1>3, <1>8, <1>10, <1>11, <1>12 DEF Same

LEMMA DeletedKeeps ==
  ASSUME AccInv, toAccModel # <<>>, Head(toAccModel).m = "delete",
         toAccModel' = Tail(toAccModel), Deleted(Head(toAccModel)),
         UNCHANGED <<engineSide, savedAccs>>
  PROVE  AccInv'
<1>1. Head(toAccModel).m \in Methods
  BY DEF Methods
<1>2. PICK r \in Replies : r = Head(toAccModel)
  BY <1>1, MethodReplied
<1>3. ReplyTrue(r) /\ Goes(r) /\ AccTypes
  BY <1>1, <1>2, MethodReplied DEF AccInv
<1>4. /\ Selected /\ r.ok /\ r.at \in DOMAIN accList /\ r.acc.id = accList[r.at].id
      /\ Same({}, {r.acc.id})
  <2>1. Added(r) = {} /\ Gone(r) = {r.acc.id} /\ r.m \notin Adds
    BY <1>2 DEF Added, Gone, Adds
  <2>. QED BY <1>2, <1>3, <2>1 DEF Goes, ReplyTrue, InPlace
<1>5. selIdx # 0 /\ selIdx \in 1..Len(accList)
  BY <1>3, <1>4 DEF Selected, AccTypes
<1>6. PICK rest : rest = RemoveAt(accList, r.at)
  OBVIOUS
<1>7. /\ accList' = rest /\ saveDue' = TRUE
      /\ selIdx' = IF selIdx > Len(rest) THEN Len(rest) ELSE selIdx
      /\ UNCHANGED <<toLoad, loadSel, toPlugin>>
  BY <1>2, <1>4, <1>5, <1>6 DEF Deleted
<1>8. Same({}, {})' /\ accList' \in Seq(Accs) /\ Len(accList') = Len(accList) - 1
  BY <1>3, <1>4, <1>6, <1>7, RemovedSame DEF engineSide
<1>9. selIdx' \in 0..Len(accList') /\ (accList' # <<>> => selIdx' # 0) /\ selIdx' \in Nat
  <2>1. Len(accList) \in Nat /\ Len(rest) \in Nat /\ (rest # <<>> => Len(rest) # 0)
    <3>1. \A s \in Seq(Accs) : Len(s) \in Nat /\ (s # <<>> => Len(s) # 0)
      OBVIOUS
    <3>. QED BY <1>3, <1>7, <1>8, <3>1 DEF AccTypes
  <2>. QED BY <1>5, <1>7, <2>1
<1>10. Selected'
  BY <1>7, <1>9 DEF Selected
<1>. QED BY <1>1, <1>3, <1>7, <1>8, <1>9, <1>10, MethodOver DEF AccTypes

(* An account takes the place of one with its id and address.              *)
LEMMA ReplacedSame ==
  ASSUME AccTypes, NEW k \in DOMAIN accList, NEW a \in Accs, Same({}, {}),
         a.id = accList[k].id, a.uri = accList[k].uri,
         accList' = [accList EXCEPT ![k] = a], UNCHANGED <<engAccs, nextAccId>>
  PROVE  Same({}, {})' /\ accList' \in Seq(Accs) /\ Len(accList') = Len(accList)
<1>1. accList \in Seq(Accs)
  BY DEF AccTypes
<1>2. /\ accList' \in Seq(Accs) /\ DOMAIN accList' = DOMAIN accList
      /\ Len(accList') = Len(accList)
      /\ \A i \in DOMAIN accList : /\ accList'[i].id = accList[i].id
                                   /\ accList'[i].uri = accList[i].uri
  BY <1>1
<1>3. Listed' = Listed
  BY <1>2 DEF Listed
<1>. QED BY <1>2, <1>3 DEF Same

LEMMA EditedKeeps ==
  ASSUME AccInv, toAccModel # <<>>,
         Head(toAccModel).m \in {"update", "register", "unregister"},
         toAccModel' = Tail(toAccModel), UNCHANGED <<engineSide, savedAccs>>,
         \/ Updated(Head(toAccModel))
         \/ Registering(Head(toAccModel))
  PROVE  AccInv'
<1>1. Head(toAccModel).m \in Methods
  BY DEF Methods
<1>2. PICK r \in Replies : r = Head(toAccModel)
  BY <1>1, MethodReplied
<1>3. ReplyTrue(r) /\ Goes(r) /\ AccTypes /\ r.acc \in Accs
  BY <1>1, <1>2, MethodReplied DEF AccInv, Replies
<1>4. Selected /\ InPlace(r) /\ Same({}, {}) /\ r.m \notin Adds
  <2>1. Added(r) = {} /\ Gone(r) = {} /\ r.m \notin Adds
    BY <1>2 DEF Added, Gone, Adds
  <2>. QED BY <1>2, <1>3, <2>1 DEF Goes, ReplyTrue
<1>5. r.at \in DOMAIN accList /\ accList[r.at].id = r.acc.id /\ accList[r.at].uri = r.acc.uri
      /\ accList[r.at] \in Accs
  BY <1>3, <1>4 DEF InPlace, AccTypes
<1>6. UNCHANGED <<selIdx, toLoad, loadSel, toPlugin>>
  BY DEF Updated, Registering
<1>7. CASE r.ok
  <2>1. PICK a \in Accs : /\ a.id = accList[r.at].id /\ a.uri = accList[r.at].uri
                          /\ accList' = [accList EXCEPT ![r.at] = a]
    <3>1. CASE Updated(r)
      BY <1>3, <1>5, <1>7, <3>1 DEF Updated
    <3>2. CASE Registering(r)
      <4>1. PICK a \in Accs : /\ a = [accList[r.at] EXCEPT !.reg = "inProgress"]
                              /\ a.id = accList[r.at].id /\ a.uri = accList[r.at].uri
        BY <1>5, AccEdit DEF ListRegs
      <4>2. accList' = [accList EXCEPT ![r.at] = a]
        BY <1>5, <1>7, <3>2, <4>1 DEF Registering
      <4>. QED BY <4>1, <4>2
    <3>. QED BY <1>2, <3>1, <3>2
  <2>2. saveDue' = TRUE
    BY <1>2, <1>5, <1>7 DEF Updated, Registering
  <2>3. Same({}, {})' /\ accList' \in Seq(Accs) /\ Len(accList') = Len(accList)
    BY <1>3, <1>4, <1>5, <2>1, ReplacedSame DEF engineSide
  <2>4. accList' # <<>> => accList # <<>>
    BY <1>3, <2>3 DEF AccTypes
  <2>5. Selected'
    BY <1>4, <1>6, <2>2, <2>3, <2>4 DEF Selected
  <2>. QED BY <1>1, <1>3, <1>6, <2>2, <2>3, <2>5, MethodOver DEF AccTypes
<1>8. CASE ~r.ok
  <2>1. UNCHANGED <<accList, saveDue>>
    BY <1>2, <1>8 DEF Updated, Registering
  <2>2. Same({}, {})' /\ Selected'
    BY <1>4, <1>6, <2>1 DEF Same, Listed, Selected, Settings, engineSide
  <2>. QED BY <1>1, <1>3, <1>6, <2>1, <2>2, MethodOver DEF AccTypes
<1>. QED BY <1>7, <1>8

-----------------------------------------------------------------------------
(* The process starts anew.                                                *)

LEMMA NoneYet ==
  ASSUME DOMAIN engAccs' = {}, accList' = <<>>
  PROVE  Same({}, {})'
<1>1. Listed' = {}
  BY DEF Listed
<1>2. Cardinality(DOMAIN engAccs') <= MaxAccs
  BY FS_EmptySet, AccAssumption
<1>3. DOMAIN accList' = {}
  OBVIOUS
<1>. QED BY <1>1, <1>2, <1>3 DEF Same

LEMMA RestartKeeps ==
  ASSUME AccInv, ~EmptyRestored, Restart("process")
  PROVE  AccInv'
<1>1. /\ engAccs' = [id \in {} |-> 0] /\ nextAccId' = 1 /\ pendingIntents' = {}
      /\ accList' = <<>> /\ saveDue' = FALSE /\ toAccModel' = <<>>
      /\ accountsIds' = {} /\ savedAccs' = savedAccs
  BY DEF Restart, LoadFromJson
<1>2. /\ DOMAIN engAccs' = {} /\ engAccs' \in [DOMAIN engAccs' -> EngAcc]
      /\ nextAccId' \in 1..MaxAccIds + 1
  BY <1>1, AccAssumption
<1>3. Same({}, {})'
  BY <1>1, <1>2, NoneYet
<1>4. SavedFits'
  BY <1>1 DEF AccInv, SavedFits
<1>5. /\ accList' \in Seq(Accs) /\ toAccModel' \in Seq(Arrivals) /\ NoMethod(toAccModel')
  BY <1>1 DEF NoMethod
<1>. DEFINE uris == savedAccs.uris
<1>6. uris \in Seq(Uris) /\ savedAccs \in [uris: Seq(Uris), sel: Nat]
  BY DEF AccInv, AccTypes
<1>7. loadSel' = IF savedAccs.sel = 0 THEN 1 ELSE savedAccs.sel
  BY DEF Restart, LoadFromJson
<1>8. loadSel' \in Nat
  BY <1>6, <1>7
<1>9. CASE uris = <<>>
  <2>1. savedAccs = NoSettings
    BY <1>9 DEF Restart, LoadFromJson
  <2>2. selIdx' = 0 /\ toLoad' = <<>> /\ toPlugin' = <<>>
    BY <1>9, <2>1 DEF Restart, LoadFromJson
  <2>3. AccTypes'
    <3>1. toPlugin' \in Seq(AccBlocks) /\ toLoad' \in Seq(Uris) /\ selIdx' \in Nat
      BY <2>2
    <3>. QED BY <1>1, <1>2, <1>5, <1>6, <1>8, <3>1 DEF AccTypes
  <2>4. Free' /\ Selected'
    BY <1>1, <2>1, <2>2 DEF Free, NoMethod, Selected
  <2>. QED BY <1>3, <1>4, <2>3, <2>4 DEF AccInv, Phase
<1>10. CASE uris # <<>>
  <2>1. PICK x : x = Request("load", 0, Acc(0, Head(uris), "none"))
    OBVIOUS
  <2>2. toPlugin' = <<x>> /\ toLoad' = Tail(uris) /\ selIdx' = 0
    BY <1>10, <2>1 DEF Restart, LoadFromJson
  <2>3. /\ Tail(uris) \in Seq(Uris) /\ Head(uris) \in Uris /\ Head(uris) = uris[1]
        /\ Len(Tail(uris)) + 1 = Len(uris) /\ Len(Tail(uris)) \in Nat
        /\ \A j \in DOMAIN Tail(uris) : j \in Nat /\ Tail(uris)[j] = uris[1 + j]
    BY <1>6, <1>10, TailOf
  <2>4. x \in Requests /\ IsMethod(x) /\ x \in AccBlocks /\ x.m = "load" /\ x.acc.uri = Head(uris)
    <3>1. Acc(0, Head(uris), "none") \in Accs
      BY <2>3, AccAssumption DEF Acc, Accs
    <3>. QED BY <2>1, <3>1 DEF Request, Requests, AccBlocks, Methods, IsMethod, Acc
  <2>5. toPlugin' \in Seq(AccBlocks) /\ Only(toPlugin', x)
    BY <2>2, <2>4 DEF Only
  <2>6. AccTypes'
    BY <1>1, <1>2, <1>5, <1>6, <1>8, <2>2, <2>3, <2>5 DEF AccTypes
  <2>7. Asked(x)' /\ RequestTrue(x)'
    BY <1>1, <1>3, <1>5, <2>4, <2>5 DEF Asked, RequestTrue, InPlace, Adds
  <2>8. savedAccs # NoSettings
    BY <1>10 DEF NoSettings
  <2>9. savedAccs.sel # 0 /\ loadSel' = savedAccs.sel
    BY <1>7, <1>10, <2>8 DEF AccInv, SavedFits
  <2>10. LoadGoesOn(x)'
    <3>1. Len(accList') = 0 /\ DOMAIN accList' = {}
      BY <1>1
    <3>2. Len(accList') + 1 + Len(toLoad') = Len(uris)
      BY <2>2, <2>3, <3>1
    <3>3. \A j \in DOMAIN toLoad' : toLoad'[j] = uris[Len(accList') + 1 + j]
      BY <2>2, <2>3, <3>1
    <3>4. x.acc.uri = uris[Len(accList') + 1]
      BY <2>3, <2>4, <3>1
    <3>. QED BY <1>1, <2>2, <2>8, <2>9, <3>1, <3>2, <3>3, <3>4 DEF LoadGoesOn
  <2>. QED BY <1>4, <2>4, <2>6, <2>7, <2>10 DEF AccInv, Phase, Goes
<1>. QED BY <1>9, <1>10

-----------------------------------------------------------------------------
(* Every step.                                                             *)

LEMMA AccStart == AccInit => AccInv
<1>. SUFFICES ASSUME AccInit PROVE AccInv
  OBVIOUS
<1>1. DOMAIN engAccs = {} /\ engAccs \in [DOMAIN engAccs -> EngAcc]
  BY DEF AccInit
<1>2. AccTypes
  <2>1. NoSettings \in [uris: Seq(Uris), sel: Nat]
    BY DEF NoSettings
  <2>2. /\ toPlugin \in Seq(AccBlocks) /\ toAccModel \in Seq(Arrivals)
        /\ accList \in Seq(Accs) /\ toLoad \in Seq(Uris)
    BY DEF AccInit
  <2>3. nextAccId \in 1..MaxAccIds + 1
    BY AccAssumption DEF AccInit
  <2>. QED BY <1>1, <2>1, <2>2, <2>3 DEF AccInit, AccTypes
<1>3. Same({}, {})
  <2>1. Listed = {}
    BY DEF Listed, AccInit
  <2>2. Cardinality(DOMAIN engAccs) <= MaxAccs
    BY <1>1, FS_EmptySet, AccAssumption
  <2>. QED BY <1>1, <2>1, <2>2 DEF Same, AccInit
<1>4. Free /\ Selected /\ SavedFits
  BY DEF AccInit, Free, NoMethod, Selected, SavedFits
<1>. QED BY <1>2, <1>3, <1>4 DEF AccInv, Phase

LEMMA AccStill == AccInv /\ UNCHANGED avars => AccInv'
<1>. SUFFICES ASSUME AccInv, UNCHANGED avars PROVE AccInv'
  OBVIOUS
<1>1. AccTypes'
  BY DEF AccInv, AccTypes, avars
<1>2. RegsOnly /\ SameMethods(toPlugin, toPlugin') /\ SameMethods(toAccModel, toAccModel')
  BY DEF RegsOnly, SameMethods, avars
<1>. QED BY <1>1, <1>2, PhaseKept

LEMMA AccStep == Sequential /\ AccInv /\ AccNext => AccInv'
<1>. SUFFICES ASSUME Sequential, AccInv, AccNext PROVE AccInv'
  OBVIOUS
<1>1. ~AccOverlap /\ ~EmptyRestored
  BY DEF Sequential
<1>2. CASE MainThread
  BY <1>2, AddKeeps, DeleteKeeps, RegisterKeeps, UpdateKeeps, RaiseKeeps, ForwardKeeps
     DEF MainThread, Adds
<1>3. CASE AccDart
  BY <1>3, AddedKeeps, LoadedKeeps, DeletedKeeps, EditedKeeps, ShownKeeps DEF AccDart
<1>4. CASE SaveChanges
  BY <1>4, SaveKeeps
<1>5. ASSUME NEW id \in DOMAIN engAccs, NEW reg \in EngRegs \ AwaitsAnswer, OnRegState(id, reg)
      PROVE  AccInv'
  BY <1>5, AnswerKeeps
<1>6. ASSUME NEW id \in DOMAIN engAccs, CallIntent(id) PROVE AccInv'
  BY <1>6, IntentKeeps
<1>7. ASSUME NEW uri \in Uris, AddAccount(uri) PROVE AccInv'
  BY <1>1, <1>7, RequestsKeep
<1>8. ASSUME NEW i \in DOMAIN accList,
             UpdateAccount(i) \/ DeleteAccount(i) \/ RegisterAccount(i) \/ UnregisterAccount(i)
      PROVE  AccInv'
  BY <1>1, <1>8, RequestsKeep
<1>9. ASSUME NEW i \in DOMAIN accList, SelectAccount(i) PROVE AccInv'
  BY <1>1, <1>9, SelectKeeps
<1>10. ASSUME NEW what \in Restarts, Restart(what) PROVE AccInv'
  <2>1. what = "process"
    BY DEF Sequential
  <2>. QED BY <1>1, <1>10, <2>1, RestartKeeps
<1>. QED BY <1>2, <1>3, <1>4, <1>5, <1>6, <1>7, <1>8, <1>9, <1>10 DEF AccNext

LEMMA AccAlways == Sequential /\ AccSpec => []AccInv
<1>. SUFFICES ASSUME Sequential PROVE AccSpec => []AccInv
  OBVIOUS
<1>1. AccInv /\ [AccNext]_avars => AccInv'
  BY AccStep, AccStill
<1>. QED BY <1>1, AccStart, PTL DEF AccSpec

-----------------------------------------------------------------------------
(* The registration states, step by step.                                  *)

(* Dart gets the answer of a method: the accounts it touches are those the *)
(* answer misleads about.                                                  *)
LEMMA MethodShown ==
  ASSUME AccTypes, AccTypes', RegInv, toAccModel # <<>>, toAccModel' = Tail(toAccModel),
         IsMethod(Head(toAccModel)), NoMethod(toPlugin), NoMethod(Tail(toAccModel)),
         \/ toPlugin' = toPlugin
         \/ \E x \in Requests : x.m = "load" /\ toPlugin' = Append(toPlugin, x),
         engAccs' = engAccs,
         \A i \in DOMAIN accList' :
           \/ \E j \in DOMAIN accList : accList'[i] = accList[j]
           \/ Misleads(Head(toAccModel), accList'[i].id)
  PROVE  RegInv'
<1>. DEFINE r == Head(toAccModel)
<1>1. /\ toPlugin \in Seq(AccBlocks) /\ toAccModel \in Seq(Arrivals) /\ accList' \in Seq(Accs)
      /\ r = toAccModel[1] /\ 1 \in DOMAIN toAccModel
  BY TailOf DEF AccTypes
<1>2. /\ \A i \in DOMAIN toPlugin : i \in DOMAIN toPlugin' /\ toPlugin'[i] = toPlugin[i]
      /\ \A i \in DOMAIN toPlugin' :
           \/ i \in DOMAIN toPlugin /\ toPlugin'[i] = toPlugin[i]
           \/ toPlugin'[i].m = "load"
  <2>1. CASE toPlugin' = toPlugin
    BY <2>1
  <2>2. CASE \E x \in Requests : x.m = "load" /\ toPlugin' = Append(toPlugin, x)
    <3>1. PICK x \in Requests : x.m = "load" /\ toPlugin' = Append(toPlugin, x)
      BY <2>2
    <3>2. x \in AccBlocks
      BY DEF AccBlocks
    <3>. QED BY <1>1, <3>1, <3>2, AppendOf
  <2>. QED BY <2>1, <2>2
<1>3. /\ \A i \in DOMAIN toAccModel' : i \in Nat /\ i + 1 \in DOMAIN toAccModel
                                       /\ toAccModel'[i] = toAccModel[i + 1]
      /\ \A i \in DOMAIN toAccModel : i = 1 \/ (i > 1 /\ i - 1 \in DOMAIN toAccModel'
                                                      /\ toAccModel'[i - 1] = toAccModel[i])
  BY <1>1, TailOf
<1>4. EditAlone'
  <2>1. \A i \in DOMAIN toPlugin' : toPlugin'[i].m # "update"
    BY <1>2 DEF NoMethod, IsMethod, Methods
  <2>2. \A i \in DOMAIN toAccModel' : toAccModel'[i].m # "update"
    BY DEF NoMethod, IsMethod, Methods
  <2>. QED BY <2>1, <2>2 DEF EditAlone
<1>5. ASSUME NEW id \in AccIds, Answered(id)' PROVE StateFollows(id)'
  <2>. PICK last : last = LastState(id)
    OBVIOUS
  <2>1. last = LastState(id) /\ last.m = "regState" /\ last.id = id
    BY DEF LastState, RegState
  <2>2. LastState(id)' = last /\ StateFollows(id)
    BY <1>5, <2>1 DEF RegInv, Answered, LastState
  <2>3. r # last
    BY <2>1 DEF IsMethod, Methods
  <2>4. ASSUME NEW i \in DOMAIN toPlugin', toPlugin'[i].m = "regState",
               toPlugin'[i].id = id, toPlugin'[i] # last
        PROVE  \E j \in DOMAIN toPlugin' : j > i /\ toPlugin'[j] = last
    <3>1. i \in DOMAIN toPlugin /\ toPlugin'[i] = toPlugin[i]
      BY <1>2, <2>4
    <3>2. PICK j \in DOMAIN toPlugin : j > i /\ toPlugin[j] = last
      BY <2>1, <2>2, <2>4, <3>1 DEF StateFollows
    <3>. QED BY <1>2, <3>2
  <2>5. ASSUME NEW i \in DOMAIN toAccModel, Misleads(toAccModel[i], id)
        PROVE  \/ \E j \in DOMAIN toAccModel' : j > i - 1 /\ toAccModel'[j] = last
               \/ \E j \in DOMAIN toPlugin' : toPlugin'[j] = last
    <3>1. CASE \E j \in DOMAIN toAccModel : j > i /\ toAccModel[j] = last
      <4>1. PICK j \in DOMAIN toAccModel : j > i /\ toAccModel[j] = last
        BY <3>1
      <4>2. j - 1 \in DOMAIN toAccModel' /\ toAccModel'[j - 1] = last
        BY <1>1, <1>3, <2>3, <4>1
      <4>3. j - 1 > i - 1
        BY <1>1, <4>1
      <4>. QED BY <4>2, <4>3
    <3>2. CASE \E j \in DOMAIN toPlugin : toPlugin[j] = last
      BY <1>2, <3>2
    <3>. QED BY <2>1, <2>2, <2>5, <3>1, <3>2 DEF StateFollows
  <2>6. ASSUME NEW i \in DOMAIN toAccModel', Misleads(toAccModel[i], id)'
        PROVE  \/ \E j \in DOMAIN toAccModel' : j > i /\ toAccModel'[j] = last
               \/ \E j \in DOMAIN toPlugin' : toPlugin'[j] = last
    <3>1. i + 1 \in DOMAIN toAccModel /\ toAccModel'[i] = toAccModel[i + 1] /\ i + 1 - 1 = i
      BY <1>3
    <3>2. Misleads(toAccModel[i + 1], id)
      BY <2>1, <2>2, <2>6, <3>1 DEF Misleads
    <3>. QED BY <2>5, <3>1, <3>2
  <2>7. ASSUME NEW i \in DOMAIN accList', accList'[i].id = id, accList'[i].reg # engAccs'[id].reg
        PROVE  \/ \E j \in DOMAIN toAccModel' : toAccModel'[j] = last
               \/ \E j \in DOMAIN toPlugin' : toPlugin'[j] = last
    <3>1. CASE \E j \in DOMAIN accList : accList'[i] = accList[j]
      <4>1. \/ \E j \in DOMAIN toAccModel : toAccModel[j] = last
            \/ \E j \in DOMAIN toPlugin : toPlugin[j] = last
        BY <2>1, <2>2, <2>7, <3>1 DEF StateFollows
      <4>2. ASSUME NEW j \in DOMAIN toAccModel, toAccModel[j] = last
            PROVE  \E k \in DOMAIN toAccModel' : toAccModel'[k] = last
        <5>1. j - 1 \in DOMAIN toAccModel' /\ toAccModel'[j - 1] = last
          BY <1>1, <1>3, <2>3, <4>2
        <5>. QED BY <5>1
      <4>3. ASSUME NEW j \in DOMAIN toPlugin, toPlugin[j] = last
            PROVE  \E k \in DOMAIN toPlugin' : toPlugin'[k] = last
        BY <1>2, <4>3
      <4>. QED BY <4>1, <4>2, <4>3
    <3>2. CASE Misleads(r, accList'[i].id)
      BY <1>1, <2>5, <2>7, <3>2
    <3>. QED BY <3>1, <3>2
  <2>. QED BY <2>2, <2>4, <2>6, <2>7 DEF StateFollows
<1>. QED BY <1>4, <1>5 DEF RegInv

LEMMA DartShown ==
  ASSUME AccInv, AccInv', RegInv, AccDart, Head(toAccModel).m \in Methods
  PROVE  RegInv'
<1>1. PICK r \in Replies : r = Head(toAccModel)
  BY MethodReplied DEF AccDart
<1>2. /\ AccTypes /\ AccTypes' /\ InPlace(r) /\ r.acc \in Accs
      /\ toAccModel # <<>> /\ toAccModel' = Tail(toAccModel) /\ IsMethod(r)
      /\ NoMethod(toPlugin) /\ NoMethod(Tail(toAccModel)) /\ engAccs' = engAccs
  BY <1>1, MethodReplied DEF AccDart, AccInv, ReplyTrue, Replies, engineSide, IsMethod
<1>3. accList \in Seq(Accs) /\ Len(accList) \in Nat
  BY <1>2 DEF AccTypes
<1>4. CASE r.m \in Adds
  <2>1. AccountAdded(r) \/ Loaded(r)
    BY <1>1, <1>4 DEF AccDart, Adds
  <2>2. \/ toPlugin' = toPlugin
        \/ \E x \in Requests : x.m = "load" /\ toPlugin' = Append(toPlugin, x)
    <3>1. CASE AccountAdded(r)
      BY <3>1 DEF AccountAdded
    <3>2. CASE Loaded(r) /\ r.ok /\ toLoad # <<>>
      <4>1. PICK x : x = Request("load", 0, Acc(0, Head(toLoad), "none"))
        OBVIOUS
      <4>2. Head(toLoad) \in Uris
        <5>1. toLoad \in Seq(Uris) /\ toLoad # <<>>
          BY <1>2, <3>2 DEF AccTypes
        <5>. QED BY <5>1, TailOf
      <4>3. Acc(0, Head(toLoad), "none") \in Accs
        BY <4>2, AccAssumption DEF Acc, Accs
      <4>4. x \in Requests /\ x.m = "load"
        BY <4>1, <4>3 DEF Request, Requests, Methods
      <4>. QED BY <3>2, <4>1, <4>4 DEF Loaded
    <3>3. CASE Loaded(r) /\ ~(r.ok /\ toLoad # <<>>)
      BY <3>3 DEF Loaded
    <3>. QED BY <2>1, <3>1, <3>2, <3>3
  <2>3. CASE r.ok
    <3>1. PICK a \in Accs : a = [r.acc EXCEPT !.reg = "inProgress"] /\ a.id = r.acc.id
      BY <1>2, AccEdit DEF ListRegs
    <3>2. accList' = Append(accList, a)
      BY <2>1, <2>3, <3>1 DEF AccountAdded, Loaded
    <3>3. Misleads(r, a.id)
      BY <1>4, <2>3, <3>1 DEF Misleads
    <3>4. \A i \in DOMAIN accList' : \/ \E j \in DOMAIN accList : accList'[i] = accList[j]
                                     \/ Misleads(r, accList'[i].id)
      BY <1>3, <3>2, <3>3, AppendOf
    <3>. QED BY <1>1, <1>2, <2>2, <3>4, MethodShown
  <2>4. CASE ~r.ok
    <3>1. accList' = accList
      BY <2>1, <2>4 DEF AccountAdded, Loaded
    <3>. QED BY <1>1, <1>2, <2>2, <3>1, MethodShown
  <2>. QED BY <2>3, <2>4
<1>5. CASE r.m = "delete"
  <2>1. toPlugin' = toPlugin /\ Deleted(r)
    BY <1>1, <1>5 DEF AccDart, Deleted
  <2>2. CASE r.ok /\ r.at \in DOMAIN accList
    <3>1. accList' = RemoveAt(accList, r.at)
      BY <2>1, <2>2 DEF Deleted
    <3>2. /\ DOMAIN accList' = 1..Len(accList) - 1
          /\ \A k \in 1..Len(accList) - 1 :
               accList'[k] = IF k < r.at THEN accList[k] ELSE accList[k + 1]
      BY <1>3, <2>2, <3>1, Removed
    <3>3. \A i \in DOMAIN accList' : \E j \in DOMAIN accList : accList'[i] = accList[j]
      <4>1. ASSUME NEW i \in DOMAIN accList'
            PROVE  \E j \in DOMAIN accList : accList'[i] = accList[j]
        <5>1. i \in DOMAIN accList /\ i + 1 \in DOMAIN accList
          BY <1>3, <3>2
        <5>. QED BY <3>2, <5>1
      <4>. QED BY <4>1
    <3>. QED BY <1>1, <1>2, <2>1, <3>3, MethodShown
  <2>3. CASE ~(r.ok /\ r.at \in DOMAIN accList)
    <3>1. accList' = accList
      BY <2>1, <2>3 DEF Deleted
    <3>. QED BY <1>1, <1>2, <2>1, <3>1, MethodShown
  <2>. QED BY <2>2, <2>3
<1>6. CASE r.m = "update"
  <2>1. toPlugin' = toPlugin /\ Updated(r)
    BY <1>1, <1>6 DEF AccDart, Updated
  <2>2. r.acc = accList[r.at]
    <3>1. toAccModel[1] = r /\ 1 \in DOMAIN toAccModel
      BY <1>1, <1>2, TailOf DEF AccTypes
    <3>. QED BY <1>6, <3>1 DEF RegInv, EditAlone
  <2>3. accList' = accList
    BY <1>3, <2>1, <2>2 DEF Updated
  <2>. QED BY <1>1, <1>2, <2>1, <2>3, MethodShown
<1>7. CASE r.m \in {"register", "unregister"}
  <2>1. toPlugin' = toPlugin /\ Registering(r)
    BY <1>1, <1>7 DEF AccDart, Registering
  <2>2. CASE r.ok /\ r.at \in DOMAIN accList
    <3>1. accList' = [accList EXCEPT ![r.at].reg = "inProgress"] /\ accList[r.at] \in Accs
      BY <1>3, <2>1, <2>2 DEF Registering
    <3>2. /\ DOMAIN accList' = DOMAIN accList
          /\ \A i \in DOMAIN accList : i # r.at => accList'[i] = accList[i]
          /\ accList'[r.at].id = accList[r.at].id
      BY <1>3, <2>2, <3>1 DEF Accs
    <3>3. Misleads(r, accList[r.at].id)
      BY <1>2, <1>7, <2>2 DEF Misleads, InPlace, Adds
    <3>4. \A i \in DOMAIN accList' : \/ \E j \in DOMAIN accList : accList'[i] = accList[j]
                                     \/ Misleads(r, accList'[i].id)
      BY <3>2, <3>3
    <3>. QED BY <1>1, <1>2, <2>1, <3>4, MethodShown
  <2>3. CASE ~(r.ok /\ r.at \in DOMAIN accList)
    <3>1. accList' = accList
      BY <2>1, <2>3 DEF Registering
    <3>. QED BY <1>1, <1>2, <2>1, <3>1, MethodShown
  <2>. QED BY <2>2, <2>3
<1>. QED BY <1>1, <1>4, <1>5, <1>6, <1>7 DEF Methods, Adds

(* Dart gets a registration state.                                         *)
LEMMA StateShown ==
  ASSUME AccInv, AccInv', RegInv, AccDart, Head(toAccModel).m = "regState"
  PROVE  RegInv'
<1>. DEFINE e == Head(toAccModel)
<1>1. /\ toAccModel \in Seq(Arrivals) /\ toAccModel # <<>> /\ toAccModel' = Tail(toAccModel)
      /\ e = toAccModel[1] /\ 1 \in DOMAIN toAccModel
      /\ engAccs' = engAccs /\ toPlugin' = toPlugin /\ OnRegStateChanged(e)
  <2>1. toAccModel \in Seq(Arrivals) /\ toAccModel # <<>>
    BY DEF AccInv, AccTypes, AccDart
  <2>2. OnRegStateChanged(e)
    BY DEF AccDart
  <2>. QED BY <2>1, <2>2, TailOf DEF AccDart, engineSide, OnRegStateChanged
<1>2. /\ \A i \in DOMAIN toAccModel' : i \in Nat /\ i + 1 \in DOMAIN toAccModel
                                       /\ toAccModel'[i] = toAccModel[i + 1]
      /\ \A i \in DOMAIN toAccModel : i = 1 \/ (i > 1 /\ i - 1 \in DOMAIN toAccModel'
                                                      /\ toAccModel'[i - 1] = toAccModel[i])
  BY <1>1, TailOf
<1>3. EditAlone'
  <2>1. ASSUME NEW i \in DOMAIN toPlugin', toPlugin'[i].m = "update" PROVE FALSE
    <3>1. toAccModel = <<>>
      BY <1>1, <2>1 DEF RegInv, EditAlone
    <3>. QED BY <1>1, <3>1
  <2>2. ASSUME NEW i \in DOMAIN toAccModel', toAccModel'[i].m = "update" PROVE FALSE
    <3>1. Len(toAccModel) = 1 /\ i + 1 \in DOMAIN toAccModel
      BY <1>2, <2>2 DEF RegInv, EditAlone
    <3>. QED BY <1>1, <1>2, <3>1
  <2>. QED BY <2>1, <2>2 DEF EditAlone
<1>4. ASSUME NEW id \in AccIds, Answered(id)' PROVE StateFollows(id)'
  <2>. PICK last : last = LastState(id)
    OBVIOUS
  <2>1. last = LastState(id) /\ last.m = "regState" /\ last.id = id
        /\ last.reg = engAccs[id].reg
    BY DEF LastState, RegState
  <2>2. LastState(id)' = last /\ StateFollows(id)
    BY <1>1, <1>4, <2>1 DEF RegInv, Answered, LastState
  <2>3. \A i \in DOMAIN toPlugin' :
          toPlugin'[i].m = "regState" /\ toPlugin'[i].id = id /\ toPlugin'[i] # last =>
            \E j \in DOMAIN toPlugin' : j > i /\ toPlugin'[j] = last
    BY <1>1, <2>1, <2>2 DEF StateFollows
  <2>4. ASSUME NEW i \in DOMAIN toAccModel, Misleads(toAccModel[i], id)
        PROVE  \/ \E j \in DOMAIN toAccModel' : j > i - 1 /\ toAccModel'[j] = last
               \/ \E j \in DOMAIN toPlugin' : toPlugin'[j] = last
    <3>1. CASE \E j \in DOMAIN toAccModel : j > i /\ toAccModel[j] = last
      <4>1. PICK j \in DOMAIN toAccModel : j > i /\ toAccModel[j] = last
        BY <3>1
      <4>2. j - 1 \in DOMAIN toAccModel' /\ toAccModel'[j - 1] = last
        BY <1>1, <1>2, <4>1
      <4>3. j - 1 > i - 1
        BY <1>1, <4>1
      <4>. QED BY <4>2, <4>3
    <3>2. CASE \E j \in DOMAIN toPlugin : toPlugin[j] = last
      BY <1>1, <3>2
    <3>. QED BY <2>1, <2>2, <2>4, <3>1, <3>2 DEF StateFollows
  <2>5. ASSUME NEW i \in DOMAIN toAccModel', Misleads(toAccModel[i], id)'
        PROVE  \/ \E j \in DOMAIN toAccModel' : j > i /\ toAccModel'[j] = last
               \/ \E j \in DOMAIN toPlugin' : toPlugin'[j] = last
    <3>1. PICK k \in DOMAIN toAccModel : /\ k = i + 1 /\ k - 1 = i
                                        /\ toAccModel'[i] = toAccModel[k]
      BY <1>2
    <3>2. Misleads(toAccModel[k], id)
      BY <2>1, <2>2, <2>5, <3>1 DEF Misleads
    <3>3. \/ \E j \in DOMAIN toAccModel' : j > k - 1 /\ toAccModel'[j] = last
          \/ \E j \in DOMAIN toPlugin' : toPlugin'[j] = last
      BY <2>4, <3>2
    <3>. QED BY <3>1, <3>3
  <2>6. ASSUME NEW i \in DOMAIN accList', accList'[i].id = id, accList'[i].reg # engAccs'[id].reg
        PROVE  \/ \E j \in DOMAIN toAccModel' : toAccModel'[j] = last
               \/ \E j \in DOMAIN toPlugin' : toPlugin'[j] = last
    <3>1. accList \in Seq(Accs) /\ e \in States
      <4>1. accList \in Seq(Accs)
        BY <1>1 DEF AccInv, AccTypes
      <4>2. e \in States
        BY <1>1, ArrivalKinds
      <4>. QED BY <4>1, <4>2
    <3>2. i \in DOMAIN accList /\ accList[i] \in Accs
          /\ accList'[i] = IF accList[i].id = e.id THEN [accList[i] EXCEPT !.reg = e.reg]
                           ELSE accList[i]
      BY <1>1, <3>1 DEF OnRegStateChanged
    <3>3. CASE accList[i].id = e.id
      <4>1. accList'[i].id = e.id /\ accList'[i].reg = e.reg
        BY <3>1, <3>2, <3>3, AccEdit DEF States, RegAnswers, ListRegs
      <4>2. Misleads(e, id)
        BY <1>1, <2>1, <2>6, <4>1 DEF Misleads
      <4>. QED BY <1>1, <2>4, <4>2
    <3>4. CASE accList[i].id # e.id
      <4>1. \/ \E j \in DOMAIN toAccModel : toAccModel[j] = last
            \/ \E j \in DOMAIN toPlugin : toPlugin[j] = last
        BY <1>1, <2>1, <2>2, <2>6, <3>2, <3>4 DEF StateFollows
      <4>2. e # last
        BY <2>1, <2>6, <3>2, <3>4
      <4>3. ASSUME NEW j \in DOMAIN toAccModel, toAccModel[j] = last
            PROVE  \E k \in DOMAIN toAccModel' : toAccModel'[k] = last
        <5>1. j - 1 \in DOMAIN toAccModel' /\ toAccModel'[j - 1] = last
          BY <1>1, <1>2, <4>2, <4>3
        <5>. QED BY <5>1
      <4>. QED BY <1>1, <4>1, <4>3
    <3>. QED BY <3>3, <3>4
  <2>. QED BY <2>2, <2>3, <2>5, <2>6 DEF StateFollows
<1>. QED BY <1>3, <1>4 DEF RegInv

(* The engine takes the first block q of the main looper.  Whatever state  *)
(* of id was to come is still to come.                                     *)
StillComes(id) ==
  /\ LastState(id)' = LastState(id)
  /\ \A i \in DOMAIN toPlugin' : toPlugin'[i] = Restored
       \/ (i + 1 \in DOMAIN toPlugin /\ toPlugin'[i] = toPlugin[i + 1])
  /\ \A i \in DOMAIN toPlugin : i > 1 => i - 1 \in DOMAIN toPlugin'
                                         /\ toPlugin'[i - 1] = toPlugin[i]
  /\ \A i \in DOMAIN toAccModel : i \in DOMAIN toAccModel' /\ toAccModel'[i] = toAccModel[i]
  /\ \/ Head(toPlugin).m # "regState"
     \/ /\ Len(toAccModel) + 1 \in DOMAIN toAccModel'
        /\ toAccModel'[Len(toAccModel) + 1] = Head(toPlugin)
  /\ \A i \in DOMAIN toAccModel' : i \in DOMAIN toAccModel
       \/ /\ i = Len(toAccModel) + 1
          /\ Misleads(toAccModel'[i], id) =>
               toAccModel'[i] = Head(toPlugin) /\ Head(toPlugin).m = "regState"
  /\ accList' = accList

LEMMA Taken ==
  ASSUME AccTypes, AccTypes', NEW id \in AccIds, toPlugin # <<>>, StateFollows(id), StillComes(id),
         engAccs'[id] = engAccs[id]
  PROVE  StateFollows(id)'
<1>1. /\ toPlugin \in Seq(AccBlocks) /\ toAccModel \in Seq(Arrivals)
      /\ Head(toPlugin) = toPlugin[1] /\ 1 \in DOMAIN toPlugin
  BY TailOf DEF AccTypes
<1>. PICK last : last = LastState(id)
  OBVIOUS
<1>2. last = LastState(id) /\ last.m = "regState" /\ last.id = id /\ LastState(id)' = last
  BY DEF LastState, RegState, StillComes
<1>3. \A i \in DOMAIN toPlugin : i \in Nat /\ (i = 1 \/ i > 1)
  BY <1>1
<1>4. \A i \in DOMAIN toAccModel : i \in Nat /\ Len(toAccModel) + 1 > i
  BY <1>1
(* A last state that was in a queue is in a queue, behind what misled.     *)
<1>5. ASSUME NEW j \in DOMAIN toPlugin, toPlugin[j] = last
      PROVE  \/ Len(toAccModel) + 1 \in DOMAIN toAccModel'
                /\ toAccModel'[Len(toAccModel) + 1] = last
             \/ \E k \in DOMAIN toPlugin' : toPlugin'[k] = last
  <2>1. CASE j = 1
    BY <1>1, <1>2, <1>5, <2>1 DEF StillComes
  <2>2. CASE j > 1
    BY <1>5, <2>2 DEF StillComes
  <2>. QED BY <1>3, <2>1, <2>2
<1>6. ASSUME NEW i \in DOMAIN toPlugin', toPlugin'[i].m = "regState",
             toPlugin'[i].id = id, toPlugin'[i] # last
      PROVE  \E j \in DOMAIN toPlugin' : j > i /\ toPlugin'[j] = last
  <2>1. PICK k \in DOMAIN toPlugin : k = i + 1 /\ toPlugin'[i] = toPlugin[k]
    BY <1>6 DEF StillComes, Restored
  <2>2. PICK j \in DOMAIN toPlugin : j > k /\ toPlugin[j] = last
    BY <1>2, <1>6, <2>1 DEF StateFollows
  <2>3. i \in Nat /\ j > 1 /\ j - 1 > i
    <3>1. i \in Nat /\ i >= 1 /\ j \in Nat
      <4>1. toPlugin' \in Seq(AccBlocks)
        BY DEF AccTypes
      <4>. QED BY <1>1, <4>1
    <3>. QED BY <2>1, <2>2, <3>1
  <2>4. j - 1 \in DOMAIN toPlugin' /\ toPlugin'[j - 1] = last
    BY <2>2, <2>3 DEF StillComes
  <2>. QED BY <2>3, <2>4
<1>7. ASSUME NEW i \in DOMAIN toAccModel', Misleads(toAccModel[i], id)'
      PROVE  \/ \E j \in DOMAIN toAccModel' : j > i /\ toAccModel'[j] = last
             \/ \E j \in DOMAIN toPlugin' : toPlugin'[j] = last
  <2>1. CASE i \in DOMAIN toAccModel
    <3>1. toAccModel'[i] = toAccModel[i]
      BY <2>1 DEF StillComes
    <3>2. Misleads(toAccModel[i], id)
      BY <1>2, <1>7, <3>1 DEF Misleads
    <3>3. CASE \E j \in DOMAIN toAccModel : j > i /\ toAccModel[j] = last
      BY <3>3 DEF StillComes
    <3>4. CASE \E j \in DOMAIN toPlugin : toPlugin[j] = last
      BY <1>4, <1>5, <2>1, <3>4
    <3>. QED BY <1>2, <2>1, <3>2, <3>3, <3>4 DEF StateFollows
  <2>2. CASE i \notin DOMAIN toAccModel
    <3>. PICK b : b = toAccModel'[i]
      OBVIOUS
    <3>1. Misleads(b, id)
      BY <1>2, <1>7 DEF Misleads
    <3>2. b = toPlugin[1] /\ toPlugin[1] \in AccBlocks
      BY <1>1, <2>2, <3>1 DEF StillComes
    <3>3. b.m = "regState"
      BY <1>1, <2>2, <3>1 DEF StillComes
    <3>. QED
      <4>1. PICK j \in DOMAIN toPlugin : j > 1 /\ toPlugin[j] = last
        BY <1>1, <1>2, <3>1, <3>2, <3>3 DEF StateFollows, Misleads, Adds
      <4>. QED BY <4>1 DEF StillComes
  <2>. QED BY <2>1, <2>2
<1>8. ASSUME NEW i \in DOMAIN accList', accList'[i].id = id, accList'[i].reg # engAccs'[id].reg
      PROVE  \/ \E j \in DOMAIN toAccModel' : toAccModel'[j] = last
             \/ \E j \in DOMAIN toPlugin' : toPlugin'[j] = last
  <2>1. \/ \E j \in DOMAIN toAccModel : toAccModel[j] = last
        \/ \E j \in DOMAIN toPlugin : toPlugin[j] = last
    BY <1>2, <1>8 DEF StateFollows, StillComes
  <2>2. CASE \E j \in DOMAIN toAccModel : toAccModel[j] = last
    BY <2>2 DEF StillComes
  <2>. QED BY <1>5, <2>1, <2>2
<1>. QED BY <1>2, <1>6, <1>7, <1>8 DEF StateFollows

LEMMA StillComesIs ==
  ASSUME AccTypes, NEW id \in AccIds, toPlugin # <<>>, UNCHANGED modelSide,
         engAccs'[id] = engAccs[id],
         \/ toPlugin' = Tail(toPlugin)
         \/ toPlugin' = Append(Tail(toPlugin), Restored),
         \/ toAccModel' = toAccModel /\ Head(toPlugin).m # "regState"
         \/ \E y \in Arrivals :
              /\ toAccModel' = Append(toAccModel, y)
              /\ Head(toPlugin).m = "regState" => y = Head(toPlugin)
              /\ Misleads(y, id) => y = Head(toPlugin) /\ Head(toPlugin).m = "regState"
  PROVE  StillComes(id)
<1>1. toPlugin \in Seq(AccBlocks) /\ toAccModel \in Seq(Arrivals) /\ Tail(toPlugin) \in Seq(AccBlocks)
  BY TailOf DEF AccTypes
<1>2. LastState(id)' = LastState(id) /\ accList' = accList
  BY DEF LastState, modelSide
<1>3. /\ \A i \in DOMAIN toPlugin' : toPlugin'[i] = Restored
           \/ (i + 1 \in DOMAIN toPlugin /\ toPlugin'[i] = toPlugin[i + 1])
      /\ \A i \in DOMAIN toPlugin : i > 1 => i - 1 \in DOMAIN toPlugin'
                                             /\ toPlugin'[i - 1] = toPlugin[i]
  <2>. PICK t \in Seq(AccBlocks) : t = Tail(toPlugin)
    BY <1>1
  <2>1. /\ \A i \in DOMAIN t : i + 1 \in DOMAIN toPlugin /\ t[i] = toPlugin[i + 1]
        /\ \A i \in DOMAIN toPlugin : i > 1 => i - 1 \in DOMAIN t /\ t[i - 1] = toPlugin[i]
    BY <1>1
  <2>2. CASE toPlugin' = t
    BY <2>1, <2>2
  <2>3. CASE toPlugin' = Append(t, Restored)
    <3>1. /\ \A i \in DOMAIN t : i \in DOMAIN toPlugin' /\ toPlugin'[i] = t[i]
          /\ \A i \in DOMAIN toPlugin' : i \in DOMAIN t \/ toPlugin'[i] = Restored
      BY <2>3, AboutRestored, AppendOf
    <3>. QED BY <2>1, <3>1
  <2>. QED BY <2>2, <2>3
<1>4. CASE toAccModel' = toAccModel /\ Head(toPlugin).m # "regState"
  BY <1>2, <1>3, <1>4 DEF StillComes
<1>5. ASSUME NEW y \in Arrivals, toAccModel' = Append(toAccModel, y),
             Head(toPlugin).m = "regState" => y = Head(toPlugin),
             Misleads(y, id) => y = Head(toPlugin) /\ Head(toPlugin).m = "regState"
      PROVE  StillComes(id)
  <2>1. /\ \A i \in DOMAIN toAccModel : i \in DOMAIN toAccModel' /\ toAccModel'[i] = toAccModel[i]
        /\ Len(toAccModel) + 1 \in DOMAIN toAccModel' /\ toAccModel'[Len(toAccModel) + 1] = y
        /\ \A i \in DOMAIN toAccModel' : i \in DOMAIN toAccModel \/ i = Len(toAccModel) + 1
    BY <1>1, <1>5, AppendOf
  <2>. QED BY <1>2, <1>3, <1>5, <2>1 DEF StillComes
<1>. QED BY <1>4, <1>5

(* The engine runs a method.                                               *)
LEMMA MethodRun ==
  ASSUME AccInv, AccInv', ~AnswerInEdit, RegInv, MainThread, Head(toPlugin).m \in Methods
  PROVE  RegInv'
<1>1. PICK r \in Requests : r = Head(toPlugin)
  BY MethodAsked DEF MainThread
<1>2. /\ AccTypes /\ AccTypes' /\ RequestTrue(r) /\ Same({}, {}) /\ toPlugin # <<>>
      /\ NoMethod(Tail(toPlugin)) /\ NoMethod(toAccModel) /\ UNCHANGED modelSide
      /\ r.m \in Methods /\ r.acc \in Accs /\ r.acc.id \in 0..MaxAccIds
  BY <1>1, MethodAsked DEF MainThread, AccInv, RequestTrue, Requests, Accs
<1>. DEFINE Run(y) ==
       /\ toAccModel' = Append(toAccModel, y) /\ y.m = r.m
       /\ \/ toPlugin' = Tail(toPlugin)
          \/ toPlugin' = Append(Tail(toPlugin), Restored) /\ r.m # "update"
       /\ r.m = "update" => y.at = r.at /\ y.acc = r.acc
       /\ \A id \in AccIds : Answered(id)' =>
            Answered(id) /\ engAccs'[id] = engAccs[id] /\ ~Misleads(y, id)
<1>3. ASSUME NEW y \in Arrivals, Run(y) PROVE RegInv'
  <2>1. EditAlone'
    <3>1. \A i \in DOMAIN toPlugin' : toPlugin'[i].m # "update"
      <4>1. \A i \in DOMAIN Tail(toPlugin) : Tail(toPlugin)[i].m # "update"
        BY <1>2 DEF NoMethod, IsMethod, Methods
      <4>2. Tail(toPlugin) \in Seq(AccBlocks) /\ Restored.m # "update"
        BY <1>2, TailOf DEF AccTypes, Restored
      <4>3. \A i \in DOMAIN Append(Tail(toPlugin), Restored) :
              Append(Tail(toPlugin), Restored)[i].m # "update"
        BY <4>1, <4>2, AppendOf, AboutRestored
      <4>. QED BY <1>3, <4>1, <4>3
    <3>2. ASSUME NEW i \in DOMAIN toAccModel', toAccModel'[i].m = "update"
          PROVE  /\ Len(toAccModel') = 1 /\ toPlugin' = <<>>
                 /\ toAccModel'[i].acc = accList'[toAccModel'[i].at]
      <4>1. toAccModel \in Seq(Arrivals)
        BY <1>2 DEF AccTypes
      <4>2. toAccModel'[i] = y /\ r.m = "update"
        <5>1. \A k \in DOMAIN toAccModel : toAccModel[k].m # "update"
          BY <1>2 DEF NoMethod, IsMethod, Methods
        <5>. QED BY <1>3, <3>2, <4>1, <5>1, AppendOf
      <4>3. /\ Len(toPlugin) = 1 /\ toAccModel = <<>> /\ r.acc = accList[r.at]
        <5>1. 1 \in DOMAIN toPlugin /\ toPlugin[1] = r
          BY <1>1, <1>2, TailOf DEF AccTypes
        <5>. QED BY <4>2, <5>1 DEF RegInv, EditAlone
      <4>4. Tail(toPlugin) = <<>>
        <5>1. toPlugin \in Seq(AccBlocks) /\ Tail(toPlugin) \in Seq(AccBlocks)
              /\ Len(Tail(toPlugin)) = Len(toPlugin) - 1
          BY <1>2 DEF AccTypes
        <5>2. \A s \in Seq(AccBlocks) : Len(s) = 0 => s = <<>>
          OBVIOUS
        <5>3. Len(Tail(toPlugin)) = 0
          BY <4>3, <5>1
        <5>. QED BY <5>1, <5>2, <5>3
      <4>. QED BY <1>2, <1>3, <4>2, <4>3, <4>4 DEF modelSide
    <3>. QED BY <3>1, <3>2 DEF EditAlone
  <2>2. ASSUME NEW id \in AccIds, Answered(id)' PROVE StateFollows(id)'
    <3>1. Answered(id) /\ engAccs'[id] = engAccs[id] /\ ~Misleads(y, id)
      BY <1>3, <2>2
    <3>2. StateFollows(id)
      BY <3>1 DEF RegInv
    <3>3. Head(toPlugin).m # "regState"
      BY <1>1, <1>2 DEF Methods
    <3>4. StillComes(id)
      BY <1>2, <1>3, <3>1, <3>3, StillComesIs
    <3>. QED BY <1>2, <3>1, <3>2, <3>4, Taken
  <2>. QED BY <2>1, <2>2 DEF RegInv
<1>4. CASE r.m \in Adds
  <2>. PICK ok \in BOOLEAN : ok <=> Cardinality(DOMAIN engAccs) < MaxAccs
    OBVIOUS
  <2>1. HandleAccountAdd(r) /\ nextAccId <= MaxAccIds
    BY <1>1, <1>4 DEF MainThread, Adds
  <2>2. nextAccId \in 0..MaxAccIds /\ 0 \in 0..MaxAccIds
    <3>1. nextAccId \in 1..MaxAccIds + 1 /\ MaxAccIds \in Nat
      BY <1>2, AccAssumption DEF AccTypes
    <3>. QED BY <2>1, <3>1
  <2>3. PICK k \in 0..MaxAccIds : k = IF ok THEN nextAccId ELSE 0
    BY <2>2
  <2>4. PICK y : y = Reply(r, ok, k)
    OBVIOUS
  <2>5. y \in Arrivals /\ y.m = r.m /\ y.ok = ok /\ y.acc.id = k
    BY <2>4, ReplyIs
  <2>6. /\ toAccModel' = Append(toAccModel, y)
        /\ toPlugin' = Append(Tail(toPlugin), Restored) /\ r.m # "update"
    BY <1>4, <2>1, <2>3, <2>4 DEF HandleAccountAdd, Adds
  <2>7. ASSUME NEW id \in AccIds, Answered(id)'
        PROVE  Answered(id) /\ engAccs'[id] = engAccs[id] /\ ~Misleads(y, id)
    <3>1. y.m # "regState"
      BY <1>2, <2>5 DEF Methods
    <3>2. CASE ok
      <4>1. engAccs' = [n \in DOMAIN engAccs \cup {nextAccId} |->
                          IF n = nextAccId THEN [uri |-> r.acc.uri, reg |-> "registering"]
                          ELSE engAccs[n]]
        BY <2>1, <3>2 DEF HandleAccountAdd, EngAdd
      <4>2. id # nextAccId
        BY <2>7, <4>1 DEF Answered, AwaitsAnswer
      <4>. QED BY <2>3, <2>5, <2>7, <3>1, <3>2, <4>1, <4>2 DEF Answered, Misleads
    <3>3. CASE ~ok
      BY <2>1, <2>5, <2>7, <3>1, <3>3 DEF HandleAccountAdd, EngAdd, Answered, Misleads
    <3>. QED BY <3>2, <3>3
  <2>. QED BY <1>3, <2>5, <2>6, <2>7
<1>5. CASE r.m = "delete"
  <2>. PICK ok \in BOOLEAN : ok <=> r.acc.id \in DOMAIN engAccs
    OBVIOUS
  <2>1. HandleAccountDelete(r) /\ ok = (r.acc.id \in DOMAIN engAccs)
    BY <1>1, <1>5 DEF MainThread
  <2>2. PICK y : y = Reply(r, ok, r.acc.id)
    OBVIOUS
  <2>3. y \in Arrivals /\ y.m = r.m
    BY <1>2, <2>2, ReplyIs
  <2>4. /\ toAccModel' = Append(toAccModel, y) /\ toPlugin' = Tail(toPlugin)
        /\ engAccs' = [id \in DOMAIN engAccs \ {r.acc.id} |-> engAccs[id]]
    BY <2>1, <2>2 DEF HandleAccountDelete
  <2>5. \A id \in AccIds : Answered(id)' =>
          Answered(id) /\ engAccs'[id] = engAccs[id] /\ ~Misleads(y, id)
    BY <1>5, <2>3, <2>4 DEF Answered, Misleads, Adds
  <2>. QED BY <1>3, <1>5, <2>3, <2>4, <2>5
<1>6. CASE r.m \in {"register", "unregister"}
  <2>. PICK ok \in BOOLEAN :
         ok <=> r.acc.id \in DOMAIN engAccs /\ engAccs[r.acc.id].reg \notin AwaitsAnswer
    OBVIOUS
  <2>1. /\ HandleAccountRegister(r)
        /\ ok = (r.acc.id \in DOMAIN engAccs /\ engAccs[r.acc.id].reg \notin AwaitsAnswer)
    BY <1>1, <1>6 DEF MainThread
  <2>2. PICK y : y = Reply(r, ok, r.acc.id)
    OBVIOUS
  <2>3. y \in Arrivals /\ y.m = r.m /\ y.ok = ok /\ y.acc.id = r.acc.id
    BY <1>2, <2>2, ReplyIs
  <2>4. PICK reg \in AwaitsAnswer :
          reg = IF r.m = "register" THEN "registering" ELSE "unregistering"
    BY DEF AwaitsAnswer
  <2>5. /\ toAccModel' = Append(toAccModel, y) /\ toPlugin' = Tail(toPlugin)
        /\ engAccs' = IF ok THEN [engAccs EXCEPT ![r.acc.id].reg = reg] ELSE engAccs
    BY <2>1, <2>2, <2>4 DEF HandleAccountRegister
  <2>6. ASSUME NEW id \in AccIds, Answered(id)'
        PROVE  Answered(id) /\ engAccs'[id] = engAccs[id] /\ ~Misleads(y, id)
    <3>1. y.m # "regState"
      BY <1>2, <2>3 DEF Methods
    <3>2. CASE ok
      <4>1. engAccs' = [engAccs EXCEPT ![r.acc.id].reg = reg] /\ engAccs \in [DOMAIN engAccs -> EngAcc]
        BY <1>2, <2>5, <3>2 DEF AccTypes
      <4>2. id # r.acc.id
        BY <2>6, <4>1 DEF Answered, EngAcc
      <4>3. id \in DOMAIN engAccs /\ engAccs'[id] = engAccs[id]
        BY <2>6, <4>1, <4>2 DEF Answered
      <4>. QED BY <2>3, <2>6, <3>1, <4>2, <4>3 DEF Answered, Misleads
    <3>3. CASE ~ok
      BY <2>3, <2>5, <2>6, <3>1, <3>3 DEF Answered, Misleads
    <3>. QED BY <3>2, <3>3
  <2>. QED BY <1>3, <1>6, <2>3, <2>5, <2>6
<1>7. CASE r.m = "update"
  <2>. PICK ok \in BOOLEAN : ok <=> r.acc.id \in DOMAIN engAccs
    OBVIOUS
  <2>1. HandleAccountUpdate(r) /\ ok = (r.acc.id \in DOMAIN engAccs)
    BY <1>1, <1>7 DEF MainThread
  <2>2. PICK y : y = Reply(r, ok, r.acc.id)
    OBVIOUS
  <2>3. y \in Arrivals /\ y.m = r.m /\ y.at = r.at
    BY <1>2, <2>2, ReplyIs
  <2>4. y.acc = r.acc
    BY <1>2, <2>2 DEF Reply, Accs
  <2>5. toAccModel' = Append(toAccModel, y) /\ toPlugin' = Tail(toPlugin) /\ engAccs' = engAccs
    BY <2>1, <2>2 DEF HandleAccountUpdate, engineSide
  <2>6. \A id \in AccIds : Answered(id)' =>
          Answered(id) /\ engAccs'[id] = engAccs[id] /\ ~Misleads(y, id)
    BY <1>7, <2>3, <2>5 DEF Answered, Misleads, Adds
  <2>. QED BY <1>3, <2>3, <2>4, <2>5, <2>6
<1>. QED BY <1>2, <1>4, <1>5, <1>6, <1>7 DEF Methods, Adds

(* The other blocks of the main looper, registration states and requests.  *)
LEMMA BlockRun ==
  ASSUME AccInv, AccInv', RegInv, MainThread, Head(toPlugin).m \in {"regState", "restored"}
  PROVE  RegInv'
<1>. DEFINE b == Head(toPlugin)
<1>1. /\ AccTypes /\ AccTypes' /\ toPlugin # <<>> /\ toPlugin \in Seq(AccBlocks)
      /\ toAccModel \in Seq(Arrivals) /\ UNCHANGED modelSide
      /\ b = toPlugin[1] /\ 1 \in DOMAIN toPlugin /\ b \in AccBlocks
  BY TailOf DEF MainThread, AccInv, AccTypes
<1>2. \/ ForwardRegState(b) /\ b.m = "regState"
      \/ RaiseWhenRestored /\ b.m = "restored"
  BY DEF MainThread
<1>3. toPlugin' = Tail(toPlugin) /\ engAccs' = engAccs
  BY <1>2 DEF ForwardRegState, RaiseWhenRestored, engineSide
<1>4. \/ toAccModel' = toAccModel /\ b.m # "regState"
      \/ b \in Arrivals /\ toAccModel' = Append(toAccModel, b) /\ b.m = "regState"
  <2>1. b.m = "regState" => b \in Arrivals
    BY <1>1, BlockKinds, AboutStates
  <2>. QED BY <1>2, <2>1 DEF ForwardRegState, RaiseWhenRestored
<1>5. EditAlone'
  <2>1. ASSUME NEW i \in DOMAIN toPlugin' PROVE toPlugin'[i].m # "update"
    <3>1. i + 1 \in DOMAIN toPlugin /\ toPlugin'[i] = toPlugin[i + 1] /\ i \in Nat /\ i >= 1
      <4>1. Tail(toPlugin) \in Seq(AccBlocks)
        BY <1>1, TailOf
      <4>. QED BY <1>1, <1>3, <4>1, TailOf
    <3>. QED BY <1>1, <3>1 DEF RegInv, EditAlone
  <2>2. ASSUME NEW i \in DOMAIN toAccModel' PROVE toAccModel'[i].m # "update"
    <3>1. \A k \in DOMAIN toAccModel : toAccModel[k].m # "update"
      BY <1>1 DEF RegInv, EditAlone
    <3>2. CASE toAccModel' = toAccModel
      BY <3>1, <3>2
    <3>3. CASE toAccModel' # toAccModel
      <4>1. /\ toAccModel \in Seq(Arrivals) /\ b \in Arrivals /\ b.m = "regState"
            /\ toAccModel' = Append(toAccModel, b)
        BY <1>1, <1>4, <3>3 DEF AccInv, AccTypes
      <4>2. toAccModel'[i] = b \/ (i \in DOMAIN toAccModel /\ toAccModel'[i] = toAccModel[i])
        BY <4>1, AppendOf
      <4>. QED BY <3>1, <4>1, <4>2
    <3>. QED BY <3>2, <3>3
  <2>. QED BY <2>1, <2>2 DEF EditAlone
<1>6. ASSUME NEW id \in AccIds, Answered(id)' PROVE StateFollows(id)'
  <2>1. StateFollows(id) /\ engAccs'[id] = engAccs[id]
    BY <1>3, <1>6 DEF RegInv, Answered
  <2>2. StillComes(id)
    <3>1. CASE toAccModel' = toAccModel /\ b.m # "regState"
      BY <1>1, <1>3, <2>1, <3>1, StillComesIs
    <3>2. CASE b \in Arrivals /\ toAccModel' = Append(toAccModel, b) /\ b.m = "regState"
      <4>1. \E y \in Arrivals :
              /\ toAccModel' = Append(toAccModel, y)
              /\ Head(toPlugin).m = "regState" => y = Head(toPlugin)
              /\ Misleads(y, id) => y = Head(toPlugin) /\ Head(toPlugin).m = "regState"
        BY <3>2
      <4>. QED BY <1>1, <1>3, <2>1, <4>1, StillComesIs
    <3>. QED BY <1>4, <3>1, <3>2
  <2>. QED BY <1>1, <2>1, <2>2, Taken
<1>. QED BY <1>5, <1>6 DEF RegInv

(* A block joins the looper: the new state of account id, or a request.    *)
LEMMA BlockPosted ==
  ASSUME AccInv, RegInv, NEW b \in AccBlocks, toPlugin' = Append(toPlugin, b),
         UNCHANGED <<toAccModel, accList>>, DOMAIN engAccs' = DOMAIN engAccs,
         \A id \in DOMAIN engAccs :
           \/ engAccs'[id] = engAccs[id] /\ (b.m = "regState" => b.id # id)
           \/ b = LastState(id)',
         EditAlone'
  PROVE  RegInv'
<1>1. toPlugin \in Seq(AccBlocks)
  BY DEF AccInv, AccTypes
<1>2. /\ \A i \in DOMAIN toPlugin : i \in DOMAIN toPlugin' /\ toPlugin'[i] = toPlugin[i]
                                    /\ i < Len(toPlugin) + 1
      /\ Len(toPlugin) + 1 \in DOMAIN toPlugin' /\ toPlugin'[Len(toPlugin) + 1] = b
      /\ \A i \in DOMAIN toPlugin' : i \in DOMAIN toPlugin \/ i = Len(toPlugin) + 1
  BY <1>1, AppendOf
<1>3. ASSUME NEW id \in AccIds, Answered(id)' PROVE StateFollows(id)'
  <2>. PICK last : last = LastState(id)'
    OBVIOUS
  <2>1. id \in DOMAIN engAccs
    BY <1>3 DEF Answered
  <2>2. CASE b = last
    <3>1. \A i \in DOMAIN toPlugin' : toPlugin'[i] # last =>
            \E j \in DOMAIN toPlugin' : j > i /\ toPlugin'[j] = last
      BY <1>1, <1>2, <2>2
    <3>2. \E j \in DOMAIN toPlugin' : toPlugin'[j] = last
      BY <1>2, <2>2
    <3>. QED BY <3>1, <3>2 DEF StateFollows
  <2>3. CASE b # last
    <3>1. engAccs'[id] = engAccs[id] /\ (b.m = "regState" => b.id # id)
      BY <2>1, <2>3
    <3>2. LastState(id) = last /\ StateFollows(id)
      BY <1>3, <2>1, <3>1 DEF RegInv, Answered, LastState
    <3>3. ASSUME NEW i \in DOMAIN toPlugin', toPlugin'[i].m = "regState",
                 toPlugin'[i].id = id, toPlugin'[i] # last
          PROVE  \E j \in DOMAIN toPlugin' : j > i /\ toPlugin'[j] = last
      <4>1. i \in DOMAIN toPlugin /\ toPlugin'[i] = toPlugin[i]
        BY <1>2, <3>1, <3>3
      <4>2. PICK j \in DOMAIN toPlugin : j > i /\ toPlugin[j] = last
        BY <3>2, <3>3, <4>1 DEF StateFollows
      <4>. QED BY <1>2, <4>2
    <3>4. ASSUME NEW i \in DOMAIN toAccModel', Misleads(toAccModel[i], id)'
          PROVE  \/ \E j \in DOMAIN toAccModel' : j > i /\ toAccModel'[j] = last
                 \/ \E j \in DOMAIN toPlugin' : toPlugin'[j] = last
      <4>1. Misleads(toAccModel[i], id)
        BY <3>2, <3>4 DEF Misleads
      <4>. QED BY <1>2, <3>2, <4>1 DEF StateFollows
    <3>5. ASSUME NEW i \in DOMAIN accList', accList'[i].id = id,
                 accList'[i].reg # engAccs'[id].reg
          PROVE  \/ \E j \in DOMAIN toAccModel' : toAccModel'[j] = last
                 \/ \E j \in DOMAIN toPlugin' : toPlugin'[j] = last
      BY <1>2, <3>1, <3>2, <3>5 DEF StateFollows
    <3>. QED BY <3>3, <3>4, <3>5 DEF StateFollows
  <2>. QED BY <2>2, <2>3
<1>. QED BY <1>3 DEF RegInv

LEMMA AnswerPosted ==
  ASSUME AccInv, ~AnswerInEdit, RegInv, NEW k \in DOMAIN engAccs,
         NEW reg \in EngRegs \ AwaitsAnswer, OnRegState(k, reg)
  PROVE  RegInv'
<1>. PICK b : b = RegState(k, reg)
  OBVIOUS
<1>1. k \in AccIds /\ reg \in RegAnswers /\ toPlugin \in Seq(AccBlocks)
      /\ engAccs \in [DOMAIN engAccs -> EngAcc]
  BY DEF AccInv, AccTypes, EngRegs, AwaitsAnswer, RegAnswers
<1>2. b \in AccBlocks /\ b.m = "regState" /\ b.id = k
  BY <1>1, AboutStates DEF RegState, States
<1>3. /\ toPlugin' = Append(toPlugin, b) /\ UNCHANGED <<toAccModel, accList>>
      /\ engAccs' = [engAccs EXCEPT ![k].reg = reg]
  BY DEF OnRegState, modelSide
<1>4. /\ DOMAIN engAccs' = DOMAIN engAccs /\ engAccs'[k].reg = reg
      /\ \A id \in DOMAIN engAccs : id # k => engAccs'[id] = engAccs[id]
  BY <1>1, <1>3 DEF EngAcc
<1>5. LastState(k)' = b
  BY <1>4 DEF LastState
<1>6. EditAlone'
  <2>1. /\ \A i \in DOMAIN toPlugin : toPlugin[i].m # "update"
        /\ \A i \in DOMAIN toAccModel : toAccModel[i].m # "update"
    BY DEF OnRegState, Editing, Range
  <2>2. \A i \in DOMAIN toPlugin' : toPlugin'[i].m # "update"
    BY <1>1, <1>2, <1>3, <2>1, AppendOf
  <2>. QED BY <1>3, <2>1, <2>2 DEF EditAlone
<1>. QED BY <1>2, <1>3, <1>4, <1>5, <1>6, BlockPosted

LEMMA RequestPosted ==
  ASSUME AccInv, ~AccOverlap, RegInv, NEW r \in Requests, SendRequest(r),
         r.m = "update" => AccRest /\ r.acc = accList[r.at]
  PROVE  RegInv'
<1>1. r \in AccBlocks /\ r.m # "regState" /\ toPlugin \in Seq(AccBlocks)
  BY DEF AccBlocks, Requests, Methods, AccInv, AccTypes
<1>2. /\ toPlugin' = Append(toPlugin, r)
      /\ UNCHANGED <<toAccModel, accList, engAccs>>
  BY DEF SendRequest, engineSide, modelSide
<1>3. NoMethod(toPlugin) /\ NoMethod(toAccModel)
  BY NotAsked DEF SendRequest, MaySend, Free
<1>4. EditAlone'
  <2>1. /\ \A i \in DOMAIN toPlugin : toPlugin[i].m # "update"
        /\ \A i \in DOMAIN toAccModel : toAccModel[i].m # "update"
    BY <1>3 DEF NoMethod, IsMethod, Methods
  <2>2. ASSUME NEW i \in DOMAIN toPlugin', toPlugin'[i].m = "update"
        PROVE  /\ Len(toPlugin') = 1 /\ toAccModel' = <<>>
               /\ toPlugin'[i].acc = accList'[toPlugin'[i].at]
    <3>1. toPlugin'[i] = r
      BY <1>1, <1>2, <2>1, <2>2, AppendOf
    <3>2. AccRest /\ r.acc = accList[r.at]
      BY <2>2, <3>1
    <3>3. Len(toPlugin') = 1
      BY <1>2, <3>2 DEF AccRest
    <3>. QED BY <1>2, <3>1, <3>2, <3>3 DEF AccRest
  <2>. QED BY <1>2, <2>1, <2>2 DEF EditAlone
<1>. QED BY <1>1, <1>2, <1>4, BlockPosted

LEMMA RequestsPosted ==
  ASSUME AccInv, ~AccOverlap, ~AnswerInEdit, RegInv
  PROVE  /\ \A uri \in Uris : AddAccount(uri) => RegInv'
         /\ \A i \in DOMAIN accList :
              UpdateAccount(i) \/ DeleteAccount(i) \/ RegisterAccount(i)
                \/ UnregisterAccount(i) => RegInv'
<1>1. ASSUME NEW uri \in Uris, AddAccount(uri) PROVE RegInv'
  <2>1. Acc(0, uri, "none") \in Accs
    BY AccAssumption DEF Acc, Accs
  <2>2. /\ Request("add", 0, Acc(0, uri, "none")) \in Requests
        /\ Request("add", 0, Acc(0, uri, "none")).m # "update"
    BY <2>1 DEF Request, Requests, Methods
  <2>. QED BY <1>1, <2>2, RequestPosted DEF AddAccount
<1>2. ASSUME NEW i \in DOMAIN accList, NEW m \in Methods,
             SendRequest(Request(m, i, accList[i])), m = "update" => AccRest
      PROVE  RegInv'
  <2>1. accList[i] \in Accs /\ i \in Nat
    BY DEF AccInv, AccTypes
  <2>2. /\ Request(m, i, accList[i]) \in Requests
        /\ Request(m, i, accList[i]).m = m
        /\ Request(m, i, accList[i]).acc = accList[Request(m, i, accList[i]).at]
    BY <2>1 DEF Request, Requests
  <2>. QED BY <1>2, <2>2, RequestPosted
<1>3. {"update", "delete", "register", "unregister"} \subseteq Methods
  BY DEF Methods
<1>. QED BY <1>1, <1>2, <1>3
         DEF UpdateAccount, DeleteAccount, RegisterAccount, UnregisterAccount

(* Nothing is queued or answered.                                          *)
LEMMA NothingMoves ==
  ASSUME RegInv, UNCHANGED <<engAccs, toPlugin, toAccModel, accList>>
  PROVE  RegInv'
<1>1. EditAlone'
  BY DEF RegInv, EditAlone
<1>2. ASSUME NEW id \in AccIds, Answered(id)' PROVE StateFollows(id)'
  <2>1. StateFollows(id) /\ LastState(id)' = LastState(id)
    BY <1>2 DEF RegInv, Answered, LastState
  <2>. QED BY <2>1 DEF StateFollows, Misleads
<1>. QED BY <1>1, <1>2 DEF RegInv

LEMMA RestartShown ==
  ASSUME Restart("process") PROVE RegInv'
<1>1. engAccs' = [id \in {} |-> 0] /\ toAccModel' = <<>>
  BY DEF Restart, LoadFromJson
<1>2. \A i \in DOMAIN toPlugin' : toPlugin'[i].m # "update"
  BY DEF Restart, LoadFromJson, Request
<1>3. DOMAIN toAccModel' = {} /\ DOMAIN engAccs' = {}
  BY <1>1
<1>. QED BY <1>2, <1>3 DEF RegInv, EditAlone, Answered

LEMMA RegStart == AccInit => RegInv
<1>. SUFFICES ASSUME AccInit PROVE RegInv
  OBVIOUS
<1>1. DOMAIN toAccModel = {} /\ DOMAIN toPlugin = {} /\ DOMAIN engAccs = {}
  BY DEF AccInit
<1>. QED BY <1>1 DEF RegInv, EditAlone, Answered

LEMMA RegStep ==
  Sequential /\ ~AnswerInEdit /\ AccInv /\ AccInv' /\ RegInv /\ [AccNext]_avars => RegInv'
<1>. SUFFICES ASSUME Sequential, ~AnswerInEdit, AccInv, AccInv', RegInv, [AccNext]_avars
              PROVE  RegInv'
  OBVIOUS
<1>1. ~AccOverlap
  BY DEF Sequential
<1>2. CASE MainThread
  <2>1. Head(toPlugin).m \in Methods \/ Head(toPlugin).m \in {"regState", "restored"}
    BY <1>2 DEF MainThread, Methods
  <2>. QED BY <1>2, <2>1, MethodRun, BlockRun
<1>3. CASE AccDart
  <2>1. Head(toAccModel).m \in Methods \/ Head(toAccModel).m = "regState"
    BY <1>3 DEF AccDart, Methods
  <2>. QED BY <1>3, <2>1, DartShown, StateShown
<1>4. CASE SaveChanges
  BY <1>4, NothingMoves DEF SaveChanges, engineSide
<1>5. ASSUME NEW id \in DOMAIN engAccs, NEW reg \in EngRegs \ AwaitsAnswer, OnRegState(id, reg)
      PROVE  RegInv'
  BY <1>5, AnswerPosted
<1>6. ASSUME NEW id \in DOMAIN engAccs, CallIntent(id) PROVE RegInv'
  BY <1>6, NothingMoves DEF CallIntent, modelSide
<1>7. ASSUME NEW uri \in Uris, AddAccount(uri) PROVE RegInv'
  BY <1>1, <1>7, RequestsPosted
<1>8. ASSUME NEW i \in DOMAIN accList,
             UpdateAccount(i) \/ DeleteAccount(i) \/ RegisterAccount(i) \/ UnregisterAccount(i)
      PROVE  RegInv'
  BY <1>1, <1>8, RequestsPosted
<1>9. ASSUME NEW i \in DOMAIN accList, SelectAccount(i) PROVE RegInv'
  BY <1>9, NothingMoves DEF SelectAccount, engineSide
<1>10. ASSUME NEW what \in Restarts, Restart(what) PROVE RegInv'
  <2>1. what = "process"
    BY DEF Sequential
  <2>. QED BY <1>10, <2>1, RestartShown
<1>11. CASE UNCHANGED avars
  BY <1>11, NothingMoves DEF avars
<1>. QED BY <1>2, <1>3, <1>4, <1>5, <1>6, <1>7, <1>8, <1>9, <1>10, <1>11 DEF AccNext

LEMMA RegAlways == Sequential /\ ~AnswerInEdit /\ AccSpec => []RegInv
<1>. SUFFICES ASSUME Sequential, ~AnswerInEdit PROVE AccSpec => []RegInv
  OBVIOUS
<1>1. AccInv /\ AccInv' /\ RegInv /\ [AccNext]_avars => RegInv'
  BY RegStep
<1>2. AccSpec => []AccInv
  BY AccAlways
<1>. QED BY <1>1, <1>2, RegStart, PTL DEF AccSpec

-----------------------------------------------------------------------------
(* What the runs check about the accounts.                                 *)

(* The selected index is that of an account (selAccountId does not throw), *)
(* or null.                                                                *)
THEOREM SelectionExists == Sequential /\ AccSpec => []SelectedExists
<1>1. AccInv => SelectedExists
  <2>. SUFFICES ASSUME AccInv PROVE SelectedExists
    OBVIOUS
  <2>1. Selected => SelectedExists
    BY DEF Selected, SelectedExists
  <2>2. ASSUME NEW r, LoadGoesOn(r) PROVE SelectedExists
    <3>1. selIdx = 0 /\ Len(accList) \in Nat
      BY <2>2 DEF LoadGoesOn, AccInv, AccTypes
    <3>. QED BY <3>1 DEF SelectedExists
  <2>. QED BY <2>1, <2>2 DEF AccInv, Phase, Goes
<1>. QED BY <1>1, AccAlways, PTL

(* At rest, with no change waiting to be saved, what a restart would load  *)
(* is the list as it is.                                                   *)
THEOREM SettingsTrue == Sequential /\ AccSpec => []SavedTrue
<1>1. AccInv => SavedTrue
  <2>. SUFFICES ASSUME AccInv, AccRest, ~saveDue, savedAccs # NoSettings
                PROVE  savedAccs = Settings(accList, selIdx)
    BY DEF SavedTrue
  <2>1. ~UnderWay
    BY DEF AccRest, UnderWay, Range
  <2>. QED BY <2>1, NotAsked DEF Selected
<1>. QED BY <1>1, AccAlways, PTL

(* At rest the list holds the accounts of the engine, each once, under its *)
(* id and, unless an answer is awaited, with the registration state of the *)
(* last answer.                                                            *)
THEOREM ListShowsAccounts == Sequential /\ ~AnswerInEdit /\ AccSpec => []AccountsShown
<1>1. AccInv /\ RegInv => AccountsShown
  <2>. SUFFICES ASSUME AccInv, RegInv, AccRest
                PROVE  /\ Len(accList) = Cardinality(DOMAIN engAccs)
                       /\ \A id \in DOMAIN engAccs : \E a \in Range(accList) :
                            /\ a.id = id /\ a.uri = engAccs[id].uri
                            /\ engAccs[id].reg \in {a.reg} \cup AwaitsAnswer
    BY DEF AccountsShown
  <2>1. ~UnderWay /\ DOMAIN toPlugin = {} /\ DOMAIN toAccModel = {}
    BY DEF AccRest, UnderWay, Range
  <2>2. Same({}, {}) /\ AccTypes
    BY <2>1, NotAsked DEF AccInv
  <2>3. Len(accList) = Cardinality(DOMAIN engAccs)
    BY <2>2, CountOf
  <2>4. ASSUME NEW id \in DOMAIN engAccs
        PROVE  \E a \in Range(accList) : /\ a.id = id /\ a.uri = engAccs[id].uri
                                         /\ engAccs[id].reg \in {a.reg} \cup AwaitsAnswer
    <3>1. PICK i \in DOMAIN accList : accList[i].id = id
      BY <2>2 DEF Same, Listed
    <3>2. accList[i].uri = engAccs[id].uri /\ accList[i] \in Range(accList)
      BY <2>2, <3>1 DEF Same, Range
    <3>3. engAccs[id].reg \in {accList[i].reg} \cup AwaitsAnswer
      <4>1. CASE Answered(id)
        <5>1. StateFollows(id)
          BY <2>2, <4>1 DEF RegInv, AccTypes
        <5>. QED BY <2>1, <3>1, <5>1 DEF StateFollows
      <4>2. CASE ~Answered(id)
        BY <4>2 DEF Answered
      <4>. QED BY <4>1, <4>2
    <3>. QED BY <3>1, <3>2, <3>3
  <2>. QED BY <2>3, <2>4
<1>. QED BY <1>1, AccAlways, RegAlways, PTL

-----------------------------------------------------------------------------
(* Subscriptions.  No account is deleted while it has one.                 *)

SubAdds    == [m: {"add"}, acc: SubAccs, load: BOOLEAN]
SubDels    == [m: {"delete"}, id: SubIds]
SubEvents  == [m: {"state"}, id: SubIds, st: SubStates]
SubReplies == [m: {"added"}, acc: SubAccs, load: BOOLEAN, id: SubIds]
SubBlocks   == SubAdds \cup SubDels \cup SubEvents
SubArrivals == SubReplies \cup SubEvents
Reported   == {"created", "updated"}
Buddy      == [acc: SubAccs, st: {"none"} \cup Reported]
Entries    == [id: SubIds, acc: SubAccs, st: Reported]

SubTypes ==
  /\ known \subseteq SubAccs
  /\ DOMAIN buddies \subseteq SubIds /\ buddies \in [DOMAIN buddies -> Buddy]
  /\ nextSubscrId \in 1..MaxSubs + 1
  /\ notifying \subseteq [id: SubIds, st: Reported]
  /\ subCalls \in Seq(SubBlocks) /\ toSubs \in Seq(SubArrivals)
  /\ subs \in Seq(Entries)
  /\ subSaveDue \in BOOLEAN /\ savedSubs \in Seq(SubAccs)

Entered(id)  == \E i \in DOMAIN subs : subs[i].id = id
Announced(id) == \E i \in DOMAIN toSubs : toSubs[i].m = "added" /\ toSubs[i].id = id
EndIn(q, id) == \E i \in DOMAIN q : q[i] = SubState(id, "destroyed")

(* Ids are not given out twice.                                            *)
IdsGiven ==
  /\ \A id \in DOMAIN buddies : id < nextSubscrId
  /\ \A i \in DOMAIN subs : subs[i].id < nextSubscrId
  /\ \A i \in DOMAIN toSubs : toSubs[i].id < nextSubscrId
  /\ \A i \in DOMAIN subCalls : subCalls[i].m = "state" => subCalls[i].id < nextSubscrId
  /\ \A n \in notifying : n.id < nextSubscrId

(* A subscription is entered once, before anything else is heard of it.    *)
EnteredOnce ==
  /\ \A i, j \in DOMAIN subs : subs[i].id = subs[j].id => i = j
  /\ \A i \in DOMAIN toSubs : toSubs[i].m = "added" =>
       /\ ~Entered(toSubs[i].id)
       /\ \A j \in DOMAIN toSubs : toSubs[j].id = toSubs[i].id => i <= j
       /\ \A j \in DOMAIN toSubs :
            toSubs[j].m = "added" /\ toSubs[j].id = toSubs[i].id => i = j

(* It is in the list as long as there is one, and until its end is heard.  *)
EndHeard ==
  /\ \A id \in DOMAIN buddies : /\ Entered(id) \/ Announced(id)
                                /\ ~EndIn(toSubs, id) /\ ~EndIn(subCalls, id)
  /\ \A id \in SubIds \ DOMAIN buddies :
       Entered(id) \/ Announced(id) => EndIn(toSubs, id) \/ EndIn(subCalls, id)

(* It is on the account that was asked for, which is known.                *)
AccountKept ==
  /\ \A i \in DOMAIN subs : /\ subs[i].acc \in known
                            /\ subs[i].id \in DOMAIN buddies =>
                                 buddies[subs[i].id].acc = subs[i].acc
  /\ \A i \in DOMAIN toSubs : toSubs[i].m = "added" =>
       /\ toSubs[i].acc \in known
       /\ toSubs[i].id \in DOMAIN buddies => buddies[toSubs[i].id].acc = toSubs[i].acc
  /\ \A i \in DOMAIN subCalls : subCalls[i].m = "add" => subCalls[i].acc \in known
  /\ \A i \in DOMAIN savedSubs : savedSubs[i] \in known

(* A state that is not the last is followed by the last.                   *)
LastHeard(id)  == SubState(id, buddies[id].st)
InPost(id)     == [id |-> id, st |-> buddies[id].st] \in notifying
BehindHeard(id) ==
  /\ \A i \in DOMAIN subCalls : subCalls[i].m = "state" /\ subCalls[i].id = id =>
       \/ subCalls[i] = LastHeard(id) \/ InPost(id)
       \/ \E j \in DOMAIN subCalls : j > i /\ subCalls[j] = LastHeard(id)
  /\ \A i \in DOMAIN toSubs : toSubs[i].id = id =>
       \/ toSubs[i] = LastHeard(id) \/ InPost(id)
       \/ toSubs[i].m = "added" /\ buddies[id].st = "created"
       \/ \E j \in DOMAIN toSubs : j > i /\ toSubs[j] = LastHeard(id)
       \/ \E j \in DOMAIN subCalls : subCalls[j] = LastHeard(id)
  /\ \A i \in DOMAIN subs : subs[i].id = id =>
       \/ subs[i].st = buddies[id].st \/ InPost(id)
       \/ \E j \in DOMAIN toSubs : toSubs[j] = LastHeard(id)
       \/ \E j \in DOMAIN subCalls : subCalls[j] = LastHeard(id)
HeardLast ==
  /\ \A n \in notifying : n.id \in DOMAIN buddies => buddies[n.id].st = n.st
  /\ \A id \in DOMAIN buddies : buddies[id].st # "none" => BehindHeard(id)

SubInv == SubTypes /\ IdsGiven /\ EnteredOnce /\ EndHeard /\ AccountKept /\ HeardLast

LEMMA SubKinds ==
  /\ \A x \in SubBlocks : /\ x.m = "state" => x \in SubEvents
                          /\ x.m = "add" => x \in SubAdds
                          /\ x.m = "delete" => x \in SubDels
  /\ \A x \in SubArrivals : /\ x.m = "state" => x \in SubEvents
                            /\ x.m = "added" => x \in SubReplies
                            /\ x.id \in SubIds /\ x.m \in {"state", "added"}
  /\ \A x \in SubEvents : /\ x \in SubBlocks /\ x \in SubArrivals /\ x.m = "state"
                          /\ x.id \in SubIds /\ x = SubState(x.id, x.st)
  BY DEF SubBlocks, SubArrivals, SubEvents, SubAdds, SubDels, SubReplies, SubState

LEMMA StateIs ==
  ASSUME NEW id, NEW st
  PROVE  /\ SubState(id, st).m = "state" /\ SubState(id, st).id = id
         /\ SubState(id, st).st = st
  BY DEF SubState

LEMMA StateFits ==
  ASSUME NEW id \in SubIds, NEW st \in SubStates
  PROVE  SubState(id, st) \in SubEvents
  BY DEF SubState, SubEvents

(* The main looper goes on by n of its blocks, and others join it; what    *)
(* was the last state of id is still to be heard.                          *)
BehindGoesOn(id, n) ==
  /\ buddies'[id] = buddies[id] /\ subs' = subs
  /\ \A i \in DOMAIN subCalls' :
       \/ i + n \in DOMAIN subCalls /\ subCalls'[i] = subCalls[i + n]
       \/ subCalls'[i].m = "state" /\ subCalls'[i].id = id => subCalls'[i] = LastHeard(id)
  /\ \A i \in DOMAIN subCalls : i > n => i - n \in DOMAIN subCalls'
                                         /\ subCalls'[i - n] = subCalls[i]
  /\ n = 1 /\ subCalls[1].m = "state" /\ subCalls[1].id = id =>
       Len(toSubs) + 1 \in DOMAIN toSubs' /\ toSubs'[Len(toSubs) + 1] = subCalls[1]
  /\ \A i \in DOMAIN toSubs : i \in DOMAIN toSubs' /\ toSubs'[i] = toSubs[i]
  /\ \A i \in DOMAIN toSubs' :
       \/ i \in DOMAIN toSubs
       \/ /\ toSubs'[i].id = id
          => n = 1 /\ 1 \in DOMAIN subCalls /\ subCalls[1].m = "state"
             /\ toSubs'[i] = subCalls[1]
  /\ InPost(id) => \/ InPost(id)'
                   \/ \E j \in DOMAIN subCalls' :
                        subCalls'[j] = LastHeard(id) /\ \A i \in DOMAIN subCalls' : i <= j

LEMMA BehindKept ==
  ASSUME NEW id, NEW n \in {0, 1}, BehindHeard(id), BehindGoesOn(id, n),
         subCalls \in Seq(SubBlocks), subCalls' \in Seq(SubBlocks),
         toSubs \in Seq(SubArrivals), toSubs' \in Seq(SubArrivals)
  PROVE  BehindHeard(id)'
<1>. PICK last : last = LastHeard(id)
  OBVIOUS
<1>1. /\ last = LastHeard(id) /\ LastHeard(id)' = last
      /\ last.m = "state" /\ last.id = id
  BY StateIs DEF LastHeard, BehindGoesOn
<1>2. /\ \A i \in DOMAIN subCalls : i \in Nat /\ i >= 1
      /\ \A i \in DOMAIN subCalls' : i \in Nat /\ i >= 1
      /\ \A i \in DOMAIN toSubs : i \in Nat /\ i < Len(toSubs) + 1
      /\ n \in Nat
  OBVIOUS
<1>. DEFINE Coming == InPost(id)' \/ \E j \in DOMAIN subCalls' : subCalls'[j] = last
<1>3. InPost(id) => Coming
  BY <1>1 DEF BehindGoesOn
<1>4. ASSUME NEW j \in DOMAIN subCalls, subCalls[j] = last
      PROVE  \/ \E k \in DOMAIN subCalls' : subCalls'[k] = last
             \/ \E k \in DOMAIN toSubs' : k > Len(toSubs) /\ toSubs'[k] = last
  <2>1. CASE j > n
    BY <1>4, <2>1 DEF BehindGoesOn
  <2>2. CASE j <= n
    <3>1. n = 1 /\ j = 1
      BY <1>2, <2>2
    <3>2. Len(toSubs) + 1 \in DOMAIN toSubs' /\ toSubs'[Len(toSubs) + 1] = last
      BY <1>1, <1>4, <3>1 DEF BehindGoesOn
    <3>3. Len(toSubs) + 1 > Len(toSubs)
      OBVIOUS
    <3>. QED BY <3>2, <3>3
  <2>. QED BY <1>2, <2>1, <2>2
<1>5. ASSUME NEW i \in DOMAIN subCalls', subCalls'[i].m = "state", subCalls'[i].id = id
      PROVE  \/ subCalls'[i] = last \/ InPost(id)'
             \/ \E j \in DOMAIN subCalls' : j > i /\ subCalls'[j] = last
  <2>1. CASE i + n \in DOMAIN subCalls /\ subCalls'[i] = subCalls[i + n]
    <3>1. PICK k \in DOMAIN subCalls : k = i + n /\ subCalls'[i] = subCalls[k]
      BY <2>1
    <3>2. \/ subCalls[k] = last \/ InPost(id)
          \/ \E j \in DOMAIN subCalls : j > k /\ subCalls[j] = last
      BY <1>1, <1>5, <3>1 DEF BehindHeard
    <3>3. CASE InPost(id)
      <4>1. CASE \E j \in DOMAIN subCalls' :
                   subCalls'[j] = last /\ \A h \in DOMAIN subCalls' : h <= j
        BY <1>2, <4>1
      <4>. QED BY <1>1, <3>3, <4>1 DEF BehindGoesOn
    <3>4. CASE \E j \in DOMAIN subCalls : j > k /\ subCalls[j] = last
      <4>1. PICK j \in DOMAIN subCalls : j > k /\ subCalls[j] = last
        BY <3>4
      <4>2. j > n /\ j - n > i
        BY <1>2, <3>1, <4>1
      <4>3. j - n \in DOMAIN subCalls' /\ subCalls'[j - n] = last
        BY <4>1, <4>2 DEF BehindGoesOn
      <4>. QED BY <4>2, <4>3
    <3>. QED BY <3>1, <3>2, <3>3, <3>4
  <2>. QED BY <1>1, <1>5, <2>1 DEF BehindGoesOn
<1>6. ASSUME NEW i \in DOMAIN toSubs', toSubs'[i].id = id
      PROVE  \/ toSubs'[i] = last \/ InPost(id)'
             \/ toSubs'[i].m = "added" /\ buddies'[id].st = "created"
             \/ \E j \in DOMAIN toSubs' : j > i /\ toSubs'[j] = last
             \/ \E j \in DOMAIN subCalls' : subCalls'[j] = last
  <2>1. CASE i \in DOMAIN toSubs
    <3>1. toSubs'[i] = toSubs[i] /\ i <= Len(toSubs) /\ i \in Nat /\ Len(toSubs) \in Nat
      BY <1>2, <2>1 DEF BehindGoesOn
    <3>2. \/ toSubs[i] = last \/ InPost(id)
          \/ toSubs[i].m = "added" /\ buddies[id].st = "created"
          \/ \E j \in DOMAIN toSubs : j > i /\ toSubs[j] = last
          \/ \E j \in DOMAIN subCalls : subCalls[j] = last
      BY <1>1, <1>6, <2>1, <3>1 DEF BehindHeard
    <3>3. CASE \E j \in DOMAIN toSubs : j > i /\ toSubs[j] = last
      BY <3>3 DEF BehindGoesOn
    <3>4. CASE \E j \in DOMAIN subCalls : subCalls[j] = last
      <4>1. \A k \in DOMAIN toSubs' : k > Len(toSubs) => k > i
        BY <3>1
      <4>. QED BY <1>4, <3>4, <4>1
    <3>. QED BY <1>3, <3>1, <3>2, <3>3, <3>4 DEF BehindGoesOn
  <2>2. CASE i \notin DOMAIN toSubs
    <3>1. /\ n = 1 /\ 1 \in DOMAIN subCalls /\ subCalls[1].m = "state"
          /\ toSubs'[i] = subCalls[1]
      BY <1>6, <2>2 DEF BehindGoesOn
    <3>2. \/ subCalls[1] = last \/ InPost(id)
          \/ \E j \in DOMAIN subCalls : j > 1 /\ subCalls[j] = last
      BY <1>1, <1>6, <3>1 DEF BehindHeard
    <3>3. CASE \E j \in DOMAIN subCalls : j > 1 /\ subCalls[j] = last
      BY <3>1, <3>3 DEF BehindGoesOn
    <3>. QED BY <1>3, <3>1, <3>2, <3>3
  <2>. QED BY <2>1, <2>2
<1>7. ASSUME NEW i \in DOMAIN subs', subs'[i].id = id
      PROVE  \/ subs'[i].st = buddies'[id].st \/ InPost(id)'
             \/ \E j \in DOMAIN toSubs' : toSubs'[j] = last
             \/ \E j \in DOMAIN subCalls' : subCalls'[j] = last
  <2>1. \/ subs[i].st = buddies[id].st \/ InPost(id)
        \/ \E j \in DOMAIN toSubs : toSubs[j] = last
        \/ \E j \in DOMAIN subCalls : subCalls[j] = last
    BY <1>1, <1>7 DEF BehindHeard, BehindGoesOn
  <2>2. CASE \E j \in DOMAIN toSubs : toSubs[j] = last
    BY <2>2 DEF BehindGoesOn
  <2>. QED BY <1>3, <1>4, <2>1, <2>2 DEF BehindGoesOn
<1>. QED BY <1>1, <1>5, <1>6, <1>7 DEF BehindHeard

(* A new subscription has an id that nothing names yet.                    *)
LEMMA CreateKeeps ==
  ASSUME SubInv, subCalls # <<>>, Head(subCalls).m = "add", nextSubscrId <= MaxSubs,
         SubscrCreate(Head(subCalls)), UNCHANGED <<known, notifying, subModel>>
  PROVE  SubInv'
<1>. DEFINE r == subCalls[1]
            new == nextSubscrId
            e == SubAdded(r, new)
<1>1. /\ SubTypes /\ IdsGiven /\ EnteredOnce /\ EndHeard /\ AccountKept /\ HeardLast
      /\ known' = known /\ notifying' = notifying /\ subs' = subs
      /\ subSaveDue' = subSaveDue /\ savedSubs' = savedSubs
  BY DEF SubInv, subModel
<1>2. /\ Tail(subCalls) \in Seq(SubBlocks) /\ r \in SubAdds /\ 1 \in DOMAIN subCalls
      /\ r.m = "add" /\ r.acc \in SubAccs /\ r.acc \in known /\ Head(subCalls) = r
      /\ \A i \in DOMAIN Tail(subCalls) :
           i + 1 \in DOMAIN subCalls /\ Tail(subCalls)[i] = subCalls[i + 1]
      /\ \A i \in DOMAIN subCalls : i = 1 \/ (i > 1 /\ i - 1 \in DOMAIN Tail(subCalls)
                                      /\ Tail(subCalls)[i - 1] = subCalls[i])
  <2>1. subCalls \in Seq(SubBlocks)
    BY <1>1 DEF SubTypes
  <2>2. r \in SubBlocks /\ r.m = "add" /\ 1 \in DOMAIN subCalls /\ Head(subCalls) = r
    BY <2>1, TailOf
  <2>3. r \in SubAdds /\ r.acc \in SubAccs
    BY <2>2, SubKinds DEF SubAdds
  <2>4. r.acc \in known
    BY <1>1, <2>2 DEF AccountKept
  <2>. QED BY <2>1, <2>2, <2>3, <2>4, TailOf
<1>3. /\ new \in SubIds /\ new \in Nat /\ new + 1 \in 1..MaxSubs + 1 /\ MaxSubs \in Nat
      /\ \A id \in SubIds : id \in Nat /\ (id < new => id # new /\ id < new + 1)
  BY <1>1, SubAssumption DEF SubTypes, SubIds
<1>4. /\ e \in SubReplies /\ e \in SubArrivals /\ e.m = "added" /\ e.id = new
      /\ e.acc = r.acc
  BY <1>2, <1>3 DEF SubAdded, SubReplies, SubAdds, SubArrivals
<1>5. AccountFor(r.acc) = {r.acc}
  BY <1>2 DEF AccountFor
<1>6. /\ subCalls' = Tail(subCalls) /\ toSubs' = Append(toSubs, e)
      /\ buddies' = [id \in DOMAIN buddies \cup {new} |->
                       IF id = new THEN [acc |-> r.acc, st |-> "none"] ELSE buddies[id]]
      /\ nextSubscrId' = new + 1
  BY <1>2, <1>5 DEF SubscrCreate
<1>7. /\ Append(toSubs, e) \in Seq(SubArrivals)
      /\ \A i \in DOMAIN toSubs : i \in DOMAIN toSubs' /\ toSubs'[i] = toSubs[i]
                                  /\ i < Len(toSubs) + 1
      /\ Len(toSubs) + 1 \in DOMAIN toSubs' /\ toSubs'[Len(toSubs) + 1] = e
      /\ \A i \in DOMAIN toSubs' : i \in DOMAIN toSubs \/ i = Len(toSubs) + 1
  <2>1. toSubs \in Seq(SubArrivals)
    BY <1>1 DEF SubTypes
  <2>. QED BY <1>4, <1>6, <2>1, AppendOf
<1>8. /\ \A id \in DOMAIN buddies : id # new /\ id \in SubIds /\ id < new + 1
      /\ \A i \in DOMAIN subs : subs[i].id # new /\ subs[i].id \in SubIds
                                /\ subs[i].id < new + 1
      /\ \A i \in DOMAIN toSubs : toSubs[i].id # new /\ toSubs[i].id \in SubIds
                                  /\ toSubs[i].id < new + 1
                                  /\ toSubs[i] \in SubArrivals
      /\ \A i \in DOMAIN subCalls : subCalls[i].m = "state" =>
           subCalls[i].id # new /\ subCalls[i].id \in SubIds /\ subCalls[i].id < new + 1
      /\ \A n \in notifying : n.id # new /\ n.id \in SubIds /\ n.id < new + 1
  <2>1. \A i \in DOMAIN subs : subs[i].id \in SubIds
    <3>1. \A i \in DOMAIN subs : subs[i] \in Entries
      BY <1>1 DEF SubTypes
    <3>. QED BY <3>1 DEF Entries
  <2>2. \A i \in DOMAIN toSubs : toSubs[i].id \in SubIds /\ toSubs[i] \in SubArrivals
    BY <1>1, SubKinds DEF SubTypes
  <2>3. \A i \in DOMAIN subCalls : subCalls[i].m = "state" => subCalls[i].id \in SubIds
    BY <1>1, SubKinds DEF SubTypes
  <2>4. \A n \in notifying : n.id \in SubIds
    BY <1>1 DEF SubTypes
  <2>. QED BY <1>1, <1>3, <2>1, <2>2, <2>3, <2>4 DEF IdsGiven, SubTypes
<1>9. /\ DOMAIN buddies' = DOMAIN buddies \cup {new}
      /\ \A id \in DOMAIN buddies : buddies'[id] = buddies[id]
      /\ buddies'[new] = [acc |-> r.acc, st |-> "none"]
  BY <1>6, <1>8
<1>. HIDE DEF r, new, e
<1>10. SubTypes'
  <2>1. [acc |-> r.acc, st |-> "none"] \in Buddy
    BY <1>2 DEF Buddy
  <2>2. buddies' \in [DOMAIN buddies' -> Buddy] /\ DOMAIN buddies' \subseteq SubIds
    BY <1>1, <1>3, <1>6, <2>1 DEF SubTypes
  <2>. QED BY <1>1, <1>2, <1>3, <1>6, <1>7, <2>2 DEF SubTypes
<1>11. IdsGiven'
  <2>1. \A id \in DOMAIN buddies' : id < new + 1
    BY <1>3, <1>8, <1>9
  <2>2. \A i \in DOMAIN subs : subs[i].id < new + 1
    BY <1>8
  <2>3. \A i \in DOMAIN toSubs' : toSubs'[i].id < new + 1
    BY <1>3, <1>4, <1>7, <1>8
  <2>4. \A i \in DOMAIN subCalls' : subCalls'[i].m = "state" => subCalls'[i].id < new + 1
    BY <1>2, <1>6, <1>8
  <2>5. \A n \in notifying : n.id < new + 1
    BY <1>8
  <2>. QED BY <1>1, <1>6, <2>1, <2>2, <2>3, <2>4, <2>5 DEF IdsGiven
<1>12. EnteredOnce'
  <2>1. ASSUME NEW i \in DOMAIN toSubs', toSubs'[i].m = "added"
        PROVE  /\ ~Entered(toSubs'[i].id)
               /\ \A j \in DOMAIN toSubs' : toSubs'[j].id = toSubs'[i].id => i <= j
               /\ \A j \in DOMAIN toSubs' :
                    toSubs'[j].m = "added" /\ toSubs'[j].id = toSubs'[i].id => i = j
    <3>1. CASE i \in DOMAIN toSubs
      BY <1>1, <1>4, <1>7, <1>8, <2>1, <3>1 DEF EnteredOnce
    <3>2. CASE i = Len(toSubs) + 1
      <4>1. ~Entered(new)
        BY <1>8 DEF Entered
      <4>2. \A j \in DOMAIN toSubs' : toSubs'[j].id = new => j = i
        BY <1>7, <1>8, <3>2
      <4>3. toSubs'[i].id = new /\ i \in Nat /\ i <= i
        BY <1>1, <1>4, <1>7, <3>2 DEF SubTypes
      <4>. QED BY <4>1, <4>2, <4>3
    <3>. QED BY <1>7, <3>1, <3>2
  <2>. QED BY <1>1, <2>1 DEF EnteredOnce, Entered
<1>13. EndHeard'
  <2>1. \A id : Entered(id)' <=> Entered(id)
    BY <1>1 DEF Entered
  <2>2. \A id : id # new => (Announced(id)' <=> Announced(id))
    BY <1>4, <1>7 DEF Announced
  <2>3. \A id : id = new => Announced(id)'
    BY <1>4, <1>7 DEF Announced
  <2>4. \A id : EndIn(toSubs', id) <=> EndIn(toSubs, id)
    BY <1>4, <1>7, StateIs DEF EndIn
  <2>5. \A id : EndIn(subCalls', id) <=> EndIn(subCalls, id)
    <3>1. \A id : \A i \in DOMAIN subCalls : subCalls[i] = SubState(id, "destroyed") => i # 1
      BY <1>2, StateIs DEF r
    <3>2. ASSUME NEW id, EndIn(subCalls, id) PROVE EndIn(subCalls', id)
      <4>1. PICK i \in DOMAIN subCalls : subCalls[i] = SubState(id, "destroyed")
        BY <3>2 DEF EndIn
      <4>2. i - 1 \in DOMAIN Tail(subCalls) /\ Tail(subCalls)[i - 1] = subCalls[i]
        BY <1>2, <3>1, <4>1
      <4>. QED BY <1>6, <4>1, <4>2 DEF EndIn
    <3>3. ASSUME NEW id, EndIn(subCalls', id) PROVE EndIn(subCalls, id)
      BY <1>2, <1>6, <3>3 DEF EndIn
    <3>. QED BY <3>2, <3>3
  <2>6. ~EndIn(toSubs, new) /\ ~EndIn(subCalls, new)
    BY <1>8, StateIs DEF EndIn
  <2>7. ASSUME NEW id \in DOMAIN buddies'
        PROVE  /\ Entered(id)' \/ Announced(id)'
               /\ ~EndIn(toSubs', id) /\ ~EndIn(subCalls', id)
    BY <1>1, <1>9, <2>1, <2>2, <2>3, <2>4, <2>5, <2>6, <2>7 DEF EndHeard
  <2>8. ASSUME NEW id \in SubIds \ DOMAIN buddies', Entered(id)' \/ Announced(id)'
        PROVE  EndIn(toSubs', id) \/ EndIn(subCalls', id)
    BY <1>1, <1>9, <2>1, <2>2, <2>4, <2>5, <2>8 DEF EndHeard
  <2>. QED BY <2>7, <2>8 DEF EndHeard
<1>14. AccountKept'
  <2>1. \A i \in DOMAIN toSubs' : toSubs'[i].m = "added" =>
          /\ toSubs'[i].acc \in known
          /\ toSubs'[i].id \in DOMAIN buddies' => buddies'[toSubs'[i].id].acc = toSubs'[i].acc
    BY <1>1, <1>2, <1>4, <1>7, <1>8, <1>9 DEF AccountKept
  <2>2. \A i \in DOMAIN subs : /\ subs[i].acc \in known
                               /\ subs[i].id \in DOMAIN buddies' =>
                                    buddies'[subs[i].id].acc = subs[i].acc
    BY <1>1, <1>8, <1>9 DEF AccountKept
  <2>3. \A i \in DOMAIN subCalls' : subCalls'[i].m = "add" => subCalls'[i].acc \in known
    BY <1>1, <1>2, <1>6 DEF AccountKept
  <2>. QED BY <1>1, <2>1, <2>2, <2>3 DEF AccountKept
<1>15. HeardLast'
  <2>1. \A n \in notifying' : n.id \in DOMAIN buddies' => buddies'[n.id].st = n.st
    BY <1>1, <1>8, <1>9 DEF HeardLast
  <2>2. ASSUME NEW id \in DOMAIN buddies', buddies'[id].st # "none"
        PROVE  BehindHeard(id)'
    <3>1. id \in DOMAIN buddies /\ id # new /\ buddies'[id] = buddies[id]
      BY <1>8, <1>9, <2>2
    <3>2. BehindHeard(id)
      BY <1>1, <2>2, <3>1 DEF HeardLast
    <3>3. BehindGoesOn(id, 1)
      BY <1>1, <1>2, <1>4, <1>6, <1>7, <3>1, SMTT(60) DEF BehindGoesOn, InPost, r
    <3>4. /\ subCalls \in Seq(SubBlocks) /\ subCalls' \in Seq(SubBlocks)
          /\ toSubs \in Seq(SubArrivals) /\ toSubs' \in Seq(SubArrivals)
      BY <1>1, <1>10 DEF SubTypes
    <3>. QED BY <3>2, <3>3, <3>4, BehindKept
  <2>. QED BY <2>1, <2>2 DEF HeardLast
<1>. QED BY <1>10, <1>11, <1>12, <1>13, <1>14, <1>15 DEF SubInv

LEMMA TypesOf ==
  ASSUME SubTypes
  PROVE  /\ \A i \in DOMAIN subs : subs[i] \in Entries /\ subs[i].id \in SubIds
                                   /\ subs[i].acc \in SubAccs /\ subs[i].st \in Reported
         /\ \A i \in DOMAIN toSubs : toSubs[i].id \in SubIds /\ toSubs[i] \in SubArrivals
                                     /\ toSubs[i].m \in {"state", "added"}
         /\ \A i \in DOMAIN subCalls : /\ subCalls[i] \in SubBlocks
                                       /\ subCalls[i].m = "state" => subCalls[i].id \in SubIds
         /\ \A n \in notifying : n.id \in SubIds /\ n.st \in Reported
         /\ \A id \in SubIds : id \in Nat
<1>1. \A i \in DOMAIN subs : subs[i] \in Entries
  BY DEF SubTypes
<1>2. \A i \in DOMAIN toSubs : toSubs[i] \in SubArrivals
  BY DEF SubTypes
<1>3. \A i \in DOMAIN subCalls : subCalls[i] \in SubBlocks
  BY DEF SubTypes
<1>4. \A n \in notifying : n \in [id: SubIds, st: Reported]
  BY DEF SubTypes
<1>. QED BY <1>1, <1>2, <1>3, <1>4, SubKinds DEF Entries, SubIds

(* The first block has been taken.                                         *)
LEMMA SubBlockTaken ==
  ASSUME SubTypes, subCalls # <<>>
  PROVE  /\ Tail(subCalls) \in Seq(SubBlocks) /\ Head(subCalls) = subCalls[1]
         /\ 1 \in DOMAIN subCalls /\ subCalls[1] \in SubBlocks
         /\ \A i \in DOMAIN Tail(subCalls) :
              i + 1 \in DOMAIN subCalls /\ Tail(subCalls)[i] = subCalls[i + 1]
         /\ \A i \in DOMAIN subCalls : i = 1 \/ (i > 1 /\ i - 1 \in DOMAIN Tail(subCalls)
                                         /\ Tail(subCalls)[i - 1] = subCalls[i])
         /\ \A id : EndIn(subCalls, id) <=>
              EndIn(Tail(subCalls), id) \/ subCalls[1] = SubState(id, "destroyed")
<1>1. subCalls \in Seq(SubBlocks)
  BY DEF SubTypes
<1>2. /\ Tail(subCalls) \in Seq(SubBlocks) /\ Head(subCalls) = subCalls[1]
      /\ 1 \in DOMAIN subCalls /\ subCalls[1] \in SubBlocks
      /\ \A i \in DOMAIN Tail(subCalls) :
           i + 1 \in DOMAIN subCalls /\ Tail(subCalls)[i] = subCalls[i + 1]
      /\ \A i \in DOMAIN subCalls : i = 1 \/ (i > 1 /\ i - 1 \in DOMAIN Tail(subCalls)
                                      /\ Tail(subCalls)[i - 1] = subCalls[i])
  BY <1>1, TailOf
<1>3. ASSUME NEW id, EndIn(subCalls, id)
      PROVE  EndIn(Tail(subCalls), id) \/ subCalls[1] = SubState(id, "destroyed")
  BY <1>2, <1>3 DEF EndIn
<1>4. ASSUME NEW id, EndIn(Tail(subCalls), id) \/ subCalls[1] = SubState(id, "destroyed")
      PROVE  EndIn(subCalls, id)
  BY <1>2, <1>4 DEF EndIn
<1>. QED BY <1>2, <1>3, <1>4

LEMMA DestroyedAppend ==
  ASSUME NEW S, NEW q \in Seq(S), NEW x \in S, NEW id
  PROVE  EndIn(Append(q, x), id) <=> EndIn(q, id) \/ x = SubState(id, "destroyed")
  BY AppendOf DEF EndIn

(* A subscription that is destroyed tells so, behind all that was told.    *)
LEMMA DestroyKeeps ==
  ASSUME SubInv, subCalls # <<>>, Head(subCalls).m = "delete",
         SubscrDestroy(Head(subCalls)), UNCHANGED <<known, notifying, subModel>>
  PROVE  SubInv'
<1>. DEFINE r == subCalls[1]
            e == SubState(r.id, "destroyed")
<1>1. /\ SubTypes /\ IdsGiven /\ EnteredOnce /\ EndHeard /\ AccountKept /\ HeardLast
      /\ known' = known /\ notifying' = notifying /\ subs' = subs
      /\ subSaveDue' = subSaveDue /\ savedSubs' = savedSubs
  BY DEF SubInv, subModel
<1>2. /\ r.m = "delete" /\ r.id \in SubIds /\ Head(subCalls) = r /\ 1 \in DOMAIN subCalls
  <2>1. r \in SubDels /\ 1 \in DOMAIN subCalls /\ Head(subCalls) = r
    BY <1>1, SubBlockTaken, SubKinds
  <2>. QED BY <2>1 DEF SubDels
<1>3. /\ DOMAIN buddies' = DOMAIN buddies \ {r.id}
      /\ \A id \in DOMAIN buddies' : id \in DOMAIN buddies /\ buddies'[id] = buddies[id]
      /\ nextSubscrId' = nextSubscrId /\ toSubs' = toSubs
      /\ r.id \in DOMAIN buddies => subCalls' = Append(Tail(subCalls), e)
      /\ r.id \notin DOMAIN buddies => subCalls' = Tail(subCalls)
      /\ buddies' = [id \in DOMAIN buddies \ {r.id} |-> buddies[id]]
  BY <1>2 DEF SubscrDestroy, Restrict
<1>4. e \in SubBlocks /\ e.m = "state" /\ e.id = r.id
  <2>1. e \in SubEvents
    BY <1>2, StateFits DEF SubStates
  <2>. QED BY <2>1, SubKinds, StateIs
<1>. HIDE DEF r, e
<1>5. /\ subCalls' \in Seq(SubBlocks)
      /\ \A i \in DOMAIN subCalls' :
           \/ i + 1 \in DOMAIN subCalls /\ subCalls'[i] = subCalls[i + 1]
           \/ r.id \in DOMAIN buddies /\ subCalls'[i] = e
      /\ \A i \in DOMAIN subCalls : i = 1 \/ (i > 1 /\ i - 1 \in DOMAIN subCalls'
                                              /\ subCalls'[i - 1] = subCalls[i])
      /\ \A id : EndIn(subCalls', id) <=>
           \/ EndIn(subCalls, id)
           \/ r.id \in DOMAIN buddies /\ e = SubState(id, "destroyed")
  <2>1. \A id : subCalls[1] # SubState(id, "destroyed")
    BY <1>2, StateIs DEF r
  <2>2. CASE r.id \in DOMAIN buddies
    <3>. DEFINE t == Tail(subCalls)
    <3>1. subCalls' = Append(t, e) /\ t \in Seq(SubBlocks)
      BY <1>1, <1>3, <2>2, SubBlockTaken
    <3>2. /\ \A i \in DOMAIN t : i + 1 \in DOMAIN subCalls /\ t[i] = subCalls[i + 1]
          /\ \A i \in DOMAIN subCalls : i = 1 \/ (i > 1 /\ i - 1 \in DOMAIN t
                                                  /\ t[i - 1] = subCalls[i])
          /\ \A id : EndIn(subCalls, id) <=> EndIn(t, id)
      BY <1>1, <2>1, SubBlockTaken
    <3>. HIDE DEF t
    <3>3. /\ Append(t, e) \in Seq(SubBlocks)
          /\ \A i \in DOMAIN t : i \in DOMAIN Append(t, e) /\ Append(t, e)[i] = t[i]
          /\ \A i \in DOMAIN Append(t, e) : i \in DOMAIN t \/ Append(t, e)[i] = e
      BY <1>4, <3>1, AppendOf
    <3>4. \A id : EndIn(Append(t, e), id) <=> EndIn(t, id) \/ e = SubState(id, "destroyed")
      BY <1>4, <3>1, DestroyedAppend
    <3>. QED BY <2>2, <3>1, <3>2, <3>3, <3>4
  <2>3. CASE r.id \notin DOMAIN buddies
    <3>1. subCalls' = Tail(subCalls) /\ r.id \notin DOMAIN buddies
      BY <1>3, <2>3
    <3>. QED BY <1>1, <2>1, <3>1, SubBlockTaken
  <2>. QED BY <2>2, <2>3
<1>6. SubTypes'
  BY <1>1, <1>3, <1>5 DEF SubTypes
<1>7. IdsGiven'
  BY <1>1, <1>3, <1>4, <1>5 DEF IdsGiven
<1>8. EnteredOnce'
  BY <1>1, <1>3 DEF EnteredOnce, Entered
<1>9. EndHeard'
  <2>1. \A id : (Entered(id)' <=> Entered(id)) /\ (Announced(id)' <=> Announced(id))
    BY <1>1, <1>3 DEF Entered, Announced
  <2>2. ASSUME NEW id \in DOMAIN buddies'
        PROVE  /\ Entered(id)' \/ Announced(id)'
               /\ ~EndIn(toSubs', id) /\ ~EndIn(subCalls', id)
    <3>1. id \in DOMAIN buddies /\ id # r.id
      BY <1>3
    <3>2. e # SubState(id, "destroyed")
      BY <1>4, <3>1, StateIs
    <3>. QED BY <1>1, <1>3, <1>5, <2>1, <3>1, <3>2 DEF EndHeard
  <2>3. ASSUME NEW id \in SubIds \ DOMAIN buddies', Entered(id)' \/ Announced(id)'
        PROVE  EndIn(toSubs', id) \/ EndIn(subCalls', id)
    <3>1. CASE id \in DOMAIN buddies
      BY <1>3, <1>5, <2>3, <3>1 DEF e
    <3>2. CASE id \notin DOMAIN buddies
      BY <1>1, <1>3, <1>5, <2>1, <2>3, <3>2 DEF EndHeard
    <3>. QED BY <3>1, <3>2
  <2>. QED BY <2>2, <2>3 DEF EndHeard
<1>10. AccountKept'
  <2>1. \A i \in DOMAIN subCalls' : subCalls'[i].m = "add" => subCalls'[i].acc \in known
    BY <1>1, <1>4, <1>5 DEF AccountKept
  <2>. QED BY <1>1, <1>3, <2>1 DEF AccountKept
<1>11. HeardLast'
  <2>1. \A n \in notifying' : n.id \in DOMAIN buddies' => buddies'[n.id].st = n.st
    BY <1>1, <1>3 DEF HeardLast
  <2>2. ASSUME NEW id \in DOMAIN buddies', buddies'[id].st # "none"
        PROVE  BehindHeard(id)'
    <3>1. id \in DOMAIN buddies /\ id # r.id /\ buddies'[id] = buddies[id]
      BY <1>3
    <3>2. BehindHeard(id)
      BY <1>1, <2>2, <3>1 DEF HeardLast
    <3>3. BehindGoesOn(id, 1)
      <4>1. r.m # "state" /\ r = subCalls[1]
        BY <1>2 DEF r
      <4>. QED BY <1>1, <1>3, <1>4, <1>5, <3>1, <4>1 DEF BehindGoesOn, InPost
    <3>4. /\ subCalls \in Seq(SubBlocks) /\ subCalls' \in Seq(SubBlocks)
          /\ toSubs \in Seq(SubArrivals) /\ toSubs' \in Seq(SubArrivals)
      BY <1>1, <1>6 DEF SubTypes
    <3>. QED BY <3>2, <3>3, <3>4, BehindKept
  <2>. QED BY <2>1, <2>2 DEF HeardLast
<1>. QED BY <1>6, <1>7, <1>8, <1>9, <1>10, <1>11 DEF SubInv

(* A block with a state is sent to Dart.                                   *)
LEMMA StateSent ==
  ASSUME SubInv, subCalls # <<>>, Head(subCalls).m = "state",
         toSubs' = Append(toSubs, Head(subCalls)), subCalls' = Tail(subCalls),
         UNCHANGED <<known, subEngine, notifying, subModel>>
  PROVE  SubInv'
<1>. DEFINE r == subCalls[1]
<1>1. /\ SubTypes /\ IdsGiven /\ EnteredOnce /\ EndHeard /\ AccountKept /\ HeardLast
      /\ known' = known /\ notifying' = notifying /\ subs' = subs
      /\ subSaveDue' = subSaveDue /\ savedSubs' = savedSubs
      /\ buddies' = buddies /\ nextSubscrId' = nextSubscrId
  BY DEF SubInv, subModel, subEngine
<1>2. /\ r.m = "state" /\ r.id \in SubIds /\ Head(subCalls) = r /\ 1 \in DOMAIN subCalls
      /\ r \in SubArrivals /\ r \in SubEvents
  BY <1>1, SubBlockTaken, SubKinds
<1>3. /\ toSubs' \in Seq(SubArrivals)
      /\ \A i \in DOMAIN toSubs : i \in DOMAIN toSubs' /\ toSubs'[i] = toSubs[i]
                                  /\ i < Len(toSubs) + 1
      /\ Len(toSubs) + 1 \in DOMAIN toSubs' /\ toSubs'[Len(toSubs) + 1] = r
      /\ \A i \in DOMAIN toSubs' : i \in DOMAIN toSubs \/ i = Len(toSubs) + 1
      /\ \A id : EndIn(toSubs', id) <=>
                   EndIn(toSubs, id) \/ r = SubState(id, "destroyed")
  <2>1. toSubs \in Seq(SubArrivals)
    BY <1>1 DEF SubTypes
  <2>. QED BY <1>2, <2>1, AppendOf, DestroyedAppend
<1>4. /\ subCalls' \in Seq(SubBlocks)
      /\ \A i \in DOMAIN subCalls' :
           i + 1 \in DOMAIN subCalls /\ subCalls'[i] = subCalls[i + 1]
      /\ \A i \in DOMAIN subCalls : i = 1 \/ (i > 1 /\ i - 1 \in DOMAIN subCalls'
                                              /\ subCalls'[i - 1] = subCalls[i])
      /\ \A id : EndIn(subCalls, id) <=>
                   EndIn(subCalls', id) \/ r = SubState(id, "destroyed")
  BY <1>1, SubBlockTaken
<1>5. SubTypes'
  BY <1>1, <1>3, <1>4 DEF SubTypes
<1>6. IdsGiven'
  BY <1>1, <1>2, <1>3, <1>4 DEF IdsGiven
<1>. HIDE DEF r
<1>7. EnteredOnce'
  <2>1. ASSUME NEW i \in DOMAIN toSubs', toSubs'[i].m = "added"
        PROVE  /\ ~Entered(toSubs'[i].id)
               /\ \A j \in DOMAIN toSubs' : toSubs'[j].id = toSubs'[i].id => i <= j
               /\ \A j \in DOMAIN toSubs' :
                    toSubs'[j].m = "added" /\ toSubs'[j].id = toSubs'[i].id => i = j
    <3>1. i \in DOMAIN toSubs /\ toSubs'[i] = toSubs[i] /\ i <= Len(toSubs) + 1
      <4>1. i \in DOMAIN toSubs /\ toSubs'[i] = toSubs[i]
        BY <1>2, <1>3, <2>1
      <4>. QED BY <1>1, <4>1 DEF SubTypes
    <3>. QED BY <1>1, <1>2, <1>3, <2>1, <3>1 DEF EnteredOnce
  <2>. QED BY <1>1, <2>1 DEF EnteredOnce, Entered
<1>8. EndHeard'
  <2>1. \A id : Announced(id)' <=> Announced(id)
    BY <1>2, <1>3 DEF Announced
  <2>2. \A id : Entered(id)' <=> Entered(id)
    BY <1>1 DEF Entered
  <2>. QED BY <1>1, <1>3, <1>4, <2>1, <2>2 DEF EndHeard
<1>9. AccountKept'
  BY <1>1, <1>2, <1>3, <1>4 DEF AccountKept
<1>10. HeardLast'
  <2>1. ASSUME NEW id \in DOMAIN buddies', buddies'[id].st # "none"
        PROVE  BehindHeard(id)'
    <3>1. BehindHeard(id)
      BY <1>1, <2>1 DEF HeardLast
    <3>2. BehindGoesOn(id, 1)
      <4>1. r.m = "state" /\ r = subCalls[1]
        BY <1>2 DEF r
      <4>. QED BY <1>1, <1>2, <1>3, <1>4, <4>1 DEF BehindGoesOn, InPost
    <3>3. /\ subCalls \in Seq(SubBlocks) /\ subCalls' \in Seq(SubBlocks)
          /\ toSubs \in Seq(SubArrivals) /\ toSubs' \in Seq(SubArrivals)
      BY <1>1, <1>5 DEF SubTypes
    <3>. QED BY <3>1, <3>2, <3>3, BehindKept
  <2>. QED BY <1>1, <2>1 DEF HeardLast
<1>. QED BY <1>5, <1>6, <1>7, <1>8, <1>9, <1>10 DEF SubInv

(* onBuddyState sets created: its event is now the last one.               *)
LEMMA BuddyKeeps ==
  ASSUME SubInv, NEW b \in DOMAIN buddies, OnBuddyState(b)
  PROVE  SubInv'
<1>. DEFINE st == IF buddies[b].st = "none" THEN "created" ELSE "updated"
            n0 == [id |-> b, st |-> st]
<1>1. /\ SubTypes /\ IdsGiven /\ EnteredOnce /\ EndHeard /\ AccountKept /\ HeardLast
      /\ known' = known /\ subs' = subs /\ subCalls' = subCalls /\ toSubs' = toSubs
      /\ subSaveDue' = subSaveDue /\ savedSubs' = savedSubs
      /\ nextSubscrId' = nextSubscrId
      /\ buddies' = [buddies EXCEPT ![b].st = st]
      /\ notifying' = notifying \cup {n0} /\ \A n \in notifying : n.id # b
  BY DEF SubInv, subModel, OnBuddyState
<1>2. /\ st \in Reported /\ n0.id = b /\ n0.st = st /\ b \in SubIds
      /\ n0 \in [id: SubIds, st: Reported]
  BY <1>1 DEF Reported, SubTypes
<1>. HIDE DEF n0, st
<1>3. /\ DOMAIN buddies' = DOMAIN buddies /\ buddies'[b].st = st
      /\ \A id \in DOMAIN buddies : /\ buddies'[id].acc = buddies[id].acc
                                    /\ id # b => buddies'[id] = buddies[id]
      /\ buddies' \in [DOMAIN buddies -> Buddy]
  <2>1. buddies \in [DOMAIN buddies -> Buddy]
    BY <1>1 DEF SubTypes
  <2>2. buddies[b] \in Buddy /\ [buddies[b] EXCEPT !.st = st] \in Buddy
    BY <1>2, <2>1 DEF Buddy
  <2>3. \A id \in DOMAIN buddies :
          buddies'[id] = IF id = b THEN [buddies[b] EXCEPT !.st = st] ELSE buddies[id]
    BY <1>1
  <2>4. /\ [buddies[b] EXCEPT !.st = st].st = st
        /\ [buddies[b] EXCEPT !.st = st].acc = buddies[b].acc
    BY <2>2 DEF Buddy
  <2>. QED BY <1>1, <2>1, <2>2, <2>3, <2>4
<1>4. SubTypes'
  BY <1>1, <1>2, <1>3 DEF SubTypes
<1>5. IdsGiven'
  BY <1>1, <1>2, <1>3 DEF IdsGiven
<1>6. EnteredOnce'
  BY <1>1 DEF EnteredOnce, Entered
<1>7. EndHeard'
  BY <1>1, <1>3 DEF EndHeard, Entered, Announced
<1>8. AccountKept'
  BY <1>1, <1>3 DEF AccountKept
<1>9. HeardLast'
  <2>1. \A n \in notifying' : n.id \in DOMAIN buddies' => buddies'[n.id].st = n.st
    BY <1>1, <1>2, <1>3 DEF HeardLast
  <2>2. ASSUME NEW id \in DOMAIN buddies', buddies'[id].st # "none"
        PROVE  BehindHeard(id)'
    <3>1. CASE id = b
      <4>1. InPost(id)'
        BY <1>1, <1>3, <3>1 DEF InPost, n0
      <4>. QED BY <4>1 DEF BehindHeard
    <3>2. CASE id # b
      <4>1. BehindHeard(id) /\ buddies'[id] = buddies[id]
        BY <1>1, <1>3, <2>2, <3>2 DEF HeardLast
      <4>2. InPost(id) => InPost(id)'
        BY <1>1, <4>1 DEF InPost
      <4>3. LastHeard(id)' = LastHeard(id)
        BY <4>1 DEF LastHeard
      <4>. QED BY <1>1, <4>1, <4>2, <4>3 DEF BehindHeard
    <3>. QED BY <3>1, <3>2
  <2>. QED BY <2>1, <2>2 DEF HeardLast
<1>. QED BY <1>4, <1>5, <1>6, <1>7, <1>8, <1>9 DEF SubInv

(* A request of Dart, or an event that is posted.                          *)
LEMMA Requested ==
  ASSUME SubInv, NEW r \in SubBlocks, r.m = "add" => r.acc \in known,
         r.m = "state" => \E n \in notifying : n.id = r.id /\ n.st = r.st,
         notifying' = notifying \ {n \in notifying : r.m = "state" /\ n.id = r.id /\ n.st = r.st},
         subCalls' = Append(subCalls, r),
         UNCHANGED <<known, subEngine, toSubs, subModel>>
  PROVE  SubInv'
<1>1. /\ SubTypes /\ IdsGiven /\ EnteredOnce /\ EndHeard /\ AccountKept /\ HeardLast
      /\ known' = known /\ subs' = subs /\ toSubs' = toSubs
      /\ subSaveDue' = subSaveDue /\ savedSubs' = savedSubs
      /\ buddies' = buddies /\ nextSubscrId' = nextSubscrId
      /\ notifying' \subseteq notifying
  BY DEF SubInv, subModel, subEngine
<1>2. /\ subCalls' \in Seq(SubBlocks) /\ subCalls \in Seq(SubBlocks)
      /\ \A i \in DOMAIN subCalls : i \in DOMAIN subCalls' /\ subCalls'[i] = subCalls[i]
                                    /\ i \in Nat
      /\ Len(subCalls) + 1 \in DOMAIN subCalls' /\ subCalls'[Len(subCalls) + 1] = r
      /\ \A i \in DOMAIN subCalls' : /\ i \in DOMAIN subCalls \/ i = Len(subCalls) + 1
                                     /\ i \in Nat /\ i <= Len(subCalls) + 1
      /\ \A id : EndIn(subCalls', id) <=>
                   EndIn(subCalls, id) \/ r = SubState(id, "destroyed")
  <2>1. subCalls \in Seq(SubBlocks)
    BY <1>1 DEF SubTypes
  <2>2. \A i \in DOMAIN subCalls' : i \in Nat /\ i <= Len(subCalls) + 1
    BY <2>1
  <2>. QED BY <2>1, <2>2, AppendOf, DestroyedAppend
<1>3. \A id : r # SubState(id, "destroyed")
  <2>1. \A n \in notifying : n.st # "destroyed"
    <3>1. \A n \in notifying : n.st \in Reported
      BY <1>1, TypesOf
    <3>. QED BY <3>1 DEF Reported
  <2>2. ASSUME NEW id, r = SubState(id, "destroyed") PROVE FALSE
    <3>1. r.m = "state" /\ r.st = "destroyed"
      BY <2>2, StateIs
    <3>. QED BY <2>1, <3>1
  <2>. QED BY <2>2
<1>4. SubTypes'
  BY <1>1, <1>2 DEF SubTypes
<1>5. IdsGiven'
  BY <1>1, <1>2 DEF IdsGiven
<1>6. EnteredOnce'
  BY <1>1 DEF EnteredOnce, Entered
<1>7. EndHeard'
  BY <1>1, <1>2, <1>3 DEF EndHeard, Entered, Announced
<1>8. AccountKept'
  BY <1>1, <1>2 DEF AccountKept
<1>9. HeardLast'
  <2>1. \A n \in notifying' : n.id \in DOMAIN buddies' => buddies'[n.id].st = n.st
    BY <1>1 DEF HeardLast
  <2>2. ASSUME NEW id \in DOMAIN buddies', buddies'[id].st # "none"
        PROVE  BehindHeard(id)'
    <3>1. BehindHeard(id)
      BY <1>1, <2>2 DEF HeardLast
    <3>2. r.m = "state" /\ r.id = id => r = LastHeard(id)
      <4>1. ASSUME r.m = "state", r.id = id PROVE r = LastHeard(id)
        <5>1. PICK n \in notifying : n.id = id /\ n.st = r.st
          BY <4>1
        <5>2. r.st = buddies[id].st
          BY <1>1, <2>2, <5>1 DEF HeardLast
        <5>3. r = SubState(r.id, r.st)
          BY <4>1, SubKinds
        <5>. QED BY <4>1, <5>2, <5>3 DEF LastHeard
      <4>. QED BY <4>1
    <3>3. InPost(id) => InPost(id)' \/ r = LastHeard(id)
      <4>1. ASSUME InPost(id), ~InPost(id)' PROVE r = LastHeard(id)
        <5>1. r.m = "state" /\ r.id = id
          BY <1>1, <4>1 DEF InPost
        <5>. QED BY <3>2, <5>1
      <4>. QED BY <4>1
    <3>4. BehindGoesOn(id, 0)
      <4>1. \A i \in DOMAIN subCalls : i > 0 /\ i + 0 = i /\ i - 0 = i
        BY <1>2
      <4>. QED BY <1>1, <1>2, <3>2, <3>3, <4>1 DEF BehindGoesOn
    <3>5. /\ subCalls \in Seq(SubBlocks) /\ subCalls' \in Seq(SubBlocks)
          /\ toSubs \in Seq(SubArrivals) /\ toSubs' \in Seq(SubArrivals)
      BY <1>1, <1>4 DEF SubTypes
    <3>. QED BY <3>1, <3>4, <3>5, BehindKept
  <2>. QED BY <2>1, <2>2 DEF HeardLast
<1>. QED BY <1>4, <1>5, <1>6, <1>7, <1>8, <1>9 DEF SubInv

-----------------------------------------------------------------------------
(* Dart takes a message.                                                   *)

LEMMA ArrivalTaken ==
  ASSUME SubTypes, toSubs # <<>>
  PROVE  /\ Tail(toSubs) \in Seq(SubArrivals) /\ Head(toSubs) = toSubs[1]
         /\ 1 \in DOMAIN toSubs /\ toSubs[1] \in SubArrivals
         /\ toSubs[1].m = "state" => toSubs[1] \in SubEvents
         /\ toSubs[1].m = "added" => toSubs[1] \in SubReplies
         /\ \A i \in DOMAIN Tail(toSubs) : /\ i + 1 \in DOMAIN toSubs /\ i \in Nat /\ i >= 1
                                           /\ Tail(toSubs)[i] = toSubs[i + 1]
         /\ \A i \in DOMAIN toSubs : i = 1 \/ (i > 1 /\ i - 1 \in DOMAIN Tail(toSubs)
                                         /\ Tail(toSubs)[i - 1] = toSubs[i])
         /\ \A id : EndIn(toSubs, id) <=>
              EndIn(Tail(toSubs), id) \/ toSubs[1] = SubState(id, "destroyed")
         /\ \A i \in DOMAIN toSubs : i \in Nat
<1>1. toSubs \in Seq(SubArrivals)
  BY DEF SubTypes
<1>2. /\ Tail(toSubs) \in Seq(SubArrivals) /\ Head(toSubs) = toSubs[1]
      /\ 1 \in DOMAIN toSubs /\ toSubs[1] \in SubArrivals
      /\ \A i \in DOMAIN Tail(toSubs) :
           i + 1 \in DOMAIN toSubs /\ Tail(toSubs)[i] = toSubs[i + 1]
      /\ \A i \in DOMAIN toSubs : i = 1 \/ (i > 1 /\ i - 1 \in DOMAIN Tail(toSubs)
                                      /\ Tail(toSubs)[i - 1] = toSubs[i])
  BY <1>1, TailOf
<1>3. \A i \in DOMAIN Tail(toSubs) : i \in Nat /\ i >= 1
  BY <1>2
<1>4. \A i \in DOMAIN toSubs : i \in Nat
  BY <1>1
<1>5. ASSUME NEW id, EndIn(toSubs, id)
      PROVE  EndIn(Tail(toSubs), id) \/ toSubs[1] = SubState(id, "destroyed")
  BY <1>2, <1>5 DEF EndIn
<1>6. ASSUME NEW id, EndIn(Tail(toSubs), id) \/ toSubs[1] = SubState(id, "destroyed")
      PROVE  EndIn(toSubs, id)
  BY <1>2, <1>6 DEF EndIn
<1>. QED BY <1>2, <1>3, <1>4, <1>5, <1>6, SubKinds

(* What is shown of id is what the message taken said, or it was not about *)
(* id and something else that was shown is shown still.                    *)
ShownStill(id) ==
  \A i \in DOMAIN subs' : subs'[i].id = id =>
    LET r == toSubs[1] IN
    \/ r.id = id /\ r.m = "state" /\ subs'[i].st = r.st
    \/ r.id = id /\ r.m = "added" /\ subs'[i].st = "created"
    \/ /\ r.id # id \/ r.m = "added"
       /\ \E k \in DOMAIN subs : subs[k].id = id /\ subs'[i].st = subs[k].st

LEMMA BehindTaken ==
  ASSUME SubTypes, NEW id, BehindHeard(id), toSubs # <<>>, toSubs' = Tail(toSubs),
         subCalls' = subCalls, notifying' = notifying, buddies' = buddies, ShownStill(id)
  PROVE  BehindHeard(id)'
<1>. PICK last : last = LastHeard(id)
  OBVIOUS
<1>1. /\ last = LastHeard(id) /\ LastHeard(id)' = last
      /\ last.m = "state" /\ last.id = id /\ last.st = buddies[id].st
      /\ InPost(id)' <=> InPost(id)
  BY StateIs DEF LastHeard, InPost
<1>2. ASSUME NEW i \in DOMAIN toSubs', toSubs'[i].id = id
      PROVE  \/ toSubs'[i] = last \/ InPost(id)
             \/ toSubs'[i].m = "added" /\ buddies[id].st = "created"
             \/ \E j \in DOMAIN toSubs' : j > i /\ toSubs'[j] = last
             \/ \E j \in DOMAIN subCalls : subCalls[j] = last
  <2>1. PICK k \in DOMAIN toSubs : k = i + 1 /\ toSubs'[i] = toSubs[k] /\ i \in Nat
    BY ArrivalTaken
  <2>2. CASE \E j \in DOMAIN toSubs : j > k /\ toSubs[j] = last
    <3>1. PICK j \in DOMAIN toSubs : j > k /\ toSubs[j] = last
      BY <2>2
    <3>2. j \in Nat /\ j # 1 /\ j - 1 > i
      <4>1. j \in Nat
        BY ArrivalTaken
      <4>. QED BY <2>1, <3>1, <4>1
    <3>3. j - 1 \in DOMAIN toSubs' /\ toSubs'[j - 1] = last
      BY <3>1, <3>2, ArrivalTaken
    <3>. QED BY <3>2, <3>3
  <2>. QED BY <1>1, <1>2, <2>1, <2>2 DEF BehindHeard
<1>3. ASSUME NEW i \in DOMAIN subs', subs'[i].id = id
      PROVE  \/ subs'[i].st = buddies[id].st \/ InPost(id)
             \/ \E j \in DOMAIN toSubs' : toSubs'[j] = last
             \/ \E j \in DOMAIN subCalls : subCalls[j] = last
  <2>0. /\ 1 \in DOMAIN toSubs
        /\ \A j \in DOMAIN toSubs : j = 1 \/ (j - 1 \in DOMAIN toSubs'
                                              /\ toSubs'[j - 1] = toSubs[j])
        /\ \A j \in DOMAIN toSubs : j > 1 => j # 1
    BY ArrivalTaken
  <2>1. CASE toSubs[1].id = id /\ ((toSubs[1].m = "state" /\ subs'[i].st = toSubs[1].st)
                                   \/ (toSubs[1].m = "added" /\ subs'[i].st = "created"))
    <3>1. \/ toSubs[1] = last \/ InPost(id)
          \/ toSubs[1].m = "added" /\ buddies[id].st = "created"
          \/ \E j \in DOMAIN toSubs : j > 1 /\ toSubs[j] = last
          \/ \E j \in DOMAIN subCalls : subCalls[j] = last
      BY <1>1, <2>0, <2>1 DEF BehindHeard
    <3>2. toSubs[1] = last => subs'[i].st = buddies[id].st
      BY <1>1, <2>1
    <3>. QED BY <2>0, <2>1, <3>1, <3>2
  <2>2. CASE /\ toSubs[1].id # id \/ toSubs[1].m = "added"
             /\ \E k \in DOMAIN subs : subs[k].id = id /\ subs'[i].st = subs[k].st
    <3>1. PICK k \in DOMAIN subs : subs[k].id = id /\ subs'[i].st = subs[k].st
      BY <2>2
    <3>2. \/ subs[k].st = buddies[id].st \/ InPost(id)
          \/ \E j \in DOMAIN toSubs : toSubs[j] = last
          \/ \E j \in DOMAIN subCalls : subCalls[j] = last
      BY <1>1, <3>1 DEF BehindHeard
    <3>3. toSubs[1] # last
      BY <1>1, <2>2
    <3>. QED BY <2>0, <3>1, <3>2, <3>3
  <2>. QED BY <1>3, <2>1, <2>2 DEF ShownStill
<1>. QED BY <1>1, <1>2, <1>3 DEF BehindHeard

(* Once the first message of id has been taken no reply is to come.        *)
LEMMA HeardFirst ==
  ASSUME SubTypes, EnteredOnce, toSubs # <<>>, toSubs[1].m = "state"
  PROVE  ~Announced(toSubs[1].id)
<1>1. SUFFICES ASSUME NEW i \in DOMAIN toSubs, toSubs[i].m = "added",
                      toSubs[i].id = toSubs[1].id
               PROVE  FALSE
  BY DEF Announced
<1>2. 1 \in DOMAIN toSubs /\ i \in Nat /\ i >= 1
  BY ArrivalTaken DEF SubTypes
<1>3. i <= 1
  BY <1>1, <1>2 DEF EnteredOnce
<1>. QED BY <1>1, <1>2, <1>3

(* What all messages have in common.                                       *)
LEMMA TakenKeeps ==
  ASSUME SubInv, toSubs # <<>>, toSubs' = Tail(toSubs),
         UNCHANGED <<known, subEngine, notifying, subCalls, savedSubs>>,
         subs' \in Seq(Entries), subSaveDue' \in BOOLEAN,
         \A i \in DOMAIN subs' :
           \/ \E k \in DOMAIN subs : subs'[i].id = subs[k].id /\ subs'[i].acc = subs[k].acc
           \/ /\ toSubs[1].m = "added"
              /\ subs'[i].id = toSubs[1].id /\ subs'[i].acc = toSubs[1].acc,
         \A i, j \in DOMAIN subs' : subs'[i].id = subs'[j].id => i = j,
         \A id \in SubIds : Entered(id) => Entered(id)' \/ toSubs[1] = SubState(id, "destroyed"),
         toSubs[1].m = "added" => \E i \in DOMAIN subs' : subs'[i].id = toSubs[1].id,
         \A id \in SubIds : toSubs[1] = SubState(id, "destroyed") => ~Entered(id)',
         \A id \in DOMAIN buddies : ShownStill(id)
  PROVE  SubInv'
<1>. DEFINE r == toSubs[1]
<1>1. /\ SubTypes /\ IdsGiven /\ EnteredOnce /\ EndHeard /\ AccountKept /\ HeardLast
      /\ known' = known /\ notifying' = notifying /\ subCalls' = subCalls
      /\ savedSubs' = savedSubs /\ buddies' = buddies /\ nextSubscrId' = nextSubscrId
  BY DEF SubInv, subEngine
<1>2. /\ r \in SubArrivals /\ r.id \in SubIds /\ r.m \in {"state", "added"}
      /\ 1 \in DOMAIN toSubs /\ toSubs' \in Seq(SubArrivals)
      /\ \A i \in DOMAIN toSubs' : /\ i + 1 \in DOMAIN toSubs /\ i \in Nat /\ i >= 1
                                   /\ toSubs'[i] = toSubs[i + 1] /\ i + 1 # 1
      /\ \A i \in DOMAIN toSubs : i = 1 \/ (i > 1 /\ i - 1 \in DOMAIN toSubs'
                                      /\ toSubs'[i - 1] = toSubs[i])
      /\ \A id : EndIn(toSubs, id) <=>
           EndIn(toSubs', id) \/ r = SubState(id, "destroyed")
      /\ \A i \in DOMAIN toSubs : i \in Nat /\ toSubs[i].id \in SubIds
  <2>1. \A i \in DOMAIN toSubs' : i \in Nat /\ i >= 1 => i + 1 # 1
    OBVIOUS
  <2>2. \A i \in DOMAIN toSubs : toSubs[i].id \in SubIds
    BY <1>1, TypesOf
  <2>. QED BY <1>1, <2>1, <2>2, ArrivalTaken, SubKinds
<1>. HIDE DEF r
<1>3. SubTypes'
  BY <1>1, <1>2 DEF SubTypes
<1>4. IdsGiven'
  <2>1. \A i \in DOMAIN subs' : subs'[i].id < nextSubscrId
    BY <1>1, <1>2 DEF IdsGiven, r
  <2>2. \A i \in DOMAIN toSubs' : toSubs'[i].id < nextSubscrId
    BY <1>1, <1>2 DEF IdsGiven
  <2>. QED BY <1>1, <2>1, <2>2 DEF IdsGiven
<1>5. \A id \in SubIds : Announced(id) => Announced(id)' \/ (r.m = "added" /\ r.id = id)
  <2>1. ASSUME NEW id \in SubIds, Announced(id), ~(r.m = "added" /\ r.id = id)
        PROVE  Announced(id)'
    <3>1. PICK i \in DOMAIN toSubs : toSubs[i].m = "added" /\ toSubs[i].id = id
      BY <2>1 DEF Announced
    <3>2. i # 1
      BY <2>1, <3>1 DEF r
    <3>3. i - 1 \in DOMAIN toSubs' /\ toSubs'[i - 1] = toSubs[i]
      BY <1>2, <3>2
    <3>. QED BY <3>1, <3>3 DEF Announced
  <2>. QED BY <2>1
<1>6. \A id \in SubIds : Announced(id)' => Announced(id)
  BY <1>2 DEF Announced
<1>7. ASSUME NEW i \in DOMAIN toSubs', toSubs'[i].m = "added"
      PROVE  /\ \A h \in DOMAIN subs' : subs'[h].id # toSubs'[i].id
             /\ \A j \in DOMAIN toSubs' : toSubs'[j].id = toSubs'[i].id => i <= j
             /\ \A j \in DOMAIN toSubs' :
                  toSubs'[j].m = "added" /\ toSubs'[j].id = toSubs'[i].id => i = j
  <2>1. PICK k \in DOMAIN toSubs : k = i + 1 /\ toSubs'[i] = toSubs[k] /\ k # 1 /\ i \in Nat
    BY <1>2
  <2>2. /\ ~Entered(toSubs[k].id)
        /\ \A j \in DOMAIN toSubs : toSubs[j].id = toSubs[k].id => k <= j
        /\ \A j \in DOMAIN toSubs :
             toSubs[j].m = "added" /\ toSubs[j].id = toSubs[k].id => k = j
    BY <1>1, <1>7, <2>1 DEF EnteredOnce
  <2>3. toSubs[1].id # toSubs[k].id
    <3>1. k > 1
      BY <2>1, <1>2
    <3>. QED BY <1>2, <2>2, <3>1
  <2>4. \A h \in DOMAIN subs' : subs'[h].id # toSubs[k].id
    BY <2>2, <2>3 DEF Entered
  <2>5. ASSUME NEW j \in DOMAIN toSubs', toSubs'[j].id = toSubs'[i].id
        PROVE  i <= j /\ (toSubs'[j].m = "added" => i = j)
    <3>1. j + 1 \in DOMAIN toSubs /\ toSubs'[j] = toSubs[j + 1] /\ j \in Nat
      BY <1>2
    <3>2. k <= j + 1 /\ (toSubs[j + 1].m = "added" => k = j + 1)
      BY <2>1, <2>2, <2>5, <3>1
    <3>. QED BY <2>1, <3>1, <3>2
  <2>. QED BY <2>1, <2>4, <2>5
<1>8. EnteredOnce'
  BY <1>7 DEF EnteredOnce, Entered
<1>9. EndHeard'
  <2>1. ASSUME NEW id \in DOMAIN buddies
        PROVE  /\ Entered(id)' \/ Announced(id)'
               /\ ~EndIn(toSubs', id) /\ ~EndIn(subCalls, id)
    <3>1. /\ Entered(id) \/ Announced(id)
          /\ ~EndIn(toSubs, id) /\ ~EndIn(subCalls, id) /\ id \in SubIds
      BY <1>1 DEF EndHeard, SubTypes
    <3>2. r # SubState(id, "destroyed")
      BY <1>2, <3>1
    <3>3. Announced(id) => Announced(id)' \/ Entered(id)'
      <4>1. r.m = "added" /\ r.id = id => Entered(id)'
        BY DEF r, Entered
      <4>. QED BY <1>5, <3>1, <4>1
    <3>. QED BY <1>2, <3>1, <3>2, <3>3 DEF r
  <2>2. ASSUME NEW id \in SubIds \ DOMAIN buddies, Entered(id)' \/ Announced(id)'
        PROVE  EndIn(toSubs', id) \/ EndIn(subCalls, id)
    <3>1. Entered(id) \/ Announced(id)
      <4>1. ASSUME Entered(id)' PROVE Entered(id) \/ Announced(id)
        <5>1. PICK i \in DOMAIN subs' : subs'[i].id = id
          BY <4>1 DEF Entered
        <5>2. CASE \E k \in DOMAIN subs : subs'[i].id = subs[k].id
          BY <5>1, <5>2 DEF Entered
        <5>3. CASE toSubs[1].m = "added" /\ subs'[i].id = toSubs[1].id
          BY <1>2, <5>1, <5>3 DEF Announced
        <5>. QED BY <5>2, <5>3
      <4>. QED BY <1>6, <2>2, <4>1
    <3>2. EndIn(toSubs, id) \/ EndIn(subCalls, id)
      BY <1>1, <3>1 DEF EndHeard
    <3>3. r # SubState(id, "destroyed")
      <4>1. ASSUME r = SubState(id, "destroyed") PROVE FALSE
        <5>1. ~Entered(id)' /\ ~Announced(id)
          <6>1. r.m = "state" /\ r.id = id
            BY <4>1, StateIs
          <6>. QED BY <1>1, <4>1, <6>1, HeardFirst DEF r
        <5>. QED BY <1>6, <2>2, <5>1
      <4>. QED BY <4>1
    <3>. QED BY <1>2, <3>2, <3>3
  <2>. QED BY <1>1, <2>1, <2>2 DEF EndHeard
<1>10. AccountKept'
  <2>1. \A i \in DOMAIN subs' : /\ subs'[i].acc \in known
                                /\ subs'[i].id \in DOMAIN buddies =>
                                     buddies[subs'[i].id].acc = subs'[i].acc
    <3>1. ASSUME NEW i \in DOMAIN subs'
          PROVE  /\ subs'[i].acc \in known
                 /\ subs'[i].id \in DOMAIN buddies => buddies[subs'[i].id].acc = subs'[i].acc
      BY <1>1, <1>2 DEF AccountKept
    <3>. QED BY <3>1
  <2>2. \A i \in DOMAIN toSubs' : toSubs'[i].m = "added" =>
          /\ toSubs'[i].acc \in known
          /\ toSubs'[i].id \in DOMAIN buddies => buddies[toSubs'[i].id].acc = toSubs'[i].acc
    BY <1>1, <1>2 DEF AccountKept
  <2>. QED BY <1>1, <2>1, <2>2 DEF AccountKept
<1>11. HeardLast'
  <2>1. ASSUME NEW id \in DOMAIN buddies', buddies'[id].st # "none"
        PROVE  BehindHeard(id)'
    BY <1>1, <2>1, BehindTaken DEF HeardLast
  <2>. QED BY <1>1, <2>1 DEF HeardLast
<1>. QED BY <1>3, <1>4, <1>8, <1>9, <1>10, <1>11 DEF SubInv

(* The place of the subscription a message is about: it is there once.     *)
LEMMA PlaceOf ==
  ASSUME SubTypes, EnteredOnce
  PROVE  LET id == Head(toSubs).id
             at == SelectInSeq(subs, LAMBDA s : s.id = id) IN
         \/ at = 0 /\ ~Entered(id)
         \/ at \in DOMAIN subs /\ subs[at].id = id /\ at # 0
<1>. DEFINE id == Head(toSubs).id
            I == {i \in 1..Len(subs) : subs[i].id = id}
            at == SelectInSeq(subs, LAMBDA s : s.id = id)
<1>1. at = IF I # {} THEN Min(I) ELSE 0
  BY DEF SelectInSeq
<1>2. subs \in Seq(Entries) /\ DOMAIN subs = 1..Len(subs) /\ Len(subs) \in Nat
  BY DEF SubTypes
<1>3. CASE I = {}
  BY <1>1, <1>2, <1>3 DEF Entered
<1>4. CASE I # {}
  <2>1. PICK i \in I : TRUE
    BY <1>4
  <2>2. i \in Nat /\ i <= i /\ \A j \in I : j = i
    BY <1>2 DEF EnteredOnce
  <2>3. Min(I) \in I
    BY <2>1, <2>2 DEF Min
  <2>4. \A k \in I : k \in DOMAIN subs /\ subs[k].id = id /\ k # 0
    BY <1>2
  <2>. QED BY <1>1, <1>4, <2>3, <2>4
<1>. QED BY <1>3, <1>4

(* What Dart does with a message.                                          *)
LEMMA DartKeeps ==
  ASSUME SubInv, SubDart PROVE SubInv'
<1>. DEFINE r == Head(toSubs)
            at == SelectInSeq(subs, LAMBDA s : s.id = r.id)
            entry == [id |-> r.id, acc |-> r.acc, st |-> "created"]
<1>1. /\ SubTypes /\ IdsGiven /\ EnteredOnce /\ EndHeard /\ AccountKept /\ HeardLast
      /\ toSubs # <<>> /\ toSubs' = Tail(toSubs) /\ savedSubs' = savedSubs
      /\ UNCHANGED <<known, subEngine, notifying, subCalls, savedSubs>>
      /\ subs \in Seq(Entries) /\ subSaveDue \in BOOLEAN
  BY DEF SubInv, SubDart, SubTypes
<1>2. /\ toSubs[1] = r /\ r \in SubArrivals /\ 1 \in DOMAIN toSubs
      /\ r.m = "state" => r \in SubEvents
      /\ r.m = "added" => r \in SubReplies
      /\ r.id \in SubIds
  BY <1>1, ArrivalTaken, SubKinds
<1>3. \/ /\ r.m = "added"
         /\ subs' = Append(subs, entry)
         /\ subSaveDue' = (subSaveDue \/ ~r.load)
      \/ /\ r.m = "state" /\ at = 0 /\ subs' = subs /\ subSaveDue' = subSaveDue
      \/ /\ r.m = "state" /\ at # 0 /\ r.st = "destroyed"
         /\ subs' = RemoveAt(subs, at) /\ subSaveDue' = TRUE
      \/ /\ r.m = "state" /\ at # 0 /\ r.st # "destroyed"
         /\ subs' = [subs EXCEPT ![at].st = r.st] /\ subSaveDue' = subSaveDue
  BY DEF SubDart
<1>4. \A i \in DOMAIN subs : /\ subs[i] \in Entries /\ subs[i].id \in SubIds
                             /\ subs[i].acc \in SubAccs /\ subs[i].st \in Reported
  BY <1>1, TypesOf
<1>5. CASE r.m = "added"
  <2>1. subs' = Append(subs, entry) /\ subSaveDue' \in BOOLEAN
    BY <1>1, <1>2, <1>3, <1>5
  <2>2. entry \in Entries /\ entry.id = r.id /\ entry.acc = r.acc /\ entry.st = "created"
    BY <1>2, <1>5 DEF Entries, SubReplies, Reported
  <2>. HIDE DEF entry
  <2>3. /\ Append(subs, entry) \in Seq(Entries)
        /\ \A i \in DOMAIN subs : i \in DOMAIN subs' /\ subs'[i] = subs[i]
        /\ Len(subs) + 1 \in DOMAIN subs' /\ subs'[Len(subs) + 1] = entry
        /\ \A i \in DOMAIN subs' : i \in DOMAIN subs \/ i = Len(subs) + 1
    BY <1>1, <2>1, <2>2, AppendOf
  <2>4. \A i \in DOMAIN subs : subs[i].id # r.id
    BY <1>1, <1>2, <1>5 DEF EnteredOnce, Entered
  <2>5. ASSUME NEW i \in DOMAIN subs'
        PROVE  \/ \E k \in DOMAIN subs : subs'[i].id = subs[k].id /\ subs'[i].acc = subs[k].acc
               \/ /\ toSubs[1].m = "added"
                  /\ subs'[i].id = toSubs[1].id /\ subs'[i].acc = toSubs[1].acc
    BY <1>2, <1>5, <2>2, <2>3
  <2>6. ASSUME NEW i \in DOMAIN subs', NEW j \in DOMAIN subs', subs'[i].id = subs'[j].id
        PROVE  i = j
    BY <1>1, <2>2, <2>3, <2>4, <2>6 DEF EnteredOnce
  <2>7. \A id \in SubIds : Entered(id) => Entered(id)' \/ toSubs[1] = SubState(id, "destroyed")
    BY <2>3 DEF Entered
  <2>8. \E i \in DOMAIN subs' : subs'[i].id = toSubs[1].id
    BY <1>2, <2>2, <2>3
  <2>9. \A id \in SubIds : toSubs[1] = SubState(id, "destroyed") => ~Entered(id)'
    BY <1>2, <1>5, StateIs
  <2>10. ASSUME NEW id \in DOMAIN buddies PROVE ShownStill(id)
    BY <1>2, <1>5, <2>2, <2>3 DEF ShownStill
  <2>. QED BY <1>1, <2>1, <2>3, <2>5, <2>6, <2>7, <2>8, <2>9, <2>10, TakenKeeps
<1>. HIDE DEF entry
<1>6. ASSUME r.m = "state"
      PROVE  /\ r.st \in SubStates /\ r = SubState(r.id, r.st)
             /\ \/ at = 0 /\ ~Entered(r.id)
                \/ at \in DOMAIN subs /\ subs[at].id = r.id /\ at # 0
  <2>1. r.st \in SubStates /\ r = SubState(r.id, r.st)
    BY <1>2, <1>6, SubKinds DEF SubEvents
  <2>2. \/ at = 0 /\ ~Entered(r.id)
        \/ at \in DOMAIN subs /\ subs[at].id = r.id /\ at # 0
    BY <1>1, PlaceOf
  <2>. QED BY <2>1, <2>2
<1>. HIDE DEF r, at
<1>7. CASE r.m = "state" /\ at = 0
  <2>1. subs' = subs /\ subSaveDue' = subSaveDue /\ ~Entered(r.id)
    BY <1>3, <1>6, <1>7
  <2>2. \A i \in DOMAIN subs : subs[i].id # r.id
    BY <2>1 DEF Entered
  <2>3. \A id \in SubIds : Entered(id)' <=> Entered(id)
    BY <2>1 DEF Entered
  <2>4. \A id \in SubIds : toSubs[1] = SubState(id, "destroyed") => ~Entered(id)'
    BY <1>2, <2>1, <2>3, StateIs
  <2>5. ASSUME NEW id \in DOMAIN buddies PROVE ShownStill(id)
    BY <1>2, <2>1, <2>2 DEF ShownStill
  <2>6. \A i, j \in DOMAIN subs' : subs'[i].id = subs'[j].id => i = j
    BY <1>1, <2>1 DEF EnteredOnce
  <2>7. toSubs[1].m # "added"
    BY <1>2, <1>7
  <2>. QED BY <1>1, <2>1, <2>3, <2>4, <2>5, <2>6, <2>7, TakenKeeps
<1>8. CASE r.m = "state" /\ at # 0 /\ r.st = "destroyed"
  <2>. DEFINE f(k) == IF k < at THEN k ELSE k + 1
  <2>1. /\ subs' = RemoveAt(subs, at) /\ subSaveDue' = TRUE
        /\ at \in DOMAIN subs /\ subs[at].id = r.id /\ r = SubState(r.id, "destroyed")
    BY <1>3, <1>6, <1>8
  <2>2. /\ subs' \in Seq(Entries) /\ DOMAIN subs' = 1..Len(subs) - 1
        /\ \A k \in 1..Len(subs) - 1 : subs'[k] = IF k < at THEN subs[k] ELSE subs[k + 1]
    BY <1>1, <2>1, Removed
  <2>3. at \in Nat /\ Len(subs) \in Nat /\ at >= 1 /\ at <= Len(subs)
        /\ DOMAIN subs = 1..Len(subs)
    BY <1>1, <2>1
  <2>4. \A k \in DOMAIN subs' : f(k) \in DOMAIN subs /\ f(k) # at /\ k \in Nat
    BY <1>2, <2>2, <2>3
  <2>5. \A k \in DOMAIN subs' : subs'[k] = subs[f(k)]
    BY <2>2
  <2>6. \A k, l \in DOMAIN subs' : f(k) = f(l) => k = l
    BY <1>2, <2>2, <2>3
  <2>7. ASSUME NEW k \in DOMAIN subs, k # at
        PROVE  \E l \in DOMAIN subs' : f(l) = k
    <3>1. CASE k < at
      <4>1. k \in DOMAIN subs' /\ f(k) = k
        BY <2>2, <2>3, <2>7, <3>1
      <4>. QED BY <4>1
    <3>2. CASE ~(k < at)
      <4>1. k - 1 \in DOMAIN subs' /\ f(k - 1) = k
        BY <2>2, <2>3, <2>7, <3>2
      <4>. QED BY <4>1
    <3>. QED BY <3>1, <3>2
  <2>. HIDE DEF f
  <2>8. \A k \in DOMAIN subs' : subs'[k].id # r.id
    BY <1>1, <2>1, <2>4, <2>5 DEF EnteredOnce
  <2>9. ASSUME NEW i \in DOMAIN subs'
        PROVE  \E k \in DOMAIN subs : subs'[i].id = subs[k].id /\ subs'[i].acc = subs[k].acc
                                      /\ subs'[i].st = subs[k].st
    BY <2>4, <2>5
  <2>10. ASSUME NEW i \in DOMAIN subs', NEW j \in DOMAIN subs', subs'[i].id = subs'[j].id
         PROVE  i = j
    <3>1. f(i) = f(j)
      BY <1>1, <2>4, <2>5, <2>10 DEF EnteredOnce
    <3>. QED BY <2>6, <3>1
  <2>11. ASSUME NEW id \in SubIds, Entered(id), id # r.id PROVE Entered(id)'
    <3>1. PICK k \in DOMAIN subs : subs[k].id = id
      BY <2>11 DEF Entered
    <3>2. PICK l \in DOMAIN subs' : f(l) = k
      BY <2>1, <2>7, <2>11, <3>1
    <3>3. subs'[l].id = id
      BY <2>5, <3>1, <3>2
    <3>. QED BY <3>3 DEF Entered
  <2>12. \A id \in SubIds : Entered(id) => Entered(id)' \/ toSubs[1] = SubState(id, "destroyed")
    BY <1>2, <2>1, <2>11
  <2>13. \A id \in SubIds : toSubs[1] = SubState(id, "destroyed") => ~Entered(id)'
    BY <1>2, <2>8, StateIs DEF Entered
  <2>14. ASSUME NEW id \in DOMAIN buddies PROVE ShownStill(id)
    BY <1>2, <2>8, <2>9 DEF ShownStill
  <2>15. toSubs[1].m # "added" /\ subSaveDue' \in BOOLEAN
    BY <1>2, <1>8, <2>1
  <2>. QED BY <1>1, <2>2, <2>9, <2>10, <2>12, <2>13, <2>14, <2>15, TakenKeeps
<1>9. CASE r.m = "state" /\ at # 0 /\ r.st # "destroyed"
  <2>1. /\ subs' = [subs EXCEPT ![at].st = r.st] /\ subSaveDue' = subSaveDue
        /\ at \in DOMAIN subs /\ subs[at].id = r.id /\ r = SubState(r.id, r.st)
        /\ r.st \in Reported
    BY <1>3, <1>6, <1>9 DEF SubStates, Reported
  <2>2. PICK y : y = [subs[at] EXCEPT !.st = r.st]
    OBVIOUS
  <2>3. y \in Entries /\ y.id = r.id /\ y.acc = subs[at].acc /\ y.st = r.st
    <3>1. subs[at] \in Entries
      BY <1>4, <2>1
    <3>. QED BY <2>1, <2>2, <3>1 DEF Entries
  <2>4. DOMAIN subs' = DOMAIN subs
        /\ \A i \in DOMAIN subs : subs'[i] = IF i = at THEN y ELSE subs[i]
    BY <2>1, <2>2
  <2>5. subs' \in Seq(Entries)
    <3>1. subs' = [subs EXCEPT ![at] = y]
      BY <2>1, <2>2
    <3>. QED BY <1>1, <2>1, <2>3, <3>1
  <2>6. \A i \in DOMAIN subs : subs'[i].id = subs[i].id /\ subs'[i].acc = subs[i].acc
    BY <2>1, <2>3, <2>4
  <2>7. \A id \in SubIds : Entered(id)' <=> Entered(id)
    BY <2>4, <2>6 DEF Entered
  <2>8. \A i, j \in DOMAIN subs' : subs'[i].id = subs'[j].id => i = j
    BY <1>1, <2>4, <2>6 DEF EnteredOnce
  <2>9. \A id \in SubIds : toSubs[1] = SubState(id, "destroyed") => ~Entered(id)'
    BY <1>2, <1>9, StateIs
  <2>10. ASSUME NEW id \in DOMAIN buddies PROVE ShownStill(id)
    <3>1. ASSUME NEW i \in DOMAIN subs', subs'[i].id = id
          PROVE  \/ r.id = id /\ r.m = "state" /\ subs'[i].st = r.st
                 \/ /\ r.id # id
                    /\ \E k \in DOMAIN subs : subs[k].id = id /\ subs'[i].st = subs[k].st
      <4>1. CASE i = at
        BY <1>9, <2>1, <2>3, <2>4, <3>1, <4>1
      <4>2. CASE i # at
        BY <1>1, <2>1, <2>4, <3>1, <4>2 DEF EnteredOnce
      <4>. QED BY <4>1, <4>2
    <3>. QED BY <1>2, <3>1 DEF ShownStill
  <2>11. toSubs[1].m # "added" /\ subSaveDue' \in BOOLEAN
    BY <1>2, <1>1, <1>9, <2>1
  <2>. QED BY <1>1, <2>4, <2>5, <2>6, <2>7, <2>8, <2>9, <2>10, <2>11, TakenKeeps
<1>. QED BY <1>2, <1>3, <1>5, <1>7, <1>8, <1>9

-----------------------------------------------------------------------------
(* The settings, accounts and restarts.                                    *)

LEMMA SubSaveKeeps ==
  ASSUME SubInv, SubSave PROVE SubInv'
<1>1. /\ UNCHANGED <<known, buddies, nextSubscrId, notifying, subCalls, toSubs, subs>>
      /\ savedSubs' = [i \in DOMAIN subs |-> subs[i].acc] /\ subSaveDue' = FALSE
  BY DEF SubSave, subEngine
<1>2. \A i \in DOMAIN subs : subs[i].acc \in SubAccs /\ subs[i].acc \in known
  BY TypesOf DEF SubInv, AccountKept
<1>3. savedSubs' \in Seq(SubAccs) /\ \A i \in DOMAIN savedSubs' : savedSubs'[i] \in known
  <2>1. DOMAIN subs = 1..Len(subs) /\ Len(subs) \in Nat
    BY DEF SubInv, SubTypes
  <2>2. savedSubs' \in [1..Len(subs) -> SubAccs]
    BY <1>1, <1>2, <2>1
  <2>. QED BY <1>1, <1>2, <2>1, <2>2
<1>4. SubTypes'
  BY <1>1, <1>3 DEF SubInv, SubTypes
<1>5. IdsGiven' /\ EnteredOnce' /\ EndHeard'
  BY <1>1 DEF SubInv, IdsGiven, EnteredOnce, EndHeard, Entered, Announced
<1>6. AccountKept'
  BY <1>1, <1>3 DEF SubInv, AccountKept
<1>7. HeardLast'
  BY <1>1 DEF SubInv, HeardLast, BehindHeard, LastHeard, InPost
<1>. QED BY <1>4, <1>5, <1>6, <1>7 DEF SubInv

(* Only an account nothing refers to is deleted.                           *)
LEMMA SubDeletedKeeps ==
  ASSUME ~AccountGone, SubInv, NEW acc, AccountDeleted(acc) PROVE SubInv'
<1>1. /\ UNCHANGED <<buddies, nextSubscrId, notifying, subCalls, toSubs, subs,
                     subSaveDue, savedSubs>>
      /\ known' = known \ {acc} /\ SubRest
      /\ acc \notin {s.acc : s \in Range(subs)} \cup Range(savedSubs)
  BY DEF AccountDeleted, subEngine, subModel
<1>2. subCalls = <<>> /\ toSubs = <<>>
  <2>1. subCalls \in Seq(SubBlocks) /\ toSubs \in Seq(SubArrivals)
    BY DEF SubInv, SubTypes
  <2>2. subCalls \o toSubs = <<>>
    BY <1>1 DEF SubRest
  <2>. QED BY <2>1, <2>2
<1>3. /\ \A i \in DOMAIN subs : subs[i].acc # acc
      /\ \A i \in DOMAIN savedSubs : savedSubs[i] # acc
  <2>1. /\ \A i \in DOMAIN subs : subs[i] \in Range(subs)
        /\ \A i \in DOMAIN savedSubs : savedSubs[i] \in Range(savedSubs)
    BY DEF Range
  <2>. QED BY <1>1, <2>1
<1>4. SubTypes' /\ IdsGiven' /\ EnteredOnce' /\ EndHeard'
  BY <1>1 DEF SubInv, SubTypes, IdsGiven, EnteredOnce, EndHeard, Entered, Announced
<1>5. AccountKept'
  <2>1. DOMAIN subCalls = {} /\ DOMAIN toSubs = {}
    BY <1>2
  <2>. QED BY <1>1, <1>3, <2>1 DEF SubInv, AccountKept
<1>6. HeardLast'
  BY <1>1 DEF SubInv, HeardLast, BehindHeard, LastHeard, InPost
<1>. QED BY <1>4, <1>5, <1>6 DEF SubInv

(* A new process asks for what was saved.                                  *)
LEMMA SubRestartKeeps ==
  ASSUME SubInv, SubRestart PROVE SubInv'
<1>1. /\ buddies' = [id \in {} |-> 0] /\ nextSubscrId' = 1 /\ notifying' = {}
      /\ subCalls' = [i \in DOMAIN savedSubs |-> AddSub(savedSubs[i], TRUE)]
      /\ toSubs' = <<>> /\ subs' = <<>> /\ subSaveDue' = FALSE
      /\ known' = known /\ savedSubs' = savedSubs
      /\ savedSubs \in Seq(SubAccs) /\ known \subseteq SubAccs
  BY DEF SubRestart, SubInv, SubTypes
<1>2. DOMAIN buddies' = {} /\ DOMAIN toSubs' = {} /\ DOMAIN subs' = {}
  BY <1>1
<1>3. /\ subCalls' \in Seq(SubBlocks)
      /\ \A i \in DOMAIN subCalls' : /\ subCalls'[i].m = "add" /\ i \in DOMAIN savedSubs
                                     /\ subCalls'[i].acc = savedSubs[i]
  <2>1. \A i \in DOMAIN savedSubs : /\ AddSub(savedSubs[i], TRUE) \in SubBlocks
                                    /\ AddSub(savedSubs[i], TRUE).m = "add"
                                    /\ AddSub(savedSubs[i], TRUE).acc = savedSubs[i]
    BY <1>1 DEF AddSub, SubBlocks, SubAdds
  <2>2. DOMAIN savedSubs = 1..Len(savedSubs) /\ Len(savedSubs) \in Nat
    BY <1>1
  <2>3. subCalls' \in [1..Len(savedSubs) -> SubBlocks]
    BY <1>1, <2>1, <2>2
  <2>4. subCalls' \in Seq(SubBlocks)
    BY <2>2, <2>3
  <2>5. \A i \in DOMAIN subCalls' : i \in DOMAIN savedSubs /\ subCalls'[i] = AddSub(savedSubs[i], TRUE)
    BY <1>1
  <2>. QED BY <2>1, <2>4, <2>5
<1>4. SubTypes'
  <2>1. buddies' \in [DOMAIN buddies' -> Buddy] /\ DOMAIN buddies' \subseteq SubIds
    BY <1>1
  <2>2. 1 \in 1..MaxSubs + 1
    BY SubAssumption
  <2>3. subs' \in Seq(Entries) /\ toSubs' \in Seq(SubArrivals)
    BY <1>1
  <2>. QED BY <1>1, <1>3, <2>1, <2>2, <2>3 DEF SubTypes
<1>5. IdsGiven'
  BY <1>1, <1>2, <1>3 DEF IdsGiven
<1>6. EnteredOnce'
  BY <1>1, <1>2 DEF EnteredOnce
<1>7. EndHeard'
  BY <1>2 DEF EndHeard, Entered, Announced
<1>8. AccountKept'
  BY <1>1, <1>2, <1>3 DEF AccountKept, SubInv
<1>9. HeardLast'
  BY <1>1, <1>2 DEF HeardLast
<1>. QED BY <1>4, <1>5, <1>6, <1>7, <1>8, <1>9 DEF SubInv

LEMMA SubBegins == SubInit => SubInv
<1>. SUFFICES ASSUME SubInit PROVE SubInv
  OBVIOUS
<1>1. /\ known = SubAccs /\ buddies = [id \in {} |-> 0] /\ nextSubscrId = 1
      /\ notifying = {} /\ subCalls = <<>> /\ toSubs = <<>>
      /\ subs = <<>> /\ subSaveDue = FALSE /\ savedSubs = <<>>
  BY DEF SubInit
<1>2. /\ DOMAIN buddies = {} /\ DOMAIN toSubs = {} /\ DOMAIN subs = {}
      /\ DOMAIN subCalls = {} /\ DOMAIN savedSubs = {}
  BY <1>1
<1>3. SubTypes
  <2>1. buddies \in [DOMAIN buddies -> Buddy] /\ DOMAIN buddies \subseteq SubIds
    BY <1>1
  <2>2. 1 \in 1..MaxSubs + 1
    BY SubAssumption
  <2>3. /\ subs \in Seq(Entries) /\ toSubs \in Seq(SubArrivals)
        /\ subCalls \in Seq(SubBlocks) /\ savedSubs \in Seq(SubAccs)
    BY <1>1
  <2>. QED BY <1>1, <2>1, <2>2, <2>3 DEF SubTypes
<1>. QED BY <1>1, <1>2, <1>3
         DEF SubInv, IdsGiven, EnteredOnce, EndHeard, Entered, Announced, AccountKept, HeardLast

LEMMA SubStep == ~AccountGone /\ SubInv /\ [SubNext]_svars => SubInv'
<1>. SUFFICES ASSUME ~AccountGone, SubInv, [SubNext]_svars PROVE SubInv'
  OBVIOUS
<1>0. SubTypes
  BY DEF SubInv
<1>1. CASE SubMain
  <2>1. /\ subCalls # <<>> /\ UNCHANGED <<known, notifying, subModel>>
        /\ \/ Head(subCalls).m = "add" /\ nextSubscrId <= MaxSubs /\ SubscrCreate(Head(subCalls))
           \/ Head(subCalls).m = "delete" /\ SubscrDestroy(Head(subCalls))
           \/ /\ Head(subCalls).m = "state"
              /\ toSubs' = Append(toSubs, Head(subCalls)) /\ subCalls' = Tail(subCalls)
              /\ UNCHANGED subEngine
    BY <1>1 DEF SubMain
  <2>. QED BY <2>1, CreateKeeps, DestroyKeeps, StateSent
<1>2. CASE SubDart
  BY <1>2, DartKeeps
<1>3. CASE SubSave
  BY <1>3, SubSaveKeeps
<1>4. ASSUME NEW id \in DOMAIN buddies, OnBuddyState(id) PROVE SubInv'
  BY <1>4, BuddyKeeps
<1>5. ASSUME NEW n \in notifying, PostBuddyState(n) PROVE SubInv'
  <2>. DEFINE r == SubState(n.id, n.st)
  <2>1. n \in [id: SubIds, st: Reported] /\ notifying \subseteq [id: SubIds, st: Reported]
    BY <1>0 DEF SubTypes
  <2>2. r \in SubBlocks /\ r.m = "state" /\ r.id = n.id /\ r.st = n.st
    <3>1. r \in SubEvents
      BY <2>1, StateFits DEF Reported, SubStates
    <3>. QED BY <3>1, SubKinds, StateIs
  <2>3. \A k \in notifying : k.id = n.id /\ k.st = n.st => k = n
    BY <2>1
  <2>4. notifying' = notifying \ {k \in notifying : r.m = "state" /\ k.id = r.id /\ k.st = r.st}
    BY <1>5, <2>2, <2>3 DEF PostBuddyState
  <2>. QED BY <1>5, <2>2, <2>4, Requested DEF PostBuddyState
<1>6. ASSUME NEW acc \in SubAccs, AddSubscription(acc) PROVE SubInv'
  <2>. DEFINE r == AddSub(acc, FALSE)
  <2>1. r \in SubBlocks /\ r.m = "add" /\ r.acc = acc /\ acc \in known /\ SubSend(r)
    BY <1>6 DEF AddSub, SubBlocks, SubAdds, AddSubscription
  <2>. HIDE DEF r
  <2>. QED BY <2>1, Requested DEF SubSend
<1>7. ASSUME NEW i \in DOMAIN subs, DeleteSubscription(i) PROVE SubInv'
  <2>. DEFINE r == DelSub(subs[i].id)
  <2>1. r \in SubBlocks /\ r.m = "delete" /\ SubSend(r)
    <3>1. subs[i].id \in SubIds
      BY <1>0, TypesOf
    <3>. QED BY <1>7, <3>1 DEF DelSub, SubBlocks, SubDels, DeleteSubscription
  <2>. HIDE DEF r
  <2>. QED BY <2>1, Requested DEF SubSend
<1>8. ASSUME NEW acc \in SubAccs, AccountDeleted(acc) PROVE SubInv'
  BY <1>8, SubDeletedKeeps
<1>9. CASE SubRestart
  BY <1>9, SubRestartKeeps
<1>10. CASE UNCHANGED svars
  <2>1. UNCHANGED <<known, buddies, nextSubscrId, notifying, subCalls, toSubs, subs,
                    subSaveDue, savedSubs>>
    BY <1>10 DEF svars
  <2>2. SubTypes' /\ IdsGiven' /\ EnteredOnce' /\ AccountKept'
    BY <2>1 DEF SubInv, SubTypes, IdsGiven, EnteredOnce, Entered, AccountKept
  <2>3. EndHeard'
    BY <2>1 DEF SubInv, EndHeard, Entered, Announced
  <2>4. HeardLast'
    BY <2>1 DEF SubInv, HeardLast, BehindHeard, LastHeard, InPost
  <2>. QED BY <2>2, <2>3, <2>4 DEF SubInv
<1>. QED BY <1>1, <1>2, <1>3, <1>4, <1>5, <1>6, <1>7, <1>8, <1>9, <1>10 DEF SubNext

LEMMA SubAlways == ~AccountGone /\ SubSpec => []SubInv
<1>. SUFFICES ASSUME ~AccountGone PROVE SubSpec => []SubInv
  OBVIOUS
<1>. QED BY SubBegins, SubStep, PTL DEF SubSpec

(* At rest the list holds the subscriptions of the engine, each on the     *)
(* account it was made for and with the state last reported, whatever      *)
(* notification crossed its deletion.                                      *)
THEOREM SubscriptionsShown == ~AccountGone /\ SubSpec => []SubsShown
<1>1. SubInv => SubsShown
  <2>. SUFFICES ASSUME SubInv, SubRest
                PROVE  /\ Len(subs) = Cardinality(DOMAIN buddies)
                       /\ \A s \in Range(subs) :
                            /\ s.id \in DOMAIN buddies /\ buddies[s.id].acc = s.acc
                            /\ buddies[s.id].st \in {s.st, "none"}
    BY DEF SubsShown
  <2>1. /\ DOMAIN subCalls = {} /\ DOMAIN toSubs = {} /\ notifying = {}
        /\ subs \in Seq(Entries) /\ DOMAIN buddies \subseteq SubIds
        /\ DOMAIN subs = 1..Len(subs) /\ Len(subs) \in Nat
    <3>1. subCalls \in Seq(SubBlocks) /\ toSubs \in Seq(SubArrivals)
          /\ subs \in Seq(Entries) /\ DOMAIN buddies \subseteq SubIds
      BY DEF SubInv, SubTypes
    <3>2. subCalls \o toSubs = <<>> /\ notifying = {}
      BY DEF SubRest
    <3>3. subCalls = <<>> /\ toSubs = <<>>
      BY <3>1, <3>2
    <3>. QED BY <3>1, <3>2, <3>3
  <2>2. \A i \in DOMAIN subs : subs[i].id \in DOMAIN buddies
    <3>1. ASSUME NEW i \in DOMAIN subs, subs[i].id \notin DOMAIN buddies PROVE FALSE
      <4>1. subs[i].id \in SubIds /\ Entered(subs[i].id)
        BY TypesOf DEF SubInv, Entered
      <4>2. ~EndIn(toSubs, subs[i].id) /\ ~EndIn(subCalls, subs[i].id)
        BY <2>1 DEF EndIn
      <4>. QED BY <3>1, <4>1, <4>2 DEF SubInv, EndHeard
    <3>. QED BY <3>1
  <2>3. \A id \in DOMAIN buddies : \E i \in DOMAIN subs : subs[i].id = id
    BY <2>1 DEF SubInv, EndHeard, Entered, Announced
  <2>4. \A i, j \in DOMAIN subs : subs[i].id = subs[j].id => i = j
    BY DEF SubInv, EnteredOnce
  <2>5. Len(subs) = Cardinality(DOMAIN buddies)
    <3>. DEFINE f == [i \in 1..Len(subs) |-> subs[i].id]
    <3>1. f \in Bijection(1..Len(subs), DOMAIN buddies)
      BY <2>1, <2>2, <2>3, <2>4 DEF Bijection, Injection, Surjection, IsInjective
    <3>2. IsFiniteSet(1..Len(subs)) /\ Cardinality(1..Len(subs)) = Len(subs)
      <4>1. PICK n \in Nat : n = Len(subs)
        BY <2>1
      <4>2. IsFiniteSet(1..n) /\ Cardinality(1..n) = n
        BY FS_Interval
      <4>. QED BY <4>1, <4>2
    <3>. QED BY <3>1, <3>2, FS_Bijection DEF ExistsBijection
  <2>6. ASSUME NEW s \in Range(subs)
        PROVE  /\ s.id \in DOMAIN buddies /\ buddies[s.id].acc = s.acc
               /\ buddies[s.id].st \in {s.st, "none"}
    <3>1. PICK i \in DOMAIN subs : s = subs[i]
      BY DEF Range
    <3>2. s.id \in DOMAIN buddies /\ buddies[s.id].acc = s.acc
      BY <2>2, <3>1 DEF SubInv, AccountKept
    <3>3. ASSUME buddies[s.id].st # "none" PROVE s.st = buddies[s.id].st
      <4>1. BehindHeard(s.id)
        BY <3>2, <3>3 DEF SubInv, HeardLast
      <4>. QED BY <2>1, <3>1, <4>1 DEF BehindHeard, InPost
    <3>. QED BY <3>2, <3>3
  <2>. QED BY <2>5, <2>6
<1>. QED BY <1>1, SubAlways, PTL

-----------------------------------------------------------------------------
(* Recent calls.  A slot is free until Dart is done with its call, and the *)
(* record of a call that goes on is not removed by the user.               *)

SlotsKept == ~SlotsReused /\ ~LiveRemoved

CdrKinds   == {"invited", "incoming", "connected", "terminated"}
Beginnings == {"invited", "incoming"}
Endings    == [of: CdrCalls, found: CdrCalls]

CdrTypes ==
  /\ talk \in [CdrCalls -> {"none", "live", "gone"}]
  /\ slotOf \in [CdrCalls -> CdrSlots \cup {0}] /\ wasUp \subseteq CdrCalls
  /\ toCdrs \in Seq(Reports) /\ items \in Seq(CdrCalls)
  /\ endings \in Seq(Endings)
  /\ cdrItems \in Seq(Records) /\ Len(cdrItems) <= MaxCdrs

InItems(c)   == \E i \in DOMAIN items : items[i] = c
Coming(K, c) == \E i \in DOMAIN toCdrs : toCdrs[i].call = c /\ toCdrs[i].kind \in K
Ending(c)    == \E i \in DOMAIN endings : endings[i].of = c
Recorded(c)  == \E i \in DOMAIN cdrItems : cdrItems[i].call = c
Rank(kind)   == IF kind \in Beginnings THEN 0 ELSE IF kind = "connected" THEN 1 ELSE 2
Held(c)      == talk[c] = "live" \/ InItems(c) \/ Coming(CdrKinds, c)

(* Calls that are still used have slots of their own.                      *)
SlotsApart ==
  \A c, d \in CdrCalls : Held(c) /\ Held(d) /\ slotOf[c] = slotOf[d] => c = d

(* A call is told of once, then may be up once, then ends once.            *)
ToldInTurn ==
  /\ \A i, j \in DOMAIN toCdrs : i < j /\ toCdrs[i].call = toCdrs[j].call =>
       Rank(toCdrs[i].kind) < Rank(toCdrs[j].kind)
  /\ \A c \in CdrCalls : Coming({"connected"}, c) => c \in wasUp

(* What Dart has of a call, and what still comes.                          *)
CallFollowed(c) ==
  /\ talk[c] = "none" => ~Coming(CdrKinds, c) /\ ~InItems(c) /\ ~Recorded(c) /\ c \notin wasUp
  /\ Coming(Beginnings, c) => /\ ~InItems(c) /\ ~Recorded(c)
                              /\ c \in wasUp => Coming({"connected"}, c)
  /\ Coming(CdrKinds, c) \/ talk[c] = "live" => Coming(Beginnings, c) \/ InItems(c)
  /\ Coming({"terminated"}, c) => talk[c] = "gone"
  /\ talk[c] = "gone" /\ (Coming(Beginnings, c) \/ InItems(c)) =>
       Coming({"terminated"}, c) \/ Ending(c)
  /\ Ending(c) => talk[c] = "gone" /\ InItems(c) /\ ~Coming(CdrKinds, c)

ItemsOnce ==
  /\ \A i, j \in DOMAIN items : items[i] = items[j] => i = j
  /\ \A i \in DOMAIN endings : endings[i].of = endings[i].found
  /\ \A i, j \in DOMAIN endings : endings[i].of = endings[j].of => i = j

(* A record says how far its call has come, and lies before those of       *)
(* earlier calls with its slot.                                            *)
RecordSays(r) ==
  /\ r.ended = IF InItems(r.call) THEN Unended ELSE r.call
  /\ r.connected <=> (r.call \in wasUp /\ ~Coming({"connected"}, r.call))
RecordsOnce ==
  \A i, j \in DOMAIN cdrItems : cdrItems[i].call = cdrItems[j].call => i = j
NewestFirst ==
  \A c \in CdrCalls : InItems(c) =>
    \A i \in DOMAIN cdrItems : slotOf[cdrItems[i].call] = slotOf[c] =>
      \E k \in DOMAIN cdrItems : k <= i /\ cdrItems[k].call = c

CdrInv ==
  /\ CdrTypes /\ SlotsApart /\ ToldInTurn /\ (\A c \in CdrCalls : CallFollowed(c))
  /\ ItemsOnce /\ (\A i \in DOMAIN cdrItems : RecordSays(cdrItems[i]))
  /\ RecordsOnce /\ NewestFirst

LEMMA ReportIs ==
  /\ \A n \in Reports : /\ n.call \in CdrCalls /\ n.kind \in CdrKinds
                        /\ n.kind \in Beginnings \/ n.kind = "connected" \/ n.kind = "terminated"
                        /\ Rank(n.kind) \in 0..2
  /\ \A kind \in CdrKinds, c \in CdrCalls :
       Report(kind, c) \in Reports /\ Report(kind, c).call = c /\ Report(kind, c).kind = kind
  /\ {"connected"} \subseteq CdrKinds /\ {"terminated"} \subseteq CdrKinds
  /\ Beginnings \subseteq CdrKinds /\ CdrKinds \subseteq CdrKinds
  /\ \A kind \in Beginnings : Rank(kind) = 0
  /\ Rank("connected") = 1 /\ Rank("terminated") = 2
BY DEF Reports, Report, CdrKinds, Beginnings, Rank

LEMMA KindSets ==
  /\ {"connected"} \in SUBSET CdrKinds /\ {"terminated"} \in SUBSET CdrKinds
  /\ Beginnings \in SUBSET CdrKinds /\ CdrKinds \in SUBSET CdrKinds
  /\ "connected" \in CdrKinds \ Beginnings /\ "terminated" \in CdrKinds \ Beginnings
  /\ \A kind \in Beginnings : kind \notin {"connected"} /\ kind \notin {"terminated"}
  /\ "connected" \notin {"terminated"} /\ "terminated" \notin {"connected"}
BY DEF CdrKinds, Beginnings

LEMMA FieldsOf ==
  CdrTypes =>
    /\ \A i \in DOMAIN toCdrs : /\ toCdrs[i] \in Reports
                                /\ toCdrs[i].call \in CdrCalls /\ toCdrs[i].kind \in CdrKinds
    /\ \A i \in DOMAIN items : items[i] \in CdrCalls
    /\ \A i \in DOMAIN endings : endings[i].of \in CdrCalls /\ endings[i].found \in CdrCalls
    /\ \A i \in DOMAIN cdrItems : cdrItems[i] \in Records /\ cdrItems[i].call \in CdrCalls
<1>. SUFFICES ASSUME CdrTypes
              PROVE  /\ \A i \in DOMAIN toCdrs : /\ toCdrs[i] \in Reports
                                /\ toCdrs[i].call \in CdrCalls /\ toCdrs[i].kind \in CdrKinds
                     /\ \A i \in DOMAIN items : items[i] \in CdrCalls
                     /\ \A i \in DOMAIN endings : /\ endings[i].of \in CdrCalls
                                                   /\ endings[i].found \in CdrCalls
                     /\ \A i \in DOMAIN cdrItems : /\ cdrItems[i] \in Records
                                                    /\ cdrItems[i].call \in CdrCalls
  OBVIOUS
<1>1. /\ \A i \in DOMAIN toCdrs : toCdrs[i] \in Reports
      /\ \A i \in DOMAIN items : items[i] \in CdrCalls
      /\ \A i \in DOMAIN endings : endings[i] \in Endings
      /\ \A i \in DOMAIN cdrItems : cdrItems[i] \in Records
  BY DEF CdrTypes
<1>2. \A e \in Endings : e.of \in CdrCalls /\ e.found \in CdrCalls
  BY DEF Endings
<1>3. \A r \in Records : r.call \in CdrCalls
  BY DEF Records
<1>. QED BY <1>1, <1>2, <1>3, ReportIs

(* A message more, and one less.                                           *)
LEMMA MoreComing ==
  ASSUME CdrTypes, NEW n \in Reports, toCdrs' = Append(toCdrs, n)
  PROVE  /\ toCdrs' \in Seq(Reports)
         /\ \A K \in SUBSET CdrKinds, c \in CdrCalls :
              Coming(K, c)' <=> Coming(K, c) \/ (n.call = c /\ n.kind \in K)
         /\ ToldInTurn /\ (\A i \in DOMAIN toCdrs : toCdrs[i].call = n.call =>
                             Rank(toCdrs[i].kind) < Rank(n.kind)) =>
              \A i, j \in DOMAIN toCdrs' : i < j /\ toCdrs'[i].call = toCdrs'[j].call =>
                Rank(toCdrs'[i].kind) < Rank(toCdrs'[j].kind)
<1>1. toCdrs \in Seq(Reports)
  BY DEF CdrTypes
<1>2. /\ toCdrs' \in Seq(Reports)
      /\ \A i \in DOMAIN toCdrs : i \in DOMAIN toCdrs' /\ toCdrs'[i] = toCdrs[i]
      /\ Len(toCdrs) + 1 \in DOMAIN toCdrs' /\ toCdrs'[Len(toCdrs) + 1] = n
      /\ \A i \in DOMAIN toCdrs' : i \in DOMAIN toCdrs \/ i = Len(toCdrs) + 1
      /\ \A i \in DOMAIN toCdrs : i < Len(toCdrs) + 1
  BY <1>1, AppendOf
<1>3. ASSUME NEW K \in SUBSET CdrKinds, NEW c \in CdrCalls
      PROVE  Coming(K, c)' <=> Coming(K, c) \/ (n.call = c /\ n.kind \in K)
  BY <1>2 DEF Coming
<1>4. ASSUME ToldInTurn, \A i \in DOMAIN toCdrs : toCdrs[i].call = n.call =>
                             Rank(toCdrs[i].kind) < Rank(n.kind),
             NEW i \in DOMAIN toCdrs', NEW j \in DOMAIN toCdrs', i < j,
             toCdrs'[i].call = toCdrs'[j].call
      PROVE  Rank(toCdrs'[i].kind) < Rank(toCdrs'[j].kind)
  <2>1. i \in DOMAIN toCdrs
    <3>1. i \in Nat /\ j \in Nat /\ Len(toCdrs) \in Nat /\ j <= Len(toCdrs) + 1
      BY <1>1, <1>2, <1>4
    <3>. QED BY <1>2, <1>4, <3>1
  <2>. QED BY <1>2, <1>4, <2>1 DEF ToldInTurn
<1>. QED BY <1>2, <1>3, <1>4

LEMMA LessComing ==
  ASSUME CdrTypes, ToldInTurn, toCdrs # <<>>, toCdrs' = Tail(toCdrs)
  PROVE  LET n == Head(toCdrs) IN
         /\ toCdrs' \in Seq(Reports) /\ n \in Reports
         /\ \A K \in SUBSET CdrKinds, c \in CdrCalls :
              Coming(K, c) <=> Coming(K, c)' \/ (n.call = c /\ n.kind \in K)
         /\ \A K \in SUBSET CdrKinds, c \in CdrCalls :
              c = n.call /\ (\A k \in K : Rank(k) <= Rank(n.kind)) => ~Coming(K, c)'
         /\ \A i, j \in DOMAIN toCdrs' : i < j /\ toCdrs'[i].call = toCdrs'[j].call =>
              Rank(toCdrs'[i].kind) < Rank(toCdrs'[j].kind)
<1>. DEFINE n == Head(toCdrs)
<1>1. toCdrs \in Seq(Reports)
  BY DEF CdrTypes
<1>2. /\ toCdrs' \in Seq(Reports) /\ n \in Reports /\ n = toCdrs[1] /\ 1 \in DOMAIN toCdrs
      /\ \A i \in DOMAIN toCdrs' : i + 1 \in DOMAIN toCdrs /\ toCdrs'[i] = toCdrs[i + 1]
      /\ \A i \in DOMAIN toCdrs : i = 1 \/ (i > 1 /\ i - 1 \in DOMAIN toCdrs'
                                            /\ toCdrs'[i - 1] = toCdrs[i])
      /\ \A i \in DOMAIN toCdrs' : i \in Nat /\ i >= 1
  <2>1. /\ Tail(toCdrs) \in Seq(Reports) /\ n \in Reports /\ n = toCdrs[1]
        /\ 1 \in DOMAIN toCdrs
        /\ \A i \in DOMAIN Tail(toCdrs) : i + 1 \in DOMAIN toCdrs
                                          /\ Tail(toCdrs)[i] = toCdrs[i + 1]
        /\ \A i \in DOMAIN toCdrs : i = 1 \/ (i > 1 /\ i - 1 \in DOMAIN Tail(toCdrs)
                                              /\ Tail(toCdrs)[i - 1] = toCdrs[i])
    BY <1>1, TailOf
  <2>2. \A i \in DOMAIN Tail(toCdrs) : i \in Nat /\ i >= 1
    BY <2>1
  <2>. HIDE DEF n
  <2>. QED BY <2>1, <2>2
<1>. HIDE DEF n
<1>3. ASSUME NEW K \in SUBSET CdrKinds, NEW c \in CdrCalls
      PROVE  Coming(K, c) <=> Coming(K, c)' \/ (n.call = c /\ n.kind \in K)
  <2>1. ASSUME Coming(K, c) PROVE Coming(K, c)' \/ (n.call = c /\ n.kind \in K)
    BY <1>2, <2>1 DEF Coming
  <2>2. ASSUME Coming(K, c)' PROVE Coming(K, c)
    BY <1>2, <2>2 DEF Coming
  <2>3. ASSUME n.call = c, n.kind \in K PROVE Coming(K, c)
    BY <1>2, <2>3 DEF Coming
  <2>. QED BY <2>1, <2>2, <2>3
<1>4. ASSUME NEW K \in SUBSET CdrKinds, \A k \in K : Rank(k) <= Rank(n.kind),
             NEW i \in DOMAIN toCdrs', toCdrs'[i].call = n.call, toCdrs'[i].kind \in K
      PROVE  FALSE
  <2>1. Rank(n.kind) < Rank(toCdrs[i + 1].kind)
    BY <1>2, <1>4 DEF ToldInTurn
  <2>2. Rank(toCdrs[i + 1].kind) <= Rank(n.kind)
    BY <1>2, <1>4
  <2>3. Rank(n.kind) \in 0..2 /\ Rank(toCdrs[i + 1].kind) \in 0..2
    BY <1>1, <1>2, ReportIs
  <2>. QED BY <2>1, <2>2, <2>3
<1>5. ASSUME NEW i \in DOMAIN toCdrs', NEW j \in DOMAIN toCdrs', i < j,
             toCdrs'[i].call = toCdrs'[j].call
      PROVE  Rank(toCdrs'[i].kind) < Rank(toCdrs'[j].kind)
  <2>1. i + 1 \in DOMAIN toCdrs /\ j + 1 \in DOMAIN toCdrs /\ i + 1 < j + 1
        /\ toCdrs'[i] = toCdrs[i + 1] /\ toCdrs'[j] = toCdrs[j + 1]
    BY <1>2, <1>5
  <2>. QED BY <1>5, <2>1 DEF ToldInTurn
<1>6. ASSUME NEW K \in SUBSET CdrKinds, NEW c \in CdrCalls, c = n.call,
             \A k \in K : Rank(k) <= Rank(n.kind)
      PROVE  ~Coming(K, c)'
  <2>1. ASSUME Coming(K, c)' PROVE FALSE
    <3>1. PICK i \in DOMAIN toCdrs' : toCdrs'[i].call = c /\ toCdrs'[i].kind \in K
      BY <2>1 DEF Coming
    <3>. QED BY <1>4, <1>6, <3>1
  <2>. QED BY <2>1
<1>7. /\ toCdrs' \in Seq(Reports) /\ n \in Reports
      /\ \A K \in SUBSET CdrKinds, c \in CdrCalls :
           Coming(K, c) <=> Coming(K, c)' \/ (n.call = c /\ n.kind \in K)
      /\ \A K \in SUBSET CdrKinds, c \in CdrCalls :
           c = n.call /\ (\A k \in K : Rank(k) <= Rank(n.kind)) => ~Coming(K, c)'
      /\ \A i, j \in DOMAIN toCdrs' : i < j /\ toCdrs'[i].call = toCdrs'[j].call =>
           Rank(toCdrs'[i].kind) < Rank(toCdrs'[j].kind)
  BY <1>2, <1>3, <1>5, <1>6
<1>. QED BY <1>7 DEF n

(* The items and records stay, and so does what is said of them.           *)
LEMMA HeldIs == ASSUME CdrTypes, SlotsKept, NEW c \in CdrCalls PROVE InUse(c) <=> Held(c)
<1>1. Coming(CdrKinds, c) <=> \E n \in Range(toCdrs) : n.call = c
  BY FieldsOf DEF Coming, Range
<1>2. InItems(c) <=> c \in Range(items)
  BY DEF InItems, Range
<1>. QED BY <1>1, <1>2 DEF InUse, Held, SlotsKept

LEMMA ListsStay ==
  ASSUME UNCHANGED <<items, endings, cdrItems>>
  PROVE  \A c \in CdrCalls : /\ InItems(c)' <=> InItems(c)
                             /\ Ending(c)' <=> Ending(c)
                             /\ Recorded(c)' <=> Recorded(c)
BY DEF InItems, Ending, Recorded

(* A call begins.                                                          *)
LEMMA BeginsKeeps ==
  ASSUME CdrInv, SlotsKept, NEW x \in CdrCalls, NEW slot \in CdrSlots, NEW kind \in Beginnings,
         BeginsIn(x, slot, kind)
  PROVE  CdrInv'
<1>1. /\ CdrTypes /\ SlotsApart /\ ToldInTurn /\ (\A c \in CdrCalls : CallFollowed(c))
      /\ ItemsOnce /\ (\A i \in DOMAIN cdrItems : RecordSays(cdrItems[i]))
      /\ RecordsOnce /\ NewestFirst
  BY DEF CdrInv
<1>2. /\ talk[x] = "none" /\ talk' = [talk EXCEPT ![x] = "live"]
      /\ slotOf' = [slotOf EXCEPT ![x] = slot] /\ toCdrs' = Append(toCdrs, Report(kind, x))
      /\ UNCHANGED <<items, endings, cdrItems>> /\ wasUp' = wasUp
      /\ \A d \in CdrCalls : Held(d) => slotOf[d] # slot
  BY <1>1, HeldIs DEF BeginsIn
<1>3. /\ Report(kind, x) \in Reports /\ Report(kind, x).call = x /\ Report(kind, x).kind = kind
      /\ kind \in CdrKinds /\ kind # "connected" /\ kind # "terminated"
  BY ReportIs DEF Beginnings, CdrKinds
<1>4. ~Coming(CdrKinds, x) /\ ~InItems(x) /\ ~Recorded(x) /\ x \notin wasUp /\ ~Ending(x)
      /\ \A K \in SUBSET CdrKinds : ~Coming(K, x)
      /\ ~Coming({"terminated"}, x)
  BY <1>1, <1>2, KindSets DEF CallFollowed, Coming
<1>5. \A i \in DOMAIN toCdrs : toCdrs[i].call # x
  BY <1>1, <1>4, FieldsOf DEF Coming
<1>6. /\ toCdrs' \in Seq(Reports)
      /\ \A K \in SUBSET CdrKinds, c \in CdrCalls :
           Coming(K, c)' <=> Coming(K, c) \/ (c = x /\ kind \in K)
      /\ \A i, j \in DOMAIN toCdrs' : i < j /\ toCdrs'[i].call = toCdrs'[j].call =>
           Rank(toCdrs'[i].kind) < Rank(toCdrs'[j].kind)
  <2>. DEFINE n == Report(kind, x)
  <2>. HIDE DEF n
  <2>1. toCdrs' = Append(toCdrs, n) /\ n \in Reports /\ n.call = x /\ n.kind = kind
    BY <1>2, <1>3 DEF n
  <2>. QED BY <1>1, <1>5, <2>1, MoreComing
<1>7. \A c \in CdrCalls : /\ InItems(c)' <=> InItems(c)
                          /\ Ending(c)' <=> Ending(c)
                          /\ Recorded(c)' <=> Recorded(c)
  BY <1>2, ListsStay
<1>8. /\ \A c \in CdrCalls : /\ Coming(CdrKinds, c)' <=> Coming(CdrKinds, c) \/ c = x
                             /\ Coming(Beginnings, c)' <=> Coming(Beginnings, c) \/ c = x
                             /\ Coming({"connected"}, c)' <=> Coming({"connected"}, c)
                             /\ Coming({"terminated"}, c)' <=> Coming({"terminated"}, c)
  BY <1>3, <1>6, KindSets
<1>9. CdrTypes'
  BY <1>1, <1>2, <1>6 DEF CdrTypes
<1>10. \A c \in CdrCalls : c # x => talk'[c] = talk[c] /\ slotOf'[c] = slotOf[c]
  BY <1>2
<1>11. talk'[x] = "live" /\ slotOf'[x] = slot
  BY <1>1, <1>2 DEF CdrTypes
<1>12. SlotsApart'
  <2>1. \A c \in CdrCalls : c # x => (Held(c)' <=> Held(c))
    BY <1>7, <1>8, <1>10 DEF Held
  <2>. QED BY <1>1, <1>2, <1>10, <1>11, <2>1 DEF SlotsApart
<1>13. ToldInTurn'
  BY <1>1, <1>2, <1>6, <1>8 DEF ToldInTurn
<1>14. ASSUME NEW c \in CdrCalls PROVE CallFollowed(c)'
  <2>1. CASE c = x
    BY <1>2, <1>4, <1>7, <1>8, <1>11, <2>1 DEF CallFollowed
  <2>2. CASE c # x
    BY <1>1, <1>2, <1>7, <1>8, <1>10, <2>2 DEF CallFollowed
  <2>. QED BY <2>1, <2>2
<1>15. ItemsOnce' /\ RecordsOnce'
  BY <1>1, <1>2 DEF ItemsOnce, RecordsOnce
<1>16. ASSUME NEW i \in DOMAIN cdrItems' PROVE RecordSays(cdrItems[i])'
  <2>1. cdrItems[i].call \in CdrCalls /\ i \in DOMAIN cdrItems
    BY <1>1, <1>2, FieldsOf
  <2>. QED BY <1>1, <1>2, <1>7, <1>8, <2>1 DEF RecordSays
<1>17. NewestFirst'
  <2>1. \A i \in DOMAIN cdrItems : cdrItems[i].call \in CdrCalls /\ cdrItems[i].call # x
    BY <1>1, <1>4, FieldsOf DEF Recorded
  <2>. QED BY <1>1, <1>2, <1>4, <1>7, <1>10, <2>1 DEF NewestFirst
<1>. QED BY <1>9, <1>12, <1>13, <1>14, <1>15, <1>16, <1>17 DEF CdrInv

(* It is up.                                                               *)
LEMMA UpKeeps ==
  ASSUME CdrInv, NEW x \in CdrCalls, IsUp(x)
  PROVE  CdrInv'
<1>1. /\ CdrTypes /\ SlotsApart /\ ToldInTurn /\ (\A c \in CdrCalls : CallFollowed(c))
      /\ ItemsOnce /\ (\A i \in DOMAIN cdrItems : RecordSays(cdrItems[i]))
      /\ RecordsOnce /\ NewestFirst
  BY DEF CdrInv
<1>2. /\ talk[x] = "live" /\ x \notin wasUp /\ wasUp' = wasUp \cup {x}
      /\ toCdrs' = Append(toCdrs, Report("connected", x))
      /\ UNCHANGED <<items, endings, cdrItems>> /\ talk' = talk /\ slotOf' = slotOf
  BY DEF IsUp
<1>3. ~Coming({"connected"}, x) /\ ~Coming({"terminated"}, x)
  BY <1>1, <1>2 DEF ToldInTurn, CallFollowed
<1>4. \A i \in DOMAIN toCdrs : toCdrs[i].call = x => Rank(toCdrs[i].kind) = 0
  BY <1>1, <1>3, FieldsOf, ReportIs DEF Coming
<1>5. /\ toCdrs' \in Seq(Reports)
      /\ \A K \in SUBSET CdrKinds, c \in CdrCalls :
           Coming(K, c)' <=> Coming(K, c) \/ (c = x /\ "connected" \in K)
      /\ \A i, j \in DOMAIN toCdrs' : i < j /\ toCdrs'[i].call = toCdrs'[j].call =>
           Rank(toCdrs'[i].kind) < Rank(toCdrs'[j].kind)
  <2>. DEFINE n == Report("connected", x)
  <2>. HIDE DEF n
  <2>1. toCdrs' = Append(toCdrs, n) /\ n \in Reports /\ n.call = x /\ n.kind = "connected"
        /\ Rank(n.kind) = 1
    BY <1>2, ReportIs DEF n, CdrKinds
  <2>2. \A i \in DOMAIN toCdrs : toCdrs[i].call = n.call =>
          Rank(toCdrs[i].kind) < Rank(n.kind)
    BY <1>4, <2>1
  <2>. QED BY <1>1, <2>1, <2>2, MoreComing
<1>6. \A c \in CdrCalls : /\ InItems(c)' <=> InItems(c)
                          /\ Ending(c)' <=> Ending(c)
                          /\ Recorded(c)' <=> Recorded(c)
  BY <1>2, ListsStay
<1>7. /\ \A c \in CdrCalls : /\ Coming(CdrKinds, c)' <=> Coming(CdrKinds, c) \/ c = x
                             /\ Coming(Beginnings, c)' <=> Coming(Beginnings, c)
                             /\ Coming({"connected"}, c)' <=> Coming({"connected"}, c) \/ c = x
                             /\ Coming({"terminated"}, c)' <=> Coming({"terminated"}, c)
  BY <1>5, KindSets
<1>8. Coming(Beginnings, x) \/ InItems(x)
  BY <1>1, <1>2 DEF CallFollowed
<1>9. CdrTypes'
  BY <1>1, <1>2, <1>5 DEF CdrTypes
<1>10. SlotsApart'
  <2>1. \A c \in CdrCalls : Held(c)' <=> Held(c)
    BY <1>2, <1>6, <1>7 DEF Held
  <2>. QED BY <1>1, <1>2, <2>1 DEF SlotsApart
<1>11. ToldInTurn'
  BY <1>1, <1>2, <1>5, <1>7 DEF ToldInTurn
<1>12. ASSUME NEW c \in CdrCalls PROVE CallFollowed(c)'
  BY <1>1, <1>2, <1>6, <1>7, <1>8 DEF CallFollowed
<1>13. ItemsOnce' /\ RecordsOnce'
  BY <1>1, <1>2 DEF ItemsOnce, RecordsOnce
<1>14. ASSUME NEW i \in DOMAIN cdrItems' PROVE RecordSays(cdrItems[i])'
  <2>1. cdrItems[i].call \in CdrCalls /\ i \in DOMAIN cdrItems
    BY <1>1, <1>2, FieldsOf
  <2>. QED BY <1>1, <1>2, <1>6, <1>7, <2>1 DEF RecordSays
<1>15. NewestFirst'
  BY <1>1, <1>2, <1>6 DEF NewestFirst
<1>. QED BY <1>9, <1>10, <1>11, <1>12, <1>13, <1>14, <1>15 DEF CdrInv

(* It ends.                                                                *)
LEMMA EndsKeeps ==
  ASSUME CdrInv, NEW x \in CdrCalls, EndsIn(x)
  PROVE  CdrInv'
<1>1. /\ CdrTypes /\ SlotsApart /\ ToldInTurn /\ (\A c \in CdrCalls : CallFollowed(c))
      /\ ItemsOnce /\ (\A i \in DOMAIN cdrItems : RecordSays(cdrItems[i]))
      /\ RecordsOnce /\ NewestFirst
  BY DEF CdrInv
<1>2. /\ talk[x] = "live" /\ talk' = [talk EXCEPT ![x] = "gone"] /\ wasUp' = wasUp
      /\ toCdrs' = Append(toCdrs, Report("terminated", x))
      /\ UNCHANGED <<items, endings, cdrItems>> /\ slotOf' = slotOf
  BY DEF EndsIn
<1>3. ~Coming({"terminated"}, x) /\ ~Ending(x)
  BY <1>1, <1>2 DEF CallFollowed
<1>4. \A i \in DOMAIN toCdrs : toCdrs[i].call = x => Rank(toCdrs[i].kind) < 2
  BY <1>1, <1>3, FieldsOf, ReportIs DEF Coming
<1>5. /\ toCdrs' \in Seq(Reports)
      /\ \A K \in SUBSET CdrKinds, c \in CdrCalls :
           Coming(K, c)' <=> Coming(K, c) \/ (c = x /\ "terminated" \in K)
      /\ \A i, j \in DOMAIN toCdrs' : i < j /\ toCdrs'[i].call = toCdrs'[j].call =>
           Rank(toCdrs'[i].kind) < Rank(toCdrs'[j].kind)
  <2>. DEFINE n == Report("terminated", x)
  <2>. HIDE DEF n
  <2>1. toCdrs' = Append(toCdrs, n) /\ n \in Reports /\ n.call = x /\ n.kind = "terminated"
        /\ Rank(n.kind) = 2
    BY <1>2, ReportIs DEF n, CdrKinds
  <2>2. \A i \in DOMAIN toCdrs : toCdrs[i].call = n.call =>
          Rank(toCdrs[i].kind) < Rank(n.kind)
    BY <1>4, <2>1
  <2>. QED BY <1>1, <2>1, <2>2, MoreComing
<1>6. \A c \in CdrCalls : /\ InItems(c)' <=> InItems(c)
                          /\ Ending(c)' <=> Ending(c)
                          /\ Recorded(c)' <=> Recorded(c)
  BY <1>2, ListsStay
<1>7. /\ \A c \in CdrCalls : /\ Coming(CdrKinds, c)' <=> Coming(CdrKinds, c) \/ c = x
                             /\ Coming(Beginnings, c)' <=> Coming(Beginnings, c)
                             /\ Coming({"connected"}, c)' <=> Coming({"connected"}, c)
                             /\ Coming({"terminated"}, c)' <=> Coming({"terminated"}, c) \/ c = x
  BY <1>5, KindSets
<1>8. Coming(Beginnings, x) \/ InItems(x)
  BY <1>1, <1>2 DEF CallFollowed
<1>9. CdrTypes' /\ talk'[x] = "gone" /\ \A c \in CdrCalls : c # x => talk'[c] = talk[c]
  BY <1>1, <1>2, <1>5 DEF CdrTypes
<1>10. SlotsApart'
  <2>1. \A c \in CdrCalls : Held(c)' => Held(c)
    BY <1>2, <1>6, <1>7, <1>9 DEF Held
  <2>. QED BY <1>1, <1>2, <2>1 DEF SlotsApart
<1>11. ToldInTurn'
  BY <1>1, <1>2, <1>5, <1>7 DEF ToldInTurn
<1>12. ASSUME NEW c \in CdrCalls PROVE CallFollowed(c)'
  <2>1. CASE c = x
    BY <1>1, <1>2, <1>3, <1>6, <1>7, <1>8, <1>9, <2>1 DEF CallFollowed
  <2>2. CASE c # x
    BY <1>1, <1>2, <1>6, <1>7, <1>9, <2>2 DEF CallFollowed
  <2>. QED BY <2>1, <2>2
<1>13. ItemsOnce' /\ RecordsOnce'
  BY <1>1, <1>2 DEF ItemsOnce, RecordsOnce
<1>14. ASSUME NEW i \in DOMAIN cdrItems' PROVE RecordSays(cdrItems[i])'
  <2>1. cdrItems[i].call \in CdrCalls /\ i \in DOMAIN cdrItems
    BY <1>1, <1>2, FieldsOf
  <2>. QED BY <1>1, <1>2, <1>6, <1>7, <2>1 DEF RecordSays
<1>15. NewestFirst'
  BY <1>1, <1>2, <1>6 DEF NewestFirst
<1>. QED BY <1>9, <1>10, <1>11, <1>12, <1>13, <1>14, <1>15 DEF CdrInv

-----------------------------------------------------------------------------
(* What is found by the id is the call, and its own record.                *)
LEMMA ItemFound ==
  ASSUME CdrTypes, SlotsApart, ItemsOnce, NEW c \in CdrCalls, Held(c)
  PROVE  \/ ItemOf(c) = 0 /\ ~InItems(c)
         \/ ItemOf(c) \in DOMAIN items /\ items[ItemOf(c)] = c /\ ItemOf(c) # 0 /\ InItems(c)
<1>. DEFINE I == {i \in 1..Len(items) : slotOf[items[i]] = slotOf[c]}
<1>1. ItemOf(c) = IF I # {} THEN Min(I) ELSE 0
  BY DEF ItemOf, SelectInSeq
<1>2. DOMAIN items = 1..Len(items) /\ Len(items) \in Nat
      /\ \A i \in DOMAIN items : items[i] \in CdrCalls
  BY DEF CdrTypes
<1>3. ASSUME NEW i \in I PROVE items[i] = c
  <2>1. i \in DOMAIN items /\ Held(items[i])
    BY <1>2 DEF Held, InItems
  <2>. QED BY <1>2, <2>1 DEF SlotsApart
<1>4. ASSUME I = {} PROVE ~InItems(c)
  BY <1>2, <1>4 DEF InItems
<1>5. ASSUME I # {} PROVE Min(I) \in I
  <2>1. PICK i \in I : TRUE
    BY <1>5
  <2>2. i \in Nat /\ i <= i /\ \A j \in I : j = i
    BY <1>2, <1>3 DEF ItemsOnce
  <2>. QED BY <2>1, <2>2 DEF Min
<1>6. CASE I = {}
  BY <1>1, <1>4, <1>6
<1>7. CASE I # {}
  <2>1. ItemOf(c) \in I
    BY <1>1, <1>5, <1>7
  <2>2. ItemOf(c) \in DOMAIN items /\ ItemOf(c) # 0 /\ items[ItemOf(c)] = c
    BY <1>2, <1>3, <2>1
  <2>. QED BY <2>2 DEF InItems
<1>. QED BY <1>6, <1>7

LEMMA RecordFound ==
  ASSUME CdrTypes, RecordsOnce, NewestFirst, NEW c \in CdrCalls, InItems(c)
  PROVE  \/ RecordOf(c) = 0 /\ ~Recorded(c)
         \/ /\ RecordOf(c) \in DOMAIN cdrItems /\ cdrItems[RecordOf(c)].call = c
            /\ RecordOf(c) # 0
<1>. DEFINE I == {i \in 1..Len(cdrItems) : slotOf[cdrItems[i].call] = slotOf[c]}
<1>1. RecordOf(c) = IF I # {} THEN Min(I) ELSE 0
  BY DEF RecordOf, SelectInSeq
<1>2. DOMAIN cdrItems = 1..Len(cdrItems) /\ Len(cdrItems) \in Nat
  BY DEF CdrTypes
<1>3. CASE I = {}
  <2>1. ~Recorded(c)
    BY <1>2, <1>3 DEF Recorded
  <2>. QED BY <1>1, <1>3, <2>1
<1>4. CASE I # {}
  <2>1. PICK i \in I : TRUE
    BY <1>4
  <2>2. PICK k \in DOMAIN cdrItems : cdrItems[k].call = c
    BY <1>2, <2>1 DEF NewestFirst
  <2>3. k \in I /\ k \in Nat /\ k # 0
    BY <1>2, <2>2
  <2>4. \A j \in I : k <= j
    BY <1>2, <2>2 DEF NewestFirst, RecordsOnce
  <2>5. Min(I) \in I /\ \A j \in I : Min(I) <= j
    BY <2>3, <2>4 DEF Min
  <2>6. PICK m \in I : m = Min(I)
    BY <2>5
  <2>7. Min(I) = k
    <3>1. m \in Nat
      BY <1>2, <2>6
    <3>2. k <= m
      BY <2>4, <2>6
    <3>3. m <= k
      <4>. HIDE DEF I
      <4>. QED BY <2>3, <2>5, <2>6
    <3>. QED BY <2>3, <2>6, <3>1, <3>2, <3>3
  <2>8. RecordOf(c) = k
    BY <1>1, <1>4, <2>7
  <2>. QED BY <2>2, <2>3, <2>8
<1>. QED BY <1>3, <1>4

(* A record more is the first; the last may go.                            *)
LEMMA RecordAdded ==
  ASSUME CdrTypes, NEW c \in CdrCalls, AddCdr(c)
  PROVE  /\ cdrItems' \in Seq(Records) /\ Len(cdrItems') <= MaxCdrs
         /\ DOMAIN cdrItems' = 1..Len(cdrItems') /\ Len(cdrItems') \in Nat /\ Len(cdrItems') >= 1
         /\ cdrItems'[1] = [call |-> c, connected |-> FALSE, ended |-> Unended]
         /\ \A i \in DOMAIN cdrItems' : i = 1 \/ (i - 1 \in DOMAIN cdrItems
                                                  /\ cdrItems'[i] = cdrItems[i - 1])
<1>. DEFINE r == [call |-> c, connected |-> FALSE, ended |-> Unended]
            s == <<r>> \o cdrItems
            n == IF Len(cdrItems) < MaxCdrs THEN Len(cdrItems) + 1 ELSE MaxCdrs
<1>1. cdrItems \in Seq(Records) /\ Len(cdrItems) \in Nat /\ Len(cdrItems) <= MaxCdrs
      /\ MaxCdrs \in Nat \ {0}
  BY CdrAssumption DEF CdrTypes
<1>2. r \in Records
  BY DEF Records
<1>3. n \in Nat /\ n >= 1 /\ n <= Len(cdrItems) + 1 /\ n <= MaxCdrs
  BY <1>1
<1>4. cdrItems' = SubSeq(s, 1, n)
  BY DEF AddCdr
<1>. HIDE DEF r, n
<1>5. /\ s \in Seq(Records) /\ Len(s) = 1 + Len(cdrItems) /\ s[1] = r
      /\ \A k \in 1..Len(cdrItems) : s[1 + k] = cdrItems[k]
  <2>1. <<r>> \in Seq(Records) /\ Len(<<r>>) = 1 /\ <<r>>[1] = r
    BY <1>2
  <2>. HIDE DEF s
  <2>2. /\ <<r>> \o cdrItems \in Seq(Records)
        /\ Len(<<r>> \o cdrItems) = Len(<<r>>) + Len(cdrItems)
        /\ \A k \in 1..Len(<<r>>) : (<<r>> \o cdrItems)[k] = <<r>>[k]
        /\ \A k \in 1..Len(cdrItems) : (<<r>> \o cdrItems)[Len(<<r>>) + k] = cdrItems[k]
    BY <1>1, <2>1, Concat
  <2>. QED BY <2>1, <2>2 DEF s
<1>. HIDE DEF s
<1>6. /\ cdrItems' \in Seq(Records) /\ Len(cdrItems') = n /\ DOMAIN cdrItems' = 1..n
      /\ \A i \in 1..n : cdrItems'[i] = s[i]
  BY <1>1, <1>3, <1>4, <1>5
<1>7. ASSUME NEW i \in DOMAIN cdrItems', i # 1
      PROVE  i - 1 \in DOMAIN cdrItems /\ cdrItems'[i] = cdrItems[i - 1]
  <2>1. i - 1 \in 1..Len(cdrItems) /\ 1 + (i - 1) = i
    BY <1>1, <1>3, <1>6, <1>7
  <2>. QED BY <1>1, <1>5, <1>6, <1>7, <2>1
<1>. QED BY <1>3, <1>5, <1>6, <1>7 DEF r

(* Where Dart stands when it takes a message about c.                      *)
LEMMA EventTaken ==
  ASSUME CdrInv, toCdrs # <<>>, toCdrs' = Tail(toCdrs), UNCHANGED sip,
         NEW c \in CdrCalls, c = Head(toCdrs).call
  PROVE  LET kind == Head(toCdrs).kind IN
         /\ kind \in Beginnings \/ kind = "connected" \/ kind = "terminated"
         /\ toCdrs' \in Seq(Reports) /\ ToldInTurn' /\ Held(c)
         /\ Coming({kind}, c) /\ ~Coming(Beginnings, c)' /\ ~Ending(c) /\ talk[c] # "none"
         /\ \A d \in CdrCalls, K \in {CdrKinds, Beginnings, {"connected"}, {"terminated"}} :
              d # c => (Coming(K, d)' <=> Coming(K, d))
         /\ \A K \in {CdrKinds, Beginnings, {"connected"}, {"terminated"}} :
              kind \notin K => (Coming(K, c)' <=> Coming(K, c))
         /\ Coming(CdrKinds, c)
         /\ kind \in Beginnings => Coming(Beginnings, c) /\ ~InItems(c) /\ ~Recorded(c)
         /\ kind \notin Beginnings => ~Coming(Beginnings, c) /\ InItems(c)
         /\ kind = "connected" => Coming({"connected"}, c) /\ ~Coming({"connected"}, c)'
         /\ kind = "terminated" => /\ talk[c] = "gone" /\ ~Coming(CdrKinds, c)'
                                   /\ ~Coming({"connected"}, c)' /\ ~Coming({"terminated"}, c)'
<1>. DEFINE kind == Head(toCdrs).kind
            Ks   == {CdrKinds, Beginnings, {"connected"}, {"terminated"}}
<1>1. /\ CdrTypes /\ ToldInTurn /\ (\A d \in CdrCalls : CallFollowed(d))
  BY DEF CdrInv
<1>2. /\ toCdrs' \in Seq(Reports) /\ Head(toCdrs) \in Reports
      /\ \A K \in SUBSET CdrKinds, d \in CdrCalls :
           Coming(K, d) <=> Coming(K, d)' \/ (c = d /\ kind \in K)
      /\ \A K \in SUBSET CdrKinds, d \in CdrCalls :
           d = c /\ (\A k \in K : Rank(k) <= Rank(kind)) => ~Coming(K, d)'
      /\ \A i, j \in DOMAIN toCdrs' : i < j /\ toCdrs'[i].call = toCdrs'[j].call =>
           Rank(toCdrs'[i].kind) < Rank(toCdrs'[j].kind)
  BY <1>1, LessComing
<1>3. /\ kind \in CdrKinds /\ Rank(kind) \in 0..2
      /\ kind \in Beginnings \/ kind = "connected" \/ kind = "terminated"
  BY <1>2, ReportIs
<1>. HIDE DEF kind
<1>4. /\ \A K \in Ks : K \in SUBSET CdrKinds
      /\ {kind} \in SUBSET CdrKinds
  BY <1>3, KindSets
<1>5. /\ \A d \in CdrCalls, K \in Ks : d # c => (Coming(K, d)' <=> Coming(K, d))
      /\ \A K \in Ks : kind \notin K => (Coming(K, c)' <=> Coming(K, c))
  BY <1>2, <1>4
<1>6. Coming({kind}, c) /\ Coming(CdrKinds, c)
  BY <1>2, <1>3, <1>4
<1>7. ~Coming(Beginnings, c)'
  <2>1. \A k \in Beginnings : Rank(k) <= Rank(kind)
    BY <1>3, ReportIs
  <2>. QED BY <1>2, <2>1, KindSets
<1>8. Held(c) /\ ~Ending(c) /\ talk[c] # "none"
  BY <1>1, <1>6 DEF Held, CallFollowed
<1>9. ASSUME kind \in Beginnings PROVE Coming(Beginnings, c) /\ ~InItems(c) /\ ~Recorded(c)
  <2>1. Coming(Beginnings, c)
    BY <1>2, <1>4, <1>9, KindSets
  <2>. QED BY <1>1, <2>1 DEF CallFollowed
<1>10. ASSUME kind \notin Beginnings PROVE ~Coming(Beginnings, c) /\ InItems(c)
  <2>1. ~Coming(Beginnings, c)
    BY <1>2, <1>7, <1>10, KindSets
  <2>. QED BY <1>1, <1>6, <2>1 DEF CallFollowed
<1>11. ASSUME kind = "connected" PROVE Coming({"connected"}, c) /\ ~Coming({"connected"}, c)'
  <2>1. \A k \in {"connected"} : Rank(k) <= Rank(kind)
    BY <1>3, <1>11
  <2>. QED BY <1>2, <1>6, <1>11, <2>1, KindSets
<1>12. ASSUME kind = "terminated"
       PROVE  /\ talk[c] = "gone" /\ ~Coming(CdrKinds, c)'
              /\ ~Coming({"connected"}, c)' /\ ~Coming({"terminated"}, c)'
  <2>1. \A k \in CdrKinds : Rank(k) <= Rank(kind)
    BY <1>12 DEF Rank, CdrKinds, Beginnings
  <2>2. ~Coming(CdrKinds, c)'
    BY <1>2, <2>1, KindSets
  <2>3. ~Coming({"connected"}, c)' /\ ~Coming({"terminated"}, c)'
    <3>1. \A k \in {"connected"} : Rank(k) <= Rank(kind)
      BY <2>1, KindSets
    <3>2. \A k \in {"terminated"} : Rank(k) <= Rank(kind)
      BY <2>1, KindSets
    <3>. QED BY <1>2, <3>1, <3>2, KindSets
  <2>4. talk[c] = "gone"
    BY <1>1, <1>6, <1>12 DEF CallFollowed
  <2>. QED BY <2>2, <2>3, <2>4
<1>13. ToldInTurn'
  <2>1. \A d \in CdrCalls : Coming({"connected"}, d)' => Coming({"connected"}, d)
    BY <1>2, KindSets
  <2>2. \A d \in CdrCalls : Coming({"connected"}, d)' => d \in wasUp'
    BY <1>1, <2>1 DEF ToldInTurn, sip
  <2>. QED BY <1>2, <2>2 DEF ToldInTurn
<1>. QED BY <1>2, <1>3, <1>5, <1>6, <1>7, <1>8, <1>9, <1>10, <1>11, <1>12, <1>13 DEF kind

(* Dart enters a call.                                                     *)
LEMMA EnterKeeps ==
  ASSUME CdrInv, SlotsKept, toCdrs # <<>>, toCdrs' = Tail(toCdrs), UNCHANGED sip,
         NEW c \in CdrCalls, c = Head(toCdrs).call, Head(toCdrs).kind \in Beginnings,
         items' = Append(items, c), AddCdr(c), endings' = endings
  PROVE  CdrInv'
<1>1. /\ CdrTypes /\ SlotsApart /\ ToldInTurn /\ (\A d \in CdrCalls : CallFollowed(d))
      /\ ItemsOnce /\ (\A i \in DOMAIN cdrItems : RecordSays(cdrItems[i]))
      /\ RecordsOnce /\ NewestFirst
      /\ talk' = talk /\ slotOf' = slotOf /\ wasUp' = wasUp
  BY DEF CdrInv, sip
<1>2. /\ toCdrs' \in Seq(Reports) /\ ToldInTurn' /\ Held(c)
      /\ ~Coming(Beginnings, c)' /\ ~Ending(c) /\ talk[c] # "none"
      /\ \A d \in CdrCalls : d # c => /\ Coming(CdrKinds, d)' <=> Coming(CdrKinds, d)
                                      /\ Coming(Beginnings, d)' <=> Coming(Beginnings, d)
                                      /\ Coming({"connected"}, d)' <=> Coming({"connected"}, d)
                                      /\ Coming({"terminated"}, d)' <=> Coming({"terminated"}, d)
      /\ Coming({"connected"}, c)' <=> Coming({"connected"}, c)
      /\ Coming({"terminated"}, c)' <=> Coming({"terminated"}, c)
      /\ Coming(Beginnings, c) /\ ~InItems(c) /\ ~Recorded(c)
  BY EventTaken, KindSets
<1>3. /\ items' \in Seq(CdrCalls)
      /\ \A i \in DOMAIN items : i \in DOMAIN items' /\ items'[i] = items[i]
      /\ Len(items) + 1 \in DOMAIN items' /\ items'[Len(items) + 1] = c
      /\ \A i \in DOMAIN items' : i \in DOMAIN items \/ i = Len(items) + 1
  BY <1>1, AppendOf DEF CdrTypes
<1>4. /\ \A d \in CdrCalls : InItems(d)' <=> InItems(d) \/ d = c
      /\ \A d \in CdrCalls : Ending(d)' <=> Ending(d)
  BY <1>3 DEF InItems, Ending
<1>5. /\ cdrItems' \in Seq(Records) /\ Len(cdrItems') <= MaxCdrs
      /\ DOMAIN cdrItems' = 1..Len(cdrItems') /\ Len(cdrItems') \in Nat /\ Len(cdrItems') >= 1
      /\ cdrItems'[1] = [call |-> c, connected |-> FALSE, ended |-> Unended]
      /\ \A i \in DOMAIN cdrItems' : i = 1 \/ (i - 1 \in DOMAIN cdrItems
                                               /\ cdrItems'[i] = cdrItems[i - 1])
  BY <1>1, RecordAdded
<1>6. \A i \in DOMAIN cdrItems : cdrItems[i].call \in CdrCalls /\ cdrItems[i].call # c
  BY <1>1, <1>2, FieldsOf DEF Recorded
<1>7. cdrItems'[1].call = c /\ ~cdrItems'[1].connected /\ cdrItems'[1].ended = Unended
      /\ 1 \in DOMAIN cdrItems'
  BY <1>5
<1>8. \A i \in DOMAIN cdrItems' : i = 1 \/ /\ i - 1 \in DOMAIN cdrItems
                                           /\ cdrItems'[i] = cdrItems[i - 1]
                                           /\ cdrItems'[i].call \in CdrCalls
                                           /\ cdrItems'[i].call # c
  BY <1>5, <1>6
<1>9. CdrTypes'
  BY <1>1, <1>2, <1>3, <1>5 DEF CdrTypes
<1>10. SlotsApart'
  <2>1. \A d \in CdrCalls : Held(d)' => Held(d)
    BY <1>1, <1>2, <1>4 DEF Held
  <2>. QED BY <1>1, <2>1 DEF SlotsApart
<1>11. ASSUME NEW d \in CdrCalls PROVE CallFollowed(d)'
  <2>1. CASE d = c
    <3>1. c \in wasUp \/ talk[c] # "none"
      BY <1>2
    <3>. QED BY <1>1, <1>2, <1>4, <2>1 DEF CallFollowed
  <2>2. CASE d # c
    <3>1. Recorded(d)' => Recorded(d)
      BY <1>7, <1>8, <2>2 DEF Recorded
    <3>. QED BY <1>1, <1>2, <1>4, <2>2, <3>1 DEF CallFollowed
  <2>. QED BY <2>1, <2>2
<1>12. ItemsOnce'
  <2>1. \A i \in DOMAIN items : items[i] # c
    BY <1>2 DEF InItems
  <2>2. \A i, j \in DOMAIN items' : items'[i] = items'[j] => i = j
    BY <1>1, <1>3, <2>1 DEF ItemsOnce
  <2>. QED BY <1>1, <2>2 DEF ItemsOnce
<1>13. RecordsOnce'
  <2>1. ASSUME NEW i \in DOMAIN cdrItems', NEW j \in DOMAIN cdrItems',
               cdrItems'[i].call = cdrItems'[j].call
        PROVE  i = j
    <3>1. i \in Nat /\ j \in Nat
      BY <1>5
    <3>2. CASE i = 1 \/ j = 1
      BY <1>7, <1>8, <2>1, <3>2
    <3>3. CASE i # 1 /\ j # 1
      <4>1. i - 1 = j - 1
        BY <1>1, <1>8, <2>1, <3>3 DEF RecordsOnce
      <4>. QED BY <3>1, <4>1
    <3>. QED BY <3>2, <3>3
  <2>. QED BY <2>1 DEF RecordsOnce
<1>14. ASSUME NEW i \in DOMAIN cdrItems' PROVE RecordSays(cdrItems[i])'
  <2>1. CASE i = 1
    <3>1. c \in wasUp => Coming({"connected"}, c)
      BY <1>1, <1>2 DEF CallFollowed
    <3>. QED BY <1>1, <1>2, <1>4, <1>7, <2>1, <3>1 DEF RecordSays
  <2>2. CASE i # 1
    <3>1. i - 1 \in DOMAIN cdrItems /\ cdrItems'[i] = cdrItems[i - 1]
          /\ cdrItems'[i].call \in CdrCalls /\ cdrItems'[i].call # c
      BY <1>8, <2>2
    <3>2. RecordSays(cdrItems[i - 1])
      BY <1>1, <3>1
    <3>. QED BY <1>1, <1>2, <1>4, <3>1, <3>2 DEF RecordSays
  <2>. QED BY <2>1, <2>2
<1>15. NewestFirst'
  <2>1. ASSUME NEW d \in CdrCalls, InItems(d)', NEW i \in DOMAIN cdrItems',
               slotOf'[cdrItems'[i].call] = slotOf'[d]
        PROVE  \E k \in DOMAIN cdrItems' : k <= i /\ cdrItems'[k].call = d
    <3>1. i \in Nat /\ i >= 1
      BY <1>5
    <3>2. CASE d = c
      BY <1>7, <3>1, <3>2
    <3>3. CASE d # c
      <4>1. InItems(d) /\ Held(d) /\ slotOf[d] # slotOf[c]
        BY <1>1, <1>2, <1>4, <2>1, <3>3 DEF SlotsApart, Held
      <4>2. i # 1
        BY <1>1, <1>7, <2>1, <4>1
      <4>3. i - 1 \in DOMAIN cdrItems /\ cdrItems'[i] = cdrItems[i - 1]
        BY <1>8, <4>2
      <4>4. PICK k \in DOMAIN cdrItems : k <= i - 1 /\ cdrItems[k].call = d
        BY <1>1, <2>1, <4>1, <4>3 DEF NewestFirst
      <4>5. k \in Nat /\ k >= 1 /\ k + 1 # 1 /\ (k + 1) - 1 = k
        BY <1>1, <4>4 DEF CdrTypes
      <4>6. k + 1 <= i /\ k + 1 \in DOMAIN cdrItems'
        BY <1>5, <3>1, <4>4, <4>5
      <4>7. cdrItems'[k + 1] = cdrItems[k]
        BY <1>8, <4>5, <4>6
      <4>. QED BY <4>4, <4>6, <4>7
    <3>. QED BY <3>2, <3>3
  <2>. QED BY <2>1 DEF NewestFirst
<1>. QED BY <1>2, <1>9, <1>10, <1>11, <1>12, <1>13, <1>14, <1>15 DEF CdrInv

(* A record may be changed where its call stays.                           *)
LEMMA RecordSet ==
  ASSUME CdrTypes, RecordsOnce, NewestFirst, NEW r \in Records,
         NEW k \in DOMAIN cdrItems, r.call = cdrItems[k].call,
         cdrItems' = [cdrItems EXCEPT ![k] = r], slotOf' = slotOf,
         \A d \in CdrCalls : InItems(d)' => InItems(d)
  PROVE  /\ cdrItems' \in Seq(Records) /\ Len(cdrItems') = Len(cdrItems)
         /\ cdrItems'[k] = r /\ DOMAIN cdrItems' = DOMAIN cdrItems
         /\ \A i \in DOMAIN cdrItems : i # k => cdrItems'[i] = cdrItems[i]
         /\ \A i \in DOMAIN cdrItems : cdrItems'[i].call = cdrItems[i].call
         /\ RecordsOnce' /\ NewestFirst'
         /\ \A d \in CdrCalls : Recorded(d)' <=> Recorded(d)
<1>1. /\ cdrItems' \in Seq(Records) /\ Len(cdrItems') = Len(cdrItems)
      /\ cdrItems'[k] = r /\ DOMAIN cdrItems' = DOMAIN cdrItems
      /\ \A i \in DOMAIN cdrItems : i # k => cdrItems'[i] = cdrItems[i]
  BY DEF CdrTypes
<1>2. \A i \in DOMAIN cdrItems : cdrItems'[i].call = cdrItems[i].call
  BY <1>1
<1>3. RecordsOnce'
  BY <1>1, <1>2 DEF RecordsOnce
<1>4. NewestFirst'
  <2>1. ASSUME NEW d \in CdrCalls, InItems(d)', NEW i \in DOMAIN cdrItems',
               slotOf'[cdrItems'[i].call] = slotOf'[d]
        PROVE  \E j \in DOMAIN cdrItems' : j <= i /\ cdrItems'[j].call = d
    <3>1. i \in DOMAIN cdrItems /\ slotOf[cdrItems[i].call] = slotOf[d] /\ InItems(d)
      BY <1>1, <1>2, <2>1
    <3>2. PICK j \in DOMAIN cdrItems : j <= i /\ cdrItems[j].call = d
      BY <3>1 DEF NewestFirst
    <3>. QED BY <1>1, <1>2, <3>2
  <2>. QED BY <2>1 DEF NewestFirst
<1>5. \A d \in CdrCalls : Recorded(d)' <=> Recorded(d)
  BY <1>1, <1>2 DEF Recorded
<1>. QED BY <1>1, <1>2, <1>3, <1>4, <1>5

(* Dart hears that a call is up.                                           *)
LEMMA ConnectedKeeps ==
  ASSUME CdrInv, SlotsKept, toCdrs # <<>>, toCdrs' = Tail(toCdrs), UNCHANGED sip,
         NEW c \in CdrCalls, c = Head(toCdrs).call, Head(toCdrs).kind = "connected",
         SetConnected(c), UNCHANGED <<items, endings>>
  PROVE  CdrInv'
<1>1. /\ CdrTypes /\ SlotsApart /\ ToldInTurn /\ (\A d \in CdrCalls : CallFollowed(d))
      /\ ItemsOnce /\ (\A i \in DOMAIN cdrItems : RecordSays(cdrItems[i]))
      /\ RecordsOnce /\ NewestFirst
      /\ talk' = talk /\ slotOf' = slotOf /\ wasUp' = wasUp
  BY DEF CdrInv, sip
<1>2. /\ toCdrs' \in Seq(Reports) /\ ToldInTurn' /\ Held(c)
      /\ ~Coming(Beginnings, c)' /\ ~Ending(c) /\ talk[c] # "none"
      /\ \A d \in CdrCalls : d # c => /\ Coming(CdrKinds, d)' <=> Coming(CdrKinds, d)
                                      /\ Coming(Beginnings, d)' <=> Coming(Beginnings, d)
                                      /\ Coming({"connected"}, d)' <=> Coming({"connected"}, d)
                                      /\ Coming({"terminated"}, d)' <=> Coming({"terminated"}, d)
      /\ Coming({"terminated"}, c)' <=> Coming({"terminated"}, c)
      /\ Coming({"connected"}, c) /\ ~Coming({"connected"}, c)' /\ Coming(CdrKinds, c)
      /\ ~Coming(Beginnings, c) /\ InItems(c)
  BY EventTaken, KindSets
<1>3. /\ \A d \in CdrCalls : InItems(d)' <=> InItems(d)
      /\ \A d \in CdrCalls : Ending(d)' <=> Ending(d)
  BY DEF InItems, Ending
<1>4. c \in wasUp
  BY <1>1, <1>2 DEF ToldInTurn
<1>5. /\ cdrItems' \in Seq(Records) /\ Len(cdrItems') <= MaxCdrs
      /\ RecordsOnce' /\ NewestFirst' /\ DOMAIN cdrItems' = DOMAIN cdrItems
      /\ \A d \in CdrCalls : Recorded(d)' <=> Recorded(d)
      /\ \A i \in DOMAIN cdrItems :
           \/ cdrItems[i].call # c /\ cdrItems'[i] = cdrItems[i]
           \/ /\ cdrItems[i].call = c /\ cdrItems'[i].call = c
              /\ cdrItems'[i].connected = TRUE /\ cdrItems'[i].ended = cdrItems[i].ended
  <2>. DEFINE k == RecordOf(c)
              r == [cdrItems[k] EXCEPT !.connected = TRUE]
  <2>1. \/ k = 0 /\ ~Recorded(c)
        \/ k \in DOMAIN cdrItems /\ cdrItems[k].call = c /\ k # 0
    BY <1>1, <1>2, RecordFound
  <2>2. cdrItems' = IF k = 0 THEN cdrItems ELSE [cdrItems EXCEPT ![k].connected = TRUE]
    BY DEF SetConnected
  <2>. HIDE DEF k
  <2>3. CASE k = 0 /\ ~Recorded(c)
    <3>1. cdrItems' = cdrItems
      BY <2>2, <2>3
    <3>2. \A i \in DOMAIN cdrItems : cdrItems[i].call # c
      BY <2>3 DEF Recorded
    <3>3. RecordsOnce' /\ NewestFirst' /\ \A d \in CdrCalls : Recorded(d)' <=> Recorded(d)
      BY <1>1, <1>3, <3>1 DEF RecordsOnce, NewestFirst, Recorded
    <3>. QED BY <1>1, <3>1, <3>2, <3>3 DEF CdrTypes
  <2>4. CASE k \in DOMAIN cdrItems /\ cdrItems[k].call = c /\ k # 0
    <3>1. /\ r \in Records /\ r.call = c /\ r.connected = TRUE /\ r.ended = cdrItems[k].ended
      <4>1. cdrItems[k] \in Records
        BY <1>1, <2>4, FieldsOf
      <4>. QED BY <2>4, <4>1 DEF Records
    <3>2. cdrItems' = [cdrItems EXCEPT ![k] = r]
      BY <2>2, <2>4
    <3>. HIDE DEF r
    <3>3. /\ cdrItems' \in Seq(Records) /\ Len(cdrItems') = Len(cdrItems)
          /\ cdrItems'[k] = r /\ DOMAIN cdrItems' = DOMAIN cdrItems
          /\ \A i \in DOMAIN cdrItems : i # k => cdrItems'[i] = cdrItems[i]
          /\ RecordsOnce' /\ NewestFirst'
          /\ \A d \in CdrCalls : Recorded(d)' <=> Recorded(d)
      BY <1>1, <1>3, <2>4, <3>1, <3>2, RecordSet
    <3>4. \A i \in DOMAIN cdrItems : cdrItems[i].call = c => i = k
      BY <1>1, <2>4 DEF RecordsOnce
    <3>5. Len(cdrItems') <= MaxCdrs
      BY <1>1, <3>3 DEF CdrTypes
    <3>. QED BY <2>4, <3>1, <3>3, <3>4, <3>5
  <2>. QED BY <2>1, <2>3, <2>4
<1>6. CdrTypes'
  BY <1>1, <1>2, <1>5 DEF CdrTypes
<1>7. SlotsApart'
  <2>1. \A d \in CdrCalls : Held(d)' => Held(d)
    BY <1>1, <1>2, <1>3 DEF Held
  <2>. QED BY <1>1, <2>1 DEF SlotsApart
<1>8. ASSUME NEW d \in CdrCalls PROVE CallFollowed(d)'
  <2>1. CASE d = c
    BY <1>1, <1>2, <1>3, <1>5, <2>1 DEF CallFollowed
  <2>2. CASE d # c
    BY <1>1, <1>2, <1>3, <1>5, <2>2 DEF CallFollowed
  <2>. QED BY <2>1, <2>2
<1>9. ItemsOnce'
  BY <1>1 DEF ItemsOnce
<1>10. ASSUME NEW i \in DOMAIN cdrItems' PROVE RecordSays(cdrItems[i])'
  <2>1. i \in DOMAIN cdrItems /\ RecordSays(cdrItems[i]) /\ cdrItems[i].call \in CdrCalls
    BY <1>1, <1>5, FieldsOf
  <2>2. CASE cdrItems[i].call = c
    BY <1>1, <1>2, <1>3, <1>4, <1>5, <2>1, <2>2 DEF RecordSays
  <2>3. CASE cdrItems[i].call # c
    BY <1>1, <1>2, <1>3, <1>5, <2>1, <2>3 DEF RecordSays
  <2>. QED BY <2>2, <2>3
<1>. QED BY <1>2, <1>5, <1>6, <1>7, <1>8, <1>9, <1>10 DEF CdrInv

(* Dart hears that it is over, and asks for the header.                    *)
LEMMA EndedKeeps ==
  ASSUME CdrInv, SlotsKept, toCdrs # <<>>, toCdrs' = Tail(toCdrs), UNCHANGED sip,
         NEW c \in CdrCalls, c = Head(toCdrs).call, Head(toCdrs).kind = "terminated",
         endings' = IF ItemOf(c) = 0 THEN endings
                    ELSE Append(endings, [of |-> c, found |-> items[ItemOf(c)]]),
         UNCHANGED <<items, cdrItems>>
  PROVE  CdrInv'
<1>1. /\ CdrTypes /\ SlotsApart /\ ToldInTurn /\ (\A d \in CdrCalls : CallFollowed(d))
      /\ ItemsOnce /\ (\A i \in DOMAIN cdrItems : RecordSays(cdrItems[i]))
      /\ RecordsOnce /\ NewestFirst
      /\ talk' = talk /\ slotOf' = slotOf /\ wasUp' = wasUp
  BY DEF CdrInv, sip
<1>2. /\ toCdrs' \in Seq(Reports) /\ ToldInTurn' /\ Held(c)
      /\ ~Coming(Beginnings, c)' /\ ~Ending(c) /\ talk[c] # "none"
      /\ \A d \in CdrCalls : d # c => /\ Coming(CdrKinds, d)' <=> Coming(CdrKinds, d)
                                      /\ Coming(Beginnings, d)' <=> Coming(Beginnings, d)
                                      /\ Coming({"connected"}, d)' <=> Coming({"connected"}, d)
                                      /\ Coming({"terminated"}, d)' <=> Coming({"terminated"}, d)
      /\ Coming({"connected"}, c)' <=> Coming({"connected"}, c)
      /\ ~Coming({"terminated"}, c)' /\ ~Coming(CdrKinds, c)' /\ talk[c] = "gone"
      /\ ~Coming(Beginnings, c) /\ InItems(c)
  BY EventTaken, KindSets
<1>3. ItemOf(c) # 0 /\ items[ItemOf(c)] = c
  BY <1>1, <1>2, ItemFound
<1>. DEFINE e == [of |-> c, found |-> c]
<1>4. endings' = Append(endings, e)
  BY <1>3
<1>5. e \in Endings /\ e.of = c /\ e.found = c
  BY DEF Endings
<1>. HIDE DEF e
<1>6. /\ endings' \in Seq(Endings)
      /\ \A i \in DOMAIN endings : i \in DOMAIN endings' /\ endings'[i] = endings[i]
      /\ Len(endings) + 1 \in DOMAIN endings' /\ endings'[Len(endings) + 1] = e
      /\ \A i \in DOMAIN endings' : i \in DOMAIN endings \/ i = Len(endings) + 1
  BY <1>1, <1>4, <1>5, AppendOf DEF CdrTypes
<1>7. /\ \A d \in CdrCalls : InItems(d)' <=> InItems(d)
      /\ \A d \in CdrCalls : Recorded(d)' <=> Recorded(d)
      /\ \A d \in CdrCalls : Ending(d)' <=> Ending(d) \/ d = c
  BY <1>5, <1>6 DEF InItems, Ending, Recorded
<1>8. CdrTypes'
  BY <1>1, <1>2, <1>6 DEF CdrTypes
<1>9. SlotsApart'
  <2>1. \A d \in CdrCalls : Held(d)' => Held(d)
    BY <1>1, <1>2, <1>7 DEF Held
  <2>. QED BY <1>1, <2>1 DEF SlotsApart
<1>10. ASSUME NEW d \in CdrCalls PROVE CallFollowed(d)'
  <2>1. CASE d = c
    BY <1>1, <1>2, <1>7, <2>1 DEF CallFollowed
  <2>2. CASE d # c
    BY <1>1, <1>2, <1>7, <2>2 DEF CallFollowed
  <2>. QED BY <2>1, <2>2
<1>11. ItemsOnce'
  <2>1. \A i \in DOMAIN endings : endings[i].of # c
    BY <1>2 DEF Ending
  <2>. QED BY <1>1, <1>5, <1>6, <2>1 DEF ItemsOnce
<1>12. RecordsOnce' /\ NewestFirst'
  BY <1>1, <1>7 DEF RecordsOnce, NewestFirst
<1>13. ASSUME NEW i \in DOMAIN cdrItems' PROVE RecordSays(cdrItems[i])'
  <2>1. i \in DOMAIN cdrItems /\ RecordSays(cdrItems[i]) /\ cdrItems[i].call \in CdrCalls
    BY <1>1, FieldsOf
  <2>. QED BY <1>1, <1>2, <1>7, <2>1 DEF RecordSays
<1>. QED BY <1>2, <1>8, <1>9, <1>10, <1>11, <1>12, <1>13 DEF CdrInv

(* A list without repetitions, less one of its elements.                   *)
LEMMA LessOne ==
  ASSUME NEW M, NEW s \in Seq(M), NEW k \in DOMAIN s,
         \A i, j \in DOMAIN s : s[i] = s[j] => i = j
  PROVE  LET q == RemoveAt(s, k) IN
         /\ q \in Seq(M) /\ Len(q) = Len(s) - 1
         /\ \A i \in DOMAIN q : \E j \in DOMAIN s : j # k /\ q[i] = s[j]
         /\ \A j \in DOMAIN s : j # k => \E i \in DOMAIN q : q[i] = s[j]
         /\ \A i, j \in DOMAIN q : q[i] = q[j] => i = j
<1>. DEFINE q == RemoveAt(s, k)
<1>1. /\ q \in Seq(M) /\ Len(q) = Len(s) - 1 /\ DOMAIN q = 1..Len(s) - 1
      /\ \A i \in 1..Len(s) - 1 : q[i] = IF i < k THEN s[i] ELSE s[i + 1]
  BY Removed
<1>2. DOMAIN s = 1..Len(s) /\ Len(s) \in Nat /\ k \in 1..Len(s)
  OBVIOUS
<1>. HIDE DEF q
<1>3. ASSUME NEW i \in DOMAIN q
      PROVE  \E j \in DOMAIN s : j # k /\ q[i] = s[j] /\ j = IF i < k THEN i ELSE i + 1
  <2>. DEFINE n == IF i < k THEN i ELSE i + 1
  <2>1. n \in 1..Len(s) /\ n # k
    BY <1>1, <1>2
  <2>2. q[i] = s[n]
    BY <1>1
  <2>. QED BY <1>2, <2>1, <2>2
<1>4. ASSUME NEW j \in DOMAIN s, j # k PROVE \E i \in DOMAIN q : q[i] = s[j]
  <2>. DEFINE n == IF j < k THEN j ELSE j - 1
  <2>1. n \in 1..Len(s) - 1 /\ (IF n < k THEN n ELSE n + 1) = j
    BY <1>2, <1>4
  <2>. HIDE DEF n
  <2>2. q[n] = s[j]
    BY <1>1, <2>1
  <2>. QED BY <1>1, <2>1, <2>2
<1>5. ASSUME NEW i \in DOMAIN q, NEW j \in DOMAIN q, q[i] = q[j] PROVE i = j
  <2>1. (IF i < k THEN i ELSE i + 1) = IF j < k THEN j ELSE j + 1
    BY <1>3, <1>5
  <2>2. i \in Nat /\ j \in Nat /\ k \in Nat
    BY <1>1, <1>2
  <2>. QED BY <2>1, <2>2
<1>. QED BY <1>1, <1>3, <1>4, <1>5 DEF q

LEMMA FirstIs ==
  ASSUME NEW M, NEW s \in Seq(M), NEW k \in DOMAIN s, NEW x, x = s[k],
         \A i, j \in DOMAIN s : s[i] = s[j] => i = j
  PROVE  RemoveFirst(s, x) = RemoveAt(s, k)
<1>. DEFINE I == {i \in 1..Len(s) : s[i] = x}
<1>1. DOMAIN s = 1..Len(s) /\ Len(s) \in Nat /\ k \in Nat
  OBVIOUS
<1>2. I = {k}
  BY <1>1
<1>3. Min(I) = k
  BY <1>1, <1>2 DEF Min
<1>4. SelectInSeq(s, LAMBDA v : v = x) = k
  BY <1>2, <1>3 DEF SelectInSeq
<1>. QED BY <1>1, <1>4 DEF RemoveFirst

(* The header has come: the record has its outcome, the call goes.         *)
LEMMA HeaderKeeps ==
  ASSUME CdrInv, CdrHeader
  PROVE  CdrInv'
<1>. DEFINE e == Head(endings)
            c == Head(endings).of
<1>1. /\ CdrTypes /\ SlotsApart /\ ToldInTurn /\ (\A d \in CdrCalls : CallFollowed(d))
      /\ ItemsOnce /\ (\A i \in DOMAIN cdrItems : RecordSays(cdrItems[i]))
      /\ RecordsOnce /\ NewestFirst
      /\ talk' = talk /\ slotOf' = slotOf /\ wasUp' = wasUp /\ toCdrs' = toCdrs
      /\ endings # <<>> /\ endings' = Tail(endings)
      /\ SetTerminated(c) /\ items' = RemoveFirst(items, e.found)
  BY DEF CdrInv, CdrHeader, sip
<1>2. /\ endings' \in Seq(Endings) /\ e \in Endings /\ e = endings[1] /\ 1 \in DOMAIN endings
      /\ \A i \in DOMAIN endings' : i + 1 \in DOMAIN endings /\ endings'[i] = endings[i + 1]
      /\ \A i \in DOMAIN endings : i = 1 \/ (i > 1 /\ i - 1 \in DOMAIN endings'
                                             /\ endings'[i - 1] = endings[i])
      /\ \A i \in DOMAIN endings' : i \in Nat /\ i >= 1
  BY <1>1, TailOf DEF CdrTypes
<1>3. c \in CdrCalls /\ e.found = c /\ e.of = c
  BY <1>1, <1>2, FieldsOf DEF ItemsOnce
<1>. HIDE DEF e, c
<1>4. /\ \A d \in CdrCalls : Ending(d) <=> Ending(d)' \/ d = c
      /\ \A i \in DOMAIN endings' : endings'[i].of # c
      /\ \A i \in DOMAIN endings' : endings'[i].of = endings'[i].found
      /\ \A i, j \in DOMAIN endings' : endings'[i].of = endings'[j].of => i = j
  <2>1. ASSUME NEW d \in CdrCalls PROVE Ending(d) <=> Ending(d)' \/ d = c
    BY <1>2, <1>3 DEF Ending
  <2>2. \A i \in DOMAIN endings' : endings'[i].of # c /\ endings'[i].of = endings'[i].found
    BY <1>1, <1>2, <1>3 DEF ItemsOnce
  <2>3. ASSUME NEW i \in DOMAIN endings', NEW j \in DOMAIN endings',
               endings'[i].of = endings'[j].of
        PROVE  i = j
    <3>1. i + 1 = j + 1
      BY <1>1, <1>2, <2>3 DEF ItemsOnce
    <3>. QED BY <1>2, <3>1
  <2>. QED BY <2>1, <2>2, <2>3
<1>5. talk[c] = "gone" /\ InItems(c) /\ ~Coming(CdrKinds, c)
  BY <1>1, <1>3, <1>4 DEF CallFollowed
<1>6. ~Coming(Beginnings, c) /\ ~Coming({"connected"}, c) /\ ~Coming({"terminated"}, c)
  BY <1>5, KindSets DEF Coming
<1>7. /\ items' \in Seq(CdrCalls)
      /\ \A i, j \in DOMAIN items' : items'[i] = items'[j] => i = j
      /\ \A d \in CdrCalls : InItems(d)' <=> InItems(d) /\ d # c
  <2>1. PICK k \in DOMAIN items : items[k] = c
    BY <1>5 DEF InItems
  <2>2. items \in Seq(CdrCalls) /\ \A i, j \in DOMAIN items : items[i] = items[j] => i = j
    BY <1>1 DEF CdrTypes, ItemsOnce
  <2>3. items' = RemoveAt(items, k)
    BY <1>1, <1>3, <2>1, <2>2, FirstIs
  <2>4. /\ items' \in Seq(CdrCalls)
        /\ \A i \in DOMAIN items' : \E j \in DOMAIN items : j # k /\ items'[i] = items[j]
        /\ \A j \in DOMAIN items : j # k => \E i \in DOMAIN items' : items'[i] = items[j]
        /\ \A i, j \in DOMAIN items' : items'[i] = items'[j] => i = j
    BY <2>2, <2>3, LessOne
  <2>5. ASSUME NEW d \in CdrCalls PROVE InItems(d)' <=> InItems(d) /\ d # c
    BY <2>1, <2>2, <2>4 DEF InItems
  <2>. QED BY <2>4, <2>5
<1>8. /\ \A K, d : Coming(K, d)' <=> Coming(K, d)
  BY <1>1 DEF Coming
<1>9. /\ cdrItems' \in Seq(Records) /\ Len(cdrItems') <= MaxCdrs
      /\ RecordsOnce' /\ NewestFirst' /\ DOMAIN cdrItems' = DOMAIN cdrItems
      /\ \A d \in CdrCalls : Recorded(d)' <=> Recorded(d)
      /\ \A i \in DOMAIN cdrItems :
           \/ cdrItems[i].call # c /\ cdrItems'[i] = cdrItems[i]
           \/ /\ cdrItems[i].call = c /\ cdrItems'[i].call = c
              /\ cdrItems'[i].ended = c /\ cdrItems'[i].connected = cdrItems[i].connected
  <2>. DEFINE k == RecordOf(c)
              r == [cdrItems[k] EXCEPT !.ended = c]
  <2>1. \/ k = 0 /\ ~Recorded(c)
        \/ k \in DOMAIN cdrItems /\ cdrItems[k].call = c /\ k # 0
    BY <1>1, <1>3, <1>5, RecordFound
  <2>2. cdrItems' = IF k = 0 THEN cdrItems ELSE [cdrItems EXCEPT ![k].ended = c]
    BY <1>1 DEF SetTerminated
  <2>. HIDE DEF k
  <2>3. CASE k = 0 /\ ~Recorded(c)
    <3>1. cdrItems' = cdrItems
      BY <2>2, <2>3
    <3>2. \A i \in DOMAIN cdrItems : cdrItems[i].call # c
      BY <2>3 DEF Recorded
    <3>3. RecordsOnce' /\ NewestFirst' /\ \A d \in CdrCalls : Recorded(d)' <=> Recorded(d)
      BY <1>1, <1>7, <3>1 DEF RecordsOnce, NewestFirst, Recorded
    <3>. QED BY <1>1, <3>1, <3>2, <3>3 DEF CdrTypes
  <2>4. CASE k \in DOMAIN cdrItems /\ cdrItems[k].call = c /\ k # 0
    <3>1. /\ r \in Records /\ r.call = c /\ r.ended = c /\ r.connected = cdrItems[k].connected
      <4>1. cdrItems[k] \in Records
        BY <1>1, <2>4, FieldsOf
      <4>. QED BY <1>3, <2>4, <4>1 DEF Records
    <3>2. cdrItems' = [cdrItems EXCEPT ![k] = r]
      BY <2>2, <2>4
    <3>. HIDE DEF r
    <3>3. /\ cdrItems' \in Seq(Records) /\ Len(cdrItems') = Len(cdrItems)
          /\ cdrItems'[k] = r /\ DOMAIN cdrItems' = DOMAIN cdrItems
          /\ \A i \in DOMAIN cdrItems : i # k => cdrItems'[i] = cdrItems[i]
          /\ RecordsOnce' /\ NewestFirst'
          /\ \A d \in CdrCalls : Recorded(d)' <=> Recorded(d)
      <4>1. r.call = cdrItems[k].call /\ \A d \in CdrCalls : InItems(d)' => InItems(d)
        BY <1>7, <2>4, <3>1
      <4>. QED BY <1>1, <2>4, <3>1, <3>2, <4>1, RecordSet
    <3>4. \A i \in DOMAIN cdrItems : cdrItems[i].call = c => i = k
      BY <1>1, <2>4 DEF RecordsOnce
    <3>5. Len(cdrItems') <= MaxCdrs
      BY <1>1, <3>3 DEF CdrTypes
    <3>. QED BY <2>4, <3>1, <3>3, <3>4, <3>5
  <2>. QED BY <2>1, <2>3, <2>4
<1>10. CdrTypes'
  BY <1>1, <1>2, <1>7, <1>9 DEF CdrTypes
<1>11. SlotsApart'
  <2>1. \A d \in CdrCalls : Held(d)' => Held(d)
    BY <1>1, <1>7, <1>8 DEF Held
  <2>. QED BY <1>1, <2>1 DEF SlotsApart
<1>12. ToldInTurn'
  BY <1>1, <1>8 DEF ToldInTurn
<1>13. ASSUME NEW d \in CdrCalls PROVE CallFollowed(d)'
  <2>1. CASE d = c
    BY <1>1, <1>4, <1>5, <1>6, <1>7, <1>8, <1>9, <2>1 DEF CallFollowed, Ending
  <2>2. CASE d # c
    BY <1>1, <1>4, <1>7, <1>8, <1>9, <2>2 DEF CallFollowed
  <2>. QED BY <2>1, <2>2
<1>14. ItemsOnce'
  BY <1>4, <1>7 DEF ItemsOnce
<1>15. ASSUME NEW i \in DOMAIN cdrItems' PROVE RecordSays(cdrItems[i])'
  <2>1. i \in DOMAIN cdrItems /\ RecordSays(cdrItems[i]) /\ cdrItems[i].call \in CdrCalls
    BY <1>1, <1>9, FieldsOf
  <2>2. CASE cdrItems[i].call = c
    BY <1>1, <1>7, <1>8, <1>9, <2>1, <2>2 DEF RecordSays
  <2>3. CASE cdrItems[i].call # c
    BY <1>1, <1>7, <1>8, <1>9, <2>1, <2>3 DEF RecordSays
  <2>. QED BY <2>2, <2>3
<1>. QED BY <1>9, <1>10, <1>11, <1>12, <1>13, <1>14, <1>15 DEF CdrInv

(* The user removes the record of a call that is over.                     *)
LEMMA RemovalKeeps ==
  ASSUME CdrInv, SlotsKept, NEW k \in DOMAIN cdrItems, RemoveCdr(k)
  PROVE  CdrInv'
<1>1. /\ CdrTypes /\ SlotsApart /\ ToldInTurn /\ (\A d \in CdrCalls : CallFollowed(d))
      /\ ItemsOnce /\ (\A i \in DOMAIN cdrItems : RecordSays(cdrItems[i]))
      /\ RecordsOnce /\ NewestFirst
      /\ UNCHANGED <<talk, slotOf, wasUp, toCdrs, items, endings>>
      /\ cdrItems[k].ended # Unended /\ cdrItems' = RemoveAt(cdrItems, k)
  BY DEF CdrInv, RemoveCdr, sip, SlotsKept
<1>2. ~InItems(cdrItems[k].call)
  BY <1>1 DEF RecordSays
<1>3. cdrItems \in Seq(Records) /\ Len(cdrItems) \in Nat /\ Len(cdrItems) <= MaxCdrs
      /\ MaxCdrs \in Nat /\ DOMAIN cdrItems = 1..Len(cdrItems)
  BY <1>1, CdrAssumption DEF CdrTypes
<1>4. /\ cdrItems' \in Seq(Records) /\ Len(cdrItems') = Len(cdrItems) - 1
      /\ DOMAIN cdrItems' = 1..Len(cdrItems) - 1
      /\ \A i \in 1..Len(cdrItems) - 1 :
           cdrItems'[i] = IF i < k THEN cdrItems[i] ELSE cdrItems[i + 1]
  BY <1>1, <1>3, Removed
<1>5. ASSUME NEW i \in DOMAIN cdrItems'
      PROVE  \E j \in DOMAIN cdrItems : /\ j = IF i < k THEN i ELSE i + 1
                                        /\ j # k /\ cdrItems'[i] = cdrItems[j]
  <2>. DEFINE n == IF i < k THEN i ELSE i + 1
  <2>1. n \in 1..Len(cdrItems) /\ n # k
    BY <1>3, <1>4
  <2>2. cdrItems'[i] = cdrItems[n]
    BY <1>4
  <2>. QED BY <1>3, <2>1, <2>2
<1>6. ASSUME NEW j \in DOMAIN cdrItems, j # k
      PROVE  \E i \in DOMAIN cdrItems' : /\ i = IF j < k THEN j ELSE j - 1
                                         /\ cdrItems'[i] = cdrItems[j]
  <2>. DEFINE n == IF j < k THEN j ELSE j - 1
  <2>1. n \in 1..Len(cdrItems) - 1 /\ (IF n < k THEN n ELSE n + 1) = j
    BY <1>3, <1>6
  <2>. HIDE DEF n
  <2>2. cdrItems'[n] = cdrItems[j]
    BY <1>4, <2>1
  <2>. QED BY <1>4, <2>1, <2>2 DEF n
<1>7. /\ \A d : InItems(d)' <=> InItems(d)
      /\ \A d : Ending(d)' <=> Ending(d)
      /\ \A K, d : Coming(K, d)' <=> Coming(K, d)
      /\ \A d : Recorded(d)' => Recorded(d)
  BY <1>1, <1>5 DEF InItems, Ending, Coming, Recorded
<1>8. CdrTypes'
  BY <1>1, <1>3, <1>4 DEF CdrTypes
<1>9. SlotsApart' /\ ToldInTurn' /\ ItemsOnce'
  BY <1>1, <1>7 DEF SlotsApart, ToldInTurn, ItemsOnce, Held
<1>10. ASSUME NEW d \in CdrCalls PROVE CallFollowed(d)'
  BY <1>1, <1>7 DEF CallFollowed
<1>11. ASSUME NEW i \in DOMAIN cdrItems' PROVE RecordSays(cdrItems[i])'
  <2>1. PICK j \in DOMAIN cdrItems : cdrItems'[i] = cdrItems[j]
    BY <1>5
  <2>2. RecordSays(cdrItems[j])
    BY <1>1
  <2>. QED BY <1>1, <1>7, <2>1, <2>2 DEF RecordSays
<1>12. RecordsOnce'
  <2>1. ASSUME NEW i \in DOMAIN cdrItems', NEW j \in DOMAIN cdrItems',
               cdrItems'[i].call = cdrItems'[j].call
        PROVE  i = j
    <3>1. (IF i < k THEN i ELSE i + 1) = IF j < k THEN j ELSE j + 1
      BY <1>1, <1>5, <2>1 DEF RecordsOnce
    <3>2. i \in Nat /\ j \in Nat /\ k \in Nat
      BY <1>3, <1>4
    <3>. QED BY <3>1, <3>2
  <2>. QED BY <2>1 DEF RecordsOnce
<1>13. NewestFirst'
  <2>1. ASSUME NEW d \in CdrCalls, InItems(d)', NEW i \in DOMAIN cdrItems',
               slotOf'[cdrItems'[i].call] = slotOf'[d]
        PROVE  \E m \in DOMAIN cdrItems' : m <= i /\ cdrItems'[m].call = d
    <3>1. PICK j \in DOMAIN cdrItems : /\ j = IF i < k THEN i ELSE i + 1
                                       /\ j # k /\ cdrItems'[i] = cdrItems[j]
      BY <1>5
    <3>2. PICK h \in DOMAIN cdrItems : h <= j /\ cdrItems[h].call = d
      BY <1>1, <1>7, <2>1, <3>1 DEF NewestFirst
    <3>3. h # k
      BY <1>2, <1>7, <2>1, <3>2
    <3>4. PICK m \in DOMAIN cdrItems' : /\ m = IF h < k THEN h ELSE h - 1
                                        /\ cdrItems'[m] = cdrItems[h]
      BY <1>6, <3>3
    <3>5. m <= i
      <4>1. i \in Nat /\ j \in Nat /\ h \in Nat /\ k \in Nat
        BY <1>3, <1>4
      <4>. QED BY <3>1, <3>2, <3>3, <3>4, <4>1
    <3>. QED BY <3>2, <3>4, <3>5
  <2>. QED BY <2>1 DEF NewestFirst
<1>. QED BY <1>8, <1>9, <1>10, <1>11, <1>12, <1>13 DEF CdrInv

LEMMA CdrBegins == CdrInit => CdrInv
<1>. SUFFICES ASSUME CdrInit PROVE CdrInv
  OBVIOUS
<1>1. DOMAIN toCdrs = {} /\ DOMAIN items = {} /\ DOMAIN endings = {} /\ DOMAIN cdrItems = {}
  BY DEF CdrInit
<1>2. CdrTypes
  BY CdrAssumption DEF CdrInit, CdrTypes
<1>3. /\ \A c \in CdrCalls : /\ ~InItems(c) /\ ~Ending(c) /\ ~Recorded(c) /\ ~Held(c)
                             /\ talk[c] = "none" /\ c \notin wasUp
      /\ \A K, c : ~Coming(K, c)
  BY <1>1 DEF InItems, Ending, Recorded, Coming, Held, CdrInit
<1>4. SlotsApart /\ ToldInTurn /\ \A c \in CdrCalls : CallFollowed(c)
  BY <1>1, <1>3 DEF SlotsApart, ToldInTurn, CallFollowed
<1>5. ItemsOnce /\ RecordsOnce /\ NewestFirst
  BY <1>1 DEF ItemsOnce, RecordsOnce, NewestFirst
<1>. QED BY <1>1, <1>2, <1>4, <1>5 DEF CdrInv

LEMMA CdrStep == SlotsKept /\ CdrInv /\ [CdrNext]_cvars => CdrInv'
<1>. SUFFICES ASSUME SlotsKept, CdrInv, [CdrNext]_cvars PROVE CdrInv'
  OBVIOUS
<1>1. ASSUME NEW c \in CdrCalls, NEW slot \in CdrSlots, NEW kind \in {"invited", "incoming"},
             BeginsIn(c, slot, kind)
      PROVE  CdrInv'
  BY <1>1, BeginsKeeps DEF Beginnings
<1>2. ASSUME NEW c \in CdrCalls, IsUp(c) \/ EndsIn(c) PROVE CdrInv'
  BY <1>2, UpKeeps, EndsKeeps
<1>3. CASE CdrEvent
  <2>. DEFINE n == Head(toCdrs)
              c == Head(toCdrs).call
  <2>1. /\ toCdrs # <<>> /\ toCdrs' = Tail(toCdrs) /\ UNCHANGED sip
        /\ \/ /\ n.kind = "invited" \/ (n.kind = "incoming" /\ ItemOf(c) = 0)
              /\ items' = Append(items, c) /\ AddCdr(c) /\ UNCHANGED endings
           \/ /\ n.kind = "incoming" /\ ItemOf(c) # 0
           \/ /\ n.kind = "connected"
              /\ SetConnected(c) /\ UNCHANGED <<items, endings>>
           \/ /\ n.kind = "terminated"
              /\ endings' = IF ItemOf(c) = 0 THEN endings
                            ELSE Append(endings, [of |-> c, found |-> items[ItemOf(c)]])
              /\ UNCHANGED <<items, cdrItems>>
    BY <1>3 DEF CdrEvent
  <2>2. c \in CdrCalls
    BY <2>1, ReportIs DEF CdrInv, CdrTypes
  <2>3. /\ Held(c)
        /\ n.kind \in Beginnings => ~InItems(c)
    BY <2>1, <2>2, EventTaken
  <2>4. n.kind \in Beginnings => ItemOf(c) = 0
    BY <2>2, <2>3, ItemFound DEF CdrInv
  <2>5. CASE n.kind \in Beginnings /\ items' = Append(items, c) /\ AddCdr(c) /\ UNCHANGED endings
    BY <2>1, <2>2, <2>5, EnterKeeps
  <2>6. CASE n.kind = "connected" /\ SetConnected(c) /\ UNCHANGED <<items, endings>>
    BY <2>1, <2>2, <2>6, ConnectedKeeps
  <2>7. CASE /\ n.kind = "terminated"
             /\ endings' = IF ItemOf(c) = 0 THEN endings
                           ELSE Append(endings, [of |-> c, found |-> items[ItemOf(c)]])
             /\ UNCHANGED <<items, cdrItems>>
    BY <2>1, <2>2, <2>7, EndedKeeps
  <2>. QED BY <2>1, <2>4, <2>5, <2>6, <2>7 DEF Beginnings
<1>4. CASE CdrHeader
  BY <1>4, HeaderKeeps
<1>5. ASSUME NEW i \in DOMAIN cdrItems, RemoveCdr(i) PROVE CdrInv'
  BY <1>5, RemovalKeeps
<1>6. CASE UNCHANGED cvars
  <2>1. UNCHANGED <<talk, slotOf, wasUp, toCdrs, items, endings, cdrItems>>
    BY <1>6 DEF cvars
  <2>2. /\ \A d : InItems(d)' <=> InItems(d)
        /\ \A d : Ending(d)' <=> Ending(d)
        /\ \A K, d : Coming(K, d)' <=> Coming(K, d)
        /\ \A d : Recorded(d)' <=> Recorded(d)
    BY <2>1 DEF InItems, Ending, Coming, Recorded
  <2>3. (CdrTypes /\ SlotsApart /\ ToldInTurn /\ ItemsOnce /\ RecordsOnce)'
    BY <2>1, <2>2 DEF CdrInv, CdrTypes, SlotsApart, ToldInTurn, ItemsOnce, RecordsOnce, Held
  <2>4. /\ NewestFirst' /\ (\A c \in CdrCalls : CallFollowed(c)')
        /\ \A i \in DOMAIN cdrItems' : RecordSays(cdrItems[i])'
    BY <2>1, <2>2 DEF CdrInv, NewestFirst, CallFollowed, RecordSays
  <2>. QED BY <2>3, <2>4 DEF CdrInv
<1>. QED BY <1>1, <1>2, <1>3, <1>4, <1>5, <1>6 DEF CdrNext

(* Whatever calls use its slot before and after, and however many records  *)
(* there are, a record has the outcome of its own call and no other's.     *)
THEOREM RecordsTrue == SlotsKept /\ CdrSpec => []CdrsTrue
<1>1. CdrInv => CdrsTrue
  <2>. SUFFICES ASSUME CdrInv, NEW r \in Range(cdrItems)
                PROVE  /\ r.ended \in {Unended, r.call} /\ (r.connected => r.call \in wasUp)
                       /\ toCdrs \o endings = <<>> =>
                            /\ talk[r.call] = "gone" => r.ended = r.call
                            /\ r.call \in wasUp => r.connected
    BY DEF CdrsTrue
  <2>1. PICK i \in DOMAIN cdrItems : r = cdrItems[i]
    BY DEF Range
  <2>2. RecordSays(r) /\ r.call \in CdrCalls /\ CallFollowed(r.call)
    BY <2>1, FieldsOf DEF CdrInv
  <2>3. ASSUME toCdrs \o endings = <<>>
        PROVE  /\ talk[r.call] = "gone" => r.ended = r.call
               /\ r.call \in wasUp => r.connected
    <3>1. toCdrs \in Seq(Reports) /\ endings \in Seq(Endings)
      BY DEF CdrInv, CdrTypes
    <3>2. toCdrs = <<>> /\ endings = <<>>
      BY <2>3, <3>1
    <3>3. (\A K : ~Coming(K, r.call)) /\ ~Ending(r.call)
      BY <3>2 DEF Coming, Ending
    <3>. QED BY <2>2, <3>3 DEF RecordSays, CallFollowed
  <2>. QED BY <2>2, <2>3 DEF RecordSays
<1>2. SlotsKept /\ CdrInv /\ [CdrNext]_cvars => CdrInv'
  BY CdrStep
<1>3. SlotsKept /\ CdrSpec => []CdrInv
  <2>. SUFFICES ASSUME SlotsKept PROVE CdrSpec => []CdrInv
    OBVIOUS
  <2>. QED BY <1>2, CdrBegins, PTL DEF CdrSpec
<1>. QED BY <1>1, <1>3, PTL

-----------------------------------------------------------------------------
(* Audio devices, however headsets, selections and loads cross.            *)
Count == Len(Available)


(* A finite set of numbers can be put in ascending order: a number's place *)
(* is how many there are up to it.                                         *)
LEMMA Ascending ==
  ASSUME NEW S \in SUBSET Nat, IsFiniteSet(S)
  PROVE  \E s \in [1..Cardinality(S) -> S] : \A i, j \in DOMAIN s : i < j => s[i] < s[j]
<1>. DEFINE n    == Cardinality(S)
            To(x) == {y \in S : y <= x}
            rank == [x \in S |-> Cardinality(To(x))]
<1>1. n \in Nat
  BY FS_CardinalityType
<1>2. ASSUME NEW x \in S
      PROVE  IsFiniteSet(To(x)) /\ rank[x] \in 1..n
  <2>1. IsFiniteSet(To(x)) /\ Cardinality(To(x)) <= n
    BY FS_Subset
  <2>2. Cardinality(To(x)) \in Nat
    BY <2>1, FS_CardinalityType
  <2>3. x \in To(x)
    OBVIOUS
  <2>4. Cardinality(To(x)) # 0
    BY <2>1, <2>3, FS_EmptySet
  <2>. QED BY <1>1, <2>1, <2>2, <2>4
<1>3. ASSUME NEW x \in S, NEW y \in S, x < y PROVE rank[x] < rank[y]
  <2>1. To(x) \in SUBSET To(y) /\ To(x) # To(y)
    <3>. x \in Nat /\ y \in Nat
      OBVIOUS
    <3>. y <= y /\ ~(y <= x)
      BY <1>3
    <3>1. y \in To(y) /\ y \notin To(x)
      OBVIOUS
    <3>2. ASSUME NEW z \in S, z <= x PROVE z <= y
      <4>1. z \in Nat
        OBVIOUS
      <4>. QED BY <1>3, <3>2, <4>1
    <3>. QED BY <3>1, <3>2
  <2>2. Cardinality(To(x)) <= Cardinality(To(y)) /\ Cardinality(To(x)) # Cardinality(To(y))
    BY <1>2, <2>1, FS_Subset
  <2>3. rank[x] \in Nat /\ rank[y] \in Nat
    BY <1>2
  <2>. QED BY <2>2, <2>3
<1>. HIDE DEF rank, n
<1>4. rank \in Surjection(S, 1..n)
  <2>1. rank \in Injection(S, 1..n)
    <3>1. rank \in [S -> 1..n]
      BY <1>2 DEF rank
    <3>2. ASSUME NEW x \in S, NEW y \in S, rank[x] = rank[y] PROVE x = y
      <4>1. rank[x] \in Nat /\ rank[y] \in Nat /\ x \in Nat /\ y \in Nat
        <5>1. rank[x] \in 1..n /\ rank[y] \in 1..n
          BY <1>2
        <5>2. x \in Nat /\ y \in Nat
          OBVIOUS
        <5>. QED BY <1>1, <5>1, <5>2
      <4>2. ~(rank[x] < rank[y]) /\ ~(rank[y] < rank[x])
        BY <3>2, <4>1
      <4>3. ~(x < y) /\ ~(y < x)
        BY <1>3, <4>2
      <4>. QED BY <4>1, <4>3
    <3>. QED BY <3>1, <3>2 DEF Injection, IsInjective
  <2>2. IsFiniteSet(1..n) /\ Cardinality(1..n) = n
    BY <1>1, FS_Interval
  <2>. QED BY <2>1, <2>2, FS_Injection DEF n
<1>. DEFINE s == [i \in 1..n |-> CHOOSE x \in S : rank[x] = i]
<1>5. ASSUME NEW i \in 1..n PROVE s[i] \in S /\ rank[s[i]] = i
  BY <1>4 DEF Surjection
<1>6. ASSUME NEW i \in 1..n, NEW j \in 1..n, i < j PROVE s[i] < s[j]
  <2>. HIDE DEF s
  <2>1. s[i] \in S /\ s[j] \in S /\ rank[s[i]] = i /\ rank[s[j]] = j
    BY <1>5
  <2>2. ~(s[j] < s[i]) /\ s[i] # s[j]
    <3>1. ~(j < i) /\ i # j
      BY <1>1, <1>6
    <3>. QED BY <1>3, <2>1, <3>1
  <2>3. s[i] \in Nat /\ s[j] \in Nat
    BY <2>1
  <2>. QED BY <2>2, <2>3
<1>7. s \in [1..n -> S]
  BY <1>5
<1>. HIDE DEF s
<1>. QED BY <1>6, <1>7 DEF n

(* The devices of the phone, each at one place.                            *)
LEMMA AvailableIs ==
  ASSUME present \subseteq AllDevices
  PROVE  /\ Available \in Seq(present) /\ Count \in Nat /\ DOMAIN Available = 1..Count
         /\ \A i, j \in 1..Count : Available[i] = Available[j] => i = j
         /\ \A d \in present : \E i \in 1..Count : Available[i] = d
<1>. DEFINE n == Cardinality(present)
<1>1. present \in SUBSET Nat /\ IsFiniteSet(present) /\ n \in Nat
  <2>1. present \in SUBSET AllDevices /\ IsFiniteSet(AllDevices)
    BY DevicesAssumption DEF AllDevices
  <2>2. IsFiniteSet(present)
    BY <2>1, FS_Subset
  <2>. QED BY <2>2, DevicesAssumption, FS_CardinalityType DEF AllDevices
<1>2. /\ Available \in [1..n -> present]
      /\ \A i, j \in DOMAIN Available : i < j => Available[i] < Available[j]
  BY <1>1, Ascending DEF Available
<1>3. /\ Available \in Seq(present) /\ Len(Available) = n /\ DOMAIN Available = 1..n
  BY <1>1, <1>2
<1>. HIDE DEF n
<1>4. ASSUME NEW i \in 1..n, NEW j \in 1..n, Available[i] = Available[j] PROVE i = j
  <2>1. Available[i] \in Nat /\ Available[j] \in Nat /\ i \in Nat /\ j \in Nat
    <3>1. Available[i] \in present /\ Available[j] \in present
      BY <1>3, <1>4
    <3>2. present \subseteq Nat
      BY <1>1
    <3>3. Available[i] \in Nat /\ Available[j] \in Nat
      BY <3>1, <3>2
    <3>4. i \in Nat /\ j \in Nat
      BY <1>1
    <3>. QED BY <3>3, <3>4
  <2>2. ~(Available[i] < Available[j]) /\ ~(Available[j] < Available[i])
    BY <1>4, <2>1
  <2>3. ~(i < j) /\ ~(j < i)
    BY <1>2, <1>3, <2>2
  <2>. QED BY <2>1, <2>3
<1>5. Available \in Surjection(1..n, present)
  <2>1. Available \in Injection(1..n, present)
    BY <1>2, <1>4 DEF Injection, IsInjective
  <2>2. IsFiniteSet(1..n) /\ Cardinality(1..n) = n
    BY <1>1, FS_Interval
  <2>. QED BY <1>1, <2>1, <2>2, FS_Injection DEF n
<1>. QED BY <1>1, <1>3, <1>4, <1>5 DEF Count, Surjection

LEMMA IndexIs ==
  ASSUME present \subseteq AllDevices, NEW i \in 0..Count - 1
  PROVE  /\ DeviceAt(i) = Available[i + 1] /\ i + 1 \in 1..Count
         /\ Available[i + 1] \in present /\ Available[i + 1] \in AllDevices
         /\ DeviceAt(i) # NoDevice
<1>1. Available \in Seq(present) /\ Count \in Nat /\ DOMAIN Available = 1..Count
  BY AvailableIs
<1>2. i + 1 \in 1..Count
  BY <1>1
<1>3. Available[i + 1] \in present /\ Available[i + 1] \in AllDevices
  BY <1>1, <1>2
<1>4. Available[i + 1] # 0
  BY <1>3, DevicesAssumption DEF AllDevices
<1>5. DeviceAt(i) = Available[i + 1]
  BY DEF DeviceAt, Count
<1>. QED BY <1>2, <1>3, <1>4, <1>5 DEF NoDevice

LEMMA AppendLen ==
  ASSUME NEW S, NEW q \in Seq(S), NEW x \in S
  PROVE  Len(Append(q, x)) = Len(q) + 1
OBVIOUS

-----------------------------------------------------------------------------
(* The types of the devices' variables.                                    *)

ShownDevices == AllDevices \cup {NoDevice}
DvcAsks ==
  [m: {"number"}, load: LoadIds] \cup [m: {"get"}, load: LoadIds, index: Nat]
    \cup [m: {"set"}, index: Nat] \cup {Changed}
SizeReplies == [m: {"number"}, load: LoadIds, size: Nat]
GetReplies  == [m: {"get"}, load: LoadIds, index: Nat, device: ShownDevices,
                selected: BOOLEAN]
SetReplies  == [m: {"set"}, index: Nat, ok: BOOLEAN]
DvcReplies  == SizeReplies \cup GetReplies \cup SetReplies \cup {Changed}

PhoneOK == /\ Fixed \subseteq present /\ present \subseteq AllDevices
           /\ selAudioDevice \in AllDevices
ListOK  == /\ dvcs \in Seq(ShownDevices) /\ IsInjective(dvcs)
           /\ selGuid \in ShownDevices \cup {NoGuid} /\ selIndex \in Int /\ selIndex >= -1
LoadsOK == /\ DOMAIN loads \subseteq LoadIds
           /\ \A l \in DOMAIN loads : loads[l] \in Loading
QueuesOK == dvcCalls \in Seq(DvcAsks) /\ dvcAnswers \in Seq(DvcReplies)
HistoryOK == settled \in BOOLEAN /\ alone \in BOOLEAN
DvcOK == PhoneOK /\ ListOK /\ LoadsOK /\ QueuesOK /\ HistoryOK

LEMMA AsksAre ==
  /\ \A x \in DvcAsks : /\ x.m = "number" => x \in [m: {"number"}, load: LoadIds]
                        /\ x.m = "get" => x \in [m: {"get"}, load: LoadIds, index: Nat]
                        /\ x.m = "set" => x \in [m: {"set"}, index: Nat]
                        /\ x.m \in {"number", "get", "set", "changed"}
  /\ \A x \in DvcReplies : /\ x.m = "number" => x \in SizeReplies
                           /\ x.m = "get" => x \in GetReplies
                           /\ x.m = "set" => x \in SetReplies
                           /\ x.m \in {"number", "get", "set", "changed"}
  /\ \A l \in LoadIds : NumberOf(l) \in DvcAsks /\ \A i \in Nat : GetDevice(l, i) \in DvcAsks
  /\ \A i \in Nat : SetDevice(i) \in DvcAsks
  /\ Changed \in DvcAsks /\ Changed \in DvcReplies
<1>1. Changed.m = "changed"
  BY DEF Changed
<1>2. \A x \in DvcAsks : /\ x.m = "number" => x \in [m: {"number"}, load: LoadIds]
                         /\ x.m = "get" => x \in [m: {"get"}, load: LoadIds, index: Nat]
                         /\ x.m = "set" => x \in [m: {"set"}, index: Nat]
                         /\ x.m \in {"number", "get", "set", "changed"}
  BY <1>1 DEF DvcAsks
<1>3. \A x \in DvcReplies : /\ x.m = "number" => x \in SizeReplies
                            /\ x.m = "get" => x \in GetReplies
                            /\ x.m = "set" => x \in SetReplies
                            /\ x.m \in {"number", "get", "set", "changed"}
  BY <1>1 DEF DvcReplies, SizeReplies, GetReplies, SetReplies
<1>4. /\ \A l \in LoadIds : NumberOf(l) \in DvcAsks
                            /\ \A i \in Nat : GetDevice(l, i) \in DvcAsks
      /\ \A i \in Nat : SetDevice(i) \in DvcAsks
  BY DEF NumberOf, GetDevice, SetDevice, DvcAsks
<1>. QED BY <1>2, <1>3, <1>4 DEF DvcAsks, DvcReplies

LEMMA DeviceIs ==
  ASSUME PhoneOK, NEW i
  PROVE  DeviceAt(i) \in ShownDevices /\ (DeviceAt(i) # NoDevice => DeviceAt(i) \in AllDevices)
<1>1. /\ Available \in Seq(present) /\ Count \in Nat /\ DOMAIN Available = 1..Count
      /\ present \subseteq AllDevices
  BY AvailableIs DEF PhoneOK
<1>2. CASE i \in 0..Count - 1
  <2>1. DeviceAt(i) = Available[i + 1]
    BY <1>2 DEF DeviceAt, Count
  <2>2. i + 1 \in 1..Count
    BY <1>1, <1>2
  <2>3. Available[i + 1] \in AllDevices
    BY <1>1, <2>2
  <2>. QED BY <2>1, <2>3 DEF ShownDevices
<1>3. CASE i \notin 0..Count - 1
  BY <1>3 DEF DeviceAt, Count, ShownDevices
<1>. QED BY <1>2, <1>3

(* The engine answers.                                                     *)
LEMMA MainTyped ==
  ASSUME DvcOK, DvcMain PROVE DvcOK'
<1>. DEFINE r == Head(dvcCalls)
            size == [m |-> "number", load |-> r.load, size |-> Len(Available)]
            get  == [m |-> "get", load |-> r.load, index |-> r.index,
                     device |-> DeviceAt(r.index),
                     selected |-> DeviceAt(r.index) = selAudioDevice]
            set  == [m |-> "set", index |-> r.index, ok |-> DeviceAt(r.index) # NoDevice]
<1>1. /\ r \in DvcAsks /\ Tail(dvcCalls) \in Seq(DvcAsks) /\ PhoneOK
      /\ dvcAnswers \in Seq(DvcReplies) /\ UNCHANGED <<dvcs, selGuid, selIndex, loads>>
  BY QueueTypes DEF DvcMain, DvcOK, QueuesOK, shown
<1>2. \/ /\ r.m = "number" /\ dvcAnswers' = Append(dvcAnswers, size)
         /\ dvcCalls' = Tail(dvcCalls) /\ UNCHANGED phone
      \/ /\ r.m = "get" /\ dvcAnswers' = Append(dvcAnswers, get)
         /\ dvcCalls' = Tail(dvcCalls) /\ UNCHANGED phone
      \/ /\ r.m = "set" /\ dvcAnswers' = Append(dvcAnswers, set) /\ present' = present
         /\ IF DeviceAt(r.index) # NoDevice THEN Select(DeviceAt(r.index))
            ELSE UNCHANGED selAudioDevice /\ dvcCalls' = Tail(dvcCalls)
      \/ /\ dvcAnswers' = Append(dvcAnswers, Changed)
         /\ dvcCalls' = Tail(dvcCalls) /\ UNCHANGED phone
  BY DEF DvcMain
<1>3. Len(Available) \in Nat
  BY <1>1, AvailableIs DEF PhoneOK, Count
<1>. HIDE DEF r
<1>4. /\ r.m = "number" => size \in DvcReplies
      /\ r.m = "get" => get \in DvcReplies
      /\ r.m = "set" => set \in DvcReplies
  <2>1. ASSUME r.m = "number" PROVE size \in DvcReplies
    <3>1. r.load \in LoadIds
      BY <1>1, <2>1, AsksAre
    <3>. QED BY <1>3, <3>1 DEF SizeReplies, DvcReplies
  <2>2. ASSUME r.m = "get" PROVE get \in DvcReplies
    <3>1. r.load \in LoadIds /\ r.index \in Nat
      BY <1>1, <2>2, AsksAre
    <3>2. DeviceAt(r.index) \in ShownDevices
      BY <1>1, DeviceIs
    <3>3. get \in GetReplies
      BY <3>1, <3>2 DEF GetReplies
    <3>. QED BY <3>3 DEF DvcReplies
  <2>3. ASSUME r.m = "set" PROVE set \in DvcReplies
    <3>1. r.index \in Nat
      BY <1>1, <2>3, AsksAre
    <3>2. set \in SetReplies
      BY <3>1 DEF SetReplies
    <3>. QED BY <3>2 DEF DvcReplies
  <2>. QED BY <2>1, <2>2, <2>3
<1>. HIDE DEF size, get, set
<1>5. PhoneOK' /\ QueuesOK'
  <2>1. CASE /\ dvcAnswers' \in {Append(dvcAnswers, size), Append(dvcAnswers, get),
                                 Append(dvcAnswers, Changed)}
             /\ dvcAnswers' \in Seq(DvcReplies)
             /\ dvcCalls' = Tail(dvcCalls) /\ UNCHANGED phone
    BY <1>1, <2>1 DEF phone, PhoneOK, QueuesOK
  <2>2. CASE /\ r.m = "set" /\ dvcAnswers' = Append(dvcAnswers, set) /\ present' = present
             /\ IF DeviceAt(r.index) # NoDevice THEN Select(DeviceAt(r.index))
                ELSE UNCHANGED selAudioDevice /\ dvcCalls' = Tail(dvcCalls)
    <3>1. dvcAnswers' \in Seq(DvcReplies)
      BY <1>1, <1>4, <2>2, QueueTypes
    <3>2. CASE DeviceAt(r.index) # NoDevice
      <4>1. selAudioDevice' \in AllDevices /\ dvcCalls' = Append(Tail(dvcCalls), Changed)
        BY <1>1, <2>2, <3>2, DeviceIs DEF Select
      <4>2. dvcCalls' \in Seq(DvcAsks)
        BY <1>1, <4>1, AsksAre, QueueTypes
      <4>. QED BY <1>1, <2>2, <3>1, <4>1, <4>2 DEF PhoneOK, QueuesOK
    <3>3. CASE DeviceAt(r.index) = NoDevice
      BY <1>1, <2>2, <3>1, <3>3 DEF PhoneOK, QueuesOK
    <3>. QED BY <3>2, <3>3
  <2>3. /\ r.m = "number" => Append(dvcAnswers, size) \in Seq(DvcReplies)
        /\ r.m = "get" => Append(dvcAnswers, get) \in Seq(DvcReplies)
        /\ Append(dvcAnswers, Changed) \in Seq(DvcReplies)
    BY <1>1, <1>4, AsksAre, QueueTypes
  <2>. QED BY <1>2, <2>1, <2>2, <2>3
<1>6. ListOK' /\ LoadsOK' /\ HistoryOK'
  BY <1>1 DEF DvcOK, ListOK, LoadsOK, HistoryOK, DvcMain
<1>. QED BY <1>5, <1>6 DEF DvcOK

(* The loop of a load goes on, or the load is over.                        *)
LEMMA GoOnTyped ==
  ASSUME LoadsOK, dvcCalls \in Seq(DvcAsks), NEW l \in LoadIds, NEW i \in Nat, NEW n,
         l \in DOMAIN loads => n \in Nat, NEW found \in BOOLEAN, GoOn(l, i, n, found)
  PROVE  LoadsOK' /\ dvcCalls' \in Seq(DvcAsks)
<1>1. CASE /\ loads' = [loads EXCEPT ![l] = [size |-> n, found |-> found]]
           /\ dvcCalls' = Append(dvcCalls, GetDevice(l, i))
  <2>1. dvcCalls' \in Seq(DvcAsks)
    BY <1>1, AsksAre, QueueTypes
  <2>2. DOMAIN loads' = DOMAIN loads
    BY <1>1
  <2>3. ASSUME NEW k \in DOMAIN loads PROVE loads'[k] \in Loading
    <3>1. CASE k = l
      BY <1>1, <2>3, <3>1 DEF Loading
    <3>2. CASE k # l
      BY <1>1, <2>3, <3>2 DEF LoadsOK
    <3>. QED BY <3>1, <3>2
  <2>. QED BY <2>1, <2>2, <2>3 DEF LoadsOK
<1>2. CASE loads' = Restrict(loads, DOMAIN loads \ {l}) /\ UNCHANGED dvcCalls
  BY <1>2 DEF LoadsOK, Restrict
<1>. QED BY <1>1, <1>2 DEF GoOn

(* Dart takes an answer.                                                   *)
LEMMA DartTyped ==
  ASSUME DvcOK, DvcDart PROVE DvcOK'
<1>. DEFINE r == Head(dvcAnswers)
<1>1. /\ r \in DvcReplies /\ dvcAnswers' \in Seq(DvcReplies) /\ UNCHANGED phone
      /\ dvcCalls \in Seq(DvcAsks) /\ ListOK /\ LoadsOK
      /\ \/ r.m = "number" /\ Size(r)
         \/ r.m = "get" /\ Device(r)
         \/ r.m = "set" /\ IsSet(r)
         \/ OnAudioDevicesChanged
  BY QueueTypes DEF DvcDart, DvcOK, QueuesOK
<1>. HIDE DEF r
<1>2. PhoneOK' /\ HistoryOK'
  BY <1>1 DEF phone, DvcOK, PhoneOK, HistoryOK, DvcDart, OnAudioDevicesChanged
<1>3. CASE r.m = "number" /\ Size(r)
  <2>1. r.load \in LoadIds /\ r.size \in Nat
    BY <1>1, <1>3, AsksAre DEF SizeReplies
  <2>2. GoOn(r.load, 0, r.size, FALSE)
    BY <1>3 DEF Size
  <2>3. LoadsOK' /\ dvcCalls' \in Seq(DvcAsks)
    BY <1>1, <2>1, <2>2, GoOnTyped
  <2>4. ListOK'
    BY <1>1, <1>3 DEF Size, ListOK
  <2>. QED BY <1>1, <1>2, <2>3, <2>4 DEF DvcOK, QueuesOK
<1>4. CASE r.m = "get" /\ Device(r)
  <2>. DEFINE load  == loads[r.load]
              isSel == selGuid = r.device \/ r.selected
              found == load.found \/ isSel
  <2>1. r.load \in LoadIds /\ r.index \in Nat /\ r.device \in ShownDevices
    BY <1>1, <1>4, AsksAre DEF GetReplies
  <2>2. /\ GoOn(r.load, r.index + 1, load.size, found)
        /\ dvcs' = dvcs \/ (r.device \notin Range(dvcs) /\ dvcs' = Append(dvcs, r.device))
        /\ \/ selIndex' = r.index /\ selGuid' = r.device
           \/ selIndex' = -1 /\ selGuid' = NoGuid
           \/ UNCHANGED <<selIndex, selGuid>>
    BY <1>4 DEF Device
  <2>3. found \in BOOLEAN /\ (r.load \in DOMAIN loads => load.size \in Nat)
    BY <1>1 DEF LoadsOK, Loading
  <2>. HIDE DEF load, found, isSel
  <2>4. LoadsOK' /\ dvcCalls' \in Seq(DvcAsks)
    <3>. DEFINE i == r.index + 1
                n == load.size
    <3>1. /\ i \in Nat /\ GoOn(r.load, i, n, found)
          /\ r.load \in DOMAIN loads => n \in Nat
      BY <2>1, <2>2, <2>3
    <3>. HIDE DEF i, n
    <3>. QED BY <1>1, <2>1, <2>3, <3>1, GoOnTyped
  <2>5. dvcs' \in Seq(ShownDevices) /\ IsInjective(dvcs')
    <3>1. CASE dvcs' = dvcs
      BY <1>1, <3>1 DEF ListOK
    <3>2. CASE r.device \notin Range(dvcs) /\ dvcs' = Append(dvcs, r.device)
      <4>1. \A k \in DOMAIN dvcs : dvcs[k] # r.device
        BY <3>2 DEF Range
      <4>2. dvcs \in Seq(ShownDevices) /\ \A a, b \in DOMAIN dvcs : dvcs[a] = dvcs[b] => a = b
        BY <1>1 DEF ListOK, IsInjective
      <4>3. dvcs' \in Seq(ShownDevices)
        BY <2>1, <3>2, <4>2, QueueTypes
      <4>4. \A a, b \in DOMAIN dvcs' : dvcs'[a] = dvcs'[b] => a = b
        <5>1. \A a \in DOMAIN dvcs' : (a \in DOMAIN dvcs /\ dvcs'[a] = dvcs[a])
                                      \/ (a = Len(dvcs) + 1 /\ dvcs'[a] = r.device)
          BY <2>1, <3>2, <4>2, AppendOf
        <5>. QED BY <4>1, <4>2, <5>1
      <4>. QED BY <4>3, <4>4 DEF IsInjective
    <3>. QED BY <2>2, <3>1, <3>2
  <2>6. selGuid' \in ShownDevices \cup {NoGuid} /\ selIndex' \in Int /\ selIndex' >= -1
    BY <1>1, <2>1, <2>2 DEF ListOK
  <2>. QED BY <1>1, <1>2, <2>4, <2>5, <2>6 DEF DvcOK, QueuesOK, ListOK
<1>5. CASE r.m = "set" /\ IsSet(r)
  <2>1. r.index \in Nat
    BY <1>1, <1>5, AsksAre DEF SetReplies
  <2>2. /\ UNCHANGED <<dvcs, loads, dvcCalls>>
        /\ \/ UNCHANGED <<selGuid, selIndex>>
           \/ selIndex' = r.index /\ selGuid' = NoGuid
           \/ /\ selIndex' = r.index /\ r.index < Len(dvcs) /\ selGuid' = dvcs[r.index + 1]
    BY <1>5 DEF IsSet
  <2>3. selGuid' \in ShownDevices \cup {NoGuid} /\ selIndex' \in Int /\ selIndex' >= -1
    <3>1. ASSUME r.index < Len(dvcs) PROVE dvcs[r.index + 1] \in ShownDevices
      BY <1>1, <2>1, <3>1 DEF ListOK
    <3>2. selGuid' \in ShownDevices \cup {NoGuid}
      BY <1>1, <2>2, <3>1 DEF ListOK
    <3>3. selIndex' = r.index \/ selIndex' = selIndex
      BY <2>2
    <3>4. selIndex' \in Int /\ selIndex' >= -1
      BY <1>1, <2>1, <3>3 DEF ListOK
    <3>. QED BY <3>2, <3>4
  <2>4. ListOK' /\ LoadsOK'
    BY <1>1, <2>2, <2>3 DEF ListOK, LoadsOK
  <2>. QED BY <1>1, <1>2, <2>2, <2>4 DEF DvcOK, QueuesOK
<1>6. CASE OnAudioDevicesChanged
  <2>1. PICK l \in LoadIds :
          /\ loads' = [k \in DOMAIN loads \cup {l} |->
                         IF k = l THEN [size |-> 0, found |-> FALSE] ELSE loads[k]]
          /\ dvcs' = <<>> /\ dvcCalls' = Append(dvcCalls, NumberOf(l))
          /\ UNCHANGED <<selGuid, selIndex>>
    BY <1>6 DEF OnAudioDevicesChanged
  <2>2. dvcCalls' \in Seq(DvcAsks)
    BY <1>1, <2>1, AsksAre, QueueTypes
  <2>3. LoadsOK'
    BY <1>1, <2>1 DEF LoadsOK, Loading
  <2>4. ListOK'
    <3>1. DOMAIN dvcs' = {} /\ dvcs' \in Seq(ShownDevices)
      BY <2>1, EmptyQueue
    <3>. QED BY <1>1, <2>1, <3>1 DEF ListOK, IsInjective
  <2>. QED BY <1>1, <1>2, <2>2, <2>3, <2>4 DEF DvcOK, QueuesOK
<1>. QED BY <1>1, <1>3, <1>4, <1>5, <1>6

LEMMA DvcTypesKept == DvcOK /\ [DvcNext]_dvars => DvcOK'
<1>. SUFFICES ASSUME DvcOK, [DvcNext]_dvars PROVE DvcOK'
  OBVIOUS
<1>1. CASE DvcMain
  BY <1>1, MainTyped
<1>2. CASE DvcDart
  BY <1>2, DartTyped
<1>3. ASSUME NEW d \in Pluggable, Plug(d) PROVE DvcOK'
  <2>1. /\ present' = (present \cup {d}) \ (present \cap {d})
        /\ UNCHANGED <<selAudioDevice, dvcCalls, dvcAnswers, dvcs, selGuid, selIndex, loads>>
    BY <1>3 DEF Plug, shown
  <2>2. PhoneOK'
    BY <2>1, DevicesAssumption DEF DvcOK, PhoneOK, AllDevices
  <2>. QED BY <1>3, <2>1, <2>2 DEF Plug, DvcOK, ListOK, LoadsOK, QueuesOK, HistoryOK
<1>4. ASSUME NEW i \in 0..Len(dvcs) - 1, SetPlayoutDevice(i) PROVE DvcOK'
  <2>1. i \in Nat
    BY DEF DvcOK, ListOK
  <2>2. /\ dvcCalls' = Append(dvcCalls, SetDevice(i))
        /\ UNCHANGED <<present, selAudioDevice, dvcAnswers, dvcs, selGuid, selIndex, loads>>
    BY <1>4 DEF SetPlayoutDevice, phone, shown
  <2>3. dvcCalls' \in Seq(DvcAsks)
    BY <2>1, <2>2, AsksAre, QueueTypes DEF DvcOK, QueuesOK
  <2>. QED BY <1>4, <2>2, <2>3
           DEF SetPlayoutDevice, DvcOK, PhoneOK, ListOK, LoadsOK, QueuesOK, HistoryOK
<1>5. CASE UNCHANGED dvars
  BY <1>5 DEF dvars, DvcOK, PhoneOK, ListOK, LoadsOK, QueuesOK, HistoryOK
<1>. QED BY <1>1, <1>2, <1>3, <1>4, <1>5 DEF DvcNext

LEMMA DvcTypesBegin == DvcInit => DvcOK
<1>. SUFFICES ASSUME DvcInit PROVE DvcOK
  OBVIOUS
<1>1. 1 \in LoadIds
  BY DevicesAssumption DEF LoadIds
<1>2. PhoneOK
  BY DEF DvcInit, PhoneOK, AllDevices
<1>3. QueuesOK
  <2>1. NumberOf(1) \in DvcAsks /\ dvcCalls = <<NumberOf(1)>> /\ dvcAnswers = <<>>
    BY <1>1, AsksAre DEF DvcInit
  <2>. QED BY <2>1, EmptyQueue DEF QueuesOK
<1>4. LoadsOK
  BY <1>1 DEF DvcInit, LoadsOK, Loading
<1>5. ListOK
  <2>1. dvcs = <<>> /\ selGuid = NoGuid /\ selIndex = -1
    BY DEF DvcInit
  <2>2. DOMAIN dvcs = {} /\ dvcs \in Seq(ShownDevices)
    BY <2>1, EmptyQueue
  <2>. QED BY <2>1, <2>2 DEF ListOK, IsInjective
<1>. QED BY <1>2, <1>3, <1>4, <1>5 DEF DvcInit, HistoryOK, DvcOK

(* The list shows no device twice and only devices of the phone, or one    *)
(* that has gone; the devices that are always there stay.                  *)
THEOREM DevicesTyped == DvcSpec => []DvcTypeOK
<1>1. DvcOK => DvcTypeOK
  <2>. SUFFICES ASSUME DvcOK PROVE DvcTypeOK
    OBVIOUS
  <2>1. /\ \A i \in DOMAIN dvcCalls : dvcCalls[i] \in DvcAsks
        /\ \A i \in DOMAIN dvcAnswers : dvcAnswers[i] \in DvcReplies
    BY DEF DvcOK, QueuesOK
  <2>2. /\ \A i \in DOMAIN dvcCalls : dvcCalls[i].m \in {"number", "get", "set", "changed"}
        /\ \A i \in DOMAIN dvcAnswers : dvcAnswers[i].m \in {"number", "get", "set", "changed"}
    BY <2>1, AsksAre
  <2>3. /\ dvcs \in Seq(AllDevices \cup {NoDevice})
        /\ selGuid \in AllDevices \cup {NoDevice, NoGuid}
    BY DEF DvcOK, ListOK, ShownDevices
  <2>. QED BY <2>2, <2>3 DEF DvcOK, PhoneOK, ListOK, LoadsOK, HistoryOK, DvcTypeOK
<1>. QED BY <1>1, DvcTypesBegin, DvcTypesKept, PTL DEF DvcSpec

-----------------------------------------------------------------------------
(* The messages of the loads: each load that goes on awaits one answer.    *)

IsLoad(x)  == x.m \in {"number", "get"}
LoadsIn(q) == {q[i].load : i \in {j \in DOMAIN q : IsLoad(q[j])}}
Apart(q)   ==
  \A i, j \in DOMAIN q : IsLoad(q[i]) /\ IsLoad(q[j]) /\ q[i].load = q[j].load => i = j
OneEach ==
  /\ Apart(dvcCalls) /\ Apart(dvcAnswers)
  /\ LoadsIn(dvcCalls) \cap LoadsIn(dvcAnswers) = {}
  /\ LoadsIn(dvcCalls) \cup LoadsIn(dvcAnswers) \subseteq DOMAIN loads

LEMMA LoadPosted ==
  ASSUME NEW S, NEW q \in Seq(S), NEW x \in S
  PROVE  /\ Range(Append(q, x)) = Range(q) \cup {x}
         /\ IsLoad(x) => LoadsIn(Append(q, x)) = LoadsIn(q) \cup {x.load}
         /\ ~IsLoad(x) => LoadsIn(Append(q, x)) = LoadsIn(q)
         /\ Apart(q) /\ (IsLoad(x) => x.load \notin LoadsIn(q)) => Apart(Append(q, x))
<1>. PICK p : p = Append(q, x)
  OBVIOUS
<1>1. /\ \A i \in DOMAIN q : i \in DOMAIN p /\ p[i] = q[i]
      /\ Len(q) + 1 \in DOMAIN p /\ p[Len(q) + 1] = x
      /\ \A i \in DOMAIN p : i \in DOMAIN q \/ i = Len(q) + 1
  BY AppendOf
<1>2. Range(p) = Range(q) \cup {x}
  BY <1>1 DEF Range
<1>3. IsLoad(x) => LoadsIn(p) = LoadsIn(q) \cup {x.load}
  BY <1>1 DEF LoadsIn
<1>4. ~IsLoad(x) => LoadsIn(p) = LoadsIn(q)
  BY <1>1 DEF LoadsIn
<1>5. ASSUME Apart(q), IsLoad(x) => x.load \notin LoadsIn(q) PROVE Apart(p)
  <2>1. \A i \in DOMAIN q : IsLoad(q[i]) /\ IsLoad(x) => q[i].load # x.load
    BY <1>5 DEF LoadsIn
  <2>. QED BY <1>1, <1>5, <2>1 DEF Apart
<1>. QED BY <1>2, <1>3, <1>4, <1>5

LEMMA LoadTaken ==
  ASSUME NEW S, NEW q \in Seq(S), q # <<>>
  PROVE  /\ Range(q) = Range(Tail(q)) \cup {Head(q)}
         /\ LoadsIn(Tail(q)) \subseteq LoadsIn(q)
         /\ IsLoad(Head(q)) => Head(q).load \in LoadsIn(q)
         /\ Apart(q) => /\ Apart(Tail(q))
                        /\ IsLoad(Head(q)) => Head(q).load \notin LoadsIn(Tail(q))
<1>. PICK t, h : t = Tail(q) /\ h = Head(q)
  OBVIOUS
<1>1. /\ h = q[1] /\ 1 \in DOMAIN q
      /\ \A i \in DOMAIN t : i + 1 \in DOMAIN q /\ t[i] = q[i + 1]
      /\ \A i \in DOMAIN q : i = 1 \/ (i - 1 \in DOMAIN t /\ t[i - 1] = q[i])
  BY TailOf
<1>2. \A i \in DOMAIN t : i \in Nat /\ i + 1 # 1
  BY TailOf
<1>3. Range(q) = Range(t) \cup {h}
  BY <1>1 DEF Range
<1>4. LoadsIn(t) \subseteq LoadsIn(q) /\ (IsLoad(h) => h.load \in LoadsIn(q))
  BY <1>1 DEF LoadsIn
<1>5. ASSUME Apart(q) PROVE Apart(t) /\ (IsLoad(h) => h.load \notin LoadsIn(t))
  <2>1. ASSUME NEW i \in DOMAIN t, NEW j \in DOMAIN t, IsLoad(t[i]), IsLoad(t[j]),
               t[i].load = t[j].load
        PROVE  i = j
    <3>1. i + 1 = j + 1
      BY <1>1, <1>5, <2>1 DEF Apart
    <3>. QED BY <1>2, <3>1
  <2>2. ASSUME IsLoad(h), NEW i \in DOMAIN t, IsLoad(t[i]), t[i].load = h.load PROVE FALSE
    <3>1. i + 1 = 1
      BY <1>1, <1>5, <2>2 DEF Apart
    <3>. QED BY <1>2, <3>1
  <2>. QED BY <2>1, <2>2 DEF Apart, LoadsIn
<1>. QED BY <1>3, <1>4, <1>5

LEMMA LoadsAre ==
  ASSUME NEW q, NEW x \in Range(q), IsLoad(x)
  PROVE  /\ x.load \in LoadsIn(q)
         /\ Apart(q) => \A y \in Range(q) : IsLoad(y) /\ y.load = x.load => y = x
  BY DEF Range, LoadsIn, Apart

LEMMA LoadMessages ==
  /\ ~IsLoad(Changed) /\ Changed.m = "changed"
  /\ \A l, i : /\ IsLoad(NumberOf(l)) /\ NumberOf(l).load = l /\ NumberOf(l).m = "number"
               /\ IsLoad(GetDevice(l, i)) /\ GetDevice(l, i).load = l
               /\ GetDevice(l, i).m = "get"
  BY DEF IsLoad, Changed, NumberOf, GetDevice

(* What a load awaits passes from the calls to the answers.                *)
LEMMA MainApart ==
  ASSUME DvcOK, OneEach, DvcMain
  PROVE  OneEach'
<1>. PICK r : r = Head(dvcCalls)
  OBVIOUS
<1>1. /\ dvcCalls \in Seq(DvcAsks) /\ dvcCalls # <<>> /\ r \in DvcAsks
      /\ dvcAnswers \in Seq(DvcReplies) /\ loads' = loads
      /\ dvcCalls' \in Seq(DvcAsks) /\ dvcAnswers' \in Seq(DvcReplies)
      /\ Tail(dvcCalls) \in Seq(DvcAsks)
  <2>1. DvcOK'
    BY MainTyped
  <2>. QED BY <2>1, QueueTypes DEF DvcOK, QueuesOK, DvcMain, shown
<1>2. PICK a : /\ dvcAnswers' = Append(dvcAnswers, a)
               /\ IsLoad(a) <=> IsLoad(r)
               /\ IsLoad(r) => a.load = r.load
               /\ \/ dvcCalls' = Tail(dvcCalls)
                  \/ dvcCalls' = Append(Tail(dvcCalls), Changed)
  <2>1. CASE r.m = "number"
    BY <2>1 DEF DvcMain, IsLoad
  <2>2. CASE r.m = "get"
    BY <2>2 DEF DvcMain, IsLoad
  <2>3. CASE r.m = "set"
    BY <2>3 DEF DvcMain, IsLoad, Select
  <2>4. CASE r.m = "changed"
    BY <2>4 DEF DvcMain, IsLoad, Changed
  <2>. QED BY <2>1, <2>2, <2>3, <2>4 DEF DvcMain
<1>2a. PICK t \in Seq(DvcAsks) : t = Tail(dvcCalls)
  BY <1>1
<1>3. /\ Apart(t) /\ LoadsIn(t) \subseteq LoadsIn(dvcCalls)
      /\ IsLoad(r) => r.load \in LoadsIn(dvcCalls) /\ r.load \notin LoadsIn(t)
  BY <1>1, <1>2a, LoadTaken DEF OneEach
<1>4. Apart(dvcCalls') /\ LoadsIn(dvcCalls') = LoadsIn(t)
  <2>1. CASE dvcCalls' = t
    BY <1>3, <2>1
  <2>2. CASE dvcCalls' = Append(t, Changed)
    <3>1. PICK c \in DvcAsks : c = Changed /\ ~IsLoad(c)
      BY LoadMessages, AsksAre
    <3>2. Apart(Append(t, c)) /\ LoadsIn(Append(t, c)) = LoadsIn(t)
      BY <1>3, <3>1, LoadPosted
    <3>. QED BY <2>2, <3>1, <3>2
  <2>. QED BY <1>2, <1>2a, <2>1, <2>2
<1>5. /\ Apart(dvcAnswers')
      /\ LoadsIn(dvcAnswers') \subseteq LoadsIn(dvcAnswers)
                                          \cup (IF IsLoad(r) THEN {r.load} ELSE {})
  <2>1. a \in DvcReplies
    <3>1. /\ dvcAnswers'[Len(dvcAnswers) + 1] = a
          /\ Len(dvcAnswers) + 1 \in DOMAIN dvcAnswers'
      BY <1>1, <1>2
    <3>. QED BY <1>1, <3>1
  <2>2. IsLoad(a) => a.load \notin LoadsIn(dvcAnswers)
    BY <1>2, <1>3 DEF OneEach
  <2>. QED BY <1>1, <1>2, <2>1, <2>2, LoadPosted DEF OneEach
<1>. QED BY <1>1, <1>3, <1>4, <1>5 DEF OneEach

(* Dart takes the answer of a load: it asks on, or the load is over.       *)
LEMMA AsksOn ==
  ASSUME DvcOK, OneEach, dvcAnswers # <<>>, dvcAnswers' = Tail(dvcAnswers),
         NEW l \in LoadIds, IsLoad(Head(dvcAnswers)), Head(dvcAnswers).load = l,
         NEW i \in Nat, NEW n, NEW found, GoOn(l, i, n, found)
  PROVE  OneEach'
<1>. PICK t : t = Tail(dvcAnswers)
  OBVIOUS
<1>1. dvcCalls \in Seq(DvcAsks) /\ dvcAnswers \in Seq(DvcReplies)
  BY DEF DvcOK, QueuesOK
<1>2. /\ Apart(t) /\ LoadsIn(t) \subseteq LoadsIn(dvcAnswers)
      /\ l \in LoadsIn(dvcAnswers) /\ l \notin LoadsIn(t)
      /\ l \notin LoadsIn(dvcCalls) /\ l \in DOMAIN loads
  BY <1>1, LoadTaken DEF OneEach
<1>3. CASE /\ loads' = [loads EXCEPT ![l] = [size |-> n, found |-> found]]
           /\ dvcCalls' = Append(dvcCalls, GetDevice(l, i))
  <2>1. PICK g \in DvcAsks : g = GetDevice(l, i) /\ IsLoad(g) /\ g.load = l
    BY AsksAre, LoadMessages
  <2>2. Apart(dvcCalls') /\ LoadsIn(dvcCalls') = LoadsIn(dvcCalls) \cup {l}
    BY <1>1, <1>2, <1>3, <2>1, LoadPosted DEF OneEach
  <2>3. DOMAIN loads' = DOMAIN loads
    BY <1>3
  <2>. QED BY <1>2, <2>2, <2>3 DEF OneEach
<1>4. CASE loads' = Restrict(loads, DOMAIN loads \ {l}) /\ UNCHANGED dvcCalls
  <2>1. DOMAIN loads' = DOMAIN loads \ {l}
    BY <1>4 DEF Restrict
  <2>. QED BY <1>2, <1>4, <2>1 DEF OneEach
<1>. QED BY <1>3, <1>4 DEF GoOn

(* What an answer makes Dart do.                                           *)
LEMMA AnswerIs ==
  ASSUME DvcOK, DvcDart, NEW r, r = Head(dvcAnswers)
  PROVE  /\ dvcAnswers # <<>> /\ dvcAnswers \in Seq(DvcReplies) /\ r \in DvcReplies
         /\ dvcCalls \in Seq(DvcAsks) /\ dvcAnswers' = Tail(dvcAnswers)
         /\ UNCHANGED <<present, selAudioDevice, settled>>
         /\ \/ /\ r.m = "number" /\ Size(r) /\ alone' = alone
               /\ r.load \in LoadIds /\ r.size \in Nat
            \/ /\ r.m = "get" /\ Device(r) /\ alone' = alone
               /\ r.load \in LoadIds /\ r.index \in Nat /\ r.device \in ShownDevices
            \/ r.m = "set" /\ IsSet(r) /\ alone' = alone
            \/ r.m = "changed" /\ OnAudioDevicesChanged
<1>1. /\ dvcAnswers # <<>> /\ dvcAnswers \in Seq(DvcReplies) /\ r \in DvcReplies
      /\ dvcCalls \in Seq(DvcAsks) /\ dvcAnswers' = Tail(dvcAnswers)
      /\ UNCHANGED <<present, selAudioDevice, settled>>
  BY QueueTypes DEF DvcDart, DvcOK, QueuesOK, phone
<1>2. \/ r.m = "number" /\ Size(r) /\ alone' = alone
      \/ r.m = "get" /\ Device(r) /\ alone' = alone
      \/ r.m = "set" /\ IsSet(r) /\ alone' = alone
      \/ r.m = "changed" /\ OnAudioDevicesChanged
  BY DEF DvcDart
<1>3. r.m = "number" => r.load \in LoadIds /\ r.size \in Nat
  BY <1>1, AsksAre DEF SizeReplies
<1>4. r.m = "get" => r.load \in LoadIds /\ r.index \in Nat /\ r.device \in ShownDevices
  BY <1>1, AsksAre DEF GetReplies
<1>. QED BY <1>1, <1>2, <1>3, <1>4

LEMMA DartApart ==
  ASSUME DvcOK, OneEach, DvcDart
  PROVE  OneEach'
<1>. PICK r : r = Head(dvcAnswers)
  OBVIOUS
<1>1. /\ dvcAnswers # <<>> /\ dvcAnswers \in Seq(DvcReplies) /\ dvcCalls \in Seq(DvcAsks)
      /\ dvcAnswers' = Tail(dvcAnswers)
  BY AnswerIs
<1>2. CASE r.m = "number" /\ Size(r) /\ r.load \in LoadIds
  <2>1. GoOn(r.load, 0, r.size, FALSE) /\ IsLoad(r)
    BY <1>2 DEF Size, IsLoad
  <2>. QED BY <1>1, <1>2, <2>1, AsksOn
<1>3. CASE r.m = "get" /\ Device(r) /\ r.load \in LoadIds /\ r.index \in Nat
  <2>1. PICK i, n, found : i \in Nat /\ GoOn(r.load, i, n, found)
    <3>1. GoOn(r.load, r.index + 1, loads[r.load].size,
               loads[r.load].found \/ (selGuid = r.device \/ r.selected))
      BY <1>3 DEF Device
    <3>2. r.index + 1 \in Nat
      BY <1>3
    <3>. QED BY <3>1, <3>2
  <2>2. IsLoad(r)
    BY <1>3 DEF IsLoad
  <2>. QED BY <1>1, <1>3, <2>1, <2>2, AsksOn
<1>4. CASE r.m = "set" /\ IsSet(r)
  <2>1. UNCHANGED <<dvcCalls, loads>>
    BY <1>4 DEF IsSet
  <2>2. Apart(dvcAnswers') /\ LoadsIn(dvcAnswers') \subseteq LoadsIn(dvcAnswers)
    BY <1>1, LoadTaken DEF OneEach
  <2>. QED BY <2>1, <2>2 DEF OneEach
<1>5. CASE OnAudioDevicesChanged
  <2>1. PICK l \in LoadIds \ DOMAIN loads :
          /\ DOMAIN loads' = DOMAIN loads \cup {l}
          /\ dvcCalls' = Append(dvcCalls, NumberOf(l))
    BY <1>5 DEF OnAudioDevicesChanged
  <2>2. l \notin LoadsIn(dvcCalls) /\ l \notin LoadsIn(dvcAnswers)
    BY DEF OneEach
  <2>3. Apart(dvcCalls') /\ LoadsIn(dvcCalls') = LoadsIn(dvcCalls) \cup {l}
    <3>1. PICK n \in DvcAsks : n = NumberOf(l) /\ IsLoad(n) /\ n.load = l
      BY AsksAre, LoadMessages
    <3>. QED BY <1>1, <2>1, <2>2, <3>1, LoadPosted DEF OneEach
  <2>4. Apart(dvcAnswers') /\ LoadsIn(dvcAnswers') \subseteq LoadsIn(dvcAnswers)
    BY <1>1, LoadTaken DEF OneEach
  <2>. QED BY <2>1, <2>2, <2>3, <2>4 DEF OneEach
<1>. QED BY <1>2, <1>3, <1>4, <1>5, AnswerIs

LEMMA DvcApart ==
  ASSUME DvcOK, OneEach, [DvcNext]_dvars
  PROVE  OneEach'
<1>1. ASSUME NEW d \in Pluggable, Plug(d) PROVE OneEach'
  BY <1>1 DEF Plug, shown, OneEach
<1>2. ASSUME NEW i \in 0..Len(dvcs) - 1, SetPlayoutDevice(i) PROVE OneEach'
  <2>1. /\ dvcCalls \in Seq(DvcAsks) /\ SetDevice(i) \in DvcAsks /\ ~IsLoad(SetDevice(i))
        /\ dvcCalls' = Append(dvcCalls, SetDevice(i)) /\ UNCHANGED <<dvcAnswers, loads>>
    <3>1. i \in Nat
      BY DEF DvcOK, ListOK
    <3>. QED BY <1>2, <3>1, AsksAre DEF SetPlayoutDevice, shown, DvcOK, QueuesOK, SetDevice, IsLoad
  <2>. QED BY <2>1, LoadPosted DEF OneEach
<1>3. CASE UNCHANGED dvars
  BY <1>3 DEF dvars, OneEach
<1>. QED BY <1>1, <1>2, <1>3, MainApart, DartApart DEF DvcNext

LEMMA BeginsApart == DvcInit => OneEach
<1>. SUFFICES ASSUME DvcInit PROVE OneEach
  OBVIOUS
<1>1. /\ DOMAIN dvcCalls = {1} /\ dvcCalls[1] = NumberOf(1) /\ DOMAIN dvcAnswers = {}
      /\ DOMAIN loads = {1}
  BY DEF DvcInit
<1>. QED BY <1>1, LoadMessages DEF OneEach, Apart, LoadsIn

(* What the engine does with a request.                                    *)
SizeCame(l, n) == [m |-> "number", load |-> l, size |-> n]
DeviceCame(l, i, d, sel) ==
  [m |-> "get", load |-> l, index |-> i, device |-> d, selected |-> sel]

LEMMA RequestTaken ==
  ASSUME DvcOK, DvcMain, NEW r, r = Head(dvcCalls)
  PROVE  \E a \in DvcReplies :
           /\ dvcAnswers \in Seq(DvcReplies) /\ dvcAnswers' = Append(dvcAnswers, a)
           /\ UNCHANGED <<present, dvcs, selGuid, selIndex, loads, alone>>
           /\ Range(dvcAnswers') = Range(dvcAnswers) \cup {a}
           /\ Range(dvcCalls) = Range(Tail(dvcCalls)) \cup {r}
           /\ Range(Tail(dvcCalls)) \subseteq Range(dvcCalls')
           /\ Range(dvcCalls') \subseteq Range(Tail(dvcCalls)) \cup {Changed}
           /\ \/ /\ r.m = "number" /\ a = SizeCame(r.load, Count) /\ settled'
                 /\ selAudioDevice' = selAudioDevice /\ r.load \in LoadIds
              \/ /\ r.m = "get"
                 /\ a = DeviceCame(r.load, r.index, DeviceAt(r.index),
                                   DeviceAt(r.index) = selAudioDevice)
                 /\ UNCHANGED <<selAudioDevice, settled>> /\ r.load \in LoadIds
              \/ /\ r.m = "set" /\ a.m = "set" /\ settled' = settled
                 /\ IF a.ok THEN Changed \in Range(dvcCalls')
                    ELSE selAudioDevice' = selAudioDevice
              \/ r.m = "changed" /\ a = Changed /\ UNCHANGED <<selAudioDevice, settled>>
<1>1. /\ dvcCalls \in Seq(DvcAsks) /\ dvcCalls # <<>> /\ r \in DvcAsks
      /\ dvcAnswers \in Seq(DvcReplies) /\ UNCHANGED <<dvcs, selGuid, selIndex, loads, alone>>
      /\ dvcAnswers' \in Seq(DvcReplies) /\ Tail(dvcCalls) \in Seq(DvcAsks)
      /\ present' = present
  <2>1. DvcOK'
    BY MainTyped
  <2>. QED BY <2>1, QueueTypes DEF DvcOK, QueuesOK, DvcMain, shown, phone
<1>1a. PICK t \in Seq(DvcAsks) : t = Tail(dvcCalls)
  BY <1>1
<1>2. PICK a :
        /\ dvcAnswers' = Append(dvcAnswers, a)
        /\ dvcCalls' = t \/ (dvcCalls' = Append(t, Changed) /\ r.m = "set")
        /\ \/ /\ r.m = "number" /\ a = SizeCame(r.load, Count) /\ settled'
              /\ selAudioDevice' = selAudioDevice
           \/ /\ r.m = "get"
              /\ a = DeviceCame(r.load, r.index, DeviceAt(r.index),
                                DeviceAt(r.index) = selAudioDevice)
              /\ UNCHANGED <<selAudioDevice, settled>>
           \/ /\ r.m = "set" /\ a.m = "set" /\ settled' = settled
              /\ IF a.ok THEN dvcCalls' = Append(t, Changed)
                 ELSE selAudioDevice' = selAudioDevice
           \/ r.m = "changed" /\ a = Changed /\ UNCHANGED <<selAudioDevice, settled>>
  <2>1. CASE r.m = "number"
    BY <1>1a, <2>1 DEF DvcMain, phone, SizeCame, Count
  <2>2. CASE r.m = "get"
    <3>1. /\ dvcAnswers' = Append(dvcAnswers,
                  DeviceCame(r.load, r.index, DeviceAt(r.index),
                             DeviceAt(r.index) = selAudioDevice))
          /\ dvcCalls' = t /\ UNCHANGED <<selAudioDevice, settled>>
      BY <1>1a, <2>2 DEF DvcMain, phone, DeviceCame
    <3>. QED BY <2>2, <3>1
  <2>3. CASE r.m = "set"
    <3>1. PICK ok \in BOOLEAN : ok = (DeviceAt(r.index) # NoDevice)
      OBVIOUS
    <3>2. /\ dvcAnswers' = Append(dvcAnswers, [m |-> "set", index |-> r.index, ok |-> ok])
          /\ IF ok THEN dvcCalls' = Append(t, Changed)
             ELSE dvcCalls' = t /\ selAudioDevice' = selAudioDevice
          /\ settled' = settled
      BY <1>1a, <2>3, <3>1 DEF DvcMain, Select
    <3>3. PICK a : a = [m |-> "set", index |-> r.index, ok |-> ok]
      OBVIOUS
    <3>4. a.m = "set" /\ a.ok = ok
      BY <3>3
    <3>. QED BY <2>3, <3>2, <3>3, <3>4
  <2>4. CASE r.m = "changed"
    BY <1>1a, <2>4 DEF DvcMain, phone
  <2>. QED BY <2>1, <2>2, <2>3, <2>4 DEF DvcMain
<1>3. a \in DvcReplies
  <2>1. dvcAnswers'[Len(dvcAnswers) + 1] = a /\ Len(dvcAnswers) + 1 \in DOMAIN dvcAnswers'
    BY <1>1, <1>2
  <2>. QED BY <1>1, <2>1
<1>4. Range(dvcAnswers') = Range(dvcAnswers) \cup {a}
  BY <1>1, <1>2, <1>3, LoadPosted
<1>5. Range(dvcCalls) = Range(t) \cup {r}
  BY <1>1, <1>1a, LoadTaken
<1>6. /\ Range(t) \subseteq Range(dvcCalls')
      /\ Range(dvcCalls') \subseteq Range(t) \cup {Changed}
      /\ dvcCalls' = Append(t, Changed) => Changed \in Range(dvcCalls')
  <2>1. PICK c \in DvcAsks : c = Changed
    BY AsksAre
  <2>2. Range(Append(t, c)) = Range(t) \cup {c}
    BY <2>1, LoadPosted
  <2>. QED BY <1>2, <2>1, <2>2
<1>7. r.m \in {"number", "get"} => r.load \in LoadIds
  BY <1>1, AsksAre
<1>. HIDE DEF Changed
<1>. QED BY <1>1, <1>1a, <1>2, <1>3, <1>4, <1>5, <1>6, <1>7

(* Of the messages of a load one is under way at a time.                   *)
LEMMA OwnMessage ==
  ASSUME DvcOK, OneEach, dvcAnswers # <<>>, NEW r, r = Head(dvcAnswers), IsLoad(r)
  PROVE  /\ r.load \in DOMAIN loads
         /\ \A x \in Range(dvcAnswers) : IsLoad(x) /\ x.load = r.load => x = r
         /\ \A x \in Range(dvcCalls) : IsLoad(x) => x.load # r.load
<1>1. dvcAnswers \in Seq(DvcReplies)
  BY DEF DvcOK, QueuesOK
<1>2. r \in Range(dvcAnswers) /\ r.load \in LoadsIn(dvcAnswers)
  BY <1>1, LoadTaken
<1>3. \A x \in Range(dvcAnswers) : IsLoad(x) /\ x.load = r.load => x = r
  BY <1>2, LoadsAre DEF OneEach
<1>4. \A x \in Range(dvcCalls) : IsLoad(x) => x.load \in LoadsIn(dvcCalls)
  BY LoadsAre
<1>. QED BY <1>2, <1>3, <1>4 DEF OneEach

(* What a load does when it goes on: it asks for the device at this index, *)
(* or is over; the others are as they were.                                *)
Moves(l, i, n, load) ==
  \/ /\ i < n /\ loads' = [loads EXCEPT ![l] = load]
     /\ dvcCalls' = Append(dvcCalls, GetDevice(l, i))
  \/ ~(i < n) /\ loads' = Restrict(loads, DOMAIN loads \ {l}) /\ dvcCalls' = dvcCalls

LEMMA GoOnMoves ==
  ASSUME NEW l, NEW i, NEW n, NEW found, GoOn(l, i, n, found)
  PROVE  Moves(l, i, n, [size |-> n, found |-> found])
  BY DEF GoOn, Moves

LEMMA GoesOn ==
  ASSUME DvcOK, NEW l \in LoadIds, l \in DOMAIN loads, NEW i \in Nat, NEW n, NEW load,
         Moves(l, i, n, load)
  PROVE  /\ \A k \in DOMAIN loads : k # l => k \in DOMAIN loads' /\ loads'[k] = loads[k]
         /\ DOMAIN loads' \subseteq DOMAIN loads
         /\ Range(dvcCalls) \subseteq Range(dvcCalls')
         /\ Range(dvcCalls') \subseteq Range(dvcCalls) \cup {GetDevice(l, i)}
         /\ i < n => /\ loads'[l] = load /\ l \in DOMAIN loads'
                     /\ GetDevice(l, i) \in Range(dvcCalls')
         /\ ~(i < n) => DOMAIN loads' = DOMAIN loads \ {l} /\ dvcCalls' = dvcCalls
<1>1. CASE /\ i < n
           /\ loads' = [loads EXCEPT ![l] = load]
           /\ dvcCalls' = Append(dvcCalls, GetDevice(l, i))
  <2>1. PICK g \in DvcAsks : g = GetDevice(l, i)
    BY AsksAre
  <2>2. Range(dvcCalls') = Range(dvcCalls) \cup {g}
    BY <1>1, <2>1, LoadPosted DEF DvcOK, QueuesOK
  <2>3. /\ DOMAIN loads' = DOMAIN loads /\ loads'[l] = load
        /\ \A k \in DOMAIN loads : k # l => loads'[k] = loads[k]
    BY <1>1
  <2>. QED BY <1>1, <2>1, <2>2, <2>3
<1>2. CASE ~(i < n) /\ loads' = Restrict(loads, DOMAIN loads \ {l}) /\ dvcCalls' = dvcCalls
  BY <1>2 DEF Restrict
<1>. QED BY <1>1, <1>2 DEF Moves

-----------------------------------------------------------------------------
(* DevicesListed.  As long as no load is going to begin again with an      *)
(* empty list, one load finds, in its order, the devices not listed yet.   *)

Disturbed == Changed \in Range(dvcCalls) \cup Range(dvcAnswers)
Counting  == \E l \in LoadIds : NumberOf(l) \in Range(dvcCalls)

Fills(l, i) ==
  /\ i \in 0..Count /\ \A k \in 1..i : Available[k] \in Range(dvcs)
  /\ \/ i = Count
     \/ i = 0 /\ SizeCame(l, Count) \in Range(dvcAnswers)
     \/ /\ loads[l].size = Count
        /\ \/ GetDevice(l, i) \in Range(dvcCalls)
           \/ \E sel \in BOOLEAN :
                DeviceCame(l, i, Available[i + 1], sel) \in Range(dvcAnswers)

FillInv ==
  settled => Disturbed \/ Counting \/ \E l \in LoadIds, i \in 0..Count : Fills(l, i)

LEMMA CountIs ==
  ASSUME DvcOK
  PROVE  /\ present \subseteq AllDevices /\ Count \in Nat
         /\ present' = present => Available' = Available /\ Count' = Count
<1>1. present \subseteq AllDevices
  BY DEF DvcOK, PhoneOK
<1>. QED BY <1>1, AvailableIs DEF Available, Count

LEMMA MessagesDiffer ==
  /\ \A l, n : SizeCame(l, n).m = "number" /\ SizeCame(l, n).load = l /\ SizeCame(l, n).size = n
               /\ IsLoad(SizeCame(l, n))
  /\ \A l, i, d, sel : LET x == DeviceCame(l, i, d, sel) IN
       /\ x.m = "get" /\ x.load = l /\ x.index = i /\ x.device = d /\ x.selected = sel
       /\ IsLoad(x)
  /\ \A l, i : GetDevice(l, i).index = i
  BY DEF SizeCame, DeviceCame, GetDevice, IsLoad

LEMMA MainFills ==
  ASSUME DvcOK, OneEach, FillInv, DvcMain
  PROVE  FillInv'
<1>. PICK r : r = Head(dvcCalls)
  OBVIOUS
<1>. PICK t : t = Tail(dvcCalls)
  OBVIOUS
<1>1. PICK a \in DvcReplies :
           /\ UNCHANGED <<present, dvcs, loads>>
           /\ Range(dvcAnswers') = Range(dvcAnswers) \cup {a}
           /\ Range(dvcCalls) = Range(t) \cup {r}
           /\ Range(t) \subseteq Range(dvcCalls')
           /\ \/ r.m = "number" /\ a = SizeCame(r.load, Count) /\ r.load \in LoadIds
              \/ /\ r.m = "get" /\ settled' = settled
                 /\ a = DeviceCame(r.load, r.index, DeviceAt(r.index),
                                   DeviceAt(r.index) = selAudioDevice)
              \/ r.m = "set" /\ settled' = settled
              \/ r.m = "changed" /\ a = Changed
  BY RequestTaken
<1>2. /\ present \subseteq AllDevices /\ Count \in Nat
      /\ Available' = Available /\ Count' = Count
  BY <1>1, CountIs
<1>3. CASE r.m = "number" /\ a = SizeCame(r.load, Count) /\ r.load \in LoadIds
  <2>1. Fills(r.load, 0)'
    BY <1>1, <1>2, <1>3 DEF Fills
  <2>2. 0 \in 0..Count'
    BY <1>2
  <2>. QED BY <1>3, <2>1, <2>2 DEF FillInv
<1>4. CASE r.m = "changed" /\ a = Changed
  BY <1>1, <1>4 DEF FillInv, Disturbed
<1>5. ASSUME \/ /\ r.m = "get"
                /\ a = DeviceCame(r.load, r.index, DeviceAt(r.index),
                                  DeviceAt(r.index) = selAudioDevice)
             \/ r.m = "set",
             settled' = settled
      PROVE  FillInv'
  <2>. SUFFICES ASSUME settled
                PROVE  Disturbed' \/ Counting' \/ \E l \in LoadIds, i \in 0..Count' : Fills(l, i)'
    BY <1>5 DEF FillInv
  <2>1. r # Changed /\ \A l : r # NumberOf(l)
    BY <1>5, LoadMessages
  <2>2. (Disturbed => Disturbed') /\ (Counting => Counting')
    BY <1>1, <2>1 DEF Disturbed, Counting
  <2>3. ASSUME NEW l \in LoadIds, NEW i \in 0..Count, Fills(l, i) PROVE Fills(l, i)'
    <3>1. CASE i = Count \/ (i = 0 /\ SizeCame(l, Count) \in Range(dvcAnswers))
      BY <1>1, <1>2, <2>3, <3>1 DEF Fills
    <3>2. ASSUME i # Count, loads[l].size = Count, GetDevice(l, i) \in Range(dvcCalls)
          PROVE  Fills(l, i)'
      <4>1. CASE r = GetDevice(l, i)
        <5>1. a = DeviceCame(l, i, DeviceAt(i), DeviceAt(i) = selAudioDevice)
          BY <1>5, <4>1, LoadMessages, MessagesDiffer
        <5>2. DeviceAt(i) = Available[i + 1]
          BY <1>2, <3>2, IndexIs
        <5>3. PICK sel \in BOOLEAN : a = DeviceCame(l, i, Available[i + 1], sel)
          BY <5>1, <5>2
        <5>. QED BY <1>1, <1>2, <2>3, <3>2, <5>3 DEF Fills
      <4>2. CASE r # GetDevice(l, i)
        BY <1>1, <1>2, <2>3, <3>2, <4>2 DEF Fills
      <4>. QED BY <4>1, <4>2
    <3>3. ASSUME loads[l].size = Count,
                 NEW sel \in BOOLEAN,
                 DeviceCame(l, i, Available[i + 1], sel) \in Range(dvcAnswers)
          PROVE  Fills(l, i)'
      BY <1>1, <1>2, <2>3, <3>3 DEF Fills
    <3>. QED BY <2>3, <3>1, <3>2, <3>3 DEF Fills
  <2>. QED BY <1>2, <2>2, <2>3 DEF FillInv
<1>. QED BY <1>1, <1>3, <1>4, <1>5

(* Dart: the load that fills the list goes on, or another one does, which  *)
(* takes nothing from it.                                                  *)
LEMMA DartFills ==
  ASSUME DvcOK, OneEach, FillInv, DvcDart
  PROVE  FillInv'
<1>r. PICK r : r = Head(dvcAnswers)
  OBVIOUS
<1>0. /\ dvcAnswers # <<>> /\ dvcAnswers \in Seq(DvcReplies) /\ dvcCalls \in Seq(DvcAsks)
      /\ dvcAnswers' = Tail(dvcAnswers) /\ UNCHANGED <<present, settled>>
      /\ \/ /\ r.m = "number" /\ Size(r) /\ r.load \in LoadIds /\ r.size \in Nat
         \/ /\ r.m = "get" /\ Device(r)
            /\ r.load \in LoadIds /\ r.index \in Nat /\ r.device \in ShownDevices
         \/ r.m = "set" /\ IsSet(r)
         \/ r.m = "changed" /\ OnAudioDevicesChanged
  BY <1>r, AnswerIs
<1>1. Range(dvcAnswers) = Range(dvcAnswers') \cup {r}
  BY <1>0, <1>r, LoadTaken
<1>2. /\ present \subseteq AllDevices /\ Count \in Nat
      /\ Available' = Available /\ Count' = Count
  BY <1>0, CountIs
<1>3. CASE OnAudioDevicesChanged
  <2>1. PICK l \in LoadIds : dvcCalls' = Append(dvcCalls, NumberOf(l))
    BY <1>3 DEF OnAudioDevicesChanged
  <2>2. NumberOf(l) \in DvcAsks
    BY AsksAre
  <2>3. NumberOf(l) \in Range(dvcCalls')
    BY <1>0, <2>1, <2>2, LoadPosted
  <2>. QED BY <2>3 DEF FillInv, Counting
<1>4. ASSUME r.m \in {"number", "get", "set"},
             Range(dvcCalls) \subseteq Range(dvcCalls'), Range(dvcs) \subseteq Range(dvcs'),
             \A l \in LoadIds, i \in 0..Count :
               Fills(l, i) /\ i # Count => \E j \in 0..Count : Fills(l, j)'
      PROVE  FillInv'
  <2>. SUFFICES ASSUME settled
                PROVE  Disturbed' \/ Counting' \/ \E l \in LoadIds, i \in 0..Count' : Fills(l, i)'
    BY <1>0 DEF FillInv
  <2>1. r # Changed
    BY <1>4, LoadMessages
  <2>2. (Disturbed => Disturbed') /\ (Counting => Counting')
    BY <1>1, <1>4, <2>1 DEF Disturbed, Counting
  <2>3. ASSUME NEW l \in LoadIds, Fills(l, Count) PROVE Fills(l, Count)'
    BY <1>2, <1>4, <2>3 DEF Fills
  <2>. QED BY <1>2, <1>4, <2>2, <2>3 DEF FillInv
<1>5. CASE r.m = "set" /\ IsSet(r)
  <2>1. UNCHANGED <<dvcs, loads, dvcCalls>>
    BY <1>5 DEF IsSet
  <2>2. \A l, n : r # SizeCame(l, n)
    BY <1>5, MessagesDiffer
  <2>3. \A l, i, d, sel : r # DeviceCame(l, i, d, sel)
    BY <1>5, MessagesDiffer
  <2>4. ASSUME NEW l \in LoadIds, NEW i \in 0..Count, Fills(l, i) PROVE Fills(l, i)'
    BY <1>1, <1>2, <2>1, <2>2, <2>3, <2>4 DEF Fills
  <2>. QED BY <1>4, <1>5, <2>1, <2>4
<1>6. ASSUME IsLoad(r), r.load \in LoadIds, NEW k \in Nat, NEW n, NEW load,
             Moves(r.load, k, n, load), Range(dvcs) \subseteq Range(dvcs'),
             NEW l \in LoadIds, NEW i \in 0..Count, i # Count, Fills(l, i),
             SizeCame(l, Count) # r,
             \A sel \in BOOLEAN : r # DeviceCame(l, i, Available[i + 1], sel)
      PROVE  Fills(l, i)'
  <2>1. /\ r.load \in DOMAIN loads
        /\ \A x \in Range(dvcAnswers) : IsLoad(x) /\ x.load = r.load => x = r
        /\ \A x \in Range(dvcCalls) : IsLoad(x) => x.load # r.load
    BY <1>0, <1>6, <1>r, OwnMessage
  <2>2. /\ \A x \in DOMAIN loads : x # r.load => loads'[x] = loads[x]
        /\ Range(dvcCalls) \subseteq Range(dvcCalls')
    BY <1>6, <2>1, GoesOn
  <2>3. CASE i = 0 /\ SizeCame(l, Count) \in Range(dvcAnswers)
    BY <1>1, <1>2, <1>6, <2>3 DEF Fills
  <2>4. ASSUME loads[l].size = Count, GetDevice(l, i) \in Range(dvcCalls)
        PROVE  Fills(l, i)'
    <3>1. l # r.load /\ l \in DOMAIN loads
      <4>1. IsLoad(GetDevice(l, i)) /\ GetDevice(l, i).load = l
        BY LoadMessages
      <4>2. l \in LoadsIn(dvcCalls)
        BY <2>4, <4>1, LoadsAre
      <4>. QED BY <2>1, <2>4, <4>1, <4>2 DEF OneEach
    <3>. QED BY <1>1, <1>2, <1>6, <2>2, <2>4, <3>1 DEF Fills
  <2>5. ASSUME loads[l].size = Count, NEW sel \in BOOLEAN,
               DeviceCame(l, i, Available[i + 1], sel) \in Range(dvcAnswers)
        PROVE  Fills(l, i)'
    <3>1. l # r.load /\ l \in DOMAIN loads
      <4>. PICK x : x = DeviceCame(l, i, Available[i + 1], sel)
        OBVIOUS
      <4>1. IsLoad(x) /\ x.load = l /\ x # r
        BY <1>6, MessagesDiffer
      <4>2. l \in LoadsIn(dvcAnswers)
        BY <2>5, <4>1, LoadsAre
      <4>. QED BY <2>1, <2>5, <4>1, <4>2 DEF OneEach
    <3>2. DeviceCame(l, i, Available[i + 1], sel) \in Range(dvcAnswers')
      BY <1>1, <1>6, <2>5
    <3>. QED BY <1>2, <1>6, <2>2, <2>5, <3>1, <3>2 DEF Fills
  <2>. QED BY <1>6, <2>3, <2>4, <2>5 DEF Fills
<1>7. CASE r.m = "number" /\ Size(r) /\ r.load \in LoadIds /\ r.size \in Nat
  <2>1. GoOn(r.load, 0, r.size, FALSE) /\ dvcs' = dvcs /\ IsLoad(r)
    BY <1>7 DEF Size, IsLoad
  <2>2. r.load \in DOMAIN loads
    BY <1>0, <2>1, <1>r, OwnMessage
  <2>2a. PICK first, n, load : /\ first = 0 /\ n = r.size /\ load.size = n
                               /\ first \in Nat /\ Moves(r.load, first, n, load)
    <3>1. Moves(r.load, 0, r.size, [size |-> r.size, found |-> FALSE])
      BY <2>1, GoOnMoves
    <3>. QED BY <3>1
  <2>3. /\ Range(dvcCalls) \subseteq Range(dvcCalls')
        /\ 0 < r.size => /\ loads'[r.load].size = r.size
                         /\ GetDevice(r.load, 0) \in Range(dvcCalls')
    <3>1. CASE 0 < r.size
      <4>1. PICK g \in DvcAsks : g = GetDevice(r.load, 0)
        BY <1>7, AsksAre
      <4>2. /\ loads' = [loads EXCEPT ![r.load] = [size |-> r.size, found |-> FALSE]]
            /\ dvcCalls' = Append(dvcCalls, g)
        BY <2>1, <3>1, <4>1 DEF GoOn
      <4>3. Range(dvcCalls') = Range(dvcCalls) \cup {g}
        BY <1>0, <4>2, LoadPosted
      <4>4. loads'[r.load].size = r.size
        BY <2>2, <4>2
      <4>. QED BY <4>1, <4>3, <4>4
    <3>2. CASE ~(0 < r.size)
      <4>1. dvcCalls' = dvcCalls
        BY <2>1, <3>2 DEF GoOn
      <4>. QED BY <3>2, <4>1
    <3>. QED BY <3>1, <3>2
  <2>4. ASSUME NEW l \in LoadIds, NEW i \in 0..Count, Fills(l, i), i # Count
        PROVE  \E j \in 0..Count : Fills(l, j)'
    <3>1. CASE r = SizeCame(l, Count)
      <4>1. r.load = l /\ r.size = Count /\ 0 < Count
        BY <1>2, <2>4, <3>1, MessagesDiffer
      <4>2. Fills(l, 0)'
        BY <1>2, <2>3, <4>1 DEF Fills
      <4>. QED BY <1>2, <4>2
    <3>2. CASE r # SizeCame(l, Count)
      <4>1. \A sel \in BOOLEAN : r # DeviceCame(l, i, Available[i + 1], sel)
        BY <1>7, MessagesDiffer
      <4>. QED BY <1>6, <1>7, <2>1, <2>2a, <2>4, <3>2, <4>1
    <3>. QED BY <3>1, <3>2
  <2>. QED BY <1>4, <1>7, <2>1, <2>3, <2>4
<1>8. CASE /\ r.m = "get" /\ Device(r)
           /\ r.load \in LoadIds /\ r.index \in Nat /\ r.device \in ShownDevices
  <2>2. IsLoad(r) /\ r.index + 1 \in Nat
    BY <1>8 DEF IsLoad
  <2>0. r.load \in DOMAIN loads
    BY <1>0, <2>2, <1>r, OwnMessage
  <2>1. PICK n, load : /\ n = loads[r.load].size /\ load.size = n
                        /\ Moves(r.load, r.index + 1, n, load)
    <3>1. PICK n : n = loads[r.load].size
      OBVIOUS
    <3>2. PICK found : GoOn(r.load, r.index + 1, n, found)
      BY <1>8, <3>1 DEF Device
    <3>3. Moves(r.load, r.index + 1, n, [size |-> n, found |-> found])
      BY <3>2, GoOnMoves
    <3>. QED BY <3>1, <3>3
  <2>3. Range(dvcs') = Range(dvcs) \cup {r.device}
    <3>1. \/ dvcs' = dvcs /\ r.device \in Range(dvcs)
          \/ dvcs' = Append(dvcs, r.device)
      BY <1>8 DEF Device
    <3>2. dvcs \in Seq(ShownDevices)
      BY DEF DvcOK, ListOK
    <3>3. Range(Append(dvcs, r.device)) = Range(dvcs) \cup {r.device}
      BY <1>8, <3>2, LoadPosted
    <3>. QED BY <3>1, <3>3
  <2>5. /\ Range(dvcCalls) \subseteq Range(dvcCalls')
        /\ r.index + 1 < n => /\ loads'[r.load].size = n
                              /\ GetDevice(r.load, r.index + 1) \in Range(dvcCalls')
    BY <1>8, <2>0, <2>1, <2>2, GoesOn
  <2>6. ASSUME NEW l \in LoadIds, NEW i \in 0..Count, Fills(l, i), i # Count
        PROVE  \E j \in 0..Count : Fills(l, j)'
    <3>1. CASE \E sel \in BOOLEAN : r = DeviceCame(l, i, Available[i + 1], sel)
      <4>1. r.load = l /\ r.index = i /\ r.device = Available[i + 1]
        BY <3>1, MessagesDiffer
      <4>2. n = Count
        <5>1. r \in Range(dvcAnswers)
          BY <1>1
        <5>2. \A x \in Range(dvcCalls) : IsLoad(x) => x.load # r.load
          BY <1>0, <2>2, <1>r, OwnMessage
        <5>3. GetDevice(l, i) \notin Range(dvcCalls)
          BY <4>1, <5>2, LoadMessages
        <5>4. SizeCame(l, Count) \notin Range(dvcAnswers)
          <6>1. \A x \in Range(dvcAnswers) : IsLoad(x) /\ x.load = r.load => x = r
            BY <1>0, <2>2, <1>r, OwnMessage
          <6>. PICK x : x = SizeCame(l, Count)
            OBVIOUS
          <6>2. IsLoad(x) /\ x.load = l /\ x.m = "number"
            BY MessagesDiffer
          <6>. QED BY <1>8, <4>1, <6>1, <6>2
        <5>. QED BY <2>1, <2>6, <4>1, <5>3, <5>4 DEF Fills
      <4>3. /\ i \in Nat /\ i + 1 \in 0..Count
            /\ \A k \in 1..i + 1 : k \in 1..i \/ k = i + 1
        BY <1>2, <2>6
      <4>4. \A k \in 1..i + 1 : Available[k] \in Range(dvcs')
        BY <2>3, <2>6, <4>1, <4>3 DEF Fills
      <4>5. i + 1 = Count \/ i + 1 < Count
        BY <1>2, <4>3
      <4>6. Fills(l, i + 1)'
        BY <1>2, <2>5, <4>1, <4>2, <4>3, <4>4, <4>5 DEF Fills
      <4>. QED BY <4>3, <4>6
    <3>2. CASE ~\E sel \in BOOLEAN : r = DeviceCame(l, i, Available[i + 1], sel)
      <4>1. r # SizeCame(l, Count)
        BY <1>8, MessagesDiffer
      <4>2. Fills(l, i)'
        BY <1>6, <1>8, <2>1, <2>2, <2>3, <2>6, <3>2, <4>1
      <4>. QED BY <4>2
    <3>. QED BY <3>1, <3>2
  <2>. QED BY <1>4, <1>8, <2>3, <2>5, <2>6
<1>. QED BY <1>0, <1>3, <1>5, <1>7, <1>8

LEMMA DvcFills ==
  ASSUME DvcOK, OneEach, FillInv, [DvcNext]_dvars
  PROVE  FillInv'
<1>1. ASSUME NEW d \in Pluggable, Plug(d) PROVE FillInv'
  BY <1>1 DEF Plug, FillInv
<1>2. CASE \/ \E i \in 0..Len(dvcs) - 1 : SetPlayoutDevice(i)
           \/ UNCHANGED dvars
  <2>1. /\ UNCHANGED <<present, dvcs, loads, dvcAnswers, settled>>
        /\ Range(dvcCalls) \subseteq Range(dvcCalls')
    <3>1. ASSUME NEW i \in 0..Len(dvcs) - 1, SetPlayoutDevice(i)
          PROVE  Range(dvcCalls) \subseteq Range(dvcCalls')
      <4>1. i \in Nat /\ dvcCalls \in Seq(DvcAsks) /\ dvcCalls' = Append(dvcCalls, SetDevice(i))
        BY <3>1 DEF DvcOK, ListOK, QueuesOK, SetPlayoutDevice
      <4>2. SetDevice(i) \in DvcAsks
        BY <4>1, AsksAre
      <4>. QED BY <4>1, <4>2, LoadPosted
    <3>. QED BY <1>2, <3>1 DEF SetPlayoutDevice, phone, shown, dvars
  <2>2. Available' = Available /\ Count' = Count
    BY <2>1, CountIs
  <2>3. ASSUME NEW l \in LoadIds, NEW i \in 0..Count, Fills(l, i) PROVE Fills(l, i)'
    BY <2>1, <2>2, <2>3 DEF Fills
  <2>4. (Disturbed => Disturbed') /\ (Counting => Counting')
    BY <2>1 DEF Disturbed, Counting
  <2>. QED BY <2>1, <2>2, <2>3, <2>4 DEF FillInv
<1>. QED BY <1>1, <1>2, MainFills, DartFills DEF DvcNext

LEMMA QuietIs == Quiet => Range(dvcCalls) = {} /\ Range(dvcAnswers) = {}
  BY DEF Quiet, Range

(* No device of the phone is missing from the list at rest, unless it has  *)
(* come since the last load counted: however loads, selections and         *)
(* headsets cross.                                                         *)
THEOREM NoDeviceMissing == DvcSpec => []DevicesListed
<1>1. DvcInit => FillInv
  BY DEF DvcInit, FillInv
<1>2. DvcOK /\ FillInv => DevicesListed
  <2>. SUFFICES ASSUME DvcOK, FillInv, Quiet, settled, NEW d \in present
                PROVE  d \in Range(dvcs)
    BY DEF DevicesListed
  <2>1. \A k \in 1..Count : Available[k] \in Range(dvcs)
    BY QuietIs DEF FillInv, Disturbed, Counting, Fills
  <2>2. \E k \in 1..Count : Available[k] = d
    BY CountIs, AvailableIs
  <2>. QED BY <2>1, <2>2
<1>. QED BY <1>1, <1>2, DvcTypesBegin, DvcTypesKept, BeginsApart, DvcApart, DvcFills, PTL
         DEF DvcSpec

-----------------------------------------------------------------------------
(* DevicesShown.  A load that began when no other was under way is the only*)
(* one, finds the list empty when it counts, and what it has filled in is  *)
(* the first devices of the engine, unless it is to begin again.           *)

OneLoad     == alone => \A k, l \in DOMAIN loads : k = l
CountsEmpty == alone /\ Counting => dvcs = <<>>
ChangeFollows ==
  \A k \in DOMAIN dvcAnswers :
    dvcAnswers[k].m = "set" /\ dvcAnswers[k].ok =>
      \/ Changed \in Range(dvcCalls)
      \/ \E j \in DOMAIN dvcAnswers : k < j /\ dvcAnswers[j] = Changed
AloneOK == OneLoad /\ CountsEmpty /\ ChangeFollows

(* The first n devices are loaded; once the device in use is among them it *)
(* is the selected one, and nothing later changes that.                    *)
LoadedTo(n) ==
  /\ n <= Count /\ Len(dvcs) = n /\ \A k \in 1..n : dvcs[k] = Available[k]
InUseAt(k) == k \in 1..Count /\ Available[k] = selAudioDevice
ChosenTo(n, found) ==
  \A k \in 1..n : InUseAt(k) => selIndex = k - 1 /\ selGuid = selAudioDevice /\ found

InUseThere(i) == Available[i + 1] = selAudioDevice
Shows(l, i, found) ==
  /\ LoadedTo(i) /\ ChosenTo(i, found)
  /\ \/ i = Count /\ DOMAIN loads = {}
     \/ i = 0 /\ SizeCame(l, Count) \in Range(dvcAnswers)
     \/ /\ i # Count /\ loads[l] = [size |-> Count, found |-> found]
        /\ \/ GetDevice(l, i) \in Range(dvcCalls)
           \/ DeviceCame(l, i, Available[i + 1], InUseThere(i)) \in Range(dvcAnswers)
ShowInv ==
  alone /\ settled /\ ~Disturbed /\ ~Counting =>
    \E l \in LoadIds, i \in 0..Count, found \in BOOLEAN : Shows(l, i, found)

(* A load that goes on asks for a device at most.                          *)
LEMMA LoadStep ==
  ASSUME DvcOK, OneEach, DvcDart, NEW r, r = Head(dvcAnswers), IsLoad(r)
  PROVE  /\ Range(dvcCalls) \subseteq Range(dvcCalls')
         /\ \E k : Range(dvcCalls') \subseteq Range(dvcCalls) \cup {GetDevice(r.load, k)}
         /\ DOMAIN loads' \subseteq DOMAIN loads /\ alone' = alone
<1>1. /\ dvcAnswers # <<>> /\ r.load \in LoadIds /\ alone' = alone
      /\ \/ r.m = "number" /\ Size(r)
         \/ r.m = "get" /\ Device(r) /\ r.index \in Nat
  BY AnswerIs DEF IsLoad
<1>2. PICK k, n, load : k \in Nat /\ Moves(r.load, k, n, load)
  <2>1. CASE r.m = "number" /\ Size(r)
    <3>1. GoOn(r.load, 0, r.size, FALSE)
      BY <2>1 DEF Size
    <3>2. Moves(r.load, 0, r.size, [size |-> r.size, found |-> FALSE])
      BY <3>1, GoOnMoves
    <3>. QED BY <3>2
  <2>2. CASE r.m = "get" /\ Device(r) /\ r.index \in Nat
    <3>1. PICK found : GoOn(r.load, r.index + 1, loads[r.load].size, found)
      BY <2>2 DEF Device
    <3>2. PICK n, load : Moves(r.load, r.index + 1, n, load)
      BY <3>1, GoOnMoves
    <3>3. r.index + 1 \in Nat
      BY <2>2
    <3>. QED BY <3>2, <3>3
  <2>. QED BY <1>1, <2>1, <2>2
<1>3. PICK l \in LoadIds : l = r.load /\ l \in DOMAIN loads
  BY <1>1, OwnMessage
<1>4. PICK j \in Nat : Moves(l, j, n, load)
  BY <1>2, <1>3
<1>5. /\ DOMAIN loads' \subseteq DOMAIN loads
      /\ Range(dvcCalls) \subseteq Range(dvcCalls')
      /\ Range(dvcCalls') \subseteq Range(dvcCalls) \cup {GetDevice(l, j)}
  <2>1. l \in DOMAIN loads
    BY <1>3
  <2>. QED BY <1>4, <2>1, GoesOn
<1>. QED BY <1>1, <1>3, <1>5

LEMMA ChoiceSent ==
  ASSUME DvcOK, NEW i \in 0..Len(dvcs) - 1, SetPlayoutDevice(i)
  PROVE  /\ Range(dvcCalls') = Range(dvcCalls) \cup {SetDevice(i)}
         /\ SetDevice(i).m = "set"
         /\ UNCHANGED <<present, selAudioDevice, dvcAnswers, dvcs, selGuid, selIndex,
                        loads, settled, alone>>
<1>1. i \in Nat /\ dvcCalls \in Seq(DvcAsks) /\ dvcCalls' = Append(dvcCalls, SetDevice(i))
  BY DEF DvcOK, ListOK, QueuesOK, SetPlayoutDevice
<1>2. SetDevice(i) \in DvcAsks /\ SetDevice(i).m = "set"
  BY <1>1, AsksAre DEF SetDevice
<1>3. Range(dvcCalls') = Range(dvcCalls) \cup {SetDevice(i)}
  BY <1>1, <1>2, LoadPosted
<1>. QED BY <1>2, <1>3 DEF SetPlayoutDevice, phone, shown

LEMMA MainAlone ==
  ASSUME DvcOK, OneEach, AloneOK, DvcMain
  PROVE  AloneOK'
<1>r. PICK r, t : r = Head(dvcCalls) /\ t = Tail(dvcCalls)
  OBVIOUS
<1>1. PICK a \in DvcReplies :
           /\ dvcAnswers \in Seq(DvcReplies) /\ dvcAnswers' = Append(dvcAnswers, a)
           /\ UNCHANGED <<dvcs, loads, alone>>
           /\ Range(dvcCalls) = Range(t) \cup {r}
           /\ Range(t) \subseteq Range(dvcCalls')
           /\ Range(dvcCalls') \subseteq Range(t) \cup {Changed}
           /\ a.m = "set" => IF a.ok THEN Changed \in Range(dvcCalls') ELSE TRUE
           /\ r = Changed => a = Changed
  <2>1. PICK a \in DvcReplies :
           /\ dvcAnswers \in Seq(DvcReplies) /\ dvcAnswers' = Append(dvcAnswers, a)
           /\ UNCHANGED <<dvcs, loads, alone>>
           /\ Range(dvcCalls) = Range(t) \cup {r}
           /\ Range(t) \subseteq Range(dvcCalls')
           /\ Range(dvcCalls') \subseteq Range(t) \cup {Changed}
           /\ \/ r.m = "number" /\ a = SizeCame(r.load, Count)
              \/ r.m = "get" /\ a = DeviceCame(r.load, r.index, DeviceAt(r.index),
                                               DeviceAt(r.index) = selAudioDevice)
              \/ r.m = "set" /\ IF a.ok THEN Changed \in Range(dvcCalls') ELSE TRUE
              \/ r.m = "changed" /\ a = Changed
    BY <1>r, RequestTaken
  <2>2. a.m = "set" => IF a.ok THEN Changed \in Range(dvcCalls') ELSE TRUE
    BY <2>1, MessagesDiffer, LoadMessages
  <2>3. r = Changed => a = Changed
    BY <2>1, LoadMessages
  <2>. QED BY <2>1, <2>2, <2>3
<1>2. OneLoad'
  BY <1>1 DEF AloneOK, OneLoad
<1>3. CountsEmpty'
  <2>1. Counting' => Counting
    BY <1>1, LoadMessages DEF Counting
  <2>. QED BY <1>1, <2>1 DEF AloneOK, CountsEmpty
<1>4. ChangeFollows'
  <2>1. /\ \A i \in DOMAIN dvcAnswers : i \in DOMAIN dvcAnswers' /\ dvcAnswers'[i] = dvcAnswers[i]
        /\ Len(dvcAnswers) + 1 \in DOMAIN dvcAnswers' /\ dvcAnswers'[Len(dvcAnswers) + 1] = a
        /\ \A i \in DOMAIN dvcAnswers' : i \in DOMAIN dvcAnswers \/ i = Len(dvcAnswers) + 1
    BY <1>1, AppendOf
  <2>2. \A i \in DOMAIN dvcAnswers : i < Len(dvcAnswers) + 1
    BY <1>1
  <2>3. ASSUME NEW k \in DOMAIN dvcAnswers', dvcAnswers'[k].m = "set", dvcAnswers'[k].ok
        PROVE  \/ Changed \in Range(dvcCalls')
               \/ \E j \in DOMAIN dvcAnswers' : k < j /\ dvcAnswers'[j] = Changed
    <3>1. CASE k = Len(dvcAnswers) + 1
      BY <1>1, <2>1, <2>3, <3>1
    <3>2. CASE k \in DOMAIN dvcAnswers
      <4>1. \/ Changed \in Range(dvcCalls)
            \/ \E j \in DOMAIN dvcAnswers : k < j /\ dvcAnswers[j] = Changed
        BY <2>1, <2>3, <3>2 DEF AloneOK, ChangeFollows
      <4>2. CASE r = Changed
        BY <1>1, <2>1, <2>2, <3>2, <4>2
      <4>3. CASE r # Changed
        BY <1>1, <2>1, <4>1, <4>3
      <4>. QED BY <4>2, <4>3
    <3>. QED BY <2>1, <3>1, <3>2
  <2>. QED BY <2>3 DEF ChangeFollows
<1>. QED BY <1>2, <1>3, <1>4 DEF AloneOK

LEMMA DartAlone ==
  ASSUME DvcOK, OneEach, AloneOK, DvcDart
  PROVE  AloneOK'
<1>r. PICK r, t : r = Head(dvcAnswers) /\ t = Tail(dvcAnswers)
  OBVIOUS
<1>1. /\ dvcAnswers # <<>> /\ dvcAnswers \in Seq(DvcReplies) /\ dvcCalls \in Seq(DvcAsks)
      /\ dvcAnswers' = t
      /\ \/ r.m = "number" /\ Size(r)
         \/ r.m = "get" /\ Device(r)
         \/ r.m = "set" /\ IsSet(r) /\ alone' = alone
         \/ r.m = "changed" /\ OnAudioDevicesChanged
  BY <1>r, AnswerIs
<1>2. Range(dvcCalls) \subseteq Range(dvcCalls') => ChangeFollows'
  <2>. SUFFICES ASSUME Range(dvcCalls) \subseteq Range(dvcCalls'),
                       NEW k \in DOMAIN t, t[k].m = "set", t[k].ok
                PROVE  \/ Changed \in Range(dvcCalls')
                       \/ \E j \in DOMAIN t : k < j /\ t[j] = Changed
    BY <1>1 DEF ChangeFollows
  <2>1. /\ \A i \in DOMAIN t : i \in Nat /\ i + 1 \in DOMAIN dvcAnswers /\ t[i] = dvcAnswers[i + 1]
        /\ \A i \in DOMAIN dvcAnswers : i \in Nat /\ (i = 1 \/ (i - 1 \in DOMAIN t /\ t[i - 1] = dvcAnswers[i]))
    BY <1>1, <1>r, TailOf
  <2>2. CASE Changed \in Range(dvcCalls)
    BY <2>2
  <2>3. ASSUME NEW j \in DOMAIN dvcAnswers, k + 1 < j, dvcAnswers[j] = Changed
        PROVE  \E i \in DOMAIN t : k < i /\ t[i] = Changed
    <3>1. k \in Nat /\ j \in Nat /\ j # 1 /\ k < j - 1
      BY <2>1, <2>3
    <3>. QED BY <2>1, <2>3, <3>1
  <2>. QED BY <2>1, <2>2, <2>3 DEF AloneOK, ChangeFollows
<1>3. CASE IsLoad(r)
  <2>1. PICK k : /\ Range(dvcCalls) \subseteq Range(dvcCalls')
                 /\ Range(dvcCalls') \subseteq Range(dvcCalls) \cup {GetDevice(r.load, k)}
                 /\ DOMAIN loads' \subseteq DOMAIN loads /\ alone' = alone
    BY <1>r, <1>3, LoadStep
  <2>2. OneLoad'
    BY <2>1 DEF AloneOK, OneLoad
  <2>3. Counting' => Counting
    BY <2>1, LoadMessages DEF Counting
  <2>4. ASSUME alone, Counting PROVE r.m = "number"
    <3>1. PICK l \in LoadIds : NumberOf(l) \in Range(dvcCalls)
      BY <2>4 DEF Counting
    <3>2. IsLoad(NumberOf(l)) /\ NumberOf(l).load = l
      BY LoadMessages
    <3>3. l \in DOMAIN loads
      BY <3>1, <3>2, LoadsAre DEF OneEach
    <3>4. r.load \in DOMAIN loads /\ l # r.load
      BY <1>1, <1>3, <1>r, <3>1, <3>2, OwnMessage
    <3>. QED BY <2>4, <3>3, <3>4 DEF AloneOK, OneLoad
  <2>5. r.m = "number" => dvcs' = dvcs
    BY <1>1 DEF Size
  <2>6. CountsEmpty'
    BY <2>1, <2>3, <2>4, <2>5 DEF AloneOK, CountsEmpty
  <2>. QED BY <1>2, <2>1, <2>2, <2>6 DEF AloneOK
<1>4. CASE r.m = "set" /\ IsSet(r) /\ alone' = alone
  <2>1. UNCHANGED <<dvcs, loads, dvcCalls, alone>>
    BY <1>4 DEF IsSet
  <2>2. OneLoad' /\ CountsEmpty'
    BY <2>1 DEF AloneOK, OneLoad, CountsEmpty, Counting
  <2>. QED BY <1>2, <2>1, <2>2 DEF AloneOK
<1>5. CASE OnAudioDevicesChanged
  <2>1. PICK l \in LoadIds : /\ DOMAIN loads' = DOMAIN loads \cup {l}
                             /\ alone' = (DOMAIN loads = {}) /\ dvcs' = <<>>
                             /\ dvcCalls' = Append(dvcCalls, NumberOf(l))
    BY <1>5 DEF OnAudioDevicesChanged
  <2>2. OneLoad' /\ CountsEmpty'
    BY <2>1 DEF OneLoad, CountsEmpty
  <2>3. Range(dvcCalls) \subseteq Range(dvcCalls')
    <3>1. PICK n \in DvcAsks : n = NumberOf(l)
      BY AsksAre
    <3>2. dvcCalls' = Append(dvcCalls, n)
      BY <2>1, <3>1
    <3>. QED BY <1>1, <3>2, LoadPosted
  <2>. QED BY <1>2, <2>2, <2>3 DEF AloneOK
<1>. QED BY <1>1, <1>3, <1>4, <1>5 DEF IsLoad

LEMMA DvcAlone ==
  ASSUME DvcOK, OneEach, AloneOK, [DvcNext]_dvars
  PROVE  AloneOK'
<1>1. CASE \/ \E d \in Pluggable : Plug(d)
           \/ UNCHANGED dvars
  <2>1. UNCHANGED <<dvcs, loads, dvcCalls, dvcAnswers, alone>>
    BY <1>1 DEF Plug, shown, dvars
  <2>. QED BY <2>1 DEF AloneOK, OneLoad, CountsEmpty, Counting, ChangeFollows
<1>2. ASSUME NEW i \in 0..Len(dvcs) - 1, SetPlayoutDevice(i) PROVE AloneOK'
  <2>1. /\ UNCHANGED <<dvcs, loads, dvcAnswers, alone>>
        /\ Range(dvcCalls') = Range(dvcCalls) \cup {SetDevice(i)} /\ SetDevice(i).m = "set"
    BY <1>2, ChoiceSent
  <2>2. Counting' => Counting
    BY <2>1, LoadMessages DEF Counting
  <2>. QED BY <2>1, <2>2 DEF AloneOK, OneLoad, CountsEmpty, ChangeFollows
<1>. QED BY <1>1, <1>2, MainAlone, DartAlone DEF DvcNext

LEMMA BeginsAlone == DvcInit => AloneOK /\ ShowInv
<1>. SUFFICES ASSUME DvcInit PROVE AloneOK /\ ShowInv
  OBVIOUS
<1>1. OneLoad /\ CountsEmpty
  BY DEF DvcInit, OneLoad, CountsEmpty
<1>2. DOMAIN dvcAnswers = {}
  BY DEF DvcInit
<1>. QED BY <1>1, <1>2 DEF AloneOK, ChangeFollows, ShowInv, DvcInit

LEMMA MainShows ==
  ASSUME DvcOK, OneEach, AloneOK, ShowInv, DvcMain
  PROVE  ShowInv'
<1>r. PICK r, t : r = Head(dvcCalls) /\ t = Tail(dvcCalls)
  OBVIOUS
<1>1. PICK a \in DvcReplies :
           /\ UNCHANGED <<present, dvcs, selGuid, selIndex, loads, alone>>
           /\ Range(dvcAnswers') = Range(dvcAnswers) \cup {a}
           /\ Range(dvcCalls) = Range(t) \cup {r}
           /\ Range(t) \subseteq Range(dvcCalls')
           /\ Range(dvcCalls') \subseteq Range(t) \cup {Changed}
           /\ \/ /\ r.m = "number" /\ a = SizeCame(r.load, Count) /\ r.load \in LoadIds
              \/ /\ r.m = "get"
                 /\ a = DeviceCame(r.load, r.index, DeviceAt(r.index),
                                   DeviceAt(r.index) = selAudioDevice)
                 /\ UNCHANGED <<selAudioDevice, settled>>
              \/ /\ r.m = "set" /\ settled' = settled
                 /\ IF a.ok THEN Changed \in Range(dvcCalls')
                    ELSE selAudioDevice' = selAudioDevice
              \/ r.m = "changed" /\ a = Changed
  BY <1>r, RequestTaken
<1>2. /\ present \subseteq AllDevices /\ Count \in Nat
      /\ Available' = Available /\ Count' = Count
  BY <1>1, CountIs
<1>. SUFFICES ASSUME alone, settled', ~Disturbed', ~Counting'
              PROVE  \E l \in LoadIds, i \in 0..Count, found \in BOOLEAN : Shows(l, i, found)'
  BY <1>1, <1>2 DEF ShowInv
<1>3. CASE r.m = "number" /\ a = SizeCame(r.load, Count) /\ r.load \in LoadIds
  <2>1. dvcs = <<>>
    <3>1. r.m = "number" /\ r \in Range(dvcCalls) /\ dvcCalls \in Seq(DvcAsks) /\ r \in DvcAsks
      <4>1. dvcCalls # <<>> /\ dvcCalls \in Seq(DvcAsks)
        BY DEF DvcOK, QueuesOK, DvcMain
      <4>. QED BY <1>r, <1>1, <1>3, <4>1, QueueTypes
    <3>2. r = NumberOf(r.load)
      BY <3>1, AsksAre DEF NumberOf
    <3>3. Counting
      BY <1>3, <3>1, <3>2 DEF Counting
    <3>. QED BY <3>3 DEF AloneOK, CountsEmpty
  <2>2. PICK l \in LoadIds, i \in 0..Count : l = r.load /\ i = 0
    BY <1>2, <1>3
  <2>2a. PICK found \in BOOLEAN : found = FALSE
    OBVIOUS
  <2>3. LoadedTo(i)' /\ ChosenTo(i, found)'
    BY <1>1, <1>2, <2>1, <2>2 DEF LoadedTo, ChosenTo
  <2>4. SizeCame(l, Count) \in Range(dvcAnswers')
    BY <1>1, <1>3, <2>2
  <2>5. Shows(l, i, found)'
    BY <1>2, <2>2, <2>3, <2>4 DEF Shows
  <2>. QED BY <2>5
<1>4. CASE r.m = "changed" /\ a = Changed
  BY <1>1, <1>4 DEF Disturbed
<1>5. ASSUME \/ /\ r.m = "get"
                /\ a = DeviceCame(r.load, r.index, DeviceAt(r.index),
                                  DeviceAt(r.index) = selAudioDevice)
             \/ r.m = "set",
             UNCHANGED <<selAudioDevice, settled>>
      PROVE  \E l \in LoadIds, i \in 0..Count, found \in BOOLEAN : Shows(l, i, found)'
  <2>1. r # Changed /\ \A l : r # NumberOf(l)
    BY <1>5, LoadMessages
  <2>2. ~Disturbed /\ ~Counting
    BY <1>1, <2>1 DEF Disturbed, Counting
  <2>3. PICK l \in LoadIds, i \in 0..Count, found \in BOOLEAN : Shows(l, i, found)
    BY <1>5, <2>2 DEF ShowInv
  <2>4. LoadedTo(i)' /\ ChosenTo(i, found)'
    BY <1>1, <1>2, <1>5, <2>3 DEF Shows, LoadedTo, ChosenTo, InUseAt
  <2>5. CASE i = Count /\ DOMAIN loads = {}
    <3>1. Shows(l, i, found)'
      BY <1>1, <1>2, <2>4, <2>5 DEF Shows
    <3>. QED BY <3>1
  <2>6. CASE i = 0 /\ SizeCame(l, Count) \in Range(dvcAnswers)
    <3>1. Shows(l, i, found)'
      BY <1>1, <1>2, <2>4, <2>6 DEF Shows
    <3>. QED BY <3>1
  <2>7. CASE i # Count /\ loads[l] = [size |-> Count, found |-> found]
    <3>1. CASE DeviceCame(l, i, Available[i + 1], InUseThere(i)) \in Range(dvcAnswers)
      <4>1. InUseThere(i)' = InUseThere(i)
        BY <1>2, <1>5 DEF InUseThere
      <4>2. Shows(l, i, found)'
        BY <1>1, <1>2, <2>4, <2>7, <3>1, <4>1 DEF Shows
      <4>. QED BY <4>2
    <3>2. CASE GetDevice(l, i) \in Range(dvcCalls) /\ r # GetDevice(l, i)
      <4>1. Shows(l, i, found)'
        BY <1>1, <1>2, <2>4, <2>7, <3>2 DEF Shows
      <4>. QED BY <4>1
    <3>3. CASE r = GetDevice(l, i)
      <4>1. a = DeviceCame(l, i, DeviceAt(i), DeviceAt(i) = selAudioDevice)
        BY <1>5, <3>3, LoadMessages, MessagesDiffer
      <4>2. DeviceAt(i) = Available[i + 1]
        BY <1>2, <2>7, IndexIs
      <4>3. a = DeviceCame(l, i, Available[i + 1], InUseThere(i)) /\ InUseThere(i)' = InUseThere(i)
        BY <1>2, <1>5, <4>1, <4>2 DEF InUseThere
      <4>4. Shows(l, i, found)'
        BY <1>1, <1>2, <2>4, <2>7, <4>3 DEF Shows
      <4>. QED BY <4>4
    <3>4. \/ GetDevice(l, i) \in Range(dvcCalls)
          \/ DeviceCame(l, i, Available[i + 1], InUseThere(i)) \in Range(dvcAnswers)
          \/ i = 0 /\ SizeCame(l, Count) \in Range(dvcAnswers)
      BY <2>3, <2>7 DEF Shows
    <3>. QED BY <2>6, <3>1, <3>2, <3>3, <3>4
  <2>. QED BY <2>3, <2>5, <2>6, <2>7 DEF Shows
<1>6. CASE r.m = "set" /\ settled' = settled /\ Changed \in Range(dvcCalls')
  BY <1>6 DEF Disturbed
<1>. QED BY <1>1, <1>3, <1>4, <1>5, <1>6

LEMMA AllLoaded ==
  ASSUME DvcOK, LoadedTo(Count)
  PROVE  dvcs = Available
<1>1. Available \in Seq(present) /\ Count \in Nat /\ DOMAIN Available = 1..Count
  BY CountIs, AvailableIs
<1>2. dvcs \in Seq(ShownDevices) /\ Len(dvcs) = Count /\ \A k \in 1..Count : dvcs[k] = Available[k]
  BY DEF DvcOK, ListOK, LoadedTo
<1>. QED BY <1>1, <1>2

(* A device has come: one more is loaded.                                  *)
LEMMA DeviceShows ==
  ASSUME DvcOK, NEW l \in LoadIds, l \in DOMAIN loads,
         NEW i \in 0..Count - 1, NEW found \in BOOLEAN,
         loads[l] = [size |-> Count, found |-> found], DOMAIN loads = {l},
         LoadedTo(i), ChosenTo(i, found), UNCHANGED <<present, selAudioDevice>>,
         NEW r, r = DeviceCame(l, i, Available[i + 1], InUseThere(i)),
         Device(r)
  PROVE  \E j \in 0..Count, now \in BOOLEAN : Shows(l, j, now)'
<1>. DEFINE isSel == selGuid = Available[i + 1] \/ InUseThere(i)
            last  == i + 1 >= Count
<1>n. PICK now \in BOOLEAN : now = (found \/ isSel)
  OBVIOUS
<1>1. /\ present \subseteq AllDevices /\ dvcs \in Seq(ShownDevices)
      /\ Count \in Nat /\ Available' = Available /\ Count' = Count
  BY CountIs DEF DvcOK, ListOK
<1>2. /\ DOMAIN Available = 1..Count
      /\ \A j, k \in 1..Count : Available[j] = Available[k] => j = k
      /\ i + 1 \in 1..Count /\ Available[i + 1] \in ShownDevices
  BY <1>1, AvailableIs, IndexIs DEF ShownDevices
<1>3. /\ r.device = Available[i + 1] /\ r.index = i /\ r.load = l
      /\ r.selected = InUseThere(i) /\ loads[l].size = Count /\ loads[l].found = found
  BY MessagesDiffer
<1>4. /\ dvcs' = IF Available[i + 1] \in Range(dvcs) THEN dvcs
                 ELSE Append(dvcs, Available[i + 1])
      /\ IF isSel THEN selIndex' = i /\ selGuid' = Available[i + 1]
         ELSE IF last /\ ~now THEN selIndex' = -1 /\ selGuid' = NoGuid
         ELSE UNCHANGED <<selIndex, selGuid>>
      /\ GoOn(l, i + 1, Count, now)
  BY <1>n, <1>3 DEF Device
<1>5. /\ DOMAIN dvcs = 1..i /\ Len(dvcs) = i /\ i \in Nat
      /\ \A k \in 1..i : dvcs[k] = Available[k]
  BY <1>1, <1>2 DEF LoadedTo
<1>6. LoadedTo(i + 1)'
  <2>1. Available[i + 1] \notin Range(dvcs)
    <3>1. ASSUME NEW k \in 1..i, dvcs[k] = Available[i + 1] PROVE FALSE
      <4>1. k \in 1..Count /\ k # i + 1
        BY <1>1, <1>2, <1>5
      <4>2. Available[k] = Available[i + 1]
        BY <1>5, <3>1
      <4>. QED BY <1>2, <4>1, <4>2
    <3>. QED BY <1>5, <3>1 DEF Range
  <2>2. dvcs' = Append(dvcs, Available[i + 1])
    BY <1>4, <2>1
  <2>3. /\ Len(dvcs') = i + 1
        /\ dvcs'[i + 1] = Available[i + 1] /\ \A k \in 1..i : dvcs'[k] = dvcs[k]
    BY <1>1, <1>2, <1>5, <2>2, AppendOf, AppendLen
  <2>4. \A k \in 1..i + 1 : k \in 1..i \/ k = i + 1
    BY <1>5
  <2>5. \A k \in 1..i + 1 : dvcs'[k] = Available[k]
    BY <1>5, <2>3, <2>4
  <2>6. i + 1 <= Count
    BY <1>1, <1>2
  <2>. QED BY <1>1, <2>3, <2>5, <2>6 DEF LoadedTo
<1>8. ChosenTo(i + 1, now)'
  <2>1. ASSUME NEW k \in 1..i + 1, InUseAt(k)'
        PROVE  selIndex' = k - 1 /\ selGuid' = selAudioDevice' /\ now
    <3>1. k \in 1..Count /\ Available[k] = selAudioDevice
      BY <1>1, <1>2, <2>1 DEF InUseAt
    <3>2. CASE k = i + 1
      <4>1. isSel /\ Available[i + 1] = selAudioDevice
        BY <3>1, <3>2 DEF InUseThere
      <4>2. now
        BY <1>n, <4>1
      <4>3. selIndex' = i /\ selGuid' = selAudioDevice
        BY <1>4, <4>1
      <4>4. i = k - 1
        BY <1>5, <3>2
      <4>. QED BY <1>1, <4>2, <4>3, <4>4
    <3>3. CASE k # i + 1
      <4>1. k \in 1..i
        BY <1>5, <3>3
      <4>2. selIndex = k - 1 /\ selGuid = selAudioDevice /\ found
        BY <3>1, <4>1 DEF ChosenTo, InUseAt
      <4>3. Available[i + 1] # selAudioDevice
        BY <1>2, <3>1, <3>3
      <4>4. now /\ ~isSel
        BY <1>n, <4>2, <4>3 DEF InUseThere
      <4>. QED BY <1>1, <1>4, <4>2, <4>4
    <3>. QED BY <3>2, <3>3
  <2>. QED BY <2>1 DEF ChosenTo
<1>. HIDE DEF isSel, last
<1>9. Moves(l, i + 1, Count, [size |-> Count, found |-> now])
  BY <1>4, GoOnMoves
<1>10. PICK j \in 0..Count : j = i + 1
  BY <1>1, <1>2
<1>11. CASE j # Count
  <2>1. j < Count
    BY <1>1, <1>10, <1>11
  <2>2. /\ loads' = [loads EXCEPT ![l] = [size |-> Count, found |-> now]]
        /\ dvcCalls' = Append(dvcCalls, GetDevice(l, j))
    BY <1>9, <1>10, <2>1 DEF Moves
  <2>3. loads'[l] = [size |-> Count, found |-> now]
    BY <2>2
  <2>4. GetDevice(l, j) \in Range(dvcCalls')
    <3>1. PICK g \in DvcAsks : g = GetDevice(l, j)
      BY <1>1, AsksAre
    <3>. QED BY <2>2, <3>1, LoadPosted DEF DvcOK, QueuesOK
  <2>5. Shows(l, j, now)'
    BY <1>1, <1>6, <1>8, <1>10, <1>11, <2>3, <2>4 DEF Shows
  <2>. QED BY <1>10, <2>5
<1>12. CASE j = Count
  <2>1. loads' = Restrict(loads, DOMAIN loads \ {l})
    BY <1>1, <1>9, <1>10, <1>12 DEF Moves
  <2>2. DOMAIN loads' = {}
    BY <2>1 DEF Restrict
  <2>3. Shows(l, j, now)'
    BY <1>1, <1>6, <1>8, <1>10, <1>12, <2>2 DEF Shows
  <2>. QED BY <1>10, <2>3
<1>. QED BY <1>11, <1>12

LEMMA DartShows ==
  ASSUME DvcOK, OneEach, AloneOK, ShowInv, DvcDart
  PROVE  ShowInv'
<1>r. PICK r : r = Head(dvcAnswers)
  OBVIOUS
<1>1. /\ dvcAnswers # <<>> /\ dvcAnswers \in Seq(DvcReplies) /\ dvcCalls \in Seq(DvcAsks)
      /\ dvcAnswers' = Tail(dvcAnswers) /\ UNCHANGED <<present, selAudioDevice, settled>>
      /\ \/ r.m = "number" /\ Size(r) /\ r.load \in LoadIds /\ alone' = alone
         \/ r.m = "get" /\ Device(r) /\ r.load \in LoadIds /\ alone' = alone
         \/ r.m = "set" /\ IsSet(r) /\ alone' = alone
         \/ r.m = "changed" /\ OnAudioDevicesChanged
  BY <1>r, AnswerIs
<1>2. Range(dvcAnswers) = Range(dvcAnswers') \cup {r}
  BY <1>1, <1>r, LoadTaken
<1>3. /\ present \subseteq AllDevices /\ Count \in Nat
      /\ Available' = Available /\ Count' = Count
  BY <1>1, CountIs
<1>. SUFFICES ASSUME alone', settled, ~Disturbed', ~Counting'
              PROVE  \E l \in LoadIds, i \in 0..Count, found \in BOOLEAN : Shows(l, i, found)'
  BY <1>1, <1>3 DEF ShowInv
<1>4. CASE OnAudioDevicesChanged
  <2>1. PICK l \in LoadIds : dvcCalls' = Append(dvcCalls, NumberOf(l))
    BY <1>4 DEF OnAudioDevicesChanged
  <2>2. PICK n \in DvcAsks : n = NumberOf(l)
    BY AsksAre
  <2>3. dvcCalls' = Append(dvcCalls, n)
    BY <2>1, <2>2
  <2>4. n \in Range(dvcCalls')
    BY <1>1, <2>3, LoadPosted
  <2>. QED BY <2>2, <2>4 DEF Counting
<1>5. ASSUME alone, r # Changed, Range(dvcCalls) \subseteq Range(dvcCalls')
      PROVE  \E l \in LoadIds, i \in 0..Count, found \in BOOLEAN : Shows(l, i, found)
  BY <1>2, <1>5 DEF ShowInv, Disturbed, Counting
<1>6. CASE r.m = "set" /\ IsSet(r) /\ alone' = alone
  <2>1. UNCHANGED <<dvcs, loads, dvcCalls>>
    BY <1>6 DEF IsSet
  <2>2. ~r.ok
    <3>1. ASSUME r.ok PROVE FALSE
      <4>1. 1 \in DOMAIN dvcAnswers /\ r = dvcAnswers[1]
        BY <1>1, <1>r, TailOf
      <4>2. Changed \notin Range(dvcCalls)
        BY <2>1 DEF Disturbed
      <4>3. PICK j \in DOMAIN dvcAnswers : 1 < j /\ dvcAnswers[j] = Changed
        BY <1>6, <3>1, <4>1, <4>2 DEF AloneOK, ChangeFollows
      <4>4. Changed \in Range(dvcAnswers')
        <5>1. j - 1 \in DOMAIN dvcAnswers' /\ dvcAnswers'[j - 1] = Changed
          BY <1>1, <4>3, TailOf
        <5>. QED BY <5>1 DEF Range
      <4>. QED BY <4>4 DEF Disturbed
    <3>. QED BY <3>1
  <2>3. UNCHANGED <<selGuid, selIndex>>
    BY <1>6, <2>2 DEF IsSet
  <2>4. PICK l \in LoadIds, i \in 0..Count, found \in BOOLEAN : Shows(l, i, found)
    BY <1>5, <1>6, <2>1, LoadMessages
  <2>5. LoadedTo(i)' /\ ChosenTo(i, found)' /\ InUseThere(i)' = InUseThere(i)
    BY <1>1, <1>3, <2>1, <2>3, <2>4 DEF Shows, LoadedTo, ChosenTo, InUseAt, InUseThere
  <2>6. /\ r # SizeCame(l, Count)
        /\ r # DeviceCame(l, i, Available[i + 1], InUseThere(i))
    BY <1>6, MessagesDiffer
  <2>7. Shows(l, i, found)'
    BY <1>2, <1>3, <2>1, <2>4, <2>5, <2>6 DEF Shows
  <2>. QED BY <2>7
<1>7. ASSUME IsLoad(r), alone, r.load \in LoadIds
      PROVE  \E l \in LoadIds, i \in 0..Count, found \in BOOLEAN :
               /\ Shows(l, i, found) /\ DOMAIN loads = {l} /\ l = r.load
               /\ \/ i = 0 /\ r = SizeCame(l, Count)
                  \/ /\ i # Count /\ loads[l] = [size |-> Count, found |-> found]
                     /\ r = DeviceCame(l, i, Available[i + 1], InUseThere(i))
  <2>1. PICK k : Range(dvcCalls) \subseteq Range(dvcCalls')
    BY <1>r, <1>7, LoadStep
  <2>2. r # Changed
    BY <1>7, LoadMessages
  <2>3. PICK l \in LoadIds, i \in 0..Count, found \in BOOLEAN : Shows(l, i, found)
    BY <1>5, <1>7, <2>1, <2>2
  <2>4. /\ r.load \in DOMAIN loads
        /\ \A x \in Range(dvcAnswers) : IsLoad(x) /\ x.load = r.load => x = r
        /\ \A x \in Range(dvcCalls) : IsLoad(x) => x.load # r.load
    BY <1>1, <1>r, <1>7, OwnMessage
  <2>5. DOMAIN loads = {r.load}
    BY <1>7, <2>4 DEF AloneOK, OneLoad
  <2>6. \A x \in Range(dvcAnswers) : IsLoad(x) => x = r
    <3>1. \A x \in Range(dvcAnswers) : IsLoad(x) => x.load \in DOMAIN loads
      BY LoadsAre DEF OneEach
    <3>. QED BY <2>4, <2>5, <3>1
  <2>7. \A x \in Range(dvcCalls) : ~IsLoad(x)
    <3>1. \A x \in Range(dvcCalls) : IsLoad(x) => x.load \in DOMAIN loads
      BY LoadsAre DEF OneEach
    <3>. QED BY <2>4, <2>5, <3>1
  <2>8. GetDevice(l, i) \notin Range(dvcCalls) /\ DOMAIN loads # {}
    BY <2>5, <2>7, LoadMessages
  <2>9. \/ i = 0 /\ r = SizeCame(l, Count)
        \/ /\ i # Count /\ loads[l] = [size |-> Count, found |-> found]
           /\ r = DeviceCame(l, i, Available[i + 1], InUseThere(i))
    BY <2>3, <2>6, <2>8, MessagesDiffer DEF Shows
  <2>10. r.load = l
    BY <2>9, MessagesDiffer
  <2>. QED BY <2>3, <2>5, <2>9, <2>10
<1>8. CASE r.m = "number" /\ Size(r) /\ r.load \in LoadIds /\ alone' = alone
  <2>1. IsLoad(r)
    BY <1>8 DEF IsLoad
  <2>2. PICK l \in LoadIds, i \in 0..Count, found \in BOOLEAN :
          /\ Shows(l, i, found) /\ DOMAIN loads = {l} /\ i = 0 /\ r = SizeCame(l, Count)
    <3>1. alone /\ \A l, i, d, sel : r # DeviceCame(l, i, d, sel)
      BY <1>8, MessagesDiffer
    <3>. QED BY <1>7, <1>8, <2>1, <3>1
  <2>3. r.load = l /\ r.size = Count
    BY <2>2, MessagesDiffer
  <2>4. GoOn(l, 0, Count, FALSE) /\ dvcs' = dvcs
    BY <1>8, <2>3 DEF Size
  <2>5. LoadedTo(0)' /\ \A b : ChosenTo(0, b)'
    BY <1>1, <1>3, <2>2, <2>4 DEF Shows, LoadedTo, ChosenTo
  <2>6. PICK no \in BOOLEAN : no = FALSE
    OBVIOUS
  <2>7. PICK first \in 0..Count : first = 0
    BY <1>3
  <2>8. CASE 0 < Count
    <3>1. /\ loads' = [loads EXCEPT ![l] = [size |-> Count, found |-> no]]
          /\ dvcCalls' = Append(dvcCalls, GetDevice(l, first))
      BY <2>4, <2>6, <2>7, <2>8 DEF GoOn
    <3>2. loads'[l] = [size |-> Count, found |-> no]
      BY <2>2, <3>1
    <3>3. GetDevice(l, first) \in Range(dvcCalls')
      <4>1. PICK g \in DvcAsks : g = GetDevice(l, first)
        BY <1>3, AsksAre
      <4>. QED BY <1>1, <3>1, <4>1, LoadPosted
    <3>4. Shows(l, first, no)'
      BY <1>3, <2>5, <2>7, <2>8, <3>2, <3>3 DEF Shows
    <3>. QED BY <3>4
  <2>9. CASE ~(0 < Count)
    <3>1. loads' = Restrict(loads, DOMAIN loads \ {l}) /\ first = Count
      BY <1>3, <2>4, <2>7, <2>9 DEF GoOn
    <3>2. DOMAIN loads' = {}
      BY <2>2, <3>1 DEF Restrict
    <3>3. Shows(l, first, no)'
      BY <1>3, <2>5, <2>7, <3>1, <3>2 DEF Shows
    <3>. QED BY <3>3
  <2>. QED BY <2>8, <2>9
<1>9. CASE r.m = "get" /\ Device(r) /\ r.load \in LoadIds /\ alone' = alone
  <2>1. IsLoad(r)
    BY <1>9 DEF IsLoad
  <2>2. PICK l \in LoadIds, i \in 0..Count, found \in BOOLEAN :
          /\ Shows(l, i, found) /\ DOMAIN loads = {l} /\ i # Count
          /\ loads[l] = [size |-> Count, found |-> found]
          /\ r = DeviceCame(l, i, Available[i + 1], InUseThere(i))
    <3>1. alone /\ \A l, n : r # SizeCame(l, n)
      BY <1>9, MessagesDiffer
    <3>. QED BY <1>7, <1>9, <2>1, <3>1
  <2>3. i \in 0..Count - 1 /\ LoadedTo(i) /\ ChosenTo(i, found) /\ l \in DOMAIN loads
    BY <1>3, <2>2 DEF Shows
  <2>4. \E j \in 0..Count, now \in BOOLEAN : Shows(l, j, now)'
    BY <1>1, <1>9, <2>2, <2>3, DeviceShows
  <2>. QED BY <2>4
<1>. QED BY <1>1, <1>4, <1>6, <1>8, <1>9

LEMMA DvcShows ==
  ASSUME DvcOK, OneEach, AloneOK, ShowInv, [DvcNext]_dvars
  PROVE  ShowInv'
<1>1. ASSUME NEW d \in Pluggable, Plug(d) PROVE ShowInv'
  BY <1>1 DEF Plug, ShowInv
<1>2. CASE \/ \E i \in 0..Len(dvcs) - 1 : SetPlayoutDevice(i)
           \/ UNCHANGED dvars
  <2>1. PICK new : /\ Range(dvcCalls') = Range(dvcCalls) \cup new
                   /\ \A x \in new : x.m = "set"
                   /\ UNCHANGED <<present, selAudioDevice, dvcAnswers, dvcs, selGuid,
                                  selIndex, loads, settled, alone>>
    <3>1. ASSUME NEW i \in 0..Len(dvcs) - 1, SetPlayoutDevice(i)
          PROVE  \E new : /\ Range(dvcCalls') = Range(dvcCalls) \cup new
                          /\ \A x \in new : x.m = "set"
      <4>1. PICK new : new = {SetDevice(i)}
        OBVIOUS
      <4>. QED BY <3>1, <4>1, ChoiceSent
    <3>2. ASSUME UNCHANGED dvars
          PROVE  \E new : /\ Range(dvcCalls') = Range(dvcCalls) \cup new
                          /\ \A x \in new : x.m = "set"
      <4>1. PICK new : new = {}
        OBVIOUS
      <4>2. Range(dvcCalls') = Range(dvcCalls) \cup new /\ \A x \in new : x.m = "set"
        BY <3>2, <4>1 DEF dvars
      <4>. QED BY <4>2
    <3>3. UNCHANGED <<present, selAudioDevice, dvcAnswers, dvcs, selGuid, selIndex, loads,
                      settled, alone>>
      BY <1>2 DEF SetPlayoutDevice, phone, shown, dvars
    <3>. QED BY <1>2, <3>1, <3>2, <3>3
  <2>2. Available' = Available /\ Count' = Count
    BY <2>1, CountIs
  <2>3. (Disturbed => Disturbed') /\ (Counting => Counting')
    BY <2>1 DEF Disturbed, Counting
  <2>4. ASSUME NEW l \in LoadIds, NEW i \in 0..Count, NEW found \in BOOLEAN, Shows(l, i, found)
        PROVE  Shows(l, i, found)'
    <3>1. LoadedTo(i)' /\ ChosenTo(i, found)' /\ InUseThere(i)' = InUseThere(i)
      BY <2>1, <2>2, <2>4 DEF Shows, LoadedTo, ChosenTo, InUseAt, InUseThere
    <3>. QED BY <2>1, <2>2, <2>4, <3>1 DEF Shows
  <2>. QED BY <2>1, <2>2, <2>3, <2>4 DEF ShowInv
<1>. QED BY <1>1, <1>2, MainShows, DartShows DEF DvcNext

(* After a load that was alone the list at rest is that of the phone, in   *)
(* the engine's order, and its selected entry is the device in use,        *)
(* whatever crossed the loads before.                                      *)
THEOREM DevicesAreShown == DvcSpec => []DevicesShown
<1>1. DvcOK /\ ShowInv => DevicesShown
  <2>. SUFFICES ASSUME DvcOK, ShowInv, Quiet, settled, alone
                PROVE  /\ dvcs = Available
                       /\ selAudioDevice \in present =>
                            selIndex >= 0 /\ DeviceAt(selIndex) = selAudioDevice
    BY DEF DevicesShown
  <2>1. PICK found \in BOOLEAN : LoadedTo(Count) /\ ChosenTo(Count, found)
    BY QuietIs DEF ShowInv, Disturbed, Counting, Shows
  <2>2. dvcs = Available
    BY <2>1, AllLoaded
  <2>3. ASSUME selAudioDevice \in present
        PROVE  selIndex >= 0 /\ DeviceAt(selIndex) = selAudioDevice
    <3>1. present \subseteq AllDevices /\ Count \in Nat
      BY CountIs
    <3>2. PICK k \in 1..Count : Available[k] = selAudioDevice
      BY <2>3, <3>1, AvailableIs
    <3>3. selIndex = k - 1
      BY <2>1, <3>2 DEF ChosenTo, InUseAt
    <3>4. selIndex \in 0..Count - 1 /\ selIndex + 1 = k /\ selIndex >= 0
      BY <3>1, <3>2, <3>3
    <3>. QED BY <3>1, <3>2, <3>4, IndexIs
  <2>. QED BY <2>2, <2>3
<1>. QED BY <1>1, DvcTypesBegin, DvcTypesKept, BeginsApart, DvcApart, BeginsAlone, DvcAlone,
            DvcShows, PTL DEF DvcSpec
=============================================================================
