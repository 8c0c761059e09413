--------------------------- MODULE AccountsModel ----------------------------
(***************************************************************************)
(* Accounts: the map of SipCore, the ids and call intents the Android      *)
(* plugin keeps, and the list of the Dart AccountsModel with its selected  *)
(* index and its copy in the app's settings.                               *)
(*                                                                         *)
(* Dart methods are split at their await: the request goes to the main     *)
(* thread, which runs the engine's method and replies.  Registration       *)
(* states come from PJSIP threads as blocks of the main looper.  The       *)
(* process may be killed; the activity alone may also be destroyed while   *)
(* the engine runs on.  Settings of an account other than its address      *)
(* are left out, expireTime = 0 included.                                  *)
(***************************************************************************)
EXTENDS Naturals, Sequences, FiniteSets, SequencesExt, Functions

CONSTANTS
  Uris,          \* addresses of accounts
  MaxAccs,       \* accounts PJSIP has room for (PJSUA_MAX_ACC)
  MaxAccIds,     \* ids that may be given out (a bound)
  AccBacklog,    \* nothing starts while more than this is under way (a bound)
  AccOverlap,    \* the user may start a method while another is under way
  AnswerInEdit,  \* a registration state may change while an account is edited
  EmptyRestored, \* an empty list that was saved may be loaded
  Restarts       \* what may end: "process", or "activity" with the engine left

ASSUME AccAssumption ==
  /\ {MaxAccs, MaxAccIds, AccBacklog} \subseteq Nat
  /\ {AccOverlap, AnswerInEdit, EmptyRestored} \subseteq BOOLEAN
  /\ Restarts \subseteq {"process", "activity"}

VARIABLES
  engAccs,       \* SipCore.accounts: id -> account
  nextAccId,
  accountsIds,   \* _accountsIds of the plugin
  pendingIntents,\* accounts of _pendingIntents
  toPlugin,      \* requests of Dart, and blocks of the main looper
  toAccModel,    \* replies and events on their way to Dart
  accList, selIdx,       \* _accounts; _selAccountIndex counted from 1, 0 = null
  toLoad, loadSel,       \* rest of the list loadFromJson is adding; its index
  saveDue,               \* a delayed onSaveChanges
  savedAccs              \* the app's settings

avars == <<engAccs, nextAccId, accountsIds, pendingIntents, toPlugin, toAccModel,
           accList, selIdx, toLoad, loadSel, saveDue, savedAccs>>

engineSide == <<engAccs, nextAccId, accountsIds, pendingIntents>>
modelSide  == <<accList, selIdx, toLoad, loadSel, saveDue, savedAccs>>

AccIds     == 1..MaxAccIds
AwaitsAnswer    == {"registering", "unregistering"}
EngRegs    == AwaitsAnswer \cup {"success", "failed", "removed"}
Acc(id, uri, reg) == [id |-> id, uri |-> uri, reg |-> reg]
Accs       == [id: 0..MaxAccIds, uri: Uris,
               reg: {"none", "inProgress", "success", "failed", "removed"}]

Methods == {"add", "load", "update", "delete", "register", "unregister"}
Request(m, at, acc)   == [m |-> m, at |-> at, acc |-> acc]
Reply(r, ok, id)      == [m |-> r.m, ok |-> ok, at |-> r.at,
                          acc |-> [r.acc EXCEPT !.id = id]]
RegState(id, reg)     == [m |-> "regState", id |-> id, reg |-> reg]
Restored              == [m |-> "restored"]
Settings(accs, sel)   == [uris |-> [i \in DOMAIN accs |-> accs[i].uri], sel |-> sel]
NoSettings            == [uris |-> <<>>, sel |-> 99]

AccTypeOK ==
  /\ DOMAIN engAccs \subseteq AccIds
  /\ \A id \in DOMAIN engAccs : engAccs[id] \in [uri: Uris, reg: EngRegs]
  /\ nextAccId \in 1..MaxAccIds + 1
  /\ accountsIds \subseteq 0..MaxAccIds /\ pendingIntents \subseteq AccIds
  /\ \A i \in DOMAIN toPlugin : toPlugin[i].m \in Methods \cup {"regState", "restored"}
  /\ \A i \in DOMAIN toAccModel : toAccModel[i].m \in Methods \cup {"regState"}
  /\ accList \in Seq(Accs) /\ selIdx \in Nat /\ loadSel \in Nat
  /\ toLoad \in Seq(Uris) /\ saveDue \in BOOLEAN
  /\ savedAccs.uris \in Seq(Uris) /\ savedAccs.sel \in Nat

AccInit ==
  /\ engAccs = [id \in {} |-> 0] /\ nextAccId = 1
  /\ accountsIds = {} /\ pendingIntents = {}
  /\ toPlugin = <<>> /\ toAccModel = <<>>
  /\ accList = <<>> /\ selIdx = 0 /\ toLoad = <<>> /\ loadSel = 0
  /\ saveDue = FALSE /\ savedAccs = NoSettings

IsMethod(r) == r.m \in Methods
UnderWay    == \E r \in Range(toPlugin) \cup Range(toAccModel) : IsMethod(r)
Editing     == \E r \in Range(toPlugin) \cup Range(toAccModel) : r.m = "update"
AccRest     == toPlugin = <<>> /\ toAccModel = <<>>
AccRoom     == Len(toPlugin) + Len(toAccModel) <= AccBacklog

-----------------------------------------------------------------------------
(* The engine and the plugin.                                              *)

\* What accountAdd and its siblings do: the account map, and success or not.
EngAdd(uri) ==
  IF Cardinality(DOMAIN engAccs) < MaxAccs
  THEN /\ engAccs' = [id \in DOMAIN engAccs \cup {nextAccId} |->
                        IF id = nextAccId THEN [uri |-> uri, reg |-> "registering"]
                        ELSE engAccs[id]]
       /\ nextAccId' = nextAccId + 1
  ELSE UNCHANGED <<engAccs, nextAccId>>

\* handleAccountAdd: the id is noted also when the engine refused (it is 0).
HandleAccountAdd(r) ==
  LET ok == Cardinality(DOMAIN engAccs) < MaxAccs
      id == IF ok THEN nextAccId ELSE 0 IN
    /\ EngAdd(r.acc.uri)
    /\ toAccModel' = Append(toAccModel, Reply(r, ok, id))
    /\ accountsIds' = accountsIds \cup {id}
    /\ toPlugin' = Append(Tail(toPlugin), Restored)
    /\ UNCHANGED pendingIntents

\* handleAccountDelete
HandleAccountDelete(r) ==
  LET ok == r.acc.id \in DOMAIN engAccs IN
    /\ engAccs' = [id \in DOMAIN engAccs \ {r.acc.id} |-> engAccs[id]]
    /\ toAccModel' = Append(toAccModel, Reply(r, ok, r.acc.id))
    /\ accountsIds' = IF ok THEN accountsIds \ {r.acc.id} ELSE accountsIds
    /\ toPlugin' = Tail(toPlugin)
    /\ UNCHANGED <<nextAccId, pendingIntents>>

\* handleAccountRegister, ...Unregister: PJSIP refuses while it waits for the
\* answer to an earlier REGISTER.
HandleAccountRegister(r) ==
  LET id == r.acc.id
      ok == id \in DOMAIN engAccs /\ engAccs[id].reg \notin AwaitsAnswer IN
    /\ engAccs' = IF ok THEN [engAccs EXCEPT ![id].reg =
                       IF r.m = "register" THEN "registering" ELSE "unregistering"]
                  ELSE engAccs
    /\ toAccModel' = Append(toAccModel, Reply(r, ok, id))
    /\ toPlugin' = Tail(toPlugin)
    /\ UNCHANGED <<nextAccId, accountsIds, pendingIntents>>

\* handleAccountUpdate: if PJSIP registers again, an OnRegState follows.
HandleAccountUpdate(r) ==
  LET id == r.acc.id
      ok == id \in DOMAIN engAccs IN
    /\ toAccModel' = Append(toAccModel, Reply(r, ok, id))
    /\ toPlugin' = Tail(toPlugin)
    /\ UNCHANGED engineSide

\* raiseIncomingCallWhenAccountsRestored: whatever account an intent waits for,
\* it is raised with the id it was stored with.
RaiseWhenRestored ==
  /\ pendingIntents' = {}
  /\ toPlugin' = Tail(toPlugin)
  /\ UNCHANGED <<engAccs, nextAccId, accountsIds, toAccModel>>

\* Mutant: events go past the replies that wait.
ForwardRegStateFirst(b) ==
  /\ toAccModel' = <<b>> \o toAccModel
  /\ toPlugin' = Tail(toPlugin)
  /\ UNCHANGED engineSide

\* onAccountRegState of the event listener.
ForwardRegState(b) ==
  /\ toAccModel' = Append(toAccModel, b)
  /\ toPlugin' = Tail(toPlugin)
  /\ UNCHANGED engineSide

MainThread ==
  /\ toPlugin # <<>>
  /\ LET r == Head(toPlugin) IN
       \/ r.m \in {"add", "load"} /\ nextAccId <= MaxAccIds /\ HandleAccountAdd(r)
       \/ r.m = "delete" /\ HandleAccountDelete(r)
       \/ r.m \in {"register", "unregister"} /\ HandleAccountRegister(r)
       \/ r.m = "update" /\ HandleAccountUpdate(r)
       \/ r.m = "restored" /\ RaiseWhenRestored
       \/ r.m = "regState" /\ ForwardRegState(r)
  /\ UNCHANGED modelSide

\* onRegState: the server answers, or a refresh turns out otherwise.
OnRegState(id, reg) ==
  /\ AnswerInEdit \/ ~Editing
  /\ engAccs[id].reg # reg
  /\ reg = "removed" => engAccs[id].reg = "unregistering"
  /\ engAccs[id].reg = "unregistering" => reg # "success"
  /\ engAccs[id].reg # "removed"
  /\ engAccs' = [engAccs EXCEPT ![id].reg = reg]
  /\ toPlugin' = Append(toPlugin, RegState(id, reg))
  /\ UNCHANGED <<nextAccId, accountsIds, pendingIntents, toAccModel, modelSide>>

\* An intent of an incoming call reaches the plugin (raiseIncomingCallEvent).
CallIntent(id) ==
  /\ pendingIntents' = IF id \in accountsIds THEN pendingIntents
                       ELSE pendingIntents \cup {id}
  /\ UNCHANGED <<engAccs, nextAccId, accountsIds, toPlugin, toAccModel, modelSide>>

-----------------------------------------------------------------------------
(* The Dart model: requests.                                               *)

MaySend == AccRoom /\ (AccOverlap \/ (~UnderWay /\ ~saveDue))

SendRequest(r) ==
  /\ MaySend
  /\ toPlugin' = Append(toPlugin, r)
  /\ UNCHANGED <<engineSide, toAccModel, modelSide>>

AddAccount(uri) == nextAccId <= MaxAccIds /\ SendRequest(Request("add", 0, Acc(0, uri, "none")))
\* The edited copy is the account as it is now; it reaches the list later.
UpdateAccount(i) ==
  /\ AnswerInEdit \/ AccRest
  /\ SendRequest(Request("update", i, accList[i]))

DeleteAccount(i)     == SendRequest(Request("delete", i, accList[i]))
RegisterAccount(i)   == SendRequest(Request("register", i, accList[i]))
UnregisterAccount(i) == SendRequest(Request("unregister", i, accList[i]))

\* setSelectedAccountById
SelectAccount(i) ==
  /\ AccOverlap \/ ~UnderWay
  /\ selIdx # i
  /\ selIdx' = i /\ saveDue' = TRUE
  /\ UNCHANGED <<engineSide, toPlugin, toAccModel, accList, toLoad, loadSel, savedAccs>>

-----------------------------------------------------------------------------
(* The Dart model: what follows the await.                                 *)

\* addAccount outside of loadFromJson
AccountAdded(r) ==
  /\ IF r.ok THEN /\ accList' = Append(accList, [r.acc EXCEPT !.reg = "inProgress"])
                  /\ selIdx' = IF selIdx = 0 THEN 1 ELSE selIdx
                  /\ saveDue' = TRUE
     ELSE UNCHANGED <<accList, selIdx, saveDue>>
  /\ UNCHANGED <<toLoad, loadSel, toPlugin>>

\* addAccount within loadFromJson: the next one, or the selected index; a
\* failure ends the loading.
Loaded(r) ==
  /\ accList' = IF r.ok THEN Append(accList, [r.acc EXCEPT !.reg = "inProgress"])
                ELSE accList
  /\ IF r.ok /\ toLoad # <<>>
     THEN /\ toPlugin' = Append(toPlugin, Request("load", 0, Acc(0, Head(toLoad), "none")))
          /\ toLoad' = Tail(toLoad)
          /\ UNCHANGED selIdx
     ELSE /\ toLoad' = <<>>
          /\ selIdx' = IF r.ok THEN loadSel ELSE selIdx
          /\ UNCHANGED toPlugin
  /\ UNCHANGED <<saveDue, loadSel>>

\* Mutant: the selected index is left as it is.
DeletedUnclamped(r) ==
  /\ IF r.ok /\ r.at \in DOMAIN accList
     THEN accList' = RemoveAt(accList, r.at) /\ saveDue' = TRUE
     ELSE UNCHANGED <<accList, saveDue>>
  /\ UNCHANGED <<selIdx, toLoad, loadSel, toPlugin>>

\* Mutant: only a change of the selected index is saved.
DeletedUnsaved(r) ==
  /\ IF r.ok /\ r.at \in DOMAIN accList
     THEN LET rest == RemoveAt(accList, r.at) IN
            /\ accList' = rest
            /\ selIdx' = IF selIdx > Len(rest) THEN Len(rest) ELSE selIdx
            /\ saveDue' = (saveDue \/ selIdx > Len(rest))
     ELSE UNCHANGED <<accList, selIdx, saveDue>>
  /\ UNCHANGED <<toLoad, loadSel, toPlugin>>

\* deleteAccount: by the index it was called with; with no account selected
\* "!" throws once the account has been removed.
Deleted(r) ==
  /\ IF r.ok /\ r.at \in DOMAIN accList
     THEN LET rest == RemoveAt(accList, r.at) IN
            /\ accList' = rest
            /\ selIdx' = IF selIdx > Len(rest) THEN Len(rest) ELSE selIdx
            /\ saveDue' = (saveDue \/ selIdx # 0)
     ELSE UNCHANGED <<accList, selIdx, saveDue>>
  /\ UNCHANGED <<toLoad, loadSel, toPlugin>>

\* updateAccount: the edited copy takes the place of the account.
Updated(r) ==
  /\ IF r.ok /\ r.at \in DOMAIN accList
     THEN accList' = [accList EXCEPT ![r.at] = r.acc] /\ saveDue' = TRUE
     ELSE UNCHANGED <<accList, saveDue>>
  /\ UNCHANGED <<selIdx, toLoad, loadSel, toPlugin>>

\* registerAccount, unregisterAccount: the account now at that index.
Registering(r) ==
  /\ IF r.ok /\ r.at \in DOMAIN accList
     THEN accList' = [accList EXCEPT ![r.at].reg = "inProgress"] /\ saveDue' = TRUE
     ELSE UNCHANGED <<accList, saveDue>>
  /\ UNCHANGED <<selIdx, toLoad, loadSel, toPlugin>>

OnRegStateChanged(e) ==
  /\ accList' = [i \in DOMAIN accList |->
                   IF accList[i].id = e.id THEN [accList[i] EXCEPT !.reg = e.reg]
                   ELSE accList[i]]
  /\ UNCHANGED <<selIdx, saveDue, toLoad, loadSel, toPlugin>>

AccDart ==
  /\ toAccModel # <<>>
  /\ toAccModel' = Tail(toAccModel)
  /\ LET r == Head(toAccModel) IN
       \/ r.m = "add" /\ AccountAdded(r)
       \/ r.m = "load" /\ Loaded(r)
       \/ r.m = "delete" /\ Deleted(r)
       \/ r.m = "update" /\ Updated(r)
       \/ r.m \in {"register", "unregister"} /\ Registering(r)
       \/ r.m = "regState" /\ OnRegStateChanged(r)
  /\ UNCHANGED <<engineSide, savedAccs>>

\* The delayed onSaveChanges(storeToJson()).
SaveChanges ==
  /\ saveDue
  /\ savedAccs' = Settings(accList, selIdx)
  /\ saveDue' = FALSE
  /\ UNCHANGED <<engineSide, toPlugin, toAccModel, accList, selIdx, toLoad, loadSel>>

-----------------------------------------------------------------------------
(* Restarts.  The new models load what was saved.                          *)

LoadFromJson ==
  /\ EmptyRestored \/ savedAccs.uris # <<>> \/ savedAccs = NoSettings
  /\ accList' = <<>> /\ saveDue' = FALSE /\ toAccModel' = <<>>
  /\ loadSel' = IF savedAccs.sel = 0 THEN 1 ELSE savedAccs.sel
  /\ IF savedAccs.uris = <<>>
     THEN /\ selIdx' = IF savedAccs = NoSettings THEN 0 ELSE loadSel'
          /\ toLoad' = <<>> /\ toPlugin' = <<>>
     ELSE /\ toPlugin' = <<Request("load", 0, Acc(0, Head(savedAccs.uris), "none"))>>
          /\ toLoad' = Tail(savedAccs.uris)
          /\ selIdx' = 0
  /\ accountsIds' = {}
  /\ UNCHANGED savedAccs

\* When only the activity ends SipCore lives on, and the intent of a call for
\* one of its accounts may start the next one.
Restart(what) ==
  /\ nextAccId > 1
  /\ IF what = "process"
     THEN engAccs' = [id \in {} |-> 0] /\ nextAccId' = 1 /\ pendingIntents' = {}
     ELSE /\ AccRest /\ ~saveDue
          /\ nextAccId + Len(savedAccs.uris) <= MaxAccIds + 1
          /\ pendingIntents' \in {{}} \cup {{id} : id \in DOMAIN engAccs}
          /\ UNCHANGED <<engAccs, nextAccId>>
  /\ LoadFromJson

AccNext ==
  \/ MainThread \/ AccDart \/ SaveChanges
  \/ AccRoom /\ \E id \in DOMAIN engAccs, reg \in EngRegs \ AwaitsAnswer : OnRegState(id, reg)
  \/ \E id \in DOMAIN engAccs : CallIntent(id)
  \/ \E uri \in Uris : AddAccount(uri)
  \/ \E i \in DOMAIN accList :
       \/ UpdateAccount(i) \/ DeleteAccount(i) \/ SelectAccount(i)
       \/ RegisterAccount(i) \/ UnregisterAccount(i)
  \/ \E what \in Restarts : Restart(what)

AccSpec == AccInit /\ [][AccNext]_avars

-----------------------------------------------------------------------------
(* Properties.                                                             *)

(* At rest the list holds the accounts of the engine, each once, under its *)
(* id and, unless an answer is awaited, with the registration state of the *)
(* last answer.                                                            *)
AccountsShown ==
  AccRest =>
    /\ Len(accList) = Cardinality(DOMAIN engAccs)
    /\ \A id \in DOMAIN engAccs : \E a \in Range(accList) :
         /\ a.id = id /\ a.uri = engAccs[id].uri
         /\ engAccs[id].reg \in {a.reg} \cup AwaitsAnswer

(* The selected index is that of an account: selAccountId does not throw.  *)
SelectedExists == selIdx \in 0..Len(accList)

(* What would be loaded after a restart is the list as it is.              *)
SavedTrue ==
  AccRest /\ ~saveDue /\ nextAccId > 1 /\ savedAccs # NoSettings =>
    savedAccs = Settings(accList, selIdx)

(* The intent of a call waits for its account no longer than until the     *)
(* account has been restored: none stays in _pendingIntents ("store intent *)
(* and raise it later") when the list has its account again, with nothing  *)
(* left to come that would raise it.                                       *)
IntentRaised ==
  AccRest => \A id \in pendingIntents \cap DOMAIN engAccs, a \in Range(accList) :
               a.uri # engAccs[id].uri
=============================================================================
