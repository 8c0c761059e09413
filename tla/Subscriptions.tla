--------------------------- MODULE Subscriptions ----------------------------
(***************************************************************************)
(* Presence subscriptions: the buddies of SipCore and the list of the Dart *)
(* SubscriptionsModel with its copy in the app's settings.                 *)
(*                                                                         *)
(* A subscription leaves the list when its "destroyed" event arrives, not  *)
(* when deleteSubscription returns.  After a restart the accounts come     *)
(* first, then all saved subscriptions are added without waiting for one   *)
(* another.                                                                *)
(***************************************************************************)
EXTENDS Naturals, Sequences, FiniteSets, SequencesExt, Functions

CONSTANTS
  SubAccs,       \* accounts
  MaxSubs,       \* ids that may be given out (a bound)
  SubBacklog,    \* nothing starts while more than this is under way (a bound)
  AccountGone    \* an account may be deleted that has subscriptions

ASSUME SubAssumption ==
  /\ SubAccs \subseteq Nat /\ MaxSubs \in Nat /\ SubBacklog \in Nat
  /\ AccountGone \in BOOLEAN

VARIABLES
  known,         \* accounts there are, in engine and Dart
  buddies,       \* SipCore.buddies: id -> account, and whether created is set
  nextSubscrId,
  notifying,     \* onBuddyState before it posts: a set of ids and states
  subCalls,      \* requests of Dart, and blocks of the main looper
  toSubs,        \* replies and events on their way to Dart
  subs,          \* _subscriptions
  subSaveDue, savedSubs   \* a delayed onSaveChanges, and the app's settings

svars == <<known, buddies, nextSubscrId, notifying, subCalls, toSubs, subs,
           subSaveDue, savedSubs>>

subEngine == <<buddies, nextSubscrId>>
subModel  == <<subs, subSaveDue, savedSubs>>

SubIds    == 1..MaxSubs
SubStates == {"created", "updated", "destroyed"}
SubState(id, st)      == [m |-> "state", id |-> id, st |-> st]
AddSub(acc, load)     == [m |-> "add", acc |-> acc, load |-> load]
DelSub(id)            == [m |-> "delete", id |-> id]
SubAdded(r, id)          == [m |-> "added", acc |-> r.acc, load |-> r.load, id |-> id]

SubTypeOK ==
  /\ known \subseteq SubAccs
  /\ DOMAIN buddies \subseteq SubIds
  /\ \A id \in DOMAIN buddies : buddies[id] \in [acc: SubAccs, st: {"none", "created", "updated"}]
  /\ nextSubscrId \in 1..MaxSubs + 1
  /\ \A n \in notifying : n.id \in SubIds /\ n.st \in SubStates
  /\ \A i \in DOMAIN subCalls : subCalls[i].m \in {"add", "delete", "state"}
  /\ \A i \in DOMAIN toSubs : toSubs[i].m \in {"added", "state"}
  /\ subs \in Seq([id: SubIds, acc: SubAccs, st: SubStates])
  /\ subSaveDue \in BOOLEAN /\ savedSubs \in Seq(SubAccs)

SubInit ==
  /\ known = SubAccs /\ buddies = [id \in {} |-> 0] /\ nextSubscrId = 1
  /\ notifying = {} /\ subCalls = <<>> /\ toSubs = <<>>
  /\ subs = <<>> /\ subSaveDue = FALSE /\ savedSubs = <<>>

SubRest == subCalls \o toSubs = <<>> /\ notifying = {}
SubRoom == Len(subCalls) + Len(toSubs) + Cardinality(notifying) <= SubBacklog

-----------------------------------------------------------------------------
(* The engine.                                                             *)

\* The account asked for, else the first one, else none.
AccountFor(acc) ==
  IF acc \in known THEN {acc}
  ELSE {a \in known : \A b \in known : a <= b}

\* subscrCreate
SubscrCreate(r) ==
  /\ subCalls' = Tail(subCalls)
  /\ IF AccountFor(r.acc) = {} THEN UNCHANGED <<subEngine, toSubs>>
     ELSE \E a \in AccountFor(r.acc) :
            /\ buddies' = [id \in DOMAIN buddies \cup {nextSubscrId} |->
                             IF id = nextSubscrId THEN [acc |-> a, st |-> "none"]
                             ELSE buddies[id]]
            /\ toSubs' = Append(toSubs, SubAdded(r, nextSubscrId))
            /\ nextSubscrId' = nextSubscrId + 1

\* Mutant: the end is not reported.
SubscrDestroyQuiet(r) ==
  /\ buddies' = Restrict(buddies, DOMAIN buddies \ {r.id})
  /\ subCalls' = Tail(subCalls)
  /\ UNCHANGED <<nextSubscrId, toSubs>>

\* subscrDestroy: an error when it is gone already.
SubscrDestroy(r) ==
  /\ buddies' = Restrict(buddies, DOMAIN buddies \ {r.id})
  /\ subCalls' = IF r.id \in DOMAIN buddies
                 THEN Append(Tail(subCalls), SubState(r.id, "destroyed"))
                 ELSE Tail(subCalls)
  /\ UNCHANGED <<nextSubscrId, toSubs>>

SubMain ==
  /\ subCalls # <<>>
  /\ LET r == Head(subCalls) IN
       \/ r.m = "add" /\ nextSubscrId <= MaxSubs /\ SubscrCreate(r)
       \/ r.m = "delete" /\ SubscrDestroy(r)
       \/ /\ r.m = "state"
          /\ toSubs' = Append(toSubs, r) /\ subCalls' = Tail(subCalls)
          /\ UNCHANGED subEngine
  /\ UNCHANGED <<known, notifying, subModel>>

\* onBuddyState on a thread of PJSIP: it reads, sets created, and posts.
OnBuddyState(id) ==
  LET st == IF buddies[id].st = "none" THEN "created" ELSE "updated" IN
    /\ \A n \in notifying : n.id # id
    /\ buddies' = [buddies EXCEPT ![id].st = st]
    /\ notifying' = notifying \cup {[id |-> id, st |-> st]}
    /\ UNCHANGED <<known, nextSubscrId, subCalls, toSubs, subModel>>

PostBuddyState(n) ==
  /\ notifying' = notifying \ {n}
  /\ subCalls' = Append(subCalls, SubState(n.id, n.st))
  /\ UNCHANGED <<known, subEngine, toSubs, subModel>>

-----------------------------------------------------------------------------
(* The Dart model.                                                         *)

SubSend(r) ==
  /\ subCalls' = Append(subCalls, r)
  /\ UNCHANGED <<known, subEngine, notifying, toSubs, subModel>>

AddSubscription(acc) ==
  acc \in known /\ nextSubscrId <= MaxSubs /\ SubSend(AddSub(acc, FALSE))

DeleteSubscription(i) == SubSend(DelSub(subs[i].id))

SubDart ==
  /\ toSubs # <<>>
  /\ toSubs' = Tail(toSubs)
  /\ LET r == Head(toSubs)
         at == SelectInSeq(subs, LAMBDA s : s.id = r.id) IN
       \/ /\ r.m = "added"                          \* _integrateAddedSubscription
          /\ subs' = Append(subs, [id |-> r.id, acc |-> r.acc, st |-> "created"])
          /\ subSaveDue' = (subSaveDue \/ ~r.load)
       \/ /\ r.m = "state"                          \* onSubscrStateChanged
          /\ IF at = 0 THEN UNCHANGED <<subs, subSaveDue>>
             ELSE IF r.st = "destroyed"
             THEN subs' = RemoveAt(subs, at) /\ subSaveDue' = TRUE
             ELSE subs' = [subs EXCEPT ![at].st = r.st] /\ UNCHANGED subSaveDue
  /\ UNCHANGED <<known, subEngine, notifying, subCalls, savedSubs>>

SubSave ==
  /\ subSaveDue
  /\ savedSubs' = [i \in DOMAIN subs |-> subs[i].acc] /\ subSaveDue' = FALSE
  /\ UNCHANGED <<known, subEngine, notifying, subCalls, toSubs, subs>>

-----------------------------------------------------------------------------

\* The app deletes an account; its subscriptions, if any, stay in their list.
AccountDeleted(acc) ==
  /\ AccountGone \/ (SubRest /\ acc \notin {s.acc : s \in Range(subs)} \cup Range(savedSubs))
  /\ known' = known \ {acc}
  /\ UNCHANGED <<subEngine, notifying, subCalls, toSubs, subModel>>

\* The process ends; accounts are loaded, then loadFromJson.
SubRestart ==
  /\ nextSubscrId > 1
  /\ Len(savedSubs) <= MaxSubs
  /\ buddies' = [id \in {} |-> 0] /\ nextSubscrId' = 1 /\ notifying' = {}
  /\ subCalls' = [i \in DOMAIN savedSubs |-> AddSub(savedSubs[i], TRUE)]
  /\ toSubs' = <<>> /\ subs' = <<>> /\ subSaveDue' = FALSE
  /\ UNCHANGED <<known, savedSubs>>

SubNext ==
  \/ SubMain \/ SubDart \/ SubSave
  \/ SubRoom /\ \E id \in DOMAIN buddies : OnBuddyState(id)
  \/ \E n \in notifying : PostBuddyState(n)
  \/ SubRoom /\ \E acc \in SubAccs : AddSubscription(acc)
  \/ SubRoom /\ \E i \in DOMAIN subs : DeleteSubscription(i)
  \/ \E acc \in SubAccs : AccountDeleted(acc)
  \/ SubRestart

SubSpec == SubInit /\ [][SubNext]_svars

-----------------------------------------------------------------------------
(* Properties.                                                             *)

(* At rest the list holds the subscriptions of the engine, each on the     *)
(* account it was made for and with the state last reported, whatever      *)
(* notification crossed its deletion.                                      *)
SubsShown ==
  SubRest =>
    /\ Len(subs) = Cardinality(DOMAIN buddies)
    /\ \A s \in Range(subs) :
         /\ s.id \in DOMAIN buddies /\ buddies[s.id].acc = s.acc
         /\ buddies[s.id].st \in {s.st, "none"}
=============================================================================
