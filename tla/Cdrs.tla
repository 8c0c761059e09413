-------------------------------- MODULE Cdrs --------------------------------
(***************************************************************************)
(* Recent calls: the records CdrsModel keeps, newest first, and what       *)
(* CallsModel tells it.  A record is found by the id of its call, which is *)
(* a slot of pjsua that later calls use again; records that were loaded    *)
(* have no id and are left out.                                            *)
(***************************************************************************)
EXTENDS Naturals, Sequences, SequencesExt, Functions

CONSTANTS
  CdrCalls,      \* calls a behaviour has
  CdrSlots,      \* ids of calls
  MaxCdrs,       \* kMaxItems
  SlotsReused,   \* a slot may be used again before Dart is done with its call
  LiveRemoved    \* the user may remove the record of a call that goes on

ASSUME CdrAssumption ==
  /\ CdrSlots \subseteq Nat \ {0} /\ MaxCdrs \in Nat \ {0}
  /\ SlotsReused \in BOOLEAN /\ LiveRemoved \in BOOLEAN

VARIABLES
  talk,          \* the calls of the engine
  slotOf,        \* their ids
  wasUp,         \* those that have been connected
  toCdrs,        \* replies and events on their way to CallsModel
  items,         \* _callItems
  endings,       \* onTerminated calls that await the Reason header
  cdrItems       \* _cdrItems

cvars == <<talk, slotOf, wasUp, toCdrs, items, endings, cdrItems>>

sip == <<talk, slotOf, wasUp>>

Unended == "unended"
Reports   == [kind: {"invited", "incoming", "connected", "terminated"}, call: CdrCalls]
Report(kind, c) == [kind |-> kind, call |-> c]
Records == [call: CdrCalls, connected: BOOLEAN, ended: CdrCalls \cup {Unended}]

CdrTypeOK ==
  /\ talk \in [CdrCalls -> {"none", "live", "gone"}]
  /\ slotOf \in [CdrCalls -> CdrSlots \cup {0}] /\ wasUp \subseteq CdrCalls
  /\ toCdrs \in Seq(Reports) /\ items \in Seq(CdrCalls)
  /\ \A i \in DOMAIN endings : endings[i] \in [of: CdrCalls, found: CdrCalls]
  /\ cdrItems \in Seq(Records) /\ Len(cdrItems) <= MaxCdrs

CdrInit ==
  /\ talk = [c \in CdrCalls |-> "none"] /\ slotOf = [c \in CdrCalls |-> 0]
  /\ wasUp = {} /\ toCdrs = <<>> /\ items = <<>> /\ endings = <<>>
  /\ cdrItems = <<>>

-----------------------------------------------------------------------------
(* Calls of the engine.                                                    *)

InUse(c) == talk[c] = "live" \/ (~SlotsReused /\
  (c \in Range(items) \/ \E n \in Range(toCdrs) : n.call = c))

\* An id of pjsua plus one; kind tells callInvite from onIncomingCall.
BeginsIn(c, slot, kind) ==
  /\ talk[c] = "none"
  /\ \A d \in CdrCalls : InUse(d) => slotOf[d] # slot
  /\ talk' = [talk EXCEPT ![c] = "live"]
  /\ slotOf' = [slotOf EXCEPT ![c] = slot]
  /\ toCdrs' = Append(toCdrs, Report(kind, c))
  /\ UNCHANGED <<wasUp, items, endings, cdrItems>>

IsUp(c) ==
  /\ talk[c] = "live" /\ c \notin wasUp
  /\ wasUp' = wasUp \cup {c}
  /\ toCdrs' = Append(toCdrs, Report("connected", c))
  /\ UNCHANGED <<talk, slotOf, items, endings, cdrItems>>

EndsIn(c) ==
  /\ talk[c] = "live"
  /\ talk' = [talk EXCEPT ![c] = "gone"]
  /\ toCdrs' = Append(toCdrs, Report("terminated", c))
  /\ UNCHANGED <<slotOf, wasUp, items, endings, cdrItems>>

-----------------------------------------------------------------------------
(* CdrsModel.                                                              *)

\* The first, i.e. newest, record of the id, or 0.
RecordOf(c) == SelectInSeq(cdrItems, LAMBDA r : slotOf[r.call] = slotOf[c])

\* add: at the front, and the last one goes when there are too many.
AddCdr(c) ==
  cdrItems' = SubSeq(<<[call |-> c, connected |-> FALSE, ended |-> Unended]>>
                       \o cdrItems, 1,
                     IF Len(cdrItems) < MaxCdrs THEN Len(cdrItems) + 1 ELSE MaxCdrs)

SetConnected(c) ==
  cdrItems' = IF RecordOf(c) = 0 THEN cdrItems
              ELSE [cdrItems EXCEPT ![RecordOf(c)].connected = TRUE]

\* Mutant: the newest record is taken, whatever its call.
SetTerminatedNewest(c) ==
  cdrItems' = IF cdrItems = <<>> THEN cdrItems
              ELSE [cdrItems EXCEPT ![1].ended = c]

SetTerminated(c) ==
  cdrItems' = IF RecordOf(c) = 0 THEN cdrItems
              ELSE [cdrItems EXCEPT ![RecordOf(c)].ended = c]

\* remove
RemoveCdr(i) ==
  /\ LiveRemoved \/ cdrItems[i].ended # Unended
  /\ cdrItems' = RemoveAt(cdrItems, i)
  /\ UNCHANGED <<sip, toCdrs, items, endings>>

-----------------------------------------------------------------------------
(* What CallsModel does with it.                                           *)

\* _findCall
ItemOf(c) == SelectInSeq(items, LAMBDA d : slotOf[d] = slotOf[c])

CdrEvent ==
  /\ toCdrs # <<>>
  /\ toCdrs' = Tail(toCdrs)
  /\ LET n == Head(toCdrs) IN
       \/ /\ n.kind = "invited" \/ (n.kind = "incoming" /\ ItemOf(n.call) = 0)
          /\ items' = Append(items, n.call) /\ AddCdr(n.call) /\ UNCHANGED endings
       \/ /\ n.kind = "incoming" /\ ItemOf(n.call) # 0
          /\ UNCHANGED <<items, cdrItems, endings>>
       \/ /\ n.kind = "connected"
          /\ SetConnected(n.call) /\ UNCHANGED <<items, endings>>
       \/ /\ n.kind = "terminated"
          /\ endings' = IF ItemOf(n.call) = 0 THEN endings
                        ELSE Append(endings, [of |-> n.call,
                                              found |-> items[ItemOf(n.call)]])
          /\ UNCHANGED <<items, cdrItems>>
  /\ UNCHANGED sip

\* onTerminated goes on when the header has come.
CdrHeader ==
  /\ endings # <<>>
  /\ LET e == Head(endings) IN
       SetTerminated(e.of) /\ items' = RemoveFirst(items, e.found)
  /\ endings' = Tail(endings)
  /\ UNCHANGED <<sip, toCdrs>>

CdrNext ==
  \/ \E c \in CdrCalls, slot \in CdrSlots, kind \in {"invited", "incoming"} :
       BeginsIn(c, slot, kind)
  \/ \E c \in CdrCalls : IsUp(c) \/ EndsIn(c)
  \/ CdrEvent \/ CdrHeader
  \/ \E i \in DOMAIN cdrItems : RemoveCdr(i)

CdrSpec == CdrInit /\ [][CdrNext]_cvars

-----------------------------------------------------------------------------
(* Properties.                                                             *)

(* A record never has the outcome of another call, and once Dart has       *)
(* caught up it has that of its own.                                       *)
CdrsTrue ==
  \A r \in Range(cdrItems) :
    /\ r.ended \in {Unended, r.call} /\ (r.connected => r.call \in wasUp)
    /\ toCdrs \o endings = <<>> =>
         /\ talk[r.call] = "gone" => r.ended = r.call
         /\ r.call \in wasUp => r.connected
=============================================================================
