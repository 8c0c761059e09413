---------------------------- MODULE DevicesList -----------------------------
(***************************************************************************)
(* The audio devices: what SipCore finds and has selected, and the list    *)
(* that _DevicesList of Dart loads one device at a time, awaiting each.    *)
(*                                                                         *)
(* A headset may come or go, and the user select a device, at any moment   *)
(* of a load.                                                              *)
(*                                                                         *)
(* A device is given by its place in the enumeration, so that the list of  *)
(* the engine is in ascending order.  On Android lists of microphones and  *)
(* cameras are empty and left out.                                         *)
(***************************************************************************)
EXTENDS Integers, Sequences, FiniteSets, Functions

CONSTANTS
  Fixed,         \* devices that are always there: earpiece and speaker
  Pluggable,     \* headsets
  MaxLoads       \* loads that may be under way at once (a bound)

ASSUME DevicesAssumption ==
  /\ Fixed \cup Pluggable \subseteq Nat \ {0} /\ IsFiniteSet(Fixed \cup Pluggable)
  /\ Fixed \cap Pluggable = {}
  /\ MaxLoads \in Nat \ {0}

VARIABLES
  present,       \* devices of the phone
  selAudioDevice,
  dvcCalls,      \* requests of Dart, and blocks of the main looper
  dvcAnswers,    \* replies and events on their way to Dart
  dvcs, selGuid, selIndex,   \* _dvcs, _selGuid, _selIndex
  loads,         \* the loads that await a reply
  settled,       \* history: the devices are those of when a load last counted
  alone          \* history: the last load began when no other was under way

dvars == <<present, selAudioDevice, dvcCalls, dvcAnswers, dvcs, selGuid,
           selIndex, loads, settled, alone>>

phone == <<present, selAudioDevice>>
shown == <<dvcs, selGuid, selIndex, loads>>

AllDevices == Fixed \cup Pluggable
NoDevice   == 0     \* AudioDevice.None
NoGuid     == -1    \* _selGuid = ""
Loading    == [size: Nat, found: BOOLEAN]
LoadIds    == 1..MaxLoads

DvcTypeOK ==
  /\ Fixed \subseteq present /\ present \subseteq AllDevices
  /\ selAudioDevice \in AllDevices
  /\ \A i \in DOMAIN dvcCalls : dvcCalls[i].m \in {"number", "get", "set", "changed"}
  /\ \A i \in DOMAIN dvcAnswers : dvcAnswers[i].m \in {"number", "get", "set", "changed"}
  /\ dvcs \in Seq(AllDevices \cup {NoDevice}) /\ IsInjective(dvcs)
  /\ selGuid \in AllDevices \cup {NoDevice, NoGuid}
  /\ selIndex \in Int /\ selIndex >= -1
  /\ DOMAIN loads \subseteq LoadIds
  /\ \A l \in DOMAIN loads : loads[l] \in Loading
  /\ settled \in BOOLEAN /\ alone \in BOOLEAN

\* availableAudioDevices, in ascending order
Available == CHOOSE s \in [1..Cardinality(present) -> present] :
               \A i, j \in DOMAIN s : i < j => s[i] < s[j]
\* dvcGetAudioDevice: indexes count from 0.
DeviceAt(i) == IF i \in 0..Len(Available) - 1 THEN Available[i + 1] ELSE NoDevice

NumberOf(l)    == [m |-> "number", load |-> l]
GetDevice(l,i) == [m |-> "get", load |-> l, index |-> i]
SetDevice(i)   == [m |-> "set", index |-> i]
Changed        == [m |-> "changed"]

\* load(), called once the app's models are there.
DvcInit ==
  /\ present \in {Fixed \cup p : p \in SUBSET Pluggable}
  /\ selAudioDevice \in Fixed
  /\ dvcCalls = <<NumberOf(1)>> /\ dvcAnswers = <<>>
  /\ dvcs = <<>> /\ selGuid = NoGuid /\ selIndex = -1
  /\ loads = [l \in {1} |-> [size |-> 0, found |-> FALSE]]
  /\ settled = FALSE /\ alone = TRUE

-----------------------------------------------------------------------------
(* The phone and the engine.                                               *)

\* A headset comes or goes; the engine hears nothing of it.
Plug(d) ==
  /\ present' = (present \cup {d}) \ (present \cap {d})
  /\ settled' = FALSE
  /\ UNCHANGED <<selAudioDevice, dvcCalls, dvcAnswers, shown, alone>>

\* dvcSetAudioDevice
Select(d) ==
  /\ selAudioDevice' = d
  /\ dvcCalls' = Append(Tail(dvcCalls), Changed)

DvcMain ==
  /\ dvcCalls # <<>>
  /\ LET r == Head(dvcCalls) IN
       \/ /\ r.m = "number"
          /\ dvcAnswers' = Append(dvcAnswers, [m |-> "number", load |-> r.load,
                                               size |-> Len(Available)])
          /\ dvcCalls' = Tail(dvcCalls) /\ settled' = TRUE /\ UNCHANGED phone
       \/ /\ r.m = "get"
          /\ dvcAnswers' = Append(dvcAnswers,
               [m |-> "get", load |-> r.load, index |-> r.index,
                device |-> DeviceAt(r.index),
                selected |-> DeviceAt(r.index) = selAudioDevice])
          /\ dvcCalls' = Tail(dvcCalls) /\ UNCHANGED <<phone, settled>>
       \/ /\ r.m = "set"
          /\ dvcAnswers' = Append(dvcAnswers, [m |-> "set", index |-> r.index,
                                               ok |-> DeviceAt(r.index) # NoDevice])
          /\ IF DeviceAt(r.index) # NoDevice THEN Select(DeviceAt(r.index))
             ELSE UNCHANGED selAudioDevice /\ dvcCalls' = Tail(dvcCalls)
          /\ UNCHANGED <<present, settled>>
       \/ /\ r.m = "changed"
          /\ dvcAnswers' = Append(dvcAnswers, Changed)
          /\ dvcCalls' = Tail(dvcCalls) /\ UNCHANGED <<phone, settled>>
  /\ UNCHANGED <<shown, alone>>

-----------------------------------------------------------------------------
(* Dart.                                                                   *)

Quiet == dvcCalls = <<>> /\ dvcAnswers = <<>>

\* setPlayoutDevice
SetPlayoutDevice(i) ==
  /\ Len(dvcCalls) + Len(dvcAnswers) < MaxLoads
  /\ dvcCalls' = Append(dvcCalls, SetDevice(i))
  /\ UNCHANGED <<phone, dvcAnswers, shown, settled, alone>>

\* _DevicesList.set, after its await
IsSet(r) ==
  /\ IF r.ok THEN /\ selGuid' = IF r.index < Len(dvcs) THEN dvcs[r.index + 1] ELSE NoGuid
                  /\ selIndex' = r.index
     ELSE UNCHANGED <<selGuid, selIndex>>
  /\ UNCHANGED <<dvcs, loads, dvcCalls>>

\* onAudioDevicesChanged: another load begins.
OnAudioDevicesChanged ==
  \E l \in LoadIds \ DOMAIN loads :
    /\ \A k \in LoadIds \ DOMAIN loads : l <= k
    /\ loads' = [k \in DOMAIN loads \cup {l} |->
                   IF k = l THEN [size |-> 0, found |-> FALSE] ELSE loads[k]]
    /\ alone' = (DOMAIN loads = {})
    /\ dvcs' = <<>>
    /\ dvcCalls' = Append(dvcCalls, NumberOf(l))
    /\ UNCHANGED <<selGuid, selIndex>>

\* The loop goes on at this index, or what follows it.
GoOn(l, index, size, found) ==
  IF index < size
  THEN /\ loads' = [loads EXCEPT ![l] = [size |-> size, found |-> found]]
       /\ dvcCalls' = Append(dvcCalls, GetDevice(l, index))
  ELSE /\ loads' = Restrict(loads, DOMAIN loads \ {l})
       /\ UNCHANGED dvcCalls

Size(r) ==
  /\ GoOn(r.load, 0, r.size, FALSE)
  /\ IF r.size = 0 THEN selIndex' = -1 /\ selGuid' = NoGuid
     ELSE UNCHANGED <<selIndex, selGuid>>
  /\ UNCHANGED dvcs

\* Mutant: the first device that counts as selected ends the loop.
DeviceFirst(r) ==
  LET load  == loads[r.load]
      isSel == selGuid = r.device \/ r.selected IN
    /\ dvcs' = IF r.device \in Range(dvcs) THEN dvcs ELSE Append(dvcs, r.device)
    /\ IF isSel THEN selIndex' = r.index /\ selGuid' = r.device
       ELSE UNCHANGED <<selIndex, selGuid>>
    /\ GoOn(r.load, IF isSel THEN load.size ELSE r.index + 1, load.size, isSel)

\* Mutant: the list is looked up by index, not by guid.
DeviceByIndex(r) ==
  LET load  == loads[r.load]
      isSel == selGuid = r.device \/ r.selected
      found == load.found \/ isSel
      last  == r.index + 1 >= load.size IN
    /\ dvcs' = IF r.index < Len(dvcs) THEN dvcs ELSE Append(dvcs, r.device)
    /\ IF isSel THEN selIndex' = r.index /\ selGuid' = r.device
       ELSE IF last /\ ~found THEN selIndex' = -1 /\ selGuid' = NoGuid
       ELSE UNCHANGED <<selIndex, selGuid>>
    /\ GoOn(r.load, r.index + 1, load.size, found)

\* One device; _selGuid of before the load counts as well as isSelected.
Device(r) ==
  LET load  == loads[r.load]
      isSel == selGuid = r.device \/ r.selected
      found == load.found \/ isSel
      last  == r.index + 1 >= load.size IN
    /\ dvcs' = IF r.device \in Range(dvcs) THEN dvcs ELSE Append(dvcs, r.device)
    /\ IF isSel THEN selIndex' = r.index /\ selGuid' = r.device
       ELSE IF last /\ ~found THEN selIndex' = -1 /\ selGuid' = NoGuid
       ELSE UNCHANGED <<selIndex, selGuid>>
    /\ GoOn(r.load, r.index + 1, load.size, found)

DvcDart ==
  /\ dvcAnswers # <<>>
  /\ dvcAnswers' = Tail(dvcAnswers)
  /\ LET r == Head(dvcAnswers) IN
       \/ r.m = "number" /\ Size(r) /\ UNCHANGED alone
       \/ r.m = "get" /\ Device(r) /\ UNCHANGED alone
       \/ r.m = "set" /\ IsSet(r) /\ UNCHANGED alone
       \/ r.m = "changed" /\ OnAudioDevicesChanged
  /\ UNCHANGED <<phone, settled>>

DvcNext ==
  \/ DvcMain \/ DvcDart
  \/ \E d \in Pluggable : Plug(d)
  \/ \E i \in 0..Len(dvcs) - 1 : SetPlayoutDevice(i)

DvcSpec == DvcInit /\ [][DvcNext]_dvars

-----------------------------------------------------------------------------
(* Properties.                                                             *)

(* However loads, selections and headsets cross, a device of the phone is  *)
(* in the list once nothing is under way, if it was there when a load last *)
(* asked for the number: one load clears what another has filled in, and   *)
(* the indexes it asks for are those of its own moment.                    *)
DevicesListed == Quiet /\ settled => present \subseteq Range(dvcs)

(* A load that begins when no other is under way puts right what went      *)
(* before: the list is that of the phone, in the engine's order, so that an*)
(* index means the same device to both, and the selected index is that of  *)
(* the device in use.                                                      *)
DevicesShown ==
  Quiet /\ settled /\ alone =>
    /\ dvcs = Available
    /\ selAudioDevice \in present =>
         selIndex >= 0 /\ DeviceAt(selIndex) = selAudioDevice
=============================================================================
