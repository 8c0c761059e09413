# Verification of pjsip_connect_flutter

TLA+ models of the library's own logic, checked with TLC, and theorems about
them checked with TLAPS. `SipCore.kt` stands for
`android/src/main/kotlin/com/sipconnect/core/SipCore.kt`; Dart files are those
of `lib/`. `PROJECT.json` relates every definition to the lines it models.

## 1. The system

A Flutter app uses Dart models (`lib/`), which call a plugin over a method
channel; the plugin calls the engine (`SipCore.kt`, or `SipCoreModule.mm` on
iOS), a layer over PJSIP. Events of the engine travel back the same way.

| Component | State | Operations | Correct when |
|---|---|---|---|
| Engine, calls (`SipCore.kt`) | `calls`, `switchedCallId`, per call `wireId`, `wasConnected`, `proceedingFired` | invite, accept, reject, bye, upgrade, switch, conference; callbacks incoming, call state, transaction state | the map holds exactly the calls that exist; events carry their id, in the order of the call's life |
| Engine, media (`SipCore.kt`) | hold and mute flags, links of the bridge, players, recorders | hold, mute, transfer, play, record; callbacks media state, end of file | flags match the session, a muted call is silent, the switched call is heard, recordings are closed |
| Engine, accounts, subscriptions, messages | `accounts`, `buddies`, `nextMsgId`, `pendingMsgIds` | add, update, delete, register; subscribe; send; callbacks | results reach the object they are about |
| Engine, life cycle and network | `ep`, `isInitialized`, `netLost` | initialize, unInitialize, network callbacks | nothing runs on a destroyed endpoint |
| Plugin and events (`SipConnectFlutterPlugin.kt`, `EventListener.kt`) | account ids, pending intents | decode, reply, forward | replies and events keep their order; an intent meets its account |
| Notification service (`CallNotifService.kt`, `SipRinger.kt`) | ongoing calls, foreground mode, saved calls, ringer | start, stop, notifications, intents | foreground while calls go on; rings while a call rings |
| `CallsModel` | list of calls, switched call, conference flag | methods and `on...` handlers | the list shows the calls of the engine; the switched call is in it |
| `AccountsModel`, `SubscriptionsModel`, `MessagesModel`, `CdrsModel`, `DevicesModel`, `NetworkModel` | lists, selection | methods and handlers | entries match the objects of the engine |
| iOS engine (`SipCoreModule.mm`) | as Android, without locks | as Android | as Android |
| iOS CallKit provider (`SipConnectCxProvider.swift`) | CallKit calls and their SIP ids | push, match, answer, end | every CallKit call meets its SIP call or ends |

### Threads and order

* Methods arrive on the **main thread**, which blocks in `exec` while the
  **worker** runs the method; the reply is sent when it returns.
* **PJSIP threads** run the callbacks. Those of one call exclude each other (its
  dialog is locked, an assumption about PJSIP); those of two calls, and a
  callback and the worker, do not. The maps are concurrent, the fields are not
  guarded.
* Events are posted to the main looper (`onMain`). Hence an event posted during
  a method reaches Dart after the reply of that method, one forwarded before
  it, before. Dart finishes what follows an `await` before it takes the next
  message.

What is hard: callbacks that run between two lines of a method; ids that PJSIP
reuses; Dart handlers that go on after an `await`; outcomes without the identity
of what they are about. The list is "hazards" in `PROJECT.json`.

## 2. Modules

**`SipCalls`**: the engine's calls and the two message queues between it and
Dart. Calls have an identity `o` that the code does not have, and an id
(`wireId`, slot of pjsua plus one). `calls`, `switchedCallId`, `wasConnected`,
`proceedingFired` are the fields of that name; `inv` is the state of the INVITE
session, PJSIP's; `cb[t]` the callback on thread `t`; `wk` the method on the
worker; `mainQ` the queue of the main looper and `dartQ` what has been sent to
Dart, both FIFO. Each method is as many actions as it has accesses to what
callbacks share: `callInvite` is make, set `wireId`, put, done. The client is any
program that sends requests, with any id.

**`CallsModel`**: the Dart call list as operators on `items`, `focus` and
`conf`. **`CallSystem`** composes it with `SipCalls`: each handler takes one message;
`onTerminated` is two steps, since it awaits the Reason header.

**`CallView`** is the abstract call list: every call is shown at most once, after it
began, until after it ended. `CallSystem` implements it: `View` instantiates it
with a mapping that treats a call whose event or reply is under way as `coming`.

**`Messages`**: `messageSend`, `onInstantMessage`, `onInstantMessageStatus` and
`MessagesModel`. `nextMsgId++` is two steps, a read and a write.

**`CallHold`**: hold, resume and transfer of one call, with the negotiated session
(`onHold`, `peerHolds`, `pending`), the flags of the engine, and state and hold
state in Dart. A re-INVITE may be refused, a transfer reports several times.
`onCallMediaState` runs at any step of `callHold`; the history variable `crossed`
says that the last change of a flag came before the other of the two had posted
its own.

**`CallMixer`**: the links of the bridge, with mute, switch, conference, media
updates and the end of calls. Media is set up anew, and calls end, at any step of
a method. `callInvite` gives its call the focus (`Begin`).

**`CallMedia`**: files and tones played into a call and its recording. `players` and
`recorder` are the maps of the engine, `port`, `tones` and `openRecs` what PJSIP
does. `onEof2` runs on a media thread and the end of the call on a PJSIP thread between
any two steps of a method; recording may start again while it goes on. The main
thread forwards nothing while a method runs. PJSIP calls `onEof2` at the end of
each round of a looped file (`media.hpp`: "set to play repeatedly, then the
callback will be called multiple times"), and `onEof2` deletes the player, so that
`loop` has no effect on the engine and does not appear.

**`CxProvider`**: CallKit. A push shows a call (`cxShown`, `callsList`, `cx`) and an
INVITE brings one to the engine (`dialog`); the app matches them (`matchers`, the
example's `AppCallsModel`, which the documents tell apps to copy). Three queues,
blocks of the engine, actions of CallKit and the channel, are taken in any order.

**`AccountsModel`**: the engine's accounts, the plugin's `accountsIds` and
`pendingIntents`, and the Dart list with its selected index, loading and saving.
Methods are split at their `await`. An intent for an unknown account is stored, and
all stored intents are raised, whatever their account, once an account has been
added (`RaiseWhenRestored`). The process may be killed at any moment, or
the activity destroyed while the engine goes on (`Restarts`).

**`Subscriptions`**: buddies and the Dart list; the end of a subscription is an event
that notifications from other threads may cross.

**`DevicesList`**: the Dart list that loads one device per `await`, and the phone's
devices underneath. Headsets come and go, and devices are selected, during a load;
loads cross each other. Two history variables: `settled`, no headset came or went
since a load last counted, and `alone`, the last load began with no other under way.

**`Cdrs`**: records of calls, found by ids that are reused.

**`CallNotif`**: the service that outlives the activity: ringer, notifications,
ongoing calls, foreground mode, and the calls Dart saved (`saved`), which a new
activity is given. Intents reach a new activity (`Created`) and one that is there
(`NewIntent`); Android may refuse foreground mode at any time.

`MCSipCalls` and `MCCallSystem` add the symmetry of threads. `MCParts` and
`MCServices` put modules that share no state next to each other: a behaviour runs
one of them. 

The theorems are in `SipCallsProofs`, `CallSystemProofs`, `InCallProofs` (hold, mixer
and media), `MessagesProofs`, `CxProviderProofs`, `ListsProofs` (accounts, subscriptions,
records of calls, devices), `ServicesProofs` (the Android service, the types of the
lists, and `MCServices`) and `PartsProofs` (`MCParts`).

## 3. Runs

Passing:

| Run | Checks | Bounds |
|---|---|---|
| `engine` | `TypeOK`, `TableSound` (map and PJSIP agree at every moment), `EventIds` | 2 calls, 2 ids, 1 callback thread, every method with every id |
| `calls` | `SystemTypeOK`, `FocusValid` (at rest the switched call is in the list, none when it is empty), `StartsOnce` | 2 calls, every method of the model, one message under way when something starts |
| `calls_threads` | `NoGhost` (an ended call is on its way out of the list), `NoLostCall` (a live one is in it or coming), `StateAgrees`, `NeverBack`, `EventOrder` (events of a call in the order of its life, none twice) | 2 calls on 2 threads, two messages under way |
| `calls_live` | `ImplementsCallView`, `HungUpLeavesList` | invite and bye, fairness |
| `parts` | messages: `OwnStatus`, `NoneSkipped`, `StatusArrives`; hold: `FlagsShown`, `HoldingEnds`, `RemoteTrue`; mixer: `MuteLasts` (once silenced, silent until unmuted), `SwitchSeparates`; media: `PlayingShown`, `RecordingHeld` (no open recorder gets out of reach unless another replaces it); CallKit: `BothMatched`, `DeclineStands`, `QueuedRuns`, `EndLeavesKit` | 3 messages, a list of 2; 1 call; 2 calls; 2 players, 2 recorders; 2 calls with their pushes |
| `services` | accounts: `AccountsShown`, `SelectedExists`, `SavedTrue`; `SubsShown`; devices: `DevicesListed` (none missing), `DevicesShown`; `CdrsTrue`; service: `ServiceTrue`, `NoGhostRestored`, `CallForegroundEnds`, `AppForegroundKept` | 2 accounts with kills of the process; 2 subscriptions; 2 fixed devices, a headset between them in the list, 2 loads at once; 3 calls on 2 slots with room for 2 records; 2 calls |

Violations, each a finding:

| Run | Shows |
|---|---|
| `stale_switch` | a call that ends during `mixerSwitchToCall` stays `switchedCallId` |
| `mixer_focus` | when the switched call ends, the one that takes over the focus stays off microphone and loudspeaker |
| `callkit_dismiss` | a push without INVITE is forgotten by the provider before CallKit performs its end, which then fails: the call stays on the screen |
| `account_restart` | after the activity was destroyed the restored account has a new id while the old one stays registered; the intent of a call for the old one is stored after the account is back, with nothing left to raise it |
| `tone_stop` | `callStopPlayFile` deletes the stand-in of a tone, and the tone plays on |
| `cdr_removed` | a record removed during its call: the outcome goes into the record of an earlier call with the same id |

**Bounds.** Two calls are the least with which focus, conference and reuse of slots
mean anything; `Cdrs` has three, so that a slot comes round while two records are
there and the list is full. Two callback threads are enough for two calls, since
callbacks of one call exclude each other. `MaxBacklog` and the other `...Backlog`
limit how much may start, never how long a message waits. `MaxItems` below
`MaxSent` makes messages leave the list before their status comes. `HoldBacklog` is
0: a method, a re-INVITE or a NOTIFY begins when the events of those before have
been handled, but callback and method still run inside each other and post in
either order, which is all that `FlagsShown` depends on, and the theorems hold for
any backlog. The headset lies between the fixed devices, so that the list changes in
the middle, and two loads at once are enough to clear each other's entries. Two
recorders let one replace or follow another.

**What the passing runs assume, and what happens without it.** Each is a constant
that can be set the other way to see it; these are behaviours of the code, and
the runs show that the logic is right apart from them.

* `FastPeer = FALSE`: callbacks of an outgoing call do not run before `callInvite`
  has registered it. With TRUE a 1xx is reported for call -1 (`EventIds`), and a
  DISCONNECTED that precedes the put leaves an entry for ever (`TableSound`). In
  `Messages`: a status that comes before its number is queued is dropped, and
  `OwnStatus` fails.
* No `upgrade` in `calls_threads`: a 100 to the re-INVITE takes a connected call
  back to "proceeding", so `NeverBack` and `EventOrder` fail.
* Two slots for two calls: pjsua hands slots out round robin. With a third call
  a slot may be used again while `onTerminated` of its last holder awaits a header,
  and two calls of the Dart list have one id. `SlotsReused` in `Cdrs` is the same.
* One thread in `calls`: with two, a focus event of one call may be posted between
  the hand-over and the end of another and `FocusValid` fails, by the same unlocked
  accesses as `stale_switch`.
* `InOrder = TRUE`: the comment in `SipCore.kt` says that statuses come in order;
  otherwise messages get each other's outcome.
* `Overlap = FALSE`: no `onInstantMessage` between the two accesses of another
  thread to `nextMsgId`. With TRUE two messages get one number, and `NoneSkipped` and
  `OwnStatus` fail.
* `CallHold` does not say that a held call is never shown as connected: the outcome
  of a transfer sets that state whatever it was.
* `GivesUp`: a call that ends before it is matched leaves its CallKit call
  (`EndLeavesKit`).
* `AccOverlap`: two methods of `AccountsModel` at once use indexes that have moved.
  `AnswerInEdit`: the copy that was edited brings an old registration state back.
  `EmptyRestored`: the saved index of an empty list is loaded as 0 and is no index.
  In `services` every saved account finds room; an add that fails in `loadFromJson`
  loses the rest at the next save.
* `AccountGone`: a subscription whose account is gone is made on the first account.
* `SyncCrosses`: Dart's list crosses the end of a call and saves it again, and
  `NoGhostRestored` fails. `StaleIntent`: a new activity handles the intent of an
  earlier one and shows a call that is over.

**What the properties themselves leave open.** Hold, mixer, media and devices run with
every interleaving. Their properties say how far the code gets, so that what it does
not do can be read off them:

* `FlagsShown`: when callback and `callHold` both change a flag before either has
  posted, the older reading may be posted last, and Dart shows one flag wrong
  until the next change.
* `MuteLasts`: a `connectAudio` that has looked at the mute flag joins the microphone
  of a call that is muted in between, and the call is heard though it is muted.
* `RecordingHeld`: a recorder stored after DISCONNECTED has cleaned up stays open,
  in the map, until `callStopRecordFile`; one replaced by a second `callRecordFile`
  stays open for ever.
* `DevicesShown`: loads that cross leave a list in another order, such as 3, 1, and an
  index of another device, until the next load that begins alone.

**Fairness.** `System1` assumes weak fairness of the main loop, the worker, the Dart
event loop, of a callback that has begun, and that PJSIP ends a call that has been
hung up (its transactions time out). Nothing is assumed of users, peers or calls
that are not hung up. `MsgFairness` adds that PJSIP reports an outcome of every
message (408 when none comes). `KitFairness` is weak fairness of the main queue, of
CallKit performing an action it has been given, and of the Dart loop; pushes,
INVITEs and users may stay away for ever. `CHECK_DEADLOCK FALSE` appears where
users and peers may simply stop.

## 4. Proofs

For every value of the constants; the assumptions are named where there are any.

`SipCallsProofs` (any number of calls, slots and threads, any client):

* `TypeCorrect`: `Spec => []TypeOK`. One step per action; the queues need that what
  is appended is a message.
* `TableCorrect`: `Spec => []TableSound`, provided `~FastPeer`. The map contains a
  call from the moment its callback or `callInvite` puts it there until
  DISCONNECTED. The inductive invariant adds that no two live calls have the
  same slot (`SlotsUnique`), that a call's id is its slot or not set yet (`WireIsSlot`),
  that the call `callInvite` is registering is alive (`RegisteringOK`), and that
  a callback at work on DISCONNECTED is of an ended call (`EndingOK`).
  The assumption is needed: otherwise DISCONNECTED may precede the put, and the
  entry stays for ever.
* `EventsNamed`: `Spec => []EventIds`, under the same assumption. `NamesInv` types the
  queues with messages whose events carry slots, and says that a callback between
  two steps remembers one. That a callback reads a slot follows from
  `TableSound`, which is why it comes second.
* `EventsInOrder`: `Spec => []EventOrder`, and `EventsOrdered`, the same with what
  makes it inductive, under the same assumption and without `upgrade`: a 1xx to a
  re-INVITE does take the call back to proceeding. `OrderInv` says that both
  queues together are sorted in pairs (a call's "incoming" and "proceeding", then
  "connected", then "terminated"), that what an event says has happened to the
  INVITE session (`Past`), that a call has one callback at a time (`OneCallback`),
  and that a callback past the test of `wasConnected` is the one that set it
  (`ConnectedOK`). A pair is enough: nothing is ever inserted between two messages.

`CallSystemProofs` (the engine with the Dart list, any number of calls, slots and
threads). `DartClient` names the assumptions on the constants, those of the runs: `~FastPeer`, and
`Awaiters` contains every call and "none":

* `DartIsAClient`: `SafeSystem => Spec`. The Dart model is one of the clients of the
  engine, so `TableWithDart` and `OrderWithDart` carry over what is proved of every
  client. `SystemTypes`: `[]SystemTypeOK`. Both come from `BaseInv`: a successful
  reply to invite names the call that was made.
* `NoGhosts`: `[]NoGhost`, `NoLostCalls`: `[]NoLostCall`, `ShowsCalls`: the
  initial states of `SafeSystem` are `CallView`'s, and each step is a step of it or
  leaves it alone. `ListInv` gives every call a stage, as sets of calls: being
  prepared by a callback or by `callInvite` (`Held`), its first message under way
  (`Coming`), not yet ended as far as Dart has been told (`Pending`), its header asked
  for (`Asked`). The list is what is pending and not coming, with calls whose
  header is asked for; no stage is skipped or taken twice, since a call's first
  message precedes its others in both queues (`ListOrder`).
* These need `[]LateReuse`: pjsua gives a slot out again only when nothing is left
  of the call that had it, no message and no entry. Dart finds calls by their
  slot, so that the events of a slot given out at once would reach the call
  before. pjsua hands out its slots in turn, and the time of a round is long
  against that of a message, but no code waits for it. `EnoughSlots` proves
  `[]LateReuse` when there are as many slots as calls (`MaxCalls <= Cardinality(Ids)`),
  which holds in the runs.
* `StartsSetOnce`: `[]StartsOnce`. `StartsOK` adds that no second "connected" of a
  call is under way once it has a start time.
* `StatesAgreed`: `[]StateAgrees`, `NeverGoesBack`: `NeverBack`, without `upgrade`.
  `StateOK` adds that a call with a start time has neither "proceeding" nor the reply
  to accept still to come, and that a call connected in the engine has its
  "connected" under way or handled. The reply to accept precedes "connected" because
  the main thread, which forwards events, waits for the method and sends its
  reply first.

* `FocusFollows`: `[]FocusValid`, given `[]LateReuse` and `[]HandOffLasts`. The focus is
  always a call Dart shows, once its messages are handled, and with no call there is none. `FocusInv`: the
  focus and every "switched" under way name a call in the list or on its way into it
  (`FocusOK`, `FocusMsg`); nothing takes the focus back to a call behind the request
  for its header (`FocusOrder`); a call the client has made takes the focus by an event
  behind its reply (`WillSwitch`); and the call the worker is about to switch to
  has not ended as far as Dart may be told (`MixKnows`).
* `HandOffLasts` says that the call which a callback has chosen to get the focus is not
  removed before the callback posts it. `FocusIsValid` proves it from `OneThread`: all
  callbacks on one thread, PJSUA's default (`threadCnt`), which `SipCore` never changes.
  With two threads it is false, and so is `FocusValid`: the other thread may end the
  chosen call in between. The run `calls` has one thread.

`InCallProofs` (any set of calls, players and recorders, any number of events under way):

* `HoldTyped`, `MixTyped`, `MediaTyped`: the three type invariants, whatever overlaps.
  That of the mixer says that all links are of calls in the map; a callback
  between its two halves is of such a call (`CallbackLives`).
* `MuteStays`: `MixSpec => MuteLasts`; `SwitchKeepsApart`: `MixSpec => SwitchSeparates`,
  without assumptions. What the silence of a call depends on, no unmuting and no
  `connectAudio` past its look, is part of `Silenced`; the invariant adds that only calls
  with media are joined to a device (`JoinedHaveAudio`), so that the calls which
  `mixerSwitchToCall` passes over are not.
* `ShownPlays`: `MediaSpec => []PlayingShown`. A player may end before `callPlayFile`
  has stored or reported it. `EndComes` says why none is shown for ever: a player
  that is over, and is shown or will be by a reply under way, has its "stopped"
  event behind that reply, or still in the main queue.
* `RecordingsHeld`: `MediaSpec => RecordingHeld`, without assumptions. `RecInv`: the recorder being stored is the latest,
  and the stored one is older.
* `HoldingIsOver`: `HoldSpec => []HoldingEnds`. `HeldComes` adds that behind every
  "holding", shown or still in a queue, the "held" event comes that ends it.
* `RemoteKnown`: `HoldSpec => []RemoteTrue`, inductive once the program
  counters have their types.
* `FlagsAreShown`: `HoldSpec => []FlagsShown`, without assumptions. `FlagsInv`: what a method or
  callback is about to post is right about its own side, which nobody else changes,
  and about both sides unless the two have crossed; and once both are done, the last
  "held" in the two queues, or what Dart shows when there is none, carries such flags.

`MessagesProofs` (any number of messages, any length of the list):

* `MessagesTyped`: `MsgSafe => []MsgTypeOK`, without assumptions.
* `OutcomesTheirOwn`: `[]OwnStatus`, provided `InOrder`, `~FastPeer` and `~Overlap`. `NumbersInv` collects as `Claims` who has which
  number: the engine's queue by position, notes, list and worker by what they
  carry. The queue and the transactions stay in step (`Aligned`), no two claims give
  a number to two messages (`ClaimsAgree`), no number is ahead of `nextMsgId`
  (`Fresh`), and none is both a sent and a received message's (`Distinct`). Each
  assumption is used once: by the outcome that takes the oldest number, by that
  number being queued, and by `nextMsgId++`.

`CxProviderProofs` (any calls, any order of the three queues, no assumptions):

* `KitTyped`: `KitSpec => []KitTypeOK`.
* `PushesMatched`: `KitSpec => []BothMatched`. `MatchInv` follows both halves of a call.
  A call that CallKit shows and the provider has not matched has its push on the way
  to the app, or is known to it, or its match or its end is under way; an incoming
  call that is alive has its INVITE on the way to the app or is known to it. Once both
  are known the match is on its way to the engine, which still has the call or has
  its end under way. Hence at rest none is left over.
* `DeclinesStand`: `KitSpec => DeclineStands`. A call declined before its INVITE is
  `rejected` in the provider; the step that matches it ends it, so that a rejected
  CallKit call that has an id is that of a SIP call that is gone, and nothing
  queued before can accept it.
* The proof found two guards of `CxProvider` that overlapped: `CxAnswer` and `CxEnd` of
  a call the provider has forgotten. The module now takes the branch of the code;
  the states TLC visits did not change.

`ListsProofs` (`AccountsModel`, `Subscriptions`, `Cdrs` and `DevicesList`, any accounts,
ids, calls and devices, any number of kills of the process):

* `SelectionExists`: `AccSpec => []SelectedExists`, and `SettingsTrue`: `[]SavedTrue`, both provided `Sequential`: one method at a time
  (`~AccOverlap`), the process is restarted with the engine (`Restarts`), and an
  empty list is not restored (`~EmptyRestored`). `AccInv` says where a method stands:
  either nothing is under way, or one method waits for the engine or for Dart, and
  then list, plugin and engine hold the same accounts but for the one that its
  reply adds or takes away; loading has entered a prefix of the saved list, and
  what is in the settings fits the list unless a save is due.
* `ListShowsAccounts`: `[]AccountsShown`, provided `Sequential` and `~AnswerInEdit`.
  `RegInv` adds that behind every registration state that is not the engine's last
  one, in the list or under way, the last one comes.
* What is assumed away is what `AccOverlap`, `AnswerInEdit`, `EmptyRestored` and
  restarts of the activity alone (the engine keeps accounts the list has forgotten) show
  to go wrong: with any of them the theorem is false.
* `SubscriptionsShown`: `SubSpec => []SubsShown`, provided `~AccountGone` (otherwise a
  subscription is moved to another account when it is loaded). `SubInv`: ids are not
  given out twice (`IdsGiven`); a subscription is entered once and before anything
  else is heard of it (`EnteredOnce`); while there is one it is in the list or its
  reply is under way, and once it is destroyed, which Dart is told behind all
  replies, "destroyed" is under way as long as it is in the list (`EndHeard`);
  and behind every state that is not the last comes the last one, or a callback
  has it and has yet to post it (`HeardLast`).
* `RecordsTrue`: `CdrSpec => []CdrsTrue`, provided `SlotsKept`: a slot is free until Dart
  is done with its call (`~SlotsReused`), and the record of a call that goes on is not
  removed (`~LiveRemoved`; `cdr_removed` shows what happens otherwise). A record is
  looked up by a slot that earlier calls had too, so `CdrInv` says why the first hit
  is right: calls that are still used have slots of their own (`SlotsApart`), what is
  told of a call comes in turn and the call is in the list until its header has come
  (`ToldInTurn`, `CallFollowed`), and as long as it is, its record lies before all
  others with its slot; if it was dropped as the oldest, so were they (`NewestFirst`).
* `DevicesTyped`: `DvcSpec => []DvcTypeOK`: however loads cross, no device is listed
  twice and no index is out of range. The proof found that `DevicesAssumption` did not
  say that the fixed devices are not among the ones that can be unplugged; it now does.
* `NoDeviceMissing`: `DvcSpec => []DevicesListed`, without assumptions on what crosses.
  A load has one message under way (`OneEach`), so that there are at most as many as
  loads. `FillInv`: since the devices were last counted, another count is due, or
  some load has come to a device up to which the list holds all of them, whoever
  entered them (`Fills`).
* `DevicesAreShown`: `DvcSpec => []DevicesShown`, without assumptions. `ShowInv`: while the
  last load to begin is one that began alone, and no other is due, it has come to
  a device up to which the list is that of the phone, in order (`LoadedTo`), and the
  device in use, if it is among them, is selected whatever was before (`ChosenTo`).
  `Ascending` shows that a finite set of numbers has an order, without induction: a
  number's place is how many there are up to it.

`ServicesProofs` (any calls, with every crossing of events and saved calls; for the
types, any accounts, ids, records and devices):

* `ForegroundEnds`: `NotifSpec => []CallForegroundEnds`; `AppKeepsForeground`:
  `NotifSpec => AppForegroundKept`. Inductive with: a call holds foreground mode
  only while it is on.
* `ServiceAgrees`: `NotifSpec => []ServiceTrue`. `ServiceInv` says of each state of the
  service that is out of date, and of each block under way that will make it so,
  that a later block puts it right: behind whatever is told of a call that is gone
  comes its "terminated" (`EndsTold`), and behind an "incoming" of a call that no
  longer rings comes a block that stops the ringer (`RingerTold`).
* `NoGhostsRestored`: `NotifSpec => []NoGhostRestored`, provided `~SyncCrosses` and
  `~StaleIntent`. `RestoreInv`: every call that Dart has saved, is saving, shows or
  has been told of is alive, or its "terminated" is a block of the main looper still,
  or comes behind on the channel. Without the first assumption the list is saved
  after the service has removed the call from it, without the second an intent names
  a call of which nothing is under way any more; both are counterexamples of TLC.
* `NotifTyped`, `AccountsTyped`, `SubsTyped`, `CdrsTyped`: the type
  invariants, without an assumption on overlap, restarts or reuse of slots, where most
  of the theorems about contents need one. `FirstPlace` takes the first entry of a list that fits from `Ascending`,
  again without induction.
* `ServicesApart`: `ServicesSpec` implies the specification of each of its modules, and
  `ServicesTyped`: `ServicesSpec => []ServicesTypeOK`.

`PartsProofs`: `PartsApart`, `PartsSpec` implies the specification of each module in `MCParts`, and
`PartsTyped`: `PartsSpec => []PartsTypeOK`. The two `Apart` theorems carry every
theorem about a module over to the specification that the runs check.

Every invariant that a passing run checks is stated by one of these theorems, for
some of them under the assumptions named, except `NoneSkipped`: it holds as long as no
callback comes between the two accesses to `nextMsgId`, which the code does not
ensure, and under that assumption says little; the run keeps it for the numbering.

Only model-checked: what is not listed here. Liveness under
fairness and ENABLED are beyond the prover, so `StatusArrives`, `QueuedRuns`,
`EndLeavesKit`, `HungUpLeavesList` and the fairness part of `ImplementsCallView` stay
with TLC. So does anything that needs induction over data: `CallsModel` writes its
search as a choice of the first place, `DevicesList` its order as a choice of an
ascending sequence, and `Cdrs` removes an entry with `RemoveFirst`, for this reason. No module that is
proved about has a RECURSIVE operator.

## 5. What is left

1. Loading and saving of messages and records; an account's end in `Cdrs`.
2. The engine of iOS (`SipCoreModule.mm`) for what differs in threads and order: its
   maps are erased on PJSIP threads without a lock, and the terminated event
   precedes the hand-over of the focus.

### Not modelled

* The engine's life cycle and the network monitor: `initialize` and `unInitialize`
  run while nothing else does, and what a PJSIP thread does to a destroyed
  endpoint is undefined in PJSIP.
* The iOS engine, apart from the methods CallKit needs; it shares its logic with the
  Android engine, and needs a model of its own of PJSIP's threads.
* Permissions, argument decoding, DTMF digits, video rendering, logging, settings
  and codecs: I/O and conversions without state that the properties could relate.
* PJSIP and its bindings. They are the environment: what the engine relies on is
  stated by the actions marked external. By lines the repository is mostly these: the
  vendored C and C++ headers of PJSIP, several copies of each. They declare an
  interface and hold no behaviour of this library, so no definition maps to
  them, and a count of covered lines that takes those headers for the implementation
  finds none. The library itself is the Kotlin, Swift, Objective-C and Dart
  sources, which `PROJECT.json` maps.
* The example and the tests; of the example only `AppCallsModel`, which the
  documents make part of the CallKit protocol, is in `CxProvider`.
