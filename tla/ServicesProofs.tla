--------------------------- MODULE ServicesProofs ---------------------------
(***************************************************************************)
(* Proofs about the Android service, for any calls and however activity,   *)
(* events and saved calls cross: foreground mode, and that ringer, ongoing *)
(* calls and notifications are those of the engine's calls.  Then what     *)
(* types the service and the lists have, and all of them next to each      *)
(* other.                                                                  *)
(***************************************************************************)
EXTENDS MCServices, ListsProofs

(* A call holds foreground mode only while it is on and a call is ongoing. *)
ForegroundInv == fgByCall => fgMode /\ ongoingCalls # {}

LEMMA ForegroundBegins == NotifInit => ForegroundInv
  BY DEF NotifInit, ForegroundInv

(* A block that is delivered: a call that connects joins the ongoing calls *)
(* before it asks for foreground mode, and one that ends leaves them       *)
(* before it is asked whether it was the last.                             *)
LEMMA DeliverKeeps == ForegroundInv /\ Deliver => ForegroundInv'
<1>. SUFFICES ASSUME ForegroundInv, Deliver, NEW c,
                    OnIncoming(c) \/ OnConnected(c) \/ OnTerminated(c)
             PROVE  ForegroundInv'
  BY DEF Deliver
<1>1. CASE OnIncoming(c)
  BY <1>1 DEF OnIncoming, foreground, ForegroundInv
<1>2. CASE OnConnected(c)
  BY <1>2 DEF OnConnected, StartForeground, foreground, ForegroundInv
<1>3. CASE OnTerminated(c)
  <2>1. CASE ongoingCalls \ {c} = {} /\ fgByCall
    BY <1>3, <2>1 DEF OnTerminated, ForegroundAfter, ForegroundInv
  <2>2. CASE ~(ongoingCalls \ {c} = {} /\ fgByCall)
    BY <1>3, <2>2 DEF OnTerminated, ForegroundAfter, foreground, ForegroundInv
  <2>. QED BY <2>1, <2>2
<1>. QED BY <1>1, <1>2, <1>3

LEMMA ForegroundKeeps == ForegroundInv /\ [NotifNext]_nvars => ForegroundInv'
<1>. SUFFICES ASSUME ForegroundInv, [NotifNext]_nvars PROVE ForegroundInv'
  OBVIOUS
<1>. USE DEF ForegroundInv
<1>1. CASE Deliver
  BY <1>1, DeliverKeeps
<1>2. ASSUME NEW c \in NotifCalls, Rings(c) \/ Answers(c) \/ Finishes(c)
                                    \/ HangupTapped(c)
      PROVE  ForegroundInv'
  BY <1>2 DEF Rings, Answers, Finishes, HangupTapped, LegChanges, service
<1>3. ASSUME NEW c \in NotifCalls, Dials(c) \/ RejectTapped(c) \/ NewIntent(c)
      PROVE  ForegroundInv'
  BY <1>3 DEF Dials, RejectTapped, NewIntent, service, foreground
<1>4. ASSUME NEW on \in BOOLEAN, SetForeground(on) PROVE ForegroundInv'
  BY <1>4 DEF SetForeground, StartForeground, foreground
<1>5. CASE Inactive \/ InFrontAgain \/ SyncCallsState \/ Destroyed \/ Created \/ Models
  BY <1>5 DEF Inactive, InFrontAgain, SyncCallsState, Destroyed, Created, Models,
              service, foreground
<1>6. CASE UNCHANGED nvars
  BY <1>6 DEF nvars
<1>. QED BY <1>1, <1>2, <1>3, <1>4, <1>5, <1>6 DEF NotifNext

(* Foreground mode a call has claimed is over with the last ongoing call.  *)
THEOREM ForegroundEnds == NotifSpec => []CallForegroundEnds
<1>1. ForegroundInv => CallForegroundEnds
  BY DEF ForegroundInv, CallForegroundEnds
<1>. QED BY <1>1, ForegroundBegins, ForegroundKeeps, PTL DEF NotifSpec

(* Calls that come and go leave the foreground mode of the app as it is.   *)
THEOREM AppKeepsForeground == NotifSpec => AppForegroundKept
<1>1. ASSUME fgMode, ~fgByCall, Deliver PROVE fgMode' /\ ~fgByCall'
  <2>. SUFFICES ASSUME NEW c, OnIncoming(c) \/ OnConnected(c) \/ OnTerminated(c)
               PROVE  fgMode' /\ ~fgByCall'
    BY <1>1 DEF Deliver
  <2>. QED BY <1>1 DEF OnIncoming, OnConnected, OnTerminated, StartForeground,
                       ForegroundAfter, foreground
<1>2. [NotifNext]_nvars => [fgMode /\ ~fgByCall /\ Deliver => fgMode' /\ ~fgByCall']_nvars
  BY <1>1
<1>. QED BY <1>2, PTL DEF NotifSpec, AppForegroundKept

-----------------------------------------------------------------------------
(* ServiceTrue.  What the service has not heard yet is in the blocks under *)
(* way; the invariant says of every state that is out of date, and of      *)
(* every block that will make it so, which later block puts it right.      *)

EndsAfter(i, c) ==
  \E j \in DOMAIN blocks : j > i /\ blocks[j] = Block("terminated", c)
QuietAfter(i) ==
  \E j \in DOMAIN blocks : j > i /\ blocks[j].kind \in {"connected", "terminated"}

BlocksOK ==
  /\ leg \in [NotifCalls -> {"none", "dialled", "ringing", "up", "gone"}]
  /\ blocks \in Seq(Blocks)
  /\ notif \in [NotifCalls -> {"none", "incoming", "ongoing"}]
  /\ ongoingCalls \subseteq NotifCalls

(* A block tells what the call has been through.                           *)
BlocksTrue ==
  \A i \in DOMAIN blocks : LET l == leg[blocks[i].call] IN
    /\ blocks[i].kind = "incoming"   => l \in {"ringing", "up", "gone"}
    /\ blocks[i].kind = "connected"  => l \in {"up", "gone"}
    /\ blocks[i].kind = "terminated" => l = "gone"

(* The end of a call comes behind everything else that is told of it.      *)
EndsTold ==
  /\ \A c \in NotifCalls :
       leg[c] = "gone" /\ (c \in ongoingCalls \/ notif[c] # "none") => EndsAfter(0, c)
  /\ \A c \in NotifCalls, i \in DOMAIN blocks :
       leg[c] = "gone" /\ blocks[i].call = c /\ blocks[i].kind # "terminated"
         => EndsAfter(i, c)

OngoingTold ==
  /\ \A c \in NotifCalls : leg[c] = "up" =>
       c \in ongoingCalls \/ \E j \in DOMAIN blocks : blocks[j] = Block("connected", c)
  /\ \A c \in ongoingCalls : leg[c] \in {"up", "gone"}
  /\ \A c \in NotifCalls : notif[c] # "none" => leg[c] # "none"

RingerTold ==
  /\ ringer => QuietAfter(0) \/ \E c \in NotifCalls : leg[c] = "ringing"
  /\ \A i \in DOMAIN blocks : blocks[i].kind = "incoming" =>
       leg[blocks[i].call] = "ringing" \/ QuietAfter(i)

ServiceInv == BlocksOK /\ BlocksTrue /\ EndsTold /\ OngoingTold /\ RingerTold

LEMMA ServiceBegins == NotifInit => ServiceInv
<1>. SUFFICES ASSUME NotifInit PROVE ServiceInv
  OBVIOUS
<1>1. BlocksOK
  BY DEF NotifInit, BlocksOK
<1>. QED
  BY <1>1 DEF NotifInit, ServiceInv, BlocksTrue, EndsTold, OngoingTold, RingerTold

(* Steps of activity and Dart: nothing of this changes, except that a      *)
(* notification may go.                                                    *)
LEMMA FrameService ==
  ASSUME ServiceInv, UNCHANGED <<leg, blocks, ringer, ongoingCalls>>,
         notif' \in [NotifCalls -> {"none", "incoming", "ongoing"}],
         \A c \in NotifCalls : notif'[c] \in {"none", notif[c]}
  PROVE  ServiceInv'
  BY DEF ServiceInv, BlocksOK, BlocksTrue, EndsTold, OngoingTold, RingerTold, EndsAfter,
         QuietAfter

(* A call changes, and the block that tells of it is posted.               *)
LEMMA LegKeeps ==
  ASSUME ServiceInv, NEW c \in NotifCalls, NEW to, NEW kind,
         \/ kind = "incoming" /\ leg[c] = "none" /\ to = "ringing"
         \/ kind = "connected" /\ leg[c] \in {"dialled", "ringing"} /\ to = "up"
         \/ kind = "terminated" /\ leg[c] # "none" /\ to = "gone",
         leg' = [leg EXCEPT ![c] = to], blocks' = Append(blocks, Block(kind, c)),
         UNCHANGED <<ringer, ongoingCalls>>,
         notif' \in [NotifCalls -> {"none", "incoming", "ongoing"}],
         \A d \in NotifCalls : notif'[d] \in {"none", notif[d]}
  PROVE  ServiceInv'
<1>. DEFINE e == Block(kind, c)
            n == Len(blocks) + 1
<1>1. e \in Blocks /\ e.kind = kind /\ e.call = c
  BY DEF Block, Blocks
<1>2. blocks \in Seq(Blocks) /\ blocks' = Append(blocks, e)
  BY DEF ServiceInv, BlocksOK
<1>3. /\ n \in DOMAIN blocks' /\ blocks'[n] = e
      /\ \A i \in DOMAIN blocks :
           i \in DOMAIN blocks' /\ blocks'[i] = blocks[i] /\ n > i
      /\ \A i \in DOMAIN blocks' : i \in DOMAIN blocks \/ i = n
      /\ n > 0
  <2>. HIDE DEF e
  <2>. QED BY <1>1, <1>2
<1>4. /\ leg'[c] = to
      /\ \A d \in NotifCalls : d # c => leg'[d] = leg[d]
      /\ \A i \in DOMAIN blocks : blocks[i].call \in NotifCalls
  <2>1. \A i \in DOMAIN blocks : blocks[i] \in Blocks
    BY <1>2
  <2>. QED BY <2>1 DEF ServiceInv, BlocksOK, Blocks
<1>5. /\ \A i, d : EndsAfter(i, d) => EndsAfter(i, d)'
      /\ \A i : QuietAfter(i) => QuietAfter(i)'
  BY <1>3 DEF EndsAfter, QuietAfter
<1>6. kind = "terminated" => EndsAfter(0, c)'
                             /\ \A i \in DOMAIN blocks : EndsAfter(i, c)'
  BY <1>3 DEF EndsAfter
<1>7. kind \in {"connected", "terminated"} =>
        QuietAfter(0)' /\ \A i \in DOMAIN blocks : QuietAfter(i)'
  BY <1>1, <1>3 DEF QuietAfter
<1>8. BlocksOK'
  <2>1. blocks' \in Seq(Blocks)
    <3>. HIDE DEF e
    <3>. QED BY <1>1, <1>2
  <2>. QED BY <2>1 DEF ServiceInv, BlocksOK
<1>. HIDE DEF e, n
<1>9. BlocksTrue'
  <2>1. ASSUME NEW i \in DOMAIN blocks'
        PROVE  /\ blocks'[i].kind = "incoming"   => leg'[blocks'[i].call] \in {"ringing", "up", "gone"}
               /\ blocks'[i].kind = "connected"  => leg'[blocks'[i].call] \in {"up", "gone"}
               /\ blocks'[i].kind = "terminated" => leg'[blocks'[i].call] = "gone"
    <3>1. CASE i = n
      BY <1>1, <1>3, <1>4, <3>1
    <3>2. CASE i \in DOMAIN blocks
      BY <1>3, <1>4, <3>2 DEF ServiceInv, BlocksTrue
    <3>. QED BY <1>3, <3>1, <3>2
  <2>. QED BY <2>1 DEF BlocksTrue
<1>10. EndsTold'
  <2>1. ASSUME NEW d \in NotifCalls, leg'[d] = "gone",
              d \in ongoingCalls \/ notif'[d] # "none"
        PROVE  EndsAfter(0, d)'
    BY <1>4, <1>5, <1>6, <2>1 DEF ServiceInv, EndsTold
  <2>2. ASSUME NEW d \in NotifCalls, NEW i \in DOMAIN blocks', leg'[d] = "gone",
              blocks'[i].call = d, blocks'[i].kind # "terminated"
        PROVE  EndsAfter(i, d)'
    <3>1. i \in DOMAIN blocks /\ blocks'[i] = blocks[i]
      BY <1>1, <1>3, <1>4, <2>2
    <3>2. CASE d = c
      BY <1>4, <1>6, <2>2, <3>1, <3>2
    <3>3. CASE d # c
      BY <1>4, <1>5, <2>2, <3>1, <3>3 DEF ServiceInv, EndsTold
    <3>. QED BY <3>2, <3>3
  <2>. QED BY <2>1, <2>2 DEF EndsTold
<1>11. OngoingTold'
  <2>1. ASSUME NEW d \in NotifCalls, leg'[d] = "up"
        PROVE  d \in ongoingCalls
               \/ \E j \in DOMAIN blocks' : blocks'[j] = Block("connected", d)
    BY <1>3, <1>4, <2>1 DEF ServiceInv, OngoingTold, e
  <2>2. \A d \in ongoingCalls : leg'[d] \in {"up", "gone"}
    BY <1>4 DEF ServiceInv, OngoingTold, BlocksOK
  <2>3. \A d \in NotifCalls : notif'[d] # "none" => leg'[d] # "none"
    BY <1>4 DEF ServiceInv, OngoingTold
  <2>. QED BY <2>1, <2>2, <2>3 DEF OngoingTold
<1>12. RingerTold'
  <2>1. ringer => QuietAfter(0)' \/ \E d \in NotifCalls : leg'[d] = "ringing"
    BY <1>4, <1>5, <1>7 DEF ServiceInv, RingerTold
  <2>2. ASSUME NEW i \in DOMAIN blocks', blocks'[i].kind = "incoming"
        PROVE  leg'[blocks'[i].call] = "ringing" \/ QuietAfter(i)'
    <3>1. CASE i = n
      BY <1>1, <1>3, <1>4, <2>2, <3>1
    <3>2. CASE i \in DOMAIN blocks
      BY <1>3, <1>4, <1>5, <1>7, <2>2, <3>2 DEF ServiceInv, RingerTold
    <3>. QED BY <1>3, <3>1, <3>2
  <2>. QED BY <2>1, <2>2 DEF RingerTold
<1>. QED BY <1>8, <1>9, <1>10, <1>11, <1>12 DEF ServiceInv

(* A block is taken: the state it makes out of date, if any, is put right  *)
(* by a block behind it.                                                   *)
LEMMA DeliverService ==
  ASSUME ServiceInv, Deliver
  PROVE  ServiceInv'
<1>. DEFINE b == Head(blocks)
<1>1. /\ blocks # <<>> /\ blocks' = Tail(blocks) /\ leg' = leg
      /\ \/ b.kind = "incoming"   /\ OnIncoming(b.call)
         \/ b.kind = "connected"  /\ OnConnected(b.call)
         \/ b.kind = "terminated" /\ OnTerminated(b.call)
  BY DEF Deliver
<1>2. blocks \in Seq(Blocks)
  BY DEF ServiceInv, BlocksOK
<1>3. /\ b = blocks[1] /\ 1 \in DOMAIN blocks /\ b \in Blocks
      /\ \A j \in DOMAIN blocks : j \in Nat
      /\ \A j \in DOMAIN blocks : j > 1 =>
           j - 1 \in DOMAIN blocks' /\ blocks'[j - 1] = blocks[j]
      /\ \A i \in DOMAIN blocks' :
           i \in Nat /\ i + 1 \in DOMAIN blocks /\ blocks'[i] = blocks[i + 1]
  BY <1>1, <1>2
<1>4. b.call \in NotifCalls /\ b = Block(b.kind, b.call)
  BY <1>3 DEF Blocks, Block
<1>. HIDE DEF b
<1>5. /\ \A i \in Nat : \A d : EndsAfter(i + 1, d) => EndsAfter(i, d)'
      /\ \A i \in Nat : QuietAfter(i + 1) => QuietAfter(i)'
  <2>1. ASSUME NEW i \in Nat, NEW j \in DOMAIN blocks, j > i + 1
        PROVE  j - 1 \in DOMAIN blocks' /\ blocks'[j - 1] = blocks[j] /\ j - 1 > i
    BY <1>3, <2>1
  <2>2. ASSUME NEW i \in Nat, NEW d, EndsAfter(i + 1, d) PROVE EndsAfter(i, d)'
    BY <2>1, <2>2 DEF EndsAfter
  <2>3. ASSUME NEW i \in Nat, QuietAfter(i + 1) PROVE QuietAfter(i)'
    BY <2>1, <2>3 DEF QuietAfter
  <2>. QED BY <2>2, <2>3
<1>6. \A d : EndsAfter(1, d) => EndsAfter(0, d)'
  <2>1. ASSUME NEW d, EndsAfter(0 + 1, d) PROVE EndsAfter(0, d)'
    BY <1>5, <2>1
  <2>2. 0 + 1 = 1
    OBVIOUS
  <2>. QED BY <2>1, <2>2
<1>7. \A d : EndsAfter(0, d) /\ b # Block("terminated", d) => EndsAfter(0, d)'
  <2>1. ASSUME NEW d, EndsAfter(0, d), b # Block("terminated", d)
        PROVE  EndsAfter(0 + 1, d)
    BY <1>3, <2>1 DEF EndsAfter
  <2>. QED BY <1>5, <2>1
<1>8. BlocksOK'
  <2>1. blocks' \in Seq(Blocks)
    BY <1>1, <1>2
  <2>2. /\ notif' \in [NotifCalls -> {"none", "incoming", "ongoing"}]
        /\ ongoingCalls' \subseteq NotifCalls
    BY <1>1, <1>4 DEF OnIncoming, OnConnected, OnTerminated, ServiceInv, BlocksOK
  <2>. QED BY <1>1, <2>1, <2>2 DEF ServiceInv, BlocksOK
<1>9. BlocksTrue'
  BY <1>1, <1>3 DEF ServiceInv, BlocksTrue
<1>10. EndsTold'
  <2>1. ASSUME NEW d \in NotifCalls, leg[d] = "gone",
              d \in ongoingCalls' \/ notif'[d] # "none"
        PROVE  EndsAfter(0, d)'
    <3>1. CASE d = b.call
      <4>1. b.kind # "terminated"
        BY <1>1, <2>1, <3>1
        DEF OnTerminated, ServiceInv, BlocksOK
      <4>2. EndsAfter(1, d)
        BY <1>3, <2>1, <3>1, <4>1 DEF ServiceInv, EndsTold
      <4>. QED BY <1>6, <4>2
    <3>2. CASE d # b.call
      <4>1. d \in ongoingCalls \/ notif[d] # "none"
        BY <1>1, <2>1, <3>2
        DEF OnIncoming, OnConnected, OnTerminated, ServiceInv, BlocksOK
      <4>2. b # Block("terminated", d)
        BY <3>2 DEF Block
      <4>. QED BY <1>7, <2>1, <4>1, <4>2 DEF ServiceInv, EndsTold
    <3>. QED BY <3>1, <3>2
  <2>2. ASSUME NEW d \in NotifCalls, NEW i \in DOMAIN blocks', leg[d] = "gone",
              blocks'[i].call = d, blocks'[i].kind # "terminated"
        PROVE  EndsAfter(i, d)'
    <3>1. EndsAfter(i + 1, d)
      BY <1>3, <2>2 DEF ServiceInv, EndsTold
    <3>. QED BY <1>3, <1>5, <3>1
  <2>. QED BY <1>1, <2>1, <2>2 DEF EndsTold
<1>11. OngoingTold'
  <2>1. ASSUME NEW d \in NotifCalls, leg[d] = "up"
        PROVE  d \in ongoingCalls'
               \/ \E j \in DOMAIN blocks' : blocks'[j] = Block("connected", d)
    <3>1. CASE d \in ongoingCalls
      <4>1. b.kind = "terminated" => b.call # d
        BY <1>3, <2>1 DEF ServiceInv, BlocksTrue
      <4>. QED BY <1>1, <3>1, <4>1 DEF OnIncoming, OnConnected, OnTerminated
    <3>2. CASE d \notin ongoingCalls
      <4>1. PICK j \in DOMAIN blocks : blocks[j] = Block("connected", d)
        BY <2>1, <3>2 DEF ServiceInv, OngoingTold
      <4>2. CASE j = 1
        <5>1. b.kind = "connected" /\ b.call = d
          BY <1>3, <4>1, <4>2 DEF Block
        <5>. QED BY <1>1, <5>1 DEF OnConnected
      <4>3. CASE j > 1
        BY <1>3, <4>1, <4>3
      <4>4. j = 1 \/ j > 1
        BY <1>2
      <4>. QED BY <4>2, <4>3, <4>4
    <3>. QED BY <3>1, <3>2
  <2>2. \A d \in ongoingCalls' : leg[d] \in {"up", "gone"}
    BY <1>1, <1>3
    DEF OnIncoming, OnConnected, OnTerminated, ServiceInv, OngoingTold, BlocksTrue
  <2>3. leg[b.call] # "none"
    BY <1>1, <1>3 DEF ServiceInv, BlocksTrue
  <2>4. \A d \in NotifCalls : notif'[d] # "none" => d = b.call \/ notif[d] # "none"
    BY <1>1 DEF OnIncoming, OnConnected, OnTerminated, ServiceInv, BlocksOK
  <2>5. \A d \in NotifCalls : notif'[d] # "none" => leg[d] # "none"
    BY <2>3, <2>4 DEF ServiceInv, OngoingTold
  <2>. QED BY <1>1, <2>1, <2>2, <2>5 DEF OngoingTold
<1>12. RingerTold'
  <2>1. ringer' => QuietAfter(0)' \/ \E d \in NotifCalls : leg[d] = "ringing"
    <3>1. CASE b.kind = "incoming"
      <4>1. leg[b.call] = "ringing" \/ QuietAfter(0 + 1)
        BY <1>3, <3>1 DEF ServiceInv, RingerTold
      <4>. QED BY <1>4, <1>5, <4>1
    <3>2. CASE b.kind # "incoming"
      BY <1>1, <3>2 DEF OnConnected, OnTerminated
    <3>. QED BY <3>1, <3>2
  <2>2. ASSUME NEW i \in DOMAIN blocks', blocks'[i].kind = "incoming"
        PROVE  leg[blocks'[i].call] = "ringing" \/ QuietAfter(i)'
    BY <1>3, <1>5, <2>2 DEF ServiceInv, RingerTold
  <2>. QED BY <1>1, <2>1, <2>2 DEF RingerTold
<1>. QED BY <1>8, <1>9, <1>10, <1>11, <1>12 DEF ServiceInv

LEMMA ServiceKeeps == ServiceInv /\ [NotifNext]_nvars => ServiceInv'
<1>. SUFFICES ASSUME ServiceInv, [NotifNext]_nvars PROVE ServiceInv'
  OBVIOUS
<1>0. notif \in [NotifCalls -> {"none", "incoming", "ongoing"}]
      /\ leg \in [NotifCalls -> {"none", "dialled", "ringing", "up", "gone"}]
  BY DEF ServiceInv, BlocksOK
<1>1. CASE Deliver
  BY <1>1, DeliverService
<1>2. ASSUME NEW c \in NotifCalls, Rings(c) \/ Answers(c) \/ Finishes(c)
                                    \/ HangupTapped(c)
      PROVE  ServiceInv'
  BY <1>0, <1>2, LegKeeps
  DEF Rings, Answers, Finishes, HangupTapped, LegChanges, Exists, service
<1>3. ASSUME NEW c \in NotifCalls, RejectTapped(c) PROVE ServiceInv'
  <2>1. /\ notif' \in [NotifCalls -> {"none", "incoming", "ongoing"}]
        /\ \A d \in NotifCalls : notif'[d] \in {"none", notif[d]}
        /\ UNCHANGED <<ringer, ongoingCalls>>
    BY <1>0, <1>3 DEF RejectTapped
  <2>2. CASE Exists(c)
    BY <1>3, <2>1, <2>2, LegKeeps DEF RejectTapped, Exists
  <2>3. CASE ~Exists(c)
    BY <1>3, <2>1, <2>3, FrameService DEF RejectTapped
  <2>. QED BY <2>2, <2>3
<1>4. ASSUME NEW c \in NotifCalls, Dials(c) PROVE ServiceInv'
  <2>1. /\ leg[c] = "none" /\ leg' = [leg EXCEPT ![c] = "dialled"]
        /\ UNCHANGED <<blocks, ringer, notif, ongoingCalls>>
    BY <1>4 DEF Dials, service
  <2>2. \A i \in DOMAIN blocks : blocks[i] \in Blocks
    BY DEF ServiceInv, BlocksOK
  <2>3. \A i \in DOMAIN blocks : blocks[i].call \in NotifCalls \ {c}
    BY <2>1, <2>2 DEF ServiceInv, BlocksTrue, Blocks
  <2>4. \A d \in NotifCalls : leg'[d] = IF d = c THEN "dialled" ELSE leg[d]
    BY <1>0, <2>1
  <2>5. BlocksOK'
    BY <1>0, <2>1 DEF ServiceInv, BlocksOK
  <2>6. BlocksTrue' /\ EndsTold'
    BY <2>1, <2>3, <2>4 DEF ServiceInv, BlocksTrue, EndsTold, EndsAfter
  <2>7. OngoingTold'
    BY <2>1, <2>4 DEF ServiceInv, BlocksOK, OngoingTold
  <2>8. RingerTold'
    BY <2>1, <2>3, <2>4 DEF ServiceInv, RingerTold, QuietAfter
  <2>. QED BY <2>5, <2>6, <2>7, <2>8 DEF ServiceInv
<1>5. CASE Created
  BY <1>0, <1>5, FrameService DEF Created
<1>5a. ASSUME NEW c \in NotifCalls, NewIntent(c) PROVE ServiceInv'
  <2>1. /\ notif' \in [NotifCalls -> {"none", "incoming", "ongoing"}]
        /\ \A d \in NotifCalls : notif'[d] \in {"none", notif[d]}
        /\ UNCHANGED <<leg, blocks, ringer, ongoingCalls>>
    BY <1>0, <1>5a DEF NewIntent
  <2>. QED BY <2>1, FrameService
<1>6. CASE \/ \E on \in BOOLEAN : SetForeground(on)
           \/ Inactive \/ InFrontAgain \/ SyncCallsState \/ Destroyed \/ Models
           \/ UNCHANGED nvars
  <2>1. UNCHANGED <<leg, blocks, ringer, notif, ongoingCalls>>
    BY <1>6
    DEF SetForeground, Inactive, InFrontAgain, SyncCallsState, Destroyed, Models, nvars,
        service
  <2>. QED BY <1>0, <2>1, FrameService
<1>. QED BY <1>1, <1>2, <1>3, <1>4, <1>5, <1>5a, <1>6 DEF NotifNext

(* Once it has heard of everything the service rings only for a call that  *)
(* rings, and its ongoing calls and notifications are those of the engine, *)
(* for any calls and whether or not there was an activity.                 *)
THEOREM ServiceAgrees == NotifSpec => []ServiceTrue
<1>1. ServiceInv => ServiceTrue
  <2>. SUFFICES ASSUME ServiceInv, NotifRest PROVE
         /\ ringer => \E c \in NotifCalls : leg[c] = "ringing"
         /\ ongoingCalls = {c \in NotifCalls : leg[c] = "up"}
         /\ \A c \in NotifCalls : notif[c] # "none" => Exists(c)
    BY DEF ServiceTrue
  <2>1. blocks = <<>>
    <3>1. blocks \o toModels = <<>> /\ blocks \in Seq(Blocks)
      BY DEF NotifRest, ServiceInv, BlocksOK
    <3>. QED BY <3>1
  <2>2. ~QuietAfter(0) /\ \A c : ~EndsAfter(0, c)
    BY <2>1 DEF QuietAfter, EndsAfter
  <2>. QED
    BY <2>1, <2>2
    DEF ServiceInv, BlocksOK, EndsTold, OngoingTold, RingerTold, Exists
<1>. QED BY <1>1, ServiceBegins, ServiceKeeps, PTL DEF NotifSpec

-----------------------------------------------------------------------------
(* NoGhostRestored.  A call that the service has saved, or Dart shows or   *)
(* will be told of, is alive, or the block that tells of its end is still  *)
(* to be delivered, or behind it Dart will be told.                        *)

Lives(c) == leg[c] # "none" /\ (leg[c] = "gone" => EndsAfter(0, c))

EndTold(i, c) ==
  \E j \in DOMAIN toModels :
    j > i /\ toModels[j].kind = "terminated" /\ c \in toModels[j].calls

ModelsOK ==
  /\ toModels \in Seq(ToldNotes) /\ syncs \in Seq(SUBSET NotifCalls)
  /\ saved \subseteq NotifCalls /\ shownCalls \subseteq NotifCalls

RestoreInv ==
  /\ ModelsOK
  /\ ~attached => shownCalls = {} /\ toModels = <<>>
  /\ \A c \in saved : Lives(c)
  /\ \A k \in DOMAIN syncs : \A c \in syncs[k] : Lives(c)
  /\ \A c \in shownCalls : Lives(c) \/ EndTold(0, c)
  /\ \A i \in DOMAIN toModels : toModels[i].kind # "terminated" =>
       \A c \in toModels[i].calls : Lives(c) \/ EndTold(i, c)

LEMMA EndsPosted ==
  ASSUME ServiceInv, NEW e \in Blocks, blocks' = Append(blocks, e)
  PROVE  /\ \A d : EndsAfter(0, d) => EndsAfter(0, d)'
         /\ \A d : e = Block("terminated", d) => EndsAfter(0, d)'
<1>1. blocks \in Seq(Blocks)
  BY DEF ServiceInv, BlocksOK
<1>2. /\ Len(blocks) + 1 \in DOMAIN blocks' /\ blocks'[Len(blocks) + 1] = e
      /\ \A i \in DOMAIN blocks : i \in DOMAIN blocks' /\ blocks'[i] = blocks[i]
      /\ Len(blocks) + 1 > 0
  BY <1>1
<1>. QED BY <1>2 DEF EndsAfter

LEMMA EndsTaken ==
  ASSUME ServiceInv, blocks # <<>>, blocks' = Tail(blocks)
  PROVE  /\ \A d : EndsAfter(0, d) => EndsAfter(0, d)' \/ Head(blocks) = Block("terminated", d)
         /\ \A d : EndsAfter(1, d) => EndsAfter(0, d)'
<1>1. blocks \in Seq(Blocks)
  BY DEF ServiceInv, BlocksOK
<1>2. /\ \A j \in DOMAIN blocks : j > 1 =>
           j - 1 \in DOMAIN blocks' /\ blocks'[j - 1] = blocks[j] /\ j - 1 > 0
      /\ \A j \in DOMAIN blocks : j = 1 \/ j > 1
      /\ Head(blocks) = blocks[1]
  BY <1>1
<1>. QED BY <1>2 DEF EndsAfter

(* What the engine does to a call keeps it known, and tells of its end.    *)
LEMMA LivesOn ==
  ASSUME ServiceInv, [NotifNext]_nvars, ~Deliver, NEW c \in NotifCalls, Lives(c)
  PROVE  Lives(c)'
<1>. USE DEF service, activity, foreground
<1>0. leg \in [NotifCalls -> {"none", "dialled", "ringing", "up", "gone"}]
  BY DEF ServiceInv, BlocksOK
<1>1. CASE UNCHANGED <<leg, blocks>>
  BY <1>1 DEF Lives, EndsAfter
<1>2. ASSUME NEW d \in NotifCalls, NEW to \in {"ringing", "up", "gone"},
            NEW kind \in {"incoming", "connected", "terminated"},
            to = "gone" => kind = "terminated", leg[d] # "gone",
            leg' = [leg EXCEPT ![d] = to], blocks' = Append(blocks, Block(kind, d))
      PROVE  Lives(c)'
  <2>1. Block(kind, d) \in Blocks
    BY DEF Block, Blocks
  <2>2. /\ EndsAfter(0, c) => EndsAfter(0, c)'
        /\ to = "gone" => EndsAfter(0, d)'
    BY <1>2, <2>1, EndsPosted
  <2>3. leg'[c] = IF c = d THEN to ELSE leg[c]
    BY <1>0, <1>2
  <2>. QED BY <2>2, <2>3 DEF Lives
<1>3. ASSUME NEW d \in NotifCalls, Dials(d) PROVE Lives(c)'
  <2>1. leg'[c] = leg[c] /\ blocks' = blocks
    BY <1>0, <1>3 DEF Dials, Lives
  <2>. QED BY <2>1 DEF Lives, EndsAfter
<1>4. ASSUME NEW d \in NotifCalls,
            Rings(d) \/ Answers(d) \/ Finishes(d) \/ RejectTapped(d) \/ HangupTapped(d)
      PROVE  Lives(c)'
  <2>1. CASE Rings(d)
    BY <1>2, <2>1 DEF Rings, LegChanges
  <2>2. CASE Answers(d)
    BY <1>2, <2>2 DEF Answers, LegChanges
  <2>3. CASE Finishes(d)
    BY <1>2, <2>3 DEF Finishes, LegChanges, Exists
  <2>4. CASE RejectTapped(d)
    BY <1>1, <1>2, <2>4 DEF RejectTapped, Exists
  <2>5. CASE HangupTapped(d)
    BY <1>2, <2>5 DEF HangupTapped, LegChanges, Exists
  <2>. QED BY <1>4, <2>1, <2>2, <2>3, <2>4, <2>5
<1>5. ASSUME \/ \E on \in BOOLEAN : SetForeground(on)
             \/ Inactive \/ InFrontAgain \/ SyncCallsState \/ Destroyed \/ Created
             \/ Models \/ UNCHANGED nvars
             \/ \E d \in NotifCalls : NewIntent(d)
      PROVE  UNCHANGED <<leg, blocks>>
  BY <1>5
  DEF SetForeground, Inactive, InFrontAgain, SyncCallsState, Destroyed, Created, Models,
      NewIntent, nvars
<1>. QED BY <1>1, <1>3, <1>4, <1>5 DEF NotifNext

(* Steps that tell Dart nothing and save nothing.                          *)
LEMMA FrameRestore ==
  ASSUME RestoreInv, UNCHANGED <<attached, toModels, syncs, saved, shownCalls>>,
         \A c \in NotifCalls : Lives(c) => Lives(c)'
  PROVE  RestoreInv'
<1>1. /\ \A i \in DOMAIN toModels : toModels[i].calls \subseteq NotifCalls
      /\ \A k \in DOMAIN syncs : syncs[k] \subseteq NotifCalls
      /\ saved \subseteq NotifCalls /\ shownCalls \subseteq NotifCalls
  <2>1. /\ \A i \in DOMAIN toModels : toModels[i] \in ToldNotes
        /\ \A k \in DOMAIN syncs : syncs[k] \in SUBSET NotifCalls
    BY DEF RestoreInv, ModelsOK
  <2>. QED BY <2>1 DEF RestoreInv, ModelsOK, ToldNotes
<1>. QED BY <1>1 DEF RestoreInv, ModelsOK, EndTold

(* A block is delivered: Dart, when there is any, hears of the end that    *)
(* the service has heard of.  No calls are being saved meanwhile.          *)
LEMMA DeliverRestore ==
  ASSUME ~SyncCrosses, ServiceInv, RestoreInv, Deliver
  PROVE  RestoreInv'
<1>0. /\ blocks # <<>> /\ blocks \in Seq(Blocks) /\ toModels \in Seq(ToldNotes)
  BY DEF Deliver, ServiceInv, BlocksOK, RestoreInv, ModelsOK
<1>2. PICK b \in Blocks : b = Head(blocks) /\ b = blocks[1] /\ 1 \in DOMAIN blocks
  BY <1>0
<1>. DEFINE e == Told(b.kind, {b.call})
            n == Len(toModels) + 1
<1>1. /\ blocks' = Tail(blocks) /\ syncs = <<>> /\ syncs' = <<>>
      /\ UNCHANGED <<leg, attached, shownCalls>>
      /\ toModels' = IF attached /\ b.kind # "connected"
                     THEN Append(toModels, e) ELSE toModels
      /\ saved' = IF b.kind = "terminated" THEN saved \ {b.call} ELSE saved
  BY <1>2 DEF Deliver, OnIncoming, OnConnected, OnTerminated
<1>3. /\ b.call \in NotifCalls /\ b = Block(b.kind, b.call)
      /\ b.kind \in {"incoming", "connected", "terminated"}
  BY DEF Blocks, Block
<1>4. /\ e.kind = b.kind /\ e.calls = {b.call}
      /\ b.kind # "connected" => e \in ToldNotes
  BY <1>3 DEF Told, ToldNotes
<1>. HIDE DEF e
<1>5. \A c : Lives(c) => Lives(c)' \/ b = Block("terminated", c)
  BY <1>0, <1>1, <1>2, EndsTaken DEF Lives
<1>6. b.kind = "incoming" => Lives(b.call)'
  <2>1. b.kind = "incoming" => leg[b.call] # "none"
    BY <1>2 DEF ServiceInv, BlocksTrue
  <2>2. b.kind = "incoming" /\ leg[b.call] = "gone" => EndsAfter(1, b.call)
    BY <1>2, <1>3 DEF ServiceInv, EndsTold
  <2>. QED BY <1>0, <1>1, <2>1, <2>2, EndsTaken DEF Lives
<1>7. \A c : b = Block("terminated", c) => b.kind = "terminated" /\ b.call = c
  BY DEF Block
<1>8. CASE attached /\ b.kind # "connected"
  <2>1. /\ toModels' = Append(toModels, e) /\ e \in ToldNotes
    BY <1>1, <1>4, <1>8
  <2>2. /\ toModels' \in Seq(ToldNotes) /\ n \in DOMAIN toModels' /\ toModels'[n] = e
        /\ \A i \in DOMAIN toModels : /\ i \in DOMAIN toModels' /\ n > i
                                      /\ toModels'[i] = toModels[i]
        /\ \A i \in DOMAIN toModels' : i \in DOMAIN toModels \/ i = n
        /\ n > 0
    BY <1>0, <2>1
  <2>. HIDE DEF n
  <2>3. \A i, c : EndTold(i, c) => EndTold(i, c)'
    BY <2>2 DEF EndTold
  <2>4. \A c : Lives(c) => \/ Lives(c)'
                           \/ /\ EndTold(0, c)'
                              /\ \A i \in DOMAIN toModels : EndTold(i, c)'
    BY <1>4, <1>5, <1>7, <2>2 DEF EndTold
  <2>5. \A c \in saved' : Lives(c)'
    BY <1>1, <1>5, <1>7 DEF RestoreInv
  <2>6. \A c \in shownCalls : Lives(c)' \/ EndTold(0, c)'
    BY <2>3, <2>4 DEF RestoreInv
  <2>7. ASSUME NEW i \in DOMAIN toModels', toModels'[i].kind # "terminated",
              NEW c \in toModels'[i].calls
        PROVE  Lives(c)' \/ EndTold(i, c)'
    <3>1. CASE i \in DOMAIN toModels
      BY <2>2, <2>3, <2>4, <2>7, <3>1 DEF RestoreInv
    <3>2. CASE i = n
      BY <1>3, <1>4, <1>6, <1>8, <2>2, <2>7, <3>2
    <3>. QED BY <2>2, <3>1, <3>2
  <2>. QED BY <1>1, <1>8, <2>2, <2>5, <2>6, <2>7 DEF RestoreInv, ModelsOK
<1>9. CASE ~attached
  BY <1>1, <1>5, <1>7, <1>9 DEF RestoreInv, ModelsOK
<1>10. CASE b.kind = "connected"
  <2>1. \A c : Lives(c) => Lives(c)'
    BY <1>5, <1>7, <1>10
  <2>. QED BY <1>1, <1>10, <2>1, FrameRestore DEF RestoreInv
<1>. QED BY <1>8, <1>9, <1>10

(* Dart handles what it has been told.                                     *)
LEMMA ModelsRestore ==
  ASSUME ServiceInv, RestoreInv, Models
  PROVE  RestoreInv'
<1>0. toModels # <<>> /\ toModels \in Seq(ToldNotes)
  BY DEF Models, RestoreInv, ModelsOK
<1>2. PICK m \in ToldNotes : m = Head(toModels)
  BY <1>0
<1>1. /\ toModels' = Tail(toModels)
      /\ shownCalls' = IF m.kind = "terminated" THEN shownCalls \ m.calls
                       ELSE shownCalls \cup m.calls
      /\ UNCHANGED <<leg, blocks, saved, attached, syncs>>
  BY <1>2 DEF Models, service
<1>3. /\ m = toModels[1] /\ 1 \in DOMAIN toModels
      /\ toModels' \in Seq(ToldNotes)
      /\ \A j \in DOMAIN toModels : j > 1 =>
           /\ j - 1 \in DOMAIN toModels' /\ toModels'[j - 1] = toModels[j]
           /\ j - 1 > 0
      /\ \A j \in DOMAIN toModels : j = 1 \/ j > 1
      /\ \A i \in DOMAIN toModels' : /\ i + 1 \in DOMAIN toModels
                                     /\ toModels'[i] = toModels[i + 1]
                                     /\ i \in Nat /\ i + 1 > 1
      /\ DOMAIN toModels \subseteq Nat
  BY <1>0, <1>1, <1>2
<1>4. m.calls \subseteq NotifCalls
  BY <1>2 DEF ToldNotes
<1>5. \A c : Lives(c) => Lives(c)'
  BY <1>1 DEF Lives, EndsAfter
<1>6. \A c : EndTold(1, c) => EndTold(0, c)'
  BY <1>3 DEF EndTold
<1>7. \A c : EndTold(0, c) => \/ EndTold(0, c)'
                              \/ m.kind = "terminated" /\ c \in m.calls
  BY <1>3 DEF EndTold
<1>8. ASSUME NEW i \in DOMAIN toModels', NEW c, EndTold(i + 1, c)
      PROVE  EndTold(i, c)'
  <2>1. PICK j \in DOMAIN toModels :
          j > i + 1 /\ toModels[j].kind = "terminated" /\ c \in toModels[j].calls
    BY <1>8 DEF EndTold
  <2>2. j > 1 /\ j - 1 > i
    BY <1>3, <2>1
  <2>. QED BY <1>3, <2>1, <2>2 DEF EndTold
<1>9. ModelsOK'
  BY <1>1, <1>3, <1>4 DEF RestoreInv, ModelsOK
<1>10. \A c \in shownCalls' : Lives(c)' \/ EndTold(0, c)'
  <2>1. CASE m.kind = "terminated"
    BY <1>1, <1>5, <1>7, <2>1 DEF RestoreInv
  <2>2. CASE m.kind # "terminated"
    <3>1. \A c \in m.calls : Lives(c) \/ EndTold(1, c)
      BY <1>3, <2>2 DEF RestoreInv
    <3>. QED BY <1>1, <1>5, <1>6, <1>7, <2>2, <3>1 DEF RestoreInv
  <2>. QED BY <2>1, <2>2
<1>11. ASSUME NEW i \in DOMAIN toModels', toModels'[i].kind # "terminated",
             NEW c \in toModels'[i].calls
       PROVE  Lives(c)' \/ EndTold(i, c)'
  <2>1. Lives(c) \/ EndTold(i + 1, c)
    BY <1>3, <1>11 DEF RestoreInv
  <2>. QED BY <1>5, <1>8, <2>1
<1>12. attached
  BY <1>0 DEF RestoreInv
<1>. QED BY <1>1, <1>5, <1>9, <1>10, <1>11, <1>12 DEF RestoreInv

LEMMA JoinedPair ==
  ASSUME NEW S, NEW p \in Seq(S), NEW q \in Seq(S), Len(p) = 1, Len(q) = 1
  PROVE  p \o q \in Seq(S) /\ \A k \in DOMAIN (p \o q) : (p \o q)[k] \in {p[1], q[1]}
<1>1. Len(p \o q) = Len(p) + Len(q)
  OBVIOUS
<1>2. DOMAIN (p \o q) = 1..2 /\ p \o q \in Seq(S)
  BY <1>1
<1>3. (p \o q)[1] = p[1] /\ (p \o q)[1 + Len(p)] = q[1]
  OBVIOUS
<1>4. \A k \in 1..2 : k = 1 \/ k = 1 + Len(p)
  OBVIOUS
<1>. QED BY <1>2, <1>3, <1>4

LEMMA TwoMessages ==
  ASSUME NEW S, NEW a \in S, NEW b \in S
  PROVE  /\ <<a>> \o <<b>> \in Seq(S)
         /\ \A k \in DOMAIN (<<a>> \o <<b>>) : (<<a>> \o <<b>>)[k] \in {a, b}
<1>1. /\ <<a>> \in Seq(S) /\ Len(<<a>>) = 1 /\ <<a>>[1] = a
      /\ <<b>> \in Seq(S) /\ Len(<<b>>) = 1 /\ <<b>>[1] = b
  OBVIOUS
<1>2. PICK p \in Seq(S) : p = <<a>>
  BY <1>1
<1>3. PICK q \in Seq(S) : q = <<b>>
  BY <1>1
<1>4. Len(p) = 1 /\ p[1] = a /\ Len(q) = 1 /\ q[1] = b
  BY <1>1, <1>2, <1>3
<1>5. p \o q \in Seq(S) /\ \A k \in DOMAIN (p \o q) : (p \o q)[k] \in {p[1], q[1]}
  BY <1>4, JoinedPair
<1>. QED BY <1>2, <1>3, <1>4, <1>5

(* Saving, restoring and dialling.                                         *)
LEMMA ActivityRestore ==
  ASSUME ~SyncCrosses, ~StaleIntent, ServiceInv, RestoreInv,
         \A c \in NotifCalls : Lives(c) => Lives(c)',
         \/ Inactive \/ SyncCallsState \/ Destroyed \/ Created
         \/ \E c \in NotifCalls : Dials(c)
  PROVE  RestoreInv'
<1>. USE DEF service, foreground
<1>0. /\ toModels \in Seq(ToldNotes) /\ syncs \in Seq(SUBSET NotifCalls)
      /\ blocks \in Seq(Blocks)
      /\ saved \subseteq NotifCalls /\ shownCalls \subseteq NotifCalls
      /\ leg \in [NotifCalls -> {"none", "dialled", "ringing", "up", "gone"}]
  BY DEF ServiceInv, BlocksOK, RestoreInv, ModelsOK
<1>1. /\ \A i \in DOMAIN toModels : toModels[i] \in ToldNotes
      /\ \A i \in DOMAIN toModels : toModels[i].calls \subseteq NotifCalls
      /\ \A k \in DOMAIN syncs : syncs[k] \subseteq NotifCalls
  <2>1. /\ \A i \in DOMAIN toModels : toModels[i] \in ToldNotes
        /\ \A k \in DOMAIN syncs : syncs[k] \in SUBSET NotifCalls
    BY <1>0
  <2>. QED BY <2>1 DEF ToldNotes
<1>2. CASE Inactive
  <2>1. toModels = <<>>
    <3>1. blocks \o toModels = <<>>
      BY <1>2 DEF Inactive
    <3>. QED BY <1>0, <3>1
  <2>2. \A c \in shownCalls : Lives(c)
    BY <2>1 DEF RestoreInv, EndTold
  <2>3. /\ syncs' = Append(syncs, shownCalls)
        /\ UNCHANGED <<attached, toModels, saved, shownCalls>>
    BY <1>2 DEF Inactive
  <2>4. /\ syncs' \in Seq(SUBSET NotifCalls)
        /\ \A k \in DOMAIN syncs' : \/ k \in DOMAIN syncs /\ syncs'[k] = syncs[k]
                                    \/ syncs'[k] = shownCalls
    BY <1>0, <2>3
  <2>5. \A k \in DOMAIN syncs' : \A c \in syncs'[k] : Lives(c)'
    BY <1>0, <1>1, <2>2, <2>4 DEF RestoreInv
  <2>. QED BY <1>0, <2>1, <2>2, <2>3, <2>4, <2>5 DEF RestoreInv, ModelsOK
<1>3. CASE SyncCallsState
  <2>1. /\ syncs # <<>> /\ saved' = Head(syncs) /\ syncs' = Tail(syncs)
        /\ UNCHANGED <<attached, toModels, shownCalls>>
    BY <1>3 DEF SyncCallsState
  <2>2. /\ 1 \in DOMAIN syncs /\ saved' = syncs[1]
        /\ syncs' \in Seq(SUBSET NotifCalls)
        /\ \A k \in DOMAIN syncs' : k + 1 \in DOMAIN syncs /\ syncs'[k] = syncs[k + 1]
    BY <1>0, <2>1
  <2>3. \A c \in saved' : Lives(c)'
    BY <1>1, <2>2 DEF RestoreInv
  <2>4. \A k \in DOMAIN syncs' : \A c \in syncs'[k] : Lives(c)'
    BY <1>1, <2>2 DEF RestoreInv
  <2>5. \A c \in shownCalls : Lives(c)' \/ EndTold(0, c)'
    BY <1>0, <2>1 DEF RestoreInv, EndTold
  <2>6. \A i \in DOMAIN toModels : toModels[i].kind # "terminated" =>
          \A c \in toModels[i].calls : Lives(c)' \/ EndTold(i, c)'
    BY <1>1, <2>1 DEF RestoreInv, EndTold
  <2>7. ModelsOK'
    BY <1>0, <1>1, <2>1, <2>2 DEF ModelsOK
  <2>. QED BY <2>1, <2>3, <2>4, <2>5, <2>6, <2>7 DEF RestoreInv
<1>4. CASE Destroyed
  <2>1. /\ attached' = FALSE /\ toModels' = <<>> /\ shownCalls' = {}
        /\ UNCHANGED <<saved, syncs>>
    BY <1>4 DEF Destroyed
  <2>. QED BY <1>0, <1>1, <2>1 DEF RestoreInv, ModelsOK
<1>5. CASE Created
  <2>1. PICK i \in Intents :
          toModels' = <<Told("restore", saved)>>
                      \o (IF i = {} THEN <<>> ELSE <<Told("incoming", i)>>)
    BY <1>5 DEF Created
  <2>2. attached' /\ UNCHANGED <<leg, blocks, saved, syncs, shownCalls>> /\ shownCalls = {}
    BY <1>5 DEF Created, RestoreInv
  <2>3. /\ i \subseteq NotifCalls
        /\ \A c \in i : notif[c] = "incoming"
    BY DEF Intents
  <2>4. \A c \in i : Lives(c)
    BY <2>3 DEF ServiceInv, EndsTold, OngoingTold, Lives
  <2>5. /\ \A k \in DOMAIN toModels' : toModels'[k] \in {Told("restore", saved), Told("incoming", i)}
        /\ toModels' \in Seq(ToldNotes)
    <3>1. Told("restore", saved) \in ToldNotes /\ Told("incoming", i) \in ToldNotes
      BY <1>0, <2>3 DEF Told, ToldNotes
    <3>2. CASE i = {}
      <4>1. toModels' = <<Told("restore", saved)>>
        BY <2>1, <3>2
      <4>. QED BY <3>1, <4>1
    <3>3. CASE i # {}
      <4>1. toModels' = <<Told("restore", saved)>> \o <<Told("incoming", i)>>
        BY <2>1, <3>3
      <4>. QED BY <3>1, <4>1, TwoMessages
    <3>. QED BY <3>2, <3>3
  <2>6. \A k \in DOMAIN toModels' : \A c \in toModels'[k].calls : Lives(c)'
    <3>1. Told("restore", saved).calls = saved /\ Told("incoming", i).calls = i
      BY DEF Told
    <3>2. \A c \in saved : Lives(c)
      BY DEF RestoreInv
    <3>. QED BY <1>0, <2>3, <2>4, <2>5, <3>1, <3>2
  <2>. QED BY <1>0, <1>1, <2>2, <2>5, <2>6 DEF RestoreInv, ModelsOK
<1>6. ASSUME NEW d \in NotifCalls, Dials(d) PROVE RestoreInv'
  <2>1. /\ attached /\ leg' = [leg EXCEPT ![d] = "dialled"]
        /\ shownCalls' = shownCalls \cup {d}
        /\ UNCHANGED <<attached, toModels, syncs, saved>>
    BY <1>6 DEF Dials
  <2>2. Lives(d)'
    BY <1>0, <2>1 DEF Lives
  <2>3. \A i, c : EndTold(i, c)' <=> EndTold(i, c)
    BY <2>1 DEF EndTold
  <2>. QED BY <1>0, <1>1, <2>1, <2>2, <2>3 DEF RestoreInv, ModelsOK
<1>. QED BY <1>2, <1>3, <1>4, <1>5, <1>6

(* A tapped notification tells Dart of a call whose end is told later.     *)
LEMMA IntentRestore ==
  ASSUME ServiceInv, RestoreInv, NEW d \in NotifCalls, NewIntent(d)
  PROVE  RestoreInv'
<1>e. PICK e : e = Told("incoming", {d})
  OBVIOUS
<1>0. e \in ToldNotes /\ e.calls = {d}
  BY <1>e DEF Told, ToldNotes
<1>. DEFINE n == Len(toModels) + 1
<1>1. /\ attached /\ toModels' = Append(toModels, e) /\ toModels \in Seq(ToldNotes)
      /\ UNCHANGED <<leg, blocks, saved, attached, syncs, shownCalls>>
  BY <1>e DEF NewIntent, RestoreInv, ModelsOK
<1>2. /\ toModels' \in Seq(ToldNotes)
      /\ \A i \in DOMAIN toModels : i \in DOMAIN toModels' /\ toModels'[i] = toModels[i]
      /\ \A i \in DOMAIN toModels' : i \in DOMAIN toModels \/ i = n
      /\ toModels'[n] = e
  BY <1>0, <1>1, AppendOf
<1>. HIDE DEF n
<1>3. \A c : Lives(c)' <=> Lives(c)
  BY <1>1 DEF Lives, EndsAfter
<1>4. Lives(d)
  <2>1. notif[d] # "none"
    BY DEF NewIntent
  <2>. QED BY <2>1 DEF ServiceInv, EndsTold, OngoingTold, Lives
<1>5. \A i, c : EndTold(i, c) => EndTold(i, c)'
  BY <1>2 DEF EndTold
<1>6. ASSUME NEW i \in DOMAIN toModels', toModels'[i].kind # "terminated",
             NEW c \in toModels'[i].calls
      PROVE  Lives(c)' \/ EndTold(i, c)'
  <2>1. CASE i \in DOMAIN toModels
    BY <1>2, <1>3, <1>5, <1>6, <2>1 DEF RestoreInv
  <2>2. CASE i = n
    BY <1>0, <1>2, <1>3, <1>4, <1>6, <2>2
  <2>. QED BY <1>2, <2>1, <2>2
<1>. QED BY <1>1, <1>2, <1>3, <1>5, <1>6 DEF RestoreInv, ModelsOK

LEMMA RestoreKeeps ==
  ~SyncCrosses /\ ~StaleIntent /\ ServiceInv /\ RestoreInv /\ [NotifNext]_nvars
    => RestoreInv'
<1>. SUFFICES ASSUME ~SyncCrosses, ~StaleIntent, ServiceInv, RestoreInv, [NotifNext]_nvars
              PROVE  RestoreInv'
  OBVIOUS
<1>1. CASE Deliver
  BY <1>1, DeliverRestore
<1>2. CASE Models
  BY <1>2, ModelsRestore
<1>3. CASE ~Deliver /\ ~Models
  <2>1. \A c \in NotifCalls : Lives(c) => Lives(c)'
    BY <1>3, LivesOn
  <2>2. CASE \/ Inactive \/ SyncCallsState \/ Destroyed \/ Created
             \/ \E c \in NotifCalls : Dials(c)
    BY <2>1, <2>2, ActivityRestore
  <2>3. ASSUME NEW c \in NotifCalls, Rings(c) \/ Answers(c) \/ Finishes(c)
                                      \/ RejectTapped(c) \/ HangupTapped(c)
        PROVE  RestoreInv'
    <3>1. UNCHANGED <<attached, toModels, syncs, saved, shownCalls>>
      BY <2>3 DEF Rings, Answers, Finishes, RejectTapped, HangupTapped, LegChanges,
                  service, activity
    <3>. QED BY <2>1, <3>1, FrameRestore
  <2>4. ASSUME NEW on \in BOOLEAN, SetForeground(on) PROVE RestoreInv'
    BY <2>1, <2>4, FrameRestore DEF SetForeground, activity
  <2>5. CASE InFrontAgain \/ UNCHANGED nvars
    BY <2>1, <2>5, FrameRestore DEF InFrontAgain, service, nvars
  <2>. QED BY <1>3, <2>2, <2>3, <2>4, <2>5, IntentRestore DEF NotifNext
<1>. QED BY <1>1, <1>2, <1>3

(* A new activity shows no call that ended while there was none, nor does  *)
(* any: as long as Dart does not save its calls while an event is under    *)
(* way, and no activity is given the intent of an earlier one.             *)
THEOREM NoGhostsRestored ==
  ~SyncCrosses /\ ~StaleIntent /\ NotifSpec => []NoGhostRestored
<1>. SUFFICES ASSUME ~SyncCrosses, ~StaleIntent PROVE NotifSpec => []NoGhostRestored
  OBVIOUS
<1>1. NotifInit => RestoreInv
  <2>. SUFFICES ASSUME NotifInit PROVE RestoreInv
    OBVIOUS
  <2>1. ModelsOK
    BY DEF NotifInit, ModelsOK
  <2>. QED BY <2>1 DEF NotifInit, RestoreInv
<1>2. ServiceInv /\ RestoreInv /\ [NotifNext]_nvars => RestoreInv'
  BY RestoreKeeps
<1>3. ServiceInv /\ RestoreInv => NoGhostRestored
  <2>. SUFFICES ASSUME ServiceInv, RestoreInv, NotifRest, NEW c \in shownCalls
                PROVE  Exists(c)
    BY DEF NoGhostRestored
  <2>1. blocks = <<>> /\ toModels = <<>>
    <3>1. /\ blocks \o toModels = <<>> /\ blocks \in Seq(Blocks)
          /\ toModels \in Seq(ToldNotes)
      BY DEF NotifRest, ServiceInv, BlocksOK, RestoreInv, ModelsOK
    <3>. QED BY <3>1
  <2>2. Lives(c) /\ ~EndsAfter(0, c)
    BY <2>1 DEF RestoreInv, EndTold, EndsAfter
  <2>. QED BY <2>2 DEF Lives, Exists, ServiceInv, BlocksOK, RestoreInv, ModelsOK
<1>. QED BY <1>1, <1>2, <1>3, ServiceBegins, ServiceKeeps, PTL DEF NotifSpec
-----------------------------------------------------------------------------
(* The types of the service's variables.                                   *)

RestOK ==
  /\ ringer \in BOOLEAN /\ saved \subseteq NotifCalls
  /\ fgMode \in BOOLEAN /\ fgByCall \in BOOLEAN
  /\ attached \in BOOLEAN /\ inFront \in BOOLEAN /\ tapped \subseteq NotifCalls
  /\ toModels \in Seq(ToldNotes) /\ syncs \in Seq(SUBSET NotifCalls)
  /\ shownCalls \subseteq NotifCalls

LEMMA RestStep ==
  ASSUME BlocksOK, RestOK, [NotifNext]_nvars PROVE RestOK'
<1>1. CASE Deliver
  <2>1. /\ blocks # <<>> /\ blocks \in Seq(Blocks)
        /\ UNCHANGED <<leg, attached, inFront, tapped, syncs, shownCalls>>
    BY <1>1 DEF Deliver, BlocksOK
  <2>2. PICK b \in Blocks :
          /\ OnIncoming(b.call) \/ OnConnected(b.call) \/ OnTerminated(b.call)
          /\ b.kind # "connected" \/ toModels' = toModels
          /\ toModels' = toModels \/ toModels' = Append(toModels, Told(b.kind, {b.call}))
    <3>. DEFINE h == Head(blocks)
    <3>1. h \in Blocks
      BY <2>1, QueueTypes
    <3>2. /\ OnIncoming(h.call) \/ OnConnected(h.call) \/ OnTerminated(h.call)
          /\ toModels' = IF attached /\ h.kind # "connected"
                         THEN Append(toModels, Told(h.kind, {h.call})) ELSE toModels
      BY <1>1 DEF Deliver
    <3>. HIDE DEF h
    <3>. QED BY <3>1, <3>2
  <2>3. b.kind # "connected" => Told(b.kind, {b.call}) \in ToldNotes
    BY DEF Blocks, Told, ToldNotes
  <2>4. toModels' \in Seq(ToldNotes)
    BY <2>2, <2>3, QueueTypes DEF RestOK
  <2>5. /\ ringer' \in BOOLEAN /\ saved' \subseteq NotifCalls
        /\ fgMode' \in BOOLEAN /\ fgByCall' \in BOOLEAN
    <3>1. CASE OnIncoming(b.call)
      BY <3>1 DEF OnIncoming, foreground, RestOK
    <3>2. CASE OnConnected(b.call)
      BY <3>2 DEF OnConnected, StartForeground, foreground, RestOK
    <3>3. CASE OnTerminated(b.call)
      BY <3>3 DEF OnTerminated, ForegroundAfter, foreground, RestOK
    <3>. QED BY <2>2, <3>1, <3>2, <3>3
  <2>. QED BY <2>1, <2>4, <2>5 DEF RestOK
<1>2. ASSUME NEW c \in NotifCalls, Rings(c) \/ Answers(c) \/ Finishes(c) \/ HangupTapped(c)
      PROVE  RestOK'
  BY <1>2 DEF Rings, Answers, Finishes, HangupTapped, LegChanges, service, activity, RestOK
<1>3. ASSUME NEW c \in NotifCalls, Dials(c) PROVE RestOK'
  BY <1>3 DEF Dials, service, RestOK
<1>4. ASSUME NEW c \in NotifCalls, RejectTapped(c) PROVE RestOK'
  BY <1>4 DEF RejectTapped, foreground, activity, RestOK
<1>5. ASSUME NEW on \in BOOLEAN, SetForeground(on) PROVE RestOK'
  BY <1>5 DEF SetForeground, StartForeground, foreground, activity, RestOK
<1>6. CASE Inactive
  BY <1>6, QueueTypes DEF Inactive, service, RestOK
<1>7. CASE InFrontAgain
  BY <1>7 DEF InFrontAgain, service, RestOK
<1>8. CASE SyncCallsState
  <2>1. Head(syncs) \in SUBSET NotifCalls /\ Tail(syncs) \in Seq(SUBSET NotifCalls)
    BY <1>8, QueueTypes DEF SyncCallsState, RestOK
  <2>. QED BY <1>8, <2>1 DEF SyncCallsState, foreground, RestOK
<1>9. CASE Destroyed
  BY <1>9, EmptyQueue DEF Destroyed, service, RestOK
<1>10. CASE Created
  <2>1. PICK i \in Intents :
          /\ toModels' = <<Told("restore", saved)>>
                           \o (IF i = {} THEN <<>> ELSE <<Told("incoming", i)>>)
          /\ tapped' = tapped \cup i
    BY <1>10 DEF Created
  <2>2. i \subseteq NotifCalls
    BY DEF Intents, RestOK
  <2>3. Told("restore", saved) \in ToldNotes /\ Told("incoming", i) \in ToldNotes
    BY <2>2 DEF Told, ToldNotes, RestOK
  <2>4. toModels' \in Seq(ToldNotes)
    BY <2>1, <2>3
  <2>. QED BY <1>10, <2>1, <2>2, <2>4 DEF Created, foreground, RestOK
<1>11. CASE Models
  <2>1. Head(toModels) \in ToldNotes /\ Tail(toModels) \in Seq(ToldNotes)
    BY <1>11, QueueTypes DEF Models, RestOK
  <2>2. Head(toModels).calls \subseteq NotifCalls
    BY <2>1 DEF ToldNotes
  <2>3. shownCalls' \subseteq NotifCalls
    BY <1>11, <2>2 DEF Models, RestOK
  <2>. QED BY <1>11, <2>1, <2>3 DEF Models, service, RestOK
<1>12. CASE UNCHANGED nvars
  BY <1>12 DEF nvars, RestOK
<1>13. ASSUME NEW c \in NotifCalls, NewIntent(c) PROVE RestOK'
  <2>1. Told("incoming", {c}) \in ToldNotes
    BY DEF Told, ToldNotes
  <2>2. toModels' \in Seq(ToldNotes)
    BY <1>13, <2>1, QueueTypes DEF NewIntent, RestOK
  <2>. QED BY <1>13, <2>2 DEF NewIntent, foreground, RestOK
<1>. QED BY <1>1, <1>2, <1>3, <1>4, <1>5, <1>6, <1>7, <1>8, <1>9, <1>10, <1>11, <1>12, <1>13
         DEF NotifNext

(* The variables of service, activity and queues keep their types, and a   *)
(* call holds foreground mode only while that is on.                       *)
THEOREM NotifTyped == NotifSpec => []NotifTypeOK
<1>1. NotifInit => RestOK
  BY EmptyQueue DEF NotifInit, RestOK
<1>2. ServiceInv => BlocksOK
  BY DEF ServiceInv
<1>3. ServiceInv /\ RestOK /\ [NotifNext]_nvars => RestOK'
  BY <1>2, RestStep
<1>4. ServiceInv /\ ForegroundInv /\ RestOK => NotifTypeOK
  BY DEF ServiceInv, BlocksOK, ForegroundInv, RestOK, NotifTypeOK
<1>. QED BY <1>1, <1>3, <1>4, ServiceBegins, ServiceKeeps, ForegroundBegins,
            ForegroundKeeps, PTL DEF NotifSpec
-----------------------------------------------------------------------------
(* The types of the lists, whatever overlaps.                              *)

(* A set of places has a first one.                                        *)
LEMMA FirstPlace ==
  ASSUME NEW n \in Nat, NEW I \in SUBSET (1..n), I # {}
  PROVE  Min(I) \in I
<1>1. I \in SUBSET Nat /\ IsFiniteSet(I)
  <2>1. IsFiniteSet(1..n)
    BY FS_Interval
  <2>2. IsFiniteSet(I)
    BY <2>1, FS_Subset
  <2>. QED BY <2>2
<1>. DEFINE m == Cardinality(I)
<1>2. PICK s \in [1..m -> I] : \A i, j \in DOMAIN s : i < j => s[i] < s[j]
  BY <1>1, Ascending
<1>3. m \in Nat
  BY <1>1, FS_CardinalityType
<1>4. m # 0
  BY <1>1, FS_EmptySet
<1>5. s \in Surjection(1..m, I)
  <2>1. ASSUME NEW i \in 1..m, NEW j \in 1..m, s[i] = s[j] PROVE i = j
    <3>1. s[i] \in Nat /\ s[j] \in Nat /\ i \in Nat /\ j \in Nat
      <4>. HIDE DEF m
      <4>1. s[i] \in I /\ s[j] \in I
        BY <1>2
      <4>2. s[i] \in Nat /\ s[j] \in Nat
        BY <1>1, <4>1
      <4>. QED BY <1>3, <4>2
    <3>2. ~(s[i] < s[j]) /\ ~(s[j] < s[i])
      BY <2>1, <3>1
    <3>3. ~(i < j) /\ ~(j < i)
      BY <1>2, <3>2
    <3>. QED BY <3>1, <3>3
  <2>2. s \in Injection(1..m, I)
    BY <1>2, <2>1 DEF Injection, IsInjective
  <2>3. IsFiniteSet(1..m) /\ Cardinality(1..m) = m
    BY <1>3, FS_Interval
  <2>. QED BY <1>1, <2>2, <2>3, FS_Injection
<1>. HIDE DEF m
<1>6. 1 \in 1..m /\ s[1] \in I
  BY <1>2, <1>3, <1>4
<1>7. ASSUME NEW y \in I PROVE s[1] <= y
  <2>1. PICK j \in 1..m : s[j] = y
    BY <1>5 DEF Surjection
  <2>2. j = 1 \/ 1 < j
    BY <1>3, <2>1
  <2>3. s[1] \in Nat /\ y \in Nat
    BY <1>1, <1>6
  <2>4. CASE j = 1
    BY <2>1, <2>3, <2>4
  <2>5. CASE 1 < j
    <3>1. s[1] < s[j]
      BY <1>2, <1>6, <2>1, <2>5
    <3>. QED BY <2>1, <2>3, <3>1
  <2>. QED BY <2>2, <2>4, <2>5
<1>8. \E x \in I : \A y \in I : x <= y
  BY <1>6, <1>7
<1>. QED BY <1>8 DEF Min

LEMMA FirstRemoved ==
  ASSUME NEW M, NEW s \in Seq(M), NEW x
  PROVE  RemoveFirst(s, x) \in Seq(M)
<1>. DEFINE I == {i \in 1..Len(s) : s[i] = x}
<1>1. SelectInSeq(s, LAMBDA v : v = x) = IF I # {} THEN Min(I) ELSE 0
  BY DEF SelectInSeq
<1>2. CASE \E i \in 1..Len(s) : s[i] = x
  <2>1. Len(s) \in Nat /\ I \in SUBSET (1..Len(s)) /\ I # {}
    BY <1>2
  <2>2. Min(I) \in I
    BY <2>1, FirstPlace
  <2>3. Min(I) \in DOMAIN s
    BY <2>2
  <2>4. SelectInSeq(s, LAMBDA v : v = x) = Min(I)
    BY <1>1, <2>1
  <2>5. RemoveFirst(s, x) = RemoveAt(s, Min(I))
    BY <1>2, <2>4 DEF RemoveFirst
  <2>. HIDE DEF I
  <2>. QED BY <2>3, <2>5, Removed
<1>3. CASE ~\E i \in 1..Len(s) : s[i] = x
  BY <1>3 DEF RemoveFirst
<1>. QED BY <1>2, <1>3

LEMMA RecordPlace ==
  ASSUME cdrItems \in Seq(Records), NEW c
  PROVE  RecordOf(c) = 0 \/ RecordOf(c) \in DOMAIN cdrItems
<1>. DEFINE I == {i \in 1..Len(cdrItems) : slotOf[cdrItems[i].call] = slotOf[c]}
<1>1. RecordOf(c) = IF I # {} THEN Min(I) ELSE 0
  BY DEF RecordOf, SelectInSeq
<1>2. Len(cdrItems) \in Nat /\ I \in SUBSET (1..Len(cdrItems))
      /\ DOMAIN cdrItems = 1..Len(cdrItems)
  OBVIOUS
<1>3. I # {} => Min(I) \in I
  BY <1>2, FirstPlace
<1>. QED BY <1>1, <1>2, <1>3

LEMMA ItemPlace ==
  ASSUME items \in Seq(CdrCalls), NEW c
  PROVE  ItemOf(c) = 0 \/ items[ItemOf(c)] \in CdrCalls
<1>. DEFINE I == {i \in 1..Len(items) : slotOf[items[i]] = slotOf[c]}
<1>1. ItemOf(c) = IF I # {} THEN Min(I) ELSE 0
  BY DEF ItemOf, SelectInSeq
<1>2. Len(items) \in Nat /\ I \in SUBSET (1..Len(items))
      /\ \A i \in 1..Len(items) : items[i] \in CdrCalls
  OBVIOUS
<1>3. I # {} => Min(I) \in I
  BY <1>2, FirstPlace
<1>. QED BY <1>1, <1>2, <1>3

LEMMA RecordReplaced ==
  ASSUME cdrItems \in Seq(Records), Len(cdrItems) <= MaxCdrs, NEW c \in CdrCalls,
         SetConnected(c) \/ SetTerminated(c)
  PROVE  cdrItems' \in Seq(Records) /\ Len(cdrItems') <= MaxCdrs
<1>1. CASE RecordOf(c) = 0
  BY <1>1 DEF SetConnected, SetTerminated
<1>2. CASE RecordOf(c) # 0
  <2>. DEFINE k == RecordOf(c)
              up == [cdrItems[k] EXCEPT !.connected = TRUE]
              over == [cdrItems[k] EXCEPT !.ended = c]
  <2>1. k \in DOMAIN cdrItems
    BY <1>2, RecordPlace
  <2>2. /\ cdrItems' = [cdrItems EXCEPT ![k] = up]
           \/ cdrItems' = [cdrItems EXCEPT ![k] = over]
    BY <1>2 DEF SetConnected, SetTerminated
  <2>. HIDE DEF k
  <2>3. cdrItems[k] \in Records
    BY <2>1
  <2>4. up \in Records /\ over \in Records
    BY <2>3 DEF Records
  <2>. HIDE DEF up, over
  <2>. QED BY <2>1, <2>2, <2>4
<1>. QED BY <1>1, <1>2

LEMMA CdrTypesKept == CdrTypes /\ [CdrNext]_cvars => CdrTypes'
<1>. SUFFICES ASSUME CdrTypes, [CdrNext]_cvars PROVE CdrTypes'
  OBVIOUS
<1>1. ASSUME NEW c \in CdrCalls, NEW slot \in CdrSlots, NEW kind \in {"invited", "incoming"},
             BeginsIn(c, slot, kind)
      PROVE  CdrTypes'
  <2>1. Report(kind, c) \in Reports
    BY DEF Report, Reports
  <2>2. toCdrs' \in Seq(Reports)
    BY <1>1, <2>1, QueueTypes DEF BeginsIn, CdrTypes
  <2>. QED BY <1>1, <2>2 DEF BeginsIn, CdrTypes
<1>2. ASSUME NEW c \in CdrCalls, IsUp(c) \/ EndsIn(c) PROVE CdrTypes'
  <2>1. Report("connected", c) \in Reports /\ Report("terminated", c) \in Reports
    BY DEF Report, Reports
  <2>2. \/ toCdrs' = Append(toCdrs, Report("connected", c))
        \/ toCdrs' = Append(toCdrs, Report("terminated", c))
    BY <1>2 DEF IsUp, EndsIn
  <2>3. toCdrs' \in Seq(Reports)
    BY <2>1, <2>2, QueueTypes DEF CdrTypes
  <2>. QED BY <1>2, <2>3 DEF IsUp, EndsIn, CdrTypes
<1>3. CASE CdrEvent
  <2>. DEFINE n == Head(toCdrs)
  <2>1. n \in Reports /\ toCdrs' \in Seq(Reports) /\ UNCHANGED sip
    BY <1>3, QueueTypes DEF CdrEvent, CdrTypes
  <2>2. n.call \in CdrCalls
    BY <2>1 DEF Reports
  <2>3. \/ items' = Append(items, n.call) /\ AddCdr(n.call) /\ UNCHANGED endings
        \/ UNCHANGED <<items, cdrItems, endings>>
        \/ SetConnected(n.call) /\ UNCHANGED <<items, endings>>
        \/ /\ endings' = IF ItemOf(n.call) = 0 THEN endings
                         ELSE Append(endings, [of |-> n.call,
                                               found |-> items[ItemOf(n.call)]])
           /\ UNCHANGED <<items, cdrItems>>
    BY <1>3 DEF CdrEvent
  <2>. HIDE DEF n
  <2>4. CASE items' = Append(items, n.call) /\ AddCdr(n.call) /\ UNCHANGED endings
    <3>1. cdrItems' \in Seq(Records) /\ Len(cdrItems') <= MaxCdrs
      BY <2>2, <2>4, RecordAdded
    <3>2. items' \in Seq(CdrCalls)
      BY <2>2, <2>4, QueueTypes DEF CdrTypes
    <3>. QED BY <2>1, <2>4, <3>1, <3>2 DEF CdrTypes, sip
  <2>5. CASE UNCHANGED <<items, cdrItems, endings>>
    BY <2>1, <2>5 DEF CdrTypes, sip
  <2>6. CASE SetConnected(n.call) /\ UNCHANGED <<items, endings>>
    <3>1. cdrItems' \in Seq(Records) /\ Len(cdrItems') <= MaxCdrs
      BY <2>2, <2>6, RecordReplaced DEF CdrTypes
    <3>. QED BY <2>1, <2>6, <3>1 DEF CdrTypes, sip
  <2>7. CASE /\ endings' = IF ItemOf(n.call) = 0 THEN endings
                           ELSE Append(endings, [of |-> n.call,
                                                 found |-> items[ItemOf(n.call)]])
             /\ UNCHANGED <<items, cdrItems>>
    <3>1. CASE ItemOf(n.call) = 0
      BY <2>1, <2>7, <3>1 DEF CdrTypes, sip
    <3>2. CASE ItemOf(n.call) # 0
      <4>. DEFINE e == [of |-> n.call, found |-> items[ItemOf(n.call)]]
      <4>1. items[ItemOf(n.call)] \in CdrCalls
        BY <3>2, ItemPlace DEF CdrTypes
      <4>2. e \in Endings
        BY <2>2, <4>1 DEF Endings
      <4>3. endings' = Append(endings, e)
        BY <2>7, <3>2
      <4>. HIDE DEF e
      <4>4. endings' \in Seq(Endings)
        BY <4>2, <4>3, QueueTypes DEF CdrTypes
      <4>. QED BY <2>1, <2>7, <4>4 DEF CdrTypes, sip
    <3>. QED BY <3>1, <3>2
  <2>. QED BY <2>3, <2>4, <2>5, <2>6, <2>7
<1>4. CASE CdrHeader
  <2>. DEFINE e == Head(endings)
  <2>1. e \in Endings /\ endings' \in Seq(Endings) /\ UNCHANGED <<sip, toCdrs>>
        /\ SetTerminated(e.of) /\ items' = RemoveFirst(items, e.found)
    BY <1>4, QueueTypes DEF CdrHeader, CdrTypes
  <2>. HIDE DEF e
  <2>2. e.of \in CdrCalls
    BY <2>1 DEF Endings
  <2>3. cdrItems' \in Seq(Records) /\ Len(cdrItems') <= MaxCdrs
    BY <2>1, <2>2, RecordReplaced DEF CdrTypes
  <2>4. items' \in Seq(CdrCalls)
    BY <2>1, FirstRemoved DEF CdrTypes
  <2>. QED BY <2>1, <2>3, <2>4 DEF CdrTypes, sip
<1>5. ASSUME NEW i \in DOMAIN cdrItems, RemoveCdr(i) PROVE CdrTypes'
  <2>1. /\ cdrItems' = RemoveAt(cdrItems, i) /\ cdrItems \in Seq(Records)
        /\ Len(cdrItems) <= MaxCdrs /\ MaxCdrs \in Nat /\ Len(cdrItems) \in Nat
    BY <1>5, CdrAssumption DEF RemoveCdr, CdrTypes
  <2>2. cdrItems' \in Seq(Records) /\ Len(cdrItems') = Len(cdrItems) - 1
    BY <2>1, Removed
  <2>3. Len(cdrItems') <= MaxCdrs
    BY <2>1, <2>2
  <2>. QED BY <1>5, <2>2, <2>3 DEF RemoveCdr, CdrTypes, sip
<1>6. CASE UNCHANGED cvars
  BY <1>6 DEF cvars, CdrTypes
<1>. QED BY <1>1, <1>2, <1>3, <1>4, <1>5, <1>6 DEF CdrNext

(* The records are never more than the list holds, and every call that is  *)
(* found for an event is one, also when slots are used again at once.      *)
THEOREM CdrsTyped == CdrSpec => []CdrTypeOK
<1>1. CdrInit => CdrTypes
  BY CdrBegins DEF CdrInv
<1>2. CdrTypes => CdrTypeOK
  <2>. SUFFICES ASSUME CdrTypes, NEW i \in DOMAIN endings
                PROVE  endings[i] \in [of: CdrCalls, found: CdrCalls]
    BY DEF CdrTypes, CdrTypeOK
  <2>1. endings \in Seq(Endings)
    BY DEF CdrTypes
  <2>2. endings[i] \in Endings
    BY <2>1
  <2>. QED BY <2>2 DEF Endings
<1>. QED BY <1>1, <1>2, CdrTypesKept, PTL DEF CdrSpec
(* The engine takes a block.                                               *)
LEMMA SubMainTyped ==
  ASSUME SubTypes, SubMain PROVE SubTypes'
<1>. DEFINE r == Head(subCalls)
<1>1. /\ subCalls # <<>> /\ r \in SubBlocks /\ Tail(subCalls) \in Seq(SubBlocks)
      /\ UNCHANGED <<known, notifying, subs, subSaveDue, savedSubs>>
      /\ toSubs \in Seq(SubArrivals)
  BY SubBlockTaken DEF SubMain, subModel, SubTypes
<1>2. \/ r.m = "add" /\ nextSubscrId <= MaxSubs /\ SubscrCreate(r)
      \/ r.m = "delete" /\ SubscrDestroy(r)
      \/ /\ r.m = "state" /\ toSubs' = Append(toSubs, r) /\ subCalls' = Tail(subCalls)
         /\ UNCHANGED subEngine
  BY DEF SubMain
<1>. HIDE DEF r
<1>3. CASE r.m = "add" /\ nextSubscrId <= MaxSubs /\ SubscrCreate(r)
  <2>1. r \in SubAdds /\ subCalls' = Tail(subCalls)
    BY <1>1, <1>3, SubKinds DEF SubscrCreate
  <2>2. CASE AccountFor(r.acc) = {}
    <3>1. UNCHANGED <<buddies, nextSubscrId, toSubs>>
      BY <1>3, <2>2 DEF SubscrCreate, subEngine
    <3>. QED BY <1>1, <2>1, <3>1 DEF SubTypes
  <2>3. CASE AccountFor(r.acc) # {}
    <3>. DEFINE new == nextSubscrId
                e   == SubAdded(r, new)
    <3>1. PICK a \in AccountFor(r.acc) :
            /\ buddies' = [id \in DOMAIN buddies \cup {new} |->
                             IF id = new THEN [acc |-> a, st |-> "none"] ELSE buddies[id]]
            /\ toSubs' = Append(toSubs, e) /\ nextSubscrId' = new + 1
      BY <1>3, <2>3 DEF SubscrCreate
    <3>2. new \in SubIds /\ new + 1 \in 1..MaxSubs + 1
      BY <1>3, SubAssumption DEF SubTypes, SubIds
    <3>3. a \in SubAccs
      BY DEF AccountFor, SubTypes
    <3>4. e \in SubArrivals
      BY <2>1, <3>2 DEF SubAdded, SubReplies, SubAdds, SubArrivals
    <3>. HIDE DEF new, e
    <3>5. toSubs' \in Seq(SubArrivals)
      BY <1>1, <3>1, <3>4, QueueTypes
    <3>6. [acc |-> a, st |-> "none"] \in Buddy
      BY <3>3 DEF Buddy
    <3>7. DOMAIN buddies' \subseteq SubIds /\ buddies' \in [DOMAIN buddies' -> Buddy]
      BY <3>1, <3>2, <3>6 DEF SubTypes
    <3>. QED BY <1>1, <2>1, <3>1, <3>2, <3>5, <3>7 DEF SubTypes
  <2>. QED BY <2>2, <2>3
<1>4. CASE r.m = "delete" /\ SubscrDestroy(r)
  <2>. DEFINE e == SubState(r.id, "destroyed")
  <2>1. r.id \in SubIds
    BY <1>1, <1>4, SubKinds DEF SubDels
  <2>2. e \in SubBlocks
    BY <2>1, SubKinds DEF SubState, SubEvents, SubStates
  <2>3. subCalls' = Append(Tail(subCalls), e) \/ subCalls' = Tail(subCalls)
    BY <1>4 DEF SubscrDestroy
  <2>. HIDE DEF e
  <2>4. subCalls' \in Seq(SubBlocks)
    BY <1>1, <2>2, <2>3, QueueTypes
  <2>5. /\ DOMAIN buddies' \subseteq SubIds /\ buddies' \in [DOMAIN buddies' -> Buddy]
        /\ UNCHANGED <<nextSubscrId, toSubs>>
    BY <1>4 DEF SubscrDestroy, Restrict, SubTypes
  <2>. QED BY <1>1, <2>4, <2>5 DEF SubTypes
<1>5. CASE /\ r.m = "state" /\ toSubs' = Append(toSubs, r) /\ subCalls' = Tail(subCalls)
           /\ UNCHANGED subEngine
  <2>1. r \in SubArrivals
    BY <1>1, <1>5, SubKinds
  <2>2. toSubs' \in Seq(SubArrivals)
    BY <1>1, <1>5, <2>1, QueueTypes
  <2>. QED BY <1>1, <1>5, <2>2 DEF subEngine, SubTypes
<1>. QED BY <1>2, <1>3, <1>4, <1>5

(* Dart takes a message.                                                   *)
LEMMA SubDartTyped ==
  ASSUME SubTypes, SubDart PROVE SubTypes'
<1>. DEFINE r  == Head(toSubs)
            at == SelectInSeq(subs, LAMBDA s : s.id = r.id)
            e  == [id |-> r.id, acc |-> r.acc, st |-> "created"]
<1>1. /\ r \in SubArrivals /\ toSubs' = Tail(toSubs) /\ toSubs' \in Seq(SubArrivals)
      /\ UNCHANGED <<known, buddies, nextSubscrId, notifying, subCalls, savedSubs>>
      /\ subs \in Seq(Entries) /\ subSaveDue \in BOOLEAN
  BY ArrivalTaken DEF SubDart, subEngine, SubTypes
<1>2. at = 0 \/ at \in DOMAIN subs
  <2>. DEFINE I == {i \in 1..Len(subs) : subs[i].id = r.id}
  <2>1. at = IF I # {} THEN Min(I) ELSE 0
    BY DEF SelectInSeq
  <2>2. Len(subs) \in Nat /\ I \in SUBSET (1..Len(subs)) /\ DOMAIN subs = 1..Len(subs)
    BY <1>1
  <2>3. I # {} => Min(I) \in I
    BY <2>2, FirstPlace
  <2>. QED BY <2>1, <2>2, <2>3
<1>3. \/ r.m = "added" /\ subs' = Append(subs, e) /\ subSaveDue' = (subSaveDue \/ ~r.load)
      \/ r.m = "state" /\ UNCHANGED <<subs, subSaveDue>>
      \/ r.m = "state" /\ at # 0 /\ subs' = RemoveAt(subs, at) /\ subSaveDue' = TRUE
      \/ /\ r.m = "state" /\ at # 0 /\ r.st # "destroyed"
         /\ subs' = [subs EXCEPT ![at].st = r.st] /\ UNCHANGED subSaveDue
  BY DEF SubDart
<1>. HIDE DEF r, at
<1>4. subs' \in Seq(Entries) /\ subSaveDue' \in BOOLEAN
  <2>1. CASE r.m = "added" /\ subs' = Append(subs, e) /\ subSaveDue' = (subSaveDue \/ ~r.load)
    <3>1. e \in Entries
      BY <1>1, <2>1, SubKinds DEF SubReplies, Entries, Reported
    <3>. HIDE DEF e
    <3>. QED BY <1>1, <2>1, <3>1, QueueTypes
  <2>2. CASE UNCHANGED <<subs, subSaveDue>>
    BY <1>1, <2>2
  <2>3. CASE at # 0 /\ subs' = RemoveAt(subs, at) /\ subSaveDue' = TRUE
    BY <1>1, <1>2, <2>3, Removed
  <2>4. CASE /\ r.m = "state" /\ at # 0 /\ r.st # "destroyed"
             /\ subs' = [subs EXCEPT ![at].st = r.st] /\ UNCHANGED subSaveDue
    <3>. DEFINE s == [subs[at] EXCEPT !.st = r.st]
    <3>1. r.st \in Reported
      BY <1>1, <2>4, SubKinds DEF SubEvents, SubStates, Reported
    <3>2. subs[at] \in Entries
      BY <1>1, <1>2, <2>4
    <3>3. s \in Entries
      BY <3>1, <3>2 DEF Entries
    <3>4. subs' = [subs EXCEPT ![at] = s]
      BY <2>4
    <3>. HIDE DEF s, e
    <3>5. [subs EXCEPT ![at] = s] \in Seq(Entries)
      BY <1>1, <1>2, <2>4, <3>3
    <3>. QED BY <1>1, <2>4, <3>4, <3>5
  <2>. QED BY <1>3, <2>1, <2>2, <2>3, <2>4
<1>. QED BY <1>1, <1>4 DEF SubTypes

LEMMA SubTypesKept == SubTypes /\ [SubNext]_svars => SubTypes'
<1>. SUFFICES ASSUME SubTypes, [SubNext]_svars PROVE SubTypes'
  OBVIOUS
<1>1. CASE SubMain
  BY <1>1, SubMainTyped
<1>2. CASE SubDart
  BY <1>2, SubDartTyped
<1>3. CASE SubSave
  <2>1. /\ UNCHANGED <<known, buddies, nextSubscrId, notifying, subCalls, toSubs, subs>>
        /\ savedSubs' = [i \in DOMAIN subs |-> subs[i].acc] /\ subSaveDue' = FALSE
    BY <1>3 DEF SubSave, subEngine
  <2>2. \A i \in DOMAIN subs : subs[i].acc \in SubAccs
    BY TypesOf
  <2>3. DOMAIN subs = 1..Len(subs) /\ Len(subs) \in Nat
    BY DEF SubTypes
  <2>4. savedSubs' \in Seq(SubAccs)
    <3>1. savedSubs' \in [1..Len(subs) -> SubAccs]
      BY <2>1, <2>2, <2>3
    <3>. QED BY <2>3, <3>1
  <2>. QED BY <2>1, <2>4 DEF SubTypes
<1>4. ASSUME NEW id \in DOMAIN buddies, OnBuddyState(id) PROVE SubTypes'
  <2>. DEFINE st == IF buddies[id].st = "none" THEN "created" ELSE "updated"
  <2>1. /\ buddies' = [buddies EXCEPT ![id].st = st]
        /\ notifying' = notifying \cup {[id |-> id, st |-> st]}
        /\ UNCHANGED <<known, nextSubscrId, subCalls, toSubs, subs, subSaveDue, savedSubs>>
    BY <1>4 DEF OnBuddyState, subModel
  <2>2. st \in Reported /\ id \in SubIds
    BY DEF Reported, SubTypes
  <2>. HIDE DEF st
  <2>3. notifying' \subseteq [id: SubIds, st: Reported]
    BY <2>1, <2>2 DEF SubTypes
  <2>4. DOMAIN buddies' = DOMAIN buddies /\ buddies' \in [DOMAIN buddies' -> Buddy]
    <3>1. [buddies[id] EXCEPT !.st = st] \in Buddy
      BY <2>2 DEF SubTypes, Buddy
    <3>. QED BY <2>1, <3>1 DEF SubTypes
  <2>. QED BY <2>1, <2>3, <2>4 DEF SubTypes
<1>5. ASSUME NEW n \in notifying, PostBuddyState(n) PROVE SubTypes'
  <2>. DEFINE r == SubState(n.id, n.st)
  <2>1. n \in [id: SubIds, st: Reported] /\ notifying \subseteq [id: SubIds, st: Reported]
    BY DEF SubTypes
  <2>2. r \in SubBlocks
    <3>1. r \in SubEvents
      BY <2>1, StateFits DEF Reported, SubStates
    <3>. QED BY <3>1, SubKinds
  <2>3. /\ subCalls' = Append(subCalls, r) /\ notifying' = notifying \ {n}
        /\ UNCHANGED <<known, buddies, nextSubscrId, toSubs, subs, subSaveDue, savedSubs>>
    BY <1>5 DEF PostBuddyState, subEngine, subModel
  <2>. HIDE DEF r
  <2>4. subCalls' \in Seq(SubBlocks)
    BY <2>2, <2>3, QueueTypes DEF SubTypes
  <2>. QED BY <2>1, <2>3, <2>4 DEF SubTypes
<1>6. ASSUME NEW r \in SubBlocks, SubSend(r) PROVE SubTypes'
  <2>1. subCalls' \in Seq(SubBlocks)
    BY <1>6, QueueTypes DEF SubSend, SubTypes
  <2>. QED BY <1>6, <2>1 DEF SubSend, subEngine, subModel, SubTypes
<1>7. ASSUME NEW acc \in SubAccs, AddSubscription(acc) PROVE SubTypes'
  <2>1. AddSub(acc, FALSE) \in SubBlocks
    BY DEF AddSub, SubBlocks, SubAdds
  <2>. QED BY <1>6, <1>7, <2>1 DEF AddSubscription
<1>8. ASSUME NEW i \in DOMAIN subs, DeleteSubscription(i) PROVE SubTypes'
  <2>1. subs[i].id \in SubIds
    BY TypesOf
  <2>2. DelSub(subs[i].id) \in SubBlocks
    BY <2>1 DEF DelSub, SubBlocks, SubDels
  <2>. QED BY <1>6, <1>8, <2>2 DEF DeleteSubscription
<1>9. ASSUME NEW acc \in SubAccs, AccountDeleted(acc) PROVE SubTypes'
  BY <1>9 DEF AccountDeleted, subEngine, subModel, SubTypes
<1>10. CASE SubRestart
  <2>1. /\ buddies' = [id \in {} |-> 0] /\ nextSubscrId' = 1 /\ notifying' = {}
        /\ subCalls' = [i \in DOMAIN savedSubs |-> AddSub(savedSubs[i], TRUE)]
        /\ toSubs' = <<>> /\ subs' = <<>> /\ subSaveDue' = FALSE
        /\ known' = known /\ savedSubs' = savedSubs
        /\ savedSubs \in Seq(SubAccs) /\ known \subseteq SubAccs
    BY <1>10 DEF SubRestart, SubTypes
  <2>2. subCalls' \in Seq(SubBlocks)
    <3>1. \A i \in DOMAIN savedSubs : AddSub(savedSubs[i], TRUE) \in SubBlocks
      BY <2>1 DEF AddSub, SubBlocks, SubAdds
    <3>2. DOMAIN savedSubs = 1..Len(savedSubs) /\ Len(savedSubs) \in Nat
      BY <2>1
    <3>3. subCalls' \in [1..Len(savedSubs) -> SubBlocks]
      BY <2>1, <3>1, <3>2
    <3>. QED BY <3>2, <3>3
  <2>3. buddies' \in [DOMAIN buddies' -> Buddy] /\ DOMAIN buddies' \subseteq SubIds
    BY <2>1
  <2>4. 1 \in 1..MaxSubs + 1
    BY SubAssumption
  <2>5. subs' \in Seq(Entries) /\ toSubs' \in Seq(SubArrivals)
    BY <2>1, EmptyQueue
  <2>. QED BY <2>1, <2>2, <2>3, <2>4, <2>5 DEF SubTypes
<1>11. CASE UNCHANGED svars
  BY <1>11 DEF svars, SubTypes
<1>. QED BY <1>1, <1>2, <1>3, <1>4, <1>5, <1>7, <1>8, <1>9, <1>10, <1>11 DEF SubNext

(* No id is out of range and Dart knows the kind of every notification,    *)
(* also when accounts with subscriptions are deleted.                      *)
THEOREM SubsTyped == SubSpec => []SubTypeOK
<1>1. SubInit => SubTypes
  BY SubBegins DEF SubInv
<1>2. SubTypes => SubTypeOK
  <2>. SUFFICES ASSUME SubTypes PROVE SubTypeOK
    OBVIOUS
  <2>1. \A id \in DOMAIN buddies :
          buddies[id] \in [acc: SubAccs, st: {"none", "created", "updated"}]
    BY DEF SubTypes, Buddy, Reported
  <2>2. /\ \A n \in notifying : n.id \in SubIds /\ n.st \in SubStates
        /\ \A i \in DOMAIN toSubs : toSubs[i].m \in {"added", "state"}
    BY TypesOf DEF Reported, SubStates
  <2>3. ASSUME NEW i \in DOMAIN subCalls PROVE subCalls[i].m \in {"add", "delete", "state"}
    <3>1. subCalls[i] \in SubBlocks
      BY TypesOf
    <3>. QED BY <3>1 DEF SubBlocks, SubAdds, SubDels, SubEvents
  <2>4. subs \in Seq([id: SubIds, acc: SubAccs, st: SubStates])
    <3>1. Entries \subseteq [id: SubIds, acc: SubAccs, st: SubStates]
      BY DEF Entries, Reported, SubStates
    <3>. DEFINE E == [id: SubIds, acc: SubAccs, st: SubStates]
    <3>. HIDE DEF E
    <3>. SUFFICES subs \in Seq(E)
      BY DEF E
    <3>2. Entries \subseteq E
      BY <3>1 DEF E
    <3>. QED BY <3>2 DEF SubTypes
  <2>. QED BY <2>1, <2>2, <2>3, <2>4 DEF SubTypes, SubTypeOK
<1>. QED BY <1>1, <1>2, SubTypesKept, PTL DEF SubSpec
-----------------------------------------------------------------------------
(* The accounts, also when methods overlap and the activity restarts.      *)

EngOK  == /\ DOMAIN engAccs \subseteq AccIds /\ engAccs \in [DOMAIN engAccs -> EngAcc]
          /\ nextAccId \in 1..MaxAccIds + 1
NotesOK == accountsIds \subseteq 0..MaxAccIds /\ pendingIntents \subseteq AccIds
ModelOK == /\ accList \in Seq(Accs) /\ selIdx \in Nat /\ loadSel \in Nat
           /\ toLoad \in Seq(Uris) /\ saveDue \in BOOLEAN
SettingsOK == savedAccs \in [uris: Seq(Uris), sel: Nat]

LEMMA RequestIs ==
  ASSUME NEW m \in Methods, NEW at \in Nat, NEW a \in Accs
  PROVE  Request(m, at, a) \in AccBlocks
  BY DEF Request, Requests, AccBlocks

LEMMA ReplyOf ==
  ASSUME NEW r \in Requests, NEW ok \in BOOLEAN, NEW id \in 0..MaxAccIds
  PROVE  Reply(r, ok, id) \in Arrivals
<1>1. r.acc \in Accs /\ r.m \in Methods /\ r.at \in Nat
  BY DEF Requests
<1>2. [r.acc EXCEPT !.id = id] \in Accs
  BY <1>1, AccNumber
<1>3. Reply(r, ok, id) \in Replies
  BY <1>1, <1>2 DEF Reply, Replies
<1>. QED BY <1>3 DEF Arrivals

LEMMA NewAcc ==
  ASSUME NEW uri \in Uris PROVE Acc(0, uri, "none") \in Accs
<1>1. 0 \in 0..MaxAccIds
  BY AccAssumption
<1>. QED BY <1>1 DEF Acc, Accs

(* The engine and the plugin run a method.                                 *)
LEMMA PluginTyped ==
  ASSUME AccTypes, toPlugin # <<>>,
         NEW r, r = Head(toPlugin), r \in Requests, UNCHANGED modelSide,
         \/ nextAccId <= MaxAccIds /\ HandleAccountAdd(r)
         \/ HandleAccountDelete(r) \/ HandleAccountRegister(r) \/ HandleAccountUpdate(r)
  PROVE  AccTypes'
<1>1. /\ EngOK /\ NotesOK /\ toAccModel \in Seq(Arrivals)
      /\ Tail(toPlugin) \in Seq(AccBlocks) /\ Restored \in AccBlocks
      /\ MaxAccIds \in Nat /\ r.acc.id \in 0..MaxAccIds /\ r.acc.uri \in Uris
  <2>1. r.acc \in Accs
    BY DEF Requests
  <2>. QED BY <2>1, AccAssumption, AboutRestored, QueueTypes
           DEF AccTypes, EngOK, NotesOK, Accs
<1>2. ModelOK' /\ SettingsOK'
  BY DEF modelSide, AccTypes, ModelOK, SettingsOK
<1>3. CASE nextAccId <= MaxAccIds /\ HandleAccountAdd(r)
  <2>. DEFINE ok == Cardinality(DOMAIN engAccs) < MaxAccs
              id == IF ok THEN nextAccId ELSE 0
              new == [uri |-> r.acc.uri, reg |-> "registering"]
  <2>1. /\ EngAdd(r.acc.uri) /\ toAccModel' = Append(toAccModel, Reply(r, ok, id))
        /\ accountsIds' = accountsIds \cup {id} /\ pendingIntents' = pendingIntents
        /\ toPlugin' = Append(Tail(toPlugin), Restored)
    BY <1>3 DEF HandleAccountAdd
  <2>2. ok \in BOOLEAN /\ id \in 0..MaxAccIds
    BY <1>1, <1>3 DEF EngOK
  <2>3. \/ UNCHANGED <<engAccs, nextAccId>>
        \/ /\ engAccs' = [k \in DOMAIN engAccs \cup {nextAccId} |->
                            IF k = nextAccId THEN new ELSE engAccs[k]]
           /\ nextAccId' = nextAccId + 1
    BY <2>1 DEF EngAdd
  <2>. HIDE DEF ok, id
  <2>4. toAccModel' \in Seq(Arrivals) /\ toPlugin' \in Seq(AccBlocks)
    BY <1>1, <2>1, <2>2, ReplyOf, QueueTypes
  <2>5. EngOK'
    <3>1. new \in EngAcc
      BY <1>1 DEF EngAcc, EngRegs, AwaitsAnswer
    <3>2. nextAccId \in AccIds /\ nextAccId + 1 \in 1..MaxAccIds + 1
      <4>1. nextAccId \in 1..MaxAccIds + 1 /\ MaxAccIds \in Nat /\ nextAccId <= MaxAccIds
        BY <1>1, <1>3 DEF EngOK
      <4>. QED BY <4>1 DEF AccIds
    <3>. HIDE DEF new
    <3>. QED BY <1>1, <2>3, <3>1, <3>2 DEF EngOK
  <2>6. NotesOK'
    BY <1>1, <2>1, <2>2 DEF NotesOK
  <2>. QED BY <1>2, <2>4, <2>5, <2>6 DEF AccTypes, EngOK, NotesOK, ModelOK, SettingsOK
<1>4. CASE HandleAccountDelete(r)
  <2>. DEFINE ok == r.acc.id \in DOMAIN engAccs
  <2>1. /\ toAccModel' = Append(toAccModel, Reply(r, ok, r.acc.id))
        /\ toPlugin' = Tail(toPlugin)
        /\ engAccs' = [id \in DOMAIN engAccs \ {r.acc.id} |-> engAccs[id]]
        /\ accountsIds' \subseteq accountsIds /\ UNCHANGED <<nextAccId, pendingIntents>>
    BY <1>4 DEF HandleAccountDelete
  <2>2. ok \in BOOLEAN
    OBVIOUS
  <2>. HIDE DEF ok
  <2>3. toAccModel' \in Seq(Arrivals) /\ toPlugin' \in Seq(AccBlocks)
    BY <1>1, <2>1, <2>2, ReplyOf, QueueTypes
  <2>4. EngOK' /\ NotesOK'
    BY <1>1, <2>1 DEF EngOK, NotesOK
  <2>. QED BY <1>2, <2>3, <2>4 DEF AccTypes, EngOK, NotesOK, ModelOK, SettingsOK
<1>5. CASE HandleAccountRegister(r)
  <2>. DEFINE id == r.acc.id
              ok == id \in DOMAIN engAccs /\ engAccs[id].reg \notin AwaitsAnswer
              reg == IF r.m = "register" THEN "registering" ELSE "unregistering"
  <2>1. /\ toAccModel' = Append(toAccModel, Reply(r, ok, id))
        /\ toPlugin' = Tail(toPlugin)
        /\ engAccs' = IF ok THEN [engAccs EXCEPT ![id].reg = reg] ELSE engAccs
        /\ UNCHANGED <<nextAccId, accountsIds, pendingIntents>>
    BY <1>5 DEF HandleAccountRegister
  <2>2. ok \in BOOLEAN /\ (ok => id \in DOMAIN engAccs) /\ reg \in EngRegs
    BY DEF EngRegs, AwaitsAnswer
  <2>. HIDE DEF ok, reg
  <2>3. toAccModel' \in Seq(Arrivals) /\ toPlugin' \in Seq(AccBlocks)
    BY <1>1, <2>1, <2>2, ReplyOf, QueueTypes
  <2>4. EngOK' /\ NotesOK'
    BY <1>1, <2>1, <2>2 DEF EngOK, NotesOK, EngAcc
  <2>. QED BY <1>2, <2>3, <2>4 DEF AccTypes, EngOK, NotesOK, ModelOK, SettingsOK
<1>6. CASE HandleAccountUpdate(r)
  <2>. DEFINE ok == r.acc.id \in DOMAIN engAccs
  <2>1. /\ toAccModel' = Append(toAccModel, Reply(r, ok, r.acc.id))
        /\ toPlugin' = Tail(toPlugin) /\ UNCHANGED engineSide
    BY <1>6 DEF HandleAccountUpdate
  <2>2. ok \in BOOLEAN
    OBVIOUS
  <2>. HIDE DEF ok
  <2>3. toAccModel' \in Seq(Arrivals) /\ toPlugin' \in Seq(AccBlocks)
    BY <1>1, <2>1, <2>2, ReplyOf, QueueTypes
  <2>4. EngOK' /\ NotesOK'
    BY <1>1, <2>1 DEF engineSide, EngOK, NotesOK
  <2>. QED BY <1>2, <2>3, <2>4 DEF AccTypes, EngOK, NotesOK, ModelOK, SettingsOK
<1>. QED BY <1>3, <1>4, <1>5, <1>6

LEMMA MainThreadTyped ==
  ASSUME AccTypes, MainThread PROVE AccTypes'
<1>. DEFINE r == Head(toPlugin)
<1>1. /\ toPlugin # <<>> /\ r \in AccBlocks /\ Tail(toPlugin) \in Seq(AccBlocks)
      /\ toAccModel \in Seq(Arrivals) /\ UNCHANGED modelSide
      /\ \/ r.m \in {"add", "load"} /\ nextAccId <= MaxAccIds /\ HandleAccountAdd(r)
         \/ r.m = "delete" /\ HandleAccountDelete(r)
         \/ r.m \in {"register", "unregister"} /\ HandleAccountRegister(r)
         \/ r.m = "update" /\ HandleAccountUpdate(r)
         \/ r.m = "restored" /\ RaiseWhenRestored
         \/ r.m = "regState" /\ ForwardRegState(r)
  BY QueueTypes DEF MainThread, AccTypes
<1>2. CASE r.m = "restored" /\ RaiseWhenRestored
  <2>1. /\ pendingIntents' \subseteq pendingIntents /\ toPlugin' \in Seq(AccBlocks)
        /\ UNCHANGED <<engAccs, nextAccId, accountsIds, toAccModel>>
    BY <1>1, <1>2 DEF RaiseWhenRestored
  <2>. HIDE DEF r
  <2>. QED BY <1>1, <2>1 DEF modelSide, AccTypes
<1>3. CASE r.m = "regState" /\ ForwardRegState(r)
  <2>1. r \in Arrivals
    BY <1>1, <1>3, BlockKinds DEF Arrivals
  <2>2. /\ toAccModel' = Append(toAccModel, r) /\ toPlugin' = Tail(toPlugin)
        /\ UNCHANGED engineSide
    BY <1>3 DEF ForwardRegState
  <2>. HIDE DEF r
  <2>3. toAccModel' \in Seq(Arrivals)
    BY <1>1, <2>1, <2>2, QueueTypes
  <2>. QED BY <1>1, <2>2, <2>3 DEF engineSide, modelSide, AccTypes
<1>4. CASE r.m \in Methods
  <2>1. r \in Requests
    BY <1>1, <1>4, BlockKinds
  <2>. QED BY <1>1, <1>4, <2>1, PluginTyped DEF Methods
<1>. QED BY <1>1, <1>2, <1>3, <1>4 DEF Methods

(* What follows the await of a method.                                     *)
LEMMA AwaitTyped ==
  ASSUME AccTypes, NEW r \in Replies,
         AccountAdded(r) \/ Loaded(r) \/ Deleted(r) \/ Updated(r) \/ Registering(r)
  PROVE  ModelOK' /\ toPlugin' \in Seq(AccBlocks)
<1>1. /\ accList \in Seq(Accs) /\ selIdx \in Nat /\ loadSel \in Nat
      /\ toLoad \in Seq(Uris) /\ saveDue \in BOOLEAN /\ toPlugin \in Seq(AccBlocks)
      /\ r.acc \in Accs /\ r.ok \in BOOLEAN
  BY DEF AccTypes, Replies
<1>2. [r.acc EXCEPT !.reg = "inProgress"] \in Accs
  BY <1>1, AccEdit DEF ListRegs
<1>3. Append(accList, [r.acc EXCEPT !.reg = "inProgress"]) \in Seq(Accs)
  BY <1>1, <1>2, QueueTypes
<1>4. CASE AccountAdded(r)
  <2>1. UNCHANGED <<toLoad, loadSel, toPlugin>>
    BY <1>4 DEF AccountAdded
  <2>2. CASE r.ok
    <3>1. /\ accList' \in Seq(Accs) /\ saveDue' = TRUE
          /\ selIdx' = IF selIdx = 0 THEN 1 ELSE selIdx
      BY <1>3, <1>4, <2>2 DEF AccountAdded
    <3>. QED BY <1>1, <2>1, <3>1 DEF ModelOK
  <2>3. CASE ~r.ok
    <3>1. UNCHANGED <<accList, selIdx, saveDue>>
      BY <1>4, <2>3 DEF AccountAdded
    <3>. QED BY <1>1, <2>1, <3>1 DEF ModelOK
  <2>. QED BY <2>2, <2>3
<1>5. CASE Loaded(r)
  <2>1. /\ accList' \in Seq(Accs) /\ UNCHANGED <<saveDue, loadSel>>
    BY <1>1, <1>3, <1>5 DEF Loaded
  <2>2. CASE r.ok /\ toLoad # <<>>
    <3>. DEFINE next == Request("load", 0, Acc(0, Head(toLoad), "none"))
    <3>1. Head(toLoad) \in Uris /\ Tail(toLoad) \in Seq(Uris)
      BY <1>1, <2>2, QueueTypes
    <3>2. next \in AccBlocks
      BY <3>1, NewAcc, RequestIs DEF Methods
    <3>3. /\ toPlugin' = Append(toPlugin, next) /\ toLoad' = Tail(toLoad)
          /\ selIdx' = selIdx
      BY <1>5, <2>2 DEF Loaded
    <3>. HIDE DEF next
    <3>4. toPlugin' \in Seq(AccBlocks)
      BY <1>1, <3>2, <3>3, QueueTypes
    <3>. QED BY <1>1, <2>1, <3>1, <3>3, <3>4 DEF ModelOK
  <2>3. CASE ~(r.ok /\ toLoad # <<>>)
    <3>1. toLoad' = <<>> /\ selIdx' \in Nat /\ toPlugin' = toPlugin
      BY <1>1, <1>5, <2>3 DEF Loaded
    <3>. QED BY <1>1, <2>1, <3>1, EmptyQueue DEF ModelOK
  <2>. QED BY <2>2, <2>3
<1>6. CASE Deleted(r)
  <2>1. UNCHANGED <<toLoad, loadSel, toPlugin>>
    BY <1>6 DEF Deleted
  <2>2. CASE r.ok /\ r.at \in DOMAIN accList
    <3>. DEFINE rest == RemoveAt(accList, r.at)
    <3>1. rest \in Seq(Accs) /\ Len(rest) \in Nat
      BY <1>1, <2>2, Removed
    <3>2. /\ accList' = rest /\ saveDue' = (saveDue \/ selIdx # 0)
          /\ selIdx' = IF selIdx > Len(rest) THEN Len(rest) ELSE selIdx
      BY <1>6, <2>2 DEF Deleted
    <3>. HIDE DEF rest
    <3>. QED BY <1>1, <2>1, <3>1, <3>2 DEF ModelOK
  <2>3. CASE ~(r.ok /\ r.at \in DOMAIN accList)
    BY <1>1, <1>6, <2>1, <2>3 DEF Deleted, ModelOK
  <2>. QED BY <2>2, <2>3
<1>7. CASE Updated(r)
  <2>1. UNCHANGED <<selIdx, toLoad, loadSel, toPlugin>>
    BY <1>7 DEF Updated
  <2>2. CASE r.ok /\ r.at \in DOMAIN accList
    <3>1. accList' = [accList EXCEPT ![r.at] = r.acc] /\ saveDue' = TRUE
      BY <1>7, <2>2 DEF Updated
    <3>2. [accList EXCEPT ![r.at] = r.acc] \in Seq(Accs)
      BY <1>1, <2>2
    <3>. QED BY <1>1, <2>1, <3>1, <3>2 DEF ModelOK
  <2>3. CASE ~(r.ok /\ r.at \in DOMAIN accList)
    BY <1>1, <1>7, <2>1, <2>3 DEF Updated, ModelOK
  <2>. QED BY <2>2, <2>3
<1>8. CASE Registering(r)
  <2>1. UNCHANGED <<selIdx, toLoad, loadSel, toPlugin>>
    BY <1>8 DEF Registering
  <2>2. CASE r.ok /\ r.at \in DOMAIN accList
    <3>. DEFINE a == [accList[r.at] EXCEPT !.reg = "inProgress"]
    <3>1. accList' = [accList EXCEPT ![r.at] = a] /\ saveDue' = TRUE
      BY <1>8, <2>2 DEF Registering
    <3>2. accList[r.at] \in Accs
      BY <1>1, <2>2
    <3>3. a \in Accs
      BY <3>2, AccEdit DEF ListRegs
    <3>. HIDE DEF a
    <3>4. [accList EXCEPT ![r.at] = a] \in Seq(Accs)
      BY <1>1, <2>2, <3>3
    <3>. QED BY <1>1, <2>1, <3>1, <3>4 DEF ModelOK
  <2>3. CASE ~(r.ok /\ r.at \in DOMAIN accList)
    BY <1>1, <1>8, <2>1, <2>3 DEF Registering, ModelOK
  <2>. QED BY <2>2, <2>3
<1>. QED BY <1>4, <1>5, <1>6, <1>7, <1>8

LEMMA AccDartTyped ==
  ASSUME AccTypes, AccDart PROVE AccTypes'
<1>. DEFINE r == Head(toAccModel)
<1>1. /\ r \in Arrivals /\ toAccModel' \in Seq(Arrivals)
      /\ UNCHANGED <<engineSide, savedAccs>>
      /\ \/ /\ r.m \in Methods
            /\ AccountAdded(r) \/ Loaded(r) \/ Deleted(r) \/ Updated(r) \/ Registering(r)
         \/ r.m = "regState" /\ OnRegStateChanged(r)
  BY QueueTypes DEF AccDart, AccTypes, Methods
<1>. HIDE DEF r
<1>2. ModelOK' /\ toPlugin' \in Seq(AccBlocks)
  <2>1. CASE /\ r.m \in Methods
             /\ AccountAdded(r) \/ Loaded(r) \/ Deleted(r) \/ Updated(r) \/ Registering(r)
    BY <1>1, <2>1, ArrivalKinds, AwaitTyped
  <2>2. CASE r.m = "regState" /\ OnRegStateChanged(r)
    <3>1. r.reg \in ListRegs
      BY <1>1, <2>2, ArrivalKinds DEF States, RegAnswers, ListRegs
    <3>2. /\ accList' = [i \in DOMAIN accList |->
                           IF accList[i].id = r.id THEN [accList[i] EXCEPT !.reg = r.reg]
                           ELSE accList[i]]
          /\ UNCHANGED <<selIdx, saveDue, toLoad, loadSel, toPlugin>>
      BY <2>2 DEF OnRegStateChanged
    <3>3. accList \in Seq(Accs) /\ DOMAIN accList = 1..Len(accList) /\ Len(accList) \in Nat
      BY DEF AccTypes
    <3>4. accList' \in Seq(Accs)
      <4>1. \A i \in DOMAIN accList : /\ accList[i] \in Accs
                                      /\ [accList[i] EXCEPT !.reg = r.reg] \in Accs
        BY <3>1, <3>3, AccEdit
      <4>2. accList' \in [1..Len(accList) -> Accs]
        BY <3>2, <3>3, <4>1
      <4>. QED BY <3>3, <4>2
    <3>. QED BY <3>2, <3>4 DEF AccTypes, ModelOK
  <2>. QED BY <1>1, <2>1, <2>2
<1>. QED BY <1>1, <1>2 DEF engineSide, AccTypes, ModelOK

(* A new process, or a new activity, loads what was saved.                 *)
LEMMA RestartTyped ==
  ASSUME AccTypes, NEW what, Restart(what) PROVE AccTypes'
<1>1. /\ savedAccs.uris \in Seq(Uris) /\ savedAccs.sel \in Nat /\ EngOK
  BY DEF AccTypes, EngOK
<1>2. EngOK' /\ pendingIntents' \subseteq AccIds
  <2>1. \/ engAccs' = [id \in {} |-> 0] /\ nextAccId' = 1 /\ pendingIntents' = {}
        \/ /\ pendingIntents' \in {{}} \cup {{id} : id \in DOMAIN engAccs}
           /\ UNCHANGED <<engAccs, nextAccId>>
    BY DEF Restart
  <2>2. 1 \in 1..MaxAccIds + 1
    BY AccAssumption
  <2>. QED BY <1>1, <2>1, <2>2 DEF EngOK
<1>3. /\ accList' = <<>> /\ saveDue' = FALSE /\ toAccModel' = <<>>
      /\ loadSel' = IF savedAccs.sel = 0 THEN 1 ELSE savedAccs.sel
      /\ accountsIds' = {} /\ savedAccs' = savedAccs
      /\ IF savedAccs.uris = <<>>
         THEN /\ selIdx' = IF savedAccs = NoSettings THEN 0 ELSE loadSel'
              /\ toLoad' = <<>> /\ toPlugin' = <<>>
         ELSE /\ toPlugin' = <<Request("load", 0, Acc(0, Head(savedAccs.uris), "none"))>>
              /\ toLoad' = Tail(savedAccs.uris)
              /\ selIdx' = 0
  BY DEF Restart, LoadFromJson
<1>4. loadSel' \in Nat
  BY <1>1, <1>3
<1>5. selIdx' \in Nat /\ toLoad' \in Seq(Uris) /\ toPlugin' \in Seq(AccBlocks)
  <2>1. CASE savedAccs.uris = <<>>
    <3>1. selIdx' = 0 \/ selIdx' = loadSel'
      BY <1>3, <2>1
    <3>. QED BY <1>3, <1>4, <2>1, <3>1, EmptyQueue
  <2>2. CASE savedAccs.uris # <<>>
    <3>1. Head(savedAccs.uris) \in Uris /\ Tail(savedAccs.uris) \in Seq(Uris)
      BY <1>1, <2>2, QueueTypes
    <3>2. Request("load", 0, Acc(0, Head(savedAccs.uris), "none")) \in AccBlocks
      BY <3>1, NewAcc, RequestIs DEF Methods
    <3>. DEFINE first == Request("load", 0, Acc(0, Head(savedAccs.uris), "none"))
    <3>3. /\ toPlugin' = <<first>> /\ toLoad' = Tail(savedAccs.uris) /\ selIdx' = 0
          /\ first \in AccBlocks
      BY <1>3, <2>2, <3>2
    <3>. HIDE DEF first
    <3>. QED BY <3>1, <3>3
  <2>. QED BY <2>1, <2>2
<1>6. accList' \in Seq(Accs) /\ toAccModel' \in Seq(Arrivals) /\ saveDue' \in BOOLEAN
  BY <1>3, EmptyQueue
<1>7. savedAccs' \in [uris: Seq(Uris), sel: Nat]
  BY <1>3 DEF AccTypes
<1>. QED BY <1>2, <1>3, <1>4, <1>5, <1>6, <1>7 DEF AccTypes, EngOK

LEMMA AccTypesKept == AccTypes /\ [AccNext]_avars => AccTypes'
<1>. SUFFICES ASSUME AccTypes, [AccNext]_avars PROVE AccTypes'
  OBVIOUS
<1>1. CASE MainThread
  BY <1>1, MainThreadTyped
<1>2. CASE AccDart
  BY <1>2, AccDartTyped
<1>3. CASE SaveChanges
  <2>1. /\ savedAccs' = Settings(accList, selIdx) /\ saveDue' = FALSE
        /\ UNCHANGED <<engAccs, nextAccId, accountsIds, pendingIntents, toPlugin, toAccModel,
                       accList, selIdx, toLoad, loadSel>>
    BY <1>3 DEF SaveChanges, engineSide
  <2>2. DOMAIN accList = 1..Len(accList) /\ Len(accList) \in Nat /\ selIdx \in Nat
        /\ \A i \in DOMAIN accList : accList[i].uri \in Uris
    <3>1. \A i \in DOMAIN accList : accList[i] \in Accs
      BY DEF AccTypes
    <3>. QED BY <3>1 DEF AccTypes, Accs
  <2>3. [i \in DOMAIN accList |-> accList[i].uri] \in Seq(Uris)
    <3>1. [i \in DOMAIN accList |-> accList[i].uri] \in [1..Len(accList) -> Uris]
      BY <2>2
    <3>. QED BY <2>2, <3>1
  <2>4. savedAccs' \in [uris: Seq(Uris), sel: Nat]
    BY <2>1, <2>2, <2>3 DEF Settings
  <2>. QED BY <2>1, <2>4 DEF AccTypes
<1>4. ASSUME NEW id \in DOMAIN engAccs, NEW reg \in EngRegs \ AwaitsAnswer, OnRegState(id, reg)
      PROVE  AccTypes'
  <2>1. /\ engAccs' = [engAccs EXCEPT ![id].reg = reg]
        /\ toPlugin' = Append(toPlugin, RegState(id, reg))
        /\ UNCHANGED <<nextAccId, accountsIds, pendingIntents, toAccModel>>
        /\ UNCHANGED modelSide
    BY <1>4 DEF OnRegState
  <2>2. RegState(id, reg) \in AccBlocks
    <3>1. id \in AccIds /\ reg \in RegAnswers
      BY DEF AccTypes, EngRegs, RegAnswers
    <3>. QED BY <3>1 DEF RegState, States, AccBlocks
  <2>3. toPlugin' \in Seq(AccBlocks)
    BY <2>1, <2>2, QueueTypes DEF AccTypes
  <2>4. DOMAIN engAccs' = DOMAIN engAccs /\ engAccs' \in [DOMAIN engAccs' -> EngAcc]
    BY <2>1 DEF AccTypes, EngAcc
  <2>. QED BY <2>1, <2>3, <2>4 DEF modelSide, AccTypes
<1>5. ASSUME NEW id \in DOMAIN engAccs, CallIntent(id) PROVE AccTypes'
  BY <1>5 DEF CallIntent, modelSide, AccTypes
<1>6. ASSUME NEW r \in AccBlocks, SendRequest(r) PROVE AccTypes'
  <2>1. toPlugin' \in Seq(AccBlocks)
    BY <1>6, QueueTypes DEF SendRequest, AccTypes
  <2>. QED BY <1>6, <2>1 DEF SendRequest, engineSide, modelSide, AccTypes
<1>7. ASSUME NEW uri \in Uris, AddAccount(uri) PROVE AccTypes'
  <2>1. Request("add", 0, Acc(0, uri, "none")) \in AccBlocks
    BY NewAcc, RequestIs DEF Methods
  <2>. QED BY <1>6, <1>7, <2>1 DEF AddAccount
<1>8. ASSUME NEW i \in DOMAIN accList,
             \/ UpdateAccount(i) \/ DeleteAccount(i)
             \/ RegisterAccount(i) \/ UnregisterAccount(i)
      PROVE  AccTypes'
  <2>1. accList[i] \in Accs /\ i \in Nat
    BY DEF AccTypes
  <2>2. \A m \in Methods : Request(m, i, accList[i]) \in AccBlocks
    BY <2>1, RequestIs
  <2>3. PICK m \in Methods : SendRequest(Request(m, i, accList[i]))
    BY <1>8 DEF UpdateAccount, DeleteAccount, RegisterAccount, UnregisterAccount, Methods
  <2>. QED BY <1>6, <2>2, <2>3
<1>9. ASSUME NEW i \in DOMAIN accList, SelectAccount(i) PROVE AccTypes'
  <2>1. i \in Nat
    BY DEF AccTypes
  <2>. QED BY <1>9, <2>1 DEF SelectAccount, engineSide, AccTypes
<1>10. ASSUME NEW what \in Restarts, Restart(what) PROVE AccTypes'
  BY <1>10, RestartTyped
<1>11. CASE UNCHANGED avars
  BY <1>11 DEF avars, AccTypes
<1>. QED BY <1>1, <1>2, <1>3, <1>4, <1>5, <1>7, <1>8, <1>9, <1>10, <1>11 DEF AccNext

(* No id, index or message is out of range, whatever methods of the app    *)
(* cross each other and whichever part of it restarts.                     *)
THEOREM AccountsTyped == AccSpec => []AccTypeOK
<1>1. AccInit => AccTypes
  BY AccStart DEF AccInv
<1>2. AccTypes => AccTypeOK
  <2>. SUFFICES ASSUME AccTypes PROVE AccTypeOK
    OBVIOUS
  <2>1. \A i \in DOMAIN toPlugin : toPlugin[i].m \in Methods \cup {"regState", "restored"}
    <3>1. \A i \in DOMAIN toPlugin : toPlugin[i] \in AccBlocks
      BY DEF AccTypes
    <3>. QED BY <3>1 DEF AccBlocks, Requests, States, Signs
  <2>2. \A i \in DOMAIN toAccModel : toAccModel[i].m \in Methods \cup {"regState"}
    <3>1. \A i \in DOMAIN toAccModel : toAccModel[i] \in Arrivals
      BY DEF AccTypes
    <3>. QED BY <3>1 DEF Arrivals, Replies, States
  <2>3. \A id \in DOMAIN engAccs : engAccs[id] \in [uri: Uris, reg: EngRegs]
    BY DEF AccTypes, EngAcc
  <2>. QED BY <2>1, <2>2, <2>3 DEF AccTypes, AccTypeOK
<1>. QED BY <1>1, <1>2, AccTypesKept, PTL DEF AccSpec
-----------------------------------------------------------------------------
(* The lists and the service next to each other.                           *)

(* Every step is one of the model that runs, and the others rest.          *)
LEMMA ServicesSteps ==
  ASSUME [ServicesNext]_<<running, avars, svars, dvars, cvars, nvars>>
  PROVE  /\ [AccNext]_avars /\ [SubNext]_svars /\ [DvcNext]_dvars
         /\ [CdrNext]_cvars /\ [NotifNext]_nvars
  BY DEF ServicesNext

(* Accounts, subscriptions, devices, recent calls and the service, each by *)
(* itself.                                                                 *)
THEOREM ServicesApart ==
  ServicesSpec => AccSpec /\ SubSpec /\ DvcSpec /\ CdrSpec /\ NotifSpec
<1>1. ServicesInit => AccInit /\ SubInit /\ DvcInit /\ CdrInit /\ NotifInit
  BY DEF ServicesInit
<1>. QED BY <1>1, ServicesSteps, PTL
         DEF ServicesSpec, AccSpec, SubSpec, DvcSpec, CdrSpec, NotifSpec

(* Every variable of every list keeps its type: for any number of          *)
(* accounts, subscriptions, devices, records and calls, and with no        *)
(* assumption on what may overlap or restart.                              *)
THEOREM ServicesTyped == ServicesSpec => []ServicesTypeOK
<1>1. AccTypeOK /\ SubTypeOK /\ DvcTypeOK /\ CdrTypeOK /\ NotifTypeOK => ServicesTypeOK
  BY DEF ServicesTypeOK
<1>. QED BY <1>1, ServicesApart, AccountsTyped, SubsTyped, DevicesTyped, CdrsTyped,
            NotifTyped, PTL
=============================================================================
