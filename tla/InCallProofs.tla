---------------------------- MODULE InCallProofs -----------------------------
(***************************************************************************)
(* Proofs about what goes on within a call: the links of the bridge, the   *)
(* files that are played and recorded, and hold.                           *)
(*                                                                         *)
(* All of them for any number of calls, players, recorders and events      *)
(* under way, and with the callbacks of PJSIP between any two steps of a   *)
(* method: a call that has been silenced stays so, and a switch separates  *)
(* the calls; a player shown plays, however its end and the reply to       *)
(* playFile cross; an open recorder is given up only for another one; and  *)
(* Dart shows the hold flags, or, when two reports crossed, one of them.   *)
(***************************************************************************)
EXTENDS CallMixer, CallMedia, CallHold, TLAPS

-----------------------------------------------------------------------------
(* The mixer.                                                              *)

(* A callback is of a call that has not ended (its dialog is locked), and  *)
(* one about to join the microphone of a call with active media.           *)
CallbackLives ==
  /\ mc.pc # "idle" => mc.call \in calls
  /\ mc.pc = "join" => audio[mc.call] = "active"

LEMMA MixTypes == MixSpec => [](MixTypeOK /\ CallbackLives)
<1>1. MixInit => MixTypeOK /\ CallbackLives
  BY DEF MixInit, MixTypeOK, CallbackLives, IdleMw, IdleMc
<1>2. MixTypeOK /\ CallbackLives /\ [MixNext]_xvars => (MixTypeOK /\ CallbackLives)'
  <2>. SUFFICES ASSUME MixTypeOK, CallbackLives, [MixNext]_xvars
                PROVE  (MixTypeOK /\ CallbackLives)'
    OBVIOUS
  <2>. USE DEF MixTypeOK, CallbackLives, bridge
  <2>1. ASSUME NEW c \in MixCalls, Begin(c) PROVE (MixTypeOK /\ CallbackLives)'
    BY <2>1 DEF Begin
  <2>2. ASSUME NEW c \in MixCalls, MediaUpdate(c) PROVE (MixTypeOK /\ CallbackLives)'
    BY <2>2 DEF MediaUpdate
  <2>3. ASSUME NEW c \in MixCalls, End(c) PROVE (MixTypeOK /\ CallbackLives)'
    BY <2>3 DEF End
  <2>4. CASE Connect \/ ConnectMic
    BY <2>4 DEF Connect, ConnectMic, IdleMc
  <2>5. ASSUME NEW c \in MixCalls, NEW mute \in BOOLEAN, MuteMic(c, mute)
        PROVE  (MixTypeOK /\ CallbackLives)'
    BY <2>5 DEF MuteMic
  <2>6. CASE MuteMicDone
    BY <2>6 DEF MuteMicDone, IdleMw
  <2>7. ASSUME NEW c \in MixCalls, SwitchToCall(c) PROVE (MixTypeOK /\ CallbackLives)'
    BY <2>7 DEF SwitchToCall
  <2>8. CASE SwitchDone
    BY <2>8 DEF SwitchDone, IdleMw
  <2>9. CASE MakeConference
    BY <2>9 DEF MakeConference
  <2>10. CASE UNCHANGED xvars
    BY <2>10 DEF xvars
  <2>. QED BY <2>1, <2>2, <2>3, <2>4, <2>5, <2>6, <2>7, <2>8, <2>9, <2>10 DEF MixNext
<1>. QED BY <1>1, <1>2, PTL DEF MixSpec

(* Links, mute flags and methods are of calls that there are, whatever     *)
(* callback runs between two steps of a method.                            *)
THEOREM MixTyped == MixSpec => []MixTypeOK
  BY MixTypes, PTL

-----------------------------------------------------------------------------
(* Only a call that has media is joined to a device: mixerSwitchToCall,    *)
(* which passes over calls without, leaves none of them joined.            *)
JoinedHaveAudio == \A c \in mic \cup speaker : HasAudio(c)

MixInv == MixTypeOK /\ CallbackLives /\ JoinedHaveAudio

LEMMA MixKeeps == MixInv /\ [MixNext]_xvars => JoinedHaveAudio'
<1>. SUFFICES ASSUME MixInv, [MixNext]_xvars PROVE JoinedHaveAudio'
  OBVIOUS
<1>. USE DEF MixInv, MixTypeOK, CallbackLives, JoinedHaveAudio, HasAudio
<1>1. ASSUME NEW c \in MixCalls, Begin(c) \/ MediaUpdate(c) \/ End(c)
      PROVE  JoinedHaveAudio'
  BY <1>1 DEF Begin, MediaUpdate, End, bridge
<1>2. CASE Connect \/ ConnectMic
  BY <1>2 DEF Connect, ConnectMic
<1>3. ASSUME NEW c \in MixCalls, NEW mute \in BOOLEAN, MuteMic(c, mute)
      PROVE  JoinedHaveAudio'
  BY <1>3 DEF MuteMic
<1>4. ASSUME NEW c \in MixCalls, SwitchToCall(c) PROVE JoinedHaveAudio'
  BY <1>4 DEF SwitchToCall
<1>5. CASE MakeConference
  BY <1>5 DEF MakeConference
<1>6. CASE MuteMicDone \/ SwitchDone \/ UNCHANGED xvars
  BY <1>6 DEF MuteMicDone, SwitchDone, bridge, xvars
<1>. QED BY <1>1, <1>2, <1>3, <1>4, <1>5, <1>6 DEF MixNext

LEMMA MixInvariant == MixSpec => []MixInv
<1>1. MixInit => JoinedHaveAudio
  BY DEF MixInit, JoinedHaveAudio
<1>. QED BY <1>1, MixTypes, MixKeeps, PTL DEF MixSpec, MixInv

(* However many calls there are, and whichever callback runs between two   *)
(* steps of a method, a call that has been silenced stays so.              *)
THEOREM MuteStays == MixSpec => MuteLasts
<1>. DEFINE Kept == \A c \in MixCalls :
                      Silenced(c) => \/ Silenced(c)' \/ c \notin calls'
                                     \/ mw'.pc = "unmute" /\ mw'.call = c
<1>1. MixInv /\ [MixNext]_xvars => [Kept]_xvars
  <2>. SUFFICES ASSUME MixInv, MixNext, NEW d \in MixCalls, Silenced(d)
                PROVE  \/ Silenced(d)' \/ d \notin calls'
                       \/ mw'.pc = "unmute" /\ mw'.call = d
    OBVIOUS
  <2>. USE DEF MixInv, MixTypeOK, CallbackLives, Silenced, IdleMw, IdleMc
  <2>1. ASSUME NEW c \in MixCalls, Begin(c) \/ MediaUpdate(c) \/ End(c)
        PROVE  Silenced(d)' \/ d \notin calls'
    BY <2>1 DEF Begin, MediaUpdate, End, bridge
  <2>2. CASE Connect \/ ConnectMic
    BY <2>2 DEF Connect, ConnectMic
  <2>3. ASSUME NEW c \in MixCalls, NEW mute \in BOOLEAN, MuteMic(c, mute)
        PROVE  Silenced(d)' \/ (mw'.pc = "unmute" /\ mw'.call = d)
    BY <2>3 DEF MuteMic
  <2>4. CASE MuteMicDone
    BY <2>4 DEF MuteMicDone, bridge
  <2>5. ASSUME NEW c \in MixCalls, SwitchToCall(c) PROVE Silenced(d)'
    BY <2>5 DEF SwitchToCall
  <2>6. CASE SwitchDone \/ MakeConference
    BY <2>6 DEF SwitchDone, MakeConference, bridge
  <2>. QED BY <2>1, <2>2, <2>3, <2>4, <2>5, <2>6 DEF MixNext
<1>. QED BY <1>1, MixInvariant, PTL DEF MixSpec, MuteLasts

(* However many calls there are, and whatever callback was under way,      *)
(* mixerSwitchToCall takes all others off microphone and loudspeaker.      *)
THEOREM SwitchKeepsApart == MixSpec => SwitchSeparates
<1>. DEFINE Apart == mw.pc = "idle" /\ mw'.pc = "switch" =>
                       mic' \subseteq {mw'.call} /\ speaker' \subseteq {mw'.call}
<1>1. MixInv /\ [MixNext]_xvars => [Apart]_xvars
  <2>. SUFFICES ASSUME MixInv, MixNext, mw.pc = "idle", mw'.pc = "switch"
                PROVE  mic' \subseteq {mw'.call} /\ speaker' \subseteq {mw'.call}
    OBVIOUS
  <2>. USE DEF MixInv, MixTypeOK, JoinedHaveAudio
  <2>1. PICK c \in MixCalls : SwitchToCall(c)
    BY DEF MixNext, Begin, MediaUpdate, End, Connect, ConnectMic, MuteMic, MuteMicDone,
           SwitchDone, MakeConference, IdleMw
  <2>. QED BY <2>1 DEF SwitchToCall
<1>. QED BY <1>1, MixInvariant, PTL DEF MixSpec, SwitchSeparates

-----------------------------------------------------------------------------
(* Players and recorders.                                                  *)

Plays(id) == port[id] = "plays"
StopOf(id) == PlayerNote("stopped", id)
ReplyOf(id) == PlayerNote("reply", id)
Contained(q, n) == \E j \in DOMAIN q : q[j] = n

EventNotes == [kind: {"started", "stopped"}, id: PlayerIds]

(* The types of what concerns players.                                     *)
PlayerTypes ==
  /\ players \subseteq PlayerIds /\ nextPlayerId \in Nat \ {0}
  /\ port \in [PlayerIds -> {"none", "plays", "ended"}]
  /\ pw \in [pc: {"idle", "put", "started", "delete", "record"}, id: Nat]
  /\ pw.pc \in {"put", "started", "delete"} => pw.id \in PlayerIds
  /\ playerMainQ \in Seq(EventNotes) /\ playerDartQ \in Seq(PlayerNotes)
  /\ playerId \in 0..MaxPlayers /\ lastRec \in Nat

(* A player that does not play is shown, or will be, only if the event of  *)
(* its end is still to come, behind the reply that makes it shown.         *)
EndComes ==
  \A id \in PlayerIds : ~Plays(id) =>
    /\ playerId = id => Contained(playerMainQ, StopOf(id))
                          \/ Contained(playerDartQ, StopOf(id))
    /\ \A i \in DOMAIN playerDartQ : playerDartQ[i] = ReplyOf(id) =>
         \/ Contained(playerMainQ, StopOf(id))
         \/ \E j \in DOMAIN playerDartQ : j > i /\ playerDartQ[j] = StopOf(id)
    /\ pw.pc \in {"put", "started"} /\ pw.id = id =>
         Contained(playerMainQ, StopOf(id))

PlayInv == PlayerTypes /\ EndComes

(* Recorders are created in turn: one about to be stored is the newest.    *)
RecInv ==
  /\ lastRec \in Nat /\ recorder \in 0..lastRec
  /\ pw.pc = "record" => pw.id = lastRec /\ recorder < lastRec

-----------------------------------------------------------------------------
(* Queues.                                                                 *)

LEMMA AppendKeeps ==
  ASSUME NEW S, NEW q \in Seq(S), NEW e \in S, NEW n,
         Contained(q, n) \/ e = n
  PROVE  Contained(Append(q, e), n)
<1>1. CASE e = n
  BY <1>1 DEF Contained
<1>2. CASE Contained(q, n)
  BY <1>2 DEF Contained
<1>. QED BY <1>1, <1>2

LEMMA TailKeeps ==
  ASSUME NEW S, NEW q \in Seq(S), q # <<>>, NEW n, Contained(q, n), Head(q) # n
  PROVE  Contained(Tail(q), n)
<1>1. PICK j \in DOMAIN q : q[j] = n
  BY DEF Contained
<1>2. j - 1 \in DOMAIN Tail(q) /\ Tail(q)[j - 1] = n
  BY <1>1
<1>. QED BY <1>2 DEF Contained

-----------------------------------------------------------------------------
(* Players.                                                                *)

LEMMA PlayBegins == MediaInit => PlayInv
  BY MediaAssumption
     DEF MediaInit, PlayInv, PlayerTypes, EndComes, IdlePw, PlayerIds, EventNotes,
         Contained

(* Steps that post the end of a player: it is now in the queue.            *)
LEMMA EndPosted ==
  ASSUME PlayInv, NEW id \in PlayerIds,
         port' = [port EXCEPT ![id] = "ended"], PostPlayer("stopped", id),
         UNCHANGED <<playerDartQ, playerId>>,
         pw' = pw \/ pw' = IdlePw
  PROVE  EndComes'
<1>1. StopOf(id) \in EventNotes
  BY DEF StopOf, PlayerNote, EventNotes
<1>2. \A n : Contained(playerMainQ, n) \/ n = StopOf(id) => Contained(playerMainQ', n)
  BY <1>1, AppendKeeps DEF PostPlayer, StopOf, PlayInv, PlayerTypes
<1>3. \A p \in PlayerIds : ~Plays(p)' => p = id \/ ~Plays(p)
  BY DEF Plays, PlayInv, PlayerTypes
<1>4. IdlePw.pc \notin {"put", "started"}
  BY DEF IdlePw
<1>. QED BY <1>2, <1>3, <1>4 DEF PlayInv, EndComes

LEMMA PlayKeeps == PlayInv /\ [MediaNext]_pvars => PlayInv'
<1>. SUFFICES ASSUME PlayInv, [MediaNext]_pvars PROVE PlayInv'
  OBVIOUS
<1>. USE MediaAssumption DEF PlayInv
<1>1. PlayerTypes'
  <2>. USE DEF PlayerTypes, PlayerIds, IdlePw
  <2>1. CASE PlayFile
    BY <2>1 DEF PlayFile, recording, playerFlow
  <2>0. \A kind \in {"started", "stopped"}, id \in PlayerIds :
           PostPlayer(kind, id) => playerMainQ' \in Seq(EventNotes)
    <3>1. \A kind \in {"started", "stopped"}, id \in PlayerIds :
             PlayerNote(kind, id) \in EventNotes
      BY DEF PlayerNote, EventNotes
    <3>. QED BY <3>1 DEF PostPlayer
  <2>2. CASE PlayPut
    <3>1. pw' \in [pc: {"idle", "put", "started", "delete", "record"}, id: Nat]
          /\ pw'.id \in PlayerIds
      BY <2>2 DEF PlayPut
    <3>2. players' \subseteq PlayerIds /\ nextPlayerId' \in Nat \ {0}
      <4>1. pw.id \in PlayerIds
        BY <2>2 DEF PlayPut
      <4>2. players' \subseteq PlayerIds
        BY ONLY <4>1, <2>2, PlayInv DEF PlayPut, PlayInv, PlayerTypes
      <4>3. nextPlayerId' \in Nat \ {0}
        BY ONLY <2>2, PlayInv DEF PlayPut, PlayInv, PlayerTypes
      <4>. QED BY <4>2, <4>3
    <3>3. UNCHANGED <<port, lastRec, playerMainQ, playerDartQ, playerId>>
      BY <2>2 DEF PlayPut, recording, playerFlow
    <3>. QED BY <3>1, <3>2, <3>3
  <2>3. CASE PlayStarted
    <3>1. PlayerNote("reply", pw.id) \in PlayerNotes
      BY <2>3 DEF PlayStarted, PlayerNote, PlayerNotes
    <3>2. playerDartQ' \in Seq(PlayerNotes)
      BY <2>3, <3>1 DEF PlayStarted, ReplyPlayer
    <3>3. playerMainQ' \in Seq(EventNotes)
      BY <2>0, <2>3 DEF PlayStarted
    <3>. QED BY <2>3, <3>2, <3>3 DEF PlayStarted, playing, recording
  <2>4. ASSUME NEW id \in PlayerIds, Eof(id) PROVE PlayerTypes'
    <3>1. playerMainQ' \in Seq(EventNotes)
      BY <2>0, <2>4 DEF Eof
    <3>. QED BY <2>4, <3>1 DEF Eof, recording
  <2>5. ASSUME NEW id \in PlayerIds, StopPlayFile(id) \/ ToneEnds(id)
        PROVE  PlayerTypes'
    <3>1. players' \subseteq PlayerIds
      BY <2>5 DEF StopPlayFile, ToneEnds
    <3>2. /\ pw' \in [pc: {"idle", "put", "started", "delete", "record"}, id: Nat]
          /\ pw'.pc \in {"put", "started", "delete"} => pw'.id \in PlayerIds
      BY <2>5 DEF StopPlayFile, ToneEnds
    <3>3. UNCHANGED <<nextPlayerId, port, lastRec, playerMainQ, playerDartQ, playerId>>
      BY <2>5 DEF StopPlayFile, ToneEnds, recording, playerFlow
    <3>. QED BY <3>1, <3>2, <3>3
  <2>6. CASE StopDelete
    <3>1. playerMainQ' \in Seq(EventNotes)
      BY <2>0, <2>6 DEF StopDelete
    <3>. QED BY <2>6, <3>1 DEF StopDelete, recording
  <2>7. CASE PlayTone
    BY <2>7 DEF PlayTone, recording, playerFlow
  <2>8. CASE RecordFile \/ RecordPut \/ StopRecordFile \/ CallEnds
    <3>1. /\ pw' \in [pc: {"idle", "put", "started", "delete", "record"}, id: Nat]
          /\ pw'.pc \in {"put", "started", "delete"} => pw'.id \in PlayerIds
      BY <2>8 DEF RecordFile, RecordPut, StopRecordFile, CallEnds
    <3>2. lastRec' \in Nat
      BY <2>8 DEF RecordFile, RecordPut, StopRecordFile, CallEnds
    <3>3. UNCHANGED <<players, nextPlayerId, port, playerMainQ, playerDartQ, playerId>>
      BY <2>8 DEF RecordFile, RecordPut, StopRecordFile, CallEnds, playing, playerFlow
    <3>. QED BY <3>1, <3>2, <3>3
  <2>9. CASE PlayerForward
    <3>1. Head(playerMainQ) \in EventNotes /\ Tail(playerMainQ) \in Seq(EventNotes)
      BY <2>9 DEF PlayerForward
    <3>2. Head(playerMainQ) \in PlayerNotes
      BY <3>1 DEF EventNotes, PlayerNotes
    <3>3. playerDartQ' \in Seq(PlayerNotes)
      BY <2>9, <3>2 DEF PlayerForward
    <3>. QED BY <2>9, <3>1, <3>3 DEF PlayerForward, playing, recording
  <2>10. CASE PlayerDart
    <3>1. Head(playerDartQ) \in PlayerNotes /\ Tail(playerDartQ) \in Seq(PlayerNotes)
      BY <2>10 DEF PlayerDart
    <3>2. playerId' \in 0..MaxPlayers
      <4>1. Head(playerDartQ).id \in PlayerIds
        BY <3>1 DEF PlayerNotes
      <4>. QED BY <2>10, <4>1 DEF PlayerDart, OnPlayer
    <3>. QED BY <2>10, <3>1, <3>2 DEF PlayerDart, playing, recording
  <2>11. CASE UNCHANGED pvars
    BY <2>11 DEF pvars, recording, playing
  <2>. QED BY <2>1, <2>2, <2>3, <2>4, <2>5, <2>6, <2>7, <2>8, <2>9, <2>10, <2>11
           DEF MediaNext
<1>2. EndComes'
  <2>1. CASE PlayFile
    BY <2>1 DEF PlayFile, playerFlow, EndComes, Plays, PlayerTypes
  <2>2. CASE PlayPut
    BY <2>2 DEF PlayPut, playerFlow, EndComes, Plays, PlayerTypes
  <2>3. CASE PlayStarted
    <3>1. /\ playerMainQ' = Append(playerMainQ, PlayerNote("started", pw.id))
          /\ playerDartQ' = Append(playerDartQ, ReplyOf(pw.id))
          /\ pw' = IdlePw /\ UNCHANGED <<port, playerId>>
      BY <2>3 DEF PlayStarted, PostPlayer, ReplyPlayer, ReplyOf, playing
    <3>2. pw.id \in PlayerIds /\ pw.pc = "started"
      BY <2>3 DEF PlayStarted, PlayerTypes
    <3>3. \A n : Contained(playerMainQ, n) => Contained(playerMainQ', n)
      <4>1. playerMainQ \in Seq(EventNotes) /\ PlayerNote("started", pw.id) \in EventNotes
        BY <3>2 DEF PlayerTypes, PlayerNote, EventNotes
      <4>. QED BY <3>1, <4>1, AppendKeeps
    <3>4. \A n : Contained(playerDartQ, n) => Contained(playerDartQ', n)
      <4>1. playerDartQ \in Seq(PlayerNotes) /\ ReplyOf(pw.id) \in PlayerNotes
        BY <3>2 DEF PlayerTypes, PlayerNote, PlayerNotes, ReplyOf
      <4>. QED BY <3>1, <4>1, AppendKeeps
    <3>. SUFFICES ASSUME NEW id \in PlayerIds, ~Plays(id), NEW i \in DOMAIN playerDartQ',
                        playerDartQ'[i] = ReplyOf(id)
                 PROVE  \/ Contained(playerMainQ', StopOf(id))
                        \/ \E j \in DOMAIN playerDartQ' :
                             j > i /\ playerDartQ'[j] = StopOf(id)
      BY <3>1, <3>3, <3>4 DEF EndComes, Plays, IdlePw
    <3>5. CASE i \in DOMAIN playerDartQ
      <4>1. playerDartQ[i] = ReplyOf(id)
        BY <3>1, <3>5 DEF PlayerTypes
      <4>2. CASE Contained(playerMainQ, StopOf(id))
        BY <4>2, <3>3
      <4>3. CASE \E j \in DOMAIN playerDartQ : j > i /\ playerDartQ[j] = StopOf(id)
        <5>1. ReplyOf(pw.id) \in PlayerNotes
          BY <3>2 DEF ReplyOf, PlayerNote, PlayerNotes
        <5>2. \A j \in DOMAIN playerDartQ :
                j \in DOMAIN playerDartQ' /\ playerDartQ'[j] = playerDartQ[j]
          BY <3>1, <5>1 DEF PlayerTypes
        <5>. QED BY <4>3, <5>2
      <4>. QED BY <4>1, <4>2, <4>3, <3>5 DEF EndComes
    <3>6. CASE i \notin DOMAIN playerDartQ
      <4>1. ReplyOf(pw.id) = ReplyOf(id)
        BY <3>1, <3>6 DEF PlayerTypes
      <4>2. pw.id = id
        BY <4>1 DEF ReplyOf, PlayerNote
      <4>. QED BY <4>2, <3>2, <3>3 DEF EndComes
    <3>. QED BY <3>5, <3>6
  <2>4. ASSUME NEW id \in PlayerIds, Eof(id) PROVE EndComes'
    BY <2>4, EndPosted DEF Eof
  <2>5. CASE StopDelete
    BY <2>5, EndPosted DEF StopDelete, PlayerTypes
  <2>6. CASE PlayerForward
    <3>. DEFINE e == Head(playerMainQ)
    <3>1. /\ playerMainQ # <<>> /\ playerMainQ' = Tail(playerMainQ)
          /\ playerDartQ' = Append(playerDartQ, e)
          /\ pw.pc = "idle" /\ UNCHANGED <<pw, port, playerId>>
      BY <2>6 DEF PlayerForward, playing
    <3>2. e \in PlayerNotes /\ e.kind # "reply"
      <4>1. e \in EventNotes
        BY <3>1 DEF PlayerTypes
      <4>. QED BY <4>1 DEF EventNotes, PlayerNotes
    <3>3. \A n : Contained(playerMainQ, n) => Contained(playerMainQ', n) \/ e = n
      BY <3>1, TailKeeps DEF PlayerTypes
    <3>4. \A n : Contained(playerDartQ, n) \/ e = n => Contained(playerDartQ', n)
      BY <3>1, <3>2, AppendKeeps DEF PlayerTypes
    <3>. SUFFICES ASSUME NEW id \in PlayerIds, ~Plays(id), NEW i \in DOMAIN playerDartQ',
                        playerDartQ'[i] = ReplyOf(id)
                 PROVE  \/ Contained(playerMainQ', StopOf(id))
                        \/ \E j \in DOMAIN playerDartQ' :
                             j > i /\ playerDartQ'[j] = StopOf(id)
      BY <3>1, <3>3, <3>4 DEF EndComes, Plays
    <3>5. i \in DOMAIN playerDartQ /\ playerDartQ[i] = ReplyOf(id)
      <4>1. e # ReplyOf(id)
        BY <3>2 DEF ReplyOf, PlayerNote
      <4>. QED BY <4>1, <3>1 DEF PlayerTypes
    <3>6. CASE Contained(playerMainQ, StopOf(id))
      <4>1. CASE e = StopOf(id)
        <5>1. Len(playerDartQ) + 1 \in DOMAIN playerDartQ'
              /\ playerDartQ'[Len(playerDartQ) + 1] = e
          BY <3>1, <3>2 DEF PlayerTypes
        <5>2. Len(playerDartQ) + 1 > i
          BY <3>5 DEF PlayerTypes
        <5>. QED BY <5>1, <5>2, <4>1
      <4>. QED BY <4>1, <3>3, <3>6
    <3>7. CASE \E j \in DOMAIN playerDartQ : j > i /\ playerDartQ[j] = StopOf(id)
      <4>1. \A j \in DOMAIN playerDartQ :
               j \in DOMAIN playerDartQ' /\ playerDartQ'[j] = playerDartQ[j]
        BY <3>1, <3>2 DEF PlayerTypes
      <4>. QED BY <3>7, <4>1
    <3>. QED BY <3>5, <3>6, <3>7 DEF EndComes
  <2>7. CASE PlayerDart
    <3>. DEFINE n == Head(playerDartQ)
    <3>1. /\ playerDartQ # <<>> /\ playerDartQ' = Tail(playerDartQ)
          /\ playerId' = IF n.kind = "reply" THEN n.id
                         ELSE IF n = StopOf(playerId) THEN 0 ELSE playerId
          /\ UNCHANGED <<pw, port, playerMainQ>>
      BY <2>7 DEF PlayerDart, OnPlayer, playing, StopOf
    <3>2. n \in PlayerNotes /\ n = playerDartQ[1] /\ 1 \in DOMAIN playerDartQ
      BY <3>1 DEF PlayerTypes
    <3>3. \A j \in DOMAIN playerDartQ : j > 1 =>
            j - 1 \in DOMAIN playerDartQ' /\ playerDartQ'[j - 1] = playerDartQ[j]
      BY <3>1 DEF PlayerTypes
    <3>. SUFFICES ASSUME NEW id \in PlayerIds, ~Plays(id)
                 PROVE  /\ playerId' = id => Contained(playerMainQ, StopOf(id))
                                              \/ Contained(playerDartQ', StopOf(id))
                        /\ \A i \in DOMAIN playerDartQ' : playerDartQ'[i] = ReplyOf(id) =>
                             \/ Contained(playerMainQ, StopOf(id))
                             \/ \E j \in DOMAIN playerDartQ' :
                                  j > i /\ playerDartQ'[j] = StopOf(id)
      BY <3>1 DEF EndComes, Plays, Contained
    <3>4. ASSUME playerId' = id PROVE Contained(playerMainQ, StopOf(id))
                                      \/ Contained(playerDartQ', StopOf(id))
      <4>1. CASE n = ReplyOf(id)
        <5>1. \/ Contained(playerMainQ, StopOf(id))
              \/ \E j \in DOMAIN playerDartQ : j > 1 /\ playerDartQ[j] = StopOf(id)
          BY <4>1, <3>2 DEF EndComes
        <5>. QED BY <5>1, <3>3 DEF Contained
      <4>2. CASE n # ReplyOf(id)
        <5>1. n.kind # "reply"
          BY <4>2, <3>1, <3>2, <3>4 DEF ReplyOf, PlayerNote, PlayerNotes
        <5>2. playerId = id /\ n # StopOf(id)
          BY <5>1, <3>1, <3>4 DEF PlayerIds
        <5>3. Contained(playerDartQ, StopOf(id)) => Contained(playerDartQ', StopOf(id))
          BY <5>2, <3>1, TailKeeps DEF PlayerTypes
        <5>. QED BY <5>2, <5>3 DEF EndComes
      <4>. QED BY <4>1, <4>2
    <3>5. ASSUME NEW i \in DOMAIN playerDartQ', playerDartQ'[i] = ReplyOf(id),
                ~Contained(playerMainQ, StopOf(id))
          PROVE  \E j \in DOMAIN playerDartQ' : j > i /\ playerDartQ'[j] = StopOf(id)
      <4>1. /\ i \in Nat \ {0} /\ i + 1 \in DOMAIN playerDartQ
            /\ playerDartQ[i + 1] = ReplyOf(id)
        BY <3>1, <3>5 DEF PlayerTypes
      <4>2. PICK j \in DOMAIN playerDartQ : j > i + 1 /\ playerDartQ[j] = StopOf(id)
        BY <4>1, <3>5 DEF EndComes
      <4>3. j \in Nat /\ j - 1 > i /\ j > 1
        BY <4>1, <4>2 DEF PlayerTypes
      <4>. QED BY <4>2, <4>3, <3>3
    <3>. QED BY <3>4, <3>5
  <2>8. ASSUME NEW id \in PlayerIds, StopPlayFile(id) \/ ToneEnds(id) PROVE EndComes'
    BY <2>8 DEF StopPlayFile, ToneEnds, playerFlow, EndComes, Plays
  <2>9. CASE \/ PlayTone \/ RecordFile \/ RecordPut \/ StopRecordFile \/ CallEnds
             \/ UNCHANGED pvars
    BY <2>9 DEF PlayTone, RecordFile, RecordPut, StopRecordFile, CallEnds, playing,
                playerFlow, pvars, IdlePw, EndComes, Plays
  <2>. QED BY <2>1, <2>2, <2>3, <2>4, <2>5, <2>6, <2>7, <2>8, <2>9 DEF MediaNext
<1>. QED BY <1>1, <1>2

(* A player that a call shows at rest plays, for any number of players and *)
(* with the end of a file on a media thread at any moment.                 *)
THEOREM ShownPlays == MediaSpec => []PlayingShown
<1>1. PlayInv => PlayingShown
  <2>. SUFFICES ASSUME PlayInv, playerMainQ \o playerDartQ = <<>>, playerId # 0,
                      ~Plays(playerId)
               PROVE  FALSE
    BY DEF PlayingShown, Plays
  <2>1. playerMainQ = <<>> /\ playerDartQ = <<>>
    BY DEF PlayInv, PlayerTypes
  <2>2. playerId \in PlayerIds
    BY MediaAssumption DEF PlayInv, PlayerTypes, PlayerIds
  <2>. QED BY <2>1, <2>2 DEF PlayInv, EndComes, Contained
<1>. QED BY <1>1, PlayBegins, PlayKeeps, PTL DEF MediaSpec

-----------------------------------------------------------------------------
(* Recorders.                                                              *)

LEMMA RecBegins == MediaInit => RecInv
  BY DEF MediaInit, RecInv, IdlePw

LEMMA RecKeeps == RecInv /\ [MediaNext]_pvars => RecInv'
<1>. SUFFICES ASSUME RecInv, [MediaNext]_pvars PROVE RecInv'
  OBVIOUS
<1>. USE DEF RecInv, IdlePw, recording
<1>1. CASE RecordFile
  BY <1>1, MediaAssumption DEF RecordFile
<1>2. CASE RecordPut
  BY <1>2 DEF RecordPut
<1>3. CASE StopRecordFile \/ CallEnds
  BY <1>3 DEF StopRecordFile, CallEnds
<1>4. CASE PlayFile \/ PlayPut \/ PlayStarted \/ StopDelete
  BY <1>4 DEF PlayFile, PlayPut, PlayStarted, StopDelete
<1>5. ASSUME NEW id \in PlayerIds, Eof(id) \/ StopPlayFile(id) \/ ToneEnds(id)
      PROVE  RecInv'
  BY <1>5 DEF Eof, StopPlayFile, ToneEnds
<1>6. CASE PlayTone \/ PlayerForward \/ PlayerDart \/ UNCHANGED pvars
  BY <1>6 DEF PlayTone, PlayerForward, PlayerDart, pvars
<1>. QED BY <1>1, <1>2, <1>3, <1>4, <1>5, <1>6 DEF MediaNext

(* For any number of recorders, and wherever the end of the call meets     *)
(* callRecordFile, an open recorder is lost only to one that callRecordFile*)
(* puts in its place.                                                      *)
THEOREM RecordingsHeld == MediaSpec => RecordingHeld
<1>. DEFINE Kept == \A r \in openRecs \cap InReach :
                      r \in InReach' \/ r \notin openRecs' \/ (r = recorder /\ recorder' > r)
<1>1. RecInv /\ [MediaNext]_pvars => [Kept]_pvars
  <2>. SUFFICES ASSUME RecInv, MediaNext, NEW r \in openRecs \cap InReach
                PROVE  r \in InReach' \/ r \notin openRecs'
                       \/ (r = recorder /\ recorder' > r)
    OBVIOUS
  <2>. USE DEF RecInv, InReach, IdlePw, recording
  <2>1. CASE RecordFile
    BY <2>1 DEF RecordFile
  <2>2. CASE RecordPut
    BY <2>2 DEF RecordPut
  <2>3. CASE StopRecordFile \/ CallEnds
    BY <2>3 DEF StopRecordFile, CallEnds
  <2>4. CASE PlayFile \/ PlayPut \/ PlayStarted \/ StopDelete
    BY <2>4 DEF PlayFile, PlayPut, PlayStarted, StopDelete
  <2>5. ASSUME NEW id \in PlayerIds, Eof(id) \/ StopPlayFile(id) \/ ToneEnds(id)
        PROVE  r \in InReach'
    BY <2>5 DEF Eof, StopPlayFile, ToneEnds
  <2>6. CASE PlayTone \/ PlayerForward \/ PlayerDart
    BY <2>6 DEF PlayTone, PlayerForward, PlayerDart
  <2>. QED BY <2>1, <2>2, <2>3, <2>4, <2>5, <2>6 DEF MediaNext
<1>2. RecInv /\ [MediaNext]_pvars => RecInv'
  BY RecKeeps
<1>. QED BY <1>1, <1>2, RecBegins, PTL DEF MediaSpec, RecordingHeld

-----------------------------------------------------------------------------
(* Which players there are: created in turn, and a method has one of them. *)
PlayersOK ==
  /\ nextPlayerId \in 1..(MaxPlayers + 1)
  /\ players \subseteq 1..nextPlayerId
  /\ tones \subseteq {id \in PlayerIds : id < nextPlayerId}
  /\ \A id \in PlayerIds : id > nextPlayerId => port[id] = "none"
  /\ pw.pc = "put" => pw.id = nextPlayerId
  /\ pw.pc \in {"started", "delete"} => pw.id <= nextPlayerId
RecordersOK ==
  /\ upCall \in BOOLEAN /\ lastRec \in 0..MaxRecorders
  /\ recorder \in RecorderIds \cup {0} /\ openRecs \subseteq RecorderIds
  /\ pw.id \in 0..(MaxPlayers + MaxRecorders)
  /\ pw.pc = "record" => pw.id \in RecorderIds

LEMMA PlayersKeep == PlayInv /\ PlayersOK /\ [MediaNext]_pvars => PlayersOK'
<1>. SUFFICES ASSUME PlayInv, PlayersOK, [MediaNext]_pvars PROVE PlayersOK'
  OBVIOUS
<1>0. /\ players \subseteq PlayerIds /\ MaxPlayers \in Nat
      /\ port \in [PlayerIds -> {"none", "plays", "ended"}]
      /\ pw \in [pc: {"idle", "put", "started", "delete", "record"}, id: Nat]
      /\ pw.pc \in {"put", "started", "delete"} => pw.id \in PlayerIds
  BY MediaAssumption DEF PlayInv, PlayerTypes
<1>. USE DEF PlayerIds, recording, playing, playerFlow
<1>1. CASE PlayFile
  <2>1. /\ nextPlayerId \in PlayerIds /\ pw' = [pc |-> "put", id |-> nextPlayerId]
        /\ port' = [port EXCEPT ![nextPlayerId] = "plays"]
        /\ UNCHANGED <<players, nextPlayerId, tones>>
    BY <1>1 DEF PlayFile
  <2>. QED BY <1>0, <2>1 DEF PlayersOK
<1>2. CASE PlayPut
  <2>1. /\ pw.pc = "put" /\ pw.id = nextPlayerId /\ pw.id \in PlayerIds
        /\ players' = players \cup {pw.id} /\ nextPlayerId' = nextPlayerId + 1
        /\ pw'.pc = "started" /\ pw'.id = pw.id /\ UNCHANGED <<port, tones>>
    BY <1>0, <1>2 DEF PlayPut, PlayersOK
  <2>. QED BY <1>0, <2>1 DEF PlayersOK
<1>3. CASE PlayStarted
  <2>1. pw'.pc = "idle" /\ UNCHANGED <<players, nextPlayerId, port, tones>>
    BY <1>3 DEF PlayStarted, IdlePw
  <2>. QED BY <2>1 DEF PlayersOK
<1>4. CASE PlayTone
  <2>1. /\ nextPlayerId \in PlayerIds /\ pw.pc = "idle" /\ UNCHANGED <<pw, port>>
        /\ tones' = tones \cup {nextPlayerId} /\ players' = players \cup {nextPlayerId}
        /\ nextPlayerId' = nextPlayerId + 1
    BY <1>4 DEF PlayTone
  <2>. QED BY <1>0, <2>1 DEF PlayersOK
<1>5. CASE StopDelete
  <2>1. /\ pw.pc = "delete" /\ port' = [port EXCEPT ![pw.id] = "ended"] /\ pw'.pc = "idle"
        /\ UNCHANGED <<players, nextPlayerId, tones>>
    BY <1>5 DEF StopDelete, IdlePw
  <2>. QED BY <1>0, <2>1 DEF PlayersOK
<1>6. ASSUME NEW id \in PlayerIds, Eof(id) PROVE PlayersOK'
  <2>1. /\ port[id] = "plays" /\ port' = [port EXCEPT ![id] = "ended"]
        /\ players' = players \ {id} /\ UNCHANGED <<pw, nextPlayerId, tones>>
    BY <1>6 DEF Eof
  <2>. QED BY <1>0, <2>1 DEF PlayersOK
<1>7. ASSUME NEW id \in PlayerIds, StopPlayFile(id) PROVE PlayersOK'
  <2>1. /\ id \in players /\ players' = players \ {id}
        /\ pw'.pc = "delete" /\ pw'.id = id /\ UNCHANGED <<port, nextPlayerId, tones>>
    BY <1>7 DEF StopPlayFile
  <2>. QED BY <1>0, <2>1 DEF PlayersOK
<1>8. ASSUME NEW id \in PlayerIds, ToneEnds(id) PROVE PlayersOK'
  BY <1>8 DEF ToneEnds, PlayersOK
<1>9. CASE RecordFile \/ RecordPut \/ StopRecordFile \/ CallEnds
  <2>1. /\ UNCHANGED <<players, nextPlayerId, port, tones>>
        /\ pw' = pw \/ pw'.pc \in {"idle", "record"}
    BY <1>9 DEF RecordFile, RecordPut, StopRecordFile, CallEnds, IdlePw
  <2>. QED BY <2>1 DEF PlayersOK
<1>10. CASE PlayerForward \/ PlayerDart \/ UNCHANGED pvars
  BY <1>10 DEF PlayerForward, PlayerDart, pvars, PlayersOK
<1>. QED BY <1>1, <1>2, <1>3, <1>4, <1>5, <1>6, <1>7, <1>8, <1>9, <1>10 DEF MediaNext

LEMMA RecordersKeep == PlayInv /\ RecordersOK /\ [MediaNext]_pvars => RecordersOK'
<1>. SUFFICES ASSUME PlayInv, RecordersOK, [MediaNext]_pvars PROVE RecordersOK'
  OBVIOUS
<1>0. /\ players \subseteq PlayerIds /\ MaxPlayers \in Nat /\ MaxRecorders \in Nat
      /\ pw \in [pc: {"idle", "put", "started", "delete", "record"}, id: Nat]
      /\ pw.pc \in {"put", "started", "delete"} => pw.id \in PlayerIds
  BY MediaAssumption DEF PlayInv, PlayerTypes
<1>. USE DEF PlayerIds, RecorderIds, recording, playing, playerFlow
<1>1. CASE PlayFile \/ PlayPut \/ PlayStarted \/ PlayTone \/ StopDelete
  <2>1. /\ UNCHANGED <<upCall, lastRec, recorder, openRecs>>
        /\ \/ pw' = pw
           \/ pw'.pc \in {"put", "started"} /\ pw'.id \in PlayerIds
           \/ pw' = IdlePw
    BY <1>0, <1>1 DEF PlayFile, PlayPut, PlayStarted, PlayTone, StopDelete
  <2>. QED BY <1>0, <2>1 DEF RecordersOK, IdlePw
<1>2. ASSUME NEW id \in PlayerIds, Eof(id) \/ StopPlayFile(id) \/ ToneEnds(id)
      PROVE  RecordersOK'
  <2>1. /\ UNCHANGED <<upCall, lastRec, recorder, openRecs>>
        /\ pw' = pw \/ (pw'.pc = "delete" /\ pw'.id = id)
    BY <1>2 DEF Eof, StopPlayFile, ToneEnds
  <2>. QED BY <1>0, <2>1 DEF RecordersOK
<1>3. CASE RecordFile
  BY <1>0, <1>3 DEF RecordFile, RecordersOK
<1>4. CASE RecordPut
  BY <1>0, <1>4 DEF RecordPut, IdlePw, RecordersOK
<1>5. CASE StopRecordFile \/ CallEnds
  BY <1>0, <1>5 DEF StopRecordFile, CallEnds, RecordersOK
<1>6. CASE PlayerForward \/ PlayerDart \/ UNCHANGED pvars
  BY <1>6 DEF PlayerForward, PlayerDart, pvars, RecordersOK
<1>. QED BY <1>1, <1>2, <1>3, <1>4, <1>5, <1>6 DEF MediaNext

(* Ids of players, of tones and of recorders are those given out, in every *)
(* state of a method and however often recording starts.                   *)
THEOREM MediaTyped == MediaSpec => []MediaTypeOK
<1>1. MediaInit => PlayersOK /\ RecordersOK
  BY MediaAssumption
  DEF MediaInit, PlayersOK, RecordersOK, IdlePw, PlayerIds, RecorderIds
<1>2. PlayInv /\ PlayersOK /\ RecordersOK => MediaTypeOK
  <2>. SUFFICES ASSUME PlayInv, PlayersOK, RecordersOK PROVE MediaTypeOK
    OBVIOUS
  <2>1. playerMainQ \in Seq(PlayerNotes)
    <3>1. EventNotes \subseteq PlayerNotes
      BY DEF EventNotes, PlayerNotes
    <3>2. Seq(EventNotes) \subseteq Seq(PlayerNotes)
      BY <3>1
    <3>. QED BY <3>2 DEF PlayInv, PlayerTypes
  <2>2. tones \subseteq players \cup {id \in PlayerIds : id < nextPlayerId}
    BY DEF PlayersOK
  <2>3. pw \in [pc: {"idle", "put", "started", "delete", "record"},
                id: 0..(MaxPlayers + MaxRecorders)]
    BY DEF PlayInv, PlayerTypes, RecordersOK
  <2>. QED BY <2>1, <2>2, <2>3 DEF PlayInv, PlayerTypes, PlayersOK, RecordersOK, MediaTypeOK
<1>. QED BY <1>1, <1>2, PlayersKeep, RecordersKeep, PlayBegins, PlayKeeps, PTL DEF MediaSpec

-----------------------------------------------------------------------------
(* Hold.                                                                   *)

(* What the engine posts; "holding" and "transferring" are replies.        *)
HoldEvents == [kind: {"held", "transferred"}, hold: HoldFlags]

HeldIn(q) == \E k \in DOMAIN q : q[k].kind = "held"

QueuesOK ==
  /\ localHold \in BOOLEAN /\ remoteHold \in BOOLEAN
  /\ onHold \in BOOLEAN /\ peerHolds \in BOOLEAN
  /\ hw \in [pc: {"idle", "hold", "flag", "read", "post", "transfer"},
             hold: HoldFlags]
  /\ hc \in [pc: {"idle", "info", "read", "post"}, hold: HoldFlags]
  /\ holdMainQ \in Seq(HoldEvents) /\ holdDartQ \in Seq(HoldNotes)

(* Behind every "holding", shown or under way, the event comes that ends   *)
(* it.                                                                     *)
HeldComes ==
  /\ state = "holding" => HeldIn(holdDartQ) \/ HeldIn(holdMainQ)
  /\ \A i \in DOMAIN holdDartQ : holdDartQ[i].kind = "holding" =>
       \/ HeldIn(holdMainQ)
       \/ \E j \in DOMAIN holdDartQ : j > i /\ holdDartQ[j].kind = "held"

HoldInv == QueuesOK /\ HeldComes

-----------------------------------------------------------------------------
(* Queues.                                                                 *)

LEMMA HeldInAppend ==
  ASSUME NEW S, NEW q \in Seq(S), NEW e \in S, HeldIn(q) \/ e.kind = "held"
  PROVE  HeldIn(Append(q, e))
<1>1. CASE e.kind = "held"
  <2>1. Len(q) + 1 \in DOMAIN Append(q, e) /\ Append(q, e)[Len(q) + 1] = e
    OBVIOUS
  <2>. QED BY <1>1, <2>1 DEF HeldIn
<1>2. CASE HeldIn(q)
  <2>1. \A k \in DOMAIN q : k \in DOMAIN Append(q, e) /\ Append(q, e)[k] = q[k]
    OBVIOUS
  <2>. QED BY <1>2, <2>1 DEF HeldIn
<1>. QED BY <1>1, <1>2

LEMMA HeldInTail ==
  ASSUME NEW S, NEW q \in Seq(S), q # <<>>, HeldIn(q), Head(q).kind # "held"
  PROVE  HeldIn(Tail(q))
<1>1. PICK j \in DOMAIN q : q[j].kind = "held"
  BY DEF HeldIn
<1>2. j - 1 \in DOMAIN Tail(q) /\ Tail(q)[j - 1] = q[j]
  BY <1>1
<1>. QED BY <1>1, <1>2 DEF HeldIn

(* A reply or an event that joins the queue to Dart: what was behind an    *)
(* older "holding" is still behind it.                                     *)
LEMMA DartAppend ==
  ASSUME HoldInv, NEW e \in HoldNotes, holdDartQ' = Append(holdDartQ, e),
         state' = state,
         HeldIn(holdMainQ) => HeldIn(holdMainQ') \/ e.kind = "held",
         e.kind = "holding" => HeldIn(holdMainQ')
  PROVE  HeldComes'
<1>1. /\ \A k \in DOMAIN holdDartQ :
           k \in DOMAIN holdDartQ' /\ holdDartQ'[k] = holdDartQ[k]
      /\ Len(holdDartQ) + 1 \in DOMAIN holdDartQ'
      /\ holdDartQ'[Len(holdDartQ) + 1] = e
      /\ \A k \in DOMAIN holdDartQ' : k \in DOMAIN holdDartQ \/ k = Len(holdDartQ) + 1
      /\ \A k \in DOMAIN holdDartQ : Len(holdDartQ) + 1 > k
  BY DEF HoldInv, QueuesOK
<1>2. HeldIn(holdDartQ) \/ e.kind = "held" => HeldIn(holdDartQ')
  BY HeldInAppend DEF HoldInv, QueuesOK
<1>3. ASSUME NEW i \in DOMAIN holdDartQ', holdDartQ'[i].kind = "holding"
      PROVE  \/ HeldIn(holdMainQ')
             \/ \E j \in DOMAIN holdDartQ' : j > i /\ holdDartQ'[j].kind = "held"
  <2>1. CASE i \in DOMAIN holdDartQ
    <3>1. \/ HeldIn(holdMainQ)
          \/ \E j \in DOMAIN holdDartQ : j > i /\ holdDartQ[j].kind = "held"
      BY <1>1, <1>3, <2>1 DEF HoldInv, HeldComes
    <3>. QED BY <1>1, <2>1, <3>1
  <2>2. CASE i = Len(holdDartQ) + 1
    BY <1>1, <1>3, <2>2
  <2>. QED BY <1>1, <2>1, <2>2
<1>. QED BY <1>2, <1>3 DEF HoldInv, HeldComes

-----------------------------------------------------------------------------
(* The invariant.                                                          *)

LEMMA HoldBegins == HoldInit => HoldInv
<1>. SUFFICES ASSUME HoldInit PROVE HoldInv
  OBVIOUS
<1>1. NoHold \in HoldFlags
  BY DEF NoHold, HoldFlags
<1>2. QueuesOK
  <2>1. hw \in [pc: {"idle", "hold", "flag", "read", "post", "transfer"},
               hold: HoldFlags]
    BY <1>1 DEF HoldInit
  <2>2. hc \in [pc: {"idle", "info", "read", "post"}, hold: HoldFlags]
    BY <1>1 DEF HoldInit
  <2>3. holdMainQ \in Seq(HoldEvents) /\ holdDartQ \in Seq(HoldNotes)
    BY DEF HoldInit
  <2>4. {localHold, remoteHold, onHold, peerHolds} \subseteq BOOLEAN
    BY DEF HoldInit
  <2>. QED BY <2>1, <2>2, <2>3, <2>4 DEF QueuesOK
<1>3. HeldComes
  BY DEF HoldInit, HeldComes
<1>. QED BY <1>2, <1>3 DEF HoldInv

(* Events posted to the main queue.                                        *)
LEMMA PostKeeps ==
  ASSUME HoldInv, NEW kind \in {"held", "transferred"}, NEW h \in HoldFlags,
         holdMainQ' = Append(holdMainQ, HoldNote(kind, h))
  PROVE  /\ holdMainQ' \in Seq(HoldEvents)
         /\ HeldIn(holdMainQ) \/ kind = "held" => HeldIn(holdMainQ')
<1>1. HoldNote(kind, h) \in HoldEvents /\ HoldNote(kind, h).kind = kind
  BY DEF HoldNote, HoldEvents
<1>2. holdMainQ \in Seq(HoldEvents)
  BY DEF HoldInv, QueuesOK
<1>. QED BY <1>1, <1>2, HeldInAppend

(* Steps that leave what Dart shows or will be told.                       *)
LEMMA FrameHold ==
  ASSUME HoldInv, UNCHANGED <<holdMainQ, holdDartQ, state>> PROVE HeldComes'
  BY DEF HoldInv, HeldComes

(* The queues and what is in hand keep their types.                        *)
LEMMA QueuesKeep == HoldInv /\ [HoldNext]_hvars => QueuesOK'
<1>. SUFFICES ASSUME HoldInv, [HoldNext]_hvars PROVE QueuesOK'
  OBVIOUS
<1>. USE DEF HoldInv, QueuesOK, session, flags, queues, model
<1>0. NoHold \in HoldFlags /\ FlagsNow \in HoldFlags
  BY DEF NoHold, FlagsNow, HoldFlags
<1>1. CASE HoldRequest \/ RequestFails \/ SendHold \/ SetLocalHold \/ ReadHold
  <2>1. UNCHANGED <<remoteHold, onHold, peerHolds, hc, holdMainQ, holdDartQ>>
        /\ localHold' \in BOOLEAN
    BY <1>1 DEF HoldRequest, RequestFails, SendHold, SetLocalHold, ReadHold
  <2>2. CASE ReadHold
    BY <1>0, <2>1, <2>2 DEF ReadHold
  <2>3. CASE ~ReadHold
    <3>1. \E pc \in {"idle", "hold", "transfer", "flag", "read"} :
             hw' = [hw EXCEPT !.pc = pc]
      BY <1>1, <2>3 DEF HoldRequest, RequestFails, SendHold, SetLocalHold
    <3>. QED BY <2>1, <3>1
  <2>. QED BY <2>2, <2>3
<1>2. CASE HoldDone
  <2>1. HoldNote("holding", NoHold) \in HoldNotes
    BY <1>0 DEF HoldNote, HoldNotes
  <2>2. holdMainQ' \in Seq(HoldEvents)
    BY <1>2, PostKeeps DEF HoldDone, PostHeld
  <2>3. holdDartQ' \in Seq(HoldNotes)
    BY <1>2, <2>1 DEF HoldDone
  <2>. QED BY <1>0, <1>2, <2>2, <2>3 DEF HoldDone
<1>3. CASE SendRefer
  <2>1. HoldNote("transferring", NoHold) \in HoldNotes
    BY <1>0 DEF HoldNote, HoldNotes
  <2>2. holdDartQ' \in Seq(HoldNotes)
    BY <1>3, <2>1 DEF SendRefer
  <2>. QED BY <1>3, <2>2 DEF SendRefer
<1>4. CASE PeerReinvite \/ Answered200 \/ AnsweredNo \/ MediaState \/ MediaRead
  <2>1. UNCHANGED <<localHold, hw, holdMainQ, holdDartQ>>
        /\ {remoteHold', onHold', peerHolds'} \subseteq BOOLEAN
    BY <1>4 DEF PeerReinvite, Answered200, AnsweredNo, MediaState, MediaRead
  <2>2. CASE MediaRead
    BY <1>0, <2>1, <2>2 DEF MediaRead
  <2>3. CASE ~MediaRead
    <3>1. hc' = hc \/ \E pc \in {"idle", "info", "read"} : hc' = [hc EXCEPT !.pc = pc]
      BY <1>4, <2>3 DEF PeerReinvite, Answered200, AnsweredNo, MediaState
    <3>. QED BY <2>1, <3>1
  <2>. QED BY <2>2, <2>3
<1>5. CASE MediaPost
  <2>1. holdMainQ' \in Seq(HoldEvents)
    BY <1>5, PostKeeps DEF MediaPost, PostHeld
  <2>. QED BY <1>0, <1>5, <2>1 DEF MediaPost
<1>6. CASE TransferStatus
  <2>1. holdMainQ' \in Seq(HoldEvents)
    BY <1>0, <1>6, PostKeeps DEF TransferStatus
  <2>. QED BY <1>6, <2>1 DEF TransferStatus
<1>7. CASE HoldForward
  <2>1. Head(holdMainQ) \in HoldEvents /\ Tail(holdMainQ) \in Seq(HoldEvents)
    BY <1>7 DEF HoldForward
  <2>2. Head(holdMainQ) \in HoldNotes
    BY <2>1 DEF HoldEvents, HoldNotes
  <2>3. holdDartQ' \in Seq(HoldNotes)
    BY <1>7, <2>2 DEF HoldForward
  <2>. QED BY <1>7, <2>1, <2>3 DEF HoldForward
<1>8. CASE HoldDart
  BY <1>8 DEF HoldDart
<1>9. CASE UNCHANGED hvars
  BY <1>9 DEF hvars
<1>. QED BY <1>1, <1>2, <1>3, <1>4, <1>5, <1>6, <1>7, <1>8, <1>9 DEF HoldNext

(* Behind every "holding" the event that ends it still comes.              *)
LEMMA HeldKeeps == HoldInv /\ [HoldNext]_hvars => HeldComes'
<1>. SUFFICES ASSUME HoldInv, [HoldNext]_hvars PROVE HeldComes'
  OBVIOUS
<1>. USE DEF session, flags, queues, model
<1>0. /\ holdMainQ \in Seq(HoldEvents) /\ holdDartQ \in Seq(HoldNotes)
      /\ NoHold \in HoldFlags
  BY DEF HoldInv, QueuesOK, NoHold, HoldFlags
<1>1. CASE \/ HoldRequest \/ RequestFails \/ SendHold \/ SetLocalHold \/ ReadHold
           \/ PeerReinvite \/ Answered200 \/ AnsweredNo \/ MediaState \/ MediaRead
           \/ UNCHANGED hvars
  <2>1. UNCHANGED <<holdMainQ, holdDartQ, state>>
    BY <1>1
    DEF HoldRequest, RequestFails, SendHold, SetLocalHold, ReadHold, PeerReinvite,
        Answered200, AnsweredNo, MediaState, MediaRead, hvars
  <2>. QED BY <2>1, FrameHold
<1>2. CASE HoldDone
  <2>. DEFINE e == HoldNote("holding", NoHold)
  <2>1. e \in HoldNotes /\ e.kind # "held"
    BY <1>0 DEF HoldNote, HoldNotes
  <2>2. hw.hold \in HoldFlags
    BY DEF HoldInv, QueuesOK
  <2>3. HeldIn(holdMainQ')
    BY <1>2, <2>2, PostKeeps DEF HoldDone, PostHeld
  <2>4. holdDartQ' = Append(holdDartQ, e) /\ state' = state
    BY <1>2 DEF HoldDone
  <2>. QED
    <3>. HIDE DEF e
    <3>. QED BY <2>1, <2>3, <2>4, DartAppend
<1>3. CASE SendRefer
  <2>. DEFINE e == HoldNote("transferring", NoHold)
  <2>1. e \in HoldNotes /\ e.kind # "holding"
    BY <1>0 DEF HoldNote, HoldNotes
  <2>2. holdDartQ' = Append(holdDartQ, e) /\ UNCHANGED <<holdMainQ, state>>
    BY <1>3 DEF SendRefer
  <2>. QED
    <3>. HIDE DEF e
    <3>. QED BY <2>1, <2>2, DartAppend
<1>4. CASE MediaPost \/ TransferStatus
  <2>1. UNCHANGED <<holdDartQ, state>>
    BY <1>4 DEF MediaPost, TransferStatus
  <2>2. hc.hold \in HoldFlags
    BY DEF HoldInv, QueuesOK
  <2>3. HeldIn(holdMainQ) => HeldIn(holdMainQ')
    BY <1>0, <1>4, <2>2, PostKeeps DEF MediaPost, TransferStatus, PostHeld
  <2>. QED BY <2>1, <2>3 DEF HoldInv, HeldComes
<1>5. CASE HoldForward
  <2>. DEFINE e == Head(holdMainQ)
  <2>1. /\ holdMainQ # <<>> /\ holdMainQ' = Tail(holdMainQ)
        /\ holdDartQ' = Append(holdDartQ, e) /\ state' = state
    BY <1>5 DEF HoldForward
  <2>2. e \in HoldEvents
    BY <1>0, <2>1
  <2>3. e \in HoldNotes /\ e.kind # "holding"
    BY <2>2 DEF HoldEvents, HoldNotes
  <2>4. HeldIn(holdMainQ) => HeldIn(holdMainQ') \/ e.kind = "held"
    BY <1>0, <2>1, HeldInTail
  <2>. QED
    <3>. HIDE DEF e
    <3>. QED BY <2>1, <2>3, <2>4, DartAppend
<1>6. CASE HoldDart
  <2>. DEFINE n == Head(holdDartQ)
  <2>1. holdDartQ # <<>> /\ holdDartQ' = Tail(holdDartQ) /\ holdMainQ' = holdMainQ
    BY <1>6 DEF HoldDart
  <2>2. /\ n = holdDartQ[1] /\ 1 \in DOMAIN holdDartQ
        /\ \A j \in DOMAIN holdDartQ : j > 1 =>
             j - 1 \in DOMAIN holdDartQ' /\ holdDartQ'[j - 1] = holdDartQ[j]
        /\ \A i \in DOMAIN holdDartQ' : /\ i \in Nat /\ i + 1 \in DOMAIN holdDartQ
                                        /\ holdDartQ'[i] = holdDartQ[i + 1]
        /\ DOMAIN holdDartQ \subseteq Nat
    BY <1>0, <2>1
  <2>3. ASSUME state' = "holding" PROVE HeldIn(holdDartQ') \/ HeldIn(holdMainQ')
    <3>1. CASE n.kind = "holding"
      <4>1. \/ HeldIn(holdMainQ)
            \/ \E j \in DOMAIN holdDartQ : j > 1 /\ holdDartQ[j].kind = "held"
        BY <2>2, <3>1 DEF HoldInv, HeldComes
      <4>. QED BY <2>1, <2>2, <4>1 DEF HeldIn
    <3>2. CASE n.kind # "holding"
      <4>1. n.kind # "held" /\ state = "holding"
        BY <1>6, <2>3, <3>2 DEF HoldDart, OnHeld
      <4>2. HeldIn(holdDartQ) => HeldIn(holdDartQ')
        BY <1>0, <2>1, <4>1, HeldInTail
      <4>. QED BY <2>1, <4>1, <4>2 DEF HoldInv, HeldComes
    <3>. QED BY <3>1, <3>2
  <2>4. ASSUME NEW i \in DOMAIN holdDartQ', holdDartQ'[i].kind = "holding",
              ~HeldIn(holdMainQ)
        PROVE  \E j \in DOMAIN holdDartQ' : j > i /\ holdDartQ'[j].kind = "held"
    <3>1. PICK j \in DOMAIN holdDartQ : j > i + 1 /\ holdDartQ[j].kind = "held"
      BY <2>2, <2>4 DEF HoldInv, HeldComes
    <3>2. j > 1 /\ j - 1 > i
      BY <2>2, <3>1
    <3>. QED BY <2>2, <3>1, <3>2
  <2>. QED BY <2>1, <2>3, <2>4 DEF HeldComes
<1>. QED BY <1>1, <1>2, <1>3, <1>4, <1>5, <1>6 DEF HoldNext

LEMMA HoldInvariant == HoldSpec => []HoldInv
<1>1. HoldInv /\ [HoldNext]_hvars => HoldInv'
  BY QueuesKeep, HeldKeeps DEF HoldInv
<1>. QED BY <1>1, HoldBegins, PTL DEF HoldSpec

-----------------------------------------------------------------------------
(* A call shown as "holding" has the event that ends this under way, with  *)
(* any number of events, transfers and changes of the peer in between.     *)
THEOREM HoldingIsOver == HoldSpec => []HoldingEnds
<1>1. HoldInv => HoldingEnds
  <2>. SUFFICES ASSUME HoldInv, state = "holding"
               PROVE  \E k \in DOMAIN (holdDartQ \o holdMainQ) :
                        (holdDartQ \o holdMainQ)[k].kind = "held"
    BY DEF HoldingEnds
  <2>0. holdMainQ \in Seq(HoldEvents) /\ holdDartQ \in Seq(HoldNotes)
    BY DEF HoldInv, QueuesOK
  <2>1. CASE HeldIn(holdDartQ)
    <3>1. PICK k \in DOMAIN holdDartQ : holdDartQ[k].kind = "held"
      BY <2>1 DEF HeldIn
    <3>2. k \in DOMAIN (holdDartQ \o holdMainQ)
          /\ (holdDartQ \o holdMainQ)[k] = holdDartQ[k]
      BY <2>0, <3>1
    <3>. QED BY <3>1, <3>2
  <2>2. CASE HeldIn(holdMainQ)
    <3>1. PICK k \in DOMAIN holdMainQ : holdMainQ[k].kind = "held"
      BY <2>2 DEF HeldIn
    <3>2. Len(holdDartQ) + k \in DOMAIN (holdDartQ \o holdMainQ)
          /\ (holdDartQ \o holdMainQ)[Len(holdDartQ) + k] = holdMainQ[k]
      BY <2>0, <3>1
    <3>. QED BY <3>1, <3>2
  <2>. QED BY <2>1, <2>2 DEF HoldInv, HeldComes
<1>. QED BY <1>1, HoldInvariant, PTL

(* While this side does not hold the call, the remote flag is what the     *)
(* peer does, also after a hold of this side hid what the peer did.        *)
THEOREM RemoteKnown == HoldSpec => []RemoteTrue
<1>1. HoldInit => RemoteTrue
  BY DEF HoldInit, RemoteTrue
<1>2. RemoteTrue /\ HoldInv /\ [HoldNext]_hvars => RemoteTrue'
  <2>. SUFFICES ASSUME RemoteTrue, HoldInv, [HoldNext]_hvars PROVE RemoteTrue'
    OBVIOUS
  <2>. USE DEF RemoteTrue, HoldInv, QueuesOK, session, flags, queues, model
  <2>1. CASE \/ HoldRequest \/ RequestFails \/ SendHold \/ SetLocalHold \/ ReadHold
             \/ HoldDone \/ SendRefer \/ TransferStatus \/ HoldForward \/ HoldDart
             \/ AnsweredNo \/ UNCHANGED hvars
    BY <2>1
    DEF HoldRequest, RequestFails, SendHold, SetLocalHold, ReadHold, HoldDone,
        SendRefer, TransferStatus, HoldForward, HoldDart, AnsweredNo, hvars
  <2>2. CASE PeerReinvite \/ Answered200
    BY <2>2 DEF PeerReinvite, Answered200
  <2>3. CASE MediaState \/ MediaRead \/ MediaPost
    BY <2>3 DEF MediaState, MediaRead, MediaPost
  <2>. QED BY <2>1, <2>2, <2>3 DEF HoldNext
<1>. QED BY <1>1, <1>2, HoldInvariant, PTL DEF HoldSpec
-----------------------------------------------------------------------------
(* What Dart will show when all that is under way has been handled: the    *)
(* flags of the last "held".                                               *)

LastHeld(q, h) ==
  \E k \in DOMAIN q :
    /\ q[k].kind = "held" /\ q[k].hold = h
    /\ \A j \in DOMAIN q : j > k => q[j].kind # "held"

WillShow(h) ==
  \/ LastHeld(holdMainQ, h)
  \/ ~HeldIn(holdMainQ) /\ LastHeld(holdDartQ, h)
  \/ ~HeldIn(holdMainQ) /\ ~HeldIn(holdDartQ) /\ holdState = h

(* Flags that Dart may end up with (FlagsShown).                           *)
Fits(h) ==
  \/ h = FlagsNow
  \/ crossed /\ (h.local = localHold \/ h.remote = remoteHold)

(* A method or a callback that changes a flag reads the flags and posts    *)
(* them before it is done.  What it posts is right about its own side, as  *)
(* nobody else changes that; and about both sides, when the last change of *)
(* a flag found the other one not reporting.                               *)
FlagsInv ==
  /\ hw.pc = "post" => hw.hold.local = localHold
  /\ hc.pc = "post" => hc.hold.remote = remoteHold
  /\ ~crossed => /\ ~(Reports(hw) /\ Reports(hc))
                 /\ hw.pc = "post" => hw.hold = FlagsNow
                 /\ hc.pc = "post" => hc.hold = FlagsNow
  /\ ~Reports(hw) /\ ~Reports(hc) => \E h \in HoldFlags : WillShow(h) /\ Fits(h)

(* A note that joins a queue is the last one ...                           *)
LEMMA LastAppend ==
  ASSUME NEW S, NEW q \in Seq(S), NEW e \in S, NEW h
  PROVE  /\ e.kind = "held" => LastHeld(Append(q, e), e.hold)
         /\ e.kind # "held" /\ LastHeld(q, h) => LastHeld(Append(q, e), h)
         /\ e.kind # "held" /\ ~HeldIn(q) => ~HeldIn(Append(q, e))
<1>1. /\ \A k \in DOMAIN q : /\ k \in DOMAIN Append(q, e) /\ Append(q, e)[k] = q[k]
                             /\ k \in Nat /\ k < Len(q) + 1
      /\ Len(q) + 1 \in DOMAIN Append(q, e) /\ Append(q, e)[Len(q) + 1] = e
      /\ \A k \in DOMAIN Append(q, e) : k \in DOMAIN q \/ k = Len(q) + 1
      /\ \A k \in DOMAIN Append(q, e) : ~(k > Len(q) + 1)
  OBVIOUS
<1>2. e.kind = "held" => LastHeld(Append(q, e), e.hold)
  BY <1>1 DEF LastHeld
<1>3. ASSUME e.kind # "held", LastHeld(q, h) PROVE LastHeld(Append(q, e), h)
  <2>1. PICK k \in DOMAIN q :
          /\ q[k].kind = "held" /\ q[k].hold = h
          /\ \A j \in DOMAIN q : j > k => q[j].kind # "held"
    BY <1>3 DEF LastHeld
  <2>2. \A j \in DOMAIN Append(q, e) : j > k => Append(q, e)[j].kind # "held"
    BY <1>1, <1>3, <2>1
  <2>. QED BY <1>1, <2>1, <2>2 DEF LastHeld
<1>4. e.kind # "held" /\ ~HeldIn(q) => ~HeldIn(Append(q, e))
  BY <1>1 DEF HeldIn
<1>. QED BY <1>2, <1>3, <1>4

(* ... and one that leaves it matters only when no other "held" is there.  *)
LEMMA LastTail ==
  ASSUME NEW S, NEW q \in Seq(S), q # <<>>, NEW h
  PROVE  /\ LastHeld(q, h) => \/ LastHeld(Tail(q), h)
                              \/ /\ Head(q).kind = "held" /\ Head(q).hold = h
                                 /\ ~HeldIn(Tail(q))
         /\ ~HeldIn(q) => Head(q).kind # "held" /\ ~HeldIn(Tail(q))
<1>1. /\ \A k \in DOMAIN q : k > 1 => /\ k - 1 \in DOMAIN Tail(q)
                                      /\ Tail(q)[k - 1] = q[k]
      /\ \A k \in DOMAIN Tail(q) : /\ k \in Nat /\ k + 1 > 1 /\ k + 1 \in DOMAIN q
                                   /\ Tail(q)[k] = q[k + 1]
      /\ 1 \in DOMAIN q /\ Head(q) = q[1]
      /\ \A k \in DOMAIN q : k \in Nat /\ (k = 1 \/ k > 1)
  OBVIOUS
<1>2. ASSUME LastHeld(q, h)
      PROVE  \/ LastHeld(Tail(q), h)
             \/ /\ Head(q).kind = "held" /\ Head(q).hold = h
                /\ ~HeldIn(Tail(q))
  <2>1. PICK k \in DOMAIN q :
          /\ q[k].kind = "held" /\ q[k].hold = h
          /\ \A j \in DOMAIN q : j > k => q[j].kind # "held"
    BY <1>2 DEF LastHeld
  <2>2. CASE k = 1
    BY <1>1, <2>1, <2>2 DEF HeldIn
  <2>3. CASE k > 1
    <3>1. \A j \in DOMAIN Tail(q) : j > k - 1 => Tail(q)[j].kind # "held"
      <4>. TAKE j \in DOMAIN Tail(q)
      <4>. HAVE j > k - 1
      <4>1. j + 1 \in DOMAIN q /\ j + 1 > k /\ Tail(q)[j] = q[j + 1]
        BY <1>1
      <4>. QED BY <2>1, <4>1
    <3>. QED BY <1>1, <2>1, <2>3, <3>1 DEF LastHeld
  <2>. QED BY <1>1, <2>2, <2>3
<1>3. ~HeldIn(q) => Head(q).kind # "held" /\ ~HeldIn(Tail(q))
  BY <1>1 DEF HeldIn
<1>. QED BY <1>2, <1>3

(* What Dart will show stays, whatever else is posted, sent or handled, ...*)
LEMMA ShowKept ==
  ASSUME HoldInv, NEW h, WillShow(h),
         \/ UNCHANGED <<holdMainQ, holdDartQ, holdState>>
         \/ SendRefer \/ TransferStatus \/ HoldForward \/ HoldDart
  PROVE  WillShow(h)'
<1>0. /\ holdMainQ \in Seq(HoldEvents) /\ holdDartQ \in Seq(HoldNotes)
      /\ NoHold \in HoldFlags
  BY DEF HoldInv, QueuesOK, NoHold, HoldFlags
<1>1. CASE UNCHANGED <<holdMainQ, holdDartQ, holdState>>
  BY <1>1 DEF WillShow
<1>2. CASE SendRefer
  <2>. DEFINE e == HoldNote("transferring", NoHold)
  <2>1. e \in HoldNotes /\ e.kind # "held"
    BY <1>0 DEF HoldNote, HoldNotes
  <2>2. holdDartQ' = Append(holdDartQ, e) /\ UNCHANGED <<holdMainQ, holdState>>
    BY <1>2 DEF SendRefer, model
  <2>. HIDE DEF e
  <2>. QED BY <1>0, <2>1, <2>2, LastAppend DEF WillShow
<1>3. CASE TransferStatus
  <2>. DEFINE e == HoldNote("transferred", NoHold)
  <2>1. e \in HoldEvents /\ e.kind # "held"
    BY <1>0 DEF HoldNote, HoldEvents
  <2>2. holdMainQ' = Append(holdMainQ, e) /\ UNCHANGED <<holdDartQ, holdState>>
    BY <1>3 DEF TransferStatus, model
  <2>. HIDE DEF e
  <2>. QED BY <1>0, <2>1, <2>2, LastAppend DEF WillShow
<1>4. CASE HoldForward
  <2>. DEFINE e == Head(holdMainQ)
  <2>1. /\ holdMainQ # <<>> /\ holdMainQ' = Tail(holdMainQ)
        /\ holdDartQ' = Append(holdDartQ, e) /\ holdState' = holdState
    BY <1>4 DEF HoldForward, model
  <2>2. e \in HoldNotes
    <3>1. e \in HoldEvents
      BY <1>0, <2>1
    <3>. QED BY <3>1 DEF HoldEvents, HoldNotes
  <2>3. /\ LastHeld(holdMainQ, h) => \/ LastHeld(holdMainQ', h)
                                     \/ /\ e.kind = "held" /\ e.hold = h
                                        /\ ~HeldIn(holdMainQ')
        /\ ~HeldIn(holdMainQ) => e.kind # "held" /\ ~HeldIn(holdMainQ')
    BY <1>0, <2>1, LastTail
  <2>4. /\ e.kind = "held" => LastHeld(holdDartQ', e.hold)
        /\ e.kind # "held" /\ LastHeld(holdDartQ, h) => LastHeld(holdDartQ', h)
        /\ e.kind # "held" /\ ~HeldIn(holdDartQ) => ~HeldIn(holdDartQ')
    <3>. HIDE DEF e
    <3>. QED BY <1>0, <2>1, <2>2, LastAppend
  <2>. QED BY <2>1, <2>3, <2>4 DEF WillShow
<1>5. CASE HoldDart
  <2>. DEFINE n == Head(holdDartQ)
  <2>1. /\ holdDartQ # <<>> /\ holdDartQ' = Tail(holdDartQ) /\ holdMainQ' = holdMainQ
        /\ IF n.kind = "held" THEN holdState' = n.hold ELSE holdState' = holdState
    BY <1>5 DEF HoldDart, OnHeld
  <2>2. /\ LastHeld(holdDartQ, h) => \/ LastHeld(holdDartQ', h)
                                     \/ /\ n.kind = "held" /\ n.hold = h
                                        /\ ~HeldIn(holdDartQ')
        /\ ~HeldIn(holdDartQ) => n.kind # "held" /\ ~HeldIn(holdDartQ')
    BY <1>0, <2>1, LastTail
  <2>. QED BY <2>1, <2>2 DEF WillShow
<1>. QED BY <1>1, <1>2, <1>3, <1>4, <1>5

(* ... until flags are posted anew.                                        *)
LEMMA ShowPosted ==
  ASSUME HoldInv, NEW h \in HoldFlags, PostHeld(h)
  PROVE  WillShow(h)'
<1>1. /\ HoldNote("held", h) \in HoldEvents /\ HoldNote("held", h).kind = "held"
      /\ HoldNote("held", h).hold = h
  BY DEF HoldNote, HoldEvents
<1>2. holdMainQ \in Seq(HoldEvents)
  BY DEF HoldInv, QueuesOK
<1>3. LastHeld(holdMainQ', h)
  BY <1>1, <1>2, LastAppend DEF PostHeld
<1>. QED BY <1>3 DEF WillShow

(* Steps that change no flag and neither begin nor end a report.           *)
LEMMA FlagsFrame ==
  ASSUME HoldInv, FlagsInv, UNCHANGED <<localHold, remoteHold, crossed>>,
         Reports(hw)' = Reports(hw), Reports(hc)' = Reports(hc),
         hw' = hw \/ hw'.pc # "post", hc' = hc \/ hc'.pc # "post",
         \/ UNCHANGED <<holdMainQ, holdDartQ, holdState>>
         \/ SendRefer \/ TransferStatus \/ HoldForward \/ HoldDart
  PROVE  FlagsInv'
<1>1. FlagsNow' = FlagsNow
  BY DEF FlagsNow
<1>2. \A h \in HoldFlags : WillShow(h) => WillShow(h)'
  BY ShowKept
<1>3. \A h \in HoldFlags : Fits(h) => Fits(h)'
  BY <1>1 DEF Fits
<1>4. ~Reports(hw)' /\ ~Reports(hc)' => \E h \in HoldFlags : WillShow(h)' /\ Fits(h)'
  BY <1>2, <1>3 DEF FlagsInv
<1>. QED BY <1>1, <1>4 DEF FlagsInv

(* A reading that is posted is what Dart will show ...                     *)
LEMMA FlagsPosted ==
  ASSUME HoldInv, NEW h \in HoldFlags, PostHeld(h), Fits(h),
         UNCHANGED <<localHold, remoteHold, crossed>>
  PROVE  \E g \in HoldFlags : WillShow(g)' /\ Fits(g)'
<1>1. FlagsNow' = FlagsNow
  BY DEF FlagsNow
<1>2. WillShow(h)' /\ Fits(h)'
  BY <1>1, ShowPosted DEF Fits
<1>. QED BY <1>2

(* ... and one under way leaves what is shown open.                        *)
LEMMA FlagsKeep == HoldInv /\ FlagsInv /\ [HoldNext]_hvars => FlagsInv'
<1>. SUFFICES ASSUME HoldInv, FlagsInv, [HoldNext]_hvars PROVE FlagsInv'
  OBVIOUS
<1>. USE DEF session, flags, queues, model
<1>0. /\ hw \in [pc: {"idle", "hold", "flag", "read", "post", "transfer"},
                 hold: HoldFlags]
      /\ hc \in [pc: {"idle", "info", "read", "post"}, hold: HoldFlags]
      /\ FlagsNow \in HoldFlags
      /\ FlagsNow.local = localHold /\ FlagsNow.remote = remoteHold
  BY DEF HoldInv, QueuesOK, FlagsNow, HoldFlags
<1>1. CASE HoldRequest \/ RequestFails \/ SendHold
  <2>1. /\ UNCHANGED <<localHold, remoteHold, crossed, hc, holdMainQ, holdDartQ,
                      holdState>>
        /\ hw'.pc \in {"idle", "hold", "flag", "transfer"}
        /\ hw.pc \notin {"read", "post"}
    BY <1>0, <1>1 DEF HoldRequest, RequestFails, SendHold
  <2>. QED BY <2>1, FlagsFrame DEF Reports
<1>2. CASE SetLocalHold
  <2>1. /\ hw'.pc = "read" /\ UNCHANGED <<remoteHold, hc>>
        /\ crossed' = Reports(hc)
    BY <1>0, <1>2 DEF SetLocalHold
  <2>. QED BY <2>1 DEF FlagsInv, Reports
<1>3. CASE ReadHold
  <2>1. /\ hw.pc = "read" /\ hw'.pc = "post" /\ hw'.hold = FlagsNow
        /\ UNCHANGED <<localHold, remoteHold, crossed, hc>>
    BY <1>0, <1>3 DEF ReadHold
  <2>2. FlagsNow' = FlagsNow
    BY <2>1 DEF FlagsNow
  <2>. QED BY <1>0, <2>1, <2>2 DEF FlagsInv, Reports
<1>4. CASE HoldDone
  <2>1. /\ hw.pc = "post" /\ hw'.pc = "idle" /\ PostHeld(hw.hold)
        /\ UNCHANGED <<localHold, remoteHold, crossed, hc>>
    BY <1>0, <1>4 DEF HoldDone
  <2>2. FlagsNow' = FlagsNow
    BY <2>1 DEF FlagsNow
  <2>3. Fits(hw.hold)
    BY <2>1 DEF FlagsInv, Fits
  <2>4. \E h \in HoldFlags : WillShow(h)' /\ Fits(h)'
    BY <1>0, <2>1, <2>3, FlagsPosted
  <2>. QED BY <2>1, <2>2, <2>4 DEF FlagsInv, Reports
<1>5. CASE SendRefer \/ TransferStatus \/ HoldForward \/ HoldDart
  <2>1. /\ UNCHANGED <<localHold, remoteHold, crossed, hc>>
        /\ \/ hw' = hw
           \/ hw.pc = "transfer" /\ hw'.pc = "idle"
    BY <1>0, <1>5 DEF SendRefer, TransferStatus, HoldForward, HoldDart
  <2>. QED BY <1>5, <2>1, FlagsFrame DEF Reports
<1>6. CASE PeerReinvite \/ Answered200
  <2>1. /\ UNCHANGED <<localHold, remoteHold, crossed, hw, holdMainQ, holdDartQ,
                      holdState>>
        /\ hc'.pc = "info" /\ hc.pc = "idle"
    BY <1>0, <1>6 DEF PeerReinvite, Answered200
  <2>. QED BY <2>1, FlagsFrame DEF Reports
<1>7. CASE AnsweredNo \/ UNCHANGED hvars
  <2>1. UNCHANGED <<localHold, remoteHold, crossed, hw, hc, holdMainQ, holdDartQ,
                    holdState>>
    BY <1>7 DEF AnsweredNo, hvars
  <2>. QED BY <2>1, FlagsFrame DEF Reports
<1>8. CASE MediaState
  <2>1. /\ UNCHANGED <<localHold, hw, holdMainQ, holdDartQ, holdState>>
        /\ hc.pc = "info"
        /\ \/ hc'.pc = "read" /\ crossed' = Reports(hw)
           \/ hc'.pc = "idle" /\ UNCHANGED <<remoteHold, crossed>>
    BY <1>0, <1>8 DEF MediaState
  <2>2. CASE hc'.pc = "read" /\ crossed' = Reports(hw)
    BY <2>1, <2>2 DEF FlagsInv, Reports
  <2>3. CASE hc'.pc = "idle" /\ UNCHANGED <<remoteHold, crossed>>
    BY <2>1, <2>3, FlagsFrame DEF Reports
  <2>. QED BY <2>1, <2>2, <2>3
<1>9. CASE MediaRead
  <2>1. /\ hc.pc = "read" /\ hc'.pc = "post" /\ hc'.hold = FlagsNow
        /\ UNCHANGED <<localHold, remoteHold, crossed, hw>>
    BY <1>0, <1>9 DEF MediaRead
  <2>2. FlagsNow' = FlagsNow
    BY <2>1 DEF FlagsNow
  <2>. QED BY <1>0, <2>1, <2>2 DEF FlagsInv, Reports
<1>10. CASE MediaPost
  <2>1. /\ hc.pc = "post" /\ hc'.pc = "idle" /\ PostHeld(hc.hold)
        /\ UNCHANGED <<localHold, remoteHold, crossed, hw>>
    BY <1>0, <1>10 DEF MediaPost
  <2>2. FlagsNow' = FlagsNow
    BY <2>1 DEF FlagsNow
  <2>3. Fits(hc.hold)
    BY <2>1 DEF FlagsInv, Fits
  <2>4. \E h \in HoldFlags : WillShow(h)' /\ Fits(h)'
    BY <1>0, <2>1, <2>3, FlagsPosted
  <2>. QED BY <2>1, <2>2, <2>4 DEF FlagsInv, Reports
<1>. QED BY <1>1, <1>2, <1>3, <1>4, <1>5, <1>6, <1>7, <1>8, <1>9, <1>10 DEF HoldNext

(* At rest Dart shows the flags of the engine, whichever of callHold and   *)
(* onCallMediaState posts last, unless the last change of a flag crossed a *)
(* report of the other; and then it is right about one side.               *)
THEOREM FlagsAreShown == HoldSpec => []FlagsShown
<1>1. HoldInit => FlagsInv
  <2>. SUFFICES ASSUME HoldInit PROVE FlagsInv
    OBVIOUS
  <2>1. hw.pc = "idle" /\ hc.pc = "idle" /\ holdState = FlagsNow
        /\ FlagsNow \in HoldFlags
    BY DEF HoldInit, FlagsNow, NoHold, HoldFlags
  <2>2. ~HeldIn(holdMainQ) /\ ~HeldIn(holdDartQ)
    BY DEF HoldInit, HeldIn
  <2>3. WillShow(FlagsNow) /\ Fits(FlagsNow)
    BY <2>1, <2>2 DEF WillShow, Fits
  <2>. QED BY <2>1, <2>3 DEF FlagsInv, Reports
<1>2. HoldInv /\ FlagsInv /\ [HoldNext]_hvars => FlagsInv'
  BY FlagsKeep
<1>3. FlagsInv => FlagsShown
  <2>. SUFFICES ASSUME FlagsInv, HoldQuiet PROVE FlagsShown
    BY DEF FlagsShown
  <2>1. PICK h \in HoldFlags : WillShow(h) /\ Fits(h)
    BY DEF FlagsInv, HoldQuiet, Reports
  <2>2. holdState = h
    BY <2>1 DEF HoldQuiet, WillShow, HeldIn, LastHeld
  <2>. QED BY <2>1, <2>2 DEF Fits, FlagsShown
<1>. QED BY <1>1, <1>2, <1>3, HoldInvariant, PTL DEF HoldSpec

-----------------------------------------------------------------------------
(* What HoldInv does not say of: the re-INVITE and the transfer under way, *)
(* and what Dart shows.                                                    *)
ShownTypes ==
  /\ pending \in {"none", "hold", "resume"}
  /\ refer \in BOOLEAN /\ crossed \in BOOLEAN
  /\ state \in {"connected", "holding", "held", "transferring"}
  /\ holdState \in HoldFlags

LEMMA ShownTyped == HoldInv /\ ShownTypes /\ [HoldNext]_hvars => ShownTypes'
<1>. SUFFICES ASSUME HoldInv, ShownTypes, [HoldNext]_hvars PROVE ShownTypes'
  OBVIOUS
<1>. USE DEF ShownTypes, session, queues, model
<1>0. Reports(hw) \in BOOLEAN /\ Reports(hc) \in BOOLEAN
  BY DEF Reports
<1>1. CASE \/ HoldRequest \/ RequestFails \/ ReadHold \/ HoldDone
           \/ SendHold \/ SendRefer \/ TransferStatus \/ AnsweredNo \/ Answered200
           \/ UNCHANGED hvars
  BY <1>1 DEF HoldRequest, RequestFails, ReadHold, HoldDone, SendHold,
              SendRefer, TransferStatus, AnsweredNo, Answered200, flags, hvars
<1>2. CASE \/ PeerReinvite \/ MediaRead \/ MediaPost \/ HoldForward
  BY <1>2 DEF PeerReinvite, MediaRead, MediaPost, HoldForward, flags
<1>4. CASE SetLocalHold \/ MediaState
  <2>1. crossed' = crossed \/ crossed' = Reports(hc) \/ crossed' = Reports(hw)
    BY <1>4 DEF SetLocalHold, MediaState
  <2>2. crossed' \in BOOLEAN
    BY <1>0, <2>1
  <2>3. UNCHANGED <<pending, refer, state, holdState>>
    BY <1>4 DEF SetLocalHold, MediaState
  <2>. QED BY <2>2, <2>3
<1>3. CASE HoldDart
  <2>1. Head(holdDartQ) \in HoldNotes
    BY <1>3 DEF HoldDart, HoldInv, QueuesOK
  <2>. QED BY <1>3, <2>1 DEF HoldDart, OnHeld, HoldNotes, flags
<1>. QED BY <1>1, <1>2, <1>3, <1>4 DEF HoldNext

(* Flags, session, queues and what Dart shows keep their types.            *)
THEOREM HoldTyped == HoldSpec => []HoldTypeOK
<1>1. HoldInit => ShownTypes
  <2>1. NoHold \in HoldFlags
    BY DEF NoHold, HoldFlags
  <2>. QED BY <2>1 DEF HoldInit, ShownTypes
<1>2. HoldInv /\ ShownTypes => HoldTypeOK
  <2>. SUFFICES ASSUME HoldInv, ShownTypes PROVE HoldTypeOK
    OBVIOUS
  <2>1. HoldEvents \subseteq HoldNotes
    BY DEF HoldEvents, HoldNotes
  <2>2. Seq(HoldEvents) \subseteq Seq(HoldNotes)
    BY <2>1
  <2>. QED BY <2>2 DEF HoldInv, QueuesOK, ShownTypes, HoldTypeOK
<1>. QED BY <1>1, <1>2, ShownTyped, HoldInvariant, PTL DEF HoldSpec
=============================================================================
