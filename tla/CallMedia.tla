----------------------------- MODULE CallMedia ------------------------------
(***************************************************************************)
(* Files and tones played into a call, and the recording of it: the        *)
(* methods callPlayFile, callPlayTone, callStopPlayFile, callRecordFile    *)
(* and callStopRecordFile of the Android engine, onEof2 of a player, and   *)
(* the player that CallModel shows.                                        *)
(*                                                                         *)
(* onEof2 runs on a media thread and the end of the call on a PJSIP        *)
(* thread, at any moment between two steps of a method.  port is PJSIP's: what a player or tone generator is doing.  A  *)
(* port with no call to play to is not asked for sound and never ends.     *)
(***************************************************************************)
EXTENDS Naturals, Sequences, FiniteSets

CONSTANTS
  MaxPlayers,    \* players a behaviour creates (a bound)
  MaxRecorders   \* recorders a behaviour creates (a bound)

ASSUME MediaAssumption == MaxPlayers \in Nat /\ MaxRecorders \in Nat

VARIABLES
  upCall,        \* the call is there, with active audio
  players, nextPlayerId,
  recorder,      \* recorders[callId], 0 when there is none
  port,          \* of each player
  tones,         \* tone generators that play, by the id of their player
  openRecs,      \* recorders whose file is open
  lastRec,       \* how many have been created
  pw,            \* the method on the worker
  playerMainQ, playerDartQ,
  playerId       \* CallModel._playerId

pvars == <<upCall, players, nextPlayerId, recorder, port, tones, openRecs, lastRec,
           pw, playerMainQ, playerDartQ, playerId>>

recording   == <<recorder, openRecs, lastRec>>
playing     == <<players, nextPlayerId, port, tones>>
playerFlow  == <<playerMainQ, playerDartQ, playerId>>

PlayerIds   == 1..MaxPlayers
RecorderIds == 1..MaxRecorders
PlayerNotes == [kind: {"started", "stopped", "reply"}, id: PlayerIds]
PlayerNote(kind, id) == [kind |-> kind, id |-> id]
IdlePw == [pc |-> "idle", id |-> 0]

MediaTypeOK ==
  /\ upCall \in BOOLEAN
  /\ players \subseteq 1..nextPlayerId
  /\ nextPlayerId \in 1..(MaxPlayers + 1)
  /\ recorder \in RecorderIds \cup {0} /\ openRecs \subseteq RecorderIds
  /\ lastRec \in 0..MaxRecorders
  /\ port \in [PlayerIds -> {"none", "plays", "ended"}]
  /\ tones \subseteq players \cup {id \in PlayerIds : id < nextPlayerId}
  /\ pw \in [pc: {"idle", "put", "started", "delete", "record"},
             id: 0..(MaxPlayers + MaxRecorders)]
  /\ playerMainQ \in Seq(PlayerNotes) /\ playerDartQ \in Seq(PlayerNotes)
  /\ playerId \in 0..MaxPlayers
  /\ \A id \in PlayerIds : id > nextPlayerId => port[id] = "none"

MediaInit ==
  /\ upCall = TRUE
  /\ players = {} /\ nextPlayerId = 1
  /\ recorder = 0 /\ openRecs = {} /\ lastRec = 0
  /\ port = [id \in PlayerIds |-> "none"] /\ tones = {}
  /\ pw = IdlePw
  /\ playerMainQ = <<>> /\ playerDartQ = <<>> /\ playerId = 0

PostPlayer(kind, id) == playerMainQ' = Append(playerMainQ, PlayerNote(kind, id))
ReplyPlayer(id) == playerDartQ' = Append(playerDartQ, PlayerNote("reply", id))

-----------------------------------------------------------------------------
(* Players.                                                                *)

\* callPlayFile: the player is created and plays before it is in the map.
\* loop makes no difference here, see Eof.
PlayFile ==
  /\ pw.pc = "idle" /\ upCall /\ nextPlayerId \in PlayerIds
  /\ port' = [port EXCEPT ![nextPlayerId] = "plays"]
  /\ pw' = [pc |-> "put", id |-> nextPlayerId]
  /\ UNCHANGED <<upCall, players, nextPlayerId, tones, recording, playerFlow>>

PlayPut ==
  /\ pw.pc = "put"
  /\ players' = players \cup {pw.id}
  /\ nextPlayerId' = nextPlayerId + 1
  /\ pw' = [pc |-> "started", id |-> pw.id]
  /\ UNCHANGED <<upCall, port, tones, recording, playerFlow>>

PlayStarted ==
  /\ pw.pc = "started"
  /\ PostPlayer("started", pw.id)
  /\ ReplyPlayer(pw.id)
  /\ pw' = IdlePw
  /\ UNCHANGED <<upCall, playing, recording, playerId>>

\* Mutant: only a player of the map is reported.
EofKnown(id) ==
  /\ upCall /\ port[id] = "plays"
  /\ port' = [port EXCEPT ![id] = "ended"]
  /\ players' = players \ {id}
  /\ IF id \in players THEN PostPlayer("stopped", id) ELSE UNCHANGED playerMainQ
  /\ UNCHANGED <<upCall, nextPlayerId, tones, recording, pw, playerDartQ, playerId>>

\* onEof2 on a media thread.  PJSIP calls it at the end of each round of a
\* looped file too (media.hpp), so that a looped player also deletes itself.
Eof(id) ==
  /\ upCall /\ port[id] = "plays"
  /\ port' = [port EXCEPT ![id] = "ended"]
  /\ players' = players \ {id}
  /\ PostPlayer("stopped", id)
  /\ UNCHANGED <<upCall, nextPlayerId, tones, recording, pw, playerDartQ, playerId>>

\* callStopPlayFile takes the player out of the map; unknown ids fail.
StopPlayFile(id) ==
  /\ pw.pc = "idle" /\ id \in players
  /\ players' = players \ {id}
  /\ pw' = [pc |-> "delete", id |-> id]
  /\ UNCHANGED <<upCall, nextPlayerId, port, tones, recording, playerFlow>>

\* delete() ends what the player has created.
StopDelete ==
  /\ pw.pc = "delete"
  /\ port' = [port EXCEPT ![pw.id] = "ended"]
  /\ PostPlayer("stopped", pw.id)
  /\ pw' = IdlePw
  /\ UNCHANGED <<upCall, players, nextPlayerId, tones, recording, playerDartQ,
                 playerId>>

\* callPlayTone: the tone generator plays, a player stands in for it.
PlayTone ==
  /\ pw.pc = "idle" /\ upCall /\ nextPlayerId \in PlayerIds
  /\ tones' = tones \cup {nextPlayerId}
  /\ players' = players \cup {nextPlayerId}
  /\ nextPlayerId' = nextPlayerId + 1
  /\ UNCHANGED <<upCall, port, recording, pw, playerFlow>>

\* The digits have been played; nobody is told.
ToneEnds(id) ==
  /\ upCall /\ id \in tones
  /\ tones' = tones \ {id}
  /\ UNCHANGED <<upCall, players, nextPlayerId, port, recording, pw, playerFlow>>

-----------------------------------------------------------------------------
(* Recorders, and the end of the call.                                     *)

\* callRecordFile creates the recorder and joins it to call and microphone; it
\* does not look whether there is one already.
RecordFile ==
  /\ pw.pc = "idle" /\ upCall /\ lastRec < MaxRecorders
  /\ lastRec' = lastRec + 1
  /\ openRecs' = openRecs \cup {lastRec + 1}
  /\ pw' = [pc |-> "record", id |-> lastRec + 1]
  /\ UNCHANGED <<upCall, playing, recorder, playerFlow>>

RecordPut ==
  /\ pw.pc = "record"
  /\ recorder' = pw.id
  /\ pw' = IdlePw
  /\ UNCHANGED <<upCall, playing, openRecs, lastRec, playerFlow>>

StopRecordFile ==
  /\ pw.pc = "idle" /\ recorder # 0
  /\ recorder' = 0
  /\ openRecs' = openRecs \ {recorder}
  /\ UNCHANGED <<upCall, playing, lastRec, pw, playerFlow>>

\* Mutant: the recorder is forgotten, its file stays open.
CallEndsForgetting ==
  /\ upCall
  /\ upCall' = FALSE
  /\ recorder' = 0
  /\ UNCHANGED <<playing, openRecs, lastRec, pw, playerFlow>>

\* onCallState DISCONNECTED; players of the call are left as they are.
CallEnds ==
  /\ upCall
  /\ upCall' = FALSE
  /\ recorder' = 0
  /\ openRecs' = openRecs \ {recorder}
  /\ UNCHANGED <<playing, lastRec, pw, playerFlow>>

-----------------------------------------------------------------------------
(* Main thread and CallModel.                                              *)

PlayerForward ==
  /\ pw.pc = "idle" /\ playerMainQ # <<>>
  /\ playerDartQ' = Append(playerDartQ, Head(playerMainQ))
  /\ playerMainQ' = Tail(playerMainQ)
  /\ UNCHANGED <<upCall, playing, recording, pw, playerId>>

\* playFile after its await, and onPlayerStateChanged.
OnPlayer(n) ==
  playerId' = IF n.kind = "reply" THEN n.id
              ELSE IF n = PlayerNote("stopped", playerId) THEN 0 ELSE playerId

PlayerDart ==
  /\ playerDartQ # <<>>
  /\ playerDartQ' = Tail(playerDartQ)
  /\ OnPlayer(Head(playerDartQ))
  /\ UNCHANGED <<upCall, playing, recording, pw, playerMainQ>>

MediaNext ==
  \/ PlayFile \/ PlayPut \/ PlayStarted
  \/ \E id \in PlayerIds : Eof(id) \/ StopPlayFile(id) \/ ToneEnds(id)
  \/ StopDelete
  \/ PlayTone
  \/ RecordFile \/ RecordPut \/ StopRecordFile
  \/ CallEnds
  \/ PlayerForward \/ PlayerDart

MediaSpec == MediaInit /\ [][MediaNext]_pvars

-----------------------------------------------------------------------------
(* Properties.                                                             *)

(* At rest the player a call shows is one that plays: a file that was over *)
(* before the engine had noted its player is not shown as playing for ever.*)
PlayingShown ==
  pw.pc = "idle" /\ playerMainQ \o playerDartQ = <<>> /\ playerId # 0 =>
    port[playerId] = "plays"

\* The recorder of the map, and the one callRecordFile is about to put there.
InReach == {recorder} \cup (IF pw.pc = "record" THEN {pw.id} ELSE {})

(* A recording that goes on can be stopped: neither the end of the call,   *)
(* wherever it meets callRecordFile, nor stopping another one drops an open*)
(* recorder.  Only one put in its place does, which nothing closes then.   *)
RecordingHeld ==
  [][\A r \in openRecs \cap InReach :
       r \in InReach' \/ r \notin openRecs' \/ (r = recorder /\ recorder' > r)]_pvars

(* A player that is stopped falls silent: "Tone generators are treated as  *)
(* players so StopPlayFile can stop them." (SipCore.kt)                    *)
StopSilences == [][StopDelete => pw.id \notin tones']_pvars
=============================================================================
