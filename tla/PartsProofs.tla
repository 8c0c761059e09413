---------------------------- MODULE PartsProofs -----------------------------
(***************************************************************************)
(* The parts next to each other: a behaviour of PartsSpec is one of every  *)
(* part, so that what is proved of a part holds with the others around it. *)
(***************************************************************************)
EXTENDS MCParts, InCallProofs, MessagesProofs, CxProviderProofs

(* Every step is one of the part that runs, and the others rest.           *)
LEMMA PartsSteps ==
  ASSUME [PartsNext]_<<part, mvars, kvars, hvars, xvars, pvars>>
  PROVE  /\ [MsgNext]_mvars /\ [HoldNext]_hvars /\ [MixNext]_xvars
         /\ [MediaNext]_pvars /\ [KitNext]_kvars
  BY DEF PartsNext

(* Messages, hold, mixer, media and CallKit, each by itself.               *)
THEOREM PartsApart ==
  PartsSpec => MsgSpec /\ HoldSpec /\ MixSpec /\ MediaSpec /\ KitSpec
<1>1. PartsInit => MsgInit /\ HoldInit /\ MixInit /\ MediaInit /\ KitInit
  BY DEF PartsInit
<1>. QED BY <1>1, PartsSteps, PTL
         DEF PartsSpec, MsgSpec, MsgSafe, HoldSpec, MixSpec, MediaSpec, KitSpec, KitSafe

(* Every variable of every part keeps its type: for any number of calls,   *)
(* messages, players, recorders and events under way, and with no          *)
(* assumption on what may overlap.                                         *)
THEOREM PartsTyped == PartsSpec => []PartsTypeOK
<1>1. MsgTypeOK /\ HoldTypeOK /\ MixTypeOK /\ MediaTypeOK /\ KitTypeOK => PartsTypeOK
  BY DEF PartsTypeOK
<1>2. MsgSpec => MsgSafe
  BY DEF MsgSpec
<1>. QED BY <1>1, <1>2, PartsApart, MessagesTyped, HoldTyped, MixTyped, MediaTyped,
            KitTyped, PTL
=============================================================================
