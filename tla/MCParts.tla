------------------------------ MODULE MCParts -------------------------------
(* What goes on within calls, messages, and iOS's CallKit share no state:  *)
(* each behaviour runs one part, and the others stay as they began.        *)
EXTENDS Messages, CallHold, CallMixer, CallMedia, CxProvider

VARIABLE part

PartsInit ==
  /\ part \in {"messages", "hold", "mixer", "media", "callkit"}
  /\ MsgInit /\ HoldInit /\ MixInit /\ MediaInit /\ KitInit

PartsNext ==
  /\ UNCHANGED part
  /\ \/ part = "messages" /\ MsgNext   /\ UNCHANGED <<kvars, hvars, xvars, pvars>>
     \/ part = "callkit"  /\ KitNext   /\ UNCHANGED <<mvars, hvars, xvars, pvars>>
     \/ part = "hold"     /\ HoldNext  /\ UNCHANGED <<mvars, kvars, xvars, pvars>>
     \/ part = "mixer"    /\ MixNext   /\ UNCHANGED <<mvars, kvars, hvars, pvars>>
     \/ part = "media"    /\ MediaNext /\ UNCHANGED <<mvars, kvars, hvars, xvars>>

PartsSpec ==
  /\ PartsInit
  /\ [][PartsNext]_<<part, mvars, kvars, hvars, xvars, pvars>>
  /\ MsgFairness /\ KitFairness

(* Every variable of every part keeps its type: ids in range, indexes      *)
(* within their lists, no message of an unknown kind under way.            *)
PartsTypeOK == MsgTypeOK /\ HoldTypeOK /\ MixTypeOK /\ MediaTypeOK /\ KitTypeOK
=============================================================================
