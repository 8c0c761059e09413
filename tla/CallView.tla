------------------------------ MODULE CallView ------------------------------
(***************************************************************************)
(* What the library promises about the list of calls: every call the       *)
(* engine has is shown once, and goes from the list after it has ended.    *)
(* Engine and list are decoupled: a call may be over before it is shown.   *)
(***************************************************************************)
CONSTANT Calls

VARIABLES
  life,   \* of each call in the engine: "none", "live" or "over"
  view    \* of each call in the list: "coming", "shown" or "past"

vvars == <<life, view>>

ViewInit == /\ life = [c \in Calls |-> "none"]
            /\ view = [c \in Calls |-> "coming"]

Begin(c) == /\ life[c] = "none"
            /\ life' = [life EXCEPT ![c] = "live"]
            /\ UNCHANGED view

End(c) == /\ life[c] = "live"
          /\ life' = [life EXCEPT ![c] = "over"]
          /\ UNCHANGED view

Show(c) == /\ life[c] # "none" /\ view[c] = "coming"
           /\ view' = [view EXCEPT ![c] = "shown"]
           /\ UNCHANGED life

Hide(c) == /\ life[c] = "over" /\ view[c] = "shown"
           /\ view' = [view EXCEPT ![c] = "past"]
           /\ UNCHANGED life

ViewNext == \E c \in Calls : Begin(c) \/ End(c) \/ Show(c) \/ Hide(c)

ViewSpec ==
  /\ ViewInit /\ [][ViewNext]_vvars
  /\ \A c \in Calls : WF_vvars(Show(c)) /\ WF_vvars(Hide(c))
=============================================================================
