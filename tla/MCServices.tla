----------------------------- MODULE MCServices -----------------------------
(* The lists of the Dart models beside calls and messages, and Android's   *)
(* notification service, share no state: each behaviour runs one of them,  *)
(* and the others stay as they began.                                      *)
EXTENDS AccountsModel, Subscriptions, DevicesList, Cdrs, CallNotif

VARIABLE running

ServicesInit ==
  /\ running \in {"accounts", "subscriptions", "devices", "cdrs", "notif"}
  /\ AccInit /\ SubInit /\ CdrInit /\ NotifInit
  /\ DvcInit /\ (running # "devices" => present = Fixed /\ selAudioDevice = 1)

ServicesNext ==
  /\ UNCHANGED running
  /\ \/ running = "accounts"      /\ AccNext   /\ UNCHANGED <<svars, dvars, cvars, nvars>>
     \/ running = "subscriptions" /\ SubNext   /\ UNCHANGED <<avars, dvars, cvars, nvars>>
     \/ running = "devices"       /\ DvcNext   /\ UNCHANGED <<avars, svars, cvars, nvars>>
     \/ running = "cdrs"          /\ CdrNext   /\ UNCHANGED <<avars, svars, dvars, nvars>>
     \/ running = "notif"         /\ NotifNext /\ UNCHANGED <<avars, svars, dvars, cvars>>

ServicesSpec ==
  ServicesInit /\ [][ServicesNext]_<<running, avars, svars, dvars, cvars, nvars>>

(* Every variable keeps its type: ids in range, indexes within their       *)
(* lists, no message of an unknown kind under way.                         *)
ServicesTypeOK == AccTypeOK /\ SubTypeOK /\ DvcTypeOK /\ CdrTypeOK /\ NotifTypeOK
=============================================================================
