----------------------------- MODULE ManagerLife -----------------------------
(***************************************************************************)
(* What the rest of the plugin relies on of a dhcpManager: once started it *)
(* runs until Stop tells it to end or it gives up, and in either case it   *)
(* has one result to hand over, to one receiver.  EndpointLifecycle uses   *)
(* managers in this way; DHCPManager implements it.                        *)
(***************************************************************************)
VARIABLE status

Init == status = "none"

(* A loop may have given up before the last client is started.             *)
Begin == status = "none" /\ status' \in {"running", "exited"}
CloseStopChan == status = "running" /\ status' = "stopping"
End == status \in {"running", "stopping"} /\ status' = "exited"
ReceiveErrChan == status = "exited" /\ status' = "stopped"

Next == Begin \/ CloseStopChan \/ End \/ ReceiveErrChan

Spec == Init /\ [][Next]_status
=============================================================================
