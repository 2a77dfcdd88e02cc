--------------------------- MODULE MCClientConnect ---------------------------
(* Model-checking instances of ClientConnect.                              *)
EXTENDS ClientConnect, TLC

ClientSymmetry == Permutations(Clients)

\* A mouse the system reads, and one vmulti device.
MCInterfaces == <<"ctl", "mouse", "msg">>
MCUsageOf == [f \in Files |-> CASE f = "ctl" -> "control" [] f = "msg" -> "message"
                               [] OTHER -> "other"]
=============================================================================
