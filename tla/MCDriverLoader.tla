---------------------------- MODULE MCDriverLoader ---------------------------
(* Two programs load the same one-device driver and a third loads the      *)
(* driver that creates a second device.                                    *)
EXTENDS DriverLoader

MCDriverOf == [p \in Loaders |-> IF p = "p3" THEN "BasicFunction" ELSE "WDMBasicFunction"]
=============================================================================
