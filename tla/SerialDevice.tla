---------------------------- MODULE SerialDevice ----------------------------
(***************************************************************************)
(* What a StartIo driver promises: a device that serves one request at a   *)
(* time, in the order in which the requests were submitted.                *)
(***************************************************************************)
EXTENDS Sequences

CONSTANT Irps

VARIABLES backlog, \* the submitted requests not yet finished, oldest first
          served   \* the finished ones, in the order they were finished

Init == backlog = <<>> /\ served = <<>>

Submit(irp) ==
    /\ backlog' = Append(backlog, irp)
    /\ UNCHANGED served

Serve ==
    /\ backlog # <<>>
    /\ served' = Append(served, Head(backlog))
    /\ backlog' = Tail(backlog)

Next == Serve \/ \E irp \in Irps : Submit(irp)

Spec == Init /\ [][Next]_<<backlog, served>>
=============================================================================
