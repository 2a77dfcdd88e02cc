------------------------------- MODULE StartIo -------------------------------
(***************************************************************************)
(* The serialised reads of SpecialStartIOTest/Driver.cpp.  HelloDDKRead    *)
(* marks its IRP pending, sets a cancel routine and inserts the IRP into a *)
(* KDEVICE_QUEUE; the caller that finds the queue idle runs MyStartIo, in  *)
(* its own context, until the queue is empty again.  Other callers insert  *)
(* and return.  Calls of HelloDDKRead run concurrently, one per IRP, and   *)
(* the I/O manager may cancel an outstanding IRP at any time.              *)
(***************************************************************************)
EXTENDS Naturals, Sequences

CONSTANTS Irps,        \* the read IRPs; the call HelloDDKRead(irp) is named by its irp
          Cancellable, \* the IRPs the I/O manager may cancel
          None

ASSUME StartIoAssumption == Cancellable \subseteq Irps /\ None \notin Irps

VARIABLES
    pc,            \* where the call for each IRP stands
    current,       \* the local variable Irp of the call's MyStartIo
    busy,          \* KDEVICE_QUEUE.Busy
    device_queue,  \* KDEVICE_QUEUE.DeviceListHead, the IRPs waiting in it
    cancelRoutine, \* whether the IRP's cancel routine is set
    cancel,        \* Irp->Cancel
    cancelling,    \* whether OnCancelIRP is running for the IRP
    completions,   \* how often IoCompleteRequest was called for the IRP
    status,        \* Irp->IoStatus.Status
    inserted,      \* history: the IRPs in the order KeInsertDeviceQueue saw them
    finished       \* history: the IRPs in the order MyStartIo completed them

vars == <<pc, current, busy, device_queue, cancelRoutine, cancel, cancelling,
          completions, status, inserted, finished>>

TypeOK ==
    /\ pc \in [Irps -> {"called", "marked", "waiting", "removing", "returned"}]
    /\ current \in [Irps -> Irps \cup {None}]
    /\ busy \in BOOLEAN
    /\ device_queue \in Seq(Irps)
    /\ cancelRoutine \in [Irps -> BOOLEAN]
    /\ cancel \in [Irps -> BOOLEAN]
    /\ cancelling \in [Irps -> BOOLEAN]
    /\ completions \in [Irps -> Nat]
    /\ status \in [Irps -> {"PENDING", "SUCCESS", "CANCELLED"}]
    /\ inserted \in Seq(Irps)
    /\ finished \in Seq(Irps)

\* CreateDevice has initialised the device queue: empty and not busy.
Init ==
    /\ pc = [c \in Irps |-> "called"]
    /\ current = [c \in Irps |-> None]
    /\ busy = FALSE
    /\ device_queue = <<>>
    /\ cancelRoutine = [c \in Irps |-> FALSE]
    /\ cancel = [c \in Irps |-> FALSE]
    /\ cancelling = [c \in Irps |-> FALSE]
    /\ completions = [c \in Irps |-> 0]
    /\ status = [c \in Irps |-> "PENDING"]
    /\ inserted = <<>>
    /\ finished = <<>>

(* A second IoCompleteRequest for one IRP stops the system (bug check      *)
(* MULTIPLE_IRP_COMPLETE_REQUESTS); nothing is said of what follows it.    *)
Running == \A i \in Irps : completions[i] <= 1

Complete(i, s) ==
    /\ completions' = [completions EXCEPT ![i] = @ + 1]
    /\ status' = [status EXCEPT ![i] = s]

-----------------------------------------------------------------------------
\* HelloDDKRead up to KeRaiseIrql: pending, and cancellable from here on.
MarkPending(c) ==
    /\ Running
    /\ pc[c] = "called"
    /\ pc' = [pc EXCEPT ![c] = "marked"]
    /\ cancelRoutine' = [cancelRoutine EXCEPT ![c] = TRUE]
    /\ UNCHANGED <<current, busy, device_queue, cancel, cancelling, completions,
                   status, inserted, finished>>

\* InsertDeviceQueue that tests Busy outside the queue's spin lock and starts the
\* device whenever the list is empty.
InsertDeviceQueue_IgnoresBusy(c) ==
    /\ Running
    /\ pc[c] = "marked"
    /\ inserted' = Append(inserted, c)
    /\ IF device_queue # <<>>
       THEN /\ device_queue' = Append(device_queue, c)
            /\ pc' = [pc EXCEPT ![c] = "returned"]
            /\ UNCHANGED <<busy, current>>
       ELSE /\ busy' = TRUE
            /\ current' = [current EXCEPT ![c] = c]
            /\ pc' = [pc EXCEPT ![c] = "waiting"]
            /\ UNCHANGED device_queue
    /\ UNCHANGED <<cancelRoutine, cancel, cancelling, completions, status, finished>>

\* InsertDeviceQueue that puts the IRP at the head of a busy queue.
InsertDeviceQueue_AtHead(c) ==
    /\ Running
    /\ pc[c] = "marked"
    /\ inserted' = Append(inserted, c)
    /\ IF busy
       THEN /\ device_queue' = <<c>> \o device_queue
            /\ pc' = [pc EXCEPT ![c] = "returned"]
            /\ UNCHANGED <<busy, current>>
       ELSE /\ busy' = TRUE
            /\ current' = [current EXCEPT ![c] = c]
            /\ pc' = [pc EXCEPT ![c] = "waiting"]
            /\ UNCHANGED device_queue
    /\ UNCHANGED <<cancelRoutine, cancel, cancelling, completions, status, finished>>

\* KeInsertDeviceQueue, atomic under the queue's own spin lock.  Busy: the IRP waits
\* and HelloDDKRead returns STATUS_PENDING.  Not busy: the queue becomes busy and the
\* caller enters MyStartIo with its own IRP.
InsertDeviceQueue(c) ==
    /\ Running
    /\ pc[c] = "marked"
    /\ inserted' = Append(inserted, c)
    /\ IF busy
       THEN /\ device_queue' = Append(device_queue, c)
            /\ pc' = [pc EXCEPT ![c] = "returned"]
            /\ UNCHANGED <<busy, current>>
       ELSE /\ busy' = TRUE
            /\ current' = [current EXCEPT ![c] = c]
            /\ pc' = [pc EXCEPT ![c] = "waiting"]
            /\ UNCHANGED device_queue
    /\ UNCHANGED <<cancelRoutine, cancel, cancelling, completions, status, finished>>

\* CompleteIrp that completes the call's own IRP in every round of the loop.
CompleteIrp_OwnIrp(c) ==
    /\ Running
    /\ pc[c] = "waiting"
    /\ Complete(c, "SUCCESS")
    /\ finished' = Append(finished, c)
    /\ pc' = [pc EXCEPT ![c] = "removing"]
    /\ UNCHANGED <<current, busy, device_queue, cancelRoutine, cancel, cancelling, inserted>>

\* MyStartIo after its three-second wait: complete the IRP with success.  Its cancel
\* routine stays set and nobody looks at Irp->Cancel.
CompleteIrp(c) ==
    /\ Running
    /\ pc[c] = "waiting"
    /\ Complete(current[c], "SUCCESS")
    /\ finished' = Append(finished, current[c])
    /\ pc' = [pc EXCEPT ![c] = "removing"]
    /\ UNCHANGED <<current, busy, device_queue, cancelRoutine, cancel, cancelling, inserted>>

\* RemoveDeviceQueue that leaves the queue busy when the loop ends.
RemoveDeviceQueue_StaysBusy(c) ==
    /\ Running
    /\ pc[c] = "removing"
    /\ IF device_queue = <<>>
       THEN /\ current' = [current EXCEPT ![c] = None]
            /\ pc' = [pc EXCEPT ![c] = "returned"]
            /\ UNCHANGED device_queue
       ELSE /\ device_queue' = Tail(device_queue)
            /\ current' = [current EXCEPT ![c] = Head(device_queue)]
            /\ pc' = [pc EXCEPT ![c] = "waiting"]
    /\ UNCHANGED <<busy, cancelRoutine, cancel, cancelling, completions, status,
                   inserted, finished>>

\* RemoveDeviceQueue without the test for NULL: the loop goes on with no IRP.
RemoveDeviceQueue_NoNullTest(c) ==
    /\ Running
    /\ pc[c] = "removing"
    /\ busy' = (device_queue # <<>>)
    /\ device_queue' = IF device_queue = <<>> THEN <<>> ELSE Tail(device_queue)
    /\ current' = [current EXCEPT
                     ![c] = IF device_queue = <<>> THEN None ELSE Head(device_queue)]
    /\ pc' = [pc EXCEPT ![c] = "waiting"]
    /\ UNCHANGED <<cancelRoutine, cancel, cancelling, completions, status,
                   inserted, finished>>

\* KeRemoveDeviceQueue: the next IRP, or none, and then the queue is no longer busy,
\* the loop ends and HelloDDKRead returns STATUS_PENDING.
RemoveDeviceQueue(c) ==
    /\ Running
    /\ pc[c] = "removing"
    /\ IF device_queue = <<>>
       THEN /\ busy' = FALSE
            /\ current' = [current EXCEPT ![c] = None]
            /\ pc' = [pc EXCEPT ![c] = "returned"]
            /\ UNCHANGED device_queue
       ELSE /\ device_queue' = Tail(device_queue)
            /\ current' = [current EXCEPT ![c] = Head(device_queue)]
            /\ pc' = [pc EXCEPT ![c] = "waiting"]
            /\ UNCHANGED busy
    /\ UNCHANGED <<cancelRoutine, cancel, cancelling, completions, status,
                   inserted, finished>>

-----------------------------------------------------------------------------
\* The I/O manager's IoCancelIrp on an outstanding IRP: set Irp->Cancel, take the
\* cancel routine out of the IRP and call it, if there is one.
IoCancelIrp(i) ==
    /\ Running
    /\ i \in Cancellable /\ ~cancel[i] /\ completions[i] = 0
    /\ cancel' = [cancel EXCEPT ![i] = TRUE]
    /\ cancelling' = [cancelling EXCEPT ![i] = cancelRoutine[i]]
    /\ cancelRoutine' = [cancelRoutine EXCEPT ![i] = FALSE]
    /\ UNCHANGED <<pc, current, busy, device_queue, completions, status, inserted, finished>>

\* OnCancelIRP that completes its IRP once too often by itself.
OnCancelIRP_NotReset(i) ==
    /\ Running
    /\ cancelling[i]
    /\ Complete(i, "CANCELLED")
    /\ UNCHANGED <<pc, current, busy, device_queue, cancelRoutine, cancel, cancelling,
                   inserted, finished>>

\* OnCancelIRP: complete the IRP as cancelled.  It is not taken out of the device
\* queue, and MyStartIo is not told.
OnCancelIRP(i) ==
    /\ Running
    /\ cancelling[i]
    /\ cancelling' = [cancelling EXCEPT ![i] = FALSE]
    /\ Complete(i, "CANCELLED")
    /\ UNCHANGED <<pc, current, busy, device_queue, cancelRoutine, cancel,
                   inserted, finished>>

-----------------------------------------------------------------------------
Call(c) == MarkPending(c) \/ InsertDeviceQueue(c) \/ CompleteIrp(c) \/ RemoveDeviceQueue(c)

Next == \E i \in Irps : Call(i) \/ IoCancelIrp(i) \/ OnCancelIRP(i)

Spec == Init /\ [][Next]_vars

(* A call that has entered HelloDDKRead goes on: its waits are bounded by  *)
(* three seconds.  Entering it is the application's choice.                *)
Fairness ==
    \A c \in Irps : WF_vars(InsertDeviceQueue(c) \/ CompleteIrp(c) \/ RemoveDeviceQueue(c))

FairSpec == Spec /\ Fairness

-----------------------------------------------------------------------------
(* Properties.                                                             *)

Serving(c) == pc[c] \in {"waiting", "removing"}

(* At most one call runs MyStartIo, the queue is busy exactly while one    *)
(* does, and nothing waits in a queue that nobody serves.                  *)
OneServer ==
    /\ \A c, d \in Irps : Serving(c) /\ Serving(d) => c = d
    /\ busy <=> \E c \in Irps : Serving(c)
    /\ device_queue # <<>> => busy

(* Without cancellation every IRP is completed at most once, and by the    *)
(* loop: never by two servers, never again after it left the queue.        *)
CompletedAtMostOnce == \A i \in Irps : completions[i] <= 1

(* Only a cancelled IRP can ever be completed twice: the race is between   *)
(* OnCancelIRP and MyStartIo, never between two of the same kind.          *)
TwiceOnlyWhenCancelled ==
    \A i \in Irps : completions[i] > 1 =>
        /\ cancel[i] /\ ~cancelling[i]
        /\ \E k \in 1..Len(finished) : finished[k] = i

(* The device is a serial server (module SerialDevice), whoever runs       *)
(* MyStartIo at the moment: IRPs are finished one at a time, in the order  *)
(* of their insertion.                                                     *)
Backlog ==
    IF \E c \in Irps : pc[c] = "waiting"
    THEN <<current[CHOOSE c \in Irps : pc[c] = "waiting"]>> \o device_queue
    ELSE device_queue

Device == INSTANCE SerialDevice WITH backlog <- Backlog, served <- finished

ImplementsSerialDevice == Device!Spec

(* Every read that has been handed to the queue is eventually completed,   *)
(* though its own caller may have returned long ago, whatever other reads  *)
(* are cancelled: unless the race of a cancellation stops the system.      *)
EveryReadCompletes ==
    \A i \in Irps : pc[i] = "marked" ~> (completions[i] > 0 \/ ~Running)

(* The comment in OnCancelIRP says that it sets the completion status to   *)
(* STATUS_CANCELLED: an IRP completed so is not completed as anything else.*)
CancelledStaysCancelled ==
    [][\A i \in Irps : status[i] = "CANCELLED" => status'[i] = "CANCELLED"]_vars
=============================================================================
