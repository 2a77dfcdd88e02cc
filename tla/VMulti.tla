------------------------------- MODULE VMulti -------------------------------
(***************************************************************************)
(* The request handling of the vmulti HID minidriver (vmulti/sys/vmulti.c).*)
(*                                                                         *)
(* HIDCLASS sends internal device controls.  The default queue dispatches  *)
(* them in parallel, so that handlers run concurrently on one device       *)
(* context.  A read is parked in the manual ReportQueue; a write takes the *)
(* oldest parked read out of it, copies its report into the read's buffer  *)
(* and completes the read, then itself.  No lock is held between those     *)
(* steps: each handler is cut where another handler can be seen.           *)
(***************************************************************************)
EXTENDS Naturals, Sequences

CONSTANTS Requests,  \* the WDFREQUESTs HIDCLASS ever sends, one use of an IRP each
          Packets,   \* the parameters a request may carry, see PacketType
          MayCarry,  \* of those, the ones a given request may carry
          Modes,     \* the values of the DeviceMode byte
          MouseMode, \* DEVICE_MODE_MOUSE, the mode VMultiEvtDeviceAdd sets
          SizeOf,    \* the sizes the driver compares buffer lengths with
          None       \* no request, no value

Ioctls == {"READ_REPORT", "WRITE_REPORT", "SET_FEATURE", "GET_FEATURE",
           "GET_DEVICE_DESCRIPTOR", "GET_REPORT_DESCRIPTOR",
           "GET_DEVICE_ATTRIBUTES", "GET_STRING",
           "ACTIVATE_DEVICE", "DEACTIVATE_DEVICE"}

ReportIds == {"CONTROL", "MTOUCH", "FEATURE", "OTHER"}

StringIds == {"IMANUFACTURER", "IPRODUCT", "ISERIALNUMBER", "UNKNOWN"}

Statuses == {"PENDING", "SUCCESS", "BUFFER_TOO_SMALL", "INVALID_DEVICE_REQUEST",
             "INVALID_PARAMETER", "NOT_SUPPORTED", "NO_MORE_ENTRIES", "CANCELLED",
             "WDF_BUSY"}

(***************************************************************************)
(* What a handler reads of its request.  xferFits: the input (GET_FEATURE: *)
(* output) buffer holds a HID_XFER_PACKET; userBuffer: Irp->UserBuffer is  *)
(* not NULL; reportLength: the byte the control header carries.            *)
(***************************************************************************)
PacketType ==
    [ioctl : Ioctls, xferFits : BOOLEAN, userBuffer : BOOLEAN,
     reportId : ReportIds, reportBufferLen : Nat, reportLength : Nat,
     mode : Modes, stringId : StringIds, outputLen : Nat]

Sizes == {"ControlHeader", "FeatureReport", "MaxCountReport", "HidDescriptor",
          "ReportDescriptor", "DeviceAttributes"} \cup StringIds

\* HIDCLASS hands over at least the header of a control report: the unsigned
\* reportBufferLen - sizeof(header) does not wrap.
ASSUME VMultiAssumption ==
    /\ Packets \subseteq PacketType
    /\ MayCarry \in [Requests -> SUBSET Packets]
    /\ SizeOf \in [Sizes -> Nat \ {0}]
    /\ MouseMode \in Modes
    /\ None \notin Requests /\ None \notin Modes /\ Modes \cap Requests = {}
    /\ \A p \in Packets : p.reportBufferLen >= SizeOf["ControlHeader"]

VARIABLES
    pc,          \* where the handler of each request stands
    params,      \* the parameters of each request
    status,      \* its NTSTATUS
    information, \* its completion information (bytes)
    buffer,      \* what was put into its output buffer: a report, named by the
                 \* write that sent it, or a device mode
    reqRead,     \* the read a write handler has taken out of the ReportQueue
    ReportQueue, \* the manual queue of parked reads
    accepting,   \* FALSE once the framework purges the queue (device removal)
    DeviceMode,
    completions, \* how often each request has been completed
    \* history, read by the properties only:
    earlier,     \* the requests completed when this one was dispatched
    parked,      \* the reads parked when this one was dispatched
    arrived,     \* the reads, in the order they were parked
    delivered    \* the writes, in the order their reads were completed

history == <<earlier, parked, arrived, delivered>>
vars == <<pc, params, status, information, buffer, reqRead, ReportQueue, accepting,
          DeviceMode, completions, history>>

Locations == {"created", "dispatched", "queued", "taken", "matching", "holding",
              "replying", "done"}

Ioctl(r) == params[r].ioctl
IsRead(r) == Ioctl(r) = "READ_REPORT"
IsWrite(r) == Ioctl(r) = "WRITE_REPORT"

TypeOK ==
    /\ pc \in [Requests -> Locations]
    /\ params \in [Requests -> Packets]
    /\ status \in [Requests -> Statuses]
    /\ information \in [Requests -> Nat]
    /\ buffer \in [Requests -> Requests \cup Modes \cup {None}]
    /\ reqRead \in [Requests -> Requests \cup {None}]
    /\ ReportQueue \in Seq(Requests)
    /\ accepting \in BOOLEAN
    /\ DeviceMode \in Modes
    /\ completions \in [Requests -> Nat]
    /\ earlier \in [Requests -> SUBSET Requests]
    /\ parked \in [Requests -> SUBSET Requests]
    /\ arrived \in Seq(Requests)
    /\ delivered \in Seq(Requests)

\* VMultiEvtDeviceAdd has created both queues and set the mode.
Init ==
    /\ pc = [r \in Requests |-> "created"]
    /\ params \in [Requests -> Packets]
    /\ \A r \in Requests : params[r] \in MayCarry[r]
    /\ status = [r \in Requests |-> "PENDING"]
    /\ information = [r \in Requests |-> 0]
    /\ buffer = [r \in Requests |-> None]
    /\ reqRead = [r \in Requests |-> None]
    /\ ReportQueue = <<>>
    /\ accepting = TRUE
    /\ DeviceMode = MouseMode
    /\ completions = [r \in Requests |-> 0]
    /\ earlier = [r \in Requests |-> {}]
    /\ parked = [r \in Requests |-> {}]
    /\ arrived = <<>>
    /\ delivered = <<>>

-----------------------------------------------------------------------------
(* A handler has decided on r's status and bytes; CompleteRequest follows. *)
Reply(r, s, bytes) ==
    /\ pc' = [pc EXCEPT ![r] = "replying"]
    /\ status' = [status EXCEPT ![r] = s]
    /\ information' = [information EXCEPT ![r] = bytes]

(* The parallel default queue calls VMultiEvtInternalDeviceControl.        *)
Dispatch(r) ==
    /\ pc[r] = "created"
    /\ accepting
    /\ pc' = [pc EXCEPT ![r] = "dispatched"]
    /\ earlier' = [earlier EXCEPT ![r] = {q \in Requests : pc[q] = "done"}]
    /\ parked' = [parked EXCEPT ![r] = {q \in Requests : pc[q] = "queued"}]
    /\ UNCHANGED <<params, status, information, buffer, reqRead, ReportQueue,
                   accepting, DeviceMode, completions, arrived, delivered>>

\* A dispatch routine that returns early when a handler has failed.
CompleteRequest_OnSuccess(r) ==
    /\ pc[r] = "replying"
    /\ status[r] = "SUCCESS"
    /\ pc' = [pc EXCEPT ![r] = "done"]
    /\ completions' = [completions EXCEPT ![r] = @ + 1]
    /\ UNCHANGED <<params, status, information, buffer, reqRead, ReportQueue,
                   accepting, DeviceMode, history>>

\* WdfRequestComplete, at the end of the dispatch routine.
CompleteRequest(r) ==
    /\ pc[r] = "replying"
    /\ pc' = [pc EXCEPT ![r] = "done"]
    /\ completions' = [completions EXCEPT ![r] = @ + 1]
    /\ UNCHANGED <<params, status, information, buffer, reqRead, ReportQueue,
                   accepting, DeviceMode, history>>

-----------------------------------------------------------------------------
(* Reads.                                                                  *)

\* VMultiReadReport without the handover: the handler completes the read itself
\* although it has been forwarded.
VMultiReadReport_Completes(r) ==
    /\ pc[r] = "dispatched" /\ IsRead(r)
    /\ ReportQueue' = Append(ReportQueue, r)
    /\ Reply(r, "SUCCESS", 0)
    /\ UNCHANGED <<params, buffer, reqRead, accepting, DeviceMode, completions, history>>

\* VMultiReadReport: forward the read to the ReportQueue; when the queue refuses it
\* the handler completes it with the failure.
VMultiReadReport(r) ==
    /\ pc[r] = "dispatched" /\ IsRead(r)
    /\ \/ /\ accepting
          /\ ReportQueue' = Append(ReportQueue, r)
          /\ arrived' = Append(arrived, r)
          /\ pc' = [pc EXCEPT ![r] = "queued"]
          /\ UNCHANGED <<status, information>>
       \/ /\ ~accepting
          /\ Reply(r, "WDF_BUSY", 0)
          /\ UNCHANGED <<ReportQueue, arrived>>
    /\ UNCHANGED <<params, buffer, reqRead, accepting, DeviceMode, completions,
                   earlier, parked, delivered>>

-----------------------------------------------------------------------------
(* Writes.                                                                 *)

WriteStatus(p) ==
    CASE ~p.xferFits                -> "BUFFER_TOO_SMALL"
      [] p.xferFits /\ ~p.userBuffer -> "INVALID_DEVICE_REQUEST"
      [] OTHER ->
           IF /\ p.reportId = "CONTROL"
              /\ p.reportLength <= p.reportBufferLen - SizeOf["ControlHeader"]
           THEN "SUCCESS" ELSE "INVALID_PARAMETER"

\* VMultiWriteReport: the checks that come before VMultiProcessVendorReport.
VMultiWriteReport(r) ==
    /\ pc[r] = "dispatched" /\ IsWrite(r)
    /\ IF WriteStatus(params[r]) = "SUCCESS"
       THEN pc' = [pc EXCEPT ![r] = "matching"] /\ UNCHANGED <<status, information>>
       ELSE Reply(r, WriteStatus(params[r]), 0)
    /\ UNCHANGED <<params, buffer, reqRead, ReportQueue, accepting, DeviceMode,
                   completions, history>>

\* RetrieveNextRequest that looks at the queue without taking the read out of it.
RetrieveNextRequest_Peeks(w) ==
    /\ pc[w] = "matching"
    /\ ReportQueue # <<>>
    /\ reqRead' = [reqRead EXCEPT ![w] = Head(ReportQueue)]
    /\ pc' = [pc EXCEPT ![w] = "holding"]
    /\ UNCHANGED <<params, status, information, buffer, ReportQueue, accepting,
                   DeviceMode, completions, history>>

\* RetrieveNextRequest that takes the read parked last.
RetrieveNextRequest_TakesLast(w) ==
    LET n == Len(ReportQueue) IN
    /\ pc[w] = "matching" /\ n > 0
    /\ reqRead' = [reqRead EXCEPT ![w] = ReportQueue[n]]
    /\ ReportQueue' = SubSeq(ReportQueue, 1, n - 1)
    /\ pc' = [pc EXCEPT ![w] = "holding", ![ReportQueue[n]] = "taken"]
    /\ UNCHANGED <<params, status, information, buffer, accepting, DeviceMode,
                   completions, history>>

\* RetrieveNextRequest that leaves the last parked read alone.
RetrieveNextRequest_OffByOne(w) ==
    /\ pc[w] = "matching"
    /\ Len(ReportQueue) <= 1
    /\ Reply(w, "NO_MORE_ENTRIES", 0)
    /\ UNCHANGED <<params, buffer, reqRead, ReportQueue, accepting, DeviceMode,
                   completions, history>>

\* VMultiProcessVendorReport, first half: take the oldest parked read.  From here on
\* the read belongs to this handler alone; without a parked read the report is refused.
RetrieveNextRequest(w) ==
    /\ pc[w] = "matching"
    /\ \/ /\ ReportQueue # <<>>
          /\ reqRead' = [reqRead EXCEPT ![w] = Head(ReportQueue)]
          /\ ReportQueue' = Tail(ReportQueue)
          /\ pc' = [pc EXCEPT ![w] = "holding", ![Head(ReportQueue)] = "taken"]
          /\ UNCHANGED <<status, information>>
       \/ /\ ReportQueue = <<>>
          /\ Reply(w, "NO_MORE_ENTRIES", 0)
          /\ UNCHANGED <<reqRead, ReportQueue>>
    /\ UNCHANGED <<params, buffer, accepting, DeviceMode, completions, history>>

\* WdfRequestRetrieveOutputBuffer(reqRead, ReportBufferLen): refuses an empty buffer
\* and one shorter than the report.
OutputBufferFits(read, w) ==
    /\ params[read].outputLen > 0
    /\ params[read].outputLen >= params[w].reportLength

\* DeliverReport that reports success for a read it could not fill.
DeliverReport_IgnoresStatus(w) ==
    /\ pc[w] = "holding"
    /\ reqRead' = [reqRead EXCEPT ![w] = None]
    /\ Reply(w, "SUCCESS", params[w].reportLength)
    /\ UNCHANGED <<params, buffer, ReportQueue, accepting, DeviceMode, completions, history>>

\* DeliverReport that takes the header off the number of bytes once more.
DeliverReport_CountsHeader(w) ==
    LET read == reqRead[w] IN
    /\ pc[w] = "holding"
    /\ reqRead' = [reqRead EXCEPT ![w] = None]
    /\ buffer' = [buffer EXCEPT ![read] = w]
    /\ pc' = [pc EXCEPT ![w] = "replying", ![read] = "done"]
    /\ status' = [status EXCEPT ![w] = "SUCCESS", ![read] = "SUCCESS"]
    /\ information' = [information EXCEPT
                         ![w] = params[w].reportLength - SizeOf["ControlHeader"],
                         ![read] = params[w].reportLength]
    /\ completions' = [completions EXCEPT ![read] = @ + 1]
    /\ delivered' = Append(delivered, w)
    /\ UNCHANGED <<params, ReportQueue, accepting, DeviceMode, earlier, parked, arrived>>

\* DeliverReport that answers the write at once and fills the read from a work item.
DeliverReport_Deferred(w) ==
    LET read == reqRead[w] IN
    /\ read # None
    /\ \/ /\ pc[w] = "holding"
          /\ Reply(w, "SUCCESS", params[w].reportLength)
          /\ UNCHANGED <<reqRead, buffer, completions, delivered>>
       \/ /\ pc[w] = "done"
          /\ reqRead' = [reqRead EXCEPT ![w] = None]
          /\ buffer' = [buffer EXCEPT ![read] = w]
          /\ pc' = [pc EXCEPT ![read] = "done"]
          /\ status' = [status EXCEPT ![read] = "SUCCESS"]
          /\ completions' = [completions EXCEPT ![read] = @ + 1]
          /\ delivered' = Append(delivered, w)
          /\ UNCHANGED information
    /\ UNCHANGED <<params, ReportQueue, accepting, DeviceMode, earlier, parked, arrived>>

\* VMultiProcessVendorReport, second half.  Success: copy the report, complete the
\* read, account for the bytes.  Failure: the write fails and the handler returns
\* without completing or requeueing the read it holds.
DeliverReport(w) ==
    LET read == reqRead[w] IN
    /\ pc[w] = "holding"
    /\ reqRead' = [reqRead EXCEPT ![w] = None]
    /\ \/ /\ OutputBufferFits(read, w)
          /\ buffer' = [buffer EXCEPT ![read] = w]
          /\ pc' = [pc EXCEPT ![w] = "replying", ![read] = "done"]
          /\ status' = [status EXCEPT ![w] = "SUCCESS", ![read] = "SUCCESS"]
          /\ information' = [information EXCEPT ![w] = params[w].reportLength,
                                                ![read] = params[w].reportLength]
          /\ completions' = [completions EXCEPT ![read] = @ + 1]
          /\ delivered' = Append(delivered, w)
       \/ /\ ~OutputBufferFits(read, w)
          /\ Reply(w, "BUFFER_TOO_SMALL", 0)
          /\ UNCHANGED <<buffer, completions, delivered>>
    /\ UNCHANGED <<params, ReportQueue, accepting, DeviceMode, earlier, parked, arrived>>

-----------------------------------------------------------------------------
(* Feature reports.                                                        *)

\* The checks common to both; accepted: the packet passes those of its report id.
XferStatus(p, accepted) ==
    CASE ~p.xferFits                -> "BUFFER_TOO_SMALL"
      [] p.xferFits /\ ~p.userBuffer -> "INVALID_DEVICE_REQUEST"
      [] OTHER -> IF accepted THEN "SUCCESS" ELSE "INVALID_PARAMETER"

IsFeatureReport(p) ==
    p.reportId = "FEATURE" /\ p.reportBufferLen = SizeOf["FeatureReport"]

IsMaxCountReport(p) ==
    p.reportId = "MTOUCH" /\ p.reportBufferLen = SizeOf["MaxCountReport"]

\* VMultiSetFeature that stores the mode before it has checked the packet.
VMultiSetFeature_StoresFirst(r) ==
    /\ pc[r] = "dispatched" /\ Ioctl(r) = "SET_FEATURE"
    /\ DeviceMode' = params[r].mode
    /\ Reply(r, XferStatus(params[r], IsFeatureReport(params[r])), 0)
    /\ UNCHANGED <<params, buffer, reqRead, ReportQueue, accepting, completions, history>>

\* VMultiSetFeature: whatever byte the report carries becomes the device mode.
VMultiSetFeature(r) ==
    LET s == XferStatus(params[r], IsFeatureReport(params[r])) IN
    /\ pc[r] = "dispatched" /\ Ioctl(r) = "SET_FEATURE"
    /\ DeviceMode' = IF s = "SUCCESS" THEN params[r].mode ELSE DeviceMode
    /\ Reply(r, s, 0)
    /\ UNCHANGED <<params, buffer, reqRead, ReportQueue, accepting, completions, history>>

\* VMultiGetFeature: the maximum touch count is constant, the mode is read here.
VMultiGetFeature(r) ==
    LET p == params[r]
        s == XferStatus(p, IsFeatureReport(p) \/ IsMaxCountReport(p))
    IN  /\ pc[r] = "dispatched" /\ Ioctl(r) = "GET_FEATURE"
        /\ buffer' = [buffer EXCEPT ![r] =
                        IF s = "SUCCESS" /\ IsFeatureReport(p) THEN DeviceMode ELSE @]
        /\ Reply(r, s, 0)
        /\ UNCHANGED <<params, reqRead, ReportQueue, accepting, DeviceMode,
                       completions, history>>

-----------------------------------------------------------------------------
(* Requests the handler answers from constant data.                        *)

CopyOut(p, need, bytes) ==
    IF p.outputLen >= need THEN [s |-> "SUCCESS", n |-> bytes]
                           ELSE [s |-> "BUFFER_TOO_SMALL", n |-> 0]

\* GET_STRING: WdfRequestRetrieveOutputBuffer overwrites lenID with the length of the
\* caller's buffer, which is what is then copied and reported.
VMultiGetString(p) ==
    IF p.stringId = "UNKNOWN" THEN [s |-> "INVALID_PARAMETER", n |-> 0]
    ELSE CopyOut(p, SizeOf[p.stringId], p.outputLen)

ConstantReply(p) ==
    CASE p.ioctl = "GET_DEVICE_DESCRIPTOR" ->
             CopyOut(p, SizeOf["HidDescriptor"], SizeOf["HidDescriptor"])
      [] p.ioctl = "GET_REPORT_DESCRIPTOR" ->
             CopyOut(p, SizeOf["ReportDescriptor"], SizeOf["ReportDescriptor"])
      [] p.ioctl = "GET_DEVICE_ATTRIBUTES" ->
             CopyOut(p, SizeOf["DeviceAttributes"], SizeOf["DeviceAttributes"])
      [] p.ioctl = "GET_STRING" -> VMultiGetString(p)
      [] OTHER -> [s |-> "NOT_SUPPORTED", n |-> 0]

AnswerConstant(r) ==
    /\ pc[r] = "dispatched"
    /\ Ioctl(r) \notin {"READ_REPORT", "WRITE_REPORT", "SET_FEATURE", "GET_FEATURE"}
    /\ Reply(r, ConstantReply(params[r]).s, ConstantReply(params[r]).n)
    /\ UNCHANGED <<params, buffer, reqRead, ReportQueue, accepting, DeviceMode,
                   completions, history>>

-----------------------------------------------------------------------------
(* The framework: it owns the requests parked in the ReportQueue, and only *)
(* those, and completes them when they are cancelled or the queue purged.  *)

WithoutIndex(q, i) == [j \in 1..(Len(q) - 1) |-> IF j < i THEN q[j] ELSE q[j + 1]]

\* One parked read is cancelled, wherever in the queue it is.
CancelQueued(r) ==
    /\ pc[r] = "queued"
    /\ \E i \in 1..Len(ReportQueue) :
         ReportQueue[i] = r /\ ReportQueue' = WithoutIndex(ReportQueue, i)
    /\ pc' = [pc EXCEPT ![r] = "done"]
    /\ status' = [status EXCEPT ![r] = "CANCELLED"]
    /\ completions' = [completions EXCEPT ![r] = @ + 1]
    /\ UNCHANGED <<params, information, buffer, reqRead, accepting, DeviceMode, history>>

\* The device is removed: nothing is accepted any more, all parked reads are cancelled.
PurgeQueues ==
    LET S == {r \in Requests : pc[r] = "queued"} IN
    /\ accepting
    /\ accepting' = FALSE
    /\ ReportQueue' = <<>>
    /\ pc' = [r \in Requests |-> IF r \in S THEN "done" ELSE pc[r]]
    /\ status' = [r \in Requests |-> IF r \in S THEN "CANCELLED" ELSE status[r]]
    /\ completions' = [r \in Requests |->
                         IF r \in S THEN completions[r] + 1 ELSE completions[r]]
    /\ UNCHANGED <<params, information, buffer, reqRead, DeviceMode, history>>

-----------------------------------------------------------------------------
Handler(r) ==
    \/ VMultiReadReport(r)
    \/ VMultiWriteReport(r)
    \/ RetrieveNextRequest(r)
    \/ DeliverReport(r)
    \/ VMultiSetFeature(r)
    \/ VMultiGetFeature(r)
    \/ AnswerConstant(r)
    \/ CompleteRequest(r)

Next ==
    \/ \E r \in Requests : Dispatch(r) \/ Handler(r) \/ CancelQueued(r)
    \/ PurgeQueues

Spec == Init /\ [][Next]_vars

(* A dispatched handler never blocks: its thread eventually takes each of  *)
(* its steps.  Nothing obliges HIDCLASS to send or to cancel anything.     *)
Fairness == \A r \in Requests : WF_vars(Handler(r))

FairSpec == Spec /\ Fairness

-----------------------------------------------------------------------------
(* Properties.                                                             *)

Pending(r) == pc[r] \in {"queued", "taken"}
Answered(w) == IsWrite(w) /\ status[w] = "SUCCESS" /\ pc[w] \in {"replying", "done"}

(* Every parked read is in the queue once, a read out of the queue is held *)
(* by at most one write handler, and a handler that has returned holds     *)
(* none: two concurrent writes never work on the same read.                *)
ParkedOnce == \A i, j \in 1..Len(ReportQueue) : ReportQueue[i] = ReportQueue[j] => i = j
ParkedIsQueued ==
    \A r \in Requests : pc[r] = "queued" <=> \E i \in 1..Len(ReportQueue) : ReportQueue[i] = r
HoldersHold ==
    \A w \in Requests : IF pc[w] = "holding"
                        THEN reqRead[w] \in Requests /\ pc[reqRead[w]] = "taken"
                        ELSE reqRead[w] = None
HeldByOne ==
    \A v, w \in Requests : reqRead[v] = reqRead[w] /\ reqRead[w] # None => v = w

ReadOwnership == ParkedOnce /\ ParkedIsQueued /\ HoldersHold /\ HeldByOne

(* No request is completed twice, and none counts as done without having   *)
(* been completed, whichever of handler, writer and framework does it.     *)
CompletedOnce ==
    \A r \in Requests : completions[r] = IF pc[r] = "done" THEN 1 ELSE 0

(* A write that reports success has put its report into exactly one read,  *)
(* which is completed; a write that fails, or has not come that far, into  *)
(* none; and no read is completed with success but by a write.             *)
ReportsMatchReads ==
    /\ \A w \in Requests : IsWrite(w) =>
         /\ Answered(w) <=> \E r \in Requests : buffer[r] = w
         /\ \A q, r \in Requests : buffer[q] = w /\ buffer[r] = w => q = r
    /\ \A r \in Requests : IsRead(r) =>
         (status[r] = "SUCCESS" <=> buffer[r] \in Requests)

(* Writer and reader are told the same number of bytes, and it fits the    *)
(* reader's buffer.                                                        *)
BytesAgree ==
    \A r, w \in Requests :
       IsRead(r) /\ IsWrite(w) /\ buffer[r] = w =>
          /\ pc[r] = "done"
          /\ information[r] = information[w]
          /\ information[r] = params[w].reportLength
          /\ information[r] <= params[r].outputLen

(* A client that waits for each of its writes sees its reports reach the   *)
(* reads in the order it wrote them: if one write was completed before     *)
(* another was dispatched, its read was completed first.                   *)
SerialWritesInOrder ==
    \A i, j \in 1..Len(delivered) : i < j => delivered[j] \notin earlier[delivered[i]]

(* The modes a GET_FEATURE may answer: the initial one, while no           *)
(* SET_FEATURE had completed before the get was dispatched; or that of a   *)
(* SET_FEATURE not yet superseded by a completed one.                      *)
SetDone(s) == Ioctl(s) = "SET_FEATURE" /\ status[s] = "SUCCESS"
CurrentMode(g, m) ==
    \/ m = MouseMode /\ \A s \in earlier[g] : ~SetDone(s)
    \/ \E s \in Requests :
         /\ SetDone(s) /\ params[s].mode = m /\ g \notin earlier[s]
         /\ \A t \in earlier[g] : ~(SetDone(t) /\ s \in earlier[t])

(* GET_FEATURE never answers a mode that was out of date when it was       *)
(* dispatched, however gets and sets overlap.                              *)
FeatureIsFresh ==
    \A g \in Requests :
       Ioctl(g) = "GET_FEATURE" /\ buffer[g] # None => CurrentMode(g, buffer[g])

(* A write is refused for want of a read only if every read that was       *)
(* parked when the write was dispatched has meanwhile left the queue: no   *)
(* report is dropped while a read that could carry it sits there.          *)
RefusedOnlyWhenEmpty ==
    \A w \in Requests : status[w] = "NO_MORE_ENTRIES" =>
        \A r \in parked[w] : pc[r] # "queued"

(* For a client that waits for each of its writes, the reads are answered  *)
(* in the order in which they were parked (HIDCLASS reuses a few IRPs in   *)
(* turn and concatenates what they bring).                                 *)
ParkedBefore(q, r) ==
    \E i, j \in 1..Len(arrived) : i < j /\ arrived[i] = q /\ arrived[j] = r
OldestReadFirst ==
    \A q, r \in Requests :
       /\ IsRead(q) /\ IsRead(r) /\ buffer[q] # None /\ buffer[r] # None
       /\ buffer[q] \in earlier[buffer[r]]
       => ParkedBefore(q, r)

(* The driver is a rendezvous of reads and writes (module ReportPipe): the *)
(* many steps of concurrent handlers look like one step per report.        *)
Role(r) == IF IsRead(r) THEN "reader" ELSE IF IsWrite(r) THEN "writer" ELSE "neither"
Phase(r) ==
    IF Role(r) = "neither" \/ pc[r] \in {"created", "dispatched", "matching", "holding"}
    THEN "new"
    ELSE IF Pending(r) THEN "waiting"
    ELSE IF status[r] = "SUCCESS" THEN "answered" ELSE "dropped"

Pipe == INSTANCE ReportPipe WITH
            role <- [r \in Requests |-> Role(r)],
            phase <- [r \in Requests |-> Phase(r)],
            answer <- [r \in Requests |-> IF IsRead(r) THEN buffer[r] ELSE None]

\* Every behaviour of the driver is one of the rendezvous: a report changes hands
\* exactly when a write and a waiting read meet.
ImplementsPipe == Pipe!Spec

(* What the comment at VMultiReadReport promises of a read: it is deferred *)
(* until a write is there to match it.  So whenever it is deferred it is   *)
(* parked in the queue or in the hands of such a write.                    *)
DeferredUntilMatched ==
    \A r \in Requests :
       Pending(r) => pc[r] = "queued" \/ \E w \in Requests : reqRead[w] = r

(* Every request but a parked read is eventually completed.                *)
HandlersReply ==
    \A r \in Requests :
       pc[r] = "dispatched" /\ ~IsRead(r) ~> pc[r] = "done"
=============================================================================
