---------------------------- MODULE ClientReports ----------------------------
(***************************************************************************)
(* The reports the vmulti client library (vmulti/client/client.c) sends.   *)
(*                                                                         *)
(* Every function fills the one controlReport buffer of its client, leaves *)
(* in place whatever earlier calls left in the rest of it, and hands all   *)
(* of it to the driver, which passes on the ReportLength bytes behind the  *)
(* header (VMulti).  A list of touches goes out as several reports.        *)
(*                                                                         *)
(* Contents are abstracted to where they come from: a byte is <<n, x>>     *)
(* when call number n has written it, x being the number of the touch it   *)
(* belongs to or the value of an id, a length or a count.                  *)
(*                                                                         *)
(* A message comes back through the message collection, whose few input    *)
(* buffers the system keeps for the handle until vmulti_read_message.      *)
(***************************************************************************)
EXTENDS Integers, Sequences

CONSTANTS MaxCalls,    \* bound on the calls of one client
          MaxTouches,  \* bound on actualCount
          InputBuffers \* what vmulti_connect sets with HidD_SetNumInputBuffers

ASSUME ClientReportsAssumption ==
    MaxCalls \in Nat /\ MaxTouches \in 0..255 /\ InputBuffers \in Nat \ {0}

CONTROL_REPORT_SIZE == 65
HeaderSize == 2   \* VMultiControlReportHeader: ReportID, ReportLength
TouchSize == 10   \* TOUCH: Status, ContactID, XValue, YValue, Width, Height
REPORTID_CONTROL == 64

\* The packed report structures: REPORTID and size.
ReportStruct ==
    [MOUSE          |-> [id |-> 3,  size |-> 7],   \* Button X Y WheelPosition
     RELATIVE_MOUSE |-> [id |-> 4,  size |-> 5],   \* Button X Y WheelPosition
     DIGI           |-> [id |-> 5,  size |-> 6],   \* Status X Y
     MTOUCH         |-> [id |-> 1,  size |-> 22],  \* Touch[2] ActualCount
     JOYSTICK       |-> [id |-> 6,  size |-> 9],   \* Throttle X Y Hat RX RY Buttons
     KEYBOARD       |-> [id |-> 7,  size |-> 9],   \* ShiftKeyFlags Reserved KeyCodes[6]
     MESSAGE        |-> [id |-> 16, size |-> 33]]  \* Message[32]
Kinds == DOMAIN ReportStruct

\* The report descriptor, which the driver declares apart from these structures: the
\* bits of each report's input fields behind the report id, data or constant padding.
Data(bits) == [bits |-> bits, data |-> TRUE]
Cnst(bits) == [bits |-> bits, data |-> FALSE]
MT_TOUCH_COLLECTION ==
    <<Data(1), Data(1), Data(1), Cnst(5), Data(8), Data(16), Data(16), Data(16), Data(16)>>
DefaultReportDescriptor ==
    [MOUSE          |-> <<Data(5), Cnst(3), Data(16), Data(16), Data(8)>>,
     RELATIVE_MOUSE |-> <<Data(5), Cnst(3), Data(16), Data(8)>>,
     DIGI           |-> <<Data(2), Cnst(6), Data(16), Data(16)>>,
     MTOUCH         |-> MT_TOUCH_COLLECTION \o MT_TOUCH_COLLECTION \o <<Data(8)>>,
     JOYSTICK       |-> <<Data(8), Data(16), Data(8), Data(8), Data(8), Data(16)>>,
     KEYBOARD       |-> <<Data(8), Cnst(8), Data(48)>>,
     MESSAGE        |-> <<Data(256)>>]
BitsBefore(fields) ==
    LET before[i \in 1..(Len(fields) + 1)] ==
          IF i = 1 THEN 0 ELSE before[i - 1] + fields[i - 1].bits
    IN  before
DeclaredSize ==
    [kind \in Kinds |-> LET fields == DefaultReportDescriptor[kind]
                       IN  1 + BitsBefore(fields)[Len(fields) + 1] \div 8]
\* The bytes in which a reader finds data.
DataBytes ==
    [kind \in Kinds |->
       LET fields == DefaultReportDescriptor[kind] IN
       UNION {(1 + BitsBefore(fields)[i] \div 8)..(1 + (BitsBefore(fields)[i + 1] - 1) \div 8)
                : i \in {j \in 1..Len(fields) : fields[j].data}}]

ActualCountByte == 1 + 2 * TouchSize

VARIABLES
    controlReport,       \* the bytes of the client's buffer
    calls,               \* the calls made: kind and, for touches, actualCount
    pc,                  \* "idle", or "touching" inside vmulti_update_multitouch
    numberOfTouchesSent,
    \* what the driver and the touch consumer make of it:
    delivered,           \* the report passed on last, and by which call it was sent
    frame,               \* the touch frame being put together: [need, got]
    frames,              \* the complete frames
    unread,              \* the message collection's input buffers: a message is named by
                         \* the call that wrote its contents
    received,            \* the messages vmulti_read_message has returned
    \* history, read by the properties only:
    written              \* the calls of vmulti_write_message that returned TRUE

receivers == <<delivered, frame, frames, unread, written>>
vars == <<controlReport, calls, pc, numberOfTouchesSent, receivers, received>>

Cells == (0..MaxCalls) \X (0..255)
NoFrame == [need |-> 0, got |-> <<>>]

TypeOK ==
    /\ controlReport \in [0..(CONTROL_REPORT_SIZE - 1) -> Cells]
    /\ calls \in Seq([kind : Kinds, count : 0..255])
    /\ pc \in {"idle", "touching"}
    /\ numberOfTouchesSent \in 0..256
    /\ delivered.call \in 0..Len(calls)
    /\ frame.need \in 0..255 /\ Len(frame.got) <= frame.need
    /\ unread \in Seq(0..Len(calls)) /\ Len(unread) <= InputBuffers
    /\ received \in Seq(0..Len(calls))
    /\ written \in Seq(1..Len(calls))

\* malloc leaves the buffer as it finds it: call number 0.
Init ==
    /\ controlReport = [o \in 0..(CONTROL_REPORT_SIZE - 1) |-> <<0, 0>>]
    /\ calls = <<>>
    /\ pc = "idle"
    /\ numberOfTouchesSent = 0
    /\ delivered = [call |-> 0, body |-> <<>>]
    /\ frame = NoFrame
    /\ frames = <<>>
    /\ unread = <<>>
    /\ received = <<>>
    /\ written = <<>>

-----------------------------------------------------------------------------
(* The receivers, as far as the library depends on them.                   *)

\* A touch report: its first touches, as many as are still missing.
Contacts(body, missing) ==
    [i \in 1..(IF missing < 2 THEN missing ELSE 2) |-> body[1 + (i - 1) * TouchSize]]

\* A count starts a frame; a report with count 0 carries on the one that is begun.
AddTouches(body) ==
    LET count == body[ActualCountByte][2]
        begun == IF count > 0 THEN [need |-> count, got |-> <<>>] ELSE frame
        now   == [begun EXCEPT !.got =
                    @ \o Contacts(body, begun.need - Len(begun.got))]
    IN  IF Len(now.got) = now.need
        THEN frame' = NoFrame /\ frames' = Append(frames, now.got)
        ELSE frame' = now /\ UNCHANGED frames

\* The oldest message gives way when all input buffers are in use.
AddMessage(n, body) ==
    /\ unread' = Append(IF Len(unread) = InputBuffers THEN Tail(unread) ELSE unread, body[1][1])
    /\ written' = Append(written, n)

\* WriteFile or HidD_SetOutputReport: the driver passes the report on, or refuses it.
HidOutput(n, sent) ==
    LET body == [o \in 0..(controlReport'[1][2] - 1) |-> controlReport'[HeaderSize + o]]
        id   == body[0][2]
    IN  IF ~sent THEN UNCHANGED receivers
        ELSE /\ delivered' = [call |-> n, body |-> body]
             /\ IF id = ReportStruct["MTOUCH"].id THEN AddTouches(body)
                                                  ELSE UNCHANGED <<frame, frames>>
             /\ IF id = ReportStruct["MESSAGE"].id THEN AddMessage(n, body)
                                                   ELSE UNCHANGED <<unread, written>>

-----------------------------------------------------------------------------
(* Filling the buffer.                                                     *)

Header(n, kind) ==
    [o \in {0, 1} |-> <<n, IF o = 0 THEN REPORTID_CONTROL ELSE ReportStruct[kind].size>>]

\* The report id and the bytes a function assigns from its arguments.
Body(n, kind, assigned) ==
    [o \in {HeaderSize + a : a \in {0} \cup assigned} |->
       <<n, IF o = HeaderSize THEN ReportStruct[kind].id ELSE 0>>]

\* Some bytes written over others.
Over(f, g) == [o \in DOMAIN f \cup DOMAIN g |-> IF o \in DOMAIN f THEN f[o] ELSE g[o]]
Fill(bytes) == controlReport' = Over(bytes, controlReport)

\* An update that returns FALSE when the report does not fit the buffer.
Update(kind, assigned) ==
    LET n == Len(calls) + 1 IN
    /\ pc = "idle" /\ n <= MaxCalls
    /\ CONTROL_REPORT_SIZE > HeaderSize + ReportStruct[kind].size
    /\ calls' = Append(calls, [kind |-> kind, count |-> 0])
    /\ Fill(Over(Header(n, kind), Body(n, kind, assigned)))
    /\ \E sent \in BOOLEAN : HidOutput(n, sent)
    /\ UNCHANGED <<pc, numberOfTouchesSent, received>>

vmulti_update_mouse == Update("MOUSE", 1..6)
vmulti_update_relative_mouse == Update("RELATIVE_MOUSE", 1..4)
vmulti_update_digi == Update("DIGI", 1..5)
vmulti_update_joystick == Update("JOYSTICK", 1..8)

\* A keyboard update that copies one key code too few.
vmulti_update_keyboard_DropsKey == Update("KEYBOARD", {1} \cup 3..7)

\* Reserved is not assigned.
vmulti_update_keyboard == Update("KEYBOARD", {1} \cup 3..8)

\* A message copied with the size of the whole buffer.
vmulti_write_message_CopiesAll == Update("MESSAGE", 1..(CONTROL_REPORT_SIZE - 1))

\* A message whose id, but not its contents, is copied.
vmulti_write_message_CopiesId == Update("MESSAGE", {})

\* vmulti_write_message: the id is put into the caller's report, all of it copied.
vmulti_write_message == Update("MESSAGE", 1..32)

\* vmulti_read_message: ReadFile waits for a message and takes the oldest.  It uses
\* neither the control handle nor the buffer, so it may run beside all other calls.
vmulti_read_message ==
    /\ unread # <<>>
    /\ received' = Append(received, Head(unread))
    /\ unread' = Tail(unread)
    /\ UNCHANGED <<controlReport, calls, pc, numberOfTouchesSent, delivered, frame, frames,
                   written>>

-----------------------------------------------------------------------------
(* vmulti_update_multitouch: the header once, then two touches a report.   *)

vmulti_update_multitouch ==
    LET n == Len(calls) + 1 IN
    /\ pc = "idle" /\ n <= MaxCalls
    /\ CONTROL_REPORT_SIZE > HeaderSize + ReportStruct["MTOUCH"].size
    /\ \E actualCount \in 0..MaxTouches :
         /\ calls' = Append(calls, [kind |-> "MTOUCH", count |-> actualCount])
         /\ pc' = IF actualCount > 0 THEN "touching" ELSE "idle"
    /\ Fill(Header(n, "MTOUCH"))
    /\ numberOfTouchesSent' = 0
    /\ UNCHANGED <<receivers, received>>

\* A slot's bytes carry the number of the touch in it, 0 for none.
TouchReport(n, first, second, count) ==
    [o \in HeaderSize..(HeaderSize + ActualCountByte) |->
       <<n, CASE o = HeaderSize                           -> ReportStruct["MTOUCH"].id
              [] o \in (HeaderSize + 1)..(HeaderSize + TouchSize) -> first
              [] o = HeaderSize + ActualCountByte         -> count
              [] OTHER                                    -> second>>]

\* A loop that goes on when a report has been refused.
SendNext_IgnoresFailure(n, actualCount, bytes) ==
    /\ Fill(bytes)
    /\ \E sent \in BOOLEAN : HidOutput(n, sent)
    /\ numberOfTouchesSent' = numberOfTouchesSent + 2
    /\ pc' = IF numberOfTouchesSent + 2 < actualCount THEN "touching" ELSE "idle"
    /\ UNCHANGED <<calls, received>>

\* The loop body once: the rest of it follows unless the report is refused.
SendNext(n, actualCount, bytes) ==
    /\ Fill(bytes)
    /\ \E sent \in BOOLEAN :
         /\ HidOutput(n, sent)
         /\ numberOfTouchesSent' = IF sent THEN numberOfTouchesSent + 2 ELSE numberOfTouchesSent
         /\ pc' = IF sent /\ numberOfTouchesSent + 2 < actualCount THEN "touching" ELSE "idle"
    /\ UNCHANGED <<calls, received>>

\* SendTouches that reads a touch behind the caller's last one.
SendTouches_ReadsBeyond ==
    LET n == Len(calls)
        actualCount == calls[n].count
        next == numberOfTouchesSent + 1
    IN  /\ pc = "touching"
        /\ SendNext(n, actualCount,
             TouchReport(n, next, next + 1, IF next = 1 THEN actualCount ELSE 0))

\* SendTouches that puts the count into every report.
SendTouches_RepeatsCount ==
    LET n == Len(calls)
        actualCount == calls[n].count
        next == numberOfTouchesSent + 1
    IN  /\ pc = "touching"
        /\ SendNext(n, actualCount,
             TouchReport(n, next, IF next < actualCount THEN next + 1 ELSE 0, actualCount))

\* The next two touches, the second slot cleared when only one is left; the first
\* report of a call carries the count, the others 0.
SendTouches ==
    LET n == Len(calls)
        actualCount == calls[n].count
        next == numberOfTouchesSent + 1
    IN  /\ pc = "touching"
        /\ SendNext(n, actualCount,
             TouchReport(n, next, IF next < actualCount THEN next + 1 ELSE 0,
                         IF next = 1 THEN actualCount ELSE 0))

-----------------------------------------------------------------------------
Next ==
    \/ vmulti_update_mouse \/ vmulti_update_relative_mouse \/ vmulti_update_digi
    \/ vmulti_update_joystick \/ vmulti_update_keyboard
    \/ vmulti_write_message \/ vmulti_read_message
    \/ vmulti_update_multitouch \/ SendTouches

Spec == Init /\ [][Next]_vars

-----------------------------------------------------------------------------
(* Properties.                                                             *)

(* No byte of an earlier report reaches the reader of a later one, and no  *)
(* byte from behind the caller's array of touches: a report is as long as  *)
(* the descriptor declares it, and its id and all the data the descriptor  *)
(* finds in it come from the arguments of the call that sent it.           *)
Sender == calls[delivered.call]
NothingStale ==
    delivered.call > 0 =>
       /\ DOMAIN delivered.body = 0..(DeclaredSize[Sender.kind] - 1)
       /\ \A o \in {0} \cup DataBytes[Sender.kind] : delivered.body[o][1] = delivered.call
       /\ Sender.kind = "MTOUCH" =>
            \A o \in 1..(2 * TouchSize) : delivered.body[o][2] <= Sender.count

(* Messages are read in the order in which they were written, each at most *)
(* once and with its own contents, and one is lost only when as many have  *)
(* been written after it as there are input buffers.                       *)
MessagesInOrder ==
    LET seen == received \o unread IN
    /\ \A i \in 1..(Len(seen) - 1) : seen[i] < seen[i + 1]
    /\ \A i \in 1..Len(seen) : \E j \in 1..Len(written) : written[j] = seen[i]
    /\ \A j \in 1..(Len(written)) :
         j + InputBuffers > Len(written) => \E i \in 1..Len(seen) : seen[i] = written[j]

(* Every frame a touch consumer completes is the list of touches of one    *)
(* call, all of them, in order, although any report may be refused and cut *)
(* a frame short.                                                          *)
TouchesOf(n) == [k \in 1..calls[n].count |-> <<n, k>>]
FramesAreWhole ==
    \A i \in 1..Len(frames) :
       \E n \in 1..Len(calls) : calls[n].kind = "MTOUCH" /\ frames[i] = TouchesOf(n)

(* vmulti_update_multitouch tells the truth: it returns TRUE exactly when  *)
(* the consumer has been given the complete frame.                         *)
ReturnsTrue == numberOfTouchesSent >= calls[Len(calls)].count
TrueMeansWholeFrame ==
    LET n == Len(calls) IN
    pc = "idle" /\ n > 0 /\ calls[n].kind = "MTOUCH" /\ calls[n].count > 0 =>
       (ReturnsTrue <=> \E i \in 1..Len(frames) : frames[i] = TouchesOf(n))
=============================================================================
