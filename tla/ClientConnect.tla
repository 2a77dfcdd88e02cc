---------------------------- MODULE ClientConnect ----------------------------
(***************************************************************************)
(* How programs using the vmulti client library (vmulti/client/client.c)   *)
(* find and open the two vendor collections of the device.                 *)
(*                                                                         *)
(* vmulti_connect searches the present HID interfaces twice, opening each  *)
(* of them to ask what it is.  A handle is opened for reading and writing  *)
(* but shares reading only: while one is open, by a connected client or by *)
(* a search that is just looking, nobody else can open that interface.     *)
(* Clients are processes of their own; each system call is one step.       *)
(***************************************************************************)
EXTENDS Naturals, Sequences

CONSTANTS Clients,    \* the processes that use the library
          Interfaces, \* the HID interfaces, in the order SetupDi enumerates them
          UsageOf,    \* what CheckIfOurDevice finds out about each
          SystemHeld  \* the interfaces the system keeps open (mouse, keyboard)

Usages == {"control", "message"}
Files == {Interfaces[i] : i \in 1..Len(Interfaces)}
NoHandle == {"NULL", "INVALID", "GARBAGE"}

ASSUME ClientConnectAssumption ==
    /\ Interfaces \in Seq(Files)
    /\ UsageOf \in [Files -> Usages \cup {"other"}]
    /\ SystemHeld \subseteq Files
    /\ Clients \cap {"nobody", "system"} = {}
    /\ Files \cap NoHandle = {}

VARIABLES
    pc,        \* where each client is in the library
    target,    \* the usage its SearchMatchingHwID looks for
    index,     \* the loop variable of that search
    file,      \* the handle OpenDeviceInterface has open
    hControl,
    hMessage,
    result,    \* what vmulti_connect returned, "none" before it and after a disconnect
    holder,    \* who has each interface open
    \* history, read by the properties only:
    excuse     \* what the running or last connect has met: an interface of the wanted
               \* usage that was "busy", a system call that "failed"

vars == <<pc, target, index, file, hControl, hMessage, result, holder, excuse>>

TypeOK ==
    /\ pc \in [Clients -> {"unallocated", "ready", "searching", "checking", "buffers",
                           "closing", "closing message"}]
    /\ target \in [Clients -> Usages]
    /\ index \in [Clients -> 1..(Len(Interfaces) + 1)]
    /\ file \in [Clients -> Files \cup {"INVALID"}]
    /\ hControl \in [Clients -> Files \cup NoHandle]
    /\ hMessage \in [Clients -> Files \cup NoHandle]
    /\ result \in [Clients -> {"none", "TRUE", "FALSE"}]
    /\ holder \in [Files -> Clients \cup {"nobody", "system"}]
    /\ excuse \in [Clients -> SUBSET {"busy", "failed"}]

Init ==
    /\ pc = [c \in Clients |-> "unallocated"]
    /\ target = [c \in Clients |-> "control"]
    /\ index = [c \in Clients |-> 1]
    /\ file = [c \in Clients |-> "INVALID"]
    /\ hControl = [c \in Clients |-> "GARBAGE"]
    /\ hMessage = [c \in Clients |-> "GARBAGE"]
    /\ result = [c \in Clients |-> "none"]
    /\ holder = [f \in Files |-> IF f \in SystemHeld THEN "system" ELSE "nobody"]
    /\ excuse = [c \in Clients |-> {}]

-----------------------------------------------------------------------------
(* The caller.  It disconnects what it has connected, and connects or     *)
(* frees only what is not connected: a connect that returned FALSE leaves  *)
(* nothing to clean up.                                                    *)

\* malloc does not clear the structure.
vmulti_alloc(c) ==
    /\ pc[c] = "unallocated"
    /\ pc' = [pc EXCEPT ![c] = "ready"]
    /\ hControl' = [hControl EXCEPT ![c] = "GARBAGE"]
    /\ hMessage' = [hMessage EXCEPT ![c] = "GARBAGE"]
    /\ UNCHANGED <<target, index, file, result, holder, excuse>>

vmulti_free(c) ==
    /\ pc[c] = "ready" /\ result[c] # "TRUE"
    /\ pc' = [pc EXCEPT ![c] = "unallocated"]
    /\ UNCHANGED <<target, index, file, hControl, hMessage, result, holder, excuse>>

\* A search whose loop begins with the second interface.
vmulti_connect_SkipsFirst(c) ==
    /\ pc[c] = "ready" /\ result[c] # "TRUE"
    /\ pc' = [pc EXCEPT ![c] = "searching"]
    /\ target' = [target EXCEPT ![c] = "control"]
    /\ index' = [index EXCEPT ![c] = 2]
    /\ result' = [result EXCEPT ![c] = "none"]
    /\ excuse' = [excuse EXCEPT ![c] = {}]
    /\ UNCHANGED <<file, hControl, hMessage, holder>>

\* vmulti_connect begins with the search for the control collection.
vmulti_connect(c) ==
    /\ pc[c] = "ready" /\ result[c] # "TRUE"
    /\ pc' = [pc EXCEPT ![c] = "searching"]
    /\ target' = [target EXCEPT ![c] = "control"]
    /\ index' = [index EXCEPT ![c] = 1]
    /\ result' = [result EXCEPT ![c] = "none"]
    /\ excuse' = [excuse EXCEPT ![c] = {}]
    /\ UNCHANGED <<file, hControl, hMessage, holder>>

vmulti_disconnect(c) ==
    /\ pc[c] = "ready" /\ result[c] = "TRUE"
    /\ pc' = [pc EXCEPT ![c] = "closing"]
    /\ result' = [result EXCEPT ![c] = "none"]
    /\ UNCHANGED <<target, index, file, hControl, hMessage, holder, excuse>>

-----------------------------------------------------------------------------
(* SearchMatchingHwID and what it calls.                                   *)

Current(c) == Interfaces[index[c]]

\* CreateFile opens the next interface; when somebody has it open, or malloc or
\* SetupDiGetDeviceInterfaceDetail has failed, it is passed over.
OpenDeviceInterface(c) ==
    /\ pc[c] = "searching" /\ index[c] <= Len(Interfaces)
    /\ \/ /\ index' = [index EXCEPT ![c] = @ + 1]
          /\ excuse' = [excuse EXCEPT ![c] = @ \cup {"failed"}]
          /\ UNCHANGED <<holder, file, pc>>
       \/ /\ holder[Current(c)] = "nobody"
          /\ holder' = [holder EXCEPT ![Current(c)] = c]
          /\ file' = [file EXCEPT ![c] = Current(c)]
          /\ pc' = [pc EXCEPT ![c] = "checking"]
          /\ UNCHANGED <<index, excuse>>
       \/ /\ holder[Current(c)] # "nobody"
          /\ index' = [index EXCEPT ![c] = @ + 1]
          /\ excuse' = IF UsageOf[Current(c)] = target[c]
                       THEN [excuse EXCEPT ![c] = @ \cup {"busy"}] ELSE excuse
          /\ UNCHANGED <<holder, file, pc>>
    /\ UNCHANGED <<target, hControl, hMessage, result>>

\* When SetupDiGetDeviceInterfaceDetail has failed, the detail buffer is freed at once
\* and again at cleanup.  Either nothing comes of it (OpenDeviceInterface), or the heap
\* ends the process, and the system closes what it had open.
FreeTwice(c) ==
    /\ pc[c] = "searching" /\ index[c] <= Len(Interfaces)
    /\ holder' = [f \in Files |-> IF holder[f] = c THEN "nobody" ELSE holder[f]]
    /\ pc' = [pc EXCEPT ![c] = "unallocated"]
    /\ result' = [result EXCEPT ![c] = "none"]
    /\ UNCHANGED <<target, index, file, hControl, hMessage, excuse>>

\* The search returns the open handle: it becomes hControl, and the search for the
\* message collection begins, or hMessage.
SearchSucceeds(c) ==
    /\ file' = [file EXCEPT ![c] = "INVALID"]
    /\ IF target[c] = "control"
       THEN /\ hControl' = [hControl EXCEPT ![c] = file[c]]
            /\ target' = [target EXCEPT ![c] = "message"]
            /\ index' = [index EXCEPT ![c] = 1]
            /\ pc' = [pc EXCEPT ![c] = "searching"]
            /\ UNCHANGED hMessage
       ELSE /\ hMessage' = [hMessage EXCEPT ![c] = file[c]]
            /\ pc' = [pc EXCEPT ![c] = "buffers"]
            /\ UNCHANGED <<hControl, target, index>>

\* CheckIfOurDevice that compares the vendor and the product but not the usage.
CheckIfOurDevice_AnyUsage(c) ==
    /\ pc[c] = "checking"
    /\ UsageOf[file[c]] # "other"
    /\ SearchSucceeds(c)
    /\ UNCHANGED <<result, holder, excuse>>

\* OpenDeviceInterface that does not close what is not the wanted device.
CheckIfOurDevice_KeepsOpen(c) ==
    /\ pc[c] = "checking"
    /\ UsageOf[file[c]] # target[c]
    /\ file' = [file EXCEPT ![c] = "INVALID"]
    /\ index' = [index EXCEPT ![c] = @ + 1]
    /\ pc' = [pc EXCEPT ![c] = "searching"]
    /\ UNCHANGED <<target, hControl, hMessage, result, holder, excuse>>

\* A loop that counts on in its body as well as in its head.
CheckIfOurDevice_CountsTwice(c) ==
    /\ pc[c] = "checking"
    /\ UsageOf[file[c]] # target[c]
    /\ holder' = [holder EXCEPT ![file[c]] = "nobody"]
    /\ file' = [file EXCEPT ![c] = "INVALID"]
    /\ index' = [index EXCEPT ![c] = @ + 2]
    /\ pc' = [pc EXCEPT ![c] = "searching"]
    /\ UNCHANGED <<target, hControl, hMessage, result, excuse>>

\* CheckIfOurDevice: keep the handle when it is the wanted collection of ours, close it
\* otherwise.  A HidD call that fails also means no.  HidP_GetCaps, whose NTSTATUS the code
\* tests like a BOOLEAN and so never finds failed, succeeds on preparsed data just obtained.
CheckIfOurDevice(c) ==
    /\ pc[c] = "checking"
    /\ \/ /\ UsageOf[file[c]] = target[c]
          /\ SearchSucceeds(c)
          /\ UNCHANGED <<holder, excuse>>
       \/ \E failed \in BOOLEAN :
          /\ failed \/ UsageOf[file[c]] # target[c]
          /\ holder' = [holder EXCEPT ![file[c]] = "nobody"]
          /\ file' = [file EXCEPT ![c] = "INVALID"]
          /\ index' = [index EXCEPT ![c] = @ + 1]
          /\ pc' = [pc EXCEPT ![c] = "searching"]
          /\ excuse' = IF failed THEN [excuse EXCEPT ![c] = @ \cup {"failed"}] ELSE excuse
          /\ UNCHANGED <<target, hControl, hMessage>>
    /\ UNCHANGED result

\* vmulti_connect that cleans up whichever search has failed.
SearchFails_AlwaysDisconnects(c) ==
    /\ pc[c] = "searching" /\ index[c] > Len(Interfaces)
    /\ pc' = [pc EXCEPT ![c] = "closing"]
    /\ hControl' = [hControl EXCEPT ![c] = IF target[c] = "control" THEN "INVALID" ELSE @]
    /\ hMessage' = [hMessage EXCEPT ![c] = IF target[c] = "message" THEN "INVALID" ELSE @]
    /\ UNCHANGED <<target, index, file, result, holder, excuse>>

\* The search returns INVALID_HANDLE_VALUE: at its end, or at once when
\* SetupDiGetClassDevs fails.  Without a control collection vmulti_connect returns;
\* without a message collection it disconnects.
SearchFails(c) ==
    /\ pc[c] = "searching"
    /\ \/ index[c] > Len(Interfaces) /\ UNCHANGED excuse
       \/ index[c] = 1 /\ excuse' = [excuse EXCEPT ![c] = @ \cup {"failed"}]
    /\ \/ /\ target[c] = "control"
          /\ hControl' = [hControl EXCEPT ![c] = "INVALID"]
          /\ pc' = [pc EXCEPT ![c] = "ready"]
          /\ UNCHANGED hMessage
       \/ /\ target[c] = "message"
          /\ hMessage' = [hMessage EXCEPT ![c] = "INVALID"]
          /\ pc' = [pc EXCEPT ![c] = "closing"]
          /\ UNCHANGED hControl
    /\ result' = [result EXCEPT ![c] = "FALSE"]
    /\ UNCHANGED <<target, index, file, holder>>

\* HidD_SetNumInputBuffers: the last step of vmulti_connect.
SetNumInputBuffers(c) ==
    /\ pc[c] = "buffers"
    /\ \/ /\ pc' = [pc EXCEPT ![c] = "ready"]
          /\ result' = [result EXCEPT ![c] = "TRUE"]
          /\ UNCHANGED excuse
       \/ /\ pc' = [pc EXCEPT ![c] = "closing"]
          /\ result' = [result EXCEPT ![c] = "FALSE"]
          /\ excuse' = [excuse EXCEPT ![c] = @ \cup {"failed"}]
    /\ UNCHANGED <<target, index, file, hControl, hMessage, holder>>

-----------------------------------------------------------------------------
(* vmulti_disconnect: two CloseHandle calls, then both fields are cleared. *)
(* Closing the INVALID_HANDLE_VALUE of a failed search changes nothing.    *)

Closed(c, h) == [f \in Files |-> IF f = h /\ holder[f] = c THEN "nobody" ELSE holder[f]]

CloseControl(c) ==
    /\ pc[c] = "closing"
    /\ holder' = Closed(c, hControl[c])
    /\ pc' = [pc EXCEPT ![c] = "closing message"]
    /\ UNCHANGED <<target, index, file, hControl, hMessage, result, excuse>>

CloseMessage(c) ==
    /\ pc[c] = "closing message"
    /\ holder' = Closed(c, hMessage[c])
    /\ hControl' = [hControl EXCEPT ![c] = "NULL"]
    /\ hMessage' = [hMessage EXCEPT ![c] = "NULL"]
    /\ pc' = [pc EXCEPT ![c] = "ready"]
    /\ UNCHANGED <<target, index, file, result, excuse>>

-----------------------------------------------------------------------------
Library(c) ==
    \/ OpenDeviceInterface(c) \/ FreeTwice(c) \/ CheckIfOurDevice(c) \/ SearchFails(c)
    \/ SetNumInputBuffers(c) \/ CloseControl(c) \/ CloseMessage(c)

Next ==
    \E c \in Clients :
       \/ vmulti_alloc(c) \/ vmulti_free(c) \/ vmulti_connect(c) \/ vmulti_disconnect(c)
       \/ Library(c)

Spec == Init /\ [][Next]_vars

-----------------------------------------------------------------------------
(* Properties.                                                             *)

(* Nothing leaks and nothing is closed twice: an interface a client keeps  *)
(* open is the one its search is looking at or one of its two handles,     *)
(* through every failing search and call; and when vmulti_disconnect       *)
(* closes those two, they are its own, never what malloc left in the       *)
(* structure nor a handle that has been closed before.                     *)
HandlesAccounted ==
    /\ \A c \in Clients, f \in Files : holder[f] = c =>
         /\ pc[c] # "unallocated"
         /\ f \in {file[c], hControl[c], hMessage[c]}
         /\ pc[c] = "ready" => result[c] = "TRUE"
    /\ \A c \in Clients : pc[c] = "closing" =>
         \A h \in {hControl[c], hMessage[c]} :
            h = "INVALID" \/ (h \in Files /\ holder[h] = c)

(* A connected client has both collections to itself, each in its place:   *)
(* a report is never written to the message collection.                    *)
ConnectedHolds ==
    \A c \in Clients : result[c] = "TRUE" =>
       /\ hControl[c] \in Files /\ UsageOf[hControl[c]] = "control" /\ holder[hControl[c]] = c
       /\ hMessage[c] \in Files /\ UsageOf[hMessage[c]] = "message" /\ holder[hMessage[c]] = c

(* vmulti_connect returns FALSE only with a reason: a collection is not    *)
(* there, somebody had one open when the search came by, or a call failed. *)
Present(u) == \E f \in Files : UsageOf[f] = u
FailsOnlyWithReason ==
    \A c \in Clients : result[c] = "FALSE" =>
       excuse[c] # {} \/ ~Present("control") \/ ~Present("message")

=============================================================================
