----------------------------- MODULE DriverLoader ----------------------------
(***************************************************************************)
(* Loading and unloading the NT-style drivers: the loader program          *)
(* (LoadNTDriver/main.cpp), the service control manager and I/O manager it *)
(* drives, and the DriverEntry, CreateDevice and HelloDDKUnload of the     *)
(* drivers.  The drivers are written from one skeleton and compete for the *)
(* same device name and the same symbolic link.                            *)
(*                                                                         *)
(* Several loader programs run at once; each call of the service control   *)
(* manager or of the I/O manager is one step.  The service control manager *)
(* and the I/O manager are not part of the repository: they are modelled   *)
(* from how the code uses them.                                            *)
(***************************************************************************)
EXTENDS Naturals, Sequences

CONSTANTS Loaders,  \* processes running LoadNTDriver's main
          DriverOf  \* the driver each of them loads

\* The device names each driver's DriverEntry creates a device for, in order;
\* every device has a symbolic link of its own (HelloDDK, HelloDDK2).
NTDriver1 == <<"MyDDKDevice">>
SpecialStartIOTest == <<"MyDDKDevice">>
WDMBasicFunction == <<"MyDDKDevice">>
BasicFunction == <<"MyDDKDevice", "MyDDKDevice2">>

Creates(d) ==
    CASE d = "NTDriver1"          -> NTDriver1
      [] d = "SpecialStartIOTest" -> SpecialStartIOTest
      [] d = "WDMBasicFunction"   -> WDMBasicFunction
      [] d = "BasicFunction"      -> BasicFunction

Drivers == {DriverOf[p] : p \in Loaders}
Names == {"MyDDKDevice", "MyDDKDevice2"}

ASSUME DriverLoaderAssumption ==
    /\ DriverOf \in [Loaders -> {"NTDriver1", "SpecialStartIOTest", "WDMBasicFunction",
                                 "BasicFunction"}]
    /\ "nobody" \notin Loaders

VARIABLES
    pc,      \* where each loader is
    bRet,    \* main's bRet, what LoadNTDriver returned
    said,    \* the error message main printed last in this run
    handle,  \* the loaders that have hServiceDDK open
    service, \* the state of each driver's service, "none" if it is not registered
    marked,  \* the services marked for deletion
    step,    \* the number of the CreateDevice call a DriverEntry has come to
    status,  \* the status variable of a running DriverEntry
    device,  \* the driver each device belongs to; "orphan" when that driver was thrown
             \* out of memory with the device still there
    link,    \* the device names that have a symbolic link
    opened,  \* the loader that has each device open (the devices are exclusive)
    buffer,  \* the devices whose extension holds a pool buffer (WDMBasicFunction)
    lost     \* where a device was deleted that still held its buffer

pool == <<buffer, lost>>
vars == <<pc, bRet, said, handle, service, marked, step, status, device, link, opened, pool>>

TypeOK ==
    /\ pc \in [Loaders -> {"load", "open", "start", "entry", "link", "test", "close", "unload",
                           "stop", "stopping", "delete", "leave", "done"}]
    /\ bRet \in [Loaders -> BOOLEAN]
    /\ said \in [Loaders -> {"nothing", "load error", "unload error"}]
    /\ handle \subseteq Loaders
    /\ service \in [Drivers -> {"none", "stopped", "starting", "running", "stop pending",
                                "unloading"}]
    /\ marked \subseteq {d \in Drivers : service[d] # "none"}
    /\ step \in [Drivers -> 1..3]
    /\ status \in [Drivers -> {"SUCCESS", "FAILED"}]
    /\ device \in [Names -> Drivers \cup {"nobody", "orphan"}]
    /\ link \subseteq Names
    /\ opened \in [Names -> Loaders \cup {"nobody"}]
    /\ buffer \subseteq Names
    /\ lost \subseteq {"CreateDevice", "HelloDDKUnload"}

Init ==
    /\ pc = [p \in Loaders |-> "load"]
    /\ bRet = [p \in Loaders |-> FALSE]
    /\ said = [p \in Loaders |-> "nothing"]
    /\ handle = {}
    /\ service = [d \in Drivers |-> "none"]
    /\ marked = {}
    /\ step = [d \in Drivers |-> 1]
    /\ status = [d \in Drivers |-> "SUCCESS"]
    /\ device = [n \in Names |-> "nobody"]
    /\ link = {}
    /\ opened = [n \in Names |-> "nobody"]
    /\ buffer = {}
    /\ lost = {}

Goto(p, there) == pc' = [pc EXCEPT ![p] = there]
Kernel == <<step, status, device, link, opened, pool>>

\* IoDeleteDevice: the extension goes with the device, and what it alone points to is lost.
DeleteDevice(n, where) ==
    /\ device' = [device EXCEPT ![n] = "nobody"]
    /\ lost' = IF n \in buffer THEN lost \cup {where} ELSE lost
    /\ buffer' = buffer \ {n}

\* LoadNTDriver goes to BeforeLeave and main prints its message.
LoadFails(p) ==
    /\ Goto(p, "leave")
    /\ bRet' = [bRet EXCEPT ![p] = FALSE]
    /\ said' = [said EXCEPT ![p] = "load error"]

-----------------------------------------------------------------------------
(* LoadNTDriver.                                                           *)

\* OpenSCManager and CreateService: the service is registered, or it exists already, or
\* one of the calls fails for another reason (a service marked for deletion is one).
CreateService(p) ==
    LET d == DriverOf[p] IN
    /\ pc[p] = "load"
    /\ \/ /\ service[d] = "none"
          /\ service' = [service EXCEPT ![d] = "stopped"]
          /\ handle' = handle \cup {p}
          /\ Goto(p, "start")
          /\ UNCHANGED <<bRet, said>>
       \/ /\ service[d] # "none" /\ d \notin marked
          /\ Goto(p, "open")
          /\ UNCHANGED <<service, handle, bRet, said>>
       \/ /\ LoadFails(p)
          /\ UNCHANGED <<service, handle>>
    /\ UNCHANGED <<marked, Kernel>>

\* OpenService, after CreateService found the service registered.
OpenService(p) ==
    /\ pc[p] = "open"
    /\ \/ /\ service[DriverOf[p]] # "none"
          /\ handle' = handle \cup {p}
          /\ Goto(p, "start")
          /\ UNCHANGED <<bRet, said>>
       \/ /\ LoadFails(p)
          /\ UNCHANGED handle
    /\ UNCHANGED <<service, marked, Kernel>>

\* A loader that takes ERROR_SERVICE_ALREADY_RUNNING for success.
StartService_RunningIsFine(p) ==
    LET d == DriverOf[p] IN
    /\ pc[p] = "start"
    /\ \/ /\ service[d] = "stopped" /\ d \notin marked
          /\ service' = [service EXCEPT ![d] = "starting"]
          /\ step' = [step EXCEPT ![d] = 1]
          /\ Goto(p, "entry")
          /\ UNCHANGED <<bRet, said>>
       \/ /\ service[d] = "running"
          /\ bRet' = [bRet EXCEPT ![p] = TRUE]
          /\ Goto(p, "test")
          /\ UNCHANGED <<service, step, said>>
       \/ /\ LoadFails(p)
          /\ UNCHANGED <<service, step>>
    /\ UNCHANGED <<handle, marked, status, device, link, opened, pool>>

\* StartService loads the image of a stopped service and calls its DriverEntry; it fails
\* when the service is not stopped (ERROR_SERVICE_ALREADY_RUNNING included), when it is
\* marked for deletion and when there is no such image.
StartService(p) ==
    LET d == DriverOf[p] IN
    /\ pc[p] = "start"
    /\ \/ /\ service[d] = "stopped" /\ d \notin marked
          /\ service' = [service EXCEPT ![d] = "starting"]
          /\ step' = [step EXCEPT ![d] = 1]
          /\ Goto(p, "entry")
          /\ UNCHANGED <<bRet, said>>
       \/ /\ LoadFails(p)
          /\ UNCHANGED <<service, step>>
    /\ UNCHANGED <<handle, marked, status, device, link, opened, pool>>

-----------------------------------------------------------------------------
(* DriverEntry, inside StartService: CreateDevice for each name in turn.   *)
(* The calls' results overwrite one another in status.                     *)

Name(d) == Creates(d)[step[d]]

\* CreateDevice returns s: DriverEntry calls it for the next name, or returns s itself.
CreateDeviceReturns(p, s) ==
    LET d == DriverOf[p] IN
    /\ step' = [step EXCEPT ![d] = @ + 1]
    /\ status' = [status EXCEPT ![d] = s]
    /\ Goto(p, "entry")

\* IoCreateDevice fails if the name is taken, or for want of memory.  WDMBasicFunction
\* then allocates its buffer, and goes on without one when that fails.
CreateDevice(p) ==
    LET d == DriverOf[p] IN
    /\ pc[p] = "entry" /\ step[d] <= Len(Creates(d))
    /\ \/ /\ device[Name(d)] = "nobody"
          /\ device' = [device EXCEPT ![Name(d)] = d]
          /\ Goto(p, "link")
          /\ \/ d = "WDMBasicFunction" /\ buffer' = buffer \cup {Name(d)}
             \/ UNCHANGED buffer
          /\ UNCHANGED <<step, status>>
       \/ /\ CreateDeviceReturns(p, "FAILED")
          /\ UNCHANGED <<device, buffer>>
    /\ UNCHANGED <<bRet, said, handle, service, marked, link, opened, lost>>

\* A CreateDevice that returns without IoDeleteDevice when there is no link.
CreateLink_KeepsDevice(p) ==
    LET d == DriverOf[p] IN
    /\ pc[p] = "link"
    /\ \/ /\ Name(d) \notin link
          /\ link' = link \cup {Name(d)}
          /\ CreateDeviceReturns(p, "SUCCESS")
       \/ /\ CreateDeviceReturns(p, "FAILED")
          /\ UNCHANGED link
    /\ UNCHANGED <<bRet, said, handle, service, marked, device, opened, pool>>

\* IoCreateSymbolicLink; if it fails the device is deleted again, but not its buffer.
CreateLink(p) ==
    LET d == DriverOf[p] IN
    /\ pc[p] = "link"
    /\ \/ /\ Name(d) \notin link
          /\ link' = link \cup {Name(d)}
          /\ CreateDeviceReturns(p, "SUCCESS")
          /\ UNCHANGED <<device, pool>>
       \/ /\ DeleteDevice(Name(d), "CreateDevice")
          /\ CreateDeviceReturns(p, "FAILED")
          /\ UNCHANGED link
    /\ UNCHANGED <<bRet, said, handle, service, marked, opened>>

\* DriverEntry returns status, and StartService with it.  A driver whose DriverEntry fails
\* is thrown out without its HelloDDKUnload being called.
DriverEntryReturns(p) ==
    LET d == DriverOf[p] IN
    /\ pc[p] = "entry" /\ step[d] > Len(Creates(d))
    /\ \/ /\ status[d] = "SUCCESS"
          /\ service' = [service EXCEPT ![d] = "running"]
          /\ bRet' = [bRet EXCEPT ![p] = TRUE]
          /\ Goto(p, "test")
          /\ handle' = handle \ {p}
          /\ UNCHANGED <<said, device>>
       \/ /\ status[d] = "FAILED"
          /\ service' = [service EXCEPT ![d] = "stopped"]
          /\ device' = [n \in Names |-> IF device[n] = d THEN "orphan" ELSE device[n]]
          /\ LoadFails(p)
          /\ UNCHANGED handle
    /\ UNCHANGED <<marked, step, status, link, opened, pool>>

-----------------------------------------------------------------------------
(* TestDriver.                                                             *)

\* What CreateFile needs: the link HelloDDK, and a device nobody has open whose driver is
\* running.
CanOpen(n) ==
    /\ n \in link /\ opened[n] = "nobody"
    /\ device[n] \in Drivers /\ service[device[n]] = "running"

\* CreateFile; the driver completes the create request with success.
OpenDevice(p) ==
    LET n == "MyDDKDevice" IN
    /\ pc[p] = "test"
    /\ \/ /\ CanOpen(n)
          /\ opened' = [opened EXCEPT ![n] = p]
          /\ Goto(p, "close")
       \/ /\ ~CanOpen(n)
          /\ Goto(p, "unload")
          /\ UNCHANGED opened
    /\ UNCHANGED <<bRet, said, handle, service, marked, step, status, device, link, pool>>

\* The last handle of a driver that is to be unloaded is closed: its unloading begins.
CloseDevice(p) ==
    LET n == "MyDDKDevice"  d == device[n] IN
    /\ pc[p] = "close"
    /\ opened' = [opened EXCEPT ![n] = "nobody"]
    /\ service' = IF service[d] = "stop pending"
                  THEN [service EXCEPT ![d] = "unloading"] ELSE service
    /\ Goto(p, "unload")
    /\ UNCHANGED <<bRet, said, handle, marked, step, status, device, link, pool>>

-----------------------------------------------------------------------------
(* UnloadNTDriver.                                                         *)

\* OpenSCManager and OpenService.  When they fail UnloadNTDriver returns FALSE, but main
\* tests its own bRet, which is still LoadNTDriver's TRUE.
OpenForUnload(p) ==
    /\ pc[p] = "unload"
    /\ \/ /\ service[DriverOf[p]] # "none"
          /\ handle' = handle \cup {p}
          /\ Goto(p, "stop")
          /\ UNCHANGED said
       \/ /\ Goto(p, "leave")
          /\ said' = IF bRet[p] THEN said ELSE [said EXCEPT ![p] = "unload error"]
          /\ UNCHANGED handle
    /\ UNCHANGED <<bRet, service, marked, Kernel>>

InUse(d) == \E n \in Names : device[n] = d /\ opened[n] # "nobody"

\* ControlService stops a running driver: its HelloDDKUnload is called at once, or after
\* the last handle of its devices is closed.  The result is printed and ignored.
ControlService(p) ==
    LET d == DriverOf[p] IN
    /\ pc[p] = "stop"
    /\ service' = IF service[d] # "running" THEN service
                  ELSE IF InUse(d) THEN [service EXCEPT ![d] = "stop pending"]
                  ELSE [service EXCEPT ![d] = "unloading"]
    /\ Goto(p, "stopping")
    /\ UNCHANGED <<bRet, said, handle, marked, Kernel>>

\* DeleteService, after a HelloDDKUnload that was called at once has returned.
DeleteService(p) ==
    /\ pc[p] = "stopping" /\ service[DriverOf[p]] # "unloading"
    /\ marked' = marked \cup {DriverOf[p]}
    /\ Goto(p, "leave")
    /\ UNCHANGED <<bRet, said, handle, service, Kernel>>

\* A service that goes without its mark: the next one of that name is born marked.
BeforeLeave_KeepsMark(p) ==
    LET d == DriverOf[p]
        gone == d \in marked /\ service[d] = "stopped"
                /\ \A q \in handle \ {p} : DriverOf[q] # d
    IN
    /\ pc[p] = "leave"
    /\ handle' = handle \ {p}
    /\ service' = IF gone THEN [service EXCEPT ![d] = "none"] ELSE service
    /\ Goto(p, "done")
    /\ UNCHANGED <<bRet, said, marked, Kernel>>

\* BeforeLeave closes the handles.  A service marked for deletion goes when it is stopped
\* and nobody has it open.
BeforeLeave(p) ==
    LET d == DriverOf[p]
        gone == d \in marked /\ service[d] = "stopped"
                /\ \A q \in handle \ {p} : DriverOf[q] # d
    IN
    /\ pc[p] = "leave"
    /\ handle' = handle \ {p}
    /\ service' = IF gone THEN [service EXCEPT ![d] = "none"] ELSE service
    /\ marked' = IF gone THEN marked \ {d} ELSE marked
    /\ Goto(p, "done")
    /\ UNCHANGED <<bRet, said, Kernel>>

\* The program is started again.
Again(p) ==
    /\ pc[p] = "done"
    /\ Goto(p, "load")
    /\ bRet' = [bRet EXCEPT ![p] = FALSE]
    /\ said' = [said EXCEPT ![p] = "nothing"]
    /\ UNCHANGED <<handle, service, marked, Kernel>>

-----------------------------------------------------------------------------
(* HelloDDKUnload: for each device of the driver, newest first, its buffer *)
(* is freed, and then the link and the device are deleted.                 *)

Devices(d) == {i \in 1..Len(Creates(d)) : device[Creates(d)[i]] = d}
Newest(d) == Creates(d)[CHOOSE i \in Devices(d) : \A j \in Devices(d) : j <= i]

\* An unload that deletes a device before its link.
HelloDDKUnload_DeviceFirst(d) ==
    /\ service[d] = "unloading" /\ Devices(d) # {}
    /\ DeleteDevice(Newest(d), "HelloDDKUnload")
    /\ UNCHANGED <<pc, bRet, said, handle, service, marked, step, status, link, opened>>

\* An unload whose loop never comes to the next device.
HelloDDKUnload_StandsStill(d) ==
    /\ service[d] = "unloading" /\ Devices(d) # {}
    /\ link' = link \ {Newest(d)}
    /\ buffer' = buffer \ {Newest(d)}
    /\ UNCHANGED <<pc, bRet, said, handle, service, marked, step, status, device, opened, lost>>

HelloDDKUnload(d) ==
    /\ service[d] = "unloading" /\ Devices(d) # {}
    /\ \/ /\ Newest(d) \in link
          /\ buffer' = buffer \ {Newest(d)}
          /\ link' = link \ {Newest(d)}
          /\ UNCHANGED <<device, lost>>
       \/ /\ Newest(d) \notin link
          /\ DeleteDevice(Newest(d), "HelloDDKUnload")
          /\ UNCHANGED link
    /\ UNCHANGED <<pc, bRet, said, handle, service, marked, step, status, opened>>

\* An unload that deletes one device only, where the driver may have two.
UnloadReturns_AfterOne(d) ==
    LET gone == d \in marked /\ \A q \in handle : DriverOf[q] # d IN
    /\ service[d] = "unloading" /\ \E n \in Names : device[n] # d
    /\ service' = [service EXCEPT ![d] = IF gone THEN "none" ELSE "stopped"]
    /\ marked' = IF gone THEN marked \ {d} ELSE marked
    /\ UNCHANGED <<pc, bRet, said, handle, Kernel>>

\* HelloDDKUnload has come to the end of the list and returns: the driver is gone, and
\* with it the service if that is marked for deletion and not open.
UnloadReturns(d) ==
    LET gone == d \in marked /\ \A q \in handle : DriverOf[q] # d IN
    /\ service[d] = "unloading" /\ Devices(d) = {}
    /\ service' = [service EXCEPT ![d] = IF gone THEN "none" ELSE "stopped"]
    /\ marked' = IF gone THEN marked \ {d} ELSE marked
    /\ UNCHANGED <<pc, bRet, said, handle, Kernel>>

-----------------------------------------------------------------------------
LoadNTDriver(p) ==
    CreateService(p) \/ OpenService(p) \/ StartService(p)
DriverEntry(p) ==
    CreateDevice(p) \/ CreateLink(p) \/ DriverEntryReturns(p)
TestDriver(p) ==
    OpenDevice(p) \/ CloseDevice(p)
UnloadNTDriver(p) ==
    OpenForUnload(p) \/ ControlService(p) \/ DeleteService(p)
main(p) ==
    LoadNTDriver(p) \/ DriverEntry(p) \/ TestDriver(p) \/ UnloadNTDriver(p) \/ BeforeLeave(p)
DriverUnload(d) ==
    HelloDDKUnload(d) \/ UnloadReturns(d)

Next ==
    \/ \E p \in Loaders : main(p) \/ Again(p)
    \/ \E d \in Drivers : DriverUnload(d)

Spec == Init /\ [][Next]_vars

\* A running program and a running DriverUnload come to their next step: the user presses
\* the keys main waits for.  Nothing is assumed of programs being started again.
Fairness ==
    /\ \A p \in Loaders : WF_vars(main(p))
    /\ \A d \in Drivers : WF_vars(DriverUnload(d))

FairSpec == Spec /\ Fairness

-----------------------------------------------------------------------------
(* Correctness.                                                            *)

\* A symbolic link always leads to a device, through every interleaving of loads,
\* failed loads and unloads: links are made after their device and deleted before it.
LinkLeadsToDevice ==
    \A n \in link : device[n] # "nobody"

\* A driver that is not in memory owns nothing, neither a device, whose dispatch routine
\* would then be called, nor a buffer.  What a failed DriverEntry can leave behind is a
\* device created before the last one, and no buffer is lost but by a CreateDevice that
\* could not make its link.
UnloadedOwnsNothing ==
    /\ \A n \in Names : device[n] \in Drivers =>
         service[device[n]] \in {"starting", "running", "stop pending", "unloading"}
    /\ \A n \in Names : device[n] = "orphan" =>
         \E d \in Drivers : \E i \in 1..(Len(Creates(d)) - 1) : Creates(d)[i] = n
    /\ \A n \in buffer : device[n] = "WDMBasicFunction"
    /\ lost \subseteq {"CreateDevice"}

\* From the return of LoadNTDriver to the ControlService of the same program its driver
\* stays in memory with its last device and link: no other program stops it.
StaysLoaded ==
    \A p \in Loaders :
        LET d == DriverOf[p]
            last == Creates(d)[Len(Creates(d))]
        IN  pc[p] \in {"test", "close", "unload", "stop"} =>
                service[d] = "running" /\ device[last] = d /\ last \in link

\* A running driver that no program is going to stop: its UnloadNTDriver has failed.
Abandoned(d) ==
    /\ service[d] = "running"
    /\ \A p \in Loaders :
          DriverOf[p] = d => pc[p] \notin {"test", "close", "unload", "stop"}

\* A deleted service disappears, however its driver's unloading and the handles other
\* programs have on it are interleaved, so that its driver can be loaded again.  One case
\* is left: a program starts the service between another one's ControlService and its
\* DeleteService, and then fails to open it to unload the driver.
DeletedServiceGoes ==
    \A d \in Drivers : d \in marked ~> (d \notin marked \/ Abandoned(d))

=============================================================================
