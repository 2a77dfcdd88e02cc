------------------------------ MODULE PnpStack ------------------------------
(***************************************************************************)
(* Device stacks and the IRPs that travel down them: HelloWDM's functional *)
(* device over its PDO, and the vmulti minidriver, a lower filter, between *)
(* its PDO and the functional device HIDCLASS creates for hidkmdf.         *)
(*                                                                         *)
(* The PnP manager adds and removes one device at a time.  A device object *)
(* is <<p, layer>>.  An IRP carries the devices of its stack locations in  *)
(* use; its driver is that of the last.  What the drivers below and above, *)
(* the framework and HIDCLASS do is modelled from how the drivers call it. *)
(***************************************************************************)
EXTENDS Naturals, Sequences, SequencesExt

CONSTANTS WdmPdos, HidPdos, None

VARIABLES
    devices,      \* the device objects there are
    next,         \* the device each one is attached to; None: it is not attached
    name,         \* the device object called \Device\MyWDMDevice
    initializing, \* those with DO_DEVICE_INITIALIZING
    added,        \* what became of adding each device: "no", "failed", "added"
    powerBusy,    \* whether a device must start the next power IRP
    irp           \* the IRP on its way, or None

vars == <<devices, next, name, initializing, added, powerBusy, irp>>

Pdos == WdmPdos \cup HidPdos
Pdo(p) == <<p, "pdo">>
Fdo(p) == <<p, "fdo">>
Filter(p) == <<p, "vmulti">>
Objects == {Pdo(p) : p \in Pdos} \cup {Fdo(p) : p \in Pdos} \cup {Filter(p) : p \in HidPdos}

\* The device on top of p's stack, which IRPs for p are sent to.
Attached(p) == {d \in devices : d[1] = p /\ (d = Pdo(p) \/ next[d] /= None)}
Top(p) == CHOOSE d \in Attached(p) : \A e \in Attached(p) : next[e] /= d

Kinds == {"REMOVE_DEVICE", "PNP", "POWER", "DeviceID", "InstanceID"}
Irps ==
    [pdo : Pdos, kind : Kinds, path : Seq(Objects), calls : Seq(Objects), completions : 0..1,
     status : {"NOT_SUPPORTED", "SUCCESS", "INSUFFICIENT_RESOURCES"}]

ASSUME PnpStackAssumption ==
    WdmPdos \cap HidPdos = {} /\ None \notin Objects /\ None \notin Irps

-----------------------------------------------------------------------------
(* Adding a device.                                                        *)

CanAdd(p) == irp = None /\ Pdo(p) \in devices /\ added[p] = "no"

\* The symbolic link gets the name the device has just taken, so that it cannot be made, nor
\* deleted to be made anew: AddDevice fails and leaves its device behind, attached if
\* IoAttachDeviceToDeviceStack has attached it, which nobody looks at.
HelloWDMAddDevice(p) ==
    /\ CanAdd(p)
    /\ \/ /\ added' = [added EXCEPT ![p] = "failed"]
          /\ UNCHANGED <<devices, next, name, initializing>>
       \/ /\ name = None
          /\ \E below \in {Top(p), None} :
                /\ devices' = devices \cup {Fdo(p)}
                /\ next' = [next EXCEPT ![Fdo(p)] = below]
                /\ name' = Fdo(p)
                /\ LET linked == name' = None IN
                   /\ initializing' = IF linked THEN initializing ELSE initializing \cup {Fdo(p)}
                   /\ added' = [added EXCEPT ![p] = IF linked THEN "added" ELSE "failed"]
    /\ UNCHANGED <<powerBusy, irp>>

\* The preprocess callback, the device and its two queues: when one cannot be had the
\* framework takes the device back.
VMultiEvtDeviceAdd(p) ==
    /\ CanAdd(p) /\ Filter(p) \notin devices
    /\ \/ /\ devices' = devices \cup {Filter(p)}
          /\ next' = [next EXCEPT ![Filter(p)] = Top(p)]
          /\ UNCHANGED added
       \/ /\ added' = [added EXCEPT ![p] = "failed"]
          /\ UNCHANGED <<devices, next>>
    /\ UNCHANGED <<name, initializing, powerBusy, irp>>

\* HIDCLASS creates the functional device and has hidkmdf make it ready.
HidKmdfAddDevice(p) ==
    /\ CanAdd(p) /\ Filter(p) \in devices
    /\ \/ /\ devices' = devices \cup {Fdo(p)}
          /\ next' = [next EXCEPT ![Fdo(p)] = Top(p)]
          /\ initializing' = initializing \ {Fdo(p)}
          /\ added' = [added EXCEPT ![p] = "added"]
       \/ /\ added' = [added EXCEPT ![p] = "failed"]
          /\ UNCHANGED <<devices, next, initializing>>
    /\ UNCHANGED <<name, powerBusy, irp>>

-----------------------------------------------------------------------------
(* IRPs on their way down.                                                 *)

At(d) == irp /= None /\ irp.completions = 0 /\ Last(irp.path) = d
SkipTo(d) == ReplaceAt(irp.path, Len(irp.path), d) \* IoSkipCurrentIrpStackLocation
CopyTo(d) == Append(irp.path, d)                   \* IoCopyCurrentIrpStackLocationToNext

\* A device whose adding failed is removed; other IRPs need one that was added.
SendIrp(p) ==
    /\ irp = None /\ Pdo(p) \in devices
    /\ \E kind \in Kinds :
        /\ added[p] = "failed" => kind \in {"REMOVE_DEVICE", "PNP"}
        /\ added[p] /= "no"
        /\ kind = "POWER" => ~powerBusy[p]
        /\ irp' = [pdo |-> p, kind |-> kind, path |-> <<Top(p)>>, calls |-> <<>>,
                   status |-> "NOT_SUPPORTED", completions |-> 0]
        /\ powerBusy' = [powerBusy EXCEPT ![p] = @ \/ kind = "POWER"]
    /\ UNCHANGED <<devices, next, name, initializing, added>>

\* The bus driver completes what reaches it.
BusDispatch(p) ==
    /\ At(Pdo(p))
    /\ irp' = [irp EXCEPT !.completions = @ + 1, !.status = "SUCCESS"]
    /\ UNCHANGED <<devices, next, name, initializing, added, powerBusy>>

\* A removal goes on, after the lower driver has returned, in HandleRemoveDevice.
HelloWDMPnp(p) ==
    /\ At(Fdo(p))
    /\ irp' = [irp EXCEPT !.path = SkipTo(next[Fdo(p)]),
                          !.status = IF irp.kind = "REMOVE_DEVICE" THEN "SUCCESS" ELSE @,
                          !.calls = IF irp.kind = "REMOVE_DEVICE" THEN Append(@, Fdo(p)) ELSE @]
    /\ UNCHANGED <<devices, next, name, initializing, added, powerBusy>>

HidKmdfPassThrough(p) ==
    /\ At(Fdo(p)) /\ irp.kind /= "POWER"
    /\ irp' = [irp EXCEPT !.path = CopyTo(next[Fdo(p)]),
                          !.calls = IF irp.kind = "REMOVE_DEVICE" THEN Append(@, Fdo(p)) ELSE @]
    /\ UNCHANGED <<devices, next, name, initializing, added, powerBusy>>

\* hidkmdf that does not start the next power IRP.
HidKmdfPowerPassThrough_StartsNone(p) ==
    /\ At(Fdo(p)) /\ irp.kind = "POWER"
    /\ irp' = [irp EXCEPT !.path = CopyTo(next[Fdo(p)])]
    /\ UNCHANGED <<devices, next, name, initializing, added, powerBusy>>
HidKmdfPowerPassThrough(p) ==
    /\ At(Fdo(p)) /\ irp.kind = "POWER"
    /\ powerBusy' = [powerBusy EXCEPT ![p] = FALSE]
    /\ irp' = [irp EXCEPT !.path = CopyTo(next[Fdo(p)])]
    /\ UNCHANGED <<devices, next, name, initializing, added>>

\* The framework's own dispatch in the filter.
FilterPassThrough(p) ==
    /\ At(Filter(p)) /\ irp.kind \notin {"DeviceID", "InstanceID"}
    /\ irp' = [irp EXCEPT !.path = CopyTo(next[Filter(p)]),
                          !.calls = IF irp.kind = "REMOVE_DEVICE" THEN Append(@, Filter(p)) ELSE @]
    /\ UNCHANGED <<devices, next, name, initializing, added, powerBusy>>

\* Queries of the child's and of the parent's ids arrive the same way, by hidkmdf, with
\* hidkmdf's device in the location above: only its own device there is left alone.
VMultiEvtWdmPreprocessMnQueryId(p) ==
    /\ At(Filter(p)) /\ irp.kind \in {"DeviceID", "InstanceID"}
    /\ irp.path[Len(irp.path) - 1] /= Filter(p)
    /\ \E status \in IF irp.kind = "DeviceID" THEN {"SUCCESS", "INSUFFICIENT_RESOURCES"}
                     ELSE {irp.status} :
          irp' = [irp EXCEPT !.status = status, !.completions = @ + 1]
    /\ UNCHANGED <<devices, next, name, initializing, added, powerBusy>>

-----------------------------------------------------------------------------
(* Removal, on the way back up.                                            *)

Returning(d) ==
    irp /= None /\ irp.completions > 0 /\ irp.calls /= <<>> /\ Last(irp.calls) = d
Return == irp' = [irp EXCEPT !.calls = Front(@)]
\* IoDeleteDevice takes the name with the object.
IoDeleteDevices(gone) ==
    /\ devices' = devices \ gone
    /\ next' = [d \in Objects |-> IF d \in gone THEN None ELSE next[d]]
    /\ name' = IF name \in gone THEN None ELSE name
    /\ initializing' = initializing \ gone

\* The remove handler that completes the IRP it has passed down.
HandleRemoveDevice_Completes(p) ==
    /\ Returning(Fdo(p))
    /\ irp' = [irp EXCEPT !.calls = Front(@), !.completions = @ + 1]
    /\ IoDeleteDevices({Fdo(p)})
    /\ UNCHANGED <<added, powerBusy>>
\* The remove handler that deletes its own device only when there is none below.
HandleRemoveDevice_DeletesOne(p) ==
    /\ Returning(Fdo(p))
    /\ Return
    /\ IoDeleteDevices(IF next[Fdo(p)] /= None THEN {next[Fdo(p)]} ELSE {Fdo(p)})
    /\ UNCHANGED <<added, powerBusy>>
\* It deletes the device below, where it should detach from it, and its own.
HandleRemoveDevice(p) ==
    /\ Returning(Fdo(p))
    /\ Return
    /\ IoDeleteDevices({Fdo(p), next[Fdo(p)]} \ {None})
    /\ UNCHANGED <<added, powerBusy>>

\* HIDCLASS and the framework detach and delete their own device.
RemoveOwnDevice(d) ==
    /\ Returning(d)
    /\ Return
    /\ IoDeleteDevices({d})
    /\ UNCHANGED <<added, powerBusy>>

\* The sender has its answer; a removed device can be added again.
IrpDone ==
    /\ irp /= None /\ irp.completions > 0 /\ irp.calls = <<>>
    /\ added' = IF irp.kind = "REMOVE_DEVICE" THEN [added EXCEPT ![irp.pdo] = "no"] ELSE added
    /\ irp' = None
    /\ UNCHANGED <<devices, next, name, initializing, powerBusy>>

\* The bus finds the device again.
Enumerate(p) ==
    /\ irp = None
    /\ Pdo(p) \notin devices
    /\ devices' = devices \cup {Pdo(p)}
    /\ UNCHANGED <<next, name, initializing, added, powerBusy, irp>>

-----------------------------------------------------------------------------
Init ==
    /\ devices = {Pdo(p) : p \in Pdos}
    /\ next = [d \in Objects |-> None]
    /\ name = None /\ initializing = {}
    /\ added = [p \in Pdos |-> "no"]
    /\ powerBusy = [p \in Pdos |-> FALSE]
    /\ irp = None

HelloWDM(p) == HelloWDMPnp(p) \/ HandleRemoveDevice(p)
Hid(p) == \/ HidKmdfPassThrough(p) \/ HidKmdfPowerPassThrough(p) \/ FilterPassThrough(p)
          \/ VMultiEvtWdmPreprocessMnQueryId(p)
          \/ RemoveOwnDevice(Fdo(p)) \/ RemoveOwnDevice(Filter(p))
Dispatch ==
    \/ \E p \in WdmPdos : HelloWDM(p)
    \/ \E p \in HidPdos : Hid(p)
    \/ \E p \in Pdos : BusDispatch(p)
    \/ IrpDone
Next ==
    \/ Dispatch
    \/ \E p \in WdmPdos : HelloWDMAddDevice(p)
    \/ \E p \in HidPdos : VMultiEvtDeviceAdd(p) \/ HidKmdfAddDevice(p)
    \/ \E p \in Pdos : SendIrp(p) \/ Enumerate(p)

\* A driver that has been called returns.
Spec == Init /\ [][Next]_vars /\ WF_vars(Dispatch)

-----------------------------------------------------------------------------
(* Properties.                                                             *)

\* Every variable has its type; of an IRP, that nobody completes it twice.
TypeOK ==
    /\ devices \subseteq Objects /\ initializing \subseteq devices
    /\ next \in [Objects -> Objects \cup {None}]
    /\ name \in devices \cup {None}
    /\ added \in [Pdos -> {"no", "failed", "added"}]
    /\ powerBusy \in [Pdos -> BOOLEAN]
    /\ irp \in Irps \cup {None}
    /\ irp /= None => Len(irp.path) \in 1..3

\* When the answer to a removal is back at the PnP manager no device object is left above the
\* PDO, and the name HelloWDM gives its device can be used again, however far adding it got:
\* all but a device that was never attached, which no removal reaches.
RemovedLeavesNothing ==
    irp /= None /\ irp.kind = "REMOVE_DEVICE" /\ irp.completions > 0 /\ irp.calls = <<>> =>
        \A d \in devices : d[1] = irp.pdo /\ d /= Pdo(irp.pdo) => next[d] = None

\* Every IRP comes back to its sender, whichever drivers it passes, and a device that has got
\* a power IRP can get the next one.
EveryIrpCompletes ==
    /\ (irp /= None) ~> (irp = None)
    /\ \A p \in Pdos : powerBusy[p] ~> ~powerBusy[p]

\* Removing HelloWDM's device takes it off the stack: the device it was attached to stays.
RemoveDetaches ==
    [][\A p \in WdmPdos :
          Fdo(p) \in devices \ devices' => Pdo(p) \in devices']_vars
=============================================================================
