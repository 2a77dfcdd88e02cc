-------------------------- MODULE DriverLoaderProofs --------------------------
(* Proofs about DriverLoader, for any number of loader programs and any    *)
(* assignment of the four drivers to them.                                 *)
EXTENDS DriverLoader, TLAPS

\* The names a driver creates devices for: one, or two different ones.
LEMMA DriverFacts ==
    ASSUME NEW d \in Drivers
    PROVE  /\ d \notin {"nobody", "orphan"}
           /\ Len(Creates(d)) \in {1, 2} /\ Creates(d)[1] = "MyDDKDevice"
           /\ Len(Creates(d)) = 2 => Creates(d)[2] = "MyDDKDevice2"
           /\ d = "WDMBasicFunction" => Len(Creates(d)) = 1
           /\ \A i \in 1..Len(Creates(d)) : Creates(d)[i] \in Names
           /\ \A i, j \in 1..Len(Creates(d)) : Creates(d)[i] = Creates(d)[j] => i = j
<1>1. d \in {"NTDriver1", "SpecialStartIOTest", "WDMBasicFunction", "BasicFunction"}
  BY DriverLoaderAssumption DEF Drivers
<1>2. CASE d = "BasicFunction"
  BY <1>2 DEF Creates, BasicFunction, Names
<1>3. CASE d \in {"NTDriver1", "SpecialStartIOTest", "WDMBasicFunction"}
  BY <1>3 DEF Creates, NTDriver1, SpecialStartIOTest, WDMBasicFunction, Names
<1> QED BY <1>1, <1>2, <1>3

LEMMA DriverOfLoader == \A p \in Loaders : DriverOf[p] \in Drivers
BY DEF Drivers

LEMMA NameFacts ==
    ASSUME NEW d \in Drivers, step[d] \in 1..Len(Creates(d))
    PROVE  Name(d) \in Names
BY DriverFacts DEF Name

LEMMA StepFacts ==
    ASSUME TypeOK, NEW d \in Drivers, NEW k \in Nat
    PROVE  /\ step[d] \in Nat /\ 1 <= step[d] /\ step[d] <= 3
           /\ step' = [step EXCEPT ![d] = k] => step'[d] = k
<1>1. step \in [Drivers -> 1..3]
  BY DEF TypeOK
<1>2. step[d] \in 1..3
  BY <1>1
<1> QED BY <1>1, <1>2

-----------------------------------------------------------------------------
(* Programs and services.  A program that has started its driver is the    *)
(* only one that has, until its ControlService.                            *)
Entering(p) == pc[p] \in {"entry", "link"}
Loaded(p) == pc[p] \in {"test", "close", "unload", "stop"}
Started(p) == Entering(p) \/ Loaded(p)

Position(p) ==
    LET d == DriverOf[p] IN
    /\ pc[p] \in {"start", "entry", "link", "stop", "stopping"} => p \in handle
    /\ p \in handle => service[d] # "none"
    /\ Entering(p) => service[d] = "starting"
    /\ pc[p] = "entry" => step[d] <= Len(Creates(d)) + 1
    /\ pc[p] = "link" => step[d] <= Len(Creates(d))
    /\ Loaded(p) => service[d] = "running"
Alone ==
    \A p, q \in Loaders : Started(p) /\ Started(q) /\ DriverOf[p] = DriverOf[q] => p = q

LoaderInv == TypeOK /\ (\A p \in Loaders : Position(p)) /\ Alone

LEMMA InitLoader == Init => LoaderInv
<1> SUFFICES ASSUME Init PROVE LoaderInv
  OBVIOUS
<1>1. TypeOK
  BY DEF Init, TypeOK
<1>2. \A p \in Loaders : ~Started(p) /\ Position(p)
  BY DEF Init, Started, Entering, Loaded, Position
<1> QED BY <1>1, <1>2 DEF LoaderInv, Alone

\* What a step of program p does to pc, the handles and the services.
LEMMA LoaderSteps ==
    ASSUME LoaderInv, NEW p \in Loaders, main(p) \/ Again(p)
    PROVE  /\ \A q \in Loaders \ {p} : pc'[q] = pc[q] /\ (q \in handle' <=> q \in handle)
           /\ \A e \in Drivers :
                \/ service'[e] = service[e]
                \/ service[e] = "none" /\ service'[e] = "stopped"
                \/ /\ service[e] = "stopped" /\ service'[e] = "starting"
                   /\ e = DriverOf[p] /\ StartService(p)
                \/ /\ service[e] = "starting" /\ service'[e] \in {"running", "stopped"}
                   /\ e = DriverOf[p] /\ Entering(p)
                \/ /\ service[e] = "running" /\ service'[e] \in {"stop pending", "unloading"}
                   /\ e = DriverOf[p] /\ ControlService(p)
                \/ service[e] = "stop pending" /\ service'[e] = "unloading"
                \/ /\ service[e] = "stopped" /\ service'[e] = "none"
                   /\ \A q \in handle \ {p} : DriverOf[q] # e
           /\ Started(p)' => Started(p) \/ (StartService(p) /\ service[DriverOf[p]] = "stopped")
<1>0. TypeOK /\ Position(p) /\ DriverOf[p] \in Drivers
  BY DriverOfLoader DEF LoaderInv
<1>d. PICK d \in Drivers : d = DriverOf[p]
  BY <1>0
<1> USE DEF Goto, LoadFails, Started, Entering, Loaded
<1>1. CASE CreateService(p)
  <2>1. /\ \A q \in Loaders \ {p} : pc'[q] = pc[q]
        /\ pc'[p] \in {"start", "open", "leave"} /\ handle' \in {handle, handle \cup {p}}
    BY <1>0, <1>1, ZenonT(60) DEF CreateService, TypeOK
  <2>2. \/ service' = service
        \/ service[d] = "none" /\ service' = [service EXCEPT ![d] = "stopped"]
    BY <1>1, <1>d DEF CreateService
  <2>3. \A e \in Drivers : service'[e] = service[e]
                          \/ (service[e] = "none" /\ service'[e] = "stopped")
    BY <1>0, <2>2 DEF TypeOK
  <2> QED BY <2>1, <2>3
<1>2. CASE OpenService(p)
  BY <1>0, <1>2 DEF OpenService, TypeOK
<1>3. CASE StartService(p)
  <2>1. (\A q \in Loaders \ {p} : pc'[q] = pc[q]) /\ handle' = handle
    BY <1>0, <1>3 DEF StartService, TypeOK
  <2>2. \/ service' = service /\ pc'[p] = "leave"
        \/ service[d] = "stopped" /\ service' = [service EXCEPT ![d] = "starting"]
    BY <1>0, <1>3, <1>d DEF StartService, TypeOK
  <2>3. \A e \in Drivers :
           \/ service'[e] = service[e]
           \/ service[e] = "stopped" /\ service'[e] = "starting" /\ e = d
    BY <1>0, <2>2 DEF TypeOK
  <2>4. pc'[p] # "leave" => service[DriverOf[p]] = "stopped"
    BY <1>d, <2>2
  <2>5. pc'[p] = "leave" => ~Started(p)'
    OBVIOUS
  <2> QED BY <1>3, <1>d, <2>1, <2>3, <2>4, <2>5
<1>4. CASE CreateDevice(p)
  BY <1>0, <1>4 DEF CreateDevice, CreateDeviceReturns, TypeOK
<1>5. CASE CreateLink(p)
  BY <1>0, <1>5 DEF CreateLink, CreateDeviceReturns, TypeOK
<1>6. CASE DriverEntryReturns(p)
  <2>1. /\ \A q \in Loaders \ {p} : pc'[q] = pc[q]
        /\ handle' \in {handle, handle \ {p}} /\ pc[p] = "entry"
    BY <1>0, <1>6 DEF DriverEntryReturns, TypeOK
  <2>2. \/ service' = [service EXCEPT ![d] = "running"]
        \/ service' = [service EXCEPT ![d] = "stopped"]
    BY <1>6, <1>d DEF DriverEntryReturns
  <2>3. service[d] = "starting"
    BY <1>0, <1>d, <2>1 DEF Position
  <2>4. \A e \in Drivers :
           \/ service'[e] = service[e]
           \/ /\ service[e] = "starting" /\ service'[e] \in {"running", "stopped"} /\ e = d
    BY <1>0, <2>2, <2>3 DEF TypeOK
  <2>5. Entering(p)
    BY <2>1
  <2> QED BY <1>d, <2>1, <2>4, <2>5
<1>7. CASE OpenDevice(p)
  BY <1>0, <1>7 DEF OpenDevice, TypeOK
<1>8. CASE CloseDevice(p)
  BY <1>0, <1>8 DEF CloseDevice, TypeOK
<1>9. CASE OpenForUnload(p)
  BY <1>0, <1>9 DEF OpenForUnload, TypeOK
<1>10. CASE ControlService(p)
  BY <1>0, <1>10 DEF ControlService, TypeOK
<1>11. CASE DeleteService(p)
  BY <1>0, <1>11 DEF DeleteService, TypeOK
<1>12. CASE BeforeLeave(p)
  BY <1>0, <1>12 DEF BeforeLeave, TypeOK
<1>13. CASE Again(p)
  BY <1>0, <1>13 DEF Again, TypeOK
<1> QED BY <1>1, <1>2, <1>3, <1>4, <1>5, <1>6, <1>7, <1>8, <1>9, <1>10, <1>11, <1>12, <1>13
        DEF main, LoadNTDriver, DriverEntry, TestDriver, UnloadNTDriver

\* The number of the CreateDevice call changes only when p starts its driver or is in
\* its DriverEntry.
LEMMA StepMoves ==
    ASSUME LoaderInv, NEW p \in Loaders, main(p) \/ Again(p), NEW e \in Drivers
    PROVE  \/ step'[e] = step[e] /\ status'[e] = status[e]
           \/ e = DriverOf[p] /\ (Entering(p) \/ (StartService(p) /\ service[e] = "stopped"))
<1>0. TypeOK /\ DriverOf[p] \in Drivers
  BY DriverOfLoader DEF LoaderInv
<1>1. \/ step' = step /\ status' = status
      \/ CreateDevice(p) \/ CreateLink(p) \/ StartService(p)
  BY DEF main, LoadNTDriver, DriverEntry, TestDriver, UnloadNTDriver, CreateService, OpenService,
     DriverEntryReturns, OpenDevice, CloseDevice, OpenForUnload, ControlService, DeleteService,
     BeforeLeave, Again, Kernel
<1>2. CASE CreateDevice(p) \/ CreateLink(p)
  BY <1>0, <1>2 DEF CreateDevice, CreateLink, CreateDeviceReturns, Entering, TypeOK
<1>3. CASE StartService(p)
  BY <1>0, <1>3 DEF StartService, TypeOK
<1> QED BY <1>1, <1>2, <1>3

LEMMA OwnPosition ==
    ASSUME LoaderInv, NEW p \in Loaders, main(p) \/ Again(p)
    PROVE  Position(p)'
<1>d. PICK d \in Drivers : d = DriverOf[p]
  BY DriverOfLoader
<1>0. TypeOK /\ Position(p) /\ DriverOf[p] \in Drivers
  BY DriverOfLoader DEF LoaderInv
<1> DEFINE n == Len(Creates(d))
<1>m. n \in Nat /\ n >= 1
  BY DriverFacts
<1>n. n \in Nat /\ n >= 1 /\ step[d] \in Nat
  BY <1>0, <1>m, StepFacts
<1> HIDE DEF n
<1> USE DEF Goto, LoadFails, Entering, Loaded, Position
<1>1. CASE CreateService(p)
  <2>1. \/ pc'[p] \in {"open", "leave"} /\ service' = service /\ handle' = handle
        \/ /\ pc'[p] = "start" /\ service' = [service EXCEPT ![d] = "stopped"]
           /\ handle' = handle \cup {p}
    BY <1>0, <1>1, <1>d DEF CreateService, TypeOK
  <2> QED BY <1>0, <1>d, <2>1 DEF TypeOK
<1>2. CASE OpenService(p)
  BY <1>0, <1>2, ZenonT(60) DEF OpenService, TypeOK
<1>3. CASE StartService(p)
  <2>1. /\ handle' = handle /\ pc[p] = "start"
        /\ \/ pc'[p] = "leave" /\ service' = service
           \/ /\ pc'[p] = "entry" /\ service' = [service EXCEPT ![d] = "starting"]
              /\ step' = [step EXCEPT ![d] = 1]
    BY <1>0, <1>3, <1>d DEF StartService, TypeOK
  <2>2. pc'[p] = "entry" => service'[d] = "starting" /\ step'[d] <= n + 1
    <3>1. pc'[p] = "entry" => step'[d] = 1
      BY <1>0, <2>1, StepFacts
    <3>2. pc'[p] = "entry" => service'[d] = "starting"
      BY <1>0, <2>1 DEF TypeOK
    <3> QED BY <1>n, <3>1, <3>2
  <2> QED BY <1>0, <1>d, <2>1, <2>2 DEF n
<1>4. CASE CreateDevice(p)
  <2>1. /\ UNCHANGED <<handle, service>> /\ pc[p] = "entry" /\ step[d] <= n
        /\ \/ pc'[p] = "link" /\ step' = step
           \/ pc'[p] = "entry" /\ step' = [step EXCEPT ![d] = step[d] + 1]
    BY <1>0, <1>4, <1>d DEF CreateDevice, CreateDeviceReturns, TypeOK, n
  <2>2. step'[d] <= n + 1 /\ (pc'[p] = "link" => step'[d] <= n)
    BY <1>0, <1>n, <2>1, StepFacts
  <2> QED BY <1>0, <1>d, <2>1, <2>2 DEF n
<1>5. CASE CreateLink(p)
  <2>1. /\ UNCHANGED <<handle, service>> /\ pc[p] = "link" /\ step[d] <= n
        /\ pc'[p] = "entry" /\ step' = [step EXCEPT ![d] = step[d] + 1]
    BY <1>0, <1>5, <1>d DEF CreateLink, CreateDeviceReturns, TypeOK, n
  <2>2. step'[d] <= n + 1
    BY <1>0, <1>n, <2>1, StepFacts
  <2> QED BY <1>0, <1>d, <2>1, <2>2 DEF n
<1>6. CASE DriverEntryReturns(p)
  BY <1>0, <1>6, ZenonT(60) DEF DriverEntryReturns, TypeOK
<1>7. CASE OpenDevice(p)
  BY <1>0, <1>7, ZenonT(60) DEF OpenDevice, TypeOK
<1>8. CASE CloseDevice(p)
  <2>1. service'[DriverOf[p]] = service[DriverOf[p]] /\ pc'[p] = "unload" /\ handle' = handle
    BY <1>0, <1>8 DEF CloseDevice, TypeOK
  <2> QED BY <1>0, <1>8, <2>1 DEF CloseDevice
<1>9. CASE OpenForUnload(p)
  BY <1>0, <1>9, ZenonT(60) DEF OpenForUnload, TypeOK
<1>10. CASE ControlService(p)
  BY <1>0, <1>10 DEF ControlService, TypeOK
<1>11. CASE DeleteService(p)
  BY <1>0, <1>11 DEF DeleteService, TypeOK
<1>12. CASE BeforeLeave(p)
  BY <1>0, <1>12 DEF BeforeLeave, TypeOK
<1>13. CASE Again(p)
  BY <1>0, <1>13 DEF Again, TypeOK
<1> QED BY <1>1, <1>2, <1>3, <1>4, <1>5, <1>6, <1>7, <1>8, <1>9, <1>10, <1>11, <1>12, <1>13
        DEF main, LoadNTDriver, DriverEntry, TestDriver, UnloadNTDriver

LEMMA OtherPosition ==
    ASSUME LoaderInv, NEW p \in Loaders, main(p) \/ Again(p), NEW q \in Loaders \ {p}
    PROVE  Position(q)'
<1>0. Position(q) /\ DriverOf[q] \in Drivers
  BY DriverOfLoader DEF LoaderInv
<1>1. pc'[q] = pc[q] /\ (q \in handle' <=> q \in handle)
  BY LoaderSteps
<1>2. Started(q) /\ Started(p) => DriverOf[q] # DriverOf[p]
  BY DEF LoaderInv, Alone
<1>3. ControlService(p) => Loaded(p)
  BY DEF ControlService, Loaded
<1>4. Entering(q) => /\ service'[DriverOf[q]] = service[DriverOf[q]]
                     /\ step'[DriverOf[q]] = step[DriverOf[q]]
  BY <1>0, <1>2, <1>3, LoaderSteps, StepMoves DEF Position, Started
<1>5. Loaded(q) => service'[DriverOf[q]] = service[DriverOf[q]]
  BY <1>0, <1>2, <1>3, LoaderSteps DEF Position, Started
<1>6. q \in handle => service'[DriverOf[q]] # "none"
  BY <1>0, LoaderSteps DEF Position
<1> QED BY <1>0, <1>1, <1>4, <1>5, <1>6 DEF Position, Entering, Loaded

LEMMA StepKeepsAlone ==
    ASSUME LoaderInv, NEW p \in Loaders, main(p) \/ Again(p)
    PROVE  Alone'
<1>1. \A q \in Loaders \ {p} : Started(q)' <=> Started(q)
  BY LoaderSteps DEF Started, Entering, Loaded
<1>2. \A q \in Loaders : Started(q) => service[DriverOf[q]] # "stopped"
  BY DEF LoaderInv, Position, Started
<1>3. Started(p)' => Started(p) \/ service[DriverOf[p]] = "stopped"
  BY LoaderSteps
<1>4. ASSUME NEW q \in Loaders \ {p}, Started(p)', Started(q)' PROVE DriverOf[q] # DriverOf[p]
  BY <1>1, <1>2, <1>3, <1>4 DEF LoaderInv, Alone
<1>5. ASSUME NEW q \in Loaders \ {p}, NEW r \in Loaders \ {p}, Started(q)', Started(r)',
             DriverOf[q] = DriverOf[r]
      PROVE  q = r
  BY <1>1, <1>5 DEF LoaderInv, Alone
<1> QED BY <1>4, <1>5 DEF Alone

\* The types, for the variables of the programs and services and for those of the kernel.
TypesOfLoaders ==
    /\ pc \in [Loaders -> {"load", "open", "start", "entry", "link", "test", "close", "unload",
                           "stop", "stopping", "delete", "leave", "done"}]
    /\ bRet \in [Loaders -> BOOLEAN]
    /\ said \in [Loaders -> {"nothing", "load error", "unload error"}]
    /\ handle \subseteq Loaders
    /\ service \in [Drivers -> {"none", "stopped", "starting", "running", "stop pending",
                                "unloading"}]
TypesOfKernel ==
    /\ step \in [Drivers -> 1..3]
    /\ status \in [Drivers -> {"SUCCESS", "FAILED"}]
    /\ device \in [Names -> Drivers \cup {"nobody", "orphan"}]
    /\ link \subseteq Names
    /\ opened \in [Names -> Loaders \cup {"nobody"}]
    /\ buffer \subseteq Names
    /\ lost \subseteq {"CreateDevice", "HelloDDKUnload"}
MarkedIsRegistered == marked \subseteq {d \in Drivers : service[d] # "none"}

LEMMA TypeParts == TypeOK <=> TypesOfLoaders /\ TypesOfKernel /\ MarkedIsRegistered
BY DEF TypeOK, TypesOfLoaders, TypesOfKernel, MarkedIsRegistered

LEMMA TypePartsPrime ==
    TypesOfLoaders' /\ TypesOfKernel' /\ MarkedIsRegistered' => TypeOK'
BY DEF TypeOK, TypesOfLoaders, TypesOfKernel, MarkedIsRegistered

LEMMA StepKeepsLoaderTypes ==
    ASSUME LoaderInv, NEW p \in Loaders, main(p) \/ Again(p)
    PROVE  TypesOfLoaders'
<1>0. TypesOfLoaders /\ DriverOf[p] \in Drivers
  BY TypeParts, DriverOfLoader DEF LoaderInv
<1> USE DEF Goto, LoadFails, TypesOfLoaders
<1>1. CASE CreateService(p)
  BY <1>0, <1>1 DEF CreateService
<1>2. CASE OpenService(p)
  BY <1>0, <1>2 DEF OpenService
<1>3. CASE StartService(p)
  BY <1>0, <1>3 DEF StartService
<1>4. CASE CreateDevice(p)
  BY <1>0, <1>4 DEF CreateDevice, CreateDeviceReturns
<1>5. CASE CreateLink(p)
  BY <1>0, <1>5 DEF CreateLink, CreateDeviceReturns
<1>6. CASE DriverEntryReturns(p)
  BY <1>0, <1>6 DEF DriverEntryReturns
<1>7. CASE OpenDevice(p)
  BY <1>0, <1>7 DEF OpenDevice
<1>8. CASE CloseDevice(p)
  BY <1>0, <1>8 DEF CloseDevice
<1>9. CASE OpenForUnload(p)
  BY <1>0, <1>9 DEF OpenForUnload
<1>10. CASE ControlService(p)
  BY <1>0, <1>10 DEF ControlService
<1>11. CASE DeleteService(p)
  BY <1>0, <1>11 DEF DeleteService
<1>12. CASE BeforeLeave(p)
  BY <1>0, <1>12 DEF BeforeLeave
<1>13. CASE Again(p)
  BY <1>0, <1>13 DEF Again
<1> QED BY <1>1, <1>2, <1>3, <1>4, <1>5, <1>6, <1>7, <1>8, <1>9, <1>10, <1>11, <1>12, <1>13
        DEF main, LoadNTDriver, DriverEntry, TestDriver, UnloadNTDriver

LEMMA StepKeepsKernelTypes ==
    ASSUME LoaderInv, NEW p \in Loaders, main(p) \/ Again(p)
    PROVE  TypesOfKernel'
<1>d. PICK d \in Drivers : d = DriverOf[p]
  BY DriverOfLoader
<1>0. TypeOK /\ TypesOfKernel /\ DriverOf[p] \in Drivers /\ Position(p)
  BY TypeParts, DriverOfLoader DEF LoaderInv
<1> DEFINE n == Len(Creates(d))
<1>n. n \in {1, 2} /\ step[d] \in Nat /\ 1 <= step[d]
  BY <1>0, DriverFacts, StepFacts
<1> HIDE DEF n
<1>1. CASE UNCHANGED Kernel
  BY <1>0, <1>1 DEF Kernel, pool, TypesOfKernel
<1>2. CASE StartService(p)
  <2>1. step' \in {step, [step EXCEPT ![d] = 1]}
    BY <1>2, <1>d DEF StartService
  <2>2. step' \in [Drivers -> 1..3]
    BY <1>0, <2>1 DEF TypesOfKernel
  <2> QED BY <1>0, <1>2, <2>2 DEF StartService, TypesOfKernel, pool
<1>3. CASE CreateDevice(p) \/ CreateLink(p)
  <2>1. step[d] <= n
    BY <1>0, <1>3, <1>d DEF CreateDevice, CreateLink, Position, n
  <2>2. step[d] + 1 \in 1..3 /\ step[d] \in 1..n
    BY <1>n, <2>1
  <2>3. Name(d) \in Names
    BY <2>2, NameFacts DEF n
  <2>4. step' \in {step, [step EXCEPT ![d] = step[d] + 1]}
    BY <1>3, <1>d DEF CreateDevice, CreateLink, CreateDeviceReturns
  <2>5. step' \in [Drivers -> 1..3]
    BY <1>0, <2>2, <2>4 DEF TypesOfKernel
  <2>6. status' \in [Drivers -> {"SUCCESS", "FAILED"}]
    BY <1>0, <1>3, <1>d DEF CreateDevice, CreateLink, CreateDeviceReturns, TypesOfKernel
  <2>7. /\ device' \in [Names -> Drivers \cup {"nobody", "orphan"}]
        /\ buffer' \subseteq Names /\ lost' \subseteq {"CreateDevice", "HelloDDKUnload"}
        /\ link' \subseteq Names /\ opened' = opened
    <3>1. CASE CreateDevice(p)
      BY <1>0, <1>d, <2>3, <3>1 DEF CreateDevice, TypesOfKernel
    <3>2. CASE CreateLink(p)
      BY <1>0, <1>d, <2>3, <3>2 DEF CreateLink, DeleteDevice, pool, TypesOfKernel
    <3> QED BY <1>3, <3>1, <3>2
  <2> QED BY <1>0, <2>5, <2>6, <2>7 DEF TypesOfKernel
<1>4. CASE DriverEntryReturns(p)
  <2>1. device' \in [Names -> Drivers \cup {"nobody", "orphan"}]
    BY <1>0, <1>4 DEF DriverEntryReturns, TypesOfKernel
  <2> QED BY <1>0, <1>4, <2>1 DEF DriverEntryReturns, TypesOfKernel, pool
<1>5. CASE OpenDevice(p)
  BY <1>0, <1>5 DEF OpenDevice, TypesOfKernel, pool
<1>6. CASE CloseDevice(p)
  BY <1>0, <1>6 DEF CloseDevice, TypesOfKernel, pool
<1>7. \/ CreateService(p) \/ OpenService(p) \/ OpenForUnload(p) \/ ControlService(p)
      \/ DeleteService(p) \/ BeforeLeave(p) \/ Again(p)
      => UNCHANGED Kernel
  BY DEF CreateService, OpenService, OpenForUnload, ControlService, DeleteService, BeforeLeave, Again
<1> QED BY <1>1, <1>2, <1>3, <1>4, <1>5, <1>6, <1>7
        DEF main, LoadNTDriver, DriverEntry, TestDriver, UnloadNTDriver

LEMMA StepKeepsMarks ==
    ASSUME LoaderInv, NEW p \in Loaders, main(p) \/ Again(p)
    PROVE  MarkedIsRegistered'
<1>d. PICK d \in Drivers : d = DriverOf[p]
  BY DriverOfLoader
<1>0. MarkedIsRegistered /\ TypesOfLoaders /\ Position(p)
  BY TypeParts DEF LoaderInv
<1>1. CASE BeforeLeave(p)
  BY <1>0, <1>1, <1>d DEF BeforeLeave, MarkedIsRegistered, TypesOfLoaders
<1>2. CASE ~BeforeLeave(p)
  <2>1. marked' \subseteq marked \cup {d} /\ (marked' # marked => DeleteService(p))
    BY <1>2, <1>d DEF main, LoadNTDriver, DriverEntry, TestDriver, UnloadNTDriver, CreateService,
       OpenService, StartService, CreateDevice, CreateLink, DriverEntryReturns, OpenDevice,
       CloseDevice, OpenForUnload, ControlService, DeleteService, Again
  <2>2. ASSUME NEW e \in Drivers, service[e] # "none" PROVE service'[e] # "none"
    <3>1. CASE service' = service
      BY <2>2, <3>1
    <3>2. CASE service' # service
      BY <1>0, <1>2, <2>2, <3>2
         DEF main, LoadNTDriver, DriverEntry, TestDriver, UnloadNTDriver, CreateService,
         OpenService, StartService, CreateDevice, CreateLink, DriverEntryReturns, OpenDevice,
         CloseDevice, OpenForUnload, ControlService, DeleteService, Again, TypesOfLoaders
    <3> QED BY <3>1, <3>2
  <2>3. DeleteService(p) => service[d] # "none"
    BY <1>0, <1>d DEF DeleteService, Position
  <2> QED BY <1>0, <2>1, <2>2, <2>3 DEF MarkedIsRegistered
<1> QED BY <1>1, <1>2

\* The newest device of a driver that has one.
LEMMA NewestFacts ==
    ASSUME NEW d \in Drivers, Devices(d) # {}
    PROVE  /\ Newest(d) \in Names /\ device[Newest(d)] = d
<1>1. Devices(d) \subseteq {1, 2}
  BY DriverFacts DEF Devices
<1>2. \E i \in Devices(d) : \A j \in Devices(d) : j <= i
  <2>1. CASE 2 \in Devices(d)
    BY <1>1, <2>1
  <2>2. CASE 2 \notin Devices(d)
    BY <1>1, <2>2
  <2> QED BY <2>1, <2>2
<1>3. PICK i \in Devices(d) : Newest(d) = Creates(d)[i]
  BY <1>2 DEF Newest
<1> QED BY <1>3, DriverFacts DEF Devices

LEMMA UnloadKeepsLoader ==
    ASSUME LoaderInv, NEW d \in Drivers, DriverUnload(d)
    PROVE  LoaderInv'
<1>0. TypesOfLoaders /\ TypesOfKernel /\ MarkedIsRegistered /\ service[d] = "unloading"
  BY TypeParts DEF LoaderInv, DriverUnload, HelloDDKUnload, UnloadReturns
<1>1. UNCHANGED <<pc, bRet, said, handle, step>>
  BY DEF DriverUnload, HelloDDKUnload, UnloadReturns, Kernel
<1>2. CASE HelloDDKUnload(d)
  <2>1. Newest(d) \in Names
    BY <1>2, NewestFacts DEF HelloDDKUnload
  <2>2. TypesOfKernel'
    BY <1>0, <1>2, <2>1 DEF HelloDDKUnload, DeleteDevice, TypesOfKernel
  <2>3. UNCHANGED <<service, marked>>
    BY <1>2 DEF HelloDDKUnload
  <2>4. TypeOK'
    BY <1>0, <1>1, <2>2, <2>3, TypePartsPrime DEF TypesOfLoaders, MarkedIsRegistered
  <2> QED BY <1>1, <2>3, <2>4 DEF LoaderInv, Position, Alone, Started, Entering, Loaded
<1>3. CASE UnloadReturns(d)
  <2>1. /\ \A e \in Drivers \ {d} : service'[e] = service[e]
        /\ service'[d] \in {"none", "stopped"}
        /\ service'[d] = "none" => (\A q \in handle : DriverOf[q] # d) /\ marked' = marked \ {d}
        /\ marked' \subseteq marked /\ service' \in [Drivers -> {"none", "stopped", "starting",
                                              "running", "stop pending", "unloading"}]
    BY <1>0, <1>3 DEF UnloadReturns, TypesOfLoaders
  <2>2. TypesOfKernel'
    BY <1>0, <1>3 DEF UnloadReturns, Kernel, pool, TypesOfKernel
  <2>3. MarkedIsRegistered'
    BY <1>0, <2>1 DEF MarkedIsRegistered
  <2>4. TypesOfLoaders'
    BY <1>0, <1>1, <2>1 DEF TypesOfLoaders
  <2>5. ASSUME NEW p \in Loaders PROVE Position(p)'
    <3>1. Position(p) /\ DriverOf[p] \in Drivers
      BY DriverOfLoader DEF LoaderInv
    <3> QED BY <1>0, <1>1, <2>1, <3>1 DEF Position, Entering, Loaded
  <2>6. Alone'
    BY <1>1 DEF LoaderInv, Alone, Started, Entering, Loaded
  <2> QED BY <2>2, <2>3, <2>4, <2>5, <2>6, TypePartsPrime DEF LoaderInv
<1> QED BY <1>2, <1>3 DEF DriverUnload

LEMMA LoaderAlways == Spec => []LoaderInv
<1>1. ASSUME LoaderInv, [Next]_vars PROVE LoaderInv'
  <2>1. ASSUME NEW p \in Loaders, main(p) \/ Again(p) PROVE LoaderInv'
    <3>1. TypeOK'
      BY <1>1, <2>1, TypePartsPrime, StepKeepsLoaderTypes, StepKeepsKernelTypes, StepKeepsMarks
    <3>2. ASSUME NEW q \in Loaders PROVE Position(q)'
      BY <1>1, <2>1, OwnPosition, OtherPosition
    <3> QED BY <1>1, <2>1, <3>1, <3>2, StepKeepsAlone DEF LoaderInv
  <2>2. CASE UNCHANGED vars
    <3>1. TypeOK'
      BY <1>1, <2>2 DEF LoaderInv, vars, pool, TypeOK
    <3> QED BY <1>1, <2>2, <3>1 DEF LoaderInv, vars, Position, Alone, Started, Entering, Loaded
  <2> QED BY <1>1, <2>1, <2>2, UnloadKeepsLoader DEF Next
<1> QED BY <1>1, InitLoader, PTL DEF Spec

(* Every variable keeps its type, and only registered services are marked  *)
(* for deletion, whatever the programs do.                                 *)
THEOREM TypeCorrect == Spec => []TypeOK
<1>1. LoaderInv => TypeOK
  BY DEF LoaderInv
<1> QED BY <1>1, LoaderAlways, PTL

-----------------------------------------------------------------------------
(* The devices.  What a DriverEntry has come to tells which devices its    *)
(* driver owns; a device that has left DriverEntry has its link as long as *)
(* it has its buffer.                                                      *)
InMemory == {"starting", "running", "stop pending", "unloading"}

DeviceSound(n) ==
    /\ n \in link => device[n] # "nobody"
    /\ device[n] \in Drivers =>
        /\ service[device[n]] \in InMemory
        /\ \E i \in 1..Len(Creates(device[n])) : Creates(device[n])[i] = n
    /\ device[n] = "orphan" => \E d \in Drivers : \E i \in 1..(Len(Creates(d)) - 1) : Creates(d)[i] = n
    /\ n \in buffer =>
        /\ device[n] = "WDMBasicFunction"
        /\ service["WDMBasicFunction"] # "starting" => n \in link

\* The devices of a driver whose DriverEntry p is running.
EntrySound(p) ==
    LET d == DriverOf[p] IN
    /\ Entering(p) => \A i \in 1..Len(Creates(d)) :
          device[Creates(d)[i]] = d => i < step[d] \/ (i = step[d] /\ pc[p] = "link")
    /\ pc[p] = "link" => device[Name(d)] = d /\ Name(d) \notin link
    /\ pc[p] = "entry" /\ step[d] > 1 =>
          LET n == Creates(d)[step[d] - 1] IN
          IF status[d] = "SUCCESS" THEN device[n] = d /\ n \in link ELSE device[n] # d
    /\ Loaded(p) =>
          LET n == Creates(d)[Len(Creates(d))] IN device[n] = d /\ n \in link

DeviceInv ==
    /\ \A n \in Names : DeviceSound(n)
    /\ \A p \in Loaders : EntrySound(p)
    /\ lost \subseteq {"CreateDevice"}

LEMMA InitDevice == Init => DeviceInv
<1> SUFFICES ASSUME Init PROVE DeviceInv
  OBVIOUS
<1>1. \A n \in Names : DeviceSound(n)
  BY DriverFacts DEF Init, DeviceSound
<1>2. \A p \in Loaders : EntrySound(p)
  BY DEF Init, EntrySound, Entering, Loaded
<1> QED BY <1>1, <1>2 DEF Init, DeviceInv

\* Another program in or after its DriverEntry has another driver, whose services and
\* devices a step of p leaves alone.
LEMMA OtherEntry ==
    ASSUME LoaderInv, NEW p \in Loaders, main(p) \/ Again(p), NEW q \in Loaders \ {p},
           EntrySound(q),
           \A n \in Names : device[n] = DriverOf[q] => device'[n] = device[n],
           \A n \in Names : device'[n] = DriverOf[q] /\ Entering(q) => device[n] = DriverOf[q],
           \A n \in Names : device[n] = DriverOf[q] /\ Started(q) => (n \in link' <=> n \in link)
    PROVE  EntrySound(q)'
<1>d. PICK d \in Drivers : d = DriverOf[q]
  BY DriverOfLoader
<1>0. TypeOK /\ Position(q) /\ pc'[q] = pc[q]
  BY LoaderSteps DEF LoaderInv
<1>1. Entering(q) => step'[d] = step[d] /\ status'[d] = status[d]
  <2>1. Entering(q) /\ Started(p) => d # DriverOf[p]
    BY <1>d DEF LoaderInv, Alone, Started
  <2>2. Entering(q) => service[d] # "stopped"
    BY <1>0, <1>d DEF Position
  <2> QED BY <1>d, <2>1, <2>2, StepMoves DEF Started
<1>2. \A i \in 1..Len(Creates(d)) : Creates(d)[i] \in Names
  BY DriverFacts
<1>3. /\ Len(Creates(d)) \in 1..Len(Creates(d)) /\ Len(Creates(d)) \in Nat
      /\ step[d] \in Nat /\ 1 <= step[d]
  BY <1>0, DriverFacts, StepFacts
<1>4. pc[q] = "link" => Name(d) \in Names /\ Name(d)' = Name(d)
  <2>1. pc[q] = "link" => step[d] \in 1..Len(Creates(d))
    BY <1>0, <1>d, <1>3 DEF Position
  <2> QED BY <1>1, <2>1, NameFacts DEF Name, Entering
<1>5. pc[q] = "entry" /\ step[d] > 1 => step[d] - 1 \in 1..Len(Creates(d))
  BY <1>0, <1>d, <1>3 DEF Position
<1>6. Entering(q)' => \A i \in 1..Len(Creates(d)) :
          device'[Creates(d)[i]] = d => i < step'[d] \/ (i = step'[d] /\ pc'[q] = "link")
  BY <1>0, <1>1, <1>2, <1>d DEF EntrySound, Entering
<1>7. pc'[q] = "link" => device'[Name(d)'] = d /\ Name(d)' \notin link'
  BY <1>0, <1>4, <1>d DEF EntrySound, Entering, Started
<1>8. pc'[q] = "entry" /\ step'[d] > 1 =>
          LET n == Creates(d)[step'[d] - 1] IN
          IF status'[d] = "SUCCESS" THEN device'[n] = d /\ n \in link' ELSE device'[n] # d
  BY <1>0, <1>1, <1>2, <1>5, <1>d DEF EntrySound, Entering, Started
<1>9. Loaded(q)' =>
          LET n == Creates(d)[Len(Creates(d))] IN device'[n] = d /\ n \in link'
  BY <1>0, <1>2, <1>3, <1>d DEF EntrySound, Loaded, Started
<1> QED BY <1>d, <1>6, <1>7, <1>8, <1>9 DEF EntrySound

\* A step outside DriverEntry leaves the devices and links alone.
Outside(p) == (main(p) \/ Again(p)) /\ ~CreateDevice(p) /\ ~CreateLink(p) /\ ~DriverEntryReturns(p)

LEMMA OutsideSteps ==
    ASSUME LoaderInv, NEW p \in Loaders, Outside(p)
    PROVE  /\ UNCHANGED <<device, link, buffer, lost>> /\ ~Entering(p)
           /\ Entering(p)' => /\ service[DriverOf[p]] = "stopped" /\ pc'[p] = "entry"
                              /\ step'[DriverOf[p]] = 1
           /\ Loaded(p)' => Loaded(p)
<1>0. TypeOK /\ DriverOf[p] \in Drivers
  BY DriverOfLoader DEF LoaderInv
<1> USE DEF Goto, LoadFails, Entering, Loaded
<1>1. CASE StartService(p)
  <2>1. pc' = [pc EXCEPT ![p] = pc'[p]] /\ pc[p] = "start" /\ UNCHANGED <<device, link, buffer, lost>>
    BY <1>0, <1>1 DEF StartService, TypeOK, pool
  <2>2. \/ pc'[p] = "leave"
        \/ /\ pc'[p] = "entry" /\ service[DriverOf[p]] = "stopped"
           /\ step' = [step EXCEPT ![DriverOf[p]] = 1]
    BY <1>0, <1>1 DEF StartService, TypeOK
  <2> QED BY <1>0, <2>1, <2>2, StepFacts
<1>2. CASE CreateService(p) \/ OpenService(p) \/ OpenForUnload(p) \/ ControlService(p)
           \/ DeleteService(p) \/ BeforeLeave(p) \/ Again(p)
  <2>1. UNCHANGED Kernel
    BY <1>2 DEF CreateService, OpenService, OpenForUnload, ControlService, DeleteService,
       BeforeLeave, Again
  <2>2. pc[p] \notin {"entry", "link"} /\ (pc'[p] \in {"start", "open", "leave", "stopping", "done",
                                                    "load"} \/ (pc[p] = "unload" /\ pc'[p] = "stop"))
    BY <1>0, <1>2 DEF CreateService, OpenService, OpenForUnload, ControlService, DeleteService,
       BeforeLeave, Again, TypeOK
  <2> QED BY <2>1, <2>2 DEF Kernel, pool
<1>3. CASE OpenDevice(p) \/ CloseDevice(p)
  <2>1. pc[p] \in {"test", "close"} /\ pc'[p] \in {"close", "unload"}
    BY <1>0, <1>3 DEF OpenDevice, CloseDevice, TypeOK
  <2> QED BY <1>3, <2>1 DEF OpenDevice, CloseDevice, pool
<1> QED BY <1>1, <1>2, <1>3
        DEF Outside, main, LoadNTDriver, DriverEntry, TestDriver, UnloadNTDriver

LEMMA OutsideKeepsDevice ==
    ASSUME LoaderInv, DeviceInv, NEW p \in Loaders, Outside(p)
    PROVE  DeviceInv'
<1>0. TypeOK /\ (main(p) \/ Again(p)) /\ UNCHANGED <<device, link, buffer, lost>> /\ ~Entering(p)
  BY OutsideSteps DEF LoaderInv, Outside
<1>1. ASSUME NEW n \in Names PROVE DeviceSound(n)'
  <2>1. DeviceSound(n)
    BY DEF DeviceInv
  <2>2. \A e \in Drivers : service[e] \in InMemory => service'[e] \in InMemory
    BY <1>0, LoaderSteps DEF InMemory
  <2>3. \A e \in Drivers : service[e] = "starting" => service'[e] = "starting"
    BY <1>0, LoaderSteps
  <2>4. n \in buffer => "WDMBasicFunction" \in Drivers
    BY <1>0, <2>1 DEF DeviceSound, TypeOK
  <2> QED BY <1>0, <2>1, <2>2, <2>3, <2>4 DEF DeviceSound
<1>2. ASSUME NEW q \in Loaders \ {p} PROVE EntrySound(q)'
  BY <1>0, OtherEntry DEF DeviceInv
<1>3. EntrySound(p)'
  <2>d. PICK d \in Drivers : d = DriverOf[p]
    BY DriverOfLoader
  <2>1. CASE Entering(p)'
    <3>1. service[d] = "stopped" /\ pc'[p] = "entry" /\ step'[d] = 1
      BY <2>d, <2>1, OutsideSteps
    <3>2. \A n \in Names : device[n] # d
      BY <2>d, <3>1 DEF DeviceInv, DeviceSound, InMemory
    <3>3. \A i \in 1..Len(Creates(d)) : device'[Creates(d)[i]] # d
      BY <1>0, <3>2, DriverFacts
    <3> QED BY <2>d, <3>1, <3>3 DEF EntrySound, Loaded
  <2>2. CASE ~Entering(p)'
    BY <1>0, <2>2, OutsideSteps DEF DeviceInv, EntrySound, Entering
  <2> QED BY <2>1, <2>2
<1> QED BY <1>0, <1>1, <1>2, <1>3 DEF DeviceInv

\* Where a running DriverEntry stands.
LEMMA EntryFacts ==
    ASSUME LoaderInv, NEW p \in Loaders, NEW d \in Drivers, d = DriverOf[p], Entering(p)
    PROVE  /\ Len(Creates(d)) \in {1, 2} /\ step[d] \in Nat /\ 1 <= step[d]
           /\ step[d] <= Len(Creates(d)) + 1 /\ service[d] = "starting"
           /\ \A i \in 1..Len(Creates(d)) : Creates(d)[i] \in Names
           /\ step[d] <= Len(Creates(d)) => Name(d) \in Names
<1>1. TypeOK /\ Position(p)
  BY DEF LoaderInv
<1>2. Len(Creates(d)) \in {1, 2} /\ step[d] \in Nat /\ 1 <= step[d]
  BY <1>1, DriverFacts, StepFacts
<1> QED BY <1>1, <1>2, DriverFacts, NameFacts DEF Position, Entering

LEMMA OtherDriver ==
    ASSUME LoaderInv, NEW p \in Loaders, NEW q \in Loaders \ {p}, Started(p), Started(q)
    PROVE  DriverOf[q] # DriverOf[p]
BY DEF LoaderInv, Alone

LEMMA CreateDeviceKeepsDevice ==
    ASSUME LoaderInv, DeviceInv, NEW p \in Loaders, CreateDevice(p)
    PROVE  DeviceInv'
<1>d. PICK d \in Drivers : d = DriverOf[p]
  BY DriverOfLoader
<1> DEFINE s == step[d]
<1> DEFINE n0 == Name(d)
<1>0. /\ TypeOK /\ EntrySound(p) /\ pc[p] = "entry" /\ s <= Len(Creates(d))
      /\ UNCHANGED <<service, link, lost>>
  BY <1>d DEF LoaderInv, DeviceInv, CreateDevice
<1>1. /\ s \in Nat /\ 1 <= s /\ Len(Creates(d)) \in {1, 2} /\ n0 \in Names
      /\ service[d] = "starting" /\ d \notin {"nobody", "orphan"}
  BY <1>0, <1>d, EntryFacts, DriverFacts DEF Entering
<1>2. n0 = Creates(d)[s] /\ s \in 1..Len(Creates(d))
  BY <1>0, <1>1 DEF Name
<1>k. s + 1 \in Nat
  BY <1>1
<1>3. main(p)
  BY DEF main, DriverEntry
<1>4. CASE /\ device[n0] = "nobody" /\ device' = [device EXCEPT ![n0] = d]
           /\ pc'[p] = "link" /\ step' = step
           /\ \/ buffer' = buffer
              \/ d = "WDMBasicFunction" /\ buffer' = buffer \cup {n0}
  <2>1. device'[n0] = d /\ \A n \in Names \ {n0} : device'[n] = device[n]
    BY <1>0, <1>1, <1>4 DEF TypeOK
  <2>2. n0 \notin link /\ n0 \notin buffer
    BY <1>1, <1>4 DEF DeviceInv, DeviceSound
  <2>3. ASSUME NEW n \in Names PROVE DeviceSound(n)'
    <3>1. CASE n = n0
      BY <1>0, <1>1, <1>2, <1>4, <2>1, <2>2, <3>1 DEF DeviceSound, InMemory
    <3>2. CASE n # n0
      BY <1>0, <1>4, <2>1, <3>2 DEF DeviceInv, DeviceSound
    <3> QED BY <3>1, <3>2
  <2>4. EntrySound(p)'
    <3>1. Name(d)' = n0
      BY <1>4 DEF Name
    <3>2. \A i \in 1..Len(Creates(d)) : device'[Creates(d)[i]] = d => i < s \/ i = s
      <4>1. \A i \in 1..Len(Creates(d)) : Creates(d)[i] \in Names /\ (Creates(d)[i] = n0 => i = s)
        BY <1>2, DriverFacts
      <4>2. \A i \in 1..Len(Creates(d)) : device[Creates(d)[i]] = d => i < s
        BY <1>0, <1>d DEF EntrySound, Entering
      <4> QED BY <2>1, <4>1, <4>2
    <3> QED BY <1>0, <1>4, <1>d, <2>1, <2>2, <3>1, <3>2 DEF EntrySound, Loaded
  <2>5. ASSUME NEW q \in Loaders \ {p} PROVE EntrySound(q)'
    <3>1. Started(q) => DriverOf[q] # d
      BY <1>0, <1>d, OtherDriver DEF Started, Entering
    <3>2. EntrySound(q) /\ DriverOf[q] # "nobody"
      BY DriverOfLoader, DriverFacts DEF DeviceInv
    <3>3. \A n \in Names : device[n] = DriverOf[q] => device'[n] = device[n]
      BY <1>4, <2>1, <3>2
    <3>4. \A n \in Names : device'[n] = DriverOf[q] /\ Entering(q) => device[n] = DriverOf[q]
      BY <2>1, <3>1 DEF Started
    <3> QED BY <1>0, <1>3, <3>2, <3>3, <3>4, OtherEntry
  <2> QED BY <1>0, <2>3, <2>4, <2>5 DEF DeviceInv
<1>5. CASE /\ UNCHANGED <<device, buffer>> /\ pc'[p] = "entry"
           /\ step' = [step EXCEPT ![d] = s + 1] /\ status' = [status EXCEPT ![d] = "FAILED"]
  <2>1. step'[d] = s + 1 /\ status'[d] = "FAILED"
    <3>1. step'[d] = s + 1
      BY <1>0, <1>1, <1>5, <1>d, <1>k, StepFacts
    <3>2. status'[d] = "FAILED"
      BY <1>0, <1>5 DEF TypeOK
    <3> QED BY <3>1, <3>2
  <2>2. \A n \in Names : DeviceSound(n)'
    BY <1>0, <1>5 DEF DeviceInv, DeviceSound
  <2>3. EntrySound(p)'
    <3>1. \A i \in 1..Len(Creates(d)) : device[Creates(d)[i]] = d => i < s
      BY <1>0, <1>d DEF EntrySound, Entering
    <3>2. device[n0] # d
      BY <1>1, <1>2, <3>1
    <3>3. \A i \in 1..Len(Creates(d)) : device[Creates(d)[i]] = d => i < s + 1
      BY <1>1, <3>1
    <3>4. (s + 1) - 1 = s
      BY <1>1
    <3> HIDE DEF s
    <3>5. Creates(d)[step'[d] - 1] = n0
      BY <1>2, <2>1, <3>4
    <3> HIDE DEF n0
    <3> QED BY <1>5, <1>d, <2>1, <3>2, <3>3, <3>5 DEF EntrySound, Loaded
  <2>4. ASSUME NEW q \in Loaders \ {p} PROVE EntrySound(q)'
    BY <1>0, <1>3, <1>5, OtherEntry DEF DeviceInv
  <2> QED BY <1>0, <2>2, <2>3, <2>4 DEF DeviceInv
<1>6. \/ /\ device[n0] = "nobody" /\ device' = [device EXCEPT ![n0] = d]
         /\ pc'[p] = "link" /\ step' = step
         /\ \/ buffer' = buffer
            \/ d = "WDMBasicFunction" /\ buffer' = buffer \cup {n0}
      \/ /\ UNCHANGED <<device, buffer>> /\ pc'[p] = "entry"
         /\ step' = [step EXCEPT ![d] = s + 1] /\ status' = [status EXCEPT ![d] = "FAILED"]
  BY <1>0, <1>d DEF CreateDevice, CreateDeviceReturns, Goto, TypeOK
<1> QED BY <1>4, <1>5, <1>6

LEMMA CreateLinkKeepsDevice ==
    ASSUME LoaderInv, DeviceInv, NEW p \in Loaders, CreateLink(p)
    PROVE  DeviceInv'
<1>d. PICK d \in Drivers : d = DriverOf[p]
  BY DriverOfLoader
<1> DEFINE s == step[d]
<1> DEFINE n0 == Name(d)
<1>0. /\ TypeOK /\ EntrySound(p) /\ pc[p] = "link" /\ s <= Len(Creates(d))
      /\ service' = service /\ pc'[p] = "entry" /\ device[n0] = d /\ n0 \notin link
      /\ step' = [step EXCEPT ![d] = s + 1]
  <2>1. TypeOK /\ EntrySound(p) /\ Position(p)
    BY DEF LoaderInv, DeviceInv
  <2>2. pc[p] = "link" /\ service' = service /\ pc' = [pc EXCEPT ![p] = "entry"]
        /\ step' = [step EXCEPT ![d] = s + 1]
    BY <1>d DEF CreateLink, CreateDeviceReturns, Goto
  <2>3. s <= Len(Creates(d)) /\ device[n0] = d /\ n0 \notin link
    BY <1>d, <2>1, <2>2 DEF Position, EntrySound
  <2>4. pc'[p] = "entry"
    BY <2>1, <2>2 DEF TypeOK
  <2> QED BY <2>1, <2>2, <2>3, <2>4
<1>1. /\ s \in Nat /\ 1 <= s /\ Len(Creates(d)) \in {1, 2} /\ n0 \in Names
      /\ service[d] = "starting" /\ d \notin {"nobody", "orphan"}
  BY <1>0, <1>d, EntryFacts, DriverFacts DEF Entering
<1>2. n0 = Creates(d)[s] /\ s \in 1..Len(Creates(d))
  BY <1>0, <1>1 DEF Name
<1>3. main(p)
  BY DEF main, DriverEntry
<1>k. s + 1 \in Nat /\ (s + 1) - 1 = s
  BY <1>1
<1>4. step'[d] = s + 1 /\ step'[d] - 1 = s
  <2>1. step'[d] = s + 1
    BY <1>0, <1>d, <1>k, StepFacts
  <2> QED BY <1>k, <2>1
<1>5. \A i \in 1..Len(Creates(d)) : device[Creates(d)[i]] = d => i < s + 1
  BY <1>0, <1>1, <1>d DEF EntrySound, Entering
<1>6. ASSUME NEW q \in Loaders \ {p} PROVE EntrySound(q) /\ (Started(q) => DriverOf[q] # d)
  BY <1>0, <1>d, OtherDriver DEF Started, Entering, DeviceInv
<1>7. CASE /\ UNCHANGED <<device, buffer, lost>> /\ link' = link \cup {n0}
           /\ status' = [status EXCEPT ![d] = "SUCCESS"]
  <2>1. status'[d] = "SUCCESS"
    BY <1>0, <1>7 DEF TypeOK
  <2>2. ASSUME NEW n \in Names PROVE DeviceSound(n)'
    BY <1>0, <1>1, <1>7 DEF DeviceInv, DeviceSound
  <2>3. EntrySound(p)'
    <3>1. Creates(d)[step'[d] - 1] = n0 /\ device'[n0] = d /\ n0 \in link'
      BY <1>0, <1>2, <1>4, <1>7
    <3> HIDE DEF n0
    <3> QED BY <1>0, <1>4, <1>5, <1>7, <1>d, <2>1, <3>1 DEF EntrySound, Loaded
  <2>4. ASSUME NEW q \in Loaders \ {p} PROVE EntrySound(q)'
    <3>1. \A n \in Names : device[n] = DriverOf[q] /\ Started(q) => (n \in link' <=> n \in link)
      BY <1>0, <1>6, <1>7
    <3> QED BY <1>3, <1>6, <1>7, <3>1, OtherEntry
  <2> QED BY <1>7, <2>2, <2>3, <2>4 DEF DeviceInv
<1>8. CASE /\ device' = [device EXCEPT ![n0] = "nobody"] /\ buffer' = buffer \ {n0}
           /\ link' = link /\ lost' \subseteq {"CreateDevice"}
           /\ status' = [status EXCEPT ![d] = "FAILED"]
  <2>1. /\ device'[n0] = "nobody" /\ \A n \in Names \ {n0} : device'[n] = device[n]
        /\ status'[d] = "FAILED"
    BY <1>0, <1>1, <1>8 DEF TypeOK
  <2>2. ASSUME NEW n \in Names PROVE DeviceSound(n)'
    <3>1. CASE n = n0
      BY <1>0, <1>1, <1>8, <2>1, <3>1, DriverFacts DEF DeviceSound
    <3>2. CASE n # n0
      BY <1>0, <1>8, <2>1, <3>2 DEF DeviceInv, DeviceSound
    <3> QED BY <3>1, <3>2
  <2>3. EntrySound(p)'
    <3>1. Creates(d)[step'[d] - 1] = n0 /\ device'[n0] # d
      BY <1>1, <1>2, <1>4, <2>1
    <3>2. \A i \in 1..Len(Creates(d)) : device'[Creates(d)[i]] = d => i < step'[d]
      <4>1. \A i \in 1..Len(Creates(d)) : Creates(d)[i] \in Names
        BY DriverFacts
      <4> QED BY <1>1, <1>4, <1>5, <2>1, <4>1
    <3> HIDE DEF n0
    <3> QED BY <1>0, <1>d, <2>1, <3>1, <3>2 DEF EntrySound, Loaded
  <2>4. ASSUME NEW q \in Loaders \ {p} PROVE EntrySound(q)'
    <3>1. DriverOf[q] # "nobody"
      BY DriverOfLoader, DriverFacts
    <3>2. \A n \in Names : device'[n] = DriverOf[q] => device[n] = DriverOf[q]
      BY <2>1, <3>1
    <3>3. CASE ~Started(q)
      <4>1. ~Started(q)'
        BY <1>3, <3>3, LoaderSteps DEF Started, Entering, Loaded
      <4> QED BY <4>1 DEF EntrySound, Started, Entering
    <3>4. CASE Started(q)
      <4>1. \A n \in Names : device[n] = DriverOf[q] => device'[n] = device[n]
        BY <1>0, <1>6, <2>1, <3>4
      <4> QED BY <1>3, <1>6, <1>8, <3>2, <4>1, OtherEntry
    <3> QED BY <3>3, <3>4
  <2> QED BY <1>8, <2>2, <2>3, <2>4 DEF DeviceInv
<1>9. \/ /\ UNCHANGED <<device, buffer, lost>> /\ link' = link \cup {n0}
         /\ status' = [status EXCEPT ![d] = "SUCCESS"]
      \/ /\ device' = [device EXCEPT ![n0] = "nobody"] /\ buffer' = buffer \ {n0}
         /\ link' = link /\ lost' \subseteq {"CreateDevice"}
         /\ status' = [status EXCEPT ![d] = "FAILED"]
  <2>1. lost \subseteq {"CreateDevice"}
    BY DEF DeviceInv
  <2> QED BY <1>d, <2>1 DEF CreateLink, CreateDeviceReturns, DeleteDevice, pool
<1> QED BY <1>7, <1>8, <1>9

LEMMA EntryReturnsKeepsDevice ==
    ASSUME LoaderInv, DeviceInv, NEW p \in Loaders, DriverEntryReturns(p)
    PROVE  DeviceInv'
<1>d. PICK d \in Drivers : d = DriverOf[p]
  BY DriverOfLoader
<1> DEFINE n == Len(Creates(d))
<1>0. /\ TypeOK /\ EntrySound(p) /\ pc[p] = "entry" /\ ~(step[d] <= n)
      /\ UNCHANGED <<link, buffer, lost, step, status>>
  <2>1. step[d] > n
    BY <1>d DEF DriverEntryReturns
  <2>2. n \in Nat /\ step[d] \in Nat
    BY <1>d, DriverFacts, StepFacts DEF LoaderInv
  <2> QED BY <1>d, <2>1, <2>2 DEF LoaderInv, DeviceInv, DriverEntryReturns, pool
<1>1. /\ n \in {1, 2} /\ step[d] = n + 1 /\ step[d] > 1 /\ step[d] - 1 = n /\ n \in 1..n
      /\ service[d] = "starting" /\ d \notin {"nobody", "orphan"}
      /\ d = "WDMBasicFunction" => n = 1
  <2>1. n \in {1, 2} /\ step[d] \in Nat /\ step[d] <= n + 1 /\ service[d] = "starting"
    BY <1>0, <1>d, EntryFacts DEF Entering
  <2> QED BY <1>0, <1>d, <2>1, DriverFacts
<1> DEFINE last == Creates(d)[n]
<1>2. last \in Names /\ IF status[d] = "SUCCESS" THEN device[last] = d /\ last \in link
                                               ELSE device[last] # d
  BY <1>0, <1>1, <1>d, DriverFacts DEF EntrySound
<1>3. main(p)
  BY DEF main, DriverEntry
<1>4. ASSUME NEW q \in Loaders \ {p} PROVE EntrySound(q) /\ (Started(q) => DriverOf[q] # d)
  BY <1>0, <1>d, OtherDriver DEF Started, Entering, DeviceInv
<1>5. \A m \in Names : device[m] = d => \E i \in 1..n : Creates(d)[i] = m
  BY <1>d DEF DeviceInv, DeviceSound
<1>6. CASE /\ status[d] = "SUCCESS" /\ device' = device /\ pc'[p] = "test"
           /\ service' = [service EXCEPT ![d] = "running"]
  <2>1. service'[d] = "running" /\ \A e \in Drivers \ {d} : service'[e] = service[e]
    BY <1>0, <1>d, <1>6 DEF TypeOK
  <2>2. ASSUME NEW m \in Names PROVE DeviceSound(m)'
    <3>1. DeviceSound(m)
      BY DEF DeviceInv
    <3>2. m \in buffer => "WDMBasicFunction" \in Drivers
      BY <1>0, <3>1 DEF DeviceSound, TypeOK
    <3>3. m \in buffer /\ d = "WDMBasicFunction" => m \in link
      <4>1. m \in buffer /\ d = "WDMBasicFunction" => m = last
        BY <1>1, <1>5, <3>1 DEF DeviceSound
      <4> HIDE DEF last
      <4> QED BY <1>2, <1>6, <4>1
    <3>4. service'[d] \in InMemory
      BY <2>1 DEF InMemory
    <3> QED BY <1>0, <1>6, <2>1, <3>1, <3>2, <3>3, <3>4 DEF DeviceSound
  <2>3. EntrySound(p)'
    BY <1>2, <1>0, <1>6, <1>d DEF EntrySound, Entering
  <2>4. ASSUME NEW q \in Loaders \ {p} PROVE EntrySound(q)'
    BY <1>0, <1>3, <1>4, <1>6, OtherEntry
  <2> QED BY <1>0, <2>2, <2>3, <2>4 DEF DeviceInv
<1>7. CASE /\ status[d] = "FAILED" /\ pc'[p] = "leave"
           /\ service' = [service EXCEPT ![d] = "stopped"]
           /\ device' = [m \in Names |-> IF device[m] = d THEN "orphan" ELSE device[m]]
  <2>1. service'[d] = "stopped" /\ \A e \in Drivers \ {d} : service'[e] = service[e]
    BY <1>0, <1>d, <1>7 DEF TypeOK
  <2>2. device[last] # d
    BY <1>2, <1>7
  <2>3. ASSUME NEW m \in Names, device[m] = d PROVE \E i \in 1..(n - 1) : Creates(d)[i] = m
    <3>1. PICK i \in 1..n : Creates(d)[i] = m
      BY <1>5, <2>3
    <3>2. i # n
      BY <2>2, <2>3, <3>1
    <3>3. i \in 1..(n - 1)
      <4>1. n \in Nat /\ i \in 1..n
        BY <1>1, <3>1
      <4> HIDE DEF n
      <4> QED BY <3>2, <4>1
    <3> QED BY <3>1, <3>3
  <2>4. ASSUME NEW m \in Names PROVE DeviceSound(m)'
    <3>1. DeviceSound(m)
      BY DEF DeviceInv
    <3>2. CASE device[m] = d
      <4>1. device'[m] = "orphan"
        BY <1>7, <3>2
      <4>2. "orphan" \notin Drivers
        BY DriverFacts
      <4>3. m \notin buffer
        BY <1>1, <2>3, <3>1, <3>2 DEF DeviceSound
      <4>4. \E e \in Drivers : \E i \in 1..(Len(Creates(e)) - 1) : Creates(e)[i] = m
        BY <1>d, <2>3, <3>2
      <4> QED BY <1>0, <4>1, <4>2, <4>3, <4>4 DEF DeviceSound
    <3>3. CASE device[m] # d
      <4>1. device'[m] = device[m]
        BY <1>7, <3>3
      <4>2. m \in buffer => "WDMBasicFunction" \in Drivers
        BY <1>0, <3>1 DEF DeviceSound, TypeOK
      <4>3. m \in buffer => d # "WDMBasicFunction"
        BY <3>1, <3>3 DEF DeviceSound
      <4> QED BY <1>0, <2>1, <3>1, <3>3, <4>1, <4>2, <4>3 DEF DeviceSound
    <3> QED BY <3>2, <3>3
  <2>5. EntrySound(p)'
    BY <1>7 DEF EntrySound, Entering, Loaded
  <2>6. ASSUME NEW q \in Loaders \ {p} PROVE EntrySound(q)'
    <3>1. DriverOf[q] # "orphan"
      BY DriverOfLoader, DriverFacts
    <3>2. \A m \in Names : device'[m] = DriverOf[q] => device[m] = DriverOf[q]
      BY <1>7, <3>1
    <3>3. CASE ~Started(q)
      <4>1. ~Started(q)'
        BY <1>3, <3>3, LoaderSteps DEF Started, Entering, Loaded
      <4> QED BY <4>1 DEF EntrySound, Started, Entering
    <3>4. CASE Started(q)
      <4>1. \A m \in Names : device[m] = DriverOf[q] => device'[m] = device[m]
        BY <1>4, <1>7, <3>4
      <4> QED BY <1>0, <1>3, <1>4, <3>2, <4>1, OtherEntry
    <3> QED BY <3>3, <3>4
  <2> QED BY <1>0, <2>4, <2>5, <2>6 DEF DeviceInv
<1>8. \/ /\ status[d] = "SUCCESS" /\ device' = device /\ pc'[p] = "test"
         /\ service' = [service EXCEPT ![d] = "running"]
      \/ /\ status[d] = "FAILED" /\ pc'[p] = "leave"
         /\ service' = [service EXCEPT ![d] = "stopped"]
         /\ device' = [m \in Names |-> IF device[m] = d THEN "orphan" ELSE device[m]]
  BY <1>0, <1>d, ZenonT(60) DEF DriverEntryReturns, LoadFails, Goto, TypeOK
<1> QED BY <1>6, <1>7, <1>8

\* Unloading a driver touches no device of another one, and no program is in the
\* DriverEntry or the TestDriver of a driver that is being unloaded.
LEMMA UnloadKeepsDevice ==
    ASSUME LoaderInv, DeviceInv, NEW d \in Drivers, DriverUnload(d)
    PROVE  DeviceInv'
<1>0. /\ TypeOK /\ service[d] = "unloading" /\ d \notin {"nobody", "orphan"}
      /\ UNCHANGED <<pc, step, status>>
  BY DriverFacts DEF LoaderInv, DriverUnload, HelloDDKUnload, UnloadReturns, Kernel
<1>1. ASSUME NEW q \in Loaders
      PROVE /\ EntrySound(q) /\ Started(q)' = Started(q)
            /\ Started(q) => DriverOf[q] # d
  BY <1>0 DEF LoaderInv, DeviceInv, Position, Started, Entering, Loaded
<1>2. ASSUME NEW q \in Loaders,
             \A n \in Names : device[n] # d => device'[n] = device[n] /\ (n \in link' <=> n \in link),
             \A n \in Names : device[n] = d => device'[n] \in {d, "nobody"}
      PROVE  EntrySound(q)'
  <2>e. PICK e \in Drivers : e = DriverOf[q]
    BY DriverOfLoader
  <2>0. Started(q) => e # d
    BY <1>1, <2>e
  <2>1. /\ \A i \in 1..Len(Creates(e)) : Creates(e)[i] \in Names
        /\ Len(Creates(e)) \in 1..Len(Creates(e)) /\ Len(Creates(e)) \in Nat
        /\ step[e] \in Nat /\ 1 <= step[e] /\ e # "nobody"
    BY <1>0, <2>e, DriverFacts, StepFacts
  <2>2. Started(q) => \A n \in Names : device'[n] = e => device[n] = e
    BY <1>2, <2>0, <2>1
  <2>3. Started(q) => \A n \in Names : device[n] = e => device'[n] = e /\ (n \in link' <=> n \in link)
    BY <1>2, <2>0
  <2>4. pc[q] = "link" => Name(e) \in Names /\ Name(e)' = Name(e)
    <3>1. pc[q] = "link" => step[e] \in 1..Len(Creates(e))
      BY <2>e, <2>1 DEF LoaderInv, Position
    <3> QED BY <1>0, <2>e, <3>1, NameFacts DEF Name
  <2>5. pc[q] = "entry" /\ step[e] > 1 => step[e] - 1 \in 1..Len(Creates(e))
    BY <2>e, <2>1 DEF LoaderInv, Position
  <2>6. Entering(q)' => \A i \in 1..Len(Creates(e)) :
            device'[Creates(e)[i]] = e => i < step'[e] \/ (i = step'[e] /\ pc'[q] = "link")
    BY <1>0, <1>1, <2>1, <2>2, <2>e DEF EntrySound, Entering, Started
  <2>7. pc'[q] = "link" => device'[Name(e)'] = e /\ Name(e)' \notin link'
    BY <1>0, <1>1, <2>3, <2>4, <2>e DEF EntrySound, Entering, Started
  <2>8. pc'[q] = "entry" /\ step'[e] > 1 =>
            LET n == Creates(e)[step'[e] - 1] IN
            IF status'[e] = "SUCCESS" THEN device'[n] = e /\ n \in link' ELSE device'[n] # e
    BY <1>0, <1>1, <2>1, <2>2, <2>3, <2>5, <2>e DEF EntrySound, Entering, Started
  <2>9. Loaded(q)' =>
            LET n == Creates(e)[Len(Creates(e))] IN device'[n] = e /\ n \in link'
    BY <1>0, <1>1, <2>1, <2>3, <2>e DEF EntrySound, Loaded, Started
  <2> QED BY <2>e, <2>6, <2>7, <2>8, <2>9 DEF EntrySound
<1>3. CASE HelloDDKUnload(d)
  <2> DEFINE n0 == Newest(d)
  <2>1. n0 \in Names /\ device[n0] = d /\ DeviceSound(n0) /\ service' = service
    BY <1>3, NewestFacts DEF HelloDDKUnload, DeviceInv
  <2> HIDE DEF n0
  <2>2. CASE /\ n0 \in link /\ buffer' = buffer \ {n0} /\ link' = link \ {n0}
             /\ UNCHANGED <<device, lost>>
    <3>1. ASSUME NEW n \in Names PROVE DeviceSound(n)'
      BY <2>1, <2>2 DEF DeviceInv, DeviceSound
    <3>2. ASSUME NEW q \in Loaders PROVE EntrySound(q)'
      BY <1>2, <2>1, <2>2
    <3> QED BY <2>2, <3>1, <3>2 DEF DeviceInv
  <2>3. CASE /\ n0 \notin link /\ link' = link /\ device' = [device EXCEPT ![n0] = "nobody"]
             /\ lost' = (IF n0 \in buffer THEN lost \cup {"HelloDDKUnload"} ELSE lost)
             /\ buffer' = buffer \ {n0}
    <3>1. n0 \notin buffer
      BY <1>0, <2>1, <2>3 DEF DeviceSound
    <3>2. device'[n0] = "nobody" /\ \A n \in Names \ {n0} : device'[n] = device[n]
      BY <1>0, <2>1, <2>3 DEF TypeOK
    <3>3. ASSUME NEW n \in Names PROVE DeviceSound(n)'
      <4>1. CASE n = n0
        BY <2>3, <3>2, <4>1, DriverFacts DEF DeviceSound
      <4>2. CASE n # n0
        BY <2>1, <2>3, <3>2, <4>2 DEF DeviceInv, DeviceSound
      <4> QED BY <4>1, <4>2
    <3>4. ASSUME NEW q \in Loaders PROVE EntrySound(q)'
      <4>1. \A n \in Names : device[n] # d => device'[n] = device[n] /\ (n \in link' <=> n \in link)
        BY <2>1, <2>3, <3>2
      <4>2. \A n \in Names : device[n] = d => device'[n] \in {d, "nobody"}
        BY <3>2
      <4> QED BY <1>2, <4>1, <4>2
    <3> QED BY <2>3, <3>1, <3>3, <3>4 DEF DeviceInv
  <2> QED BY <1>3, <2>2, <2>3 DEF HelloDDKUnload, DeleteDevice, n0
<1>4. CASE UnloadReturns(d)
  <2>1. /\ UNCHANGED <<device, link, buffer, lost>> /\ Devices(d) = {}
        /\ service'[d] \in {"none", "stopped"}
        /\ \A e \in Drivers \ {d} : service'[e] = service[e]
    BY <1>0, <1>4 DEF UnloadReturns, Kernel, pool, TypeOK
  <2>2. ASSUME NEW n \in Names PROVE DeviceSound(n)'
    <3>1. DeviceSound(n)
      BY DEF DeviceInv
    <3>2. device[n] # d
      BY <2>1, <3>1 DEF DeviceSound, Devices
    <3>3. n \in buffer => "WDMBasicFunction" \in Drivers \ {d}
      BY <1>0, <3>1, <3>2 DEF DeviceSound, TypeOK
    <3> QED BY <2>1, <3>1, <3>2, <3>3 DEF DeviceSound
  <2>3. ASSUME NEW q \in Loaders PROVE EntrySound(q)'
    BY <1>2, <2>1
  <2> QED BY <2>1, <2>2, <2>3 DEF DeviceInv
<1> QED BY <1>3, <1>4 DEF DriverUnload

LEMMA DeviceAlways == Spec => []DeviceInv
<1>1. ASSUME LoaderInv, DeviceInv, [Next]_vars PROVE DeviceInv'
  <2>1. ASSUME NEW p \in Loaders, main(p) \/ Again(p) PROVE DeviceInv'
    BY <1>1, <2>1, CreateDeviceKeepsDevice, CreateLinkKeepsDevice, EntryReturnsKeepsDevice,
       OutsideKeepsDevice DEF Outside
  <2>2. CASE UNCHANGED vars
    BY <1>1, <2>2 DEF vars, pool, DeviceInv, DeviceSound, EntrySound, Entering, Loaded, Name
  <2> QED BY <1>1, <2>1, <2>2, UnloadKeepsDevice DEF Next
<1> QED BY <1>1, InitDevice, LoaderAlways, PTL DEF Spec

(* A symbolic link always leads to a device, through every interleaving of *)
(* loads, failed loads and unloads of drivers that compete for the names.  *)
THEOREM LinkLeadsToDeviceAlways == Spec => []LinkLeadsToDevice
<1>1. LoaderInv /\ DeviceInv => LinkLeadsToDevice
  BY DEF LoaderInv, TypeOK, DeviceInv, DeviceSound, LinkLeadsToDevice
<1> QED BY <1>1, LoaderAlways, DeviceAlways, PTL

(* A driver that is not in memory owns neither a device nor a buffer; what *)
(* its DriverEntry left behind is a device created before its last one,    *)
(* and HelloDDKUnload never loses a buffer.                                *)
THEOREM UnloadedOwnsNothingAlways == Spec => []UnloadedOwnsNothing
<1>1. LoaderInv /\ DeviceInv => UnloadedOwnsNothing
  BY DEF LoaderInv, TypeOK, DeviceInv, DeviceSound, InMemory, UnloadedOwnsNothing
<1> QED BY <1>1, LoaderAlways, DeviceAlways, PTL

(* From the return of LoadNTDriver to its own ControlService a program's   *)
(* driver stays in memory, with its last device and link.                  *)
THEOREM StaysLoadedAlways == Spec => []StaysLoaded
<1>1. LoaderInv /\ DeviceInv => StaysLoaded
  BY DEF LoaderInv, Position, DeviceInv, EntrySound, Loaded, StaysLoaded
<1> QED BY <1>1, LoaderAlways, DeviceAlways, PTL
=============================================================================
