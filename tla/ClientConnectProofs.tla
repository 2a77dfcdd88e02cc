-------------------------- MODULE ClientConnectProofs --------------------------
(* Proofs about ClientConnect, for any number of processes and interfaces. *)
EXTENDS ClientConnect, TLAPS

LEMMA InterfaceFacts ==
    /\ Len(Interfaces) \in Nat
    /\ \A i \in 1..Len(Interfaces) : Interfaces[i] \in Files
    /\ \A f \in Files : /\ UsageOf[f] \in Usages \cup {"other"}
                        /\ f \notin NoHandle
                        /\ \E i \in 1..Len(Interfaces) : f = Interfaces[i]
    /\ \A c \in Clients : c # "nobody" /\ c # "system"
BY ClientConnectAssumption DEF Files

LEMMA IndexFacts ==
    ASSUME TypeOK, NEW c \in Clients
    PROVE  /\ Len(Interfaces) \in Nat /\ index[c] \in Nat
           /\ 1 <= index[c] /\ index[c] <= Len(Interfaces) + 1
<1> DEFINE n == Len(Interfaces)
<1>1. n \in Nat BY InterfaceFacts
<1>2. index[c] \in 1..(n + 1) BY DEF TypeOK
<1> HIDE DEF n
<1>3. index[c] \in Nat /\ 1 <= index[c] /\ index[c] <= n + 1 BY <1>1, <1>2
<1> QED BY <1>1, <1>3 DEF n

\* An excuse that has been given stays.
LEMMA ExcuseFacts ==
    ASSUME TypeOK, NEW c \in Clients, NEW e \in {"busy", "failed"},
           excuse' = [excuse EXCEPT ![c] = @ \cup {e}]
    PROVE  /\ excuse' \in [Clients -> SUBSET {"busy", "failed"}] /\ excuse'[c] # {}
           /\ \A d \in Clients \ {c} : excuse'[d] = excuse[d]
BY DEF TypeOK

-----------------------------------------------------------------------------
(* What each client owns, read off from where it is in the library: this   *)
(* is what makes HandlesAccounted and ConnectedHolds inductive.            *)
Looking(c) == pc[c] \in {"searching", "checking"}
OwnsControl(c) ==
    \/ Looking(c) /\ target[c] = "message"
    \/ pc[c] \in {"buffers", "closing"}
    \/ pc[c] = "ready" /\ result[c] = "TRUE"
OwnsMessage(c) ==
    \/ pc[c] = "buffers"
    \/ pc[c] \in {"closing", "closing message"} /\ hMessage[c] # "INVALID"
    \/ pc[c] = "ready" /\ result[c] = "TRUE"

Opened(c, h, u) == h \in Files /\ UsageOf[h] = u /\ holder[h] = c

\* The interface a search is looking at is open, and is not the one it has kept.
FileOpen(c) ==
    IF pc[c] = "checking"
    THEN /\ index[c] <= Len(Interfaces) /\ file[c] = Interfaces[index[c]]
         /\ file[c] \in Files /\ holder[file[c]] = c
         /\ OwnsControl(c) => file[c] # hControl[c]
    ELSE file[c] = "INVALID"

HandlesOpen(c) ==
    /\ OwnsControl(c) => Opened(c, hControl[c], "control")
    /\ OwnsMessage(c) => Opened(c, hMessage[c], "message")

NothingElseOpen(c) ==
    \A f \in Files : holder[f] = c =>
        \/ pc[c] = "checking" /\ f = file[c]
        \/ OwnsControl(c) /\ f = hControl[c]
        \/ OwnsMessage(c) /\ f = hMessage[c]

ResultFits(c) ==
    /\ result[c] = "TRUE" => pc[c] = "ready"
    /\ result[c] = "FALSE" => pc[c] \in {"ready", "closing", "closing message", "unallocated"}

OwnershipOf(c) == FileOpen(c) /\ HandlesOpen(c) /\ NothingElseOpen(c) /\ ResultFits(c)

\* A search without an excuse has looked at everything it has passed.
Searched(c) ==
    Looking(c) /\ excuse[c] = {} =>
        \A i \in 1..Len(Interfaces) : i < index[c] => UsageOf[Interfaces[i]] # target[c]
Reasoned(c) ==
    result[c] = "FALSE" => excuse[c] # {} \/ ~Present("control") \/ ~Present("message")

ClientInv == TypeOK /\ \A c \in Clients : OwnershipOf(c) /\ Searched(c) /\ Reasoned(c)

LEMMA InitClient == Init => ClientInv
<1> SUFFICES ASSUME Init PROVE ClientInv
  OBVIOUS
<1>1. 1 \in 1..(Len(Interfaces) + 1)
  BY InterfaceFacts
<1>2. TypeOK
  BY <1>1 DEF Init, TypeOK, Usages, NoHandle
<1>3. ASSUME NEW c \in Clients PROVE OwnershipOf(c) /\ Searched(c) /\ Reasoned(c)
  BY InterfaceFacts DEF Init, OwnershipOf, FileOpen, HandlesOpen, NothingElseOpen, ResultFits,
     OwnsControl, OwnsMessage, Looking, Searched, Reasoned
<1> QED BY <1>2, <1>3 DEF ClientInv

\* What a step of c leaves to the other clients.
OnlyFor(c) ==
    /\ \A d \in Clients \ {c} :
          /\ pc'[d] = pc[d] /\ target'[d] = target[d] /\ index'[d] = index[d]
          /\ file'[d] = file[d] /\ hControl'[d] = hControl[d] /\ hMessage'[d] = hMessage[d]
          /\ result'[d] = result[d] /\ excuse'[d] = excuse[d]
    /\ \A f \in Files : holder'[f] # holder[f] => \/ holder[f] = "nobody" /\ holder'[f] = c
                                                  \/ holder[f] = c /\ holder'[f] = "nobody"

LEMMA OthersUndisturbed ==
    ASSUME ClientInv, NEW c \in Clients, OnlyFor(c), TypeOK',
           (OwnershipOf(c) /\ Searched(c) /\ Reasoned(c))'
    PROVE  ClientInv'
<1> SUFFICES ASSUME NEW d \in Clients \ {c}
             PROVE  (OwnershipOf(d) /\ Searched(d) /\ Reasoned(d))'
  BY DEF ClientInv
<1>1. /\ pc'[d] = pc[d] /\ target'[d] = target[d] /\ index'[d] = index[d]
      /\ file'[d] = file[d] /\ hControl'[d] = hControl[d] /\ hMessage'[d] = hMessage[d]
      /\ result'[d] = result[d] /\ excuse'[d] = excuse[d]
  BY DEF OnlyFor
<1>2. \A f \in Files : holder'[f] = d <=> holder[f] = d
  BY InterfaceFacts DEF OnlyFor
<1>3. OwnershipOf(d) /\ Searched(d) /\ Reasoned(d)
  BY DEF ClientInv
<1>4. (OwnsControl(d)' <=> OwnsControl(d)) /\ (OwnsMessage(d)' <=> OwnsMessage(d))
      /\ (Looking(d)' <=> Looking(d))
  BY <1>1 DEF OwnsControl, OwnsMessage, Looking
<1>5. FileOpen(d)'
  BY <1>1, <1>2, <1>3, <1>4 DEF OwnershipOf, FileOpen
<1>6. HandlesOpen(d)' /\ NothingElseOpen(d)' /\ ResultFits(d)'
  BY <1>1, <1>2, <1>3, <1>4 DEF OwnershipOf, HandlesOpen, Opened, NothingElseOpen, ResultFits
<1>7. Searched(d)' /\ Reasoned(d)'
  BY <1>1, <1>3, <1>4 DEF Searched, Reasoned, Present
<1> QED BY <1>5, <1>6, <1>7 DEF OwnershipOf

-----------------------------------------------------------------------------
(* One lemma per step.                                                     *)

\* The caller's steps open and close nothing.
LEMMA CallerClient ==
    ASSUME ClientInv, NEW c \in Clients,
           vmulti_alloc(c) \/ vmulti_free(c) \/ vmulti_connect(c) \/ vmulti_disconnect(c)
    PROVE  ClientInv'
<1>0. TypeOK /\ OwnershipOf(c) /\ Searched(c) /\ Reasoned(c)
  BY DEF ClientInv
<1>1. OnlyFor(c) /\ UNCHANGED <<holder, file>>
  BY <1>0 DEF vmulti_alloc, vmulti_free, vmulti_connect, vmulti_disconnect, OnlyFor, TypeOK
<1>2. TypeOK'
  <2>1. 1 \in 1..(Len(Interfaces) + 1) /\ "control" \in Usages /\ "GARBAGE" \in NoHandle
    BY InterfaceFacts DEF Usages, NoHandle
  <2>2. CASE vmulti_alloc(c)
    BY <1>0, <2>1, <2>2 DEF vmulti_alloc, TypeOK
  <2>3. CASE vmulti_free(c)
    BY <1>0, <2>3 DEF vmulti_free, TypeOK
  <2>4. CASE vmulti_connect(c)
    BY <1>0, <2>1, <2>4 DEF vmulti_connect, TypeOK
  <2>5. CASE vmulti_disconnect(c)
    BY <1>0, <2>5 DEF vmulti_disconnect, TypeOK
  <2> QED BY <2>2, <2>3, <2>4, <2>5
<1>3. CASE vmulti_alloc(c)
  <2>1. /\ pc[c] = "unallocated" /\ pc'[c] = "ready" /\ result'[c] = result[c]
        /\ excuse'[c] = excuse[c]
    BY <1>0, <1>3 DEF vmulti_alloc, TypeOK
  <2>2. ~OwnsControl(c)' /\ ~OwnsMessage(c)' /\ ~OwnsControl(c) /\ ~OwnsMessage(c)
    BY <1>0, <2>1 DEF OwnsControl, OwnsMessage, Looking, OwnershipOf, ResultFits
  <2>3. OwnershipOf(c)' /\ Searched(c)' /\ Reasoned(c)'
    BY <1>0, <1>1, <2>1, <2>2 DEF OwnershipOf, FileOpen, HandlesOpen, NothingElseOpen, ResultFits,
       Searched, Looking, Reasoned, Present
  <2> QED BY <1>1, <1>2, <2>3, OthersUndisturbed
<1>4. CASE vmulti_free(c)
  <2>1. /\ pc[c] = "ready" /\ pc'[c] = "unallocated" /\ result'[c] = result[c]
        /\ result[c] # "TRUE" /\ excuse'[c] = excuse[c]
    BY <1>0, <1>4 DEF vmulti_free, TypeOK
  <2>2. ~OwnsControl(c)' /\ ~OwnsMessage(c)' /\ ~OwnsControl(c) /\ ~OwnsMessage(c)
    BY <1>0, <2>1 DEF OwnsControl, OwnsMessage, Looking
  <2>3. OwnershipOf(c)' /\ Searched(c)' /\ Reasoned(c)'
    BY <1>0, <1>1, <2>1, <2>2 DEF OwnershipOf, FileOpen, HandlesOpen, NothingElseOpen, ResultFits,
       Searched, Looking, Reasoned, Present
  <2> QED BY <1>1, <1>2, <2>3, OthersUndisturbed
<1>5. CASE vmulti_connect(c)
  <2>1. /\ pc[c] = "ready" /\ pc'[c] = "searching" /\ result[c] # "TRUE" /\ result'[c] = "none"
        /\ target'[c] = "control" /\ index'[c] = 1
    BY <1>0, <1>5 DEF vmulti_connect, TypeOK
  <2>2. ~OwnsControl(c)' /\ ~OwnsMessage(c)' /\ ~OwnsControl(c) /\ ~OwnsMessage(c)
    BY <1>0, <2>1 DEF OwnsControl, OwnsMessage, Looking
  <2>3. OwnershipOf(c)' /\ Searched(c)' /\ Reasoned(c)'
    BY <1>0, <1>1, <2>1, <2>2 DEF OwnershipOf, FileOpen, HandlesOpen, NothingElseOpen, ResultFits,
       Searched, Reasoned
  <2> QED BY <1>1, <1>2, <2>3, OthersUndisturbed
<1>6. CASE vmulti_disconnect(c)
  <2>1. /\ pc[c] = "ready" /\ pc'[c] = "closing" /\ result[c] = "TRUE" /\ result'[c] = "none"
        /\ hControl'[c] = hControl[c] /\ hMessage'[c] = hMessage[c]
    BY <1>0, <1>6 DEF vmulti_disconnect, TypeOK
  <2>2. OwnsControl(c) /\ OwnsMessage(c) /\ hMessage[c] # "INVALID"
    BY <1>0, <2>1, InterfaceFacts DEF OwnsControl, OwnsMessage, OwnershipOf, HandlesOpen, Opened,
       NoHandle
  <2>3. OwnsControl(c)' /\ OwnsMessage(c)'
    BY <2>1, <2>2 DEF OwnsControl, OwnsMessage
  <2>4. OwnershipOf(c)' /\ Searched(c)' /\ Reasoned(c)'
    BY <1>0, <1>1, <2>1, <2>2, <2>3 DEF OwnershipOf, FileOpen, HandlesOpen, Opened,
       NothingElseOpen, ResultFits, Searched, Looking, Reasoned
  <2> QED BY <1>1, <1>2, <2>4, OthersUndisturbed
<1> QED BY <1>3, <1>4, <1>5, <1>6

\* A search opens an interface nobody has open, or goes on to the next.
LEMMA OpenClient ==
    ASSUME ClientInv, NEW c \in Clients, OpenDeviceInterface(c)
    PROVE  ClientInv'
<1>0. TypeOK /\ OwnershipOf(c) /\ Searched(c) /\ Reasoned(c)
  BY DEF ClientInv
<1> DEFINE f == Interfaces[index[c]]
<1>1. /\ pc[c] = "searching" /\ index[c] \in 1..Len(Interfaces) /\ f \in Files
      /\ index[c] + 1 \in 1..(Len(Interfaces) + 1)
      /\ UNCHANGED <<target, hControl, hMessage, result>>
  <2>1. /\ pc[c] = "searching" /\ index[c] <= Len(Interfaces)
        /\ UNCHANGED <<target, hControl, hMessage, result>>
    BY DEF OpenDeviceInterface
  <2>2. index[c] \in 1..Len(Interfaces) /\ index[c] + 1 \in 1..(Len(Interfaces) + 1)
    BY <1>0, <2>1, IndexFacts
  <2> QED BY <2>1, <2>2, InterfaceFacts
<1>2. result'[c] # "FALSE" /\ result'[c] # "TRUE"
  BY <1>0, <1>1 DEF OwnershipOf, ResultFits
<1>3. ASSUME /\ UNCHANGED <<holder, file, pc>>
             /\ index' = [index EXCEPT ![c] = @ + 1]
             /\ \A d \in Clients \ {c} : excuse'[d] = excuse[d]
             /\ excuse' \in [Clients -> SUBSET {"busy", "failed"}]
             /\ excuse'[c] # {} \/ (excuse'[c] = excuse[c] /\ UsageOf[f] # target[c])
      PROVE  ClientInv'
  <2>1. OnlyFor(c) /\ TypeOK' /\ index'[c] = index[c] + 1
    BY <1>0, <1>1, <1>3 DEF OnlyFor, TypeOK
  <2>2. OwnershipOf(c)'
    BY <1>0, <1>1, <1>3 DEF OwnershipOf, FileOpen, HandlesOpen, Opened, NothingElseOpen,
       ResultFits, OwnsControl, OwnsMessage, Looking
  <2>3. Searched(c)'
    <3> SUFFICES ASSUME excuse'[c] = {}, NEW i \in 1..Len(Interfaces), i < index'[c]
                 PROVE  UsageOf[Interfaces[i]] # target[c]
      BY <1>1 DEF Searched
    <3>1. excuse[c] = {} /\ (i < index[c] \/ i = index[c])
      BY <1>1, <1>3, <2>1, InterfaceFacts
    <3> QED BY <1>0, <1>1, <1>3, <3>1 DEF Searched, Looking
  <2>4. Reasoned(c)'
    BY <1>2 DEF Reasoned
  <2> QED BY <2>1, <2>2, <2>3, <2>4, OthersUndisturbed
<1>4. CASE /\ index' = [index EXCEPT ![c] = @ + 1]
           /\ excuse' = [excuse EXCEPT ![c] = @ \cup {"failed"}]
           /\ UNCHANGED <<holder, file, pc>>
  BY <1>0, <1>3, <1>4, ExcuseFacts
<1>5. CASE /\ holder[f] # "nobody"
           /\ index' = [index EXCEPT ![c] = @ + 1]
           /\ excuse' = IF UsageOf[f] = target[c]
                        THEN [excuse EXCEPT ![c] = @ \cup {"busy"}] ELSE excuse
           /\ UNCHANGED <<holder, file, pc>>
  BY <1>0, <1>3, <1>5, ExcuseFacts DEF TypeOK
<1>6. CASE /\ holder[f] = "nobody"
           /\ holder' = [holder EXCEPT ![f] = c]
           /\ file' = [file EXCEPT ![c] = f]
           /\ pc' = [pc EXCEPT ![c] = "checking"]
           /\ UNCHANGED <<index, excuse>>
  <2>1. /\ OnlyFor(c) /\ TypeOK'
        /\ pc'[c] = "checking" /\ file'[c] = f
        /\ \A g \in Files : holder'[g] = IF g = f THEN c ELSE holder[g]
    BY <1>0, <1>1, <1>6 DEF OnlyFor, TypeOK
  <2>2. (OwnsControl(c)' <=> OwnsControl(c)) /\ ~OwnsMessage(c)' /\ ~OwnsMessage(c)
    BY <1>1, <1>2, <2>1 DEF OwnsControl, OwnsMessage, Looking
  <2>3. OwnsControl(c) => f # hControl[c]
    BY <1>0, <1>6, InterfaceFacts DEF OwnershipOf, HandlesOpen, Opened
  <2>4. FileOpen(c)'
    BY <1>1, <1>6, <2>1, <2>2, <2>3 DEF FileOpen
  <2>5. HandlesOpen(c)' /\ NothingElseOpen(c)' /\ ResultFits(c)'
    BY <1>0, <1>1, <1>2, <2>1, <2>2, <2>3 DEF OwnershipOf, HandlesOpen, Opened,
       NothingElseOpen, ResultFits
  <2>6. Searched(c)' /\ Reasoned(c)'
    BY <1>0, <1>1, <1>2, <1>6 DEF Searched, Looking, Reasoned
  <2> QED BY <2>1, <2>4, <2>5, <2>6, OthersUndisturbed DEF OwnershipOf
<1> QED BY <1>4, <1>5, <1>6 DEF OpenDeviceInterface, Current

\* The heap ends the process: everything it has open is closed.
LEMMA FreeTwiceClient ==
    ASSUME ClientInv, NEW c \in Clients, FreeTwice(c)
    PROVE  ClientInv'
<1>0. TypeOK /\ OwnershipOf(c) /\ Searched(c) /\ Reasoned(c)
  BY DEF ClientInv
<1>1. /\ pc[c] = "searching" /\ pc'[c] = "unallocated" /\ result'[c] = "none"
      /\ \A f \in Files : holder'[f] = IF holder[f] = c THEN "nobody" ELSE holder[f]
      /\ UNCHANGED <<target, index, file, hControl, hMessage, excuse>>
  BY <1>0 DEF FreeTwice, TypeOK
<1>2. OnlyFor(c) /\ TypeOK'
  BY <1>0 DEF FreeTwice, OnlyFor, TypeOK
<1>3. ~OwnsControl(c)' /\ ~OwnsMessage(c)'
  BY <1>1 DEF OwnsControl, OwnsMessage, Looking
<1>4. OwnershipOf(c)'
  BY <1>0, <1>1, <1>3, InterfaceFacts DEF OwnershipOf, FileOpen, HandlesOpen, NothingElseOpen,
     ResultFits
<1>5. Searched(c)' /\ Reasoned(c)'
  BY <1>1 DEF Searched, Looking, Reasoned
<1> QED BY <1>2, <1>4, <1>5, OthersUndisturbed

\* The wanted collection is kept.
LEMMA KeepClient ==
    ASSUME ClientInv, NEW c \in Clients, pc[c] = "checking", UsageOf[file[c]] = target[c],
           SearchSucceeds(c), UNCHANGED <<result, holder, excuse>>
    PROVE  ClientInv'
<1>0. TypeOK /\ OwnershipOf(c) /\ Searched(c) /\ Reasoned(c)
  BY DEF ClientInv
<1>1. Opened(c, file[c], target[c]) /\ result[c] = "none"
      /\ (OwnsControl(c) => file[c] # hControl[c])
  BY <1>0 DEF OwnershipOf, FileOpen, Opened, ResultFits, TypeOK
<1>2. OnlyFor(c) /\ file'[c] = "INVALID" /\ result'[c] = "none"
  BY <1>0, <1>1 DEF SearchSucceeds, OnlyFor, TypeOK
<1>3. CASE target[c] = "control"
  <2>1. /\ hControl' = [hControl EXCEPT ![c] = file[c]]
        /\ target' = [target EXCEPT ![c] = "message"]
        /\ index' = [index EXCEPT ![c] = 1]
        /\ pc' = [pc EXCEPT ![c] = "searching"]
        /\ file' = [file EXCEPT ![c] = "INVALID"]
        /\ UNCHANGED hMessage
    BY <1>3 DEF SearchSucceeds
  <2>2. TypeOK'
    <3>1. 1 \in 1..(Len(Interfaces) + 1) /\ "message" \in Usages
      BY InterfaceFacts DEF Usages
    <3> QED BY <1>0, <1>1, <2>1, <3>1 DEF TypeOK, Opened
  <2>3. /\ pc'[c] = "searching" /\ target'[c] = "message" /\ hControl'[c] = file[c]
        /\ index'[c] = 1
    BY <1>0, <2>1 DEF TypeOK
  <2>4. OwnsControl(c)' /\ ~OwnsMessage(c)' /\ ~OwnsControl(c) /\ ~OwnsMessage(c)
    BY <1>1, <1>2, <1>3, <2>3 DEF OwnsControl, OwnsMessage, Looking
  <2>5. OwnershipOf(c)'
    BY <1>0, <1>1, <1>2, <1>3, <2>3, <2>4 DEF OwnershipOf, FileOpen, HandlesOpen, Opened,
       NothingElseOpen, ResultFits
  <2>6. Searched(c)' /\ Reasoned(c)'
    BY <1>2, <2>3 DEF Searched, Reasoned
  <2> QED BY <1>2, <2>2, <2>5, <2>6, OthersUndisturbed
<1>4. CASE target[c] = "message"
  <2>1. /\ hMessage' = [hMessage EXCEPT ![c] = file[c]]
        /\ pc' = [pc EXCEPT ![c] = "buffers"]
        /\ file' = [file EXCEPT ![c] = "INVALID"]
        /\ UNCHANGED <<hControl, target, index>>
    BY <1>4 DEF SearchSucceeds
  <2>2. TypeOK'
    BY <1>0, <1>1, <2>1 DEF TypeOK, Opened
  <2>3. pc'[c] = "buffers" /\ hMessage'[c] = file[c]
    BY <1>0, <2>1 DEF TypeOK
  <2>4. OwnsControl(c)' /\ OwnsMessage(c)' /\ OwnsControl(c) /\ ~OwnsMessage(c)
    BY <1>1, <1>2, <1>4, <2>3 DEF OwnsControl, OwnsMessage, Looking
  <2>5. OwnershipOf(c)'
    BY <1>0, <1>1, <1>2, <1>4, <2>1, <2>3, <2>4 DEF OwnershipOf, FileOpen, HandlesOpen, Opened,
       NothingElseOpen, ResultFits
  <2>6. Searched(c)' /\ Reasoned(c)'
    BY <1>2, <2>3 DEF Searched, Looking, Reasoned
  <2> QED BY <1>2, <2>2, <2>5, <2>6, OthersUndisturbed
<1> QED BY <1>0, <1>3, <1>4 DEF TypeOK, Usages

\* Anything else is closed again.
LEMMA CheckClient ==
    ASSUME ClientInv, NEW c \in Clients, CheckIfOurDevice(c)
    PROVE  ClientInv'
<1>0. TypeOK /\ OwnershipOf(c) /\ Searched(c) /\ Reasoned(c)
  BY DEF ClientInv
<1>1. CASE UsageOf[file[c]] = target[c] /\ SearchSucceeds(c) /\ UNCHANGED <<holder, excuse>>
  BY <1>1, KeepClient DEF CheckIfOurDevice
<1>2. ASSUME NEW failed \in BOOLEAN,
             /\ failed \/ UsageOf[file[c]] # target[c]
             /\ holder' = [holder EXCEPT ![file[c]] = "nobody"]
             /\ file' = [file EXCEPT ![c] = "INVALID"]
             /\ index' = [index EXCEPT ![c] = @ + 1]
             /\ pc' = [pc EXCEPT ![c] = "searching"]
             /\ excuse' = IF failed THEN [excuse EXCEPT ![c] = @ \cup {"failed"}] ELSE excuse
             /\ UNCHANGED <<target, hControl, hMessage>>
      PROVE  ClientInv'
  <2>1. /\ pc[c] = "checking" /\ UNCHANGED result
        /\ index[c] \in 1..Len(Interfaces) /\ file[c] = Interfaces[index[c]]
        /\ file[c] \in Files /\ holder[file[c]] = c
        /\ OwnsControl(c) => file[c] # hControl[c]
        /\ result[c] = "none"
    <3>1. /\ pc[c] = "checking" /\ UNCHANGED result
          /\ index[c] <= Len(Interfaces) /\ file[c] = Interfaces[index[c]]
          /\ file[c] \in Files /\ holder[file[c]] = c
          /\ OwnsControl(c) => file[c] # hControl[c]
      BY <1>0 DEF CheckIfOurDevice, OwnershipOf, FileOpen
    <3>2. index[c] \in 1..Len(Interfaces)
      BY <1>0, <3>1, IndexFacts
    <3>3. result[c] = "none"
      BY <1>0, <3>1 DEF OwnershipOf, ResultFits, TypeOK
    <3> QED BY <3>1, <3>2, <3>3
  <2>2. /\ OnlyFor(c)
        /\ pc'[c] = "searching" /\ file'[c] = "INVALID" /\ index'[c] = index[c] + 1
        /\ \A g \in Files : holder'[g] = IF g = file[c] THEN "nobody" ELSE holder[g]
    BY <1>0, <1>2, <2>1 DEF OnlyFor, TypeOK
  <2>3. TypeOK'
    <3>1. index[c] + 1 \in 1..(Len(Interfaces) + 1)
      BY <2>1, InterfaceFacts
    <3> QED BY <1>0, <1>2, <2>1, <3>1 DEF TypeOK
  <2>4. (OwnsControl(c)' <=> OwnsControl(c)) /\ ~OwnsMessage(c)' /\ ~OwnsMessage(c)
    BY <1>2, <2>1, <2>2 DEF OwnsControl, OwnsMessage, Looking
  <2>5. OwnershipOf(c)'
    BY <1>0, <1>2, <2>1, <2>2, <2>4, InterfaceFacts DEF OwnershipOf, FileOpen, HandlesOpen,
       Opened, NothingElseOpen, ResultFits
  <2>6. Searched(c)'
    <3> SUFFICES ASSUME excuse'[c] = {}, NEW i \in 1..Len(Interfaces), i < index'[c]
                 PROVE  UsageOf[Interfaces[i]] # target[c]
      BY <1>2 DEF Searched
    <3>1. ~failed /\ excuse[c] = {}
      BY <1>0, <1>2 DEF TypeOK
    <3>2. i < index[c] \/ i = index[c]
      BY <2>1, <2>2, InterfaceFacts
    <3> QED BY <1>0, <1>2, <2>1, <3>1, <3>2 DEF Searched, Looking
  <2>7. Reasoned(c)'
    BY <2>1 DEF Reasoned
  <2> QED BY <2>2, <2>3, <2>5, <2>6, <2>7, OthersUndisturbed
<1> QED BY <1>1, <1>2 DEF CheckIfOurDevice

\* A search that has come to its end has met every interface there is.
LEMMA FailsClient ==
    ASSUME ClientInv, NEW c \in Clients, SearchFails(c)
    PROVE  ClientInv'
<1>0. TypeOK /\ OwnershipOf(c) /\ Searched(c) /\ Reasoned(c)
  BY DEF ClientInv
<1>1. /\ pc[c] = "searching" /\ result'[c] = "FALSE"
      /\ UNCHANGED <<target, index, file, holder>>
      /\ OnlyFor(c)
  BY <1>0, ZenonT(60) DEF SearchFails, OnlyFor, TypeOK
<1>2. TypeOK'
  <2>1. excuse' \in [Clients -> SUBSET {"busy", "failed"}]
    BY <1>0, ExcuseFacts DEF SearchFails, TypeOK
  <2>2. hControl' \in [Clients -> Files \cup NoHandle] /\ hMessage' \in [Clients -> Files \cup NoHandle]
    BY <1>0 DEF SearchFails, TypeOK, NoHandle
  <2> QED BY <1>0, <2>1, <2>2 DEF SearchFails, TypeOK
<1>3. Reasoned(c)'
  <2>1. CASE index[c] > Len(Interfaces) /\ UNCHANGED excuse
    <3> SUFFICES ASSUME excuse[c] = {} PROVE ~Present(target[c])
      BY <1>0, <2>1 DEF Reasoned, Present, TypeOK, Usages
    <3>1. \A i \in 1..Len(Interfaces) : i < index[c]
      BY <1>0, <2>1, IndexFacts
    <3>2. \A i \in 1..Len(Interfaces) : UsageOf[Interfaces[i]] # target[c]
      BY <1>0, <1>1, <3>1 DEF Searched, Looking
    <3> QED BY <3>2, InterfaceFacts DEF Present
  <2>2. CASE excuse' = [excuse EXCEPT ![c] = @ \cup {"failed"}]
    BY <1>0, <2>2 DEF Reasoned, TypeOK
  <2> QED BY <2>1, <2>2 DEF SearchFails
<1>4. CASE target[c] = "control"
  <2>1. pc'[c] = "ready"
    BY <1>0, <1>4 DEF SearchFails, TypeOK
  <2>2. ~OwnsControl(c) /\ ~OwnsMessage(c) /\ ~OwnsControl(c)' /\ ~OwnsMessage(c)'
    BY <1>1, <1>4, <2>1 DEF OwnsControl, OwnsMessage, Looking
  <2>3. OwnershipOf(c)' /\ Searched(c)'
    BY <1>0, <1>1, <2>1, <2>2 DEF OwnershipOf, FileOpen, HandlesOpen, NothingElseOpen, ResultFits,
       Searched, Looking
  <2> QED BY <1>1, <1>2, <1>3, <2>3, OthersUndisturbed
<1>5. CASE target[c] = "message"
  <2>1. pc'[c] = "closing" /\ hMessage'[c] = "INVALID" /\ hControl'[c] = hControl[c]
    BY <1>0, <1>5 DEF SearchFails, TypeOK
  <2>2. OwnsControl(c) /\ ~OwnsMessage(c) /\ OwnsControl(c)' /\ ~OwnsMessage(c)'
    BY <1>1, <1>5, <2>1 DEF OwnsControl, OwnsMessage, Looking
  <2>3. OwnershipOf(c)' /\ Searched(c)'
    BY <1>0, <1>1, <2>1, <2>2 DEF OwnershipOf, FileOpen, HandlesOpen, Opened, NothingElseOpen,
       ResultFits, Searched, Looking
  <2> QED BY <1>1, <1>2, <1>3, <2>3, OthersUndisturbed
<1> QED BY <1>0, <1>4, <1>5 DEF TypeOK, Usages

LEMMA BuffersClient ==
    ASSUME ClientInv, NEW c \in Clients, SetNumInputBuffers(c)
    PROVE  ClientInv'
<1>0. TypeOK /\ OwnershipOf(c) /\ Searched(c) /\ Reasoned(c)
  BY DEF ClientInv
<1>1. /\ pc[c] = "buffers" /\ UNCHANGED <<target, index, file, hControl, hMessage, holder>>
      /\ OnlyFor(c) /\ TypeOK'
      /\ \/ pc'[c] = "ready" /\ result'[c] = "TRUE"
         \/ pc'[c] = "closing" /\ result'[c] = "FALSE" /\ excuse'[c] # {}
  <2>1. CASE /\ pc' = [pc EXCEPT ![c] = "ready"]
             /\ result' = [result EXCEPT ![c] = "TRUE"]
             /\ UNCHANGED excuse
    BY <1>0, <2>1 DEF SetNumInputBuffers, OnlyFor, TypeOK
  <2>2. CASE /\ pc' = [pc EXCEPT ![c] = "closing"]
             /\ result' = [result EXCEPT ![c] = "FALSE"]
             /\ excuse' = [excuse EXCEPT ![c] = @ \cup {"failed"}]
    BY <1>0, <2>2, ExcuseFacts DEF SetNumInputBuffers, OnlyFor, TypeOK
  <2> QED BY <2>1, <2>2 DEF SetNumInputBuffers
<1>2. OwnsControl(c) /\ OwnsMessage(c) /\ hMessage[c] # "INVALID"
  BY <1>0, <1>1, InterfaceFacts DEF OwnsControl, OwnsMessage, OwnershipOf, HandlesOpen, Opened,
     NoHandle
<1>3. OwnsControl(c)' /\ OwnsMessage(c)'
  BY <1>1, <1>2 DEF OwnsControl, OwnsMessage
<1>4. OwnershipOf(c)' /\ Searched(c)' /\ Reasoned(c)'
  BY <1>0, <1>1, <1>2, <1>3 DEF OwnershipOf, FileOpen, HandlesOpen, Opened, NothingElseOpen,
     ResultFits, Searched, Looking, Reasoned
<1> QED BY <1>1, <1>4, OthersUndisturbed

\* Closing the control handle leaves the message handle, a different interface.
LEMMA CloseControlClient ==
    ASSUME ClientInv, NEW c \in Clients, CloseControl(c)
    PROVE  ClientInv'
<1>0. TypeOK /\ OwnershipOf(c) /\ Searched(c) /\ Reasoned(c)
  BY DEF ClientInv
<1>1. /\ pc[c] = "closing" /\ pc'[c] = "closing message"
      /\ UNCHANGED <<target, index, file, hControl, hMessage, result, excuse>>
      /\ \A f \in Files : holder'[f] = IF f = hControl[c] /\ holder[f] = c THEN "nobody"
                                       ELSE holder[f]
  BY <1>0 DEF CloseControl, Closed, TypeOK
<1>2. OnlyFor(c) /\ TypeOK'
  BY <1>0 DEF CloseControl, Closed, OnlyFor, TypeOK
<1>3. OwnsControl(c) /\ ~OwnsControl(c)' /\ (OwnsMessage(c)' <=> OwnsMessage(c))
  BY <1>1 DEF OwnsControl, OwnsMessage, Looking
<1>4. OwnershipOf(c)'
  <2>1. HandlesOpen(c)'
    BY <1>0, <1>1, <1>3 DEF OwnershipOf, HandlesOpen, Opened
  <2>2. NothingElseOpen(c)'
    BY <1>0, <1>1, <1>3, InterfaceFacts DEF OwnershipOf, NothingElseOpen
  <2> QED BY <1>0, <1>1, <2>1, <2>2 DEF OwnershipOf, FileOpen, ResultFits
<1>5. Searched(c)' /\ Reasoned(c)'
  BY <1>0, <1>1 DEF Searched, Looking, Reasoned, Present
<1> QED BY <1>2, <1>4, <1>5, OthersUndisturbed

LEMMA CloseMessageClient ==
    ASSUME ClientInv, NEW c \in Clients, CloseMessage(c)
    PROVE  ClientInv'
<1>0. TypeOK /\ OwnershipOf(c) /\ Searched(c) /\ Reasoned(c)
  BY DEF ClientInv
<1>1. /\ pc[c] = "closing message" /\ pc'[c] = "ready"
      /\ UNCHANGED <<target, index, file, result, excuse>>
      /\ \A f \in Files : holder'[f] = IF f = hMessage[c] /\ holder[f] = c THEN "nobody"
                                       ELSE holder[f]
  BY <1>0 DEF CloseMessage, Closed, TypeOK
<1>2. OnlyFor(c) /\ TypeOK'
  BY <1>0 DEF CloseMessage, Closed, OnlyFor, TypeOK, NoHandle
<1>3. ~OwnsControl(c) /\ ~OwnsControl(c)' /\ ~OwnsMessage(c)'
  BY <1>0, <1>1 DEF OwnsControl, OwnsMessage, Looking, OwnershipOf, ResultFits
<1>4. OwnershipOf(c)'
  <2>1. NothingElseOpen(c)'
    BY <1>0, <1>1, <1>3, InterfaceFacts DEF OwnershipOf, NothingElseOpen
  <2> QED BY <1>0, <1>1, <1>3, <2>1 DEF OwnershipOf, FileOpen, HandlesOpen, ResultFits
<1>5. Searched(c)' /\ Reasoned(c)'
  BY <1>0, <1>1 DEF Searched, Looking, Reasoned, Present
<1> QED BY <1>2, <1>4, <1>5, OthersUndisturbed

LEMMA NextClient == ClientInv /\ [Next]_vars => ClientInv'
<1> SUFFICES ASSUME ClientInv, [Next]_vars PROVE ClientInv'
  OBVIOUS
<1>1. ASSUME NEW c \in Clients, Library(c) PROVE ClientInv'
  BY <1>1, OpenClient, FreeTwiceClient, CheckClient, FailsClient, BuffersClient,
     CloseControlClient, CloseMessageClient DEF Library
<1>2. CASE UNCHANGED vars
  <2>1. TypeOK'
    BY <1>2 DEF vars, ClientInv, TypeOK
  <2>2. ASSUME NEW c \in Clients PROVE (OwnershipOf(c) /\ Searched(c) /\ Reasoned(c))'
    <3>1. OwnershipOf(c) /\ Searched(c) /\ Reasoned(c)
      BY DEF ClientInv
    <3>2. OwnershipOf(c)'
      BY <1>2, <3>1 DEF vars, OwnershipOf, FileOpen, HandlesOpen, Opened, NothingElseOpen,
         ResultFits, OwnsControl, OwnsMessage, Looking
    <3>3. Searched(c)' /\ Reasoned(c)'
      BY <1>2, <3>1 DEF vars, Searched, Looking, Reasoned, Present
    <3> QED BY <3>2, <3>3
  <2> QED BY <2>1, <2>2 DEF ClientInv
<1> QED BY <1>1, <1>2, CallerClient DEF Next

LEMMA ClientAlways == Spec => []ClientInv
BY InitClient, NextClient, PTL DEF Spec

-----------------------------------------------------------------------------
(* Every variable of the library keeps its type; in particular a search    *)
(* never goes beyond the end of the interface list.                        *)
THEOREM TypeCorrect == Spec => []TypeOK
<1>1. ClientInv => TypeOK
  BY DEF ClientInv
<1> QED BY <1>1, ClientAlways, PTL

(* No handle leaks from vmulti_connect and its searches, on success or on  *)
(* any failure, and vmulti_disconnect closes only what is its own.         *)
THEOREM HandlesAccountedAlways == Spec => []HandlesAccounted
<1>1. ClientInv => HandlesAccounted
  <2> SUFFICES ASSUME ClientInv PROVE HandlesAccounted
    OBVIOUS
  <2>1. ASSUME NEW c \in Clients, NEW f \in Files, holder[f] = c
        PROVE  /\ pc[c] # "unallocated"
               /\ f \in {file[c], hControl[c], hMessage[c]}
               /\ pc[c] = "ready" => result[c] = "TRUE"
    <3>1. NothingElseOpen(c) /\ ResultFits(c)
      BY DEF ClientInv, OwnershipOf
    <3> QED BY <2>1, <3>1 DEF NothingElseOpen, ResultFits, OwnsControl, OwnsMessage, Looking
  <2>2. ASSUME NEW c \in Clients, pc[c] = "closing", NEW h \in {hControl[c], hMessage[c]}
        PROVE  h = "INVALID" \/ (h \in Files /\ holder[h] = c)
    <3>1. HandlesOpen(c)
      BY DEF ClientInv, OwnershipOf
    <3> QED BY <2>2, <3>1 DEF HandlesOpen, Opened, OwnsControl, OwnsMessage
  <2> QED BY <2>1, <2>2 DEF HandlesAccounted
<1> QED BY <1>1, ClientAlways, PTL

(* When vmulti_connect has returned TRUE the client has both collections,  *)
(* each behind its own handle and with nobody else.                        *)
THEOREM ConnectedHoldsAlways == Spec => []ConnectedHolds
<1>1. ClientInv => ConnectedHolds
  BY DEF ClientInv, OwnershipOf, ResultFits, HandlesOpen, Opened, OwnsControl, OwnsMessage,
     ConnectedHolds
<1> QED BY <1>1, ClientAlways, PTL

(* vmulti_connect returns FALSE only if a collection is missing, was open  *)
(* elsewhere when the search passed it, or a system call failed.           *)
THEOREM FailsOnlyWithReasonAlways == Spec => []FailsOnlyWithReason
<1>1. ClientInv => FailsOnlyWithReason
  BY DEF ClientInv, Reasoned, FailsOnlyWithReason
<1> QED BY <1>1, ClientAlways, PTL
=============================================================================
