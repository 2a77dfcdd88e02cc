--------------------------- MODULE PnpStackProofs ---------------------------
(* Proofs about PnpStack, for any number of devices of either kind.        *)
EXTENDS PnpStack, TLAPS

-----------------------------------------------------------------------------
(* Device objects.                                                         *)

LEMMA ObjectFacts ==
    /\ \A p, q : Pdo(p) # Fdo(q) /\ Pdo(p) # Filter(q) /\ Fdo(p) # Filter(q)
    /\ \A p : Pdo(p)[1] = p /\ Fdo(p)[1] = p /\ Filter(p)[1] = p
    /\ \A p \in Pdos : Pdo(p) \in Objects /\ Fdo(p) \in Objects
    /\ \A p \in HidPdos : Filter(p) \in Objects
    /\ \A d \in Objects :
          d # None /\ d[1] \in Pdos
          /\ (d = Pdo(d[1]) \/ d = Fdo(d[1]) \/ (d[1] \in HidPdos /\ d = Filter(d[1])))
    /\ WdmPdos \subseteq Pdos /\ HidPdos \subseteq Pdos /\ WdmPdos \cap HidPdos = {}
    /\ \A p \in Pdos : p \in WdmPdos \/ p \in HidPdos
    /\ None \notin Objects /\ None \notin Irps
BY PnpStackAssumption DEF Pdo, Fdo, Filter, Objects, Pdos

-----------------------------------------------------------------------------
(* Sequences of device objects: an IRP's stack locations and its calls.    *)

Has(s, d) == \E i \in 1..Len(s) : s[i] = d

LEMMA AppendFacts ==
    ASSUME NEW s \in Seq(Objects), NEW d \in Objects
    PROVE  /\ Append(s, d) \in Seq(Objects) /\ Len(Append(s, d)) = Len(s) + 1
           /\ Last(Append(s, d)) = d /\ Append(s, d) # <<>>
           /\ Has(Append(s, d), d) /\ (\A e : Has(s, e) => Has(Append(s, d), e))
           /\ \A e : Has(Append(s, d), e) => e = d \/ Has(s, e)
<1>1. /\ Append(s, d) \in Seq(Objects) /\ Len(Append(s, d)) = Len(s) + 1
      /\ Len(s) \in Nat /\ Append(s, d)[Len(s) + 1] = d
      /\ \A i \in 1..Len(s) : Append(s, d)[i] = s[i]
  OBVIOUS
<1>2. Append(s, d) # <<>>
  BY <1>1
<1> QED BY <1>1, <1>2 DEF Last, Has

LEMMA ReplaceFacts ==
    ASSUME NEW s \in Seq(Objects), s # <<>>, NEW d \in Objects
    PROVE  LET t == ReplaceAt(s, Len(s), d) IN
           /\ t \in Seq(Objects) /\ Len(t) = Len(s) /\ Last(t) = d
           /\ \A e : Has(t, e) => e = d \/ Has(s, e)
<1> DEFINE n == Len(s)
           t == ReplaceAt(s, n, d)
<1>1. n \in Nat /\ n > 0 /\ n \in 1..n /\ s \in [1..n -> Objects]
  OBVIOUS
<1>2. /\ t \in [1..n -> Objects] /\ t[n] = d
      /\ \A i \in 1..n : i # n => t[i] = s[i]
  <2> HIDE DEF n
  <2> QED BY <1>1 DEF ReplaceAt
<1>3. t \in Seq(Objects) /\ Len(t) = n
  <2> HIDE DEF n, t
  <2> QED BY <1>1, <1>2, SMTT(20)
<1> HIDE DEF t
<1>4. Last(t) = d /\ \A e : Has(t, e) => e = d \/ Has(s, e)
  BY <1>1, <1>2, <1>3 DEF Last, Has
<1> QED BY <1>3, <1>4 DEF t

LEMMA FrontFacts ==
    ASSUME NEW s \in Seq(Objects), s # <<>>
    PROVE  /\ Front(s) \in Seq(Objects) /\ Last(s) \in Objects /\ Has(s, Last(s))
           /\ \A e : Has(Front(s), e) => Has(s, e)
           /\ \A e : Has(s, e) => e = Last(s) \/ Has(Front(s), e)
<1>1. Len(s) \in Nat /\ Len(s) > 0 /\ \A i \in 1..Len(s) : s[i] \in Objects
  OBVIOUS
<1>2. /\ Front(s) \in Seq(Objects) /\ Len(Front(s)) = Len(s) - 1
      /\ \A i \in 1..(Len(s) - 1) : Front(s)[i] = s[i]
  <2> DEFINE n == Len(s)
  <2> HIDE DEF n
  <2>1. n - 1 \in Nat /\ n - 1 <= n
    BY <1>1 DEF n
  <2> QED BY <1>1, <2>1, SMTT(30) DEF Front, n
<1>3. Last(s) \in Objects /\ Has(s, Last(s))
  BY <1>1 DEF Last, Has
<1>4. \A e : Has(Front(s), e) => Has(s, e)
  BY <1>1, <1>2 DEF Has
<1>5. \A e : Has(s, e) => e = Last(s) \/ Has(Front(s), e)
  BY <1>1, <1>2 DEF Has, Last
<1> QED BY <1>2, <1>3, <1>4, <1>5

LEMMA EmptyFacts == <<>> \in Seq(Objects) /\ \A e : ~Has(<<>>, e)
BY DEF Has

LEMMA SingleFacts ==
    ASSUME NEW d \in Objects
    PROVE  /\ <<d>> \in Seq(Objects) /\ Len(<<d>>) = 1 /\ Last(<<d>>) = d
           /\ \A e : Has(<<d>>, e) => e = d
BY DEF Has, Last

-----------------------------------------------------------------------------
(* The inductive invariant.  The stacks: what is attached to what, and     *)
(* that only a removal on its way back finds a stack without its middle.   *)
Removing(p) ==
    irp # None /\ irp.pdo = p /\ irp.kind = "REMOVE_DEVICE" /\ irp.completions = 1

WdmStack(p) ==
    /\ next[Pdo(p)] = None
    /\ next[Fdo(p)] \in {None, Pdo(p)}
    /\ Fdo(p) \notin devices => next[Fdo(p)] = None
    /\ Fdo(p) \in devices <=> name = Fdo(p)
HidStack(p) ==
    /\ next[Pdo(p)] = None
    /\ next[Filter(p)] = IF Filter(p) \in devices THEN Pdo(p) ELSE None
    /\ next[Fdo(p)] = IF Fdo(p) \in devices THEN Filter(p) ELSE None
    /\ Fdo(p) \in devices => added[p] = "added"
    /\ Fdo(p) \in devices => Filter(p) \in devices \/ Removing(p)
Stacks == (\A p \in WdmPdos : WdmStack(p)) /\ (\A p \in HidPdos : HidStack(p))

\* The IRP: it stays in one stack, and a removal leaves no attached device without having
\* called its driver, which is still to return.
Called(d) == next[d] # None => Has(irp.calls, d)
CalledAll(p) == Called(Fdo(p)) /\ (p \in HidPdos => Called(Filter(p)))
Way ==
    LET p == irp.pdo
        d == Last(irp.path) IN
    /\ irp.path # <<>>
    /\ \A e \in Objects : Has(irp.path, e) => e[1] = p
    /\ \A e \in Objects : Has(irp.calls, e) => e \in {Fdo(p), Filter(p)}
    /\ irp.calls # <<>> => irp.kind = "REMOVE_DEVICE"
    /\ d \in {Pdo(p), Fdo(p), Filter(p)} /\ (d = Filter(p) => p \in HidPdos)
Flight ==
    LET p == irp.pdo
        d == Last(irp.path) IN
    /\ irp.completions = 0 /\ d = Fdo(p) => next[d] # None /\ Len(irp.path) = 1
    /\ irp.completions = 0 /\ d = Filter(p) => next[d] # None /\ Len(irp.path) <= 2
    /\ irp.kind = "REMOVE_DEVICE" =>
         /\ irp.completions = 1 \/ d = Pdo(p) => CalledAll(p)
         /\ d = Filter(p) => Called(Fdo(p))

StackInv == TypeOK /\ Stacks /\ (irp # None => Way /\ Flight)

-----------------------------------------------------------------------------
LEMMA InitStack == Init => StackInv
<1> SUFFICES ASSUME Init PROVE StackInv
  OBVIOUS
<1>1. devices \subseteq Objects /\ \A p : Fdo(p) \notin devices /\ Filter(p) \notin devices
  BY ObjectFacts, ZenonT(60) DEF Init
<1>2. TypeOK
  BY <1>1 DEF Init, TypeOK
<1>3. (\A p \in WdmPdos : WdmStack(p)) /\ (\A p \in HidPdos : HidStack(p))
  BY <1>1, ObjectFacts DEF Init, WdmStack, HidStack
<1> QED BY <1>2, <1>3 DEF Init, StackInv, Stacks

\* The device an IRP is sent to.
LEMMA TopFacts ==
    ASSUME StackInv, irp = None, NEW p \in Pdos, Pdo(p) \in devices
    PROVE  /\ p \in WdmPdos =>
                Top(p) = IF next[Fdo(p)] # None THEN Fdo(p) ELSE Pdo(p)
           /\ p \in HidPdos =>
                Top(p) = IF Fdo(p) \in devices THEN Fdo(p)
                         ELSE IF Filter(p) \in devices THEN Filter(p) ELSE Pdo(p)
<1> DEFINE OnTop(d) == d \in Attached(p) /\ \A e \in Attached(p) : next[e] # d
<1>1. ASSUME NEW x, \A d : OnTop(d) <=> d = x PROVE Top(p) = x
  BY <1>1 DEF Top
<1>2. devices \subseteq Objects
  BY DEF StackInv, TypeOK
<1>3. CASE p \in WdmPdos
  <2>1. WdmStack(p) /\ p \notin HidPdos
    BY <1>3, ObjectFacts DEF StackInv, Stacks
  <2>2. CASE next[Fdo(p)] # None
    <3>1. Attached(p) = {Pdo(p), Fdo(p)}
      BY <1>2, <2>1, <2>2, ObjectFacts DEF Attached, WdmStack
    <3>2. \A d : OnTop(d) <=> d = Fdo(p)
      BY <2>1, <2>2, <3>1, ObjectFacts DEF WdmStack
    <3> QED BY <1>1, <2>1, <2>2, <3>2
  <2>3. CASE next[Fdo(p)] = None
    <3>1. Attached(p) = {Pdo(p)}
      BY <1>2, <2>1, <2>3, ObjectFacts DEF Attached, WdmStack
    <3>2. \A d : OnTop(d) <=> d = Pdo(p)
      BY <2>1, <3>1, ObjectFacts DEF WdmStack
    <3> QED BY <1>1, <2>1, <2>3, <3>2
  <2> QED BY <2>2, <2>3
<1>4. CASE p \in HidPdos
  <2>1. HidStack(p) /\ p \notin WdmPdos
    BY <1>4, ObjectFacts DEF StackInv, Stacks
  <2>2. CASE Fdo(p) \in devices
    <3>1. Attached(p) = {Pdo(p), Filter(p), Fdo(p)}
      BY <1>2, <1>4, <2>1, <2>2, ObjectFacts DEF Attached, HidStack, Removing
    <3>2. \A d : OnTop(d) <=> d = Fdo(p)
      BY <2>1, <2>2, <3>1, ObjectFacts DEF HidStack, Removing
    <3> QED BY <1>1, <2>1, <2>2, <3>2
  <2>3. CASE Fdo(p) \notin devices /\ Filter(p) \in devices
    <3>1. Attached(p) = {Pdo(p), Filter(p)}
      BY <1>2, <1>4, <2>1, <2>3, ObjectFacts DEF Attached, HidStack
    <3>2. \A d : OnTop(d) <=> d = Filter(p)
      BY <2>1, <2>3, <3>1, ObjectFacts DEF HidStack
    <3> QED BY <1>1, <2>1, <2>3, <3>2
  <2>4. CASE Fdo(p) \notin devices /\ Filter(p) \notin devices
    <3>1. Attached(p) = {Pdo(p)}
      BY <1>2, <1>4, <2>1, <2>4, ObjectFacts DEF Attached, HidStack
    <3>2. \A d : OnTop(d) <=> d = Pdo(p)
      BY <2>1, <2>4, <3>1, ObjectFacts DEF HidStack
    <3> QED BY <1>1, <2>1, <2>4, <3>2
  <2> QED BY <2>2, <2>3, <2>4
<1> QED BY <1>3, <1>4, ObjectFacts

-----------------------------------------------------------------------------
(* Steps of the PnP manager while no IRP is on its way.                    *)

LEMMA HelloWDMAddStep ==
    ASSUME StackInv, NEW p \in WdmPdos, HelloWDMAddDevice(p)
    PROVE  StackInv'
<1>1. /\ TypeOK /\ irp = None /\ irp' = None /\ Pdo(p) \in devices /\ added[p] = "no"
      /\ p \in Pdos /\ powerBusy' = powerBusy
  BY ObjectFacts DEF StackInv, HelloWDMAddDevice, CanAdd
<1>2. CASE /\ added' = [added EXCEPT ![p] = "failed"]
           /\ UNCHANGED <<devices, next, name, initializing>>
  <2>1. TypeOK'
    BY <1>1, <1>2 DEF TypeOK
  <2>2. Stacks'
    BY <1>1, <1>2, ObjectFacts DEF StackInv, Stacks, WdmStack, HidStack, Removing, TypeOK
  <2> QED BY <1>1, <2>1, <2>2 DEF StackInv
<1>3. ASSUME name = None, NEW below \in {Top(p), None},
             devices' = devices \cup {Fdo(p)}, next' = [next EXCEPT ![Fdo(p)] = below],
             name' = Fdo(p), initializing' = initializing \cup {Fdo(p)},
             added' = [added EXCEPT ![p] = "failed"]
      PROVE  StackInv'
  <2>1. WdmStack(p) /\ Fdo(p) \notin devices /\ next[Fdo(p)] = None
    BY <1>3, ObjectFacts, <1>1 DEF StackInv, Stacks, WdmStack
  <2>2. below \in {Pdo(p), None}
    BY <1>1, <1>3, <2>1, TopFacts
  <2>3. TypeOK'
    BY <1>1, <1>3, <2>2, ObjectFacts DEF TypeOK
  <2>4. \A d \in Objects : next'[d] = IF d = Fdo(p) THEN below ELSE next[d]
    BY <1>1, <1>3 DEF TypeOK
  <2>5. \A q \in WdmPdos : WdmStack(q)'
    BY <1>1, <1>3, <2>1, <2>2, <2>4, ObjectFacts DEF StackInv, Stacks, WdmStack
  <2>6. \A q \in HidPdos : HidStack(q)'
    <3> TAKE q \in HidPdos
    <3>1. HidStack(q) /\ q # p /\ added'[q] = added[q]
      BY <1>1, <1>3, ObjectFacts DEF StackInv, Stacks, TypeOK
    <3>2. \A d \in {Pdo(q), Fdo(q), Filter(q)} :
             next'[d] = next[d] /\ (d \in devices' <=> d \in devices)
      BY <1>3, <2>4, <3>1, ObjectFacts
    <3> QED BY <1>1, <3>1, <3>2 DEF HidStack, Removing
  <2> QED BY <1>1, <2>3, <2>5, <2>6 DEF StackInv, Stacks
<1>4. \/ /\ added' = [added EXCEPT ![p] = "failed"]
         /\ UNCHANGED <<devices, next, name, initializing>>
      \/ /\ name = None
         /\ \E below \in {Top(p), None} :
              /\ devices' = devices \cup {Fdo(p)}
              /\ next' = [next EXCEPT ![Fdo(p)] = below]
              /\ name' = Fdo(p)
              /\ initializing' = initializing \cup {Fdo(p)}
              /\ added' = [added EXCEPT ![p] = "failed"]
  BY ObjectFacts, <1>1 DEF HelloWDMAddDevice
<1> QED BY <1>2, <1>3, <1>4

\* What happens to one HID stack leaves all other stacks as they were.
LEMMA OtherStacks ==
    ASSUME StackInv, NEW p \in HidPdos, irp = None, irp' = None,
           HidStack(p)', name' = name,
           \A d \in Objects : d[1] # p =>
              next'[d] = next[d] /\ (d \in devices' <=> d \in devices),
           \A q \in Pdos \ {p} : added'[q] = added[q]
    PROVE  Stacks'
<1>1. \A q \in WdmPdos : WdmStack(q)'
  BY ObjectFacts DEF StackInv, Stacks, WdmStack
<1>2. ASSUME NEW q \in HidPdos, q # p PROVE HidStack(q)'
  BY <1>2, ObjectFacts DEF StackInv, Stacks, HidStack, Removing
<1> QED BY <1>1, <1>2 DEF Stacks

LEMMA VMultiAddStep ==
    ASSUME StackInv, NEW p \in HidPdos, VMultiEvtDeviceAdd(p)
    PROVE  StackInv'
<1>1. /\ TypeOK /\ irp = None /\ irp' = None /\ Pdo(p) \in devices /\ added[p] = "no"
      /\ p \in Pdos /\ powerBusy' = powerBusy /\ name' = name /\ HidStack(p)
      /\ Filter(p) \notin devices /\ initializing' = initializing
  BY ObjectFacts DEF StackInv, Stacks, VMultiEvtDeviceAdd, CanAdd
<1>2. CASE added' = [added EXCEPT ![p] = "failed"] /\ UNCHANGED <<devices, next>>
  <2>1. TypeOK'
    BY <1>1, <1>2 DEF TypeOK
  <2>2. HidStack(p)' /\ \A q \in Pdos \ {p} : added'[q] = added[q]
    BY <1>1, <1>2 DEF HidStack, Removing, TypeOK
  <2>3. Stacks'
    BY <1>1, <1>2, <2>2, OtherStacks
  <2> QED BY <1>1, <2>1, <2>3 DEF StackInv
<1>3. CASE /\ devices' = devices \cup {Filter(p)}
           /\ next' = [next EXCEPT ![Filter(p)] = Top(p)] /\ added' = added
  <2>1. Fdo(p) \notin devices /\ Top(p) = Pdo(p)
    BY <1>1, TopFacts DEF HidStack, Removing
  <2>2. TypeOK'
    BY <1>1, <1>3, <2>1, ObjectFacts DEF TypeOK
  <2>3. \A d \in Objects : next'[d] = IF d = Filter(p) THEN Pdo(p) ELSE next[d]
    BY <1>1, <1>3, <2>1 DEF TypeOK
  <2>4. HidStack(p)'
    BY <1>1, <1>3, <2>1, <2>3, ObjectFacts DEF HidStack
  <2>5. Stacks'
    BY <1>1, <1>3, <2>3, <2>4, ObjectFacts, OtherStacks
  <2> QED BY <1>1, <2>2, <2>5 DEF StackInv
<1> QED BY <1>2, <1>3 DEF VMultiEvtDeviceAdd

LEMMA HidKmdfAddStep ==
    ASSUME StackInv, NEW p \in HidPdos, HidKmdfAddDevice(p)
    PROVE  StackInv'
<1>1. /\ TypeOK /\ irp = None /\ irp' = None /\ Pdo(p) \in devices /\ added[p] = "no"
      /\ p \in Pdos /\ powerBusy' = powerBusy /\ name' = name /\ HidStack(p)
      /\ Filter(p) \in devices
  BY ObjectFacts DEF StackInv, Stacks, HidKmdfAddDevice, CanAdd
<1>2. CASE added' = [added EXCEPT ![p] = "failed"] /\ UNCHANGED <<devices, next, initializing>>
  <2>1. TypeOK'
    BY <1>1, <1>2 DEF TypeOK
  <2>2. HidStack(p)' /\ \A q \in Pdos \ {p} : added'[q] = added[q]
    BY <1>1, <1>2 DEF HidStack, TypeOK
  <2>3. Stacks'
    BY <1>1, <1>2, <2>2, OtherStacks
  <2> QED BY <1>1, <2>1, <2>3 DEF StackInv
<1>3. CASE /\ devices' = devices \cup {Fdo(p)}
           /\ next' = [next EXCEPT ![Fdo(p)] = Top(p)]
           /\ initializing' = initializing \ {Fdo(p)}
           /\ added' = [added EXCEPT ![p] = "added"]
  <2>1. Fdo(p) \notin devices /\ Top(p) = Filter(p)
    BY <1>1, TopFacts, ObjectFacts DEF HidStack
  <2>2. TypeOK'
    BY <1>1, <1>3, <2>1, ObjectFacts DEF TypeOK
  <2>3. \A d \in Objects : next'[d] = IF d = Fdo(p) THEN Filter(p) ELSE next[d]
    BY <1>1, <1>3, <2>1 DEF TypeOK
  <2>4. added'[p] = "added" /\ \A q \in Pdos \ {p} : added'[q] = added[q]
    BY <1>1, <1>3 DEF TypeOK
  <2>5. HidStack(p)'
    BY <1>1, <1>3, <2>1, <2>3, <2>4, ObjectFacts DEF HidStack
  <2>6. Stacks'
    BY <1>1, <1>3, <2>3, <2>4, <2>5, ObjectFacts, OtherStacks
  <2> QED BY <1>1, <2>2, <2>6 DEF StackInv
<1> QED BY <1>2, <1>3 DEF HidKmdfAddDevice

LEMMA EnumerateStep ==
    ASSUME StackInv, NEW p \in Pdos, Enumerate(p)
    PROVE  StackInv'
<1>1. TypeOK'
  BY ObjectFacts DEF StackInv, Enumerate, TypeOK
<1>2. Stacks'
  BY ObjectFacts DEF StackInv, Enumerate, Stacks, WdmStack, HidStack, Removing
<1> QED BY <1>1, <1>2 DEF StackInv, Enumerate

-----------------------------------------------------------------------------
(* Steps of an IRP.                                                        *)

Stay == UNCHANGED <<devices, next, name, initializing, added>>

LEMMA SameStacks ==
    ASSUME StackInv, Stay, \A p \in HidPdos : Removing(p) => Removing(p)'
    PROVE  Stacks'
<1>1. \A p \in WdmPdos : WdmStack(p)'
  BY DEF StackInv, Stacks, Stay, WdmStack
<1>2. \A p \in HidPdos : HidStack(p)'
  BY DEF StackInv, Stacks, Stay, HidStack
<1> QED BY <1>1, <1>2 DEF Stacks

LEMMA IrpFacts ==
    ASSUME StackInv, irp # None
    PROVE  /\ irp \in Irps /\ irp.pdo \in Pdos /\ irp.kind \in Kinds
           /\ irp.path \in Seq(Objects) /\ irp.calls \in Seq(Objects)
           /\ irp.completions \in {0, 1}
           /\ irp.status \in {"NOT_SUPPORTED", "SUCCESS", "INSUFFICIENT_RESOURCES"}
           /\ Len(irp.path) \in 1..3 /\ irp.path # <<>>
           /\ Has(irp.path, Last(irp.path)) /\ Last(irp.path) \in Objects
           /\ Last(irp.path)[1] = irp.pdo
<1>1. irp \in Irps /\ Len(irp.path) \in 1..3 /\ Way
  BY DEF StackInv, TypeOK
<1>2. irp.path \in Seq(Objects) /\ irp.path # <<>>
  BY <1>1 DEF Irps, Way
<1> QED BY <1>1, <1>2, FrontFacts DEF Irps, Way

LEMMA SendIrpStep ==
    ASSUME StackInv, NEW p \in Pdos, SendIrp(p)
    PROVE  StackInv'
<1>1. TypeOK /\ irp = None /\ Pdo(p) \in devices /\ Stay /\ Stacks
  BY DEF StackInv, SendIrp, Stay
<1>2. PICK kind \in Kinds :
         /\ irp' = [pdo |-> p, kind |-> kind, path |-> <<Top(p)>>, calls |-> <<>>,
                    status |-> "NOT_SUPPORTED", completions |-> 0]
         /\ powerBusy' = [powerBusy EXCEPT ![p] = @ \/ kind = "POWER"]
  BY DEF SendIrp
<1>d. PICK d \in Objects : d = Top(p)
  BY <1>1, TopFacts, ObjectFacts
<1>3. /\ p \in WdmPdos =>
           \/ d = Pdo(p) /\ next[Fdo(p)] = None
           \/ d = Fdo(p) /\ next[Fdo(p)] # None
      /\ p \in HidPdos => \/ d = Pdo(p) /\ next[Fdo(p)] = None /\ next[Filter(p)] = None
                          \/ d = Filter(p) /\ next[Fdo(p)] = None /\ next[Filter(p)] # None
                          \/ d = Fdo(p) /\ next[Fdo(p)] # None
  BY <1>1, <1>d, TopFacts, ObjectFacts DEF Stacks, HidStack
<1>4. irp' \in Irps /\ irp' # None /\ Len(irp'.path) = 1 /\ irp'.path # <<>>
  <2>1. irp'.path = <<d>> /\ <<d>> # <<>>
    BY <1>2, <1>d
  <2>2. irp' \in Irps
    BY <1>2, <1>d, SingleFacts, EmptyFacts DEF Irps
  <2> QED BY <2>1, <2>2, SingleFacts, ObjectFacts
<1>5. TypeOK'
  <2>1. powerBusy' \in [Pdos -> BOOLEAN]
    BY <1>1, <1>2 DEF TypeOK
  <2> QED BY <1>1, <1>4, <2>1 DEF TypeOK, Stay
<1>6. Stacks'
  BY <1>1, SameStacks DEF Removing
<1>7. /\ irp'.pdo = p /\ irp'.kind = kind /\ irp'.path = <<d>> /\ irp'.calls = <<>>
      /\ irp'.completions = 0 /\ Last(irp'.path) = d
      /\ \A e \in Objects : Has(irp'.path, e) => e = d
      /\ \A e \in Objects : ~Has(irp'.calls, e)
  BY <1>2, <1>d, SingleFacts, EmptyFacts
<1>8. Way'
  BY <1>3, <1>4, <1>7, ObjectFacts DEF Way
<1>9. Flight'
  BY <1>1, <1>3, <1>4, <1>7, ObjectFacts DEF Flight, CalledAll, Called, Stay
<1> QED BY <1>5, <1>6, <1>8, <1>9 DEF StackInv

LEMMA BusStep ==
    ASSUME StackInv, NEW p \in Pdos, BusDispatch(p)
    PROVE  StackInv'
<1>1. /\ irp # None /\ irp.completions = 0 /\ Last(irp.path) = Pdo(p) /\ Stay
      /\ powerBusy' = powerBusy /\ TypeOK /\ Way /\ Flight /\ irp \in Irps
      /\ irp' = [irp EXCEPT !.completions = @ + 1, !.status = "SUCCESS"]
  BY IrpFacts DEF StackInv, BusDispatch, At, Stay
<1>2. /\ irp'.pdo = irp.pdo /\ irp'.kind = irp.kind /\ irp'.path = irp.path
      /\ irp'.calls = irp.calls /\ irp'.completions = 1 /\ irp' \in Irps
  <2>1. irp' = [irp EXCEPT !.completions = 1, !.status = "SUCCESS"]
    BY <1>1
  <2>2. irp'.completions = 1 /\ irp'.status = "SUCCESS" /\ irp'.pdo = irp.pdo
        /\ irp'.kind = irp.kind /\ irp'.path = irp.path /\ irp'.calls = irp.calls
    BY <1>1, <2>1 DEF Irps
  <2>3. 1 \in 0..1
    OBVIOUS
  <2> QED BY <1>1, <2>1, <2>2, <2>3 DEF Irps
<1>3. irp' # None
  BY <1>2, ObjectFacts
<1>4. TypeOK'
  BY <1>1, <1>2, <1>3 DEF TypeOK, Stay
<1>5. Stacks'
  BY <1>1, SameStacks DEF Removing
<1>6. Way'
  BY <1>1, <1>2 DEF Way
<1>7. Flight'
  <2>1. irp.pdo = p
    BY <1>1, IrpFacts, ObjectFacts
  <2> QED BY <1>1, <1>2, <2>1, ObjectFacts DEF Flight, CalledAll, Called, Stay
<1> QED BY <1>4, <1>5, <1>6, <1>7 DEF StackInv

\* A driver that passes an IRP on, to the device below its own, and records its call if it
\* is a removal.
LEMMA PassOnStep ==
    ASSUME StackInv, NEW d \in {Fdo(irp.pdo), Filter(irp.pdo)}, At(d), Stay,
           powerBusy' \in [Pdos -> BOOLEAN],
           NEW path \in {SkipTo(next[d]), CopyTo(next[d])},
           NEW status \in {"NOT_SUPPORTED", "SUCCESS", "INSUFFICIENT_RESOURCES"},
           irp' = [irp EXCEPT !.path = path, !.status = status,
                              !.calls = IF irp.kind = "REMOVE_DEVICE" THEN Append(@, d) ELSE @]
    PROVE  StackInv'
<1> DEFINE p == irp.pdo
           n == next[d]
<1>1. /\ TypeOK /\ Stacks /\ Way /\ Flight /\ irp # None /\ irp.completions = 0
      /\ Last(irp.path) = d
  BY DEF StackInv, At
<1>2. /\ p \in Pdos /\ irp.path \in Seq(Objects) /\ irp.path # <<>>
      /\ irp.calls \in Seq(Objects) /\ irp \in Irps /\ d \in Objects /\ Len(irp.path) \in 1..3
      /\ d = Filter(p) => p \in HidPdos
  BY <1>1, IrpFacts DEF Way
<1>3. n # None /\ Len(irp.path) <= 2 /\ (d = Fdo(p) => Len(irp.path) = 1)
  <2>1. irp.path \in Seq(Objects) /\ Len(irp.path) \in Nat
    BY <1>2
  <2>2. d = Fdo(p) \/ d = Filter(p)
    OBVIOUS
  <2>3. CASE d = Fdo(p)
    <3>1. n # None /\ Len(irp.path) = 1
      BY <1>1, <2>3 DEF Flight
    <3> QED BY <3>1
  <2>4. CASE d = Filter(p) /\ d # Fdo(p)
    BY <1>1, <2>1, <2>4 DEF Flight
  <2> QED BY <2>2, <2>3, <2>4
<1>4. /\ n \in Objects /\ n[1] = p
      /\ \/ n = Pdo(p) /\ (p \in HidPdos => d = Filter(p))
         \/ n = Filter(p) /\ p \in HidPdos /\ d = Fdo(p) /\ next[n] # None
  <2>1. CASE p \in WdmPdos
    BY <1>1, <1>2, <1>3, <2>1, ObjectFacts DEF Stacks, WdmStack
  <2>2. CASE p \in HidPdos /\ d = Filter(p)
    BY <1>1, <1>3, <2>2, ObjectFacts DEF Stacks, HidStack
  <2>3. CASE p \in HidPdos /\ d = Fdo(p)
    <3>1. n = Filter(p) /\ Filter(p) \in devices
      BY <1>1, <1>3, <2>3 DEF Stacks, HidStack, Removing
    <3>2. next[Filter(p)] = Pdo(p) /\ Pdo(p) # None
      BY <1>1, <1>2, <2>3, <3>1, ObjectFacts DEF Stacks, HidStack
    <3> QED BY <2>3, <3>1, <3>2, ObjectFacts
  <2> QED BY <1>2, <2>1, <2>2, <2>3, ObjectFacts
<1> HIDE DEF n
<1>5. /\ path \in Seq(Objects) /\ Last(path) = n /\ path # <<>>
      /\ \A e \in Objects : Has(path, e) => e = n \/ Has(irp.path, e)
      /\ Len(path) \in 1..3 /\ (d = Fdo(p) => Len(path) <= 2)
  <2>1. CASE path = SkipTo(n)
    <3>1. /\ path \in Seq(Objects) /\ Last(path) = n /\ Len(path) = Len(irp.path)
          /\ \A e \in Objects : Has(path, e) => e = n \/ Has(irp.path, e)
      BY <1>2, <1>4, <2>1, ReplaceFacts DEF SkipTo
    <3>2. path # <<>>
      BY <1>2, <3>1
    <3> QED BY <1>2, <1>3, <3>1, <3>2
  <2>2. CASE path = CopyTo(n)
    BY <1>2, <1>3, <1>4, <2>2, AppendFacts DEF CopyTo
  <2> QED BY <2>1, <2>2 DEF n
<1>6. /\ irp' \in Irps /\ irp'.pdo = p /\ irp'.kind = irp.kind /\ irp'.completions = 0
      /\ irp'.path = path
      /\ irp'.calls = IF irp.kind = "REMOVE_DEVICE" THEN Append(irp.calls, d) ELSE irp.calls
  <2>1. Append(irp.calls, d) \in Seq(Objects)
    BY <1>2, AppendFacts
  <2> QED BY <1>1, <1>2, <1>5, <2>1 DEF Irps
<1>7. /\ irp.kind = "REMOVE_DEVICE" => Has(irp'.calls, d)
      /\ \A e \in Objects : Has(irp.calls, e) => Has(irp'.calls, e)
      /\ \A e \in Objects : Has(irp'.calls, e) => e = d \/ Has(irp.calls, e)
  BY <1>2, <1>6, AppendFacts
<1>8. TypeOK'
  BY <1>1, <1>5, <1>6, ObjectFacts DEF TypeOK, Stay
<1>9. Stacks'
  BY <1>1, SameStacks DEF Removing
<1>10. Way'
  BY <1>1, <1>2, <1>4, <1>5, <1>6, <1>7, ObjectFacts DEF Way
<1>11. Flight'
  <2>1. irp' # None /\ Last(irp'.path) = n
    BY <1>5, <1>6, ObjectFacts
  <2>2. irp.kind = "REMOVE_DEVICE" =>
           /\ n = Pdo(p) => CalledAll(p)'
           /\ n = Filter(p) => Called(Fdo(p))'
    BY <1>1, <1>2, <1>4, <1>6, <1>7, ObjectFacts DEF Flight, CalledAll, Called, Stay
  <2>3. n = Filter(p) => next'[n] # None /\ Len(path) <= 2
    BY <1>4, <1>5, ObjectFacts DEF Stay
  <2>4. n \in {Pdo(p), Filter(p)} /\ Pdo(p) # Fdo(p) /\ Filter(p) # Fdo(p)
        /\ Pdo(p) # Filter(p)
    BY <1>4, ObjectFacts
  <2> QED BY <1>6, <2>1, <2>2, <2>3, <2>4 DEF Flight
<1> QED BY <1>8, <1>9, <1>10, <1>11 DEF StackInv
LEMMA HelloWDMPnpStep ==
    ASSUME StackInv, NEW p \in WdmPdos, HelloWDMPnp(p)
    PROVE  StackInv'
<1>1. /\ At(Fdo(p)) /\ Stay /\ powerBusy' \in [Pdos -> BOOLEAN] /\ irp # None
      /\ Last(irp.path) = Fdo(p)
  BY DEF HelloWDMPnp, Stay, StackInv, TypeOK, At
<1>2. p = irp.pdo
  BY <1>1, IrpFacts, ObjectFacts
<1>3. PICK status \in {"NOT_SUPPORTED", "SUCCESS", "INSUFFICIENT_RESOURCES"} :
         status = IF irp.kind = "REMOVE_DEVICE" THEN "SUCCESS" ELSE irp.status
  BY <1>1, IrpFacts
<1>4. irp' = [irp EXCEPT !.path = SkipTo(next[Fdo(p)]), !.status = status,
                 !.calls = IF irp.kind = "REMOVE_DEVICE" THEN Append(@, Fdo(p)) ELSE @]
  BY <1>3 DEF HelloWDMPnp
<1> QED BY <1>1, <1>2, <1>4, PassOnStep

LEMMA HidKmdfStep ==
    ASSUME StackInv, NEW p \in HidPdos, HidKmdfPassThrough(p) \/ HidKmdfPowerPassThrough(p)
    PROVE  StackInv'
<1>1. /\ At(Fdo(p)) /\ Stay /\ powerBusy' \in [Pdos -> BOOLEAN] /\ irp # None
      /\ Last(irp.path) = Fdo(p)
  BY DEF HidKmdfPassThrough, HidKmdfPowerPassThrough, Stay, StackInv, TypeOK, At
<1>2. p = irp.pdo
  BY <1>1, IrpFacts, ObjectFacts
<1>3. PICK status \in {"NOT_SUPPORTED", "SUCCESS", "INSUFFICIENT_RESOURCES"} :
         status = irp.status
  BY <1>1, IrpFacts
<1>4. irp' = [irp EXCEPT !.path = CopyTo(next[Fdo(p)]), !.status = status,
                 !.calls = IF irp.kind = "REMOVE_DEVICE" THEN Append(@, Fdo(p)) ELSE @]
  <2>1. CASE HidKmdfPassThrough(p)
    BY <1>1, <1>3, <2>1, IrpFacts DEF HidKmdfPassThrough, Irps
  <2>2. CASE HidKmdfPowerPassThrough(p)
    <3>1. irp.kind = "POWER" /\ irp' = [irp EXCEPT !.path = CopyTo(next[Fdo(p)])]
      BY <2>2 DEF HidKmdfPowerPassThrough
    <3> QED BY <1>1, <1>3, <3>1, IrpFacts DEF Irps
  <2> QED BY <2>1, <2>2
<1> QED BY <1>1, <1>2, <1>4, PassOnStep

LEMMA FilterStep ==
    ASSUME StackInv, NEW p \in HidPdos, FilterPassThrough(p)
    PROVE  StackInv'
<1>1. /\ At(Filter(p)) /\ Stay /\ powerBusy' \in [Pdos -> BOOLEAN] /\ irp # None
      /\ Last(irp.path) = Filter(p)
  BY DEF FilterPassThrough, Stay, StackInv, TypeOK, At
<1>2. p = irp.pdo
  BY <1>1, IrpFacts, ObjectFacts
<1>3. PICK status \in {"NOT_SUPPORTED", "SUCCESS", "INSUFFICIENT_RESOURCES"} :
         status = irp.status
  BY <1>1, IrpFacts
<1>4. irp' = [irp EXCEPT !.path = CopyTo(next[Filter(p)]), !.status = status,
                 !.calls = IF irp.kind = "REMOVE_DEVICE" THEN Append(@, Filter(p)) ELSE @]
  BY <1>1, <1>3, IrpFacts DEF FilterPassThrough, Irps
<1> QED BY <1>1, <1>2, <1>4, PassOnStep

LEMMA QueryIdStep ==
    ASSUME StackInv, NEW p \in HidPdos, VMultiEvtWdmPreprocessMnQueryId(p)
    PROVE  StackInv'
<1>1. /\ irp # None /\ irp.completions = 0 /\ Stay /\ irp.kind # "REMOVE_DEVICE"
      /\ powerBusy' = powerBusy /\ TypeOK /\ Way /\ Flight /\ irp \in Irps
  BY IrpFacts DEF StackInv, VMultiEvtWdmPreprocessMnQueryId, At, Stay
<1>2. PICK status \in {"NOT_SUPPORTED", "SUCCESS", "INSUFFICIENT_RESOURCES"} :
         irp' = [irp EXCEPT !.status = status, !.completions = 1]
  <2>1. PICK status \in IF irp.kind = "DeviceID" THEN {"SUCCESS", "INSUFFICIENT_RESOURCES"}
                        ELSE {irp.status} :
           irp' = [irp EXCEPT !.status = status, !.completions = @ + 1]
    BY DEF VMultiEvtWdmPreprocessMnQueryId
  <2>2. status \in {"NOT_SUPPORTED", "SUCCESS", "INSUFFICIENT_RESOURCES"}
    BY <1>1, <2>1, IrpFacts
  <2>3. irp' = [irp EXCEPT !.status = status, !.completions = 1]
    BY <1>1, <2>1
  <2> QED BY <2>2, <2>3
<1>3. /\ irp'.pdo = irp.pdo /\ irp'.kind = irp.kind /\ irp'.path = irp.path
      /\ irp'.calls = irp.calls /\ irp'.completions = 1 /\ irp' \in Irps
  <2>1. irp'.status = status /\ irp'.completions = 1 /\ irp'.pdo = irp.pdo
        /\ irp'.kind = irp.kind /\ irp'.path = irp.path /\ irp'.calls = irp.calls
    BY <1>1, <1>2 DEF Irps
  <2>2. 1 \in 0..1
    OBVIOUS
  <2> QED BY <1>1, <1>2, <2>1, <2>2 DEF Irps
<1>4. irp' # None
  BY <1>3, ObjectFacts
<1>5. TypeOK'
  BY <1>1, <1>3, <1>4 DEF TypeOK, Stay
<1>6. Stacks'
  BY <1>1, SameStacks DEF Removing
<1>7. Way' /\ Flight'
  BY <1>1, <1>3 DEF Way, Flight
<1> QED BY <1>5, <1>6, <1>7 DEF StackInv

-----------------------------------------------------------------------------
(* Removal on the way back up.                                             *)

LEMMA RemoveStep ==
    ASSUME StackInv, NEW d, Returning(d), Return,
           NEW gone \in SUBSET Objects, IoDeleteDevices(gone),
           UNCHANGED <<added, powerBusy>>,
           d \in gone,
           irp.pdo \in WdmPdos => gone \subseteq {Fdo(irp.pdo), Pdo(irp.pdo)},
           irp.pdo \in HidPdos => gone = {d}
    PROVE  StackInv'
<1> DEFINE p == irp.pdo
<1>1. /\ TypeOK /\ Stacks /\ Way /\ Flight /\ irp # None /\ irp.completions = 1
      /\ irp.calls # <<>> /\ d = Last(irp.calls) /\ irp.kind = "REMOVE_DEVICE"
  <2>1. irp # None /\ irp.completions \in {0, 1} /\ irp.completions > 0
    BY IrpFacts DEF Returning
  <2> QED BY <2>1 DEF StackInv, Returning, Way
<1>2. /\ p \in Pdos /\ irp.path \in Seq(Objects) /\ irp.calls \in Seq(Objects)
      /\ irp \in Irps
  BY <1>1, IrpFacts
<1>3. d \in {Fdo(p), Filter(p)} /\ d \in Objects
  BY <1>1, <1>2, FrontFacts DEF Way
<1>4. /\ irp' = [irp EXCEPT !.calls = Front(irp.calls)]
      /\ irp' \in Irps /\ irp'.pdo = p /\ irp'.kind = irp.kind /\ irp'.path = irp.path
      /\ irp'.completions = 1 /\ irp'.calls = Front(irp.calls)
  BY <1>1, <1>2, FrontFacts DEF Return, Irps
<1>5. /\ \A e \in Objects : Has(irp'.calls, e) => Has(irp.calls, e)
      /\ \A e \in Objects : Has(irp.calls, e) => e = d \/ Has(irp'.calls, e)
  BY <1>1, <1>2, <1>4, FrontFacts
<1>6. /\ \A e \in Objects : next'[e] = IF e \in gone THEN None ELSE next[e]
      /\ devices' = devices \ gone
      /\ next' \in [Objects -> Objects \cup {None}]
      /\ name' \in devices' \cup {None} /\ initializing' \subseteq devices'
      /\ name' = IF name \in gone THEN None ELSE name
  BY <1>1 DEF IoDeleteDevices, TypeOK
<1>7. \A e \in gone : e[1] = p
  BY <1>2, <1>3, ObjectFacts
<1>8. TypeOK'
  BY <1>1, <1>4, <1>6, ObjectFacts DEF TypeOK
<1>9. \A q \in WdmPdos : WdmStack(q)'
  <2> TAKE q \in WdmPdos
  <2>1. WdmStack(q) /\ q \in Pdos /\ Fdo(q) \in Objects /\ Pdo(q) \in Objects
    BY <1>1, ObjectFacts DEF Stacks
  <2>2. CASE q # p
    <3>1. Fdo(q) \notin gone /\ Pdo(q) \notin gone
      BY <1>7, <2>2, ObjectFacts
    <3> QED BY <1>6, <2>1, <3>1, ObjectFacts DEF WdmStack
  <2>3. CASE q = p
    <3>1. d = Fdo(q)
      BY <1>3, <2>1, <2>3, ObjectFacts
    <3> QED BY <1>6, <2>1, <3>1, ObjectFacts DEF WdmStack
  <2> QED BY <2>2, <2>3
<1>10. \A q \in HidPdos : HidStack(q)'
  <2> TAKE q \in HidPdos
  <2>1. HidStack(q) /\ q \in Pdos /\ Fdo(q) \in Objects /\ Pdo(q) \in Objects
        /\ Filter(q) \in Objects
    BY <1>1, ObjectFacts DEF Stacks
  <2>2. CASE q # p
    <3>1. Fdo(q) \notin gone /\ Pdo(q) \notin gone /\ Filter(q) \notin gone
      BY <1>7, <2>2, ObjectFacts
    <3> QED BY <1>6, <2>1, <2>2, <3>1 DEF HidStack, Removing
  <2>3. CASE q = p
    <3>1. Removing(q)'
      BY <1>1, <1>4, <2>3, ObjectFacts DEF Removing
    <3>2. gone = {d} /\ Pdo(q) \notin gone
      BY <1>3, <2>3, ObjectFacts
    <3> QED BY <1>6, <2>1, <3>1, <3>2 DEF HidStack
  <2> QED BY <2>2, <2>3
<1>11. Way'
  BY <1>1, <1>3, <1>4, <1>5 DEF Way
<1>12. Flight'
  <2>1. CalledAll(p)
    BY <1>1 DEF Flight
  <2>2. Called(Fdo(p))' /\ (p \in HidPdos => Called(Filter(p))')
    BY <1>2, <1>4, <1>5, <1>6, <2>1, ObjectFacts DEF CalledAll, Called
  <2> QED BY <1>1, <1>4, <2>2 DEF Flight, CalledAll
<1> QED BY <1>8, <1>9, <1>10, <1>11, <1>12 DEF StackInv, Stacks

LEMMA ReturningFacts ==
    ASSUME StackInv, NEW d, Returning(d)
    PROVE  irp # None /\ d[1] = irp.pdo /\ d \in Objects
<1>1. irp # None /\ Way /\ irp.calls \in Seq(Objects) /\ irp.calls # <<>>
      /\ d = Last(irp.calls)
  BY IrpFacts DEF StackInv, Returning
<1> QED BY <1>1, FrontFacts, ObjectFacts DEF Way

LEMMA HandleRemoveDeviceStep ==
    ASSUME StackInv, NEW p \in WdmPdos, HandleRemoveDevice(p)
    PROVE  StackInv'
<1> DEFINE gone == {Fdo(p), next[Fdo(p)]} \ {None}
<1>1. /\ Returning(Fdo(p)) /\ Return /\ IoDeleteDevices(gone)
      /\ UNCHANGED <<added, powerBusy>>
  BY DEF HandleRemoveDevice
<1>2. p = irp.pdo /\ p \notin HidPdos
  BY <1>1, ReturningFacts, ObjectFacts
<1>3. WdmStack(p)
  BY DEF StackInv, Stacks
<1>4. gone \subseteq {Fdo(p), Pdo(p)} /\ Fdo(p) \in gone /\ gone \in SUBSET Objects
  BY <1>3, ObjectFacts DEF WdmStack
<1> HIDE DEF gone
<1> QED BY <1>1, <1>2, <1>4, RemoveStep

LEMMA RemoveOwnDeviceStep ==
    ASSUME StackInv, NEW p \in HidPdos, NEW d \in {Fdo(p), Filter(p)}, RemoveOwnDevice(d)
    PROVE  StackInv'
<1>1. Returning(d) /\ Return /\ IoDeleteDevices({d}) /\ UNCHANGED <<added, powerBusy>>
  BY DEF RemoveOwnDevice
<1>2. irp.pdo = p /\ p \notin WdmPdos /\ {d} \in SUBSET Objects
  BY <1>1, ReturningFacts, ObjectFacts
<1> QED BY <1>1, <1>2, RemoveStep

\* When a removal's answer is back no driver is left to return: none of its devices is
\* attached, and a stack without its middle is empty.
LEMMA IrpDoneStep ==
    ASSUME StackInv, IrpDone
    PROVE  StackInv'
<1> DEFINE p == irp.pdo
<1>1. /\ TypeOK /\ Stacks /\ Way /\ Flight /\ irp # None /\ irp.completions = 1
      /\ irp.calls = <<>> /\ irp' = None /\ p \in Pdos
      /\ UNCHANGED <<devices, next, name, initializing, powerBusy>>
  BY IrpFacts DEF StackInv, IrpDone
<1>2. \/ added' = added /\ irp.kind # "REMOVE_DEVICE"
      \/ added' = [added EXCEPT ![p] = "no"] /\ irp.kind = "REMOVE_DEVICE"
  BY DEF IrpDone
<1>3. /\ added' \in [Pdos -> {"no", "failed", "added"}]
      /\ \A q \in Pdos : added'[q] = added[q] \/ (q = p /\ irp.kind = "REMOVE_DEVICE")
  BY <1>1, <1>2 DEF TypeOK
<1>4. TypeOK'
  BY <1>1, <1>3 DEF TypeOK
<1>5. \A q \in WdmPdos : WdmStack(q)'
  BY <1>1 DEF Stacks, WdmStack
<1>6. irp.kind = "REMOVE_DEVICE" /\ p \in HidPdos => Fdo(p) \notin devices
  <2>1. irp.kind = "REMOVE_DEVICE" => next[Fdo(p)] = None
    BY <1>1, EmptyFacts DEF Flight, CalledAll, Called
  <2>2. p \in HidPdos => HidStack(p) /\ Filter(p) # None
    BY <1>1, ObjectFacts DEF Stacks
  <2> QED BY <2>1, <2>2 DEF HidStack
<1>7. \A q \in HidPdos : HidStack(q)'
  BY <1>1, <1>3, <1>6, ObjectFacts DEF Stacks, HidStack, Removing
<1> QED BY <1>1, <1>4, <1>5, <1>7 DEF StackInv, Stacks

-----------------------------------------------------------------------------
(* The theorems.                                                           *)

LEMMA StackStep == StackInv /\ [Next]_vars => StackInv'
<1> SUFFICES ASSUME StackInv, [Next]_vars PROVE StackInv'
  OBVIOUS
<1>1. CASE \E p \in WdmPdos : HelloWDM(p)
  BY <1>1, HelloWDMPnpStep, HandleRemoveDeviceStep DEF HelloWDM
<1>2. CASE \E p \in HidPdos : Hid(p)
  BY <1>2, HidKmdfStep, FilterStep, QueryIdStep, RemoveOwnDeviceStep DEF Hid
<1>3. CASE \E p \in Pdos : BusDispatch(p)
  BY <1>3, BusStep
<1>4. CASE IrpDone
  BY <1>4, IrpDoneStep
<1>5. CASE \E p \in WdmPdos : HelloWDMAddDevice(p)
  BY <1>5, HelloWDMAddStep
<1>6. CASE \E p \in HidPdos : VMultiEvtDeviceAdd(p) \/ HidKmdfAddDevice(p)
  BY <1>6, VMultiAddStep, HidKmdfAddStep
<1>7. CASE \E p \in Pdos : SendIrp(p) \/ Enumerate(p)
  BY <1>7, SendIrpStep, EnumerateStep
<1>8. CASE UNCHANGED vars
  BY <1>8 DEF vars, StackInv, TypeOK, Stacks, WdmStack, HidStack, Removing, Way, Flight,
      CalledAll, Called
<1> QED BY <1>1, <1>2, <1>3, <1>4, <1>5, <1>6, <1>7, <1>8 DEF Next, Dispatch

LEMMA StackAlways == Spec => []StackInv
BY InitStack, StackStep, PTL DEF Spec

\* Every variable keeps its type: nobody completes an IRP twice, it never has more stack
\* locations than three, and the name HelloWDM has given is that of a device there is.
THEOREM TypeCorrect == Spec => []TypeOK
<1>1. StackInv => TypeOK
  BY DEF StackInv
<1> QED BY <1>1, StackAlways, PTL

\* When the answer to a removal is back at the PnP manager, no device above the PDO is
\* attached any more: HandleRemoveDevice, HIDCLASS and the framework have deleted theirs.
THEOREM RemovedLeavesNothingAlways == Spec => []RemovedLeavesNothing
<1>1. StackInv => RemovedLeavesNothing
  <2> SUFFICES ASSUME StackInv, irp # None, irp.kind = "REMOVE_DEVICE", irp.completions > 0,
                      irp.calls = <<>>, NEW d \in devices, d[1] = irp.pdo, d # Pdo(irp.pdo)
               PROVE  next[d] = None
    BY DEF RemovedLeavesNothing
  <2>1. irp.completions = 1 /\ Flight /\ d \in Objects
    BY IrpFacts DEF StackInv, TypeOK
  <2>2. next[Fdo(irp.pdo)] = None /\ (irp.pdo \in HidPdos => next[Filter(irp.pdo)] = None)
    BY <2>1, EmptyFacts DEF Flight, CalledAll, Called
  <2> QED BY <2>1, <2>2, ObjectFacts
<1> QED BY <1>1, StackAlways, PTL
=============================================================================
