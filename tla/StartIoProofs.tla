--------------------------- MODULE StartIoProofs ---------------------------
(* Proofs about StartIo, for any set of IRPs.                              *)
EXTENDS StartIo, SequenceTheorems, TLAPS

(* A server has an IRP to serve: without this TypeOK is not inductive.     *)
ServerHasIrp == \A c \in Irps : Serving(c) => current[c] \in Irps

ServerInv == TypeOK /\ ServerHasIrp /\ OneServer

LEMMA InitServerInv == Init => ServerInv
<1> SUFFICES ASSUME Init PROVE ServerInv
  OBVIOUS
<1>1. TypeOK
  <2>1. /\ cancelRoutine \in [Irps -> BOOLEAN] /\ cancel \in [Irps -> BOOLEAN]
        /\ cancelling \in [Irps -> BOOLEAN]
    BY DEF Init
  <2>2. device_queue \in Seq(Irps) /\ inserted \in Seq(Irps) /\ finished \in Seq(Irps)
    BY DEF Init
  <2>3. /\ pc \in [Irps -> {"called", "marked", "waiting", "removing", "returned"}]
        /\ current \in [Irps -> Irps \cup {None}] /\ busy \in BOOLEAN
        /\ completions \in [Irps -> Nat]
        /\ status \in [Irps -> {"PENDING", "SUCCESS", "CANCELLED"}]
    BY DEF Init
  <2> QED BY <2>1, <2>2, <2>3 DEF TypeOK
<1>2. ServerHasIrp
  BY DEF Init, ServerHasIrp, Serving
<1>3. OneServer
  BY DEF Init, OneServer, Serving
<1> QED BY <1>1, <1>2, <1>3 DEF ServerInv

-----------------------------------------------------------------------------
(* One lemma per step of HelloDDKRead and MyStartIo.                       *)

LEMMA MarkPendingServer ==
    ASSUME ServerInv, NEW c \in Irps, MarkPending(c) PROVE ServerInv'
<1> USE DEF ServerInv
<1>1. TypeOK'
  BY DEF TypeOK, MarkPending
<1>2. \A d \in Irps : Serving(d)' <=> Serving(d)
  BY DEF TypeOK, MarkPending, Serving
<1> QED BY <1>1, <1>2 DEF MarkPending, ServerHasIrp, OneServer

LEMMA InsertServer ==
    ASSUME ServerInv, NEW c \in Irps, InsertDeviceQueue(c) PROVE ServerInv'
<1> USE DEF ServerInv
<1>1. TypeOK'
  <2>1. device_queue' = device_queue \/ device_queue' = Append(device_queue, c)
    BY DEF InsertDeviceQueue
  <2>2. Append(device_queue, c) \in Seq(Irps) /\ Append(inserted, c) \in Seq(Irps)
    BY DEF TypeOK
  <2>3. device_queue' \in Seq(Irps) /\ inserted' \in Seq(Irps)
    BY <2>1, <2>2 DEF TypeOK, InsertDeviceQueue
  <2>4. busy' \in BOOLEAN /\ current' \in [Irps -> Irps \cup {None}]
    BY DEF TypeOK, InsertDeviceQueue
  <2>5. pc' \in [Irps -> {"called", "marked", "waiting", "removing", "returned"}]
    BY DEF TypeOK, InsertDeviceQueue
  <2> QED BY <2>3, <2>4, <2>5 DEF TypeOK, InsertDeviceQueue
<1>2. CASE busy
  <2>1. \A d \in Irps : Serving(d)' <=> Serving(d)
    BY <1>2 DEF TypeOK, InsertDeviceQueue, Serving
  <2> QED BY <1>1, <1>2, <2>1 DEF InsertDeviceQueue, ServerHasIrp, OneServer
<1>3. CASE ~busy
  <2>1. \A d \in Irps : Serving(d)' <=> d = c
    BY <1>3 DEF TypeOK, InsertDeviceQueue, Serving, OneServer
  <2>2. busy' /\ current'[c] = c
    BY <1>3 DEF TypeOK, InsertDeviceQueue
  <2> QED BY <1>1, <2>1, <2>2 DEF ServerHasIrp, OneServer
<1> QED BY <1>2, <1>3

LEMMA CompleteServer ==
    ASSUME ServerInv, NEW c \in Irps, CompleteIrp(c) PROVE ServerInv'
<1> USE DEF ServerInv
<1>0. current[c] \in Irps
  BY DEF CompleteIrp, ServerHasIrp, Serving
<1>1. TypeOK'
  BY <1>0 DEF TypeOK, CompleteIrp, Complete
<1>2. \A d \in Irps : Serving(d)' <=> Serving(d)
  BY DEF TypeOK, CompleteIrp, Serving
<1> QED BY <1>1, <1>2 DEF CompleteIrp, ServerHasIrp, OneServer

LEMMA RemoveServer ==
    ASSUME ServerInv, NEW c \in Irps, RemoveDeviceQueue(c) PROVE ServerInv'
<1> USE DEF ServerInv
<1>0. Serving(c) /\ busy
  BY DEF RemoveDeviceQueue, Serving, OneServer
<1>1. TypeOK'
  <2>1. device_queue # <<>> =>
           Head(device_queue) \in Irps /\ Tail(device_queue) \in Seq(Irps)
    BY DEF TypeOK
  <2>2. \/ device_queue' = device_queue
        \/ device_queue # <<>> /\ device_queue' = Tail(device_queue)
    BY DEF RemoveDeviceQueue
  <2>3. device_queue' \in Seq(Irps)
    BY <2>1, <2>2 DEF TypeOK
  <2>4. current' \in [Irps -> Irps \cup {None}] /\ busy' \in BOOLEAN
    BY <2>1 DEF TypeOK, RemoveDeviceQueue
  <2>5. pc' \in [Irps -> {"called", "marked", "waiting", "removing", "returned"}]
    BY DEF TypeOK, RemoveDeviceQueue
  <2> QED BY <2>3, <2>4, <2>5 DEF TypeOK, RemoveDeviceQueue
<1>2. CASE device_queue = <<>>
  <2>1. \A d \in Irps : ~Serving(d)'
    BY <1>0, <1>2 DEF TypeOK, RemoveDeviceQueue, Serving, OneServer
  <2> QED BY <1>1, <1>2, <2>1 DEF RemoveDeviceQueue, ServerHasIrp, OneServer
<1>3. CASE device_queue # <<>>
  <2>1. \A d \in Irps : Serving(d)' <=> Serving(d)
    BY <1>3 DEF TypeOK, RemoveDeviceQueue, Serving
  <2>2. current'[c] \in Irps /\ busy'
    BY <1>0, <1>3 DEF TypeOK, RemoveDeviceQueue
  <2> QED BY <1>0, <1>1, <2>1, <2>2 DEF ServerHasIrp, OneServer
<1> QED BY <1>2, <1>3

LEMMA CancelServer ==
    ASSUME ServerInv, NEW i \in Irps, IoCancelIrp(i) \/ OnCancelIRP(i) PROVE ServerInv'
<1> USE DEF ServerInv
<1>1. TypeOK'
  <2>1. CASE IoCancelIrp(i)
    <3>1. cancelling' \in [Irps -> BOOLEAN]
      BY <2>1 DEF TypeOK, IoCancelIrp
    <3>2. cancel' \in [Irps -> BOOLEAN] /\ cancelRoutine' \in [Irps -> BOOLEAN]
      BY <2>1 DEF TypeOK, IoCancelIrp
    <3> QED BY <2>1, <3>1, <3>2 DEF TypeOK, IoCancelIrp
  <2>2. CASE OnCancelIRP(i)
    BY <2>2 DEF TypeOK, OnCancelIRP, Complete
  <2> QED BY <2>1, <2>2
<1>2. UNCHANGED <<pc, current, busy, device_queue>>
  BY DEF IoCancelIrp, OnCancelIRP
<1> QED BY <1>1, <1>2 DEF ServerHasIrp, OneServer, Serving

LEMMA NextServerInv == ServerInv /\ [Next]_vars => ServerInv'
<1> SUFFICES ASSUME ServerInv, [Next]_vars PROVE ServerInv'
  OBVIOUS
<1>1. CASE UNCHANGED vars
  BY <1>1 DEF ServerInv, TypeOK, ServerHasIrp, OneServer, Serving, vars
<1>2. CASE Next
  BY <1>2, MarkPendingServer, InsertServer, CompleteServer, RemoveServer, CancelServer
     DEF Next, Call
<1> QED BY <1>1, <1>2

(* Whatever the interleaving of calls and cancellations, at most one call  *)
(* runs MyStartIo, the queue is busy exactly then, and no IRP waits in a   *)
(* queue that nobody serves.                                               *)
THEOREM OneServerAlways == Spec => []OneServer
<1>1. ServerInv => OneServer
  BY DEF ServerInv
<1> QED BY InitServerInv, NextServerInv, <1>1, PTL DEF Spec

(* Type correctness of the specification.                                  *)
THEOREM TypeCorrect == Spec => []TypeOK
<1>1. ServerInv => TypeOK
  BY DEF ServerInv
<1> QED BY InitServerInv, NextServerInv, <1>1, PTL DEF Spec

-----------------------------------------------------------------------------
(* Where an IRP is: before its insertion, once in the queue, in the hands  *)
(* of the server, or finished; so the loop finishes no IRP twice.          *)
Has(q, i) == \E k \in 1..Len(q) : q[k] = i

PlaceInv ==
    /\ \A i \in Irps : pc[i] \in {"called", "marked"} => ~Has(finished, i)
    /\ \A j, k \in 1..Len(device_queue) : device_queue[j] = device_queue[k] => j = k
    /\ \A k \in 1..Len(device_queue) :
         ~Has(finished, device_queue[k]) /\ pc[device_queue[k]] = "returned"
    /\ \A c \in Irps : pc[c] = "waiting" =>
         /\ ~Has(finished, current[c])
         /\ pc[current[c]] \in {"waiting", "returned"}
         /\ \A k \in 1..Len(device_queue) : device_queue[k] # current[c]

LEMMA CompleteFinishes ==
    ASSUME ServerInv, NEW c \in Irps, CompleteIrp(c), NEW i
    PROVE  Has(finished', i) <=> Has(finished, i) \/ i = current[c]
<1>1. finished \in Seq(Irps) /\ current[c] \in Irps /\ finished' = Append(finished, current[c])
  BY DEF CompleteIrp, ServerInv, ServerHasIrp, Serving, TypeOK
<1>2. /\ Len(finished) \in Nat /\ Len(finished') = Len(finished) + 1
      /\ \A k \in 1..Len(finished) : finished'[k] = finished[k]
      /\ finished'[Len(finished) + 1] = current[c]
  BY <1>1, AppendProperties
<1> DEFINE n == Len(finished)
<1>3. /\ n \in Nat /\ Len(finished') = n + 1
      /\ \A k \in 1..n : finished'[k] = finished[k] /\ k \in 1..(n + 1)
      /\ finished'[n + 1] = current[c] /\ n + 1 \in 1..(n + 1)
      /\ \A k \in 1..(n + 1) : k \in 1..n \/ k = n + 1
  BY <1>2
<1> QED BY <1>3 DEF Has

LEMMA MarkPlace ==
    ASSUME ServerInv, PlaceInv, NEW c \in Irps, MarkPending(c) PROVE PlaceInv'
<1>1. /\ \A d \in Irps : pc'[d] = IF d = c THEN "marked" ELSE pc[d]
      /\ UNCHANGED <<finished, device_queue, current>>
  BY DEF ServerInv, TypeOK, MarkPending
<1>2. pc[c] = "called"
  BY DEF MarkPending
<1>3. \A k \in 1..Len(device_queue) : device_queue[k] \in Irps
  BY DEF ServerInv, TypeOK
<1>4. \A d \in Irps : pc[d] = "waiting" => current[d] \in Irps
  BY DEF ServerInv, ServerHasIrp, Serving
<1> QED BY <1>1, <1>2, <1>3, <1>4 DEF PlaceInv

LEMMA InsertPlace ==
    ASSUME ServerInv, PlaceInv, NEW c \in Irps, InsertDeviceQueue(c) PROVE PlaceInv'
<1>0. pc[c] = "marked" /\ UNCHANGED finished /\ ~Has(finished, c)
  BY DEF InsertDeviceQueue, PlaceInv
<1>1. \A k \in 1..Len(device_queue) : device_queue[k] \in Irps /\ device_queue[k] # c
  BY <1>0 DEF ServerInv, TypeOK, PlaceInv
<1>2. \A d \in Irps : pc[d] = "waiting" => current[d] \in Irps /\ current[d] # c
  BY <1>0 DEF ServerInv, ServerHasIrp, Serving, PlaceInv
<1>3. CASE busy
  <2>1. /\ \A d \in Irps : pc'[d] = IF d = c THEN "returned" ELSE pc[d]
        /\ UNCHANGED current /\ device_queue' = Append(device_queue, c)
    BY <1>3 DEF ServerInv, TypeOK, InsertDeviceQueue
  <2>2. /\ device_queue \in Seq(Irps)
        /\ Len(device_queue') = Len(device_queue) + 1
        /\ \A k \in 1..Len(device_queue) : device_queue'[k] = device_queue[k]
        /\ device_queue'[Len(device_queue) + 1] = c
    BY <2>1, AppendProperties DEF ServerInv, TypeOK
  <2>3. Len(device_queue) \in Nat
    BY <2>2
  <2>4. \A k \in 1..Len(device_queue') :
          \/ k \in 1..Len(device_queue) /\ device_queue'[k] = device_queue[k]
          \/ k = Len(device_queue) + 1 /\ device_queue'[k] = c
    BY <2>2, <2>3
  <2>5. \A j, k \in 1..Len(device_queue') : device_queue'[j] = device_queue'[k] => j = k
    BY <2>4, <1>1 DEF PlaceInv
  <2>6. \A k \in 1..Len(device_queue') :
          ~Has(finished', device_queue'[k]) /\ pc'[device_queue'[k]] = "returned"
    BY <2>4, <2>1, <1>0, <1>1 DEF PlaceInv
  <2>7. \A d \in Irps : pc'[d] = "waiting" =>
          /\ ~Has(finished', current'[d])
          /\ pc'[current'[d]] \in {"waiting", "returned"}
          /\ \A k \in 1..Len(device_queue') : device_queue'[k] # current'[d]
    BY <2>4, <2>1, <1>0, <1>2 DEF PlaceInv
  <2> QED BY <1>0, <2>1, <2>5, <2>6, <2>7 DEF PlaceInv
<1>4. CASE ~busy
  <2>1. /\ \A d \in Irps : pc'[d] = IF d = c THEN "waiting" ELSE pc[d]
        /\ \A d \in Irps : current'[d] = IF d = c THEN c ELSE current[d]
        /\ UNCHANGED device_queue
    BY <1>4 DEF ServerInv, TypeOK, InsertDeviceQueue
  <2>2. \A d \in Irps : pc[d] # "waiting"
    BY <1>4 DEF ServerInv, OneServer, Serving
  <2> QED BY <1>0, <1>1, <2>1, <2>2 DEF PlaceInv
<1> QED BY <1>3, <1>4 DEF ServerInv, TypeOK

LEMMA CompletePlace ==
    ASSUME ServerInv, PlaceInv, NEW c \in Irps, CompleteIrp(c) PROVE PlaceInv'
<1>1. pc[c] = "waiting" /\ current[c] \in Irps
  BY DEF CompleteIrp, ServerInv, ServerHasIrp, Serving
<1>2. /\ \A d \in Irps : pc'[d] = IF d = c THEN "removing" ELSE pc[d]
      /\ \A i : Has(finished', i) <=> Has(finished, i) \/ i = current[c]
      /\ UNCHANGED <<device_queue, current>>
  BY <1>1, CompleteFinishes DEF ServerInv, TypeOK, CompleteIrp
<1>3. \A d \in Irps : pc'[d] # "waiting"
  BY <1>1, <1>2 DEF ServerInv, OneServer, Serving
<1>4. \A k \in 1..Len(device_queue) :
         /\ device_queue[k] \in Irps
         /\ device_queue[k] # current[c] /\ device_queue[k] # c
  BY <1>1 DEF ServerInv, TypeOK, PlaceInv
<1>5. pc[current[c]] \notin {"called", "marked"}
  BY <1>1 DEF PlaceInv
<1>6. \A i \in Irps : pc'[i] \in {"called", "marked"} => ~Has(finished', i)
  BY <1>1, <1>2, <1>5 DEF PlaceInv
<1> QED BY <1>2, <1>3, <1>4, <1>6 DEF PlaceInv

LEMMA RemovePlace ==
    ASSUME ServerInv, PlaceInv, NEW c \in Irps, RemoveDeviceQueue(c) PROVE PlaceInv'
<1>1. pc[c] = "removing" /\ UNCHANGED finished
  BY DEF RemoveDeviceQueue
<1>2. \A d \in Irps : d # c => pc[d] # "waiting"
  BY <1>1 DEF ServerInv, OneServer, Serving
<1>3. CASE device_queue = <<>>
  <2>1. /\ \A d \in Irps : pc'[d] = IF d = c THEN "returned" ELSE pc[d]
        /\ UNCHANGED device_queue
    BY <1>3 DEF ServerInv, TypeOK, RemoveDeviceQueue
  <2> QED BY <1>1, <1>2, <1>3, <2>1 DEF PlaceInv
<1>4. CASE device_queue # <<>>
  <2> DEFINE q == device_queue
  <2>1. /\ \A d \in Irps : pc'[d] = IF d = c THEN "waiting" ELSE pc[d]
        /\ current'[c] = Head(q) /\ device_queue' = Tail(q)
    BY <1>4 DEF ServerInv, TypeOK, RemoveDeviceQueue
  <2>2. q \in Seq(Irps) /\ q # <<>>
    BY <1>4 DEF ServerInv, TypeOK
  <2>3. /\ Len(q) \in Nat /\ Len(q) > 0 /\ Head(q) = q[1] /\ q[1] \in Irps
        /\ Len(Tail(q)) = Len(q) - 1
        /\ \A k \in 1..Len(Tail(q)) : Tail(q)[k] = q[k + 1]
    BY <2>2, HeadTailProperties
  <2>4. \A k \in 1..Len(Tail(q)) : k + 1 \in 1..Len(q) /\ Tail(q)[k] = q[k + 1]
    BY <2>3
  <2>5. \A k \in 1..Len(q) :
          q[k] \in Irps /\ q[k] # c /\ ~Has(finished, q[k]) /\ pc[q[k]] = "returned"
    BY <1>1, <2>2 DEF PlaceInv
  <2>6. \A j, k \in 1..Len(Tail(q)) : Tail(q)[j] = Tail(q)[k] => j = k
    BY <2>3, <2>4 DEF PlaceInv
  <2>7. \A k \in 1..Len(Tail(q)) : Tail(q)[k] # q[1]
    BY <2>3, <2>4 DEF PlaceInv
  <2>8. \A k \in 1..Len(Tail(q)) :
          ~Has(finished, Tail(q)[k]) /\ pc'[Tail(q)[k]] = "returned"
    BY <2>1, <2>4, <2>5
  <2>9. ~Has(finished, q[1]) /\ pc'[q[1]] = "returned"
    BY <2>1, <2>3, <2>5
  <2>10. \A d \in Irps : pc'[d] = "waiting" =>
          /\ ~Has(finished, current'[d])
          /\ pc'[current'[d]] \in {"waiting", "returned"}
          /\ \A k \in 1..Len(Tail(q)) : Tail(q)[k] # current'[d]
    BY <1>2, <2>1, <2>3, <2>7, <2>9
  <2>11. \A i \in Irps : pc'[i] \in {"called", "marked"} => ~Has(finished, i)
    BY <2>1 DEF PlaceInv
  <2> QED BY <1>1, <2>1, <2>6, <2>8, <2>10, <2>11 DEF PlaceInv
<1> QED BY <1>3, <1>4

LEMMA PlaceAlways == Spec => []PlaceInv
<1>1. Init => PlaceInv
  BY DEF Init, PlaceInv, Has
<1>2. ASSUME ServerInv, PlaceInv, [Next]_vars PROVE PlaceInv'
  <2>1. CASE UNCHANGED vars
    BY <1>2, <2>1 DEF PlaceInv, vars
  <2>2. ASSUME NEW i \in Irps, IoCancelIrp(i) \/ OnCancelIRP(i) PROVE PlaceInv'
    <3>1. UNCHANGED <<pc, current, device_queue, finished>>
      BY <2>2 DEF IoCancelIrp, OnCancelIRP
    <3> QED BY <1>2, <3>1 DEF PlaceInv
  <2>3. CASE Next
    BY <1>2, <2>2, <2>3, MarkPlace, InsertPlace, CompletePlace, RemovePlace DEF Next, Call
  <2> QED BY <1>2, <2>1, <2>3
<1> QED BY <1>1, <1>2, InitServerInv, NextServerInv, PTL DEF Spec

-----------------------------------------------------------------------------
(* Who has completed an IRP: the loop, the cancel routine, or both.        *)
Aborted(i) == cancel[i] /\ ~cancelling[i]
CountInv ==
    \A i \in Irps :
        /\ cancelling[i] => cancel[i]
        /\ completions[i] > 0 => Has(finished, i) \/ Aborted(i)
        /\ completions[i] > 1 => Has(finished, i) /\ Aborted(i)

LEMMA CompleteCount ==
    ASSUME ServerInv, PlaceInv, CountInv, NEW c \in Irps, CompleteIrp(c) PROVE CountInv'
<1>1. current[c] \in Irps /\ ~Has(finished, current[c])
  BY DEF CompleteIrp, ServerInv, ServerHasIrp, Serving, PlaceInv
<1>2. completions[current[c]] \in Nat /\ completions[current[c]] <= 1
  BY <1>1 DEF CompleteIrp, Running, ServerInv, TypeOK
<1>3. /\ \A i \in Irps : completions'[i] =
              IF i = current[c] THEN completions[i] + 1 ELSE completions[i]
      /\ UNCHANGED <<cancel, cancelling>>
      /\ \A i : Has(finished', i) <=> Has(finished, i) \/ i = current[c]
  BY <1>1, CompleteFinishes DEF ServerInv, TypeOK, CompleteIrp, Complete
<1>4. completions'[current[c]] > 1 => completions[current[c]] > 0
  BY <1>1, <1>2, <1>3
<1>5. ASSUME NEW i \in Irps
      PROVE  /\ cancelling'[i] => cancel'[i]
             /\ completions'[i] > 0 => Has(finished', i) \/ (cancel'[i] /\ ~cancelling'[i])
             /\ completions'[i] > 1 => Has(finished', i) /\ cancel'[i] /\ ~cancelling'[i]
  BY <1>1, <1>3, <1>4 DEF CountInv, Aborted
<1> QED BY <1>5 DEF CountInv, Aborted

LEMMA OnCancelCount ==
    ASSUME ServerInv, CountInv, NEW c \in Irps, OnCancelIRP(c) PROVE CountInv'
<1>1. completions[c] \in Nat /\ cancelling[c] /\ cancel[c]
  BY DEF OnCancelIRP, ServerInv, TypeOK, CountInv
<1>2. /\ \A i \in Irps : completions'[i] = IF i = c THEN completions[i] + 1 ELSE completions[i]
      /\ \A i \in Irps : cancelling'[i] <=> (i # c /\ cancelling[i])
      /\ UNCHANGED <<cancel, finished>>
  BY DEF ServerInv, TypeOK, OnCancelIRP, Complete
<1>3. completions'[c] > 1 => completions[c] > 0
  BY <1>1, <1>2
<1>4. completions[c] > 0 => Has(finished, c)
  BY <1>1 DEF CountInv, Aborted
<1> QED BY <1>1, <1>2, <1>3, <1>4 DEF CountInv, Aborted

LEMMA IoCancelCount ==
    ASSUME ServerInv, CountInv, NEW c \in Irps, IoCancelIrp(c) PROVE CountInv'
<1>1. ~cancel[c] /\ completions[c] = 0 /\ UNCHANGED <<completions, finished>>
  BY DEF IoCancelIrp
<1>2. /\ \A i \in Irps \ {c} : cancel'[i] = cancel[i] /\ cancelling'[i] = cancelling[i]
      /\ cancel'[c]
  BY DEF ServerInv, TypeOK, IoCancelIrp
<1>3. ~(completions[c] > 0) /\ ~(completions[c] > 1)
  BY <1>1
<1> QED BY <1>1, <1>2, <1>3 DEF CountInv, Aborted

LEMMA CountAlways == Spec => []CountInv
<1>1. Init => CountInv
  BY DEF Init, CountInv
<1>2. ASSUME ServerInv, PlaceInv, CountInv, [Next]_vars PROVE CountInv'
  <2>1. CASE UNCHANGED <<completions, cancel, cancelling, finished>>
    BY <1>2, <2>1 DEF CountInv, Aborted
  <2>2. UNCHANGED vars => UNCHANGED <<completions, cancel, cancelling, finished>>
    BY DEF vars
  <2>3. ASSUME NEW c \in Irps, MarkPending(c) \/ InsertDeviceQueue(c) \/ RemoveDeviceQueue(c)
        PROVE  UNCHANGED <<completions, cancel, cancelling, finished>>
    BY <2>3 DEF MarkPending, InsertDeviceQueue, RemoveDeviceQueue
  <2>4. CASE Next
    BY <1>2, <2>1, <2>3, <2>4, CompleteCount, OnCancelCount, IoCancelCount DEF Next, Call
  <2> QED BY <1>2, <2>1, <2>2, <2>4
<1> QED BY <1>1, <1>2, InitServerInv, NextServerInv, PlaceAlways, PTL DEF Spec

(* Whatever is cancelled and when, an IRP is completed twice only if its   *)
(* cancel routine has run and MyStartIo has finished it as well: the loop  *)
(* never completes an IRP twice, and neither does OnCancelIRP.             *)
THEOREM TwiceOnlyWhenCancelledAlways == Spec => []TwiceOnlyWhenCancelled
<1>1. CountInv => TwiceOnlyWhenCancelled
  BY DEF CountInv, Aborted, Has, TwiceOnlyWhenCancelled
<1> QED BY <1>1, CountAlways, PTL

(* In an installation where nobody cancels, every read is completed at     *)
(* most once, however many calls compete to run MyStartIo.                 *)
THEOREM CompletedAtMostOnceAlways ==
    ASSUME Cancellable = {} PROVE Spec => []CompletedAtMostOnce
<1> DEFINE NobodyCancels == \A i \in Irps : ~cancel[i]
<1>1. Init => NobodyCancels
  BY DEF Init
<1>2. NobodyCancels /\ [Next]_vars => NobodyCancels'
  BY DEF Next, Call, MarkPending, InsertDeviceQueue, CompleteIrp, RemoveDeviceQueue,
     IoCancelIrp, OnCancelIRP, vars
<1>3. ServerInv /\ CountInv /\ NobodyCancels => CompletedAtMostOnce
  <2> SUFFICES ASSUME ServerInv, CountInv, NobodyCancels, NEW i \in Irps
               PROVE  completions[i] <= 1
    BY DEF CompletedAtMostOnce
  <2>1. completions[i] \in Nat /\ ~(completions[i] > 1)
    BY DEF ServerInv, TypeOK, CountInv, Aborted
  <2> QED BY <2>1
<1> QED BY <1>1, <1>2, <1>3, InitServerInv, NextServerInv, CountAlways, PTL DEF Spec

-----------------------------------------------------------------------------
(* What EveryReadCompletes rests on: no read is ever lost.                 *)
Served(i) == \E c \in Irps : pc[c] = "waiting" /\ current[c] = i

NoneLost ==
    \A i \in Irps : pc[i] \notin {"called", "marked"} =>
        \/ completions[i] > 0
        \/ Served(i)
        \/ Has(device_queue, i) /\ \E c \in Irps : Serving(c)

(* The same with the IRPs that the loop has finished, as completions may   *)
(* be those of a cancel routine.                                           *)
LostInv ==
    \A i \in Irps :
        /\ pc[i] \notin {"called", "marked"} => Has(finished, i) \/ Served(i) \/ Has(device_queue, i)
        /\ Has(finished, i) => completions[i] > 0

LEMMA InsertKeeps ==
    ASSUME ServerInv, LostInv, NEW c \in Irps, InsertDeviceQueue(c) PROVE LostInv'
<1>1. /\ pc[c] = "marked" /\ device_queue \in Seq(Irps)
      /\ UNCHANGED <<finished, completions>>
  BY DEF InsertDeviceQueue, ServerInv, TypeOK
<1>2. CASE busy
  <2>1. /\ \A d \in Irps : pc'[d] = IF d = c THEN "returned" ELSE pc[d]
        /\ UNCHANGED current /\ device_queue' = Append(device_queue, c)
    BY <1>2 DEF ServerInv, TypeOK, InsertDeviceQueue
  <2>2. \A i \in Irps : Served(i) => Served(i)'
    BY <1>1, <2>1 DEF Served
  <2>3. /\ Len(device_queue) \in Nat /\ Len(device_queue') = Len(device_queue) + 1
        /\ \A k \in 1..Len(device_queue) : device_queue'[k] = device_queue[k]
        /\ device_queue'[Len(device_queue) + 1] = c
    BY <1>1, <2>1, AppendProperties
  <2>4. Has(device_queue', c) /\ \A i \in Irps : Has(device_queue, i) => Has(device_queue', i)
    BY <2>3 DEF Has
  <2> QED BY <1>1, <2>1, <2>2, <2>4 DEF LostInv
<1>3. CASE ~busy
  <2>1. /\ \A d \in Irps : pc'[d] = IF d = c THEN "waiting" ELSE pc[d]
        /\ \A d \in Irps : current'[d] = IF d = c THEN c ELSE current[d]
        /\ UNCHANGED device_queue
    BY <1>3 DEF ServerInv, TypeOK, InsertDeviceQueue
  <2>2. Served(c)' /\ \A i \in Irps : Served(i) => Served(i)'
    BY <1>1, <2>1 DEF Served
  <2> QED BY <1>1, <2>1, <2>2 DEF LostInv
<1> QED BY <1>2, <1>3 DEF ServerInv, TypeOK

LEMMA CompleteKeeps ==
    ASSUME ServerInv, LostInv, NEW c \in Irps, CompleteIrp(c) PROVE LostInv'
<1>1. pc[c] = "waiting" /\ current[c] \in Irps
  BY DEF CompleteIrp, ServerInv, ServerHasIrp, Serving
<1>2. /\ \A d \in Irps : pc'[d] = IF d = c THEN "removing" ELSE pc[d]
      /\ \A i : Has(finished', i) <=> Has(finished, i) \/ i = current[c]
      /\ UNCHANGED <<device_queue, current>>
  BY <1>1, CompleteFinishes DEF ServerInv, TypeOK, CompleteIrp
<1>3. \A i \in Irps : /\ completions[i] \in Nat
                      /\ completions'[i] = IF i = current[c] THEN completions[i] + 1
                                           ELSE completions[i]
  BY <1>1 DEF ServerInv, TypeOK, CompleteIrp, Complete
<1>4. \A i \in Irps : Served(i) => Served(i)' \/ i = current[c]
  BY <1>1, <1>2 DEF Served
<1> QED BY <1>1, <1>2, <1>3, <1>4 DEF LostInv

LEMMA RemoveKeeps ==
    ASSUME ServerInv, LostInv, NEW c \in Irps, RemoveDeviceQueue(c) PROVE LostInv'
<1>1. pc[c] = "removing" /\ device_queue \in Seq(Irps) /\ UNCHANGED <<finished, completions>>
  BY DEF RemoveDeviceQueue, ServerInv, TypeOK
<1>2. CASE device_queue = <<>>
  <2>1. /\ \A d \in Irps : pc'[d] = IF d = c THEN "returned" ELSE pc[d]
        /\ \A d \in Irps : d # c => current'[d] = current[d]
        /\ UNCHANGED device_queue
    BY <1>2 DEF ServerInv, TypeOK, RemoveDeviceQueue
  <2>2. \A i \in Irps : Served(i) => Served(i)'
    BY <1>1, <2>1 DEF Served
  <2> QED BY <1>1, <2>1, <2>2 DEF LostInv
<1>3. CASE device_queue # <<>>
  <2> DEFINE q == device_queue
  <2>1. /\ \A d \in Irps : pc'[d] = IF d = c THEN "waiting" ELSE pc[d]
        /\ \A d \in Irps : current'[d] = IF d = c THEN Head(q) ELSE current[d]
        /\ device_queue' = Tail(q)
    BY <1>3 DEF ServerInv, TypeOK, RemoveDeviceQueue
  <2>2. /\ Len(q) \in Nat /\ Len(q) > 0 /\ Head(q) = q[1]
        /\ Len(Tail(q)) = Len(q) - 1
        /\ \A k \in 1..Len(Tail(q)) : Tail(q)[k] = q[k + 1]
    BY <1>1, <1>3, HeadTailProperties
  <2>3. \A i \in Irps : Has(q, i) => i = q[1] \/ Has(Tail(q), i)
    <3> SUFFICES ASSUME NEW k \in 1..Len(q), k # 1 PROVE Has(Tail(q), q[k])
      BY DEF Has
    <3>1. k - 1 \in 1..Len(Tail(q)) /\ Tail(q)[k - 1] = q[(k - 1) + 1]
      BY <2>2
    <3> QED BY <3>1 DEF Has
  <2>4. \A i \in Irps : i = q[1] => Served(i)'
    <3>1. pc'[c] = "waiting" /\ current'[c] = q[1]
      BY <2>1, <2>2
    <3> QED BY <3>1 DEF Served
  <2>5. \A i \in Irps : Served(i) => Served(i)'
    BY <1>1, <2>1 DEF Served
  <2> QED BY <1>1, <2>1, <2>3, <2>4, <2>5 DEF LostInv
<1> QED BY <1>2, <1>3

(* A read that was handed to the queue is completed, or in the hands of    *)
(* the call that runs MyStartIo, or waits in the queue while there is such *)
(* a call, for any number of reads and cancellations.                      *)
THEOREM NoneLostAlways == Spec => []NoneLost
<1>1. Init => LostInv
  BY DEF Init, LostInv, Has
<1>2. ASSUME ServerInv, LostInv, [Next]_vars PROVE LostInv'
  <2>1. CASE UNCHANGED vars
    BY <1>2, <2>1 DEF LostInv, Served, vars
  <2>2. ASSUME NEW i \in Irps, IoCancelIrp(i) PROVE LostInv'
    <3>1. UNCHANGED <<pc, current, device_queue, finished, completions>>
      BY <2>2 DEF IoCancelIrp
    <3> QED BY <1>2, <3>1 DEF LostInv, Served
  <2>3. ASSUME NEW i \in Irps, OnCancelIRP(i) PROVE LostInv'
    <3>1. UNCHANGED <<pc, current, device_queue, finished>>
      BY <2>3 DEF OnCancelIRP
    <3>2. \A d \in Irps : completions[d] > 0 => completions'[d] > 0
      BY <1>2, <2>3 DEF ServerInv, TypeOK, OnCancelIRP, Complete
    <3> QED BY <1>2, <3>1, <3>2 DEF LostInv, Served
  <2>4. ASSUME NEW c \in Irps, MarkPending(c) PROVE LostInv'
    <3>1. /\ \A d \in Irps : pc'[d] = IF d = c THEN "marked" ELSE pc[d]
          /\ pc[c] = "called" /\ UNCHANGED <<finished, device_queue, current, completions>>
      BY <1>2, <2>4 DEF ServerInv, TypeOK, MarkPending
    <3>2. \A i \in Irps : Served(i) => Served(i)'
      BY <3>1 DEF Served
    <3> QED BY <1>2, <3>1, <3>2 DEF LostInv
  <2> QED BY <1>2, <2>1, <2>2, <2>3, <2>4, InsertKeeps, CompleteKeeps, RemoveKeeps DEF Next, Call
<1>3. ServerInv /\ LostInv => NoneLost
  <2> SUFFICES ASSUME ServerInv, LostInv, NEW i \in Irps, Has(device_queue, i)
               PROVE  \E c \in Irps : Serving(c)
    BY DEF LostInv, NoneLost
  <2>1. device_queue # <<>>
    BY DEF Has
  <2> QED BY <2>1 DEF ServerInv, OneServer
<1> QED BY <1>1, <1>2, <1>3, InitServerInv, NextServerInv, PTL DEF Spec

-----------------------------------------------------------------------------
(* The refinement of SerialDevice.  The backlog is the IRP the one server  *)
(* is working on, if any, followed by the device queue.                    *)

BacklogIs ==
    /\ \A c \in Irps : pc[c] = "waiting" => Backlog = <<current[c]>> \o device_queue
    /\ (\A c \in Irps : pc[c] # "waiting") => Backlog = device_queue

LEMMA BacklogValue == ServerInv => BacklogIs
<1> SUFFICES ASSUME ServerInv PROVE BacklogIs
  OBVIOUS
<1>1. ASSUME NEW c \in Irps, pc[c] = "waiting"
      PROVE  Backlog = <<current[c]>> \o device_queue
  <2>1. \A d \in Irps : pc[d] = "waiting" => d = c
    BY <1>1 DEF ServerInv, OneServer, Serving
  <2>2. (CHOOSE d \in Irps : pc[d] = "waiting") = c
    BY <1>1, <2>1
  <2> QED BY <1>1, <2>2 DEF Backlog
<1>2. (\A c \in Irps : pc[c] # "waiting") => Backlog = device_queue
  BY DEF Backlog
<1> QED BY <1>1, <1>2 DEF BacklogIs

LEMMA ConsFacts ==
    ASSUME NEW x \in Irps, NEW y \in Irps, NEW q \in Seq(Irps)
    PROVE  /\ <<x>> \o q # <<>>
           /\ Head(<<x>> \o q) = x
           /\ Tail(<<x>> \o q) = q
           /\ Append(<<x>> \o q, y) = <<x>> \o Append(q, y)
           /\ <<x>> \o <<>> = Append(<<>>, x)
<1>1. <<x>> \in Seq(Irps) /\ Len(<<x>>) = 1 /\ <<x>>[1] = x
  OBVIOUS
<1>2. /\ <<x>> \o q \in Seq(Irps) /\ Len(<<x>> \o q) = 1 + Len(q) /\ Len(q) \in Nat
      /\ (<<x>> \o q)[1] = x
      /\ \A i \in 1..Len(q) : (<<x>> \o q)[i + 1] = q[i]
  BY <1>1, ConcatProperties
<1>3. <<x>> \o q # <<>>
  BY <1>2
<1>4. Head(<<x>> \o q) = x
  BY <1>2, <1>3
<1>5. Tail(<<x>> \o q) = q
  <2>1. /\ Tail(<<x>> \o q) \in Seq(Irps) /\ Len(Tail(<<x>> \o q)) = Len(q)
        /\ \A i \in 1..Len(q) : Tail(<<x>> \o q)[i] = (<<x>> \o q)[i + 1]
    BY <1>2, <1>3, HeadTailProperties
  <2> QED BY <1>2, <2>1, SeqEqual
<1>6. Append(<<x>> \o q, y) = <<x>> \o Append(q, y)
  <2>1. <<y>> \in Seq(Irps)
    OBVIOUS
  <2> QED BY <1>1, <1>2, <2>1, AppendIsConcat, ConcatAssociative
<1>7. <<x>> \o <<>> = Append(<<>>, x)
  BY <1>1, AppendIsConcat, ConcatEmptySeq, EmptySeq
<1> QED BY <1>3, <1>4, <1>5, <1>6, <1>7

LEMMA ConsHeadTail ==
    ASSUME NEW q \in Seq(Irps), q # <<>> PROVE <<Head(q)>> \o Tail(q) = q
<1>1. Head(q) \in Irps /\ Tail(q) \in Seq(Irps) /\ Len(Tail(q)) = Len(q) - 1
      /\ \A i \in 1..Len(Tail(q)) : Tail(q)[i] = q[i + 1]
  BY HeadTailProperties
<1>2. Len(q) \in Nat /\ Head(q) = q[1] /\ <<Head(q)>> \in Seq(Irps)
      /\ Len(<<Head(q)>>) = 1 /\ <<Head(q)>>[1] = q[1]
  BY <1>1
<1>3. /\ <<Head(q)>> \o Tail(q) \in Seq(Irps)
      /\ Len(<<Head(q)>> \o Tail(q)) = Len(q)
      /\ \A i \in 1..Len(q) : (<<Head(q)>> \o Tail(q))[i] = q[i]
  BY <1>1, <1>2, ConcatProperties
<1> QED BY <1>3, SeqEqual

\* An insertion submits the IRP, whoever is to serve it.
LEMMA InsertRefines ==
    ASSUME ServerInv, BacklogIs, BacklogIs', NEW c \in Irps, InsertDeviceQueue(c)
    PROVE  Backlog' = Append(Backlog, c) /\ UNCHANGED finished
<1>0. pc[c] = "marked" /\ UNCHANGED finished /\ device_queue \in Seq(Irps)
  BY DEF InsertDeviceQueue, ServerInv, TypeOK
<1>1. CASE busy
  <2>1. /\ device_queue' = Append(device_queue, c) /\ UNCHANGED current
        /\ \A d \in Irps : pc'[d] = "waiting" <=> pc[d] = "waiting"
    BY <1>0, <1>1 DEF InsertDeviceQueue, ServerInv, TypeOK
  <2>2. CASE \A d \in Irps : pc[d] # "waiting"
    BY <1>0, <2>1, <2>2 DEF BacklogIs
  <2>3. ASSUME NEW d \in Irps, pc[d] = "waiting" PROVE Backlog' = Append(Backlog, c)
    <3>1. current[d] \in Irps
      BY <2>3 DEF ServerInv, ServerHasIrp, Serving
    <3>2. /\ Backlog = <<current[d]>> \o device_queue
          /\ Backlog' = <<current[d]>> \o Append(device_queue, c)
      BY <2>1, <2>3 DEF BacklogIs
    <3> QED BY <1>0, <3>1, <3>2, ConsFacts
  <2> QED BY <1>0, <2>2, <2>3
<1>2. CASE ~busy
  <2>1. device_queue = <<>> /\ \A d \in Irps : pc[d] # "waiting"
    BY <1>2 DEF ServerInv, OneServer, Serving
  <2>2. pc'[c] = "waiting" /\ current'[c] = c /\ UNCHANGED device_queue
    BY <1>2 DEF InsertDeviceQueue, ServerInv, TypeOK
  <2>3. Backlog = <<>> /\ Backlog' = <<c>> \o <<>>
    BY <2>1, <2>2 DEF BacklogIs
  <2> QED BY <1>0, <2>1, <2>3, ConsFacts
<1> QED BY <1>1, <1>2 DEF ServerInv, TypeOK

\* Completing the current IRP serves the head of the backlog.
LEMMA CompleteRefines ==
    ASSUME ServerInv, BacklogIs, BacklogIs', NEW c \in Irps, CompleteIrp(c)
    PROVE  Device!Serve
<1>1. pc[c] = "waiting" /\ current[c] \in Irps /\ device_queue \in Seq(Irps)
  BY DEF CompleteIrp, ServerInv, ServerHasIrp, Serving, TypeOK
<1>2. /\ \A d \in Irps : pc'[d] # "waiting"
      /\ UNCHANGED device_queue /\ finished' = Append(finished, current[c])
  BY <1>1 DEF CompleteIrp, ServerInv, TypeOK, OneServer, Serving
<1>3. Backlog = <<current[c]>> \o device_queue /\ Backlog' = device_queue
  BY <1>1, <1>2 DEF BacklogIs
<1> QED BY <1>1, <1>2, <1>3, ConsFacts DEF Device!Serve

\* Taking the next IRP out of the queue is not visible: it stays in the backlog.
LEMMA RemoveRefines ==
    ASSUME ServerInv, BacklogIs, BacklogIs', NEW c \in Irps, RemoveDeviceQueue(c)
    PROVE  UNCHANGED <<Backlog, finished>>
<1>1. pc[c] = "removing" /\ UNCHANGED finished /\ device_queue \in Seq(Irps)
  BY DEF RemoveDeviceQueue, ServerInv, TypeOK
<1>2. \A d \in Irps : pc[d] # "waiting"
  BY <1>1 DEF ServerInv, OneServer, Serving
<1>3. CASE device_queue = <<>>
  <2>1. (\A d \in Irps : pc'[d] # "waiting") /\ UNCHANGED device_queue
    BY <1>2, <1>3 DEF RemoveDeviceQueue, ServerInv, TypeOK
  <2> QED BY <1>1, <1>2, <2>1 DEF BacklogIs
<1>4. CASE device_queue # <<>>
  <2>1. /\ pc'[c] = "waiting" /\ current'[c] = Head(device_queue)
        /\ device_queue' = Tail(device_queue)
    BY <1>4 DEF RemoveDeviceQueue, ServerInv, TypeOK
  <2>2. Backlog = device_queue /\ Backlog' = <<Head(device_queue)>> \o Tail(device_queue)
    BY <1>2, <2>1 DEF BacklogIs
  <2> QED BY <1>1, <1>4, <2>2, ConsHeadTail
<1> QED BY <1>3, <1>4

LEMMA StepRefines ==
    ASSUME ServerInv, BacklogIs, BacklogIs', [Next]_vars
    PROVE  [Device!Next]_<<Backlog, finished>>
<1>1. ASSUME NEW c \in Irps, MarkPending(c) PROVE UNCHANGED <<Backlog, finished>>
  <2>1. /\ \A d \in Irps : pc'[d] = "waiting" <=> pc[d] = "waiting"
        /\ UNCHANGED <<current, device_queue, finished>>
    BY <1>1 DEF MarkPending, ServerInv, TypeOK
  <2> QED BY <2>1 DEF BacklogIs
<1>2. ASSUME NEW i \in Irps, IoCancelIrp(i) \/ OnCancelIRP(i)
      PROVE  UNCHANGED <<Backlog, finished>>
  <2>1. UNCHANGED <<pc, current, device_queue, finished>>
    BY <1>2 DEF IoCancelIrp, OnCancelIRP
  <2> QED BY <2>1 DEF Backlog
<1>3. CASE UNCHANGED vars
  BY <1>3 DEF vars, Backlog
<1>4. ASSUME NEW c \in Irps, InsertDeviceQueue(c) PROVE Device!Submit(c)
  BY <1>4, InsertRefines DEF Device!Submit
<1>5. ASSUME NEW c \in Irps, CompleteIrp(c) PROVE Device!Serve
  BY <1>5, CompleteRefines
<1>6. ASSUME NEW c \in Irps, RemoveDeviceQueue(c) PROVE UNCHANGED <<Backlog, finished>>
  BY <1>6, RemoveRefines
<1> QED BY <1>1, <1>2, <1>3, <1>4, <1>5, <1>6 DEF Next, Call, Device!Next

(* The cooperating callers are a serial device: reads are finished one at  *)
(* a time, in the order in which they were inserted, with and without      *)
(* cancellation, up to the first double completion.                        *)
THEOREM RefinesSerialDevice == Spec => ImplementsSerialDevice
<1>1. Init => Device!Init
  BY DEF Init, Device!Init, Backlog
<1> QED BY <1>1, InitServerInv, NextServerInv, BacklogValue, StepRefines, PTL
        DEF Spec, ImplementsSerialDevice, Device!Spec
=============================================================================
