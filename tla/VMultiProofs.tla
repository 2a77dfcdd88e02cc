---------------------------- MODULE VMultiProofs ----------------------------
(* Proofs about VMulti, for any set of requests, packets and modes.        *)
EXTENDS VMulti, SequenceTheorems, TLAPS

-----------------------------------------------------------------------------
(* What the handlers compute from their packets is well typed.             *)

LEMMA PacketFacts ==
    ASSUME NEW p \in Packets
    PROVE  p \in PacketType /\ p.reportLength \in Nat /\ p.outputLen \in Nat /\ p.mode \in Modes
BY VMultiAssumption DEF PacketType

LEMMA WriteStatusType == \A p : WriteStatus(p) \in Statuses
BY DEF WriteStatus, Statuses

LEMMA FeatureStatusType == \A p : XferStatus(p, IsFeatureReport(p)) \in Statuses
BY DEF XferStatus, Statuses

LEMMA SizeFacts == \A s \in Sizes : SizeOf[s] \in Nat
BY VMultiAssumption

LEMMA ConstantReplyType ==
    ASSUME NEW p \in Packets
    PROVE  ConstantReply(p).s \in Statuses /\ ConstantReply(p).n \in Nat
<1>1. p.outputLen \in Nat /\ p.stringId \in StringIds
  BY VMultiAssumption DEF PacketType
<1>2. VMultiGetString(p).s \in Statuses /\ VMultiGetString(p).n \in Nat
  BY <1>1 DEF VMultiGetString, CopyOut, Statuses
<1>3. ASSUME NEW need, NEW bytes \in Nat
      PROVE  CopyOut(p, need, bytes).s \in Statuses /\ CopyOut(p, need, bytes).n \in Nat
  BY DEF CopyOut, Statuses
<1>4. {"HidDescriptor", "ReportDescriptor", "DeviceAttributes"} \subseteq Sizes
  BY DEF Sizes
<1>5. [s |-> "NOT_SUPPORTED", n |-> 0].s \in Statuses /\ [s |-> "NOT_SUPPORTED", n |-> 0].n \in Nat
  BY DEF Statuses
<1> QED BY <1>2, <1>3, <1>4, <1>5, SizeFacts DEF ConstantReply

-----------------------------------------------------------------------------
(* Ownership.  Which requests can be where, and in which order a request   *)
(* goes through the driver: what makes ReadOwnership and CompletedOnce     *)
(* inductive.                                                              *)
Roles ==
    /\ \A r \in Requests : pc[r] \in {"queued", "taken"} => IsRead(r)
    /\ \A r \in Requests : pc[r] \in {"matching", "holding"} => IsWrite(r)

OwnershipInv == TypeOK /\ ReadOwnership /\ CompletedOnce /\ Roles

LEMMA InitOwnership == Init => OwnershipInv
<1> SUFFICES ASSUME Init PROVE OwnershipInv
  OBVIOUS
<1>1. /\ params \in [Requests -> Packets] /\ accepting \in BOOLEAN /\ DeviceMode \in Modes
      /\ ReportQueue \in Seq(Requests) /\ delivered \in Seq(Requests)
      /\ arrived \in Seq(Requests)
  BY VMultiAssumption DEF Init
<1>2. /\ pc \in [Requests -> Locations] /\ status \in [Requests -> Statuses]
      /\ information \in [Requests -> Nat] /\ completions \in [Requests -> Nat]
      /\ buffer \in [Requests -> Requests \cup Modes \cup {None}]
      /\ reqRead \in [Requests -> Requests \cup {None}]
      /\ earlier \in [Requests -> SUBSET Requests]
      /\ parked \in [Requests -> SUBSET Requests]
  BY DEF Init, Locations, Statuses
<1>3. ReadOwnership
  BY DEF Init, ReadOwnership, ParkedOnce, ParkedIsQueued, HoldersHold, HeldByOne
<1>4. CompletedOnce /\ Roles
  BY DEF Init, CompletedOnce, Roles
<1> QED BY <1>1, <1>2, <1>3, <1>4 DEF OwnershipInv, TypeOK

\* A handler that only replies to its own request disturbs nothing else.
LEMMA ReplyOwnership ==
    ASSUME OwnershipInv, NEW r \in Requests, NEW s \in Statuses, NEW n \in Nat,
           pc[r] \in {"dispatched", "matching"}, Reply(r, s, n),
           UNCHANGED <<params, reqRead, ReportQueue, accepting, completions, history>>,
           DeviceMode' \in Modes,
           buffer' \in [Requests -> Requests \cup Modes \cup {None}]
    PROVE  OwnershipInv'
<1> USE DEF OwnershipInv
<1>1. /\ \A q \in Requests : pc'[q] = IF q = r THEN "replying" ELSE pc[q]
      /\ pc' \in [Requests -> Locations] /\ status' \in [Requests -> Statuses]
      /\ information' \in [Requests -> Nat]
  BY DEF Reply, TypeOK, Locations
<1>2. TypeOK'
  BY <1>1 DEF TypeOK, history
<1>3. ParkedOnce' /\ HeldByOne'
  BY DEF ReadOwnership, ParkedOnce, HeldByOne
<1>4. ParkedIsQueued'
  BY <1>1 DEF ReadOwnership, ParkedIsQueued
<1>5. HoldersHold'
  BY <1>1 DEF ReadOwnership, HoldersHold
<1>6. CompletedOnce'
  BY <1>1 DEF CompletedOnce
<1>7. Roles'
  BY <1>1 DEF Roles, IsRead, IsWrite, Ioctl
<1> QED BY <1>2, <1>3, <1>4, <1>5, <1>6, <1>7 DEF ReadOwnership

LEMMA DispatchOwnership ==
    ASSUME OwnershipInv, NEW r \in Requests, Dispatch(r) PROVE OwnershipInv'
<1> USE DEF OwnershipInv
<1>1. /\ pc[r] = "created" /\ \A q \in Requests : pc'[q] = IF q = r THEN "dispatched" ELSE pc[q]
      /\ pc' \in [Requests -> Locations]
      /\ earlier' \in [Requests -> SUBSET Requests] /\ parked' \in [Requests -> SUBSET Requests]
  BY DEF Dispatch, TypeOK, Locations
<1>2. TypeOK'
  BY <1>1 DEF TypeOK, Dispatch
<1>3. ReadOwnership'
  <2>1. UNCHANGED <<ReportQueue, reqRead>>
    BY DEF Dispatch
  <2>2. ParkedOnce' /\ HeldByOne'
    BY <2>1 DEF ReadOwnership, ParkedOnce, HeldByOne
  <2>3. ParkedIsQueued'
    BY <1>1, <2>1 DEF ReadOwnership, ParkedIsQueued
  <2>4. HoldersHold'
    BY <1>1, <2>1 DEF ReadOwnership, HoldersHold
  <2> QED BY <2>2, <2>3, <2>4 DEF ReadOwnership
<1>4. CompletedOnce' /\ Roles'
  BY <1>1 DEF CompletedOnce, Roles, Dispatch, IsRead, IsWrite, Ioctl
<1> QED BY <1>2, <1>3, <1>4

LEMMA CompleteOwnership ==
    ASSUME OwnershipInv, NEW r \in Requests, CompleteRequest(r) PROVE OwnershipInv'
<1> USE DEF OwnershipInv
<1>1. /\ pc[r] = "replying" /\ \A q \in Requests : pc'[q] = IF q = r THEN "done" ELSE pc[q]
      /\ \A q \in Requests : completions'[q] = IF q = r THEN completions[q] + 1 ELSE completions[q]
      /\ pc' \in [Requests -> Locations] /\ completions' \in [Requests -> Nat]
  BY DEF CompleteRequest, TypeOK, Locations
<1>2. TypeOK'
  BY <1>1 DEF TypeOK, CompleteRequest, history
<1>3. ReadOwnership'
  <2>1. UNCHANGED <<ReportQueue, reqRead>>
    BY DEF CompleteRequest
  <2>2. ParkedOnce' /\ HeldByOne'
    BY <2>1 DEF ReadOwnership, ParkedOnce, HeldByOne
  <2>3. ParkedIsQueued'
    BY <1>1, <2>1 DEF ReadOwnership, ParkedIsQueued
  <2>4. HoldersHold'
    BY <1>1, <2>1 DEF ReadOwnership, HoldersHold
  <2> QED BY <2>2, <2>3, <2>4 DEF ReadOwnership
<1>4. CompletedOnce'
  BY <1>1 DEF CompletedOnce, CompleteRequest
<1>5. Roles'
  BY <1>1 DEF Roles, CompleteRequest, IsRead, IsWrite, Ioctl
<1> QED BY <1>2, <1>3, <1>4, <1>5

LEMMA ReadReportOwnership ==
    ASSUME OwnershipInv, NEW r \in Requests, VMultiReadReport(r) PROVE OwnershipInv'
<1> USE DEF OwnershipInv
<1>1. CASE ~accepting
  <2>1. "WDF_BUSY" \in Statuses
    BY DEF Statuses
  <2> QED BY <1>1, <2>1, ReplyOwnership DEF VMultiReadReport, TypeOK, history
<1>2. CASE accepting
  <2> DEFINE q == ReportQueue
  <2>1. /\ pc[r] = "dispatched" /\ IsRead(r)
        /\ \A d \in Requests : pc'[d] = IF d = r THEN "queued" ELSE pc[d]
        /\ ReportQueue' = Append(q, r) /\ arrived' = Append(arrived, r)
        /\ UNCHANGED <<params, status, information, buffer, reqRead, accepting,
                       DeviceMode, completions, earlier, parked, delivered>>
        /\ pc' \in [Requests -> Locations]
    BY <1>2 DEF VMultiReadReport, TypeOK, Locations
  <2>2. /\ q \in Seq(Requests) /\ arrived \in Seq(Requests)
    BY DEF TypeOK
  <2>3. /\ ReportQueue' \in Seq(Requests) /\ arrived' \in Seq(Requests)
        /\ Len(ReportQueue') = Len(q) + 1 /\ Len(q) \in Nat
        /\ \A i \in 1..Len(q) : ReportQueue'[i] = q[i]
        /\ ReportQueue'[Len(q) + 1] = r
    BY <2>1, <2>2, AppendProperties
  <2>4. \A i \in 1..Len(ReportQueue') :
          \/ i \in 1..Len(q) /\ ReportQueue'[i] = q[i] /\ q[i] # r
          \/ i = Len(q) + 1 /\ ReportQueue'[i] = r
    BY <2>1, <2>3 DEF ReadOwnership, ParkedIsQueued
  <2>5. TypeOK'
    BY <2>1, <2>3 DEF TypeOK
  <2>6. ParkedOnce'
    BY <2>4 DEF ReadOwnership, ParkedOnce
  <2>7. ParkedIsQueued'
    <3>1. \A i \in 1..Len(q) : i \in 1..Len(ReportQueue')
      BY <2>3
    <3>2. Len(q) + 1 \in 1..Len(ReportQueue')
      BY <2>3
    <3> QED BY <2>1, <2>3, <2>4, <3>1, <3>2 DEF ReadOwnership, ParkedIsQueued
  <2>8. HoldersHold' /\ HeldByOne'
    BY <2>1 DEF ReadOwnership, HoldersHold, HeldByOne
  <2>9. CompletedOnce' /\ Roles'
    BY <2>1 DEF CompletedOnce, Roles, IsRead, IsWrite, Ioctl
  <2> QED BY <2>5, <2>6, <2>7, <2>8, <2>9 DEF ReadOwnership
<1> QED BY <1>1, <1>2 DEF TypeOK

LEMMA WriteReportOwnership ==
    ASSUME OwnershipInv, NEW r \in Requests, VMultiWriteReport(r) PROVE OwnershipInv'
<1> USE DEF OwnershipInv
<1>1. CASE WriteStatus(params[r]) # "SUCCESS"
  BY <1>1, WriteStatusType, ReplyOwnership DEF VMultiWriteReport, TypeOK
<1>2. CASE WriteStatus(params[r]) = "SUCCESS"
  <2>1. /\ pc[r] = "dispatched" /\ IsWrite(r)
        /\ \A d \in Requests : pc'[d] = IF d = r THEN "matching" ELSE pc[d]
        /\ UNCHANGED <<params, status, information, buffer, reqRead, ReportQueue, accepting,
                       DeviceMode, completions, history>>
        /\ pc' \in [Requests -> Locations]
    BY <1>2 DEF VMultiWriteReport, TypeOK, Locations
  <2>2. TypeOK'
    BY <2>1 DEF TypeOK, history
  <2>3. ParkedOnce' /\ HeldByOne'
    BY <2>1 DEF ReadOwnership, ParkedOnce, HeldByOne
  <2>4. ParkedIsQueued'
    BY <2>1 DEF ReadOwnership, ParkedIsQueued
  <2>5. HoldersHold'
    BY <2>1 DEF ReadOwnership, HoldersHold
  <2>6. CompletedOnce' /\ Roles'
    BY <2>1 DEF CompletedOnce, Roles, IsRead, IsWrite, Ioctl
  <2> QED BY <2>2, <2>3, <2>4, <2>5, <2>6 DEF ReadOwnership
<1> QED BY <1>1, <1>2

\* The read at the head of the queue passes from the queue to the write.
LEMMA RetrieveOwnership ==
    ASSUME OwnershipInv, NEW w \in Requests, RetrieveNextRequest(w) PROVE OwnershipInv'
<1> USE DEF OwnershipInv
<1>1. CASE ReportQueue = <<>>
  <2>1. "NO_MORE_ENTRIES" \in Statuses
    BY DEF Statuses
  <2> QED BY <1>1, <2>1, ReplyOwnership DEF RetrieveNextRequest, TypeOK
<1>2. CASE ReportQueue # <<>>
  <2> DEFINE q == ReportQueue
             h == Head(q)
  <2>1. /\ q \in Seq(Requests) /\ h \in Requests /\ Tail(q) \in Seq(Requests)
        /\ h = q[1] /\ Len(q) \in Nat /\ Len(q) > 0 /\ Len(Tail(q)) = Len(q) - 1
        /\ \A i \in 1..Len(Tail(q)) : Tail(q)[i] = q[i + 1]
    BY <1>2, HeadTailProperties DEF TypeOK
  <2>2. pc[h] = "queued" /\ pc[w] = "matching" /\ h # w
    BY <2>1 DEF RetrieveNextRequest, ReadOwnership, ParkedIsQueued
  <2>3. /\ \A d \in Requests : pc'[d] = IF d = h THEN "taken"
                                       ELSE IF d = w THEN "holding" ELSE pc[d]
        /\ \A d \in Requests : reqRead'[d] = IF d = w THEN h ELSE reqRead[d]
        /\ ReportQueue' = Tail(q)
        /\ pc' \in [Requests -> Locations]
        /\ reqRead' \in [Requests -> Requests \cup {None}]
        /\ UNCHANGED <<params, status, information, buffer, accepting, DeviceMode,
                       completions, history>>
    <3>1. /\ pc' = [pc EXCEPT ![w] = "holding", ![h] = "taken"]
          /\ reqRead' = [reqRead EXCEPT ![w] = h]
          /\ ReportQueue' = Tail(q)
          /\ UNCHANGED <<params, status, information, buffer, accepting, DeviceMode,
                         completions, history>>
      BY <1>2 DEF RetrieveNextRequest
    <3>2. pc \in [Requests -> Locations] /\ reqRead \in [Requests -> Requests \cup {None}]
      BY DEF TypeOK
    <3>3. \A d \in Requests : pc'[d] = IF d = h THEN "taken"
                                        ELSE IF d = w THEN "holding" ELSE pc[d]
      BY <3>1, <3>2, <2>1, <2>2
    <3>4. \A d \in Requests : reqRead'[d] = IF d = w THEN h ELSE reqRead[d]
      BY <3>1, <3>2
    <3>5. pc' \in [Requests -> Locations]
      BY <3>1, <3>2, <2>1 DEF Locations
    <3>6. reqRead' \in [Requests -> Requests \cup {None}]
      BY <3>1, <3>2, <2>1
    <3> QED BY <3>1, <3>3, <3>4, <3>5, <3>6
  <2>4. TypeOK'
    BY <2>1, <2>3 DEF TypeOK, history
  <2>5. \A i \in 1..Len(Tail(q)) : i + 1 \in 1..Len(q) /\ i + 1 # 1 /\ Tail(q)[i] = q[i + 1]
    BY <2>1
  <2>6. ParkedOnce'
    BY <2>3, <2>5 DEF ReadOwnership, ParkedOnce
  <2>7. ParkedIsQueued'
    <3>1. \A i \in 1..Len(q) : q[i] = h => i = 1
      BY <2>1 DEF ReadOwnership, ParkedOnce
    <3>2. \A i \in 1..Len(q) : i # 1 => i - 1 \in 1..Len(Tail(q)) /\ Tail(q)[i - 1] = q[i]
      BY <2>1
    <3>3. \A d \in Requests : d # h =>
             (pc[d] = "queued" <=> \E i \in 1..Len(Tail(q)) : Tail(q)[i] = d)
      BY <2>1, <2>5, <3>1, <3>2 DEF ReadOwnership, ParkedIsQueued
    <3>4. \A i \in 1..Len(Tail(q)) : Tail(q)[i] # h
      BY <2>5, <3>1
    <3> QED BY <2>2, <2>3, <3>3, <3>4, ZenonT(60) DEF ParkedIsQueued
  <2>8. \A d \in Requests : reqRead[d] # h
    <3>1. h # None
      BY <2>1, VMultiAssumption
    <3> QED BY <2>2, <3>1 DEF ReadOwnership, HoldersHold
  <2>9. HoldersHold'
    BY <2>1, <2>2, <2>3 DEF ReadOwnership, HoldersHold
  <2>10. HeldByOne'
    BY <2>2, <2>3, <2>8 DEF ReadOwnership, HeldByOne
  <2>11. CompletedOnce'
    BY <2>2, <2>3 DEF CompletedOnce
  <2>12. Roles'
    BY <2>2, <2>3 DEF Roles, IsRead, IsWrite, Ioctl
  <2> QED BY <2>4, <2>6, <2>7, <2>9, <2>10, <2>11, <2>12 DEF ReadOwnership
<1> QED BY <1>1, <1>2

\* The read a write holds is completed by it, or left where it is.
LEMMA DeliverOwnership ==
    ASSUME OwnershipInv, NEW w \in Requests, DeliverReport(w) PROVE OwnershipInv'
<1> USE DEF OwnershipInv
<1> DEFINE read == reqRead[w]
<1>1. pc[w] = "holding" /\ read \in Requests /\ pc[read] = "taken" /\ read # w
  BY DEF DeliverReport, ReadOwnership, HoldersHold
<1>2. /\ \A d \in Requests : reqRead'[d] = IF d = w THEN None ELSE reqRead[d]
      /\ reqRead' \in [Requests -> Requests \cup {None}]
      /\ UNCHANGED <<params, ReportQueue, accepting, DeviceMode, earlier, parked, arrived>>
  BY DEF DeliverReport, TypeOK
<1>3. \A d \in Requests : d # w => reqRead[d] # read
  BY <1>1, VMultiAssumption DEF ReadOwnership, HeldByOne
<1>4. params[w].reportLength \in Nat
  BY PacketFacts DEF TypeOK
<1>5. CASE OutputBufferFits(read, w)
  <2> DEFINE n == params[w].reportLength
  <2>0. /\ buffer' = [buffer EXCEPT ![read] = w]
        /\ pc' = [pc EXCEPT ![w] = "replying", ![read] = "done"]
        /\ status' = [status EXCEPT ![w] = "SUCCESS", ![read] = "SUCCESS"]
        /\ information' = [information EXCEPT ![w] = n, ![read] = n]
        /\ completions' = [completions EXCEPT ![read] = @ + 1]
        /\ delivered' = Append(delivered, w)
    BY <1>5 DEF DeliverReport
  <2>1. /\ \A d \in Requests : pc'[d] = IF d = read THEN "done"
                                       ELSE IF d = w THEN "replying" ELSE pc[d]
        /\ \A d \in Requests : completions'[d] =
               IF d = read THEN completions[d] + 1 ELSE completions[d]
        /\ pc' \in [Requests -> Locations] /\ completions' \in [Requests -> Nat]
    <3>1. pc \in [Requests -> Locations] /\ completions \in [Requests -> Nat]
      BY DEF TypeOK
    <3>2. \A d \in Requests : pc'[d] = IF d = read THEN "done"
                                        ELSE IF d = w THEN "replying" ELSE pc[d]
      BY <1>1, <2>0, <3>1
    <3>3. pc' \in [Requests -> Locations]
      BY <2>0, <3>1 DEF Locations
    <3>4. \A d \in Requests : completions'[d] =
               IF d = read THEN completions[d] + 1 ELSE completions[d]
      BY <2>0, <3>1
    <3>5. completions' \in [Requests -> Nat]
      BY <1>1, <2>0, <3>1
    <3> QED BY <3>2, <3>3, <3>4, <3>5
  <2>2. /\ status' \in [Requests -> Statuses] /\ information' \in [Requests -> Nat]
        /\ buffer' \in [Requests -> Requests \cup Modes \cup {None}]
    <3>1. status' \in [Requests -> Statuses]
      BY <2>0 DEF TypeOK, Statuses
    <3>2. information' \in [Requests -> Nat]
      BY <1>4, <2>0 DEF TypeOK
    <3>3. buffer' \in [Requests -> Requests \cup Modes \cup {None}]
      BY <2>0 DEF TypeOK
    <3> QED BY <3>1, <3>2, <3>3
  <2>3. delivered' \in Seq(Requests)
    BY <2>0, AppendProperties DEF TypeOK
  <2>4. TypeOK'
    BY <1>2, <2>1, <2>2, <2>3 DEF TypeOK
  <2>5. ParkedOnce' /\ HeldByOne'
    BY <1>2 DEF ReadOwnership, ParkedOnce, HeldByOne
  <2>6. ParkedIsQueued'
    BY <1>1, <1>2, <2>1 DEF ReadOwnership, ParkedIsQueued
  <2>7. HoldersHold'
    BY <1>1, <1>2, <1>3, <2>1 DEF ReadOwnership, HoldersHold
  <2>8. CompletedOnce'
    BY <1>1, <2>1 DEF CompletedOnce
  <2>9. Roles'
    BY <1>1, <1>2, <2>1 DEF Roles, IsRead, IsWrite, Ioctl
  <2> QED BY <2>4, <2>5, <2>6, <2>7, <2>8, <2>9 DEF ReadOwnership
<1>6. CASE ~OutputBufferFits(read, w)
  <2>1. /\ \A d \in Requests : pc'[d] = IF d = w THEN "replying" ELSE pc[d]
        /\ UNCHANGED <<buffer, completions, delivered>>
        /\ pc' \in [Requests -> Locations]
    BY <1>6 DEF DeliverReport, Reply, TypeOK, Locations
  <2>2. status' \in [Requests -> Statuses] /\ information' \in [Requests -> Nat]
    <3>1. Reply(w, "BUFFER_TOO_SMALL", 0)
      BY <1>6 DEF DeliverReport
    <3> QED BY <3>1 DEF Reply, TypeOK, Statuses
  <2>4. TypeOK'
    BY <1>2, <2>1, <2>2 DEF TypeOK
  <2>5. ParkedOnce' /\ HeldByOne'
    BY <1>2 DEF ReadOwnership, ParkedOnce, HeldByOne
  <2>6. ParkedIsQueued'
    BY <1>1, <1>2, <2>1 DEF ReadOwnership, ParkedIsQueued
  <2>7. HoldersHold'
    BY <1>1, <1>2, <1>3, <2>1 DEF ReadOwnership, HoldersHold
  <2>8. CompletedOnce'
    BY <1>1, <2>1 DEF CompletedOnce
  <2>9. Roles'
    BY <1>1, <1>2, <2>1 DEF Roles, IsRead, IsWrite, Ioctl
  <2> QED BY <2>4, <2>5, <2>6, <2>7, <2>8, <2>9 DEF ReadOwnership
<1> QED BY <1>5, <1>6

LEMMA SetFeatureOwnership ==
    ASSUME OwnershipInv, NEW r \in Requests, VMultiSetFeature(r) PROVE OwnershipInv'
<1>1. DeviceMode' \in Modes
  BY PacketFacts DEF VMultiSetFeature, OwnershipInv, TypeOK
<1> QED BY <1>1, FeatureStatusType, ReplyOwnership
        DEF VMultiSetFeature, OwnershipInv, TypeOK

LEMMA GetFeatureOwnership ==
    ASSUME OwnershipInv, NEW r \in Requests, VMultiGetFeature(r) PROVE OwnershipInv'
<1>1. buffer' \in [Requests -> Requests \cup Modes \cup {None}]
  BY DEF VMultiGetFeature, OwnershipInv, TypeOK
<1>2. PICK s \in Statuses : Reply(r, s, 0)
  BY DEF VMultiGetFeature, XferStatus, Statuses
<1> QED BY <1>1, <1>2, ReplyOwnership DEF VMultiGetFeature, OwnershipInv, TypeOK

LEMMA ConstantOwnership ==
    ASSUME OwnershipInv, NEW r \in Requests, AnswerConstant(r) PROVE OwnershipInv'
<1>1. params[r] \in Packets
  BY DEF OwnershipInv, TypeOK
<1> QED BY <1>1, ConstantReplyType, ReplyOwnership DEF AnswerConstant, OwnershipInv, TypeOK

\* Cancelling takes one read out of the middle of the queue.
LEMMA WithoutIndexFacts ==
    ASSUME NEW S, NEW q \in Seq(S), NEW i \in 1..Len(q)
    PROVE  /\ WithoutIndex(q, i) \in Seq(S)
           /\ Len(WithoutIndex(q, i)) = Len(q) - 1
           /\ \A j \in 1..(Len(q) - 1) :
                 WithoutIndex(q, i)[j] = IF j < i THEN q[j] ELSE q[j + 1]
<1> DEFINE n == Len(q) - 1
           t == [j \in 1..n |-> IF j < i THEN q[j] ELSE q[j + 1]]
<1>1. n \in Nat /\ \A j \in 1..n : j \in 1..Len(q) /\ j + 1 \in 1..Len(q)
  BY LenProperties
<1>2. \A j \in 1..n : t[j] \in S
  BY <1>1, ElementOfSeq
<1>3. t \in [1..n -> S]
  BY <1>2
<1>4. t \in Seq(S) /\ Len(t) = n
  BY <1>1, <1>3, SeqDef, LenProperties
<1> QED BY <1>4 DEF WithoutIndex

LEMMA CancelOwnership ==
    ASSUME OwnershipInv, NEW r \in Requests, CancelQueued(r) PROVE OwnershipInv'
<1> USE DEF OwnershipInv
<1> DEFINE q == ReportQueue
<1>1. PICK i \in 1..Len(q) : q[i] = r /\ ReportQueue' = WithoutIndex(q, i)
  BY DEF CancelQueued
<1>2. q \in Seq(Requests) /\ Len(q) \in Nat
  BY LenProperties DEF TypeOK
<1>3. /\ ReportQueue' \in Seq(Requests) /\ Len(ReportQueue') = Len(q) - 1
      /\ \A j \in 1..(Len(q) - 1) : ReportQueue'[j] = IF j < i THEN q[j] ELSE q[j + 1]
  BY <1>1, <1>2, WithoutIndexFacts
<1>4. /\ pc[r] = "queued"
      /\ \A d \in Requests : pc'[d] = IF d = r THEN "done" ELSE pc[d]
      /\ \A d \in Requests : completions'[d] =
             IF d = r THEN completions[d] + 1 ELSE completions[d]
      /\ pc' \in [Requests -> Locations] /\ status' \in [Requests -> Statuses]
      /\ completions' \in [Requests -> Nat]
      /\ UNCHANGED <<params, information, buffer, reqRead, accepting, DeviceMode, history>>
  BY SMTT(40) DEF CancelQueued, TypeOK, Locations, Statuses
<1>5. TypeOK'
  BY <1>3, <1>4 DEF TypeOK, history
<1>6. \A j, k \in 1..Len(q) : q[j] = q[k] => j = k
  BY DEF ReadOwnership, ParkedOnce
<1>7. ParkedOnce'
  <2> SUFFICES ASSUME NEW j \in 1..(Len(q) - 1), NEW k \in 1..(Len(q) - 1),
                      ReportQueue'[j] = ReportQueue'[k]
               PROVE  j = k
    BY <1>3 DEF ParkedOnce
  <2>1. /\ j \in 1..Len(q) /\ j + 1 \in 1..Len(q)
        /\ k \in 1..Len(q) /\ k + 1 \in 1..Len(q)
    BY <1>2
  <2> QED BY <1>2, <1>3, <1>6, <2>1, SMTT(40)
<1>8. ParkedIsQueued'
  <2>1. \A j \in 1..(Len(q) - 1) :
           \E k \in 1..Len(q) : k # i /\ ReportQueue'[j] = q[k]
    <3> TAKE j \in 1..(Len(q) - 1)
    <3>1. j \in 1..Len(q) /\ j + 1 \in 1..Len(q)
      BY <1>2
    <3>2. CASE j < i
      BY <1>3, <3>1, <3>2
    <3>3. CASE ~(j < i)
      BY <1>3, <3>1, <3>3
    <3> QED BY <3>2, <3>3
  <2>2. \A k \in 1..Len(q) : k # i =>
           \E j \in 1..(Len(q) - 1) : ReportQueue'[j] = q[k]
    <3> SUFFICES ASSUME NEW k \in 1..Len(q), k # i
                 PROVE  \E j \in 1..(Len(q) - 1) : ReportQueue'[j] = q[k]
      OBVIOUS
    <3>1. CASE k < i
      <4>1. k \in 1..(Len(q) - 1) /\ ReportQueue'[k] = q[k]
        BY <1>2, <1>3, <3>1
      <4> QED BY <4>1
    <3>2. CASE k > i
      <4>1. k - 1 \in 1..(Len(q) - 1) /\ ~(k - 1 < i) /\ k - 1 + 1 = k
        BY <1>2, <3>2
      <4>2. ReportQueue'[k - 1] = q[k]
        BY <1>3, <4>1
      <4> QED BY <4>1, <4>2
    <3> QED BY <3>1, <3>2
  <2>3. \A d \in Requests : pc[d] = "queued" <=> \E k \in 1..Len(q) : q[k] = d
    BY DEF ReadOwnership, ParkedIsQueued
  <2>4. \A k \in 1..Len(q) : q[k] = r <=> k = i
    BY <1>1, <1>6
  <2>5. \A d \in Requests : pc'[d] = "queued" <=>
           \E j \in 1..(Len(q) - 1) : ReportQueue'[j] = d
    <3> TAKE d \in Requests
    <3>1. ASSUME pc'[d] = "queued"
          PROVE  \E j \in 1..(Len(q) - 1) : ReportQueue'[j] = d
      <4>1. d # r /\ pc[d] = "queued"
        BY <1>4, <3>1
      <4>2. PICK k \in 1..Len(q) : q[k] = d
        BY <2>3, <4>1
      <4>3. k # i
        BY <4>1, <4>2, <2>4
      <4> QED BY <2>2, <4>2, <4>3
    <3>2. ASSUME NEW j \in 1..(Len(q) - 1), ReportQueue'[j] = d
          PROVE  pc'[d] = "queued"
      <4>1. PICK k \in 1..Len(q) : k # i /\ d = q[k]
        BY <2>1, <3>2
      <4>2. d # r /\ pc[d] = "queued"
        BY <2>3, <2>4, <4>1
      <4> QED BY <1>4, <4>2
    <3> QED BY <3>1, <3>2
  <2> QED BY <1>3, <2>5 DEF ParkedIsQueued
<1>9. HoldersHold' /\ HeldByOne'
  BY <1>4 DEF ReadOwnership, HoldersHold, HeldByOne
<1>10. CompletedOnce'
  BY <1>4 DEF CompletedOnce
<1>11. Roles'
  BY <1>4 DEF Roles, IsRead, IsWrite, Ioctl
<1> QED BY <1>5, <1>7, <1>8, <1>9, <1>10, <1>11 DEF ReadOwnership

LEMMA PurgeOwnership ==
    ASSUME OwnershipInv, PurgeQueues PROVE OwnershipInv'
<1> USE DEF OwnershipInv
<1>1. /\ \A d \in Requests : pc'[d] = IF pc[d] = "queued" THEN "done" ELSE pc[d]
      /\ \A d \in Requests : completions'[d] =
             IF pc[d] = "queued" THEN completions[d] + 1 ELSE completions[d]
      /\ ReportQueue' = <<>> /\ accepting' = FALSE
      /\ UNCHANGED <<params, information, buffer, reqRead, DeviceMode, history>>
  BY DEF PurgeQueues
<1>2. /\ pc' \in [Requests -> Locations]
      /\ completions' \in [Requests -> Nat]
      /\ status' \in [Requests -> Statuses]
  BY DEF PurgeQueues, TypeOK, Locations, Statuses
<1>3. ReportQueue' \in Seq(Requests) /\ Len(ReportQueue') = 0
  BY <1>1
<1>4. TypeOK'
  BY <1>1, <1>2, <1>3 DEF TypeOK, history
<1>5. ParkedOnce'
  BY <1>3 DEF ParkedOnce
<1>6. ParkedIsQueued'
  BY <1>1, <1>3 DEF ParkedIsQueued
<1>7. HoldersHold' /\ HeldByOne'
  BY <1>1 DEF ReadOwnership, HoldersHold, HeldByOne
<1>8. CompletedOnce'
  BY <1>1 DEF CompletedOnce
<1>9. Roles'
  BY <1>1 DEF Roles, IsRead, IsWrite, Ioctl
<1> QED BY <1>4, <1>5, <1>6, <1>7, <1>8, <1>9 DEF ReadOwnership

LEMMA NextOwnership == OwnershipInv /\ [Next]_vars => OwnershipInv'
<1> SUFFICES ASSUME OwnershipInv, [Next]_vars PROVE OwnershipInv'
  OBVIOUS
<1>1. ASSUME NEW r \in Requests, Dispatch(r) \/ Handler(r) \/ CancelQueued(r)
      PROVE  OwnershipInv'
  BY <1>1, DispatchOwnership, CompleteOwnership, ReadReportOwnership, WriteReportOwnership,
     RetrieveOwnership, DeliverOwnership, SetFeatureOwnership, GetFeatureOwnership,
     ConstantOwnership, CancelOwnership DEF Handler
<1>2. CASE UNCHANGED vars
  BY <1>2 DEF vars, history, OwnershipInv, TypeOK, ReadOwnership, ParkedOnce,
              ParkedIsQueued, HoldersHold, HeldByOne, CompletedOnce, Roles, IsRead, IsWrite, Ioctl
<1> QED BY <1>1, <1>2, PurgeOwnership DEF Next

LEMMA OwnershipAlways == Spec => []OwnershipInv
BY InitOwnership, NextOwnership, PTL DEF Spec

(* Every variable of the minidriver keeps its type.                        *)
THEOREM TypeCorrect == Spec => []TypeOK
<1>1. OwnershipInv => TypeOK
  BY DEF OwnershipInv
<1> QED BY <1>1, OwnershipAlways, PTL

(* However the handlers of any number of requests interleave, a parked     *)
(* read is in exactly one place and held by at most one write.             *)
THEOREM ReadOwnershipAlways == Spec => []ReadOwnership
<1>1. OwnershipInv => ReadOwnership
  BY DEF OwnershipInv
<1> QED BY <1>1, OwnershipAlways, PTL

(* No request is completed twice, by whichever of handler, matching write, *)
(* cancellation and queue purge comes to complete it.                      *)
THEOREM CompletedOnceAlways == Spec => []CompletedOnce
<1>1. OwnershipInv => CompletedOnce
  BY DEF OwnershipInv
<1> QED BY <1>1, OwnershipAlways, PTL

-----------------------------------------------------------------------------
(* What reads and writes bring to each other: who got whose report, in     *)
(* which order, and that all of it is the rendezvous of ReportPipe.        *)

(* Requests only move on: what a step can do to any one of them.           *)
Returned(d) == pc[d] \in {"replying", "done"}
Entered(d) == pc[d] \notin {"created", "dispatched"}

MovesOn(d) ==
    /\ Returned(d) => /\ pc'[d] \in {pc[d], "done"}
                      /\ status'[d] = status[d] /\ information'[d] = information[d]
                      /\ buffer'[d] = buffer[d]
    /\ Entered(d) => pc'[d] \notin {"created", "dispatched"}
    /\ pc[d] # "created" => /\ pc'[d] # "created"
                            /\ earlier'[d] = earlier[d] /\ parked'[d] = parked[d]
    /\ pc'[d] = "queued" => pc[d] \in {"dispatched", "queued"}
    /\ \A q \in earlier'[d] : q \in earlier[d] \/ pc[q] = "done"
    /\ \A q \in parked'[d] : q \in parked[d] \/ pc[q] = "queued"

\* A step that takes one request, not yet returned, to another place.
LEMMA MoveOne ==
    ASSUME TypeOK, NEW r \in Requests, NEW to,
           \A d \in Requests : pc'[d] = IF d = r THEN to ELSE pc[d],
           \/ pc[r] = "dispatched" /\ to # "created"
           \/ pc[r] \in {"queued", "taken", "matching", "holding"}
              /\ to \notin {"created", "dispatched", "queued"},
           \A d \in Requests : d # r => /\ status'[d] = status[d]
                                        /\ information'[d] = information[d]
                                        /\ buffer'[d] = buffer[d],
           UNCHANGED <<earlier, parked>>
    PROVE  \A d \in Requests : MovesOn(d)
BY DEF MovesOn, Returned, Entered, TypeOK

LEMMA ReplyMovesOn ==
    ASSUME TypeOK, NEW r \in Requests, NEW s, NEW n, Reply(r, s, n),
           pc[r] \in {"dispatched", "matching", "holding"},
           \A d \in Requests : d # r => buffer'[d] = buffer[d],
           UNCHANGED <<earlier, parked>>
    PROVE  \A d \in Requests : MovesOn(d)
BY MoveOne DEF Reply, TypeOK

LEMMA DispatchMovesOn ==
    ASSUME TypeOK, NEW r \in Requests, Dispatch(r)
    PROVE  \A d \in Requests : MovesOn(d)
<1>1. /\ pc[r] = "created" /\ \A d \in Requests : pc'[d] = IF d = r THEN "dispatched" ELSE pc[d]
      /\ \A d \in Requests :
            earlier'[d] = IF d = r THEN {q \in Requests : pc[q] = "done"} ELSE earlier[d]
      /\ \A d \in Requests :
            parked'[d] = IF d = r THEN {q \in Requests : pc[q] = "queued"} ELSE parked[d]
      /\ UNCHANGED <<status, information, buffer>>
  BY DEF Dispatch, TypeOK
<1> QED BY <1>1 DEF MovesOn, Returned, Entered

LEMMA CompleteMovesOn ==
    ASSUME TypeOK, NEW r \in Requests, CompleteRequest(r)
    PROVE  \A d \in Requests : MovesOn(d)
BY DEF CompleteRequest, history, MovesOn, Returned, Entered, TypeOK

LEMMA ReadReportMovesOn ==
    ASSUME TypeOK, NEW r \in Requests, VMultiReadReport(r)
    PROVE  \A d \in Requests : MovesOn(d)
<1>1. CASE accepting
  BY <1>1, MoveOne DEF VMultiReadReport, TypeOK
<1>2. CASE ~accepting
  BY <1>2, ReplyMovesOn DEF VMultiReadReport
<1> QED BY <1>1, <1>2

LEMMA WriteReportMovesOn ==
    ASSUME TypeOK, NEW r \in Requests, VMultiWriteReport(r)
    PROVE  \A d \in Requests : MovesOn(d)
<1>1. CASE WriteStatus(params[r]) = "SUCCESS"
  BY <1>1, MoveOne DEF VMultiWriteReport, history, TypeOK
<1>2. CASE WriteStatus(params[r]) # "SUCCESS"
  BY <1>2, ReplyMovesOn DEF VMultiWriteReport, history
<1> QED BY <1>1, <1>2

\* What RetrieveNextRequest does when it finds a read.
Taking(w, h) ==
    /\ pc[w] = "matching" /\ pc[h] = "queued" /\ h \in Requests
    /\ \A d \in Requests : pc'[d] = IF d = h THEN "taken"
                                    ELSE IF d = w THEN "holding" ELSE pc[d]
    /\ \A d \in Requests : reqRead'[d] = IF d = w THEN h ELSE reqRead[d]
    /\ UNCHANGED <<params, status, information, buffer, DeviceMode, history>>

LEMMA RetrieveTakes ==
    ASSUME OwnershipInv, NEW w \in Requests, RetrieveNextRequest(w), ReportQueue # <<>>
    PROVE  Taking(w, Head(ReportQueue))
<1> DEFINE h == Head(ReportQueue)
<1>1. /\ pc \in [Requests -> Locations] /\ reqRead \in [Requests -> Requests \cup {None}]
      /\ ReportQueue \in Seq(Requests)
  BY DEF OwnershipInv, TypeOK
<1>2. h \in Requests /\ h = ReportQueue[1] /\ 1 \in 1..Len(ReportQueue)
  BY <1>1, HeadTailProperties, EmptySeq, LenProperties
<1>3. pc[h] = "queued"
  BY <1>2 DEF OwnershipInv, ReadOwnership, ParkedIsQueued
<1>4. /\ pc[w] = "matching"
      /\ pc' = [pc EXCEPT ![w] = "holding", ![h] = "taken"]
      /\ reqRead' = [reqRead EXCEPT ![w] = h]
      /\ UNCHANGED <<params, status, information, buffer, DeviceMode, history>>
  BY DEF RetrieveNextRequest
<1>5. \A d \in Requests : pc'[d] = IF d = h THEN "taken"
                                    ELSE IF d = w THEN "holding" ELSE pc[d]
  BY <1>1, <1>2, <1>3, <1>4
<1>6. \A d \in Requests : reqRead'[d] = IF d = w THEN h ELSE reqRead[d]
  BY <1>1, <1>4
<1> QED BY <1>2, <1>3, <1>4, <1>5, <1>6 DEF Taking

LEMMA RetrieveMovesOn ==
    ASSUME OwnershipInv, NEW w \in Requests, RetrieveNextRequest(w)
    PROVE  \A d \in Requests : MovesOn(d)
<1>1. CASE ReportQueue # <<>>
  BY <1>1, RetrieveTakes DEF Taking, history, MovesOn, Returned, Entered
<1>2. CASE ReportQueue = <<>>
  BY <1>2, ReplyMovesOn DEF RetrieveNextRequest, history, OwnershipInv
<1> QED BY <1>1, <1>2

\* What DeliverReport does when the report fits the read it holds.
Meeting(w, read) ==
    /\ pc[w] = "holding" /\ read \in Requests /\ pc[read] = "taken"
    /\ read = reqRead[w] /\ OutputBufferFits(read, w)
    /\ \A d \in Requests : pc'[d] = IF d = read THEN "done"
                                    ELSE IF d = w THEN "replying" ELSE pc[d]
    /\ \A d \in Requests : status'[d] = IF d \in {read, w} THEN "SUCCESS" ELSE status[d]
    /\ \A d \in Requests : information'[d] = IF d \in {read, w} THEN params[w].reportLength
                                             ELSE information[d]
    /\ \A d \in Requests : buffer'[d] = IF d = read THEN w ELSE buffer[d]
    /\ \A d \in Requests : reqRead'[d] = IF d = w THEN None ELSE reqRead[d]
    /\ delivered' = Append(delivered, w)
    /\ UNCHANGED <<params, DeviceMode, earlier, parked, arrived>>

LEMMA DeliverMeets ==
    ASSUME OwnershipInv, NEW w \in Requests, DeliverReport(w), OutputBufferFits(reqRead[w], w)
    PROVE  Meeting(w, reqRead[w])
<1> DEFINE read == reqRead[w]
<1>1. pc[w] = "holding" /\ read \in Requests /\ pc[read] = "taken" /\ read # w
  BY DEF DeliverReport, OwnershipInv, ReadOwnership, HoldersHold
<1>2. /\ pc \in [Requests -> Locations] /\ status \in [Requests -> Statuses]
      /\ information \in [Requests -> Nat] /\ reqRead \in [Requests -> Requests \cup {None}]
      /\ buffer \in [Requests -> Requests \cup Modes \cup {None}]
  BY DEF OwnershipInv, TypeOK
<1>3. /\ buffer' = [buffer EXCEPT ![read] = w]
      /\ pc' = [pc EXCEPT ![w] = "replying", ![read] = "done"]
      /\ status' = [status EXCEPT ![w] = "SUCCESS", ![read] = "SUCCESS"]
      /\ information' = [information EXCEPT ![w] = params[w].reportLength,
                                            ![read] = params[w].reportLength]
      /\ reqRead' = [reqRead EXCEPT ![w] = None]
      /\ delivered' = Append(delivered, w)
      /\ UNCHANGED <<params, DeviceMode, earlier, parked, arrived>>
  BY DEF DeliverReport
<1>4. \A d \in Requests : pc'[d] = IF d = read THEN "done"
                                   ELSE IF d = w THEN "replying" ELSE pc[d]
  BY <1>1, <1>2, <1>3
<1>5. \A d \in Requests : status'[d] = IF d \in {read, w} THEN "SUCCESS" ELSE status[d]
  BY <1>1, <1>2, <1>3
<1>6. \A d \in Requests : information'[d] = IF d \in {read, w} THEN params[w].reportLength
                                            ELSE information[d]
  BY <1>1, <1>2, <1>3
<1>7. \A d \in Requests : buffer'[d] = IF d = read THEN w ELSE buffer[d]
  BY <1>2, <1>3
<1>8. \A d \in Requests : reqRead'[d] = IF d = w THEN None ELSE reqRead[d]
  BY <1>2, <1>3
<1> QED BY <1>1, <1>3, <1>4, <1>5, <1>6, <1>7, <1>8 DEF Meeting

LEMMA DeliverMovesOn ==
    ASSUME OwnershipInv, NEW w \in Requests, DeliverReport(w)
    PROVE  \A d \in Requests : MovesOn(d)
<1>1. CASE OutputBufferFits(reqRead[w], w)
  BY <1>1, DeliverMeets DEF Meeting, MovesOn, Returned, Entered
<1>2. CASE ~OutputBufferFits(reqRead[w], w)
  BY <1>2, ReplyMovesOn DEF DeliverReport, OwnershipInv
<1> QED BY <1>1, <1>2

LEMMA FeatureMovesOn ==
    ASSUME TypeOK, NEW r \in Requests, VMultiSetFeature(r) \/ VMultiGetFeature(r)
    PROVE  \A d \in Requests : MovesOn(d)
<1>1. CASE VMultiSetFeature(r)
  BY <1>1, ReplyMovesOn DEF VMultiSetFeature, history
<1>2. CASE VMultiGetFeature(r)
  BY <1>2, ReplyMovesOn DEF VMultiGetFeature, history, TypeOK
<1> QED BY <1>1, <1>2

LEMMA ConstantMovesOn ==
    ASSUME TypeOK, NEW r \in Requests, AnswerConstant(r)
    PROVE  \A d \in Requests : MovesOn(d)
BY ReplyMovesOn DEF AnswerConstant, history

\* The framework completes a set of parked reads.
Cancelling(S) ==
    /\ \A d \in S : pc[d] = "queued"
    /\ \A d \in Requests : pc'[d] = IF d \in S THEN "done" ELSE pc[d]
    /\ \A d \in Requests : status'[d] = IF d \in S THEN "CANCELLED" ELSE status[d]
    /\ UNCHANGED <<params, information, buffer, reqRead, DeviceMode, history>>

LEMMA CancelCancels ==
    ASSUME TypeOK, NEW r \in Requests, CancelQueued(r)
    PROVE  Cancelling({r})
BY DEF CancelQueued, Cancelling, TypeOK

LEMMA PurgeCancels ==
    ASSUME TypeOK, PurgeQueues
    PROVE  \E S \in SUBSET Requests : Cancelling(S)
<1> DEFINE S == {r \in Requests : pc[r] = "queued"}
<1>1. Cancelling(S)
  BY DEF PurgeQueues, Cancelling
<1> QED BY <1>1

LEMMA CancellingMovesOn ==
    ASSUME NEW S \in SUBSET Requests, Cancelling(S)
    PROVE  \A d \in Requests : MovesOn(d)
BY DEF Cancelling, history, MovesOn, Returned, Entered

LEMMA EveryStepMovesOn ==
    ASSUME OwnershipInv, Next PROVE UNCHANGED params /\ \A d \in Requests : MovesOn(d)
<1>1. TypeOK
  BY DEF OwnershipInv
<1>2. UNCHANGED params
  BY DEF Next, Handler, Dispatch, VMultiReadReport, VMultiWriteReport, RetrieveNextRequest,
         DeliverReport, VMultiSetFeature, VMultiGetFeature, AnswerConstant, CompleteRequest,
         CancelQueued, PurgeQueues
<1>3. ASSUME NEW r \in Requests, Dispatch(r) \/ Handler(r) \/ CancelQueued(r)
      PROVE  \A d \in Requests : MovesOn(d)
  BY <1>1, <1>3, DispatchMovesOn, CompleteMovesOn, ReadReportMovesOn, WriteReportMovesOn,
     RetrieveMovesOn, DeliverMovesOn, FeatureMovesOn, ConstantMovesOn, CancelCancels,
     CancellingMovesOn DEF Handler
<1>4. ASSUME PurgeQueues PROVE \A d \in Requests : MovesOn(d)
  BY <1>1, <1>4, PurgeCancels, CancellingMovesOn
<1> QED BY <1>2, <1>3, <1>4 DEF Next

-----------------------------------------------------------------------------
(* Who got whose report.                                                   *)
IsGet(r) == Ioctl(r) = "GET_FEATURE"

\* Only a request that has been returned has a status.
StatusOnReturn == \A r \in Requests : status[r] # "PENDING" => Returned(r)

\* Where the contents of an output buffer come from.
FilledBy(r, w) ==
    /\ IsRead(r) /\ pc[r] = "done" /\ status[r] = "SUCCESS"
    /\ Answered(w)
    /\ information[r] = params[w].reportLength
    /\ information[w] = params[w].reportLength
    /\ params[w].reportLength <= params[r].outputLen
Provenance ==
    \A r \in Requests : /\ buffer[r] \in Requests => FilledBy(r, buffer[r])
                        /\ buffer[r] \in Modes => IsGet(r) /\ Returned(r)
OneReadEach ==
    \A q, r \in Requests : buffer[q] = buffer[r] /\ buffer[q] \in Requests => q = r
SuccessIsFilled ==
    \A r \in Requests : status[r] = "SUCCESS" =>
        /\ IsRead(r) => buffer[r] \in Requests
        /\ IsWrite(r) => \E q \in Requests : buffer[q] = r

AnswerInv == StatusOnReturn /\ Provenance /\ OneReadEach /\ SuccessIsFilled

LEMMA InitAnswer == Init => AnswerInv
<1> SUFFICES ASSUME Init PROVE AnswerInv
  OBVIOUS
<1>1. \A r \in Requests : status[r] = "PENDING" /\ buffer[r] = None
  BY DEF Init
<1>2. None \notin Requests /\ None \notin Modes
  BY VMultiAssumption
<1> QED BY <1>1, <1>2 DEF AnswerInv, StatusOnReturn, Provenance, OneReadEach, SuccessIsFilled

\* A step that changes neither a buffer nor a status, nor what a request is.
LEMMA QuietAnswer ==
    ASSUME AnswerInv, \A d \in Requests : MovesOn(d),
           UNCHANGED <<params, status, information, buffer>>
    PROVE  AnswerInv'
<1>1. \A d \in Requests : (Returned(d) => Returned(d)') /\ (pc[d] = "done" => pc'[d] = "done")
  BY DEF MovesOn, Returned
<1>2. \A d \in Requests : Answered(d) => Answered(d)'
  BY <1>1 DEF Answered, Returned, IsWrite, Ioctl
<1>3. StatusOnReturn'
  BY <1>1 DEF AnswerInv, StatusOnReturn
<1>4. Provenance'
  BY <1>1, <1>2 DEF AnswerInv, Provenance, FilledBy, IsRead, IsGet, Ioctl
<1>5. OneReadEach' /\ SuccessIsFilled'
  BY DEF AnswerInv, OneReadEach, SuccessIsFilled, IsRead, IsWrite, Ioctl
<1> QED BY <1>3, <1>4, <1>5 DEF AnswerInv

\* A handler that replies: no read and no write is answered with success here, and
\* only a GET_FEATURE gets something in its buffer.
LEMMA ReplyAnswer ==
    ASSUME TypeOK, AnswerInv, NEW r \in Requests, NEW s, NEW n, Reply(r, s, n),
           pc[r] \in {"dispatched", "matching", "holding"},
           IsRead(r) \/ IsWrite(r) => s # "SUCCESS",
           \A d \in Requests : buffer'[d] = buffer[d] \/ (d = r /\ IsGet(r) /\ buffer'[d] \in Modes),
           UNCHANGED params
    PROVE  AnswerInv'
<1>1. /\ \A d \in Requests : pc'[d] = IF d = r THEN "replying" ELSE pc[d]
      /\ \A d \in Requests : status'[d] = IF d = r THEN s ELSE status[d]
      /\ \A d \in Requests : d # r => information'[d] = information[d]
  BY DEF Reply, TypeOK
<1>2. StatusOnReturn'
  BY <1>1 DEF AnswerInv, StatusOnReturn, Returned
<1>3. \A d \in Requests : Answered(d) => d # r /\ Answered(d)'
  BY <1>1 DEF Answered, IsWrite, Ioctl
<1>4. \A d \in Requests : buffer'[d] \in Requests => d # r /\ buffer'[d] = buffer[d]
  BY VMultiAssumption DEF AnswerInv, Provenance, FilledBy
<1>5. Provenance'
  <2> SUFFICES ASSUME NEW d \in Requests
               PROVE  /\ buffer'[d] \in Requests => FilledBy(d, buffer[d])'
                      /\ buffer'[d] \in Modes => IsGet(d)' /\ Returned(d)'
    BY DEF Provenance
  <2>1. ASSUME buffer'[d] \in Requests PROVE FilledBy(d, buffer[d])'
    BY <1>1, <1>3, <1>4, <2>1 DEF AnswerInv, Provenance, FilledBy, IsRead, IsWrite, Ioctl
  <2>2. ASSUME buffer'[d] \in Modes PROVE IsGet(d)' /\ Returned(d)'
    BY <1>1, <2>2 DEF AnswerInv, Provenance, IsGet, Ioctl, Returned
  <2> QED BY <2>1, <2>2
<1>6. OneReadEach'
  BY <1>4 DEF AnswerInv, OneReadEach
<1>7. SuccessIsFilled'
  <2> SUFFICES ASSUME NEW d \in Requests, status'[d] = "SUCCESS", d # r
               PROVE  /\ IsRead(d) => buffer'[d] \in Requests
                      /\ IsWrite(d) => \E q \in Requests : buffer'[q] = d
    BY <1>1 DEF SuccessIsFilled, IsRead, IsWrite, Ioctl
  <2>1. status[d] = "SUCCESS" /\ buffer'[d] = buffer[d]
    BY <1>1
  <2>2. \A q \in Requests : buffer[q] = d => buffer'[q] = d
    BY VMultiAssumption DEF AnswerInv, Provenance, FilledBy
  <2> QED BY <2>1, <2>2 DEF AnswerInv, SuccessIsFilled
<1> QED BY <1>2, <1>5, <1>6, <1>7 DEF AnswerInv

LEMMA MeetingAnswer ==
    ASSUME OwnershipInv, AnswerInv, NEW w \in Requests, NEW r \in Requests, Meeting(w, r)
    PROVE  AnswerInv'
<1>1. IsRead(r) /\ IsWrite(w) /\ r # w
  BY DEF Meeting, OwnershipInv, Roles
<1>2. \A d \in Requests : (IsRead(d) <=> IsRead(d)') /\ (IsWrite(d) <=> IsWrite(d)')
                          /\ (IsGet(d) <=> IsGet(d)')
  BY DEF Meeting, IsRead, IsWrite, IsGet, Ioctl
<1>3. status[w] = "PENDING" /\ status[r] = "PENDING"
  BY DEF Meeting, AnswerInv, StatusOnReturn, Returned
<1>4. \A d \in Requests : buffer[d] # w /\ (buffer[d] \in Requests => d # r /\ buffer[d] # r)
  BY <1>3 DEF AnswerInv, Provenance, FilledBy, Answered
<1>5. StatusOnReturn'
  BY DEF Meeting, AnswerInv, StatusOnReturn, Returned
<1>6. Provenance'
  <2> SUFFICES ASSUME NEW d \in Requests
               PROVE  /\ buffer'[d] \in Requests => FilledBy(d, buffer[d])'
                      /\ buffer'[d] \in Modes => IsGet(d)' /\ Returned(d)'
    BY DEF Provenance
  <2>1. CASE d = r
    <3>1. params[w].reportLength <= params[r].outputLen
      BY DEF Meeting, OutputBufferFits
    <3>2. buffer'[d] = w /\ w \notin Modes
      BY <2>1, VMultiAssumption DEF Meeting
    <3> QED BY <1>1, <1>2, <2>1, <3>1, <3>2 DEF Meeting, FilledBy, Answered
  <2>2. CASE d # r
    <3>1. (buffer'[d] = buffer[d] /\ d # w) \/ buffer[d] \notin Requests
      BY <1>3, <2>2 DEF Meeting, AnswerInv, Provenance, FilledBy
    <3>2. ASSUME buffer'[d] \in Requests PROVE FilledBy(d, buffer[d])'
      <4> DEFINE v == buffer[d]
      <4>1. buffer'[d] = v /\ FilledBy(d, v) /\ v # w /\ v # r /\ v \in Requests /\ d # w
        BY <1>4, <2>2, <3>1, <3>2 DEF Meeting, AnswerInv, Provenance
      <4> QED BY <1>2, <2>2, <4>1 DEF Meeting, FilledBy, Answered
    <3>3. ASSUME buffer'[d] \in Modes PROVE IsGet(d)' /\ Returned(d)'
      BY <1>2, <2>2, <3>3 DEF Meeting, AnswerInv, Provenance, Returned
    <3> QED BY <3>2, <3>3
  <2> QED BY <2>1, <2>2
<1>7. OneReadEach'
  BY <1>4 DEF Meeting, AnswerInv, OneReadEach
<1>8. SuccessIsFilled'
  <2> SUFFICES ASSUME NEW d \in Requests, status'[d] = "SUCCESS"
               PROVE  /\ IsRead(d) => buffer'[d] \in Requests
                      /\ IsWrite(d) => \E q \in Requests : buffer'[q] = d
    BY <1>2 DEF SuccessIsFilled
  <2>1. CASE d \in {r, w}
    BY <1>1, <2>1 DEF Meeting, IsRead, IsWrite
  <2>2. CASE d \notin {r, w}
    <3>1. \A q \in Requests : buffer[q] = d => buffer'[q] = d
      BY <1>4 DEF Meeting
    <3> QED BY <2>2, <3>1 DEF Meeting, AnswerInv, SuccessIsFilled
  <2> QED BY <2>1, <2>2
<1> QED BY <1>5, <1>6, <1>7, <1>8 DEF AnswerInv

LEMMA CancellingAnswer ==
    ASSUME OwnershipInv, AnswerInv, NEW S \in SUBSET Requests, Cancelling(S)
    PROVE  AnswerInv'
<1>1. \A d \in S : status[d] = "PENDING"
  BY DEF Cancelling, AnswerInv, StatusOnReturn, Returned
<1>2. StatusOnReturn'
  BY DEF Cancelling, AnswerInv, StatusOnReturn, Returned
<1>3. \A d \in Requests : /\ Answered(d) => d \notin S /\ Answered(d)'
                          /\ Returned(d) => Returned(d)'
  BY <1>1 DEF Cancelling, Answered, Returned, IsWrite, Ioctl
<1>4. Provenance'
  BY <1>1, <1>3 DEF Cancelling, AnswerInv, Provenance, FilledBy, IsRead, IsGet, Ioctl
<1>5. OneReadEach' /\ SuccessIsFilled'
  BY DEF Cancelling, AnswerInv, OneReadEach, SuccessIsFilled, IsRead, IsWrite, Ioctl
<1> QED BY <1>2, <1>4, <1>5 DEF AnswerInv

LEMMA NextAnswer == OwnershipInv /\ AnswerInv /\ [Next]_vars => AnswerInv'
<1> SUFFICES ASSUME OwnershipInv, AnswerInv, [Next]_vars PROVE AnswerInv'
  OBVIOUS
<1> USE DEF OwnershipInv
<1>1. ASSUME NEW r \in Requests, Dispatch(r) PROVE AnswerInv'
  BY <1>1, DispatchMovesOn, QuietAnswer DEF Dispatch
<1>2. ASSUME NEW r \in Requests, CompleteRequest(r) PROVE AnswerInv'
  BY <1>2, CompleteMovesOn, QuietAnswer DEF CompleteRequest
<1>3. ASSUME NEW r \in Requests, VMultiReadReport(r) PROVE AnswerInv'
  <2>1. CASE accepting
    BY <1>3, <2>1, ReadReportMovesOn, QuietAnswer DEF VMultiReadReport
  <2>2. CASE ~accepting
    BY <1>3, <2>2, ReplyAnswer DEF VMultiReadReport
  <2> QED BY <2>1, <2>2
<1>4. ASSUME NEW r \in Requests, VMultiWriteReport(r) PROVE AnswerInv'
  <2>1. CASE WriteStatus(params[r]) = "SUCCESS"
    BY <1>4, <2>1, WriteReportMovesOn, QuietAnswer DEF VMultiWriteReport
  <2>2. CASE WriteStatus(params[r]) # "SUCCESS"
    BY <1>4, <2>2, ReplyAnswer DEF VMultiWriteReport
  <2> QED BY <2>1, <2>2
<1>5. ASSUME NEW r \in Requests, RetrieveNextRequest(r) PROVE AnswerInv'
  <2>1. CASE ReportQueue # <<>>
    BY <1>5, <2>1, RetrieveMovesOn, QuietAnswer DEF RetrieveNextRequest
  <2>2. CASE ReportQueue = <<>>
    BY <1>5, <2>2, ReplyAnswer DEF RetrieveNextRequest
  <2> QED BY <2>1, <2>2
<1>6. ASSUME NEW r \in Requests, DeliverReport(r) PROVE AnswerInv'
  <2>1. CASE OutputBufferFits(reqRead[r], r)
    BY <1>6, <2>1, DeliverMeets, MeetingAnswer DEF Meeting
  <2>2. CASE ~OutputBufferFits(reqRead[r], r)
    BY <1>6, <2>2, ReplyAnswer DEF DeliverReport
  <2> QED BY <2>1, <2>2
<1>7. ASSUME NEW r \in Requests, VMultiSetFeature(r) PROVE AnswerInv'
  BY <1>7, ReplyAnswer DEF VMultiSetFeature, IsRead, IsWrite
<1>8. ASSUME NEW r \in Requests, VMultiGetFeature(r) PROVE AnswerInv'
  <2>1. /\ IsGet(r) /\ ~IsRead(r) /\ ~IsWrite(r) /\ pc[r] = "dispatched" /\ UNCHANGED params
        /\ \A d \in Requests : buffer'[d] = buffer[d] \/ (d = r /\ buffer'[d] \in Modes)
    BY <1>8 DEF VMultiGetFeature, IsGet, IsRead, IsWrite, TypeOK
  <2>2. PICK s : Reply(r, s, 0)
    BY <1>8 DEF VMultiGetFeature
  <2> QED BY <2>1, <2>2, ReplyAnswer
<1>9. ASSUME NEW r \in Requests, AnswerConstant(r) PROVE AnswerInv'
  BY <1>9, ReplyAnswer DEF AnswerConstant, IsRead, IsWrite
<1>10. ASSUME NEW r \in Requests, CancelQueued(r) PROVE AnswerInv'
  BY <1>10, CancelCancels, CancellingAnswer
<1>11. CASE PurgeQueues
  BY <1>11, PurgeCancels, CancellingAnswer
<1>12. CASE UNCHANGED vars
  BY <1>12 DEF vars, AnswerInv, StatusOnReturn, Provenance, FilledBy, OneReadEach,
               SuccessIsFilled, Returned, Answered, IsRead, IsWrite, IsGet, Ioctl
<1> QED BY <1>1, <1>2, <1>3, <1>4, <1>5, <1>6, <1>7, <1>8, <1>9, <1>10, <1>11, <1>12
        DEF Next, Handler

LEMMA AnswerAlways == Spec => []AnswerInv
BY InitAnswer, NextAnswer, OwnershipAlways, PTL DEF Spec

(* However handlers interleave, a write that reports success has put its   *)
(* report into exactly one read (VMultiProcessVendorReport), and no read   *)
(* is completed with success in any other way.                             *)
THEOREM ReportsMatchReadsAlways == Spec => []ReportsMatchReads
<1>1. AnswerInv => ReportsMatchReads
  BY DEF AnswerInv, Provenance, FilledBy, OneReadEach, SuccessIsFilled, ReportsMatchReads,
         Answered
<1> QED BY <1>1, AnswerAlways, PTL

(* Reader and writer are told the same number of bytes, for any sizes of   *)
(* reports and buffers.                                                    *)
THEOREM BytesAgreeAlways == Spec => []BytesAgree
<1>1. AnswerInv => BytesAgree
  BY DEF AnswerInv, Provenance, FilledBy, BytesAgree
<1> QED BY <1>1, AnswerAlways, PTL

-----------------------------------------------------------------------------
(* In which order.  A request dispatched later has seen the earlier ones   *)
(* done; a read seen parked never comes back to the queue.                 *)
EarlierAreDone == \A x \in Requests : \A q \in earlier[x] : pc[q] = "done"
ParkedHaveEntered == \A x \in Requests : \A q \in parked[x] : Entered(q)
DeliveredReturned ==
    \A i \in 1..Len(delivered) : delivered[i] \in Requests /\ Returned(delivered[i])

\* DeviceMode is the initial one or that of the SET_FEATURE that came last.
ModeIsLastSet ==
    \/ DeviceMode = MouseMode /\ \A s \in Requests : ~SetDone(s)
    \/ \E s \in Requests : /\ SetDone(s) /\ params[s].mode = DeviceMode
                           /\ \A t \in Requests : SetDone(t) => s \notin earlier[t]

HistoryInv == EarlierAreDone /\ ParkedHaveEntered
OrderInv == DeliveredReturned /\ SerialWritesInOrder /\ RefusedOnlyWhenEmpty
            /\ ModeIsLastSet /\ FeatureIsFresh

LEMMA InitOrder == Init => HistoryInv /\ OrderInv
<1> SUFFICES ASSUME Init PROVE HistoryInv /\ OrderInv
  OBVIOUS
<1>1. HistoryInv /\ DeliveredReturned /\ SerialWritesInOrder /\ RefusedOnlyWhenEmpty
  BY DEF Init, HistoryInv, EarlierAreDone, ParkedHaveEntered, DeliveredReturned,
         SerialWritesInOrder, RefusedOnlyWhenEmpty
<1>2. ModeIsLastSet /\ FeatureIsFresh
  BY DEF Init, ModeIsLastSet, FeatureIsFresh, SetDone
<1> QED BY <1>1, <1>2 DEF OrderInv

LEMMA NextHistory == OwnershipInv /\ HistoryInv /\ [Next]_vars => HistoryInv'
<1> SUFFICES ASSUME OwnershipInv, HistoryInv, [Next]_vars PROVE HistoryInv'
  OBVIOUS
<1>1. \A x \in Requests : earlier[x] \subseteq Requests /\ parked[x] \subseteq Requests
  BY DEF OwnershipInv, TypeOK
<1>2. CASE Next
  <2>1. \A d \in Requests : MovesOn(d)
    BY <1>2, EveryStepMovesOn
  <2>2. EarlierAreDone'
    <3> SUFFICES ASSUME NEW x \in Requests, NEW q \in earlier'[x] PROVE pc'[q] = "done"
      BY DEF EarlierAreDone
    <3>1. q \in Requests /\ pc[q] = "done"
      <4>1. q \in earlier[x] \/ pc[q] = "done"
        BY <2>1 DEF MovesOn
      <4>2. OwnershipInv'
        BY <1>2, NextOwnership
      <4>3. q \in Requests
        BY <4>2 DEF OwnershipInv, TypeOK
      <4> QED BY <4>1, <4>3 DEF HistoryInv, EarlierAreDone
    <3> QED BY <2>1, <3>1 DEF MovesOn, Returned
  <2>3. ParkedHaveEntered'
    <3> SUFFICES ASSUME NEW x \in Requests, NEW q \in parked'[x] PROVE Entered(q)'
      BY DEF ParkedHaveEntered
    <3>1. Entered(q) /\ q \in Requests
      <4>1. q \in parked[x] \/ pc[q] = "queued"
        BY <2>1 DEF MovesOn
      <4>2. OwnershipInv'
        BY <1>2, NextOwnership
      <4>3. q \in Requests
        BY <4>2 DEF OwnershipInv, TypeOK
      <4> QED BY <4>1, <4>3 DEF HistoryInv, ParkedHaveEntered, Entered
    <3> QED BY <2>1, <3>1 DEF MovesOn, Entered
  <2> QED BY <2>2, <2>3 DEF HistoryInv
<1>3. CASE UNCHANGED vars
  BY <1>3 DEF vars, history, HistoryInv, EarlierAreDone, ParkedHaveEntered, Entered
<1> QED BY <1>2, <1>3

LEMMA HistoryAlways == Spec => []HistoryInv
<1>1. Init => HistoryInv
  BY InitOrder
<1> QED BY <1>1, NextHistory, OwnershipAlways, PTL DEF Spec

\* What was seen of done and returned requests stays what it was.
LEMMA OrderFrame ==
    ASSUME OwnershipInv, AnswerInv, HistoryInv, Next
    PROVE  /\ \A d \in Requests : Returned(d) =>
                 /\ Returned(d)' /\ status'[d] = status[d] /\ buffer'[d] = buffer[d]
                 /\ earlier'[d] = earlier[d] /\ parked'[d] = parked[d]
           /\ \A d \in Requests : SetDone(d) => SetDone(d)' /\ Returned(d)
           /\ \A d \in Requests : Returned(d) => (SetDone(d) <=> SetDone(d)')
           /\ \A d \in Requests : \A m : Returned(d) /\ CurrentMode(d, m) => CurrentMode(d, m)'
<1>1. UNCHANGED params /\ \A d \in Requests : MovesOn(d)
  BY EveryStepMovesOn
<1>2. \A d \in Requests : Returned(d) =>
                 /\ Returned(d)' /\ status'[d] = status[d] /\ buffer'[d] = buffer[d]
                 /\ earlier'[d] = earlier[d] /\ parked'[d] = parked[d]
  BY <1>1 DEF MovesOn, Returned
<1>3. \A d \in Requests : SetDone(d) => Returned(d)
  BY DEF SetDone, AnswerInv, StatusOnReturn
<1>4. \A d \in Requests : Returned(d) => (SetDone(d) <=> SetDone(d)')
  BY <1>1, <1>2 DEF SetDone, Ioctl
<1>5. ASSUME NEW g \in Requests, NEW m, Returned(g), CurrentMode(g, m)
      PROVE  CurrentMode(g, m)'
  <2>1. /\ earlier'[g] = earlier[g]
        /\ \A t \in earlier[g] : /\ t \in Requests /\ (SetDone(t) <=> SetDone(t)')
                                 /\ earlier'[t] = earlier[t]
    BY <1>2, <1>4, <1>5 DEF HistoryInv, EarlierAreDone, Returned, OwnershipInv, TypeOK
  <2>2. CASE m = MouseMode /\ \A s \in earlier[g] : ~SetDone(s)
    BY <2>1, <2>2 DEF CurrentMode
  <2>3. ASSUME NEW s \in Requests, SetDone(s), params[s].mode = m, g \notin earlier[s],
               \A t \in earlier[g] : ~(SetDone(t) /\ s \in earlier[t])
        PROVE  CurrentMode(g, m)'
    <3>1. SetDone(s)' /\ params'[s].mode = m /\ g \notin earlier'[s]
      BY <1>1, <1>2, <1>3, <1>4, <2>3
    <3>2. \A t \in earlier'[g] : ~(SetDone(t)' /\ s \in earlier'[t])
      BY <2>1, <2>3
    <3> QED BY <3>1, <3>2 DEF CurrentMode
  <2> QED BY <1>5, <2>2, <2>3 DEF CurrentMode
<1> QED BY <1>2, <1>3, <1>4, <1>5

\* The writes: a report handed over now is not of a write done before.
LEMMA NextSerial ==
    ASSUME OwnershipInv, AnswerInv, HistoryInv, DeliveredReturned, SerialWritesInOrder, Next
    PROVE  DeliveredReturned' /\ SerialWritesInOrder'
<1> DEFINE n == Len(delivered)
<1>1. delivered \in Seq(Requests) /\ n \in Nat
  BY LenProperties DEF OwnershipInv, TypeOK
<1>2. ASSUME UNCHANGED delivered PROVE DeliveredReturned' /\ SerialWritesInOrder'
  BY <1>2, OrderFrame DEF DeliveredReturned, SerialWritesInOrder
<1>3. ASSUME NEW w \in Requests, Meeting(w, reqRead[w])
      PROVE  DeliveredReturned' /\ SerialWritesInOrder'
  <2>1. /\ delivered' = Append(delivered, w) /\ Len(delivered') = n + 1
        /\ \A i \in 1..n : delivered'[i] = delivered[i]
        /\ delivered'[n + 1] = w
    BY <1>1, <1>3, AppendProperties DEF Meeting
  <2>2. \A i \in 1..(n + 1) : i \in 1..n \/ i = n + 1
    BY <1>1
  <2>3. Returned(w)' /\ ~Returned(w)
    BY <1>3 DEF Meeting, Returned
  <2>4. DeliveredReturned'
    BY <2>1, <2>2, <2>3, OrderFrame DEF DeliveredReturned
  <2>5. SerialWritesInOrder'
    <3> SUFFICES ASSUME NEW i \in 1..(n + 1), NEW j \in 1..(n + 1), i < j
                 PROVE  delivered'[j] \notin earlier'[delivered'[i]]
      BY <2>1 DEF SerialWritesInOrder
    <3>1. i \in 1..n
      BY <1>1
    <3>2. earlier'[delivered'[i]] = earlier[delivered[i]] /\ delivered[i] \in Requests
      BY <2>1, <3>1, OrderFrame DEF DeliveredReturned
    <3>3. CASE j \in 1..n
      BY <2>1, <3>1, <3>2, <3>3 DEF SerialWritesInOrder
    <3>4. CASE j = n + 1
      <4>1. w \notin earlier[delivered[i]]
        BY <2>3, <3>2 DEF HistoryInv, EarlierAreDone, Returned
      <4> QED BY <2>1, <3>2, <3>4, <4>1
    <3> QED BY <2>2, <3>3, <3>4
  <2> QED BY <2>4, <2>5
<1>4. ASSUME NEW r \in Requests, DeliverReport(r)
      PROVE  DeliveredReturned' /\ SerialWritesInOrder'
  BY <1>2, <1>3, <1>4, DeliverMeets DEF DeliverReport
<1> QED BY <1>2, <1>4 DEF Next, Handler, Dispatch, VMultiReadReport, VMultiWriteReport,
         RetrieveNextRequest, VMultiSetFeature, VMultiGetFeature, AnswerConstant,
         CompleteRequest, CancelQueued, PurgeQueues, history

\* The refused writes: the queue was empty, and what has left it stays away.
LEMMA NextRefused ==
    ASSUME OwnershipInv, AnswerInv, HistoryInv, RefusedOnlyWhenEmpty, Next
    PROVE  RefusedOnlyWhenEmpty'
<1>1. \A x \in Requests : parked[x] \subseteq Requests
  BY DEF OwnershipInv, TypeOK
<1>2. \A d \in Requests : MovesOn(d)
  BY EveryStepMovesOn
<1>3. ASSUME NEW w \in Requests, status[w] = "NO_MORE_ENTRIES"
      PROVE  parked'[w] = parked[w] /\ \A r \in parked[w] : pc'[r] # "queued"
  <2>1. Returned(w)
    BY <1>3 DEF AnswerInv, StatusOnReturn
  <2>2. \A r \in parked[w] : r \in Requests /\ Entered(r) /\ pc[r] # "queued"
    BY <1>1, <1>3 DEF HistoryInv, ParkedHaveEntered, RefusedOnlyWhenEmpty
  <2> QED BY <1>2, <2>1, <2>2 DEF MovesOn, Entered, Returned
<1>4. ASSUME NEW w \in Requests, status'[w] = "NO_MORE_ENTRIES", status[w] # "NO_MORE_ENTRIES"
      PROVE  parked'[w] = parked[w] /\ \A r \in Requests : pc'[r] # "queued"
  <2>1. RetrieveNextRequest(w) /\ ReportQueue = <<>>
    <3>1. status \in [Requests -> Statuses]
      BY DEF OwnershipInv, TypeOK
    <3>2. \A r \in Requests : ConstantReply(params[r]).s # "NO_MORE_ENTRIES"
      BY DEF ConstantReply, VMultiGetString, CopyOut
    <3>3. \A p : /\ WriteStatus(p) # "NO_MORE_ENTRIES"
                 /\ \A a : XferStatus(p, a) # "NO_MORE_ENTRIES"
      BY DEF WriteStatus, XferStatus
    <3>4. ASSUME NEW r \in Requests, NEW s, NEW n, Reply(r, s, n), s # "NO_MORE_ENTRIES"
          PROVE  FALSE
      BY <1>4, <3>1, <3>4 DEF Reply
    <3>5. ~UNCHANGED status
      BY <1>4
    <3>6. \A r \in Requests : ~Dispatch(r) /\ ~CompleteRequest(r)
      BY <3>5 DEF Dispatch, CompleteRequest
    <3>7. \A r \in Requests : ~VMultiReadReport(r)
      BY <3>4, <3>5 DEF VMultiReadReport
    <3>8. \A r \in Requests : ~VMultiWriteReport(r)
      BY <3>3, <3>4, <3>5 DEF VMultiWriteReport
    <3>9. \A r \in Requests : ~DeliverReport(r)
      <4> SUFFICES ASSUME NEW r \in Requests, DeliverReport(r) PROVE FALSE
        OBVIOUS
      <4>1. CASE OutputBufferFits(reqRead[r], r)
        BY <1>4, <4>1, DeliverMeets DEF Meeting
      <4>2. CASE ~OutputBufferFits(reqRead[r], r)
        BY <3>4, <4>2 DEF DeliverReport
      <4> QED BY <4>1, <4>2
    <3>10. \A r \in Requests : ~VMultiSetFeature(r) /\ ~VMultiGetFeature(r)
      BY <3>3, <3>4 DEF VMultiSetFeature, VMultiGetFeature
    <3>11. \A r \in Requests : ~AnswerConstant(r)
      BY <3>2, <3>4 DEF AnswerConstant
    <3>12. \A r \in Requests : ~CancelQueued(r)
      BY <1>4, <3>1 DEF CancelQueued
    <3>13. ~PurgeQueues
      BY <1>4 DEF PurgeQueues
    <3>14. PICK r \in Requests : RetrieveNextRequest(r)
      BY <3>6, <3>7, <3>8, <3>9, <3>10, <3>11, <3>12, <3>13 DEF Next, Handler
    <3>15. ReportQueue = <<>> /\ Reply(r, "NO_MORE_ENTRIES", 0)
      BY <3>5, <3>14 DEF RetrieveNextRequest
    <3>16. r = w
      BY <1>4, <3>1, <3>15 DEF Reply
    <3> QED BY <3>14, <3>15, <3>16
  <2>2. \A r \in Requests : pc[r] # "queued"
    <3>1. \A i \in 1..Len(ReportQueue) : FALSE
      BY <2>1
    <3> QED BY <3>1 DEF OwnershipInv, ReadOwnership, ParkedIsQueued
  <2> QED BY <2>1, <2>2 DEF RetrieveNextRequest, history, Reply, OwnershipInv, TypeOK
<1> QED BY <1>1, <1>3, <1>4 DEF RefusedOnlyWhenEmpty

\* The features: a step leaves mode and successful sets alone, or is a set.
LEMMA NextMode ==
    ASSUME OwnershipInv, AnswerInv, HistoryInv, ModeIsLastSet, Next
    PROVE  ModeIsLastSet'
<1>1. ASSUME UNCHANGED DeviceMode, \A s \in Requests : SetDone(s)' => SetDone(s)
      PROVE  ModeIsLastSet'
  <2>1. CASE DeviceMode = MouseMode /\ \A s \in Requests : ~SetDone(s)
    BY <1>1, <2>1 DEF ModeIsLastSet
  <2>2. ASSUME NEW s \in Requests, SetDone(s), params[s].mode = DeviceMode,
               \A t \in Requests : SetDone(t) => s \notin earlier[t]
        PROVE  ModeIsLastSet'
    <3>1. SetDone(s)' /\ params'[s].mode = DeviceMode'
      BY <1>1, <2>2, OrderFrame, EveryStepMovesOn
    <3>2. \A t \in Requests : SetDone(t)' => s \notin earlier'[t]
      BY <1>1, <2>2, OrderFrame
    <3> QED BY <3>1, <3>2 DEF ModeIsLastSet
  <2> QED BY <2>1, <2>2 DEF ModeIsLastSet
<1>2. ASSUME NEW r \in Requests, NEW s, NEW n, Reply(r, s, n), UNCHANGED <<params, DeviceMode>>,
             s # "SUCCESS" \/ Ioctl(r) # "SET_FEATURE"
      PROVE  ModeIsLastSet'
  BY <1>1, <1>2 DEF Reply, SetDone, Ioctl, OwnershipInv, TypeOK
<1>3. ASSUME UNCHANGED <<params, status, DeviceMode>> PROVE ModeIsLastSet'
  BY <1>1, <1>3 DEF SetDone, Ioctl
<1>4. ASSUME NEW r \in Requests, VMultiSetFeature(r) PROVE ModeIsLastSet'
  <2> DEFINE s == XferStatus(params[r], IsFeatureReport(params[r]))
  <2>1. Reply(r, s, 0) /\ Ioctl(r) = "SET_FEATURE" /\ pc[r] = "dispatched" /\ UNCHANGED params
    BY <1>4 DEF VMultiSetFeature
  <2>2. CASE s # "SUCCESS"
    BY <1>2, <1>4, <2>1, <2>2 DEF VMultiSetFeature
  <2>3. CASE s = "SUCCESS"
    <3>1. DeviceMode' = params[r].mode
      BY <1>4, <2>3 DEF VMultiSetFeature
    <3>2. SetDone(r)' /\ params'[r].mode = DeviceMode'
      BY <2>1, <2>3, <3>1 DEF SetDone, Reply, Ioctl, OwnershipInv, TypeOK
    <3>3. \A t \in Requests : r \notin earlier'[t]
      BY <2>1, EveryStepMovesOn DEF MovesOn, HistoryInv, EarlierAreDone
    <3> QED BY <3>2, <3>3 DEF ModeIsLastSet
  <2> QED BY <2>2, <2>3
<1>5. ASSUME NEW r \in Requests, DeliverReport(r) PROVE ModeIsLastSet'
  <2>1. Ioctl(r) # "SET_FEATURE" /\ Ioctl(reqRead[r]) # "SET_FEATURE"
    BY <1>5 DEF DeliverReport, OwnershipInv, Roles, IsRead, IsWrite, ReadOwnership, HoldersHold
  <2>2. CASE OutputBufferFits(reqRead[r], r)
    BY <1>1, <1>5, <2>1, <2>2, DeliverMeets DEF Meeting, SetDone, Ioctl
  <2>3. CASE ~OutputBufferFits(reqRead[r], r)
    BY <1>2, <1>5, <2>3 DEF DeliverReport
  <2> QED BY <2>2, <2>3
<1>6. ASSUME NEW r \in Requests, VMultiGetFeature(r) PROVE ModeIsLastSet'
  BY <1>2, <1>6 DEF VMultiGetFeature
<1>7. ASSUME NEW r \in Requests, AnswerConstant(r) PROVE ModeIsLastSet'
  BY <1>2, <1>7 DEF AnswerConstant
<1>8. ASSUME NEW r \in Requests, VMultiReadReport(r) PROVE ModeIsLastSet'
  BY <1>2, <1>3, <1>8 DEF VMultiReadReport
<1>9. ASSUME NEW r \in Requests, VMultiWriteReport(r) PROVE ModeIsLastSet'
  BY <1>2, <1>3, <1>9 DEF VMultiWriteReport
<1>10. ASSUME NEW r \in Requests, RetrieveNextRequest(r) PROVE ModeIsLastSet'
  BY <1>2, <1>3, <1>10 DEF RetrieveNextRequest
<1>11. ASSUME NEW S \in SUBSET Requests, Cancelling(S) PROVE ModeIsLastSet'
  BY <1>1, <1>11 DEF Cancelling, SetDone, Ioctl
<1>12. ASSUME NEW r \in Requests, Dispatch(r) \/ CompleteRequest(r) PROVE ModeIsLastSet'
  BY <1>3, <1>12 DEF Dispatch, CompleteRequest
<1> QED BY <1>4, <1>5, <1>6, <1>7, <1>8, <1>9, <1>10, <1>11, <1>12, CancelCancels, PurgeCancels
        DEF Next, Handler, OwnershipInv

LEMMA NextFresh ==
    ASSUME OwnershipInv, AnswerInv, HistoryInv, ModeIsLastSet, FeatureIsFresh, Next
    PROVE  FeatureIsFresh'
<1> SUFFICES ASSUME NEW g \in Requests, Ioctl(g)' = "GET_FEATURE", buffer'[g] # None
             PROVE  CurrentMode(g, buffer[g])'
  BY DEF FeatureIsFresh
<1>1. Ioctl(g) = "GET_FEATURE"
  BY EveryStepMovesOn DEF Ioctl
<1>2. CASE buffer'[g] = buffer[g]
  <2>1. Returned(g) /\ CurrentMode(g, buffer[g])
    BY <1>1, <1>2 DEF AnswerInv, Provenance, FilledBy, IsRead, FeatureIsFresh, OwnershipInv, TypeOK
  <2> QED BY <1>2, <2>1, OrderFrame
<1>3. CASE buffer'[g] # buffer[g]
  <2>1. VMultiGetFeature(g)
    <3>1. ~UNCHANGED buffer
      BY <1>3
    <3>2. \A r \in Requests : ~DeliverReport(r)
      <4> SUFFICES ASSUME NEW r \in Requests, DeliverReport(r) PROVE FALSE
        OBVIOUS
      <4>1. CASE OutputBufferFits(reqRead[r], r)
        <5>1. Meeting(r, reqRead[r])
          BY <4>1, DeliverMeets
        <5> QED BY <1>1, <1>3, <5>1 DEF Meeting, OwnershipInv, Roles, IsRead
      <4>2. CASE ~OutputBufferFits(reqRead[r], r)
        BY <3>1, <4>2 DEF DeliverReport
      <4> QED BY <4>1, <4>2
    <3>3. PICK r \in Requests : VMultiGetFeature(r)
      BY <3>1, <3>2 DEF Next, Handler, Dispatch, VMultiReadReport, VMultiWriteReport,
         RetrieveNextRequest, VMultiSetFeature, AnswerConstant, CompleteRequest,
         CancelQueued, PurgeQueues
    <3>4. r = g
      BY <1>3, <3>3 DEF VMultiGetFeature, OwnershipInv, TypeOK
    <3> QED BY <3>3, <3>4
  <2>2. /\ buffer'[g] = DeviceMode /\ pc[g] = "dispatched" /\ UNCHANGED <<params, earlier>>
    BY <1>3, <2>1 DEF VMultiGetFeature, history, OwnershipInv, TypeOK
  <2>3. \A s \in Requests : (SetDone(s)' <=> SetDone(s)) /\ g \notin earlier[s]
    BY <1>1, <2>1, <2>2 DEF VMultiGetFeature, Reply, SetDone, Ioctl, OwnershipInv, TypeOK,
       HistoryInv, EarlierAreDone
  <2>4. earlier[g] \subseteq Requests
    BY DEF OwnershipInv, TypeOK
  <2>5. CASE DeviceMode = MouseMode /\ \A s \in Requests : ~SetDone(s)
    BY <2>2, <2>3, <2>4, <2>5 DEF CurrentMode
  <2>6. ASSUME NEW s \in Requests, SetDone(s), params[s].mode = DeviceMode,
               \A t \in Requests : SetDone(t) => s \notin earlier[t]
        PROVE  CurrentMode(g, buffer[g])'
    BY <2>2, <2>3, <2>4, <2>6 DEF CurrentMode
  <2> QED BY <2>5, <2>6 DEF ModeIsLastSet
<1> QED BY <1>2, <1>3

LEMMA NextOrder ==
    OwnershipInv /\ AnswerInv /\ HistoryInv /\ OrderInv /\ [Next]_vars => OrderInv'
<1> SUFFICES ASSUME OwnershipInv, AnswerInv, HistoryInv, OrderInv, [Next]_vars PROVE OrderInv'
  OBVIOUS
<1>1. CASE Next
  BY <1>1, NextSerial, NextRefused, NextMode, NextFresh DEF OrderInv
<1>2. CASE UNCHANGED vars
  BY <1>2 DEF vars, history, OrderInv, DeliveredReturned, SerialWritesInOrder,
     RefusedOnlyWhenEmpty, ModeIsLastSet, FeatureIsFresh, CurrentMode, SetDone, Ioctl, Returned
<1> QED BY <1>1, <1>2

LEMMA OrderAlways == Spec => []OrderInv
<1>1. Init => OrderInv
  BY InitOrder
<1> QED BY <1>1, NextOrder, OwnershipAlways, AnswerAlways, HistoryAlways, PTL DEF Spec

(* A client that waits for each of its writes sees its reports handed over *)
(* in order, whatever other writes run beside it.                          *)
THEOREM SerialWritesInOrderAlways == Spec => []SerialWritesInOrder
<1>1. OrderInv => SerialWritesInOrder
  BY DEF OrderInv
<1> QED BY <1>1, OrderAlways, PTL

(* VMultiProcessVendorReport refuses a write for want of a read only when  *)
(* every read parked at its dispatch has left the queue.                   *)
THEOREM RefusedOnlyWhenEmptyAlways == Spec => []RefusedOnlyWhenEmpty
<1>1. OrderInv => RefusedOnlyWhenEmpty
  BY DEF OrderInv
<1> QED BY <1>1, OrderAlways, PTL

(* VMultiGetFeature never answers a mode that VMultiSetFeature had         *)
(* replaced before the get was dispatched, for any number of both.         *)
THEOREM FeatureIsFreshAlways == Spec => []FeatureIsFresh
<1>1. OrderInv => FeatureIsFresh
  BY DEF OrderInv
<1> QED BY <1>1, OrderAlways, PTL

-----------------------------------------------------------------------------
(* The reads.  A read that a write has taken out of the queue was parked   *)
(* before everything that is still in it.                                  *)
HandedOut(q) == pc[q] = "taken" \/ buffer[q] \in Requests

InArrival == \A r \in Requests : pc[r] = "queued" \/ HandedOut(r) =>
                \E i \in 1..Len(arrived) : arrived[i] = r
QueueInOrder ==
    \A i, j \in 1..Len(ReportQueue) : i < j => ParkedBefore(ReportQueue[i], ReportQueue[j])
HandedOutFirst ==
    \A q, r \in Requests : HandedOut(q) /\ pc[r] = "queued" => ParkedBefore(q, r)
\* What OldestReadFirst says, for the read a write holds and for those handed over.
HeldInOrder ==
    \A w, q \in Requests : reqRead[w] # None /\ buffer[q] \in earlier[w]
                           => ParkedBefore(q, reqRead[w])
HandedOverInOrder ==
    \A q, r \in Requests : /\ buffer[q] \in Requests /\ buffer[r] \in Requests
                           /\ buffer[q] \in earlier[buffer[r]]
                           => ParkedBefore(q, r)

ArrivalInv == InArrival /\ QueueInOrder /\ HandedOutFirst /\ HeldInOrder /\ HandedOverInOrder

LEMMA InitArrival == Init => ArrivalInv
<1> SUFFICES ASSUME Init PROVE ArrivalInv
  OBVIOUS
<1>1. /\ \A r \in Requests : pc[r] = "created" /\ buffer[r] = None /\ reqRead[r] = None
      /\ ReportQueue = <<>> /\ None \notin Requests
  BY VMultiAssumption DEF Init
<1>2. \A r \in Requests : ~HandedOut(r) /\ buffer[r] \notin Requests
  BY <1>1 DEF HandedOut
<1>3. QueueInOrder
  BY <1>1 DEF QueueInOrder
<1> QED BY <1>1, <1>2, <1>3 DEF ArrivalInv, InArrival, HandedOutFirst, HeldInOrder, HandedOverInOrder

\* Nothing is parked: the queue may lose reads, a write may let go of one, but nothing
\* is handed out or over.
LEMMA QuietArrival ==
    ASSUME OwnershipInv, AnswerInv, ArrivalInv, \A d \in Requests : MovesOn(d),
           UNCHANGED arrived, QueueInOrder',
           \A d \in Requests : pc'[d] = "queued" => pc[d] = "queued",
           \A d \in Requests : HandedOut(d)' => HandedOut(d),
           \A d \in Requests : buffer'[d] \in Requests => buffer'[d] = buffer[d],
           \A d \in Requests : reqRead'[d] # None => reqRead'[d] = reqRead[d] /\ pc[d] # "created"
    PROVE  ArrivalInv'
<1>1. \A q, r : ParkedBefore(q, r)' <=> ParkedBefore(q, r)
  BY DEF ParkedBefore
<1>2. InArrival' /\ HandedOutFirst'
  BY <1>1 DEF ArrivalInv, InArrival, HandedOutFirst
<1>3. HeldInOrder'
  <2> SUFFICES ASSUME NEW w \in Requests, NEW q \in Requests, reqRead'[w] # None,
                      buffer'[q] \in earlier'[w]
               PROVE  ParkedBefore(q, reqRead'[w])
    BY <1>1 DEF HeldInOrder
  <2>1. earlier'[w] = earlier[w] /\ reqRead'[w] = reqRead[w]
    BY DEF MovesOn
  <2>2. buffer'[q] = buffer[q]
    BY <2>1 DEF OwnershipInv, TypeOK
  <2> QED BY <2>1, <2>2 DEF ArrivalInv, HeldInOrder
<1>4. HandedOverInOrder'
  <2>1. \A r \in Requests : buffer[r] \in Requests => earlier'[buffer[r]] = earlier[buffer[r]]
    BY DEF AnswerInv, Provenance, FilledBy, Answered, MovesOn
  <2> QED BY <1>1, <2>1 DEF ArrivalInv, HandedOverInOrder
<1> QED BY <1>2, <1>3, <1>4 DEF ArrivalInv

\* A read is parked: last in the queue, and last to arrive.
LEMMA ParkingArrival ==
    ASSUME OwnershipInv, AnswerInv, ArrivalInv, NEW r \in Requests, VMultiReadReport(r), accepting
    PROVE  ArrivalInv'
<1> DEFINE n == Len(arrived)
           k == Len(ReportQueue)
<1>1. /\ pc[r] = "dispatched"
      /\ \A d \in Requests : pc'[d] = IF d = r THEN "queued" ELSE pc[d]
      /\ ReportQueue' = Append(ReportQueue, r) /\ arrived' = Append(arrived, r)
      /\ UNCHANGED <<buffer, reqRead, earlier>>
  BY DEF VMultiReadReport, OwnershipInv, TypeOK
<1>2. ReportQueue \in Seq(Requests) /\ arrived \in Seq(Requests)
  BY DEF OwnershipInv, TypeOK
<1>3. /\ n \in Nat /\ Len(arrived') = n + 1 /\ arrived'[n + 1] = r
      /\ \A i \in 1..n : arrived'[i] = arrived[i]
  BY <1>1, <1>2, AppendProperties, LenProperties
<1>4. /\ k \in Nat /\ Len(ReportQueue') = k + 1 /\ ReportQueue'[k + 1] = r
      /\ \A i \in 1..k : ReportQueue'[i] = ReportQueue[i]
  BY <1>1, <1>2, AppendProperties, LenProperties
<1>5. \A i \in 1..n : i \in 1..(n + 1) /\ i < n + 1
  BY <1>3
<1>6. \A p, q : ParkedBefore(p, q) => ParkedBefore(p, q)'
  BY <1>3, <1>5 DEF ParkedBefore
<1>7. ASSUME NEW q \in Requests, pc[q] = "queued" \/ HandedOut(q) PROVE ParkedBefore(q, r)'
  <2>1. PICK i \in 1..n : arrived[i] = q
    BY <1>7 DEF ArrivalInv, InArrival
  <2>2. i \in 1..(n + 1) /\ n + 1 \in 1..(n + 1) /\ i < n + 1
    BY <1>3
  <2> QED BY <1>3, <2>1, <2>2 DEF ParkedBefore
<1>8. \A d \in Requests : (HandedOut(d)' <=> HandedOut(d)) /\ ~HandedOut(r)
  BY <1>1 DEF HandedOut, AnswerInv, Provenance, FilledBy
<1>9. InArrival'
  <2>1. n + 1 \in 1..(n + 1)
    BY <1>3
  <2> QED BY <1>1, <1>3, <1>5, <1>8, <2>1 DEF ArrivalInv, InArrival
<1>10. QueueInOrder'
  <2> SUFFICES ASSUME NEW i \in 1..(k + 1), NEW j \in 1..(k + 1), i < j
               PROVE  ParkedBefore(ReportQueue[i], ReportQueue[j])'
    BY <1>4 DEF QueueInOrder
  <2>1. i \in 1..k /\ (j \in 1..k \/ j = k + 1)
    BY <1>4
  <2>2. CASE j \in 1..k
    BY <1>4, <1>6, <2>1, <2>2 DEF ArrivalInv, QueueInOrder
  <2>3. CASE j = k + 1
    <3>1. ReportQueue[i] \in Requests /\ pc[ReportQueue[i]] = "queued"
      BY <1>2, <2>1 DEF OwnershipInv, ReadOwnership, ParkedIsQueued
    <3> QED BY <1>4, <1>7, <2>1, <2>3, <3>1
  <2> QED BY <2>1, <2>2, <2>3
<1>11. HandedOutFirst'
  BY <1>1, <1>6, <1>7, <1>8 DEF ArrivalInv, HandedOutFirst
<1>12. HeldInOrder' /\ HandedOverInOrder'
  BY <1>1, <1>6 DEF ArrivalInv, HeldInOrder, HandedOverInOrder
<1> QED BY <1>9, <1>10, <1>11, <1>12 DEF ArrivalInv

\* The head of the queue is handed out.
LEMMA TakingArrival ==
    ASSUME OwnershipInv, AnswerInv, ArrivalInv, NEW w \in Requests,
           RetrieveNextRequest(w), ReportQueue # <<>>
    PROVE  ArrivalInv'
<1> DEFINE h == Head(ReportQueue)
           k == Len(ReportQueue)
<1>1. Taking(w, h)
  BY RetrieveTakes
<1>2. /\ ReportQueue' = Tail(ReportQueue) /\ h = ReportQueue[1] /\ k \in Nat /\ k > 0
      /\ Len(Tail(ReportQueue)) = k - 1
      /\ \A i \in 1..(k - 1) : Tail(ReportQueue)[i] = ReportQueue[i + 1]
  BY HeadTailProperties, LenProperties DEF RetrieveNextRequest, OwnershipInv, TypeOK
<1>3. \A i \in 1..(k - 1) : i + 1 \in 1..k /\ 1 < i + 1 /\ 1 \in 1..k
  BY <1>2
<1>4. \A p, q : ParkedBefore(p, q)' <=> ParkedBefore(p, q)
  BY <1>1 DEF Taking, history, ParkedBefore
<1>5. \A d \in Requests : HandedOut(d)' <=> HandedOut(d) \/ d = h
  BY <1>1 DEF Taking, HandedOut
<1>6. QueueInOrder'
  <2> SUFFICES ASSUME NEW i \in 1..(k - 1), NEW j \in 1..(k - 1), i < j
               PROVE  ParkedBefore(ReportQueue'[i], ReportQueue'[j])
    BY <1>2, <1>4 DEF QueueInOrder
  <2>1. i + 1 < j + 1
    BY <1>2
  <2> QED BY <1>2, <1>3, <2>1 DEF ArrivalInv, QueueInOrder
<1>7. HandedOutFirst'
  <2> SUFFICES ASSUME NEW q \in Requests, NEW r \in Requests, HandedOut(q) \/ q = h,
                      pc'[r] = "queued"
               PROVE  ParkedBefore(q, r)
    BY <1>4, <1>5 DEF HandedOutFirst
  <2>1. pc[r] = "queued" /\ r # h
    BY <1>1 DEF Taking
  <2>2. CASE HandedOut(q)
    BY <2>1, <2>2 DEF ArrivalInv, HandedOutFirst
  <2>3. CASE q = h
    <3>1. PICK i \in 1..k : ReportQueue[i] = r
      BY <2>1 DEF OwnershipInv, ReadOwnership, ParkedIsQueued
    <3>2. 1 \in 1..k /\ 1 < i
      BY <1>2, <2>1, <3>1
    <3> QED BY <1>2, <2>3, <3>1, <3>2 DEF ArrivalInv, QueueInOrder
  <2> QED BY <2>2, <2>3
<1>8. InArrival'
  BY <1>1, <1>5 DEF Taking, history, ArrivalInv, InArrival
<1>9. HeldInOrder'
  <2> SUFFICES ASSUME NEW v \in Requests, NEW q \in Requests, reqRead'[v] # None,
                      buffer[q] \in earlier[v]
               PROVE  ParkedBefore(q, reqRead'[v])
    BY <1>1, <1>4 DEF HeldInOrder, Taking, history
  <2>1. buffer[q] \in Requests
    BY DEF OwnershipInv, TypeOK
  <2>2. CASE v = w
    BY <1>1, <2>1, <2>2 DEF Taking, HandedOut, ArrivalInv, HandedOutFirst
  <2>3. CASE v # w
    BY <1>1, <2>3 DEF Taking, ArrivalInv, HeldInOrder
  <2> QED BY <2>2, <2>3
<1>10. HandedOverInOrder'
  BY <1>1, <1>4 DEF Taking, history, ArrivalInv, HandedOverInOrder
<1> QED BY <1>6, <1>7, <1>8, <1>9, <1>10 DEF ArrivalInv

\* The report is handed over to the read the write holds.
LEMMA MeetingArrival ==
    ASSUME OwnershipInv, AnswerInv, HistoryInv, ArrivalInv, UNCHANGED ReportQueue,
           NEW w \in Requests, Meeting(w, reqRead[w])
    PROVE  ArrivalInv'
<1> DEFINE read == reqRead[w]
<1>1. \A p, q : ParkedBefore(p, q)' <=> ParkedBefore(p, q)
  BY DEF Meeting, ParkedBefore
<1>2. /\ \A x \in Requests : w \notin earlier[x]
      /\ read \in Requests /\ read # None
      /\ UNCHANGED earlier
      /\ \A d \in Requests : buffer'[d] = IF d = read THEN w ELSE buffer[d]
      /\ \A d \in Requests : reqRead'[d] = IF d = w THEN None ELSE reqRead[d]
  BY VMultiAssumption DEF Meeting, HistoryInv, EarlierAreDone
<1>3. \A d \in Requests : HandedOut(d)' <=> HandedOut(d)
  BY DEF Meeting, HandedOut
<1>4. InArrival' /\ QueueInOrder' /\ HandedOutFirst'
  BY <1>1, <1>3 DEF Meeting, ArrivalInv, InArrival, QueueInOrder, HandedOutFirst
<1>5. HeldInOrder'
  BY <1>1, <1>2 DEF ArrivalInv, HeldInOrder
<1>6. HandedOverInOrder'
  <2> SUFFICES ASSUME NEW q \in Requests, NEW r \in Requests, buffer'[q] \in Requests,
                      buffer'[r] \in Requests, buffer'[q] \in earlier[buffer'[r]]
               PROVE  ParkedBefore(q, r)
    BY <1>1, <1>2 DEF HandedOverInOrder
  <2>1. q # read /\ buffer'[q] = buffer[q]
    BY <1>2
  <2>2. CASE r = read
    BY <1>2, <2>1, <2>2 DEF ArrivalInv, HeldInOrder
  <2>3. CASE r # read
    BY <1>2, <2>1, <2>3 DEF ArrivalInv, HandedOverInOrder
  <2> QED BY <2>2, <2>3
<1> QED BY <1>4, <1>5, <1>6 DEF ArrivalInv

\* Cancelling one read keeps the others in order.
LEMMA CancelKeepsOrder ==
    ASSUME OwnershipInv, ArrivalInv, NEW r \in Requests, CancelQueued(r)
    PROVE  QueueInOrder'
<1> DEFINE k == Len(ReportQueue)
<1>1. PICK c \in 1..k : ReportQueue' = WithoutIndex(ReportQueue, c)
  BY DEF CancelQueued
<1>2. ReportQueue \in Seq(Requests) /\ k \in Nat
  BY LenProperties DEF OwnershipInv, TypeOK
<1>3. /\ Len(ReportQueue') = k - 1
      /\ \A j \in 1..(k - 1) :
            ReportQueue'[j] = IF j < c THEN ReportQueue[j] ELSE ReportQueue[j + 1]
  BY <1>1, <1>2, WithoutIndexFacts
<1>4. \A p, q : ParkedBefore(p, q)' <=> ParkedBefore(p, q)
  BY DEF CancelQueued, history, ParkedBefore
<1> SUFFICES ASSUME NEW i \in 1..(k - 1), NEW j \in 1..(k - 1), i < j
             PROVE  ParkedBefore(ReportQueue'[i], ReportQueue'[j])
  BY <1>3, <1>4 DEF QueueInOrder
<1> DEFINE old(m) == IF m < c THEN m ELSE m + 1
<1>5. /\ old(i) \in 1..k /\ old(j) \in 1..k /\ old(i) < old(j)
      /\ ReportQueue'[i] = ReportQueue[old(i)] /\ ReportQueue'[j] = ReportQueue[old(j)]
  BY <1>2, <1>3
<1> QED BY <1>5 DEF ArrivalInv, QueueInOrder

LEMMA NextArrival ==
    OwnershipInv /\ AnswerInv /\ HistoryInv /\ ArrivalInv /\ [Next]_vars => ArrivalInv'
<1> SUFFICES ASSUME OwnershipInv, AnswerInv, HistoryInv, ArrivalInv, [Next]_vars
             PROVE  ArrivalInv'
  OBVIOUS
<1>1. CASE UNCHANGED vars
  BY <1>1 DEF vars, history, ArrivalInv, InArrival, QueueInOrder, HandedOutFirst, HeldInOrder,
     HandedOverInOrder, HandedOut, ParkedBefore
<1> SUFFICES ASSUME Next PROVE ArrivalInv'
  BY <1>1
<1>2. \A d \in Requests : MovesOn(d)
  BY EveryStepMovesOn
<1>3. \A d \in Requests : reqRead[d] # None => pc[d] = "holding"
  BY DEF OwnershipInv, ReadOwnership, HoldersHold
<1>4. ASSUME UNCHANGED <<arrived, ReportQueue, reqRead>>,
             \A d \in Requests : /\ pc'[d] = "queued" <=> pc[d] = "queued"
                                 /\ pc'[d] = "taken" <=> pc[d] = "taken"
                                 /\ buffer'[d] \in Requests => buffer'[d] = buffer[d]
      PROVE  ArrivalInv'
  <2>1. QueueInOrder' /\ \A d \in Requests : HandedOut(d)' => HandedOut(d)
    <3>1. QueueInOrder'
      BY <1>4 DEF ArrivalInv, QueueInOrder, ParkedBefore
    <3>2. \A d \in Requests : HandedOut(d)' => HandedOut(d)
      BY <1>4 DEF HandedOut
    <3> QED BY <3>1, <3>2
  <2> QED BY <1>2, <1>3, <1>4, <2>1, QuietArrival
<1>5. ASSUME NEW r \in Requests, NEW s, NEW n, Reply(r, s, n),
             pc[r] \in {"dispatched", "matching"}, UNCHANGED <<arrived, ReportQueue, reqRead>>,
             \A d \in Requests : buffer'[d] \in Requests => buffer'[d] = buffer[d]
      PROVE  ArrivalInv'
  BY <1>4, <1>5 DEF Reply, OwnershipInv, TypeOK
<1>6. ASSUME NEW r \in Requests, Dispatch(r) PROVE ArrivalInv'
  BY <1>4, <1>6 DEF Dispatch, OwnershipInv, TypeOK
<1>7. ASSUME NEW r \in Requests, CompleteRequest(r) PROVE ArrivalInv'
  BY <1>4, <1>7 DEF CompleteRequest, history, OwnershipInv, TypeOK
<1>8. ASSUME NEW r \in Requests, VMultiReadReport(r) PROVE ArrivalInv'
  <2>1. CASE accepting
    BY <1>8, <2>1, ParkingArrival
  <2>2. CASE ~accepting
    BY <1>5, <1>8, <2>2 DEF VMultiReadReport
  <2> QED BY <2>1, <2>2
<1>9. ASSUME NEW r \in Requests, VMultiWriteReport(r) PROVE ArrivalInv'
  <2>1. CASE WriteStatus(params[r]) = "SUCCESS"
    BY <1>4, <1>9, <2>1 DEF VMultiWriteReport, history, OwnershipInv, TypeOK
  <2>2. CASE WriteStatus(params[r]) # "SUCCESS"
    BY <1>5, <1>9, <2>2 DEF VMultiWriteReport, history
  <2> QED BY <2>1, <2>2
<1>10. ASSUME NEW r \in Requests, RetrieveNextRequest(r) PROVE ArrivalInv'
  <2>1. CASE ReportQueue # <<>>
    BY <1>10, <2>1, TakingArrival
  <2>2. CASE ReportQueue = <<>>
    BY <1>5, <1>10, <2>2 DEF RetrieveNextRequest, history
  <2> QED BY <2>1, <2>2
<1>11. ASSUME NEW w \in Requests, DeliverReport(w) PROVE ArrivalInv'
  <2>1. CASE OutputBufferFits(reqRead[w], w)
    BY <1>11, <2>1, DeliverMeets, MeetingArrival DEF DeliverReport
  <2>2. CASE ~OutputBufferFits(reqRead[w], w)
    <3>1. /\ UNCHANGED <<buffer, arrived, ReportQueue>> /\ pc[w] = "holding"
          /\ \A d \in Requests : pc'[d] = IF d = w THEN "replying" ELSE pc[d]
          /\ \A d \in Requests : reqRead'[d] = IF d = w THEN None ELSE reqRead[d]
      BY <1>11, <2>2 DEF DeliverReport, Reply, OwnershipInv, TypeOK
    <3>2. QueueInOrder' /\ \A d \in Requests : HandedOut(d)' => HandedOut(d)
      <4>1. QueueInOrder'
        BY <3>1 DEF ArrivalInv, QueueInOrder, ParkedBefore
      <4>2. \A d \in Requests : HandedOut(d)' => HandedOut(d)
        BY <3>1 DEF HandedOut
      <4> QED BY <4>1, <4>2
    <3> QED BY <1>2, <1>3, <3>1, <3>2, QuietArrival
  <2> QED BY <2>1, <2>2
<1>12. ASSUME NEW r \in Requests, VMultiSetFeature(r) PROVE ArrivalInv'
  BY <1>5, <1>12 DEF VMultiSetFeature, history
<1>13. ASSUME NEW r \in Requests, VMultiGetFeature(r) PROVE ArrivalInv'
  <2>1. /\ UNCHANGED <<arrived, ReportQueue, reqRead>> /\ pc[r] = "dispatched"
        /\ \A d \in Requests : buffer'[d] \in Requests => buffer'[d] = buffer[d]
    BY <1>13, VMultiAssumption DEF VMultiGetFeature, history, OwnershipInv, TypeOK
  <2>2. PICK s : Reply(r, s, 0)
    BY <1>13 DEF VMultiGetFeature
  <2> QED BY <1>5, <2>1, <2>2
<1>14. ASSUME NEW r \in Requests, AnswerConstant(r) PROVE ArrivalInv'
  BY <1>5, <1>14 DEF AnswerConstant, history
<1>15. ASSUME NEW S \in SUBSET Requests, Cancelling(S), QueueInOrder' PROVE ArrivalInv'
  <2>1. \A d \in Requests : HandedOut(d)' => HandedOut(d)
    BY <1>15 DEF Cancelling, HandedOut
  <2> QED BY <1>2, <1>3, <1>15, <2>1, QuietArrival DEF Cancelling, history
<1>16. ASSUME NEW r \in Requests, CancelQueued(r) PROVE ArrivalInv'
  <2>1. Cancelling({r}) /\ QueueInOrder'
    BY <1>16, CancelCancels, CancelKeepsOrder DEF OwnershipInv
  <2> QED BY <1>15, <2>1
<1>17. CASE PurgeQueues
  <2>1. ReportQueue' = <<>>
    BY <1>17 DEF PurgeQueues
  <2>2. QueueInOrder'
    BY <2>1 DEF QueueInOrder
  <2> QED BY <1>15, <1>17, <2>2, PurgeCancels DEF OwnershipInv
<1> QED BY <1>6, <1>7, <1>8, <1>9, <1>10, <1>11, <1>12, <1>13, <1>14, <1>16, <1>17
        DEF Next, Handler

LEMMA ArrivalAlways == Spec => []ArrivalInv
BY InitArrival, NextArrival, OwnershipAlways, AnswerAlways, HistoryAlways, PTL DEF Spec

(* Reports of a client that waits for each of its writes are found in the  *)
(* reads in the order VMultiReadReport parked those, although cancelled    *)
(* reads leave the middle of the queue.                                    *)
THEOREM OldestReadFirstAlways == Spec => []OldestReadFirst
<1>1. AnswerInv /\ OwnershipInv /\ ArrivalInv => OldestReadFirst
  <2> SUFFICES ASSUME AnswerInv, OwnershipInv, ArrivalInv, NEW q \in Requests, NEW r \in Requests,
                      IsRead(q), IsRead(r), buffer[q] # None, buffer[r] # None,
                      buffer[q] \in earlier[buffer[r]]
               PROVE  ParkedBefore(q, r)
    BY DEF OldestReadFirst
  <2>1. buffer[q] \in Requests /\ buffer[r] \in Requests
    BY DEF OwnershipInv, TypeOK, AnswerInv, Provenance, IsGet, IsRead
  <2> QED BY <2>1 DEF ArrivalInv, HandedOverInOrder
<1> QED BY <1>1, AnswerAlways, OwnershipAlways, ArrivalAlways, PTL

-----------------------------------------------------------------------------
(* The refinement of ReportPipe: what each step is for the rendezvous.     *)

\* Requests keep their roles, and only reads and writes have phases.
LEMMA PhaseFacts ==
    ASSUME UNCHANGED params
    PROVE  \A d \in Requests :
              /\ (IsRead(d)' <=> IsRead(d)) /\ (IsWrite(d)' <=> IsWrite(d))
              /\ Role(d)' = Role(d)
              /\ ~(IsRead(d) /\ IsWrite(d))
              /\ UNCHANGED <<pc[d], status[d]>> => Phase(d)' = Phase(d)
BY DEF Role, Phase, Pending, IsRead, IsWrite, Ioctl

\* The abstract state after a step that changes the phases of the requests in S to p.
Becomes(S, p) ==
    /\ UNCHANGED params
    /\ \A d \in Requests : Phase(d)' = IF d \in S THEN p ELSE Phase(d)
    /\ \A d \in Requests : IsRead(d) => buffer'[d] = buffer[d]

LEMMA BecomesNothing ==
    ASSUME Becomes({}, "new") PROVE UNCHANGED Pipe!vars
BY PhaseFacts DEF Becomes, Pipe!vars

LEMMA BecomesDeferred ==
    ASSUME NEW r \in Requests, Role(r) = "reader", Phase(r) = "new", Becomes({r}, "waiting")
    PROVE  Pipe!Defer(r)
BY PhaseFacts DEF Becomes, Pipe!Defer

LEMMA BecomesRefused ==
    ASSUME NEW r \in Requests, Role(r) # "neither", Phase(r) = "new", Becomes({r}, "dropped")
    PROVE  Pipe!Refuse(r)
BY PhaseFacts DEF Becomes, Pipe!Refuse

LEMMA BecomesDropped ==
    ASSUME NEW S \in SUBSET Requests, \A r \in S : Phase(r) = "waiting", Becomes(S, "dropped")
    PROVE  Pipe!Drop(S)
BY PhaseFacts DEF Becomes, Pipe!Drop

\* A handler that replies to a read or write with a failure refuses it.
LEMMA ReplyRefuses ==
    ASSUME TypeOK, NEW r \in Requests, NEW s, NEW n, Reply(r, s, n), s # "SUCCESS",
           pc[r] \in {"dispatched", "matching", "holding"}, IsRead(r) \/ IsWrite(r),
           UNCHANGED <<params, buffer>>
    PROVE  Pipe!Refuse(r)
<1>1. /\ \A d \in Requests : pc'[d] = IF d = r THEN "replying" ELSE pc[d]
      /\ \A d \in Requests : status'[d] = IF d = r THEN s ELSE status[d]
  BY DEF Reply, TypeOK
<1>2. Role(r) # "neither" /\ Role(r)' # "neither" /\ Phase(r) = "new"
  BY DEF Role, Phase, IsRead, IsWrite, Ioctl
<1>3. Phase(r)' = "dropped"
  BY <1>1, <1>2 DEF Phase, Pending
<1>4. Becomes({r}, "dropped")
  BY <1>1, <1>3, PhaseFacts DEF Becomes
<1> QED BY <1>2, <1>4, BecomesRefused

\* Requests that are neither reads nor writes are not part of the rendezvous.
LEMMA OtherIsInvisible ==
    ASSUME TypeOK, NEW r \in Requests, NEW s, NEW n, Reply(r, s, n), ~IsRead(r), ~IsWrite(r),
           UNCHANGED params, \A d \in Requests : d # r => buffer'[d] = buffer[d]
    PROVE  UNCHANGED Pipe!vars
<1>1. Role(r) = "neither" /\ Role(r)' = "neither"
  BY DEF Role, IsRead, IsWrite, Ioctl
<1>2. Phase(r)' = Phase(r)
  BY <1>1 DEF Phase
<1>3. Becomes({}, "new")
  BY <1>2, PhaseFacts DEF Becomes, Reply, TypeOK
<1> QED BY <1>3, BecomesNothing

\* A step between two places that mean the same phase.
LEMMA MoveIsInvisible ==
    ASSUME UNCHANGED <<params, status, buffer>>,
           \A d \in Requests : \/ pc'[d] = pc[d]
                               \/ /\ pc[d] \in {"created", "dispatched", "matching"}
                                  /\ pc'[d] \in {"dispatched", "matching", "holding"}
                               \/ pc[d] = "queued" /\ pc'[d] = "taken"
                               \/ pc[d] = "replying" /\ pc'[d] = "done"
    PROVE  UNCHANGED Pipe!vars
<1>1. \A d \in Requests : Phase(d)' = Phase(d)
  <2> TAKE d \in Requests
  <2>1. Role(d)' = Role(d) /\ status'[d] = status[d]
    BY PhaseFacts
  <2> QED BY <2>1 DEF Phase, Pending
<1>2. Becomes({}, "new")
  BY <1>1 DEF Becomes
<1> QED BY <1>2, BecomesNothing

LEMMA ReadReportRefines ==
    ASSUME TypeOK, NEW r \in Requests, VMultiReadReport(r)
    PROVE  Pipe!Next
<1>1. CASE accepting
  <2>1. /\ IsRead(r) /\ pc[r] = "dispatched" /\ UNCHANGED <<params, status, buffer>>
        /\ \A d \in Requests : pc'[d] = IF d = r THEN "queued" ELSE pc[d]
    BY <1>1 DEF VMultiReadReport, TypeOK
  <2>2. Role(r) = "reader" /\ Role(r)' = "reader"
    BY <2>1, PhaseFacts DEF Role
  <2>3. Phase(r) = "new" /\ Phase(r)' = "waiting"
    BY <2>1, <2>2 DEF Phase, Pending
  <2>4. Becomes({r}, "waiting")
    BY <2>1, <2>3, PhaseFacts DEF Becomes
  <2> QED BY <2>2, <2>3, <2>4, BecomesDeferred DEF Pipe!Next
<1>2. CASE ~accepting
  BY <1>2, ReplyRefuses DEF VMultiReadReport, Pipe!Next
<1> QED BY <1>1, <1>2

LEMMA MeetingRefines ==
    ASSUME OwnershipInv, NEW w \in Requests, NEW r \in Requests, Meeting(w, r)
    PROVE  Pipe!Meet(w, r)
<1>1. IsRead(r) /\ IsWrite(w) /\ r # w /\ UNCHANGED params
  BY DEF Meeting, OwnershipInv, Roles
<1>2. /\ Role(r) = "reader" /\ Role(w) = "writer"
      /\ \A d \in Requests : Role(d)' = Role(d)
  BY <1>1, PhaseFacts DEF Role
<1>3. Phase(w) = "new" /\ Phase(r) = "waiting"
  BY <1>2 DEF Meeting, Phase, Pending
<1>4. Phase(w)' = "answered" /\ Phase(r)' = "answered"
  BY <1>1, <1>2 DEF Meeting, Phase, Pending
<1>5. \A d \in Requests : d \notin {r, w} => Phase(d)' = Phase(d)
  BY <1>1, PhaseFacts DEF Meeting
<1>6. /\ \A d \in Requests : buffer'[d] = IF d = r THEN w ELSE buffer[d]
      /\ \A d \in Requests : IsRead(d)' <=> IsRead(d)
  BY <1>1, PhaseFacts DEF Meeting
<1>7. [d \in Requests |-> Phase(d)'] =
         [[d \in Requests |-> Phase(d)] EXCEPT ![w] = "answered", ![r] = "answered"]
  BY <1>1, <1>4, <1>5
<1>8. [d \in Requests |-> IF IsRead(d)' THEN buffer'[d] ELSE None] =
         [[d \in Requests |-> IF IsRead(d) THEN buffer[d] ELSE None] EXCEPT ![r] = w]
  BY <1>1, <1>6
<1> QED BY <1>2, <1>3, <1>7, <1>8 DEF Pipe!Meet

LEMMA CancellingRefines ==
    ASSUME OwnershipInv, NEW S \in SUBSET Requests, Cancelling(S)
    PROVE  Pipe!Drop(S)
<1>1. \A d \in S : d \in Requests /\ IsRead(d) /\ pc[d] = "queued" /\ pc'[d] = "done"
                   /\ status'[d] = "CANCELLED"
  BY DEF Cancelling, OwnershipInv, Roles
<1>2. \A d \in S : Role(d) = "reader" /\ Role(d)' = "reader"
  BY <1>1, PhaseFacts DEF Cancelling, Role
<1>3. \A d \in S : Phase(d) = "waiting" /\ Phase(d)' = "dropped"
  BY <1>1, <1>2 DEF Phase, Pending
<1>4. Becomes(S, "dropped")
  BY <1>3, PhaseFacts DEF Cancelling, Becomes
<1> QED BY <1>3, <1>4, BecomesDropped

LEMMA StepRefinesPipe ==
    ASSUME OwnershipInv, [Next]_vars PROVE [Pipe!Next]_(Pipe!vars)
<1> USE DEF OwnershipInv
<1>1. ASSUME NEW r \in Requests, Dispatch(r) PROVE UNCHANGED Pipe!vars
  BY <1>1, MoveIsInvisible DEF Dispatch, TypeOK
<1>2. ASSUME NEW r \in Requests, CompleteRequest(r) PROVE UNCHANGED Pipe!vars
  BY <1>2, MoveIsInvisible DEF CompleteRequest, TypeOK
<1>3. ASSUME NEW r \in Requests, VMultiReadReport(r) PROVE Pipe!Next
  BY <1>3, ReadReportRefines
<1>4. ASSUME NEW r \in Requests, VMultiWriteReport(r) PROVE Pipe!Next \/ UNCHANGED Pipe!vars
  <2>1. CASE WriteStatus(params[r]) = "SUCCESS"
    BY <1>4, <2>1, MoveIsInvisible DEF VMultiWriteReport, TypeOK
  <2>2. CASE WriteStatus(params[r]) # "SUCCESS"
    BY <1>4, <2>2, ReplyRefuses DEF VMultiWriteReport, Pipe!Next
  <2> QED BY <2>1, <2>2
<1>5. ASSUME NEW r \in Requests, RetrieveNextRequest(r) PROVE Pipe!Next \/ UNCHANGED Pipe!vars
  <2>1. CASE ReportQueue # <<>>
    BY <1>5, <2>1, RetrieveTakes, MoveIsInvisible DEF Taking
  <2>2. CASE ReportQueue = <<>>
    BY <1>5, <2>2, ReplyRefuses DEF RetrieveNextRequest, Roles, Pipe!Next
  <2> QED BY <2>1, <2>2
<1>6. ASSUME NEW w \in Requests, DeliverReport(w) PROVE Pipe!Next
  <2>1. CASE OutputBufferFits(reqRead[w], w)
    <3>1. Meeting(w, reqRead[w]) /\ reqRead[w] \in Requests
      BY <1>6, <2>1, DeliverMeets DEF Meeting
    <3> QED BY <3>1, MeetingRefines DEF Pipe!Next
  <2>2. CASE ~OutputBufferFits(reqRead[w], w)
    BY <1>6, <2>2, ReplyRefuses DEF DeliverReport, Roles, Pipe!Next
  <2> QED BY <2>1, <2>2
<1>7. ASSUME NEW r \in Requests, VMultiSetFeature(r) PROVE UNCHANGED Pipe!vars
  BY <1>7, OtherIsInvisible DEF VMultiSetFeature, IsRead, IsWrite
<1>8. ASSUME NEW r \in Requests, VMultiGetFeature(r) PROVE UNCHANGED Pipe!vars
  <2>1. /\ ~IsRead(r) /\ ~IsWrite(r) /\ UNCHANGED params
        /\ \A d \in Requests : d # r => buffer'[d] = buffer[d]
    BY <1>8 DEF VMultiGetFeature, IsRead, IsWrite, TypeOK
  <2>2. PICK s : Reply(r, s, 0)
    BY <1>8 DEF VMultiGetFeature
  <2> QED BY <2>1, <2>2, OtherIsInvisible
<1>9. ASSUME NEW r \in Requests, AnswerConstant(r) PROVE UNCHANGED Pipe!vars
  BY <1>9, OtherIsInvisible DEF AnswerConstant, IsRead, IsWrite
<1>10. ASSUME NEW r \in Requests, CancelQueued(r) PROVE Pipe!Next
  BY <1>10, CancelCancels, CancellingRefines DEF Pipe!Next
<1>11. ASSUME PurgeQueues PROVE Pipe!Next
  BY <1>11, PurgeCancels, CancellingRefines DEF Pipe!Next
<1>12. ASSUME UNCHANGED vars PROVE UNCHANGED Pipe!vars
  BY <1>12, MoveIsInvisible DEF vars
<1> QED BY <1>1, <1>2, <1>3, <1>4, <1>5, <1>6, <1>7, <1>8, <1>9, <1>10, <1>11, <1>12
        DEF Next, Handler

LEMMA InitRefinesPipe == Init => Pipe!Init
<1> SUFFICES ASSUME Init PROVE Pipe!Init
  OBVIOUS
<1>1. \A r \in Requests : /\ Phase(r) = "new" /\ buffer[r] = None
                          /\ Role(r) \in {"reader", "writer", "neither"}
  BY DEF Init, Phase, Role
<1> QED BY <1>1 DEF Pipe!Init

(* The minidriver is a rendezvous: whatever handlers, cancellations and    *)
(* the removal of the device interleave, each of its behaviours is one in  *)
(* which a report changes hands exactly when a write and a waiting read    *)
(* meet, and a read or write that meets nobody is refused or dropped.      *)
THEOREM RefinesReportPipe == Spec => ImplementsPipe
BY InitRefinesPipe, StepRefinesPipe, OwnershipAlways, PTL
   DEF Spec, ImplementsPipe, Pipe!Spec
=============================================================================
