----------------------------- MODULE SimFileProofs -----------------------------
(* Proofs about SimFile, for any number of IRPs, any parameters and any    *)
(* length of the buffer.                                                   *)
EXTENDS SimFile, TLAPS

LEMMA ModFacts ==
    ASSUME NEW a \in Nat, NEW w \in Nat, w > 0
    PROVE  a % w \in Nat
BY SMT

LEMMA ParamFacts ==
    ASSUME TypeOK, NEW c \in Irps
    PROVE  /\ params[c].length \in Nat /\ params[c].op \in {"READ", "WRITE", "QUERY"}
           /\ Offset(c) \in Nat /\ End(c) \in Nat
<1>1. Word \in Nat /\ Word > 0
  BY SimFileAssumption
<1>2. params[c] \in ParamType
  BY SimFileAssumption DEF TypeOK
<1>3. params[c].length \in Nat /\ params[c].byteOffset \in Nat
      /\ params[c].op \in {"READ", "WRITE", "QUERY"}
  BY <1>2 DEF ParamType
<1>4. Offset(c) \in Nat
  BY <1>1, <1>3, ModFacts DEF Offset
<1>5. Offset(c) + params[c].length \in Nat
  BY <1>3, <1>4
<1>6. End(c) \in Nat
  BY <1>1, <1>5, ModFacts DEF End
<1> QED BY <1>3, <1>4, <1>6

Step(c) ==
    \/ CheckBounds(c)
    \/ CopyByte(c)
    \/ CopyEnds(c)
    \/ CompareLength(c)
    \/ StoreLength(c)
    \/ QueryInformation(c)
    \/ CompleteRequest(c)

-----------------------------------------------------------------------------
(* What is known of an IRP from where its dispatch routine stands.         *)
InProgress == {"copying", "comparing", "storing"}
Progress(c) ==
    /\ copied[c] <= params[c].length
    /\ c \notin earlier[c]
    /\ \A d \in earlier[c] : pc[d] = "done"
    /\ pc[c] = "created" =>
        /\ copied[c] = 0 /\ status[c] = "PENDING"
        /\ earlier[c] = {} /\ endOfFile[c] = None
    /\ pc[c] \in InProgress =>
        /\ status[c] = "PENDING" /\ End(c) <= MAX_FILE_LENGTH /\ ~IsOp(c, "QUERY")
    /\ pc[c] \in {"comparing", "storing"} =>
        /\ IsOp(c, "WRITE") /\ copied[c] = params[c].length
    /\ pc[c] \in {"replying", "done"} => status[c] # "PENDING"
    /\ status[c] = "SUCCESS" /\ ~IsOp(c, "QUERY") =>
        /\ copied[c] = params[c].length /\ End(c) <= MAX_FILE_LENGTH

ProgressInv == TypeOK /\ \A c \in Irps : Progress(c)

LEMMA InitProgress == Init => ProgressInv
<1> SUFFICES ASSUME Init PROVE ProgressInv
  OBVIOUS
<1>1. TypeOK
  <2>1. 0 \in 0..MAX_FILE_LENGTH
    BY SimFileAssumption
  <2>2. systemBuffer \in [Irps -> [Bytes -> Irps \cup {None}]]
    BY DEF Init
  <2>3. buffer \in [Bytes -> Irps \cup {None}]
    BY DEF Init
  <2>4. endOfFile \in [Irps -> (0..MAX_FILE_LENGTH) \cup {None}]
    BY DEF Init
  <2> QED BY <2>1, <2>2, <2>3, <2>4 DEF Init, TypeOK
<1>2. ASSUME NEW c \in Irps PROVE Progress(c)
  BY <1>1, ParamFacts DEF Init, Progress, InProgress
<1> QED BY <1>1, <1>2 DEF ProgressInv

\* The parameters of an IRP are fixed, and with them what is computed from them.
LEMMA SameParams ==
    ASSUME NEW c \in Irps, params' = params
    PROVE  /\ Offset(c)' = Offset(c) /\ End(c)' = End(c)
           /\ \A op : IsOp(c, op)' <=> IsOp(c, op)
           /\ \A b : Covers(c, b)' <=> Covers(c, b)
BY DEF Offset, End, IsOp, Covers

LEMMA StepKeepsTypes ==
    ASSUME ProgressInv, NEW c \in Irps, Step(c)
    PROVE  TypeOK'
<1>0. TypeOK /\ Progress(c)
  BY DEF ProgressInv
<1>1. CASE CheckBounds(c)
  <2>1. overlapped' \in BOOLEAN
    <3>1. overlapped' = overlapped \/ overlapped' = (overlapped \/ JoinsWriter(c))
      BY <1>1 DEF CheckBounds
    <3>2. (overlapped \/ JoinsWriter(c)) \in BOOLEAN
      OBVIOUS
    <3> QED BY <1>0, <3>1, <3>2 DEF TypeOK
  <2>2. pc' \in [Irps -> {"created", "copying", "comparing", "storing", "replying", "done"}]
    BY <1>0, <1>1 DEF CheckBounds, Reply, TypeOK
  <2>3. /\ status' \in [Irps -> {"PENDING", "SUCCESS", "FILE_INVALID"}]
        /\ information' \in [Irps -> Nat]
    <3>1. CASE End(c) > MAX_FILE_LENGTH
      BY <1>0, <1>1, <3>1 DEF CheckBounds, Reply, TypeOK
    <3>2. CASE ~(End(c) > MAX_FILE_LENGTH)
      <4>1. UNCHANGED <<status, information>>
        BY <1>1, <3>2 DEF CheckBounds
      <4> QED BY <1>0, <4>1 DEF TypeOK
    <3> QED BY <3>1, <3>2
  <2>4. earlier' \in [Irps -> SUBSET Irps]
    BY <1>0, <1>1 DEF CheckBounds, Dispatched, TypeOK
  <2>5. UNCHANGED <<params, copied, systemBuffer, endOfFile, buffer, file_length>>
    BY <1>1 DEF CheckBounds
  <2> QED BY <1>0, <2>1, <2>2, <2>3, <2>4, <2>5 DEF TypeOK
<1>2. CASE CopyByte(c)
  <2> DEFINE at == Offset(c) + copied[c]
  <2>1. copied' \in [Irps -> Nat]
    BY <1>0, <1>2 DEF CopyByte, TypeOK
  <2>2. systemBuffer' \in [Irps -> [Bytes -> Irps \cup {None}]]
    <3>1. CASE at \in Bytes /\ IsOp(c, "READ")
      <4>1. buffer[at] \in Irps \cup {None}
        BY <1>0, <3>1 DEF TypeOK
      <4>2. systemBuffer' = [systemBuffer EXCEPT ![c][at] = buffer[at]]
        BY <1>2, <3>1 DEF CopyByte
      <4> HIDE DEF at
      <4> QED BY <1>0, <4>1, <4>2 DEF TypeOK
    <3>2. CASE ~(at \in Bytes /\ IsOp(c, "READ"))
      BY <1>0, <1>2, <3>2 DEF CopyByte, TypeOK
    <3> QED BY <3>1, <3>2
  <2>3. buffer' \in [Bytes -> Irps \cup {None}]
    BY <1>0, <1>2 DEF CopyByte, TypeOK
  <2> QED BY <1>0, <1>2, <2>1, <2>2, <2>3 DEF CopyByte, TypeOK
<1>3. CASE CopyEnds(c)
  BY <1>0, <1>3, ParamFacts DEF CopyEnds, Reply, TypeOK
<1>4. CASE CompareLength(c)
  BY <1>0, <1>4, ParamFacts DEF CompareLength, Reply, TypeOK
<1>5. CASE StoreLength(c)
  <2>1. file_length' \in 0..MAX_FILE_LENGTH
    BY <1>0, <1>5, ParamFacts, SimFileAssumption DEF StoreLength, Progress, InProgress
  <2> QED BY <1>0, <1>5, <2>1, ParamFacts DEF StoreLength, Reply, TypeOK
<1>6. CASE QueryInformation(c)
  BY <1>0, <1>6, ParamFacts DEF QueryInformation, Reply, Dispatched, TypeOK
<1>7. CASE CompleteRequest(c)
  BY <1>0, <1>7 DEF CompleteRequest, TypeOK
<1> QED BY <1>1, <1>2, <1>3, <1>4, <1>5, <1>6, <1>7 DEF Step

\* A step of c leaves what belongs to the other IRPs alone.
LEMMA OthersUndisturbed ==
    ASSUME ProgressInv, NEW c \in Irps, Step(c)
    PROVE  /\ params' = params /\ (overlapped => overlapped')
           /\ pc[c] # "done" /\ pc'[c] # "created"
           /\ pc[c] # "created" => earlier'[c] = earlier[c]
           /\ \A d \in Irps \ {c} :
                /\ pc'[d] = pc[d] /\ copied'[d] = copied[d] /\ status'[d] = status[d]
                /\ systemBuffer'[d] = systemBuffer[d] /\ endOfFile'[d] = endOfFile[d]
                /\ earlier'[d] = earlier[d]
<1>0. TypeOK
  BY DEF ProgressInv
<1>1. CASE CheckBounds(c)
  BY <1>0, <1>1 DEF CheckBounds, Reply, Dispatched, TypeOK
<1>2. CASE CopyByte(c)
  BY <1>0, <1>2 DEF CopyByte, TypeOK
<1>3. CASE CopyEnds(c)
  BY <1>0, <1>3 DEF CopyEnds, Reply, TypeOK
<1>4. CASE CompareLength(c)
  BY <1>0, <1>4 DEF CompareLength, Reply, TypeOK
<1>5. CASE StoreLength(c)
  BY <1>0, <1>5 DEF StoreLength, Reply, TypeOK
<1>6. CASE QueryInformation(c)
  BY <1>0, <1>6 DEF QueryInformation, Reply, Dispatched, TypeOK
<1>7. CASE CompleteRequest(c)
  BY <1>0, <1>7 DEF CompleteRequest, TypeOK
<1> QED BY <1>1, <1>2, <1>3, <1>4, <1>5, <1>6, <1>7 DEF Step

LEMMA StepKeepsProgress ==
    ASSUME ProgressInv, NEW c \in Irps, Step(c)
    PROVE  ProgressInv'
<1>0. TypeOK /\ Progress(c) /\ \A d \in Irps : Progress(d)
  BY DEF ProgressInv
<1>t. TypeOK'
  BY StepKeepsTypes
<1>p. params' = params
  BY OthersUndisturbed
<1>f. /\ params[c].length \in Nat /\ End(c) \in Nat /\ copied[c] \in Nat
      /\ End(c)' = End(c) /\ \A op : IsOp(c, op)' <=> IsOp(c, op)
  BY <1>0, <1>p, ParamFacts, SameParams DEF TypeOK
<1>a. params[c].op \in {"READ", "WRITE", "QUERY"}
  BY <1>0, ParamFacts
<1>1. Progress(c)'
  <2>1. CASE CheckBounds(c)
    BY <1>0, <1>p, <1>f, <2>1, SimFileAssumption
       DEF CheckBounds, Reply, Dispatched, Progress, InProgress, TypeOK
  <2>2. CASE CopyByte(c)
    <3>1. copied'[c] <= params'[c].length
      BY <1>0, <1>p, <1>f, <2>2 DEF CopyByte, TypeOK
    <3>2. pc'[c] = "copying" /\ status'[c] = status[c] /\ earlier'[c] = earlier[c]
      BY <2>2 DEF CopyByte
    <3>3. pc' = pc
      BY <2>2 DEF CopyByte
    <3> QED BY <1>0, <1>p, <1>f, <3>1, <3>2, <3>3 DEF Progress, InProgress
  <2>3. CASE CopyEnds(c)
    BY <1>0, <1>a, <1>p, <1>f, <2>3 DEF CopyEnds, Reply, Progress, InProgress, IsOp, TypeOK
  <2>4. CASE CompareLength(c)
    BY <1>0, <1>p, <1>f, <2>4 DEF CompareLength, Reply, Progress, InProgress, TypeOK
  <2>5. CASE StoreLength(c)
    BY <1>0, <1>p, <1>f, <2>5 DEF StoreLength, Reply, Progress, InProgress, TypeOK
  <2>6. CASE QueryInformation(c)
    BY <1>0, <1>p, <1>f, <2>6
       DEF QueryInformation, Reply, Dispatched, Progress, InProgress, TypeOK
  <2>7. CASE CompleteRequest(c)
    BY <1>0, <1>p, <1>f, <2>7 DEF CompleteRequest, Progress, InProgress, TypeOK
  <2> QED BY <2>1, <2>2, <2>3, <2>4, <2>5, <2>6, <2>7 DEF Step
<1>2. ASSUME NEW d \in Irps \ {c} PROVE Progress(d)'
  <2>1. /\ End(d)' = End(d) /\ \A op : IsOp(d, op)' <=> IsOp(d, op)
    BY <1>p, SameParams
  <2>2. \A e \in earlier'[d] : pc'[e] = "done"
    BY <1>0, OthersUndisturbed DEF Progress, TypeOK
  <2> QED BY <1>0, <2>1, <2>2, OthersUndisturbed DEF Progress
<1> QED BY <1>t, <1>1, <1>2 DEF ProgressInv

LEMMA ProgressAlways == Spec => []ProgressInv
<1>1. ASSUME ProgressInv, [Next]_vars PROVE ProgressInv'
  <2>1. CASE Next
    <3>1. PICK c \in Irps : Step(c)
      BY <2>1 DEF Next, Step
    <3> QED BY <1>1, <3>1, StepKeepsProgress
  <2>2. CASE UNCHANGED vars
    <3>1. TypeOK'
      BY <1>1, <2>2 DEF vars, TypeOK, ProgressInv
    <3>2. ASSUME NEW c \in Irps PROVE Progress(c)'
      BY <1>1, <2>2 DEF vars, ProgressInv, Progress, End, Offset, IsOp
    <3> QED BY <3>1, <3>2 DEF ProgressInv
  <2> QED BY <1>1, <2>1, <2>2
<1> QED BY <1>1, InitProgress, PTL DEF Spec

(* Every variable keeps its type; in particular no sequence of writes,     *)
(* racing or not, makes file_length larger than the buffer.                *)
THEOREM TypeCorrect == Spec => []TypeOK
<1>1. ProgressInv => TypeOK
  BY DEF ProgressInv
<1> QED BY <1>1, ProgressAlways, PTL

-----------------------------------------------------------------------------
\* What a step leaves true of every IRP: it only moves on.
LEMMA StepMovesOn ==
    ASSUME ProgressInv, NEW c \in Irps, Step(c), NEW d \in Irps
    PROVE  /\ Offset(d)' = Offset(d) /\ End(d)' = End(d) /\ params'[d] = params[d]
           /\ \A op : IsOp(d, op)' <=> IsOp(d, op)
           /\ \A b : Covers(d, b)' <=> Covers(d, b)
           /\ pc[d] # "created" => pc'[d] # "created" /\ earlier'[d] = earlier[d]
           /\ pc[d] \in {"replying", "done"} => status'[d] = status[d]
           /\ pc[d] = "done" => pc'[d] = "done"
           /\ Accepted(d) => Accepted(d)'
           /\ Written(d) => Written(d)'
<1>0. TypeOK /\ Progress(c) /\ Progress(d) /\ End(c) \in Nat
  BY ParamFacts DEF ProgressInv
<1>1. /\ Offset(d)' = Offset(d) /\ End(d)' = End(d) /\ params'[d] = params[d]
      /\ \A op : IsOp(d, op)' <=> IsOp(d, op)
      /\ \A b : Covers(d, b)' <=> Covers(d, b)
  BY SameParams, OthersUndisturbed
<1>2. pc[d] # "created" => pc'[d] # "created" /\ earlier'[d] = earlier[d]
  BY OthersUndisturbed
<1>3. pc[d] = "done" => pc'[d] = "done"
  BY OthersUndisturbed
<1>4. /\ pc[c] \in {"replying", "done"} => status'[c] = status[c]
      /\ pc[c] \in InProgress => status'[c] \in {"PENDING", "SUCCESS"}
  BY <1>0 DEF Step, CheckBounds, CopyByte, CopyEnds, CompareLength, StoreLength,
     QueryInformation, CompleteRequest, Reply, InProgress, Progress, TypeOK
<1>5. pc[d] \in {"replying", "done"} => status'[d] = status[d]
  BY <1>4, OthersUndisturbed
<1>6. pc[d] \in InProgress => status'[d] # "FILE_INVALID"
  BY <1>0, <1>4, OthersUndisturbed DEF Progress
<1>7. pc[d] \in {"created", "replying", "done"} \cup InProgress
  BY <1>0 DEF TypeOK, InProgress
<1>8. Accepted(d) => Accepted(d)'
  BY <1>1, <1>2, <1>5, <1>6, <1>7 DEF Accepted
<1>9. Written(d) => Written(d)'
  <2>1. Written(d) => pc[d] \in {"replying", "done"}
    BY <1>0, <1>7 DEF Written, Accepted, Progress
  <2> QED BY <1>5, <1>8, <2>1 DEF Written
<1> QED BY <1>1, <1>2, <1>3, <1>5, <1>8, <1>9

-----------------------------------------------------------------------------
(* The length of the file.  A write that is about to store a length makes  *)
(* the file longer: that the comparison still holds at the assignment is   *)
(* what two overlapping writes break, and one writer at a time keeps.      *)
LengthIsAnEnd == file_length = 0 \/ \E c \in Irps : Accepted(c) /\ file_length = End(c)

OneWriter == \A c, d \in Irps : Writing(c) /\ Writing(d) => c = d
LongestWrite ==
    /\ \A c \in Irps : Written(c) => End(c) <= file_length
    /\ file_length > 0 => \E c \in Irps : Written(c) /\ End(c) = file_length
    /\ \A c \in Irps : pc[c] = "storing" => End(c) > file_length
QueryAnswered(q) ==
    endOfFile[q] # None =>
        /\ endOfFile[q] <= MAX_FILE_LENGTH
        /\ ~overlapped => \A w \in earlier[q] : Written(w) => End(w) <= endOfFile[q]

LengthInv ==
    /\ LengthIsAnEnd
    /\ ~overlapped => OneWriter /\ LongestWrite
    /\ \A q \in Irps : QueryAnswered(q)

LEMMA InitLength == Init => LengthInv
BY DEF Init, LengthInv, LengthIsAnEnd, OneWriter, LongestWrite, QueryAnswered, Writing, Written,
   Accepted

\* What each step does to the length, and to the IRPs that write.
LEMMA LengthSteps ==
    ASSUME ProgressInv, NEW c \in Irps, Step(c)
    PROVE  \/ /\ pc[c] = "storing" /\ file_length' = End(c)
              /\ pc'[c] = "replying" /\ status'[c] = "SUCCESS"
           \/ /\ pc[c] = "comparing" /\ file_length' = file_length
              /\ \/ End(c) > file_length /\ pc'[c] = "storing" /\ status'[c] = status[c]
                 \/ End(c) <= file_length /\ pc'[c] = "replying"
           \/ /\ pc[c] = "created" /\ file_length' = file_length
              /\ \/ pc'[c] = "copying" /\ status'[c] = status[c]
                    /\ overlapped' = (overlapped \/ JoinsWriter(c))
                 \/ pc'[c] = "replying" /\ status'[c] = "FILE_INVALID"
                 \/ pc'[c] = "replying" /\ IsOp(c, "QUERY")
           \/ /\ pc[c] = "copying" /\ file_length' = file_length
              /\ \/ pc'[c] \in {"copying", "comparing"} /\ status'[c] = status[c]
                 \/ pc'[c] = "replying" /\ IsOp(c, "READ")
           \/ pc[c] = "replying" /\ file_length' = file_length /\ pc'[c] = "done"
              /\ status'[c] = status[c]
<1>0. TypeOK /\ Progress(c) /\ End(c) \in Nat
  BY ParamFacts DEF ProgressInv
<1>1. CASE CheckBounds(c)
  BY <1>0, <1>1 DEF CheckBounds, Reply, TypeOK
<1>2. CASE CopyByte(c)
  BY <1>0, <1>2 DEF CopyByte, TypeOK
<1>3. CASE CopyEnds(c)
  BY <1>0, <1>3 DEF CopyEnds, Reply, TypeOK
<1>4. CASE CompareLength(c)
  BY <1>0, <1>4 DEF CompareLength, Reply, TypeOK
<1>5. CASE StoreLength(c)
  BY <1>0, <1>5 DEF StoreLength, Reply, TypeOK
<1>6. CASE QueryInformation(c)
  BY <1>0, <1>6 DEF QueryInformation, Reply, Dispatched, TypeOK
<1>7. CASE CompleteRequest(c)
  BY <1>0, <1>7 DEF CompleteRequest, TypeOK
<1> QED BY <1>1, <1>2, <1>3, <1>4, <1>5, <1>6, <1>7 DEF Step

LEMMA StepKeepsLengthAnEnd ==
    ASSUME ProgressInv, LengthIsAnEnd, NEW c \in Irps, Step(c)
    PROVE  LengthIsAnEnd'
<1>1. CASE file_length' = file_length
  BY <1>1, StepMovesOn DEF LengthIsAnEnd
<1>2. CASE pc[c] = "storing" /\ file_length' = End(c)
  <2>1. Accepted(c)
    BY <1>2 DEF ProgressInv, Progress, Accepted, InProgress
  <2> QED BY <1>2, <2>1, StepMovesOn DEF LengthIsAnEnd
<1> QED BY <1>1, <1>2, LengthSteps

LEMMA StepKeepsOneWriter ==
    ASSUME ProgressInv, OneWriter, NEW c \in Irps, Step(c), ~overlapped'
    PROVE  OneWriter'
<1>0. ~overlapped
  BY OthersUndisturbed
<1>1. \A d \in Irps \ {c} : Writing(d)' => Writing(d)
  BY OthersUndisturbed, StepMovesOn DEF Writing
<1>2. ASSUME Writing(c)' PROVE Writing(c) \/ (\A d \in Irps : ~Writing(d))
  <2>1. CASE pc[c] = "created"
    <3>1. pc'[c] = "copying" /\ overlapped' = (overlapped \/ JoinsWriter(c))
      BY <1>2, <2>1, LengthSteps DEF Writing
    <3> QED BY <1>2, <3>1, StepMovesOn DEF JoinsWriter, Writing
  <2>2. CASE pc[c] # "created"
    BY <1>2, <2>2, LengthSteps, StepMovesOn DEF Writing
  <2> QED BY <2>1, <2>2
<1> QED BY <1>1, <1>2 DEF OneWriter

LEMMA StepKeepsLongest ==
    ASSUME ProgressInv, OneWriter, LongestWrite, NEW c \in Irps, Step(c)
    PROVE  LongestWrite'
<1>0. /\ TypeOK /\ file_length \in Nat /\ Progress(c)
      /\ \A d \in Irps : End(d) \in Nat
  BY ParamFacts DEF ProgressInv, TypeOK
<1>1. \A d \in Irps : End(d)' = End(d) /\ (Written(d) => Written(d)')
  BY StepMovesOn
<1>2. \A d \in Irps \ {c} : (Written(d)' => Written(d)) /\ pc'[d] = pc[d]
  BY OthersUndisturbed, StepMovesOn DEF Written, Accepted
<1>3. CASE pc[c] = "storing" /\ file_length' = End(c) /\ pc'[c] = "replying"
           /\ status'[c] = "SUCCESS"
  <2>1. IsOp(c, "WRITE")
    BY <1>0, <1>3 DEF Progress
  <2>2. Written(c)'
    BY <1>3, <2>1, StepMovesOn DEF Written, Accepted
  <2>3. End(c) > file_length
    BY <1>3 DEF LongestWrite
  <2>4. \A d \in Irps \ {c} : pc[d] # "storing"
    BY <1>3, <2>1 DEF OneWriter, Writing, ProgressInv, Progress
  <2>5. \A d \in Irps : Written(d)' => End(d)' <= file_length'
    BY <1>0, <1>1, <1>2, <1>3, <2>3 DEF LongestWrite
  <2>6. \A d \in Irps : pc'[d] # "storing"
    BY <1>2, <1>3, <2>4
  <2> QED BY <1>1, <1>3, <2>2, <2>5, <2>6 DEF LongestWrite
<1>4. CASE file_length' = file_length
  <2>1. Written(c)' => End(c) <= file_length
    <3>1. CASE Written(c)
      BY <3>1 DEF LongestWrite
    <3>2. CASE ~Written(c)
      <4>1. ASSUME Written(c)' PROVE pc[c] = "comparing" /\ pc'[c] = "replying"
        <5>1. IsOp(c, "WRITE") /\ status'[c] = "SUCCESS" /\ pc'[c] # "created"
          BY <4>1, StepMovesOn DEF Written, Accepted
        <5>2. status[c] # "SUCCESS" \/ pc[c] = "created"
          BY <3>2, <5>1 DEF Written, Accepted
        <5>3. pc[c] # "storing"
          BY <1>0, <1>4, LengthSteps DEF LongestWrite
        <5> QED BY <1>0, <5>1, <5>2, <5>3, LengthSteps DEF Progress, InProgress, IsOp
      <4> QED BY <1>0, <4>1, LengthSteps
    <3> QED BY <3>1, <3>2
  <2>2. pc'[c] = "storing" => End(c) > file_length
    BY <1>0, LengthSteps DEF LongestWrite
  <2>3. \A d \in Irps : Written(d)' => End(d)' <= file_length'
    BY <1>1, <1>2, <1>4, <2>1 DEF LongestWrite
  <2>4. \A d \in Irps : pc'[d] = "storing" => End(d)' > file_length'
    BY <1>1, <1>2, <1>4, <2>2 DEF LongestWrite
  <2>5. file_length' > 0 => \E d \in Irps : Written(d)' /\ End(d)' = file_length'
    BY <1>1, <1>4 DEF LongestWrite
  <2> QED BY <2>3, <2>4, <2>5 DEF LongestWrite
<1> QED BY <1>3, <1>4, LengthSteps

LEMMA StepKeepsAnswers ==
    ASSUME ProgressInv, LengthInv, NEW c \in Irps, Step(c), NEW q \in Irps
    PROVE  QueryAnswered(q)'
<1>0. /\ TypeOK /\ file_length \in 0..MAX_FILE_LENGTH /\ Progress(q)
      /\ \A w \in earlier[q] : w \in Irps /\ pc[w] = "done" /\ (Written(w)' => Written(w))
  <2>1. TypeOK /\ file_length \in 0..MAX_FILE_LENGTH /\ Progress(q)
    BY DEF ProgressInv, TypeOK
  <2>2. ASSUME NEW w \in earlier[q]
        PROVE  w \in Irps /\ pc[w] = "done" /\ (Written(w)' => Written(w))
    <3>1. w \in Irps /\ pc[w] = "done"
      BY <2>1 DEF Progress, TypeOK
    <3> QED BY <3>1, StepMovesOn DEF Written, Accepted
  <2> QED BY <2>1, <2>2
<1>1. QueryAnswered(q) /\ (overlapped => overlapped')
  BY OthersUndisturbed DEF LengthInv
<1>2. CASE endOfFile'[q] = endOfFile[q] /\ earlier'[q] = earlier[q]
  BY <1>0, <1>1, <1>2, StepMovesOn DEF QueryAnswered
<1>3. CASE q = c /\ CheckBounds(c)
  BY <1>0, <1>3 DEF CheckBounds, QueryAnswered, Progress
<1>4. CASE q = c /\ QueryInformation(c)
  <2>1. /\ endOfFile'[c] \in {file_length, None}
        /\ earlier'[c] \subseteq {d \in Irps : pc[d] = "done"}
    BY <1>0, <1>4 DEF QueryInformation, Dispatched, TypeOK, Progress
  <2>2. ASSUME ~overlapped', NEW w \in earlier'[c], Written(w)'
        PROVE  End(w)' <= file_length
    <3>1. w \in Irps /\ pc[w] = "done"
      BY <2>1
    <3>2. Written(w)
      BY <2>2, <3>1, StepMovesOn DEF Written, Accepted
    <3> QED BY <1>1, <2>2, <3>1, <3>2, StepMovesOn DEF LengthInv, LongestWrite
  <2>3. file_length <= MAX_FILE_LENGTH
    BY <1>0
  <2> QED BY <1>4, <2>1, <2>2, <2>3 DEF QueryAnswered
<1>5. \/ endOfFile'[q] = endOfFile[q] /\ earlier'[q] = earlier[q]
      \/ q = c /\ (CheckBounds(c) \/ QueryInformation(c))
  <2>1. CASE q # c
    BY <2>1, OthersUndisturbed
  <2>2. CASE q = c
    BY <2>2 DEF Step, CopyByte, CopyEnds, CompareLength, StoreLength, CompleteRequest
  <2> QED BY <2>1, <2>2
<1> QED BY <1>2, <1>3, <1>4, <1>5

LEMMA LengthAlways == Spec => []LengthInv
<1>1. ASSUME ProgressInv, LengthInv, [Next]_vars PROVE LengthInv'
  <2>1. CASE Next
    <3>1. PICK c \in Irps : Step(c)
      BY <2>1 DEF Next, Step
    <3>2. LengthIsAnEnd'
      BY <1>1, <3>1, StepKeepsLengthAnEnd DEF LengthInv
    <3>3. ASSUME ~overlapped' PROVE (OneWriter /\ LongestWrite)'
      <4>1. ~overlapped
        BY <1>1, <3>1, <3>3, OthersUndisturbed
      <4>2. OneWriter'
        BY <1>1, <3>1, <3>3, <4>1, StepKeepsOneWriter DEF LengthInv
      <4>3. LongestWrite'
        BY <1>1, <3>1, <4>1, StepKeepsLongest DEF LengthInv
      <4> QED BY <4>2, <4>3
    <3>4. \A q \in Irps : QueryAnswered(q)'
      BY <1>1, <3>1, StepKeepsAnswers
    <3> QED BY <3>2, <3>3, <3>4 DEF LengthInv
  <2>2. CASE UNCHANGED vars
    BY <1>1, <2>2 DEF vars, LengthInv, LengthIsAnEnd, OneWriter, LongestWrite, QueryAnswered,
       Writing, Written, Accepted, End, Offset, IsOp
  <2> QED BY <1>1, <2>1, <2>2
<1> QED BY <1>1, InitLength, ProgressAlways, PTL DEF Spec

(* No race of writes makes a length nobody asked for, and while writes     *)
(* have not overlapped the file is as long as its longest write.           *)
THEOREM LengthFollowsWritesAlways == Spec => []LengthFollowsWrites
<1>1. LengthInv => LengthFollowsWrites
  BY DEF LengthInv, LengthIsAnEnd, LongestWrite, LengthFollowsWrites
<1> QED BY <1>1, LengthAlways, PTL

(* A query answers no more than the buffer holds and, while writes do not  *)
(* overlap, no less than the writes complete when it was dispatched.       *)
THEOREM QueryIsFreshAlways == Spec => []QueryIsFresh
<1>1. LengthInv => QueryIsFresh
  BY DEF LengthInv, QueryAnswered, QueryIsFresh
<1> QED BY <1>1, LengthAlways, PTL

-----------------------------------------------------------------------------
(* The bytes.  Past(c, b): the memcpy of c has moved byte b.  A byte that  *)
(* a write has moved is never again that of a write which was complete     *)
(* when this one was dispatched; a reader past it has seen such a byte.    *)
Past(c, b) == Offset(c) <= b /\ b < Offset(c) + copied[c]

StoredBy(b, w) == Accepted(w) /\ Covers(w, b)

BufferHolds(b) == buffer[b] # None => StoredBy(b, buffer[b])

NotSuperseded(v, b) ==
    IsOp(v, "WRITE") /\ Past(v, b) =>
        buffer[b] # None /\ buffer[b] \notin earlier[v]

Superseded(r, w, b) == \E v \in earlier[r] : Written(v) /\ Covers(v, b) /\ w \in earlier[v]
SawByte(r, b) ==
    IsOp(r, "READ") /\ Past(r, b) =>
        LET w == systemBuffer[r][b] IN
        IF w = None
        THEN \A v \in earlier[r] : ~(Written(v) /\ Covers(v, b))
        ELSE StoredBy(b, w) /\ r \notin earlier[w] /\ ~Superseded(r, w, b)

BytesInv ==
    /\ \A b \in Bytes : BufferHolds(b)
    /\ \A c \in Irps, b \in Bytes : NotSuperseded(c, b) /\ SawByte(c, b)

LEMMA PastFacts ==
    ASSUME TypeOK, NEW c \in Irps, NEW b \in Bytes
    PROVE  /\ b \in Nat /\ copied[c] \in Nat /\ Offset(c) \in Nat /\ params[c].length \in Nat
           /\ copied[c] = 0 => ~Past(c, b)
           /\ copied[c] <= params[c].length /\ Past(c, b) => Covers(c, b)
           /\ copied[c] = params[c].length /\ Covers(c, b) => Past(c, b)
<1>1. b \in Nat /\ copied[c] \in Nat /\ Offset(c) \in Nat /\ params[c].length \in Nat
  BY ParamFacts DEF TypeOK, Bytes
<1> QED BY <1>1 DEF Past, Covers

LEMMA InitBytes == Init => BytesInv
<1> SUFFICES ASSUME Init PROVE BytesInv
  OBVIOUS
<1>1. TypeOK
  BY InitProgress DEF ProgressInv
<1>2. \A c \in Irps, b \in Bytes : ~Past(c, b)
  BY <1>1, PastFacts DEF Init
<1> QED BY <1>2 DEF Init, BytesInv, BufferHolds, NotSuperseded, SawByte

\* One byte moved by c; every other step moves none.
CopiesByte(c, b) == pc[c] = "copying" /\ b = Offset(c) + copied[c] /\ b < Offset(c) + params[c].length
LEMMA ByteSteps ==
    ASSUME ProgressInv, NEW c \in Irps, Step(c), NEW b \in Bytes
    PROVE  \/ /\ CopiesByte(c, b) /\ IsOp(c, "WRITE") /\ buffer'[b] = c
              /\ systemBuffer' = systemBuffer /\ pc' = pc
              /\ \A d \in Irps : Past(d, b)' <=> Past(d, b) \/ d = c
           \/ /\ CopiesByte(c, b) /\ IsOp(c, "READ") /\ buffer' = buffer
              /\ systemBuffer'[c][b] = buffer[b] /\ pc' = pc
              /\ \A d \in Irps : Past(d, b)' <=> Past(d, b) \/ d = c
           \/ /\ buffer'[b] = buffer[b]
              /\ \A d \in Irps : systemBuffer'[d][b] = systemBuffer[d][b]
              /\ \A d \in Irps : Past(d, b)' <=> Past(d, b)
<1>0. TypeOK /\ Progress(c) /\ b \in Nat
      /\ \A d \in Irps : Offset(d) \in Nat /\ copied[d] \in Nat /\ Offset(d)' = Offset(d)
  BY PastFacts, StepMovesOn DEF ProgressInv
<1>1. CASE CopyByte(c)
  <2> DEFINE at == Offset(c) + copied[c]
  <2>1. copied' = [copied EXCEPT ![c] = copied[c] + 1] /\ pc' = pc /\ pc[c] = "copying"
        /\ copied[c] < params[c].length
    BY <1>1 DEF CopyByte
  <2>2. ~IsOp(c, "QUERY") /\ params[c].op \in {"READ", "WRITE", "QUERY"}
        /\ params[c].length \in Nat
    BY <1>0, <2>1, ParamFacts DEF Progress, InProgress
  <2>3. IsOp(c, "READ") \/ IsOp(c, "WRITE")
    BY <2>2 DEF IsOp
  <2>4. CASE at = b
    <3>1. CopiesByte(c, b)
      BY <1>0, <2>1, <2>2, <2>4 DEF CopiesByte
    <3>2. \A d \in Irps : Past(d, b)' <=> Past(d, b) \/ d = c
      BY <1>0, <2>1, <2>4 DEF Past, TypeOK
    <3>3. CASE IsOp(c, "READ")
      <4>1. buffer' = buffer /\ systemBuffer' = [systemBuffer EXCEPT ![c][b] = buffer[b]]
        BY <1>1, <2>4, <3>3 DEF CopyByte
      <4>2. systemBuffer'[c][b] = buffer[b]
        BY <1>0, <4>1 DEF TypeOK
      <4> QED BY <2>1, <3>1, <3>2, <3>3, <4>1, <4>2
    <3>4. CASE IsOp(c, "WRITE")
      <4>1. buffer' = [buffer EXCEPT ![b] = c] /\ systemBuffer' = systemBuffer
        BY <1>1, <2>4, <3>4 DEF CopyByte, IsOp
      <4>2. buffer'[b] = c
        BY <1>0, <4>1 DEF TypeOK
      <4> QED BY <2>1, <3>1, <3>2, <3>4, <4>1, <4>2
    <3> QED BY <2>3, <3>3, <3>4
  <2>5. CASE at # b
    <3>1. \A d \in Irps : Past(d, b)' <=> Past(d, b)
      <4>1. \A d \in Irps \ {c} : copied'[d] = copied[d]
        BY <2>1
      <4>2. copied'[c] = copied[c] + 1
        BY <1>0, <2>1 DEF TypeOK
      <4>3. Past(c, b)' <=> Past(c, b)
        BY <1>0, <2>5, <4>2 DEF Past
      <4> QED BY <1>0, <4>1, <4>3 DEF Past
    <3>2. buffer'[b] = buffer[b]
      BY <1>0, <1>1, <2>5 DEF CopyByte, TypeOK
    <3>3. \A d \in Irps : systemBuffer'[d][b] = systemBuffer[d][b]
      <4>1. \/ systemBuffer' = [systemBuffer EXCEPT ![c][at] = buffer[at]]
            \/ systemBuffer' = systemBuffer
        BY <1>1 DEF CopyByte
      <4> HIDE DEF at
      <4> QED BY <1>0, <2>5, <4>1 DEF TypeOK
    <3> QED BY <3>1, <3>2, <3>3
  <2> QED BY <2>4, <2>5
<1>2. CASE copied' = copied /\ systemBuffer' = systemBuffer /\ buffer' = buffer
  BY <1>0, <1>2 DEF Past
<1>3. CopyByte(c) \/ (copied' = copied /\ systemBuffer' = systemBuffer /\ buffer' = buffer)
  BY DEF Step, CheckBounds, CopyEnds, CompareLength, StoreLength, QueryInformation,
     CompleteRequest
<1> QED BY <1>1, <1>2, <1>3

\* An IRP that has moved a byte has been dispatched, and its list is final.
LEMMA PastIsDispatched ==
    ASSUME ProgressInv, NEW c \in Irps, NEW b \in Bytes, Past(c, b)
    PROVE  pc[c] # "created" /\ Covers(c, b) /\ copied[c] <= params[c].length
<1>1. TypeOK /\ Progress(c)
  BY DEF ProgressInv
<1> QED BY <1>1, PastFacts DEF Progress

LEMMA StepKeepsBuffer ==
    ASSUME ProgressInv, BytesInv, NEW c \in Irps, Step(c), NEW b \in Bytes
    PROVE  BufferHolds(b)'
<1>1. CASE buffer'[b] = buffer[b]
  <2>1. buffer[b] \in Irps \cup {None}
    BY DEF ProgressInv, TypeOK
  <2> QED BY <1>1, <2>1, StepMovesOn DEF BytesInv, BufferHolds, StoredBy
<1>2. CASE CopiesByte(c, b) /\ IsOp(c, "WRITE") /\ buffer'[b] = c
  <2>1. Accepted(c)
    BY <1>2 DEF CopiesByte, ProgressInv, Progress, InProgress, Accepted
  <2>2. Covers(c, b)
    BY <1>2, PastFacts DEF CopiesByte, Covers, ProgressInv
  <2> QED BY <1>2, <2>1, <2>2, StepMovesOn DEF BufferHolds, StoredBy
<1> QED BY <1>1, <1>2, ByteSteps

LEMMA StepKeepsNotSuperseded ==
    ASSUME ProgressInv, BytesInv, NEW c \in Irps, Step(c), NEW v \in Irps, NEW b \in Bytes
    PROVE  NotSuperseded(v, b)'
<1> SUFFICES ASSUME IsOp(v, "WRITE")', Past(v, b)'
             PROVE  buffer'[b] # None /\ buffer'[b] \notin earlier'[v]
  BY DEF NotSuperseded
<1>0. Progress(v) /\ NotSuperseded(v, b) /\ IsOp(v, "WRITE") /\ None \notin Irps
  BY SimFileAssumption, StepMovesOn DEF ProgressInv, BytesInv
<1>1. CASE CopiesByte(c, b) /\ IsOp(c, "WRITE") /\ buffer'[b] = c /\ (Past(v, b) \/ v = c)
  <2>1. pc[v] # "created" /\ earlier'[v] = earlier[v]
    BY <1>1, PastIsDispatched, StepMovesOn DEF CopiesByte
  <2>2. c \notin earlier[v]
    BY <1>0, <1>1 DEF CopiesByte, Progress
  <2> QED BY <1>0, <1>1, <2>1, <2>2
<1>2. CASE buffer'[b] = buffer[b] /\ Past(v, b)
  <2>1. pc[v] # "created" /\ earlier'[v] = earlier[v]
    BY <1>2, PastIsDispatched, StepMovesOn
  <2> QED BY <1>0, <1>2, <2>1 DEF NotSuperseded
<1>3. ~(CopiesByte(c, b) /\ IsOp(c, "READ") /\ v = c)
  BY <1>0 DEF IsOp
<1> QED BY <1>1, <1>2, <1>3, ByteSteps

\* What a reader that moves byte b finds there.
LEMMA ReadsAFreshByte ==
    ASSUME ProgressInv, BytesInv, NEW r \in Irps, NEW b \in Bytes, CopiesByte(r, b)
    PROVE  IF buffer[b] = None
           THEN \A v \in earlier[r] : ~(Written(v) /\ Covers(v, b))
           ELSE /\ StoredBy(b, buffer[b]) /\ r \notin earlier[buffer[b]]
                /\ ~Superseded(r, buffer[b], b)
<1>0. Progress(r) /\ BufferHolds(b) /\ buffer[b] \in Irps \cup {None}
  BY DEF ProgressInv, BytesInv, TypeOK
<1>1. ASSUME NEW v \in earlier[r], Written(v), Covers(v, b)
      PROVE  buffer[b] # None /\ buffer[b] \notin earlier[v]
  <2>1. v \in Irps
    BY DEF ProgressInv, TypeOK
  <2>2. copied[v] = params[v].length
    BY <1>1, <2>1 DEF ProgressInv, Progress, Written, Accepted, IsOp
  <2>3. IsOp(v, "WRITE") /\ Past(v, b)
    BY <1>1, <2>1, <2>2, PastFacts DEF ProgressInv, Written, Accepted
  <2> QED BY <2>1, <2>3 DEF BytesInv, NotSuperseded
<1>2. ASSUME buffer[b] # None PROVE r \notin earlier[buffer[b]]
  <2>1. buffer[b] \in Irps
    BY <1>0, <1>2
  <2>2. \A d \in earlier[buffer[b]] : pc[d] = "done"
    BY <2>1 DEF ProgressInv, Progress
  <2> QED BY <2>2 DEF CopiesByte
<1> QED BY <1>0, <1>1, <1>2 DEF BufferHolds, Superseded

LEMMA StepKeepsSeen ==
    ASSUME ProgressInv, BytesInv, NEW c \in Irps, Step(c), NEW r \in Irps, NEW b \in Bytes
    PROVE  SawByte(r, b)'
<1> DEFINE Fresh(w) == IF w = None
                       THEN \A v \in earlier[r] : ~(Written(v) /\ Covers(v, b))
                       ELSE StoredBy(b, w) /\ r \notin earlier[w] /\ ~Superseded(r, w, b)
<1> SUFFICES ASSUME IsOp(r, "READ")', Past(r, b)' PROVE SawByte(r, b)'
  BY DEF SawByte
<1>0. /\ TypeOK /\ Progress(r) /\ SawByte(r, b) /\ IsOp(r, "READ")
  BY StepMovesOn DEF ProgressInv, BytesInv
<1>1. pc[r] # "created" /\ Fresh(systemBuffer'[r][b])
  <2>1. CASE CopiesByte(c, b) /\ r = c /\ systemBuffer'[c][b] = buffer[b]
    BY <2>1, ReadsAFreshByte DEF CopiesByte
  <2>2. CASE systemBuffer'[r][b] = systemBuffer[r][b] /\ Past(r, b)
    BY <1>0, <2>2, PastIsDispatched DEF SawByte
  <2>3. ~(IsOp(c, "WRITE") /\ r = c)
    BY <1>0 DEF IsOp
  <2>4. CopiesByte(c, b) /\ r # c => systemBuffer'[r][b] = systemBuffer[r][b]
    BY OthersUndisturbed
  <2> QED BY <2>1, <2>2, <2>3, <2>4, ByteSteps
<1>2. earlier'[r] = earlier[r]
  BY <1>1, StepMovesOn
<1>3. \A v \in earlier[r] : /\ v \in Irps /\ (Written(v)' <=> Written(v))
                           /\ (Covers(v, b)' <=> Covers(v, b)) /\ earlier'[v] = earlier[v]
  <2> SUFFICES ASSUME NEW v \in earlier[r]
               PROVE  /\ v \in Irps /\ (Written(v)' <=> Written(v))
                      /\ (Covers(v, b)' <=> Covers(v, b)) /\ earlier'[v] = earlier[v]
    OBVIOUS
  <2>1. v \in Irps /\ pc[v] = "done"
    BY <1>0 DEF Progress, TypeOK
  <2>2. Written(v)' <=> Written(v)
    BY <2>1, StepMovesOn DEF Written, Accepted
  <2> QED BY <2>1, <2>2, StepMovesOn
<1>4. systemBuffer'[r][b] \in Irps \cup {None}
  BY <1>0, StepKeepsTypes DEF TypeOK
<1>5. CASE systemBuffer'[r][b] = None
  BY <1>1, <1>2, <1>3, <1>5 DEF SawByte
<1>6. CASE systemBuffer'[r][b] \in Irps /\ systemBuffer'[r][b] # None
  <2>1. PICK w \in Irps : systemBuffer'[r][b] = w /\ w # None
    BY <1>6
  <2>2. Accepted(w) /\ Covers(w, b) /\ r \notin earlier[w] /\ ~Superseded(r, w, b)
    BY <1>1, <2>1 DEF StoredBy
  <2>3. Accepted(w)' /\ Covers(w, b)' /\ earlier'[w] = earlier[w]
    BY <2>2, StepMovesOn DEF Accepted
  <2>4. StoredBy(b, w)' /\ r \notin earlier'[w] /\ ~Superseded(r, w, b)'
    BY <1>2, <1>3, <2>2, <2>3 DEF StoredBy, Superseded
  <2> QED BY <2>1, <2>4 DEF SawByte, StoredBy, Superseded
<1> QED BY <1>4, <1>5, <1>6

LEMMA BytesAlways == Spec => []BytesInv
<1>1. ASSUME ProgressInv, BytesInv, [Next]_vars PROVE BytesInv'
  <2>1. CASE Next
    <3>1. PICK c \in Irps : Step(c)
      BY <2>1 DEF Next, Step
    <3>2. Bytes' = Bytes
      BY DEF Bytes
    <3>3. \A b \in Bytes : BufferHolds(b)'
      BY <1>1, <3>1, StepKeepsBuffer
    <3>4. \A d \in Irps, b \in Bytes : NotSuperseded(d, b)' /\ SawByte(d, b)'
      BY <1>1, <3>1, StepKeepsNotSuperseded, StepKeepsSeen
    <3> QED BY <3>2, <3>3, <3>4 DEF BytesInv
  <2>2. CASE UNCHANGED vars
    BY <1>1, <2>2 DEF vars, BytesInv, BufferHolds, NotSuperseded, SawByte, StoredBy, Superseded,
       Past, Written, Accepted, Covers, Offset, IsOp
  <2> QED BY <1>1, <2>1, <2>2
<1> QED BY <1>1, InitBytes, ProgressAlways, PTL DEF Spec

(* No read returns a byte that was out of date when it was dispatched, nor *)
(* uninitialised memory where a write had succeeded, however its memcpy    *)
(* interleaves with those of other reads and writes.                       *)
THEOREM ReadIsRegularAlways == Spec => []ReadIsRegular
<1>1. ProgressInv /\ BytesInv => ReadIsRegular
  <2> SUFFICES ASSUME ProgressInv, BytesInv,
                      NEW r \in Irps, IsOp(r, "READ"), status[r] = "SUCCESS",
                      NEW b \in Bytes, Covers(r, b)
               PROVE  LET w == systemBuffer[r][b] IN
                      IF w = None
                      THEN \A v \in earlier[r] : ~(Written(v) /\ Covers(v, b))
                      ELSE /\ Accepted(w) /\ Covers(w, b) /\ r \notin earlier[w]
                           /\ \A v \in earlier[r] :
                                ~(Written(v) /\ Covers(v, b) /\ w \in earlier[v])
    BY DEF ReadIsRegular
  <2>1. copied[r] = params[r].length
    BY DEF ProgressInv, Progress, IsOp
  <2>2. Past(r, b)
    BY <2>1, PastFacts DEF ProgressInv
  <2> QED BY <2>2 DEF BytesInv, SawByte, StoredBy, Superseded
<1> QED BY <1>1, ProgressAlways, BytesAlways, PTL
=============================================================================
