------------------------------- MODULE SimFile -------------------------------
(***************************************************************************)
(* The simulated file of WDMBasicFunction/Driver.cpp: a buffer of          *)
(* MAX_FILE_LENGTH bytes and a file_length in the device extension, read,  *)
(* written and queried by dispatch routines that take no lock.  Each       *)
(* dispatch routine is cut at its accesses to those two: memcpy moves one  *)
(* byte at a time, the comparison with file_length and the assignment to   *)
(* it are two steps.                                                       *)
(***************************************************************************)
EXTENDS Naturals

CONSTANTS Irps,
          Params,          \* what the IRPs may ask for, see ParamType
          MAX_FILE_LENGTH,
          Word,            \* the number of ULONG values, 2^32 in the code
          None             \* an uninitialised byte

ParamType == [op : {"READ", "WRITE", "QUERY"},
              length : Nat,      \* Length
              byteOffset : Nat,  \* ByteOffset.QuadPart
              standard : BOOLEAN]\* FileInformationClass = FileStandardInformation

ASSUME SimFileAssumption ==
    /\ Params \subseteq ParamType
    /\ \A p \in Params : p.length < Word
    /\ Word \in Nat /\ MAX_FILE_LENGTH \in 1..(Word - 1)
    /\ None \notin Irps

VARIABLES
    pc,          \* where the dispatch routine of each IRP stands
    params,      \* the parameters of each IRP
    copied,      \* how many bytes its memcpy has moved
    systemBuffer,\* the bytes a read has put into the caller's buffer
    endOfFile,   \* the EndOfFile a query has put there
    status, information,
    buffer,      \* DEVICE_EXTENSION.buffer: for each byte, the write that stored it
    file_length, \* DEVICE_EXTENSION.file_length
    \* history, read by the properties only:
    earlier,     \* the IRPs completed when this one was dispatched
    overlapped   \* whether two writes have ever been in progress together

vars == <<pc, params, copied, systemBuffer, endOfFile, status, information, buffer, file_length,
          earlier, overlapped>>

Bytes == 0..(MAX_FILE_LENGTH - 1)

TypeOK ==
    /\ pc \in [Irps -> {"created", "copying", "comparing", "storing", "replying", "done"}]
    /\ params \in [Irps -> Params]
    /\ copied \in [Irps -> Nat]
    /\ systemBuffer \in [Irps -> [Bytes -> Irps \cup {None}]]
    /\ endOfFile \in [Irps -> (0..MAX_FILE_LENGTH) \cup {None}]
    /\ status \in [Irps -> {"PENDING", "SUCCESS", "FILE_INVALID"}]
    /\ information \in [Irps -> Nat]
    /\ buffer \in [Bytes -> Irps \cup {None}]
    /\ file_length \in 0..MAX_FILE_LENGTH
    /\ earlier \in [Irps -> SUBSET Irps]
    /\ overlapped \in BOOLEAN

\* CreateDevice: ExAllocatePool leaves the buffer uninitialised, the length is 0.
Init ==
    /\ pc = [c \in Irps |-> "created"]
    /\ params \in [Irps -> Params]
    /\ copied = [c \in Irps |-> 0]
    /\ systemBuffer = [c \in Irps |-> [b \in Bytes |-> None]]
    /\ endOfFile = [c \in Irps |-> None]
    /\ status = [c \in Irps |-> "PENDING"]
    /\ information = [c \in Irps |-> 0]
    /\ buffer = [b \in Bytes |-> None]
    /\ file_length = 0
    /\ earlier = [c \in Irps |-> {}]
    /\ overlapped = FALSE

-----------------------------------------------------------------------------
\* (ULONG)ByteOffset.QuadPart, and the sum the code compares, in 32 bits.
Offset(c) == params[c].byteOffset % Word
End(c) == (Offset(c) + params[c].length) % Word
IsOp(c, op) == params[c].op = op
Writing(c) == IsOp(c, "WRITE") /\ pc[c] \in {"copying", "comparing", "storing"}

Reply(c, s, bytes) ==
    /\ pc' = [pc EXCEPT ![c] = "replying"]
    /\ status' = [status EXCEPT ![c] = s]
    /\ information' = [information EXCEPT ![c] = bytes]

Dispatched(c) == earlier' = [earlier EXCEPT ![c] = {d \in Irps : pc[d] = "done"}]

\* c is a write, and another write is in progress.
JoinsWriter(c) == IsOp(c, "WRITE") /\ \E d \in Irps : Writing(d)

\* CheckBounds that lets the last byte lie one beyond the buffer.
CheckBounds_OffByOne(c) ==
    /\ pc[c] = "created" /\ ~IsOp(c, "QUERY")
    /\ Dispatched(c)
    /\ overlapped' = (overlapped \/ JoinsWriter(c))
    /\ IF End(c) > MAX_FILE_LENGTH + 1
       THEN Reply(c, "FILE_INVALID", 0)
       ELSE /\ pc' = [pc EXCEPT ![c] = "copying"]
            /\ UNCHANGED <<status, information>>
    /\ UNCHANGED <<params, copied, systemBuffer, endOfFile, buffer, file_length>>

\* HelloDDKRead and HelloDDWrite up to memcpy.
CheckBounds(c) ==
    /\ pc[c] = "created" /\ ~IsOp(c, "QUERY")
    /\ Dispatched(c)
    /\ IF End(c) > MAX_FILE_LENGTH
       THEN /\ Reply(c, "FILE_INVALID", 0)
            /\ UNCHANGED overlapped
       ELSE /\ pc' = [pc EXCEPT ![c] = "copying"]
            /\ overlapped' = (overlapped \/ JoinsWriter(c))
            /\ UNCHANGED <<status, information>>
    /\ UNCHANGED <<params, copied, systemBuffer, endOfFile, buffer, file_length>>

\* CopyByte that writes from the start of the buffer whatever the offset.
CopyByte_NoOffset(c) ==
    LET from == Offset(c) + copied[c] IN
    /\ pc[c] = "copying" /\ copied[c] < params[c].length
    /\ copied' = [copied EXCEPT ![c] = @ + 1]
    /\ IF IsOp(c, "READ")
       THEN /\ systemBuffer' = [systemBuffer EXCEPT ![c][from] = buffer[from]]
            /\ UNCHANGED buffer
       ELSE /\ buffer' = [buffer EXCEPT ![copied[c]] = c]
            /\ UNCHANGED systemBuffer
    /\ UNCHANGED <<pc, params, endOfFile, status, information, file_length, earlier, overlapped>>

\* One byte of memcpy, in either direction.  The caller's buffer is indexed here by
\* the position in the file.  A position outside the buffer is left out: what memcpy
\* does there is not a matter of this state.
CopyByte(c) ==
    LET at == Offset(c) + copied[c] IN
    /\ pc[c] = "copying" /\ copied[c] < params[c].length
    /\ copied' = [copied EXCEPT ![c] = @ + 1]
    /\ IF IsOp(c, "READ")
       THEN /\ systemBuffer' = IF at \in Bytes
                               THEN [systemBuffer EXCEPT ![c][at] = buffer[at]]
                               ELSE systemBuffer
            /\ UNCHANGED buffer
       ELSE /\ buffer' = IF at \in Bytes THEN [buffer EXCEPT ![at] = c] ELSE buffer
            /\ UNCHANGED systemBuffer
    /\ UNCHANGED <<pc, params, endOfFile, status, information, file_length, earlier, overlapped>>

\* memcpy returns: a read is answered, a write goes on to the length.
CopyEnds(c) ==
    /\ pc[c] = "copying" /\ copied[c] = params[c].length
    /\ IF IsOp(c, "READ")
       THEN Reply(c, "SUCCESS", params[c].length)
       ELSE pc' = [pc EXCEPT ![c] = "comparing"] /\ UNCHANGED <<status, information>>
    /\ UNCHANGED <<params, copied, systemBuffer, endOfFile, buffer, file_length, earlier, overlapped>>

\* CompareLength that sets the length without comparing.
CompareLength_Always(c) ==
    /\ pc[c] = "comparing"
    /\ pc' = [pc EXCEPT ![c] = "storing"]
    /\ UNCHANGED <<params, copied, systemBuffer, endOfFile, status, information, buffer,
                   file_length, earlier, overlapped>>

\* HelloDDWrite: if (ulWriteLength + ulWriteOffset > file_length)
CompareLength(c) ==
    /\ pc[c] = "comparing"
    /\ IF End(c) > file_length
       THEN pc' = [pc EXCEPT ![c] = "storing"] /\ UNCHANGED <<status, information>>
       ELSE Reply(c, "SUCCESS", params[c].length)
    /\ UNCHANGED <<params, copied, systemBuffer, endOfFile, buffer, file_length, earlier, overlapped>>

\* StoreLength that adds the length of the write to that of the file.
StoreLength_Adds(c) ==
    /\ pc[c] = "storing"
    /\ file_length' = file_length + params[c].length
    /\ Reply(c, "SUCCESS", params[c].length)
    /\ UNCHANGED <<params, copied, systemBuffer, endOfFile, buffer, earlier, overlapped>>

\* HelloDDWrite: file_length = ulWriteLength + ulWriteOffset
StoreLength(c) ==
    /\ pc[c] = "storing"
    /\ file_length' = End(c)
    /\ Reply(c, "SUCCESS", params[c].length)
    /\ UNCHANGED <<params, copied, systemBuffer, endOfFile, buffer, earlier, overlapped>>

\* HelloDDKQueryInfomation: EndOfFile is the file length; other classes are answered
\* with success and an untouched buffer.
QueryInformation(c) ==
    /\ pc[c] = "created" /\ IsOp(c, "QUERY")
    /\ Dispatched(c)
    /\ endOfFile' = IF params[c].standard
                    THEN [endOfFile EXCEPT ![c] = file_length] ELSE endOfFile
    /\ Reply(c, "SUCCESS", params[c].length)
    /\ UNCHANGED <<params, copied, systemBuffer, buffer, file_length, overlapped>>

\* IoCompleteRequest
CompleteRequest(c) ==
    /\ pc[c] = "replying"
    /\ pc' = [pc EXCEPT ![c] = "done"]
    /\ UNCHANGED <<params, copied, systemBuffer, endOfFile, status, information, buffer,
                   file_length, earlier, overlapped>>

Next == \E c \in Irps :
    \/ CheckBounds(c)
    \/ CopyByte(c)
    \/ CopyEnds(c)
    \/ CompareLength(c)
    \/ StoreLength(c)
    \/ QueryInformation(c)
    \/ CompleteRequest(c)

Spec == Init /\ [][Next]_vars

-----------------------------------------------------------------------------
(* Properties.                                                             *)

Accepted(c) == IsOp(c, "WRITE") /\ pc[c] # "created" /\ status[c] # "FILE_INVALID"
Written(c) == Accepted(c) /\ status[c] = "SUCCESS"
Covers(c, b) == b >= Offset(c) /\ b < Offset(c) + params[c].length

(* The file length is 0 or the end of a write that was accepted, so no     *)
(* race of two writes can produce a length nobody asked for; and as long   *)
(* as writes have not overlapped it is, between two writes, the largest    *)
(* end of all successful ones.                                             *)
LengthFollowsWrites ==
    /\ file_length = 0 \/ \E c \in Irps : Accepted(c) /\ file_length = End(c)
    /\ ~overlapped /\ (\A c \in Irps : ~Writing(c)) =>
        /\ \A c \in Irps : Written(c) => End(c) <= file_length
        /\ file_length > 0 => \E c \in Irps : Written(c) /\ End(c) = file_length

(* A read returns, for every byte, what a write stored there that was not  *)
(* yet superseded when the read was dispatched; uninitialised memory only  *)
(* where no write had succeeded before.  Bytes of different writes may mix *)
(* in one read, but no byte is out of date.                                *)
ReadIsRegular ==
    \A r \in Irps : IsOp(r, "READ") /\ status[r] = "SUCCESS" =>
      \A b \in {x \in Bytes : Covers(r, x)} :
        LET w == systemBuffer[r][b] IN
        IF w = None
        THEN \A v \in earlier[r] : ~(Written(v) /\ Covers(v, b))
        ELSE /\ Accepted(w) /\ Covers(w, b) /\ r \notin earlier[w]
             /\ \A v \in earlier[r] : ~(Written(v) /\ Covers(v, b) /\ w \in earlier[v])

(* A query never answers more than the buffer holds, and while writes do   *)
(* not overlap it answers no less than any write had reached that was      *)
(* complete when the query was dispatched.                                 *)
QueryIsFresh ==
    \A q \in Irps : endOfFile[q] # None =>
        /\ endOfFile[q] <= MAX_FILE_LENGTH
        /\ ~overlapped => \A w \in earlier[q] : Written(w) => End(w) <= endOfFile[q]
=============================================================================
