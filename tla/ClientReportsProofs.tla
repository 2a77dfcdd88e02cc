------------------------- MODULE ClientReportsProofs -------------------------
(* Proofs about ClientReports, for any number of calls and of touches and  *)
(* any number of input buffers.                                            *)
EXTENDS ClientReports, TLAPS

-----------------------------------------------------------------------------
(* Sequences.                                                              *)

LEMMA ConcatFacts ==
    ASSUME NEW S, NEW s \in Seq(S), NEW t \in Seq(S)
    PROVE  /\ s \o t \in Seq(S) /\ Len(s \o t) = Len(s) + Len(t)
           /\ \A i \in 1..Len(s) : (s \o t)[i] = s[i]
           /\ \A i \in 1..Len(t) : (s \o t)[Len(s) + i] = t[i]
OBVIOUS

LEMMA AppendFacts ==
    ASSUME NEW S, NEW s \in Seq(S), NEW x \in S
    PROVE  /\ Append(s, x) \in Seq(S) /\ Len(Append(s, x)) = Len(s) + 1 /\ Len(s) \in Nat
           /\ Append(s, x)[Len(s) + 1] = x
           /\ \A i \in 1..Len(s) : Append(s, x)[i] = s[i]
OBVIOUS

LEMMA TailFacts ==
    ASSUME NEW S, NEW s \in Seq(S), s # <<>>
    PROVE  /\ Tail(s) \in Seq(S) /\ Len(Tail(s)) = Len(s) - 1 /\ Len(s) \in Nat \ {0}
           /\ Head(s) = s[1] /\ Head(s) \in S
           /\ \A i \in 1..Len(Tail(s)) : Tail(s)[i] = s[i + 1]
OBVIOUS


-----------------------------------------------------------------------------
(* The report descriptor: where the data of each report lies.              *)

\* The bits before a field are a recursive sum, which some function is.
IsSum(h, fields, n) == h[1] = 0 /\ \A i \in 1..n : h[i + 1] = h[i] + fields[i].bits

LEMMA SumFacts ==
    ASSUME NEW fields, NEW n \in Nat, Len(fields) = n, NEW g \in [1..(n + 1) -> Int],
           IsSum(g, fields, n)
    PROVE  IsSum(BitsBefore(fields), fields, n)
<1> DEFINE Sum(h) == h = [i \in 1..(Len(fields) + 1) |->
                            IF i = 1 THEN 0 ELSE h[i - 1] + fields[i - 1].bits]
           before == BitsBefore(fields)
<1>1. \A i \in 1..(n + 1) : i = 1 \/ (i - 1 \in 1..n /\ (i - 1) + 1 = i)
  OBVIOUS
<1>2. \A i \in 1..(n + 1) : g[i] = IF i = 1 THEN 0 ELSE g[i - 1] + fields[i - 1].bits
  BY <1>1 DEF IsSum
<1>3. Sum(g)
  BY <1>2
<1>4. Sum(before)
  BY <1>3 DEF BitsBefore
<1>5. 1 \in 1..(n + 1) /\ \A i \in 1..n : i + 1 \in 1..(n + 1) /\ i + 1 # 1 /\ (i + 1) - 1 = i
  OBVIOUS
<1> HIDE DEF before
<1>6. \A i \in 1..(n + 1) : before[i] = IF i = 1 THEN 0 ELSE before[i - 1] + fields[i - 1].bits
  BY <1>4
<1>7. before[1] = 0 /\ \A i \in 1..n : before[i + 1] = before[i] + fields[i].bits
  BY <1>5, <1>6
<1> QED BY <1>7 DEF before, IsSum

\* The fields of a report: n of them, which take m bytes.
Layout(kind, n, m) ==
    LET fields == DefaultReportDescriptor[kind]
        before == BitsBefore(fields)
    IN  /\ Len(fields) = n /\ before[n + 1] = 8 * m
        /\ \A i \in 1..n : /\ before[i] \in Int /\ 0 <= before[i]
                           /\ before[i + 1] \in Int /\ before[i + 1] <= 8 * m

LEMMA MouseLayout == Layout("MOUSE", 5, 6)
<1> DEFINE fields == DefaultReportDescriptor["MOUSE"]
           before == BitsBefore(fields)
<1> DEFINE g == <<0, 5, 8, 24, 40, 48>>
<1>1. /\ Len(fields) = 5
      /\ fields[1].bits = 5 /\ fields[2].bits = 3 /\ fields[3].bits = 16 /\ fields[4].bits = 16
      /\ fields[5].bits = 8
  BY DEF DefaultReportDescriptor, Data, Cnst
<1> HIDE DEF fields
<1>2. g \in [1..(5 + 1) -> Int] /\ IsSum(g, fields, 5)
  BY <1>1 DEF IsSum
<1> HIDE DEF g
<1>3. IsSum(before, fields, 5)
  BY <1>1, <1>2, SumFacts
<1> HIDE DEF before
<1>4. /\ before[1] = 0 /\ before[2] = 5 /\ before[3] = 8 /\ before[4] = 24 /\ before[5] = 40
      /\ before[6] = 48
  BY <1>1, <1>3 DEF IsSum
<1> QED BY <1>1, <1>4 DEF Layout, before, fields

LEMMA RelativeMouseLayout == Layout("RELATIVE_MOUSE", 4, 4)
<1> DEFINE fields == DefaultReportDescriptor["RELATIVE_MOUSE"]
           before == BitsBefore(fields)
<1> DEFINE g == <<0, 5, 8, 24, 32>>
<1>1. /\ Len(fields) = 4
      /\ fields[1].bits = 5 /\ fields[2].bits = 3 /\ fields[3].bits = 16 /\ fields[4].bits = 8
  BY DEF DefaultReportDescriptor, Data, Cnst
<1> HIDE DEF fields
<1>2. g \in [1..(4 + 1) -> Int] /\ IsSum(g, fields, 4)
  BY <1>1 DEF IsSum
<1> HIDE DEF g
<1>3. IsSum(before, fields, 4)
  BY <1>1, <1>2, SumFacts
<1> HIDE DEF before
<1>4. /\ before[1] = 0 /\ before[2] = 5 /\ before[3] = 8 /\ before[4] = 24 /\ before[5] = 32
  BY <1>1, <1>3 DEF IsSum
<1> QED BY <1>1, <1>4 DEF Layout, before, fields

LEMMA DigiLayout == Layout("DIGI", 4, 5)
<1> DEFINE fields == DefaultReportDescriptor["DIGI"]
           before == BitsBefore(fields)
<1> DEFINE g == <<0, 2, 8, 24, 40>>
<1>1. /\ Len(fields) = 4
      /\ fields[1].bits = 2 /\ fields[2].bits = 6 /\ fields[3].bits = 16 /\ fields[4].bits = 16
  BY DEF DefaultReportDescriptor, Data, Cnst
<1> HIDE DEF fields
<1>2. g \in [1..(4 + 1) -> Int] /\ IsSum(g, fields, 4)
  BY <1>1 DEF IsSum
<1> HIDE DEF g
<1>3. IsSum(before, fields, 4)
  BY <1>1, <1>2, SumFacts
<1> HIDE DEF before
<1>4. /\ before[1] = 0 /\ before[2] = 2 /\ before[3] = 8 /\ before[4] = 24 /\ before[5] = 40
  BY <1>1, <1>3 DEF IsSum
<1> QED BY <1>1, <1>4 DEF Layout, before, fields

LEMMA JoystickLayout == Layout("JOYSTICK", 6, 8)
<1> DEFINE fields == DefaultReportDescriptor["JOYSTICK"]
           before == BitsBefore(fields)
<1> DEFINE g == <<0, 8, 24, 32, 40, 48, 64>>
<1>1. /\ Len(fields) = 6
      /\ fields[1].bits = 8 /\ fields[2].bits = 16 /\ fields[3].bits = 8 /\ fields[4].bits = 8
      /\ fields[5].bits = 8 /\ fields[6].bits = 16
  BY DEF DefaultReportDescriptor, Data, Cnst
<1> HIDE DEF fields
<1>2. g \in [1..(6 + 1) -> Int] /\ IsSum(g, fields, 6)
  BY <1>1 DEF IsSum
<1> HIDE DEF g
<1>3. IsSum(before, fields, 6)
  BY <1>1, <1>2, SumFacts
<1> HIDE DEF before
<1>4. /\ before[1] = 0 /\ before[2] = 8 /\ before[3] = 24 /\ before[4] = 32 /\ before[5] = 40
      /\ before[6] = 48 /\ before[7] = 64
  BY <1>1, <1>3 DEF IsSum
<1> QED BY <1>1, <1>4 DEF Layout, before, fields

LEMMA KeyboardLayout ==
    /\ Layout("KEYBOARD", 3, 8)
    /\ LET fields == DefaultReportDescriptor["KEYBOARD"] IN
       /\ BitsBefore(fields)[2] = 8 /\ BitsBefore(fields)[3] = 16 /\ ~fields[2].data
<1> DEFINE fields == DefaultReportDescriptor["KEYBOARD"]
           before == BitsBefore(fields)
<1> DEFINE g == <<0, 8, 16, 64>>
<1>1. /\ Len(fields) = 3
      /\ fields[1].bits = 8 /\ fields[2].bits = 8 /\ fields[3].bits = 48
      /\ ~fields[2].data
  BY DEF DefaultReportDescriptor, Data, Cnst
<1> HIDE DEF fields
<1>2. g \in [1..(3 + 1) -> Int] /\ IsSum(g, fields, 3)
  BY <1>1 DEF IsSum
<1> HIDE DEF g
<1>3. IsSum(before, fields, 3)
  BY <1>1, <1>2, SumFacts
<1> HIDE DEF before
<1>4. /\ before[1] = 0 /\ before[2] = 8 /\ before[3] = 16 /\ before[4] = 64
  BY <1>1, <1>3 DEF IsSum
<1> QED BY <1>1, <1>4 DEF Layout, before, fields

LEMMA MessageLayout == Layout("MESSAGE", 1, 32)
<1> DEFINE fields == DefaultReportDescriptor["MESSAGE"]
           before == BitsBefore(fields)
<1> DEFINE g == <<0, 256>>
<1>1. /\ Len(fields) = 1
      /\ fields[1].bits = 256
  BY DEF DefaultReportDescriptor, Data, Cnst
<1> HIDE DEF fields
<1>2. g \in [1..(1 + 1) -> Int] /\ IsSum(g, fields, 1)
  BY <1>1 DEF IsSum
<1> HIDE DEF g
<1>3. IsSum(before, fields, 1)
  BY <1>1, <1>2, SumFacts, ZenonT(60)
<1> HIDE DEF before
<1>4. /\ before[1] = 0 /\ before[2] = 256
  BY <1>1, <1>3 DEF IsSum
<1> QED BY <1>1, <1>4 DEF Layout, before, fields

LEMMA MtouchLayout == Layout("MTOUCH", 19, 21)
<1> DEFINE fields == DefaultReportDescriptor["MTOUCH"]
           before == BitsBefore(fields)
<1> DEFINE g == <<0, 1, 2, 3, 8, 16, 32, 48, 64, 80, 81, 82, 83, 88, 96, 112, 128, 144, 160, 168>>
<1>1. /\ Len(fields) = 19
      /\ fields[1].bits = 1 /\ fields[2].bits = 1 /\ fields[3].bits = 1 /\ fields[4].bits = 5
      /\ fields[5].bits = 8 /\ fields[6].bits = 16 /\ fields[7].bits = 16 /\ fields[8].bits = 16
      /\ fields[9].bits = 16 /\ fields[10].bits = 1 /\ fields[11].bits = 1
      /\ fields[12].bits = 1 /\ fields[13].bits = 5 /\ fields[14].bits = 8
      /\ fields[15].bits = 16 /\ fields[16].bits = 16 /\ fields[17].bits = 16
      /\ fields[18].bits = 16 /\ fields[19].bits = 8
  <2> DEFINE Fields == {Data(1), Cnst(5), Data(8), Data(16)}
             touch == MT_TOUCH_COLLECTION
             last == <<Data(8)>>
             two == touch \o touch
  <2>1. /\ Len(touch) = 9
        /\ touch[1].bits = 1 /\ touch[2].bits = 1 /\ touch[3].bits = 1 /\ touch[4].bits = 5
        /\ touch[5].bits = 8 /\ \A i \in 6..9 : touch[i].bits = 16
    BY DEF MT_TOUCH_COLLECTION, Data, Cnst
  <2>2. Len(last) = 1 /\ last[1].bits = 8
    BY DEF Data
  <2>3. fields = two \o last /\ touch \in Seq(Fields) /\ last \in Seq(Fields)
    BY DEF DefaultReportDescriptor, MT_TOUCH_COLLECTION
  <2> HIDE DEF fields, touch, last, Fields
  <2>4. two \in Seq(Fields)
    BY <2>3, ConcatFacts
  <2>5. /\ Len(two) = Len(touch) + Len(touch)
        /\ \A i \in 1..Len(touch) : two[i] = touch[i] /\ two[Len(touch) + i] = touch[i]
    BY <2>3, ConcatFacts
  <2> HIDE DEF two
  <2>6. /\ Len(fields) = Len(two) + Len(last)
        /\ \A i \in 1..Len(two) : fields[i] = two[i]
        /\ \A i \in 1..Len(last) : fields[Len(two) + i] = last[i]
    BY <2>3, <2>4, ConcatFacts
  <2>7. /\ Len(two) = 18 /\ Len(fields) = 19 /\ fields[19] = last[1]
        /\ \A i \in 1..9 : two[i] = touch[i] /\ two[9 + i] = touch[i]
        /\ \A i \in 1..18 : fields[i] = two[i]
    BY <2>1, <2>2, <2>5, <2>6
  <2>8. \A i \in 1..9 : fields[i] = touch[i] /\ fields[9 + i] = touch[i]
    BY <2>7
  <2> QED BY <2>1, <2>2, <2>7, <2>8
<1> HIDE DEF fields
<1>2. g \in [1..(19 + 1) -> Int] /\ IsSum(g, fields, 19)
  BY <1>1 DEF IsSum
<1> HIDE DEF g
<1>3. IsSum(before, fields, 19)
  BY <1>1, <1>2, SumFacts
<1> HIDE DEF before
<1>4. /\ before[1] = 0 /\ before[2] = 1 /\ before[3] = 2 /\ before[4] = 3 /\ before[5] = 8
      /\ before[6] = 16 /\ before[7] = 32
  BY <1>1, <1>3 DEF IsSum
<1>5. /\ before[8] = 48 /\ before[9] = 64 /\ before[10] = 80 /\ before[11] = 81
      /\ before[12] = 82 /\ before[13] = 83 /\ before[14] = 88
  BY <1>1, <1>3, <1>4 DEF IsSum
<1>6. /\ before[15] = 96 /\ before[16] = 112 /\ before[17] = 128 /\ before[18] = 144
      /\ before[19] = 160 /\ before[20] = 168
  BY <1>1, <1>3, <1>5 DEF IsSum
<1> QED BY <1>1, <1>4, <1>5, <1>6 DEF Layout, before, fields

LEMMA DataFacts ==
    ASSUME NEW kind \in Kinds, NEW n \in Nat, NEW m \in Nat, Layout(kind, n, m)
    PROVE  DeclaredSize[kind] = 1 + m /\ DataBytes[kind] \subseteq 1..m
<1> DEFINE fields == DefaultReportDescriptor[kind]
           before == BitsBefore(fields)
           Span(i) == (1 + before[i] \div 8)..(1 + (before[i + 1] - 1) \div 8)
<1>1. /\ Len(fields) = n /\ before[n + 1] = 8 * m
      /\ \A i \in 1..n : /\ before[i] \in Int /\ 0 <= before[i]
                         /\ before[i + 1] \in Int /\ before[i + 1] <= 8 * m
  BY DEF Layout
<1>2. DeclaredSize[kind] = 1 + before[n + 1] \div 8
  BY <1>1 DEF DeclaredSize
<1>3. DataBytes[kind] = UNION {Span(i) : i \in {j \in 1..n : fields[j].data}}
  BY <1>1 DEF DataBytes
<1> HIDE DEF fields, before
<1>4. (8 * m) \div 8 = m
  OBVIOUS
<1>5. ASSUME NEW i \in 1..n PROVE Span(i) \subseteq 1..m
  <2>1. \A b, c \in Int : 0 <= b /\ c <= 8 * m => b \div 8 >= 0 /\ (c - 1) \div 8 <= m - 1
    OBVIOUS
  <2>2. \A b, c \in Int : b \div 8 \in Int /\ (c - 1) \div 8 \in Int
    OBVIOUS
  <2> QED BY <1>1, <2>1, <2>2
<1> QED BY <1>1, <1>2, <1>3, <1>4, <1>5

\* What the driver declares is what the library sends: the sizes agree, and every byte of data
\* is one of those behind the report id; of a keyboard report the second is none.
LEMMA DescriptorFacts ==
    /\ \A kind \in Kinds : /\ DeclaredSize[kind] = ReportStruct[kind].size
                           /\ DataBytes[kind] \subseteq 1..(ReportStruct[kind].size - 1)
    /\ 2 \notin DataBytes["KEYBOARD"]
<1>1. \A kind \in Kinds : kind \in {"MOUSE", "RELATIVE_MOUSE", "DIGI", "MTOUCH", "JOYSTICK",
                                    "KEYBOARD", "MESSAGE"}
  BY DEF Kinds, ReportStruct
<1>2. ASSUME NEW kind \in Kinds
      PROVE  /\ DeclaredSize[kind] = ReportStruct[kind].size
             /\ DataBytes[kind] \subseteq 1..(ReportStruct[kind].size - 1)
  <2>1. PICK n, m \in Nat : Layout(kind, n, m) /\ ReportStruct[kind].size = 1 + m
    BY <1>1, MouseLayout, RelativeMouseLayout, DigiLayout, MtouchLayout, JoystickLayout,
       KeyboardLayout, MessageLayout DEF ReportStruct
  <2> QED BY <2>1, DataFacts
<1>3. 2 \notin DataBytes["KEYBOARD"]
  <2> DEFINE fields == DefaultReportDescriptor["KEYBOARD"]
             before == BitsBefore(fields)
  <2>1. /\ before[2] = 8 /\ before[3] = 16 /\ before[4] = 64 /\ Len(fields) = 3
        /\ before[1] \in Int /\ 0 <= before[1] /\ ~fields[2].data
    BY KeyboardLayout DEF Layout
  <2>2. DataBytes["KEYBOARD"] =
          UNION {(1 + before[i] \div 8)..(1 + (before[i + 1] - 1) \div 8)
                   : i \in {j \in 1..Len(fields) : fields[j].data}}
    BY DEF DataBytes, Kinds, ReportStruct
  <2> HIDE DEF fields, before
  <2>3. ASSUME NEW i \in 1..3, fields[i].data
        PROVE  2 \notin (1 + before[i] \div 8)..(1 + (before[i + 1] - 1) \div 8)
    <3>1. i = 1 \/ i = 3
      BY <2>1, <2>3
    <3> QED BY <2>1, <3>1
  <2> QED BY <2>1, <2>2, <2>3
<1> QED BY <1>2, <1>3
-----------------------------------------------------------------------------
(* The inductive invariant.                                                *)

Bytes == 0..(CONTROL_REPORT_SIZE - 1)
Lists == Seq(Cells)

\* What the types leave open: calls are counted, and a consumer's frames are lists of bytes.
Bounded ==
    /\ Len(calls) <= MaxCalls
    /\ frame \in [need : 0..255, got : Lists]
    /\ frames \in Seq(Lists)
    /\ delivered.call \in Nat

IsTouch(n) == calls[n].kind = "MTOUCH" /\ calls[n].count > 0

\* While a list of touches goes out the header is in place, and once its first report has been
\* sent the frame being put together is that call's, with the touches sent so far.
Touching ==
    LET n == Len(calls) IN
    pc = "touching" =>
       /\ n > 0 /\ IsTouch(n) /\ numberOfTouchesSent < calls[n].count
       /\ controlReport[1] = <<n, ReportStruct["MTOUCH"].size>>
       /\ numberOfTouchesSent > 0 =>
            /\ frame.need = calls[n].count
            /\ frame.got = [k \in 1..numberOfTouchesSent |-> <<n, k>>]

\* The frames are those of calls; that of the last call is there once all of it has been sent.
Unfinished == LET n == Len(calls) IN IsTouch(n) /\ numberOfTouchesSent < calls[n].count
Completed ==
    LET n == Len(calls) IN
    /\ \A i \in 1..Len(frames) :
         \E m \in 1..n : IsTouch(m) /\ frames[i] = TouchesOf(m) /\ (Unfinished => m < n)
    /\ n > 0 /\ IsTouch(n) /\ ~Unfinished => \E i \in 1..Len(frames) : frames[i] = TouchesOf(n)

\* The unread messages are the last of those written; what has been read came before them.
Messages ==
    /\ \A i, j \in 1..Len(written) : i < j => written[i] < written[j]
    /\ Len(unread) <= Len(written)
    /\ \A i \in 1..Len(unread) : unread[i] = written[Len(written) - Len(unread) + i]
    /\ \A i \in 1..Len(received) :
          \E j \in 1..(Len(written) - Len(unread)) : received[i] = written[j]
    /\ \A i, j \in 1..Len(received) : i < j => received[i] < received[j]
    /\ \A j \in 1..(Len(written) - Len(unread)) :
          j + InputBuffers > Len(written) =>
             \E i \in 1..Len(received) : received[i] = written[j]

ReportsInv ==
    TypeOK /\ Bounded /\ NothingStale /\ Touching /\ Completed /\ Messages
-----------------------------------------------------------------------------
(* What the calls do to the buffer and what they hand over.                *)

LEMMA SizeFacts ==
    /\ Bytes = 0..64 /\ HeaderSize = 2 /\ TouchSize = 10 /\ ActualCountByte = 21
    /\ REPORTID_CONTROL = 64
    /\ \A kind \in Kinds :
         /\ ReportStruct[kind].size \in 5..33 /\ ReportStruct[kind].id \in 1..16
         /\ ReportStruct[kind].id = ReportStruct["MTOUCH"].id <=> kind = "MTOUCH"
         /\ ReportStruct[kind].id = ReportStruct["MESSAGE"].id <=> kind = "MESSAGE"
    /\ ReportStruct["MTOUCH"].size = 22 /\ ReportStruct["MESSAGE"].size = 33
    /\ ReportStruct["MTOUCH"].id = 1
    /\ "MTOUCH" \in Kinds /\ "MESSAGE" \in Kinds
BY DEF Bytes, CONTROL_REPORT_SIZE, HeaderSize, TouchSize, ActualCountByte, REPORTID_CONTROL,
   ReportStruct, Kinds

LEMMA CellFacts ==
    ASSUME NEW n \in 0..MaxCalls, NEW x \in 0..255
    PROVE  <<n, x>> \in Cells /\ <<n, x>>[1] = n /\ <<n, x>>[2] = x
BY DEF Cells

LEMMA CallsFacts ==
    ASSUME TypeOK, Bounded
    PROVE  /\ Len(calls) \in Nat /\ Len(calls) \in 0..MaxCalls
           /\ calls \in Seq([kind : Kinds, count : 0..255])
           /\ \A m \in 1..Len(calls) : calls[m].kind \in Kinds /\ calls[m].count \in 0..255
           /\ controlReport \in [Bytes -> Cells] /\ DOMAIN controlReport = Bytes
<1>1. calls \in Seq([kind : Kinds, count : 0..255]) /\ Len(calls) <= MaxCalls
      /\ controlReport \in [Bytes -> Cells] /\ MaxCalls \in Nat
  BY ClientReportsAssumption DEF TypeOK, Bounded, Bytes
<1> DEFINE Call == [kind : Kinds, count : 0..255]
<1>2. Len(calls) \in Nat /\ \A m \in 1..Len(calls) : calls[m] \in Call
  <2> HIDE DEF Call
  <2>1. calls \in Seq(Call)
    BY <1>1 DEF Call
  <2> QED BY <2>1
<1>3. Len(calls) \in 0..MaxCalls
  BY <1>1, <1>2
<1>4. \A m \in 1..Len(calls) : calls[m].kind \in Kinds /\ calls[m].count \in 0..255
  BY <1>2
<1> QED BY <1>1, <1>2, <1>3, <1>4

\* A report handed over, and what is done with it.
Handed(n, body) ==
    /\ delivered' = [call |-> n, body |-> body]
    /\ IF body[0][2] = ReportStruct["MTOUCH"].id THEN AddTouches(body)
                                                 ELSE UNCHANGED <<frame, frames>>
    /\ IF body[0][2] = ReportStruct["MESSAGE"].id THEN AddMessage(n, body)
                                                  ELSE UNCHANGED <<unread, written>>

LEMMA OutputFacts ==
    ASSUME NEW n, NEW sent \in BOOLEAN, HidOutput(n, sent), NEW size,
           controlReport'[1][2] = size
    PROVE  \/ ~sent /\ UNCHANGED receivers
           \/ sent /\ Handed(n, [o \in 0..(size - 1) |-> controlReport'[2 + o]])
BY SizeFacts DEF HidOutput, Handed

LEMMA UpdateFills ==
    ASSUME TypeOK, Bounded, NEW kind \in Kinds,
           NEW assigned \in SUBSET (1..(ReportStruct[kind].size - 1)), Update(kind, assigned)
    PROVE  LET n == Len(calls) + 1
               size == ReportStruct[kind].size
           IN  /\ n \in 1..MaxCalls
               /\ controlReport' \in [Bytes -> Cells]
               /\ controlReport'[1] = <<n, size>>
               /\ controlReport'[2] = <<n, ReportStruct[kind].id>>
               /\ \A a \in assigned : controlReport'[2 + a] = <<n, 0>>
<1> DEFINE n == Len(calls) + 1
           size == ReportStruct[kind].size
           id == ReportStruct[kind].id
           header == Header(n, kind)
           body == Body(n, kind, assigned)
<1>1. /\ n \in 1..MaxCalls /\ size \in 5..33 /\ id \in 1..16
      /\ controlReport' = Over(Over(header, body), controlReport)
  <2>1. n <= MaxCalls /\ controlReport' = Over(Over(header, body), controlReport)
    BY DEF Update, Fill
  <2>2. Len(calls) \in Nat
    BY CallsFacts
  <2>3. n \in 1..MaxCalls
    BY <2>1, <2>2, ClientReportsAssumption
  <2> QED BY <2>1, <2>3, SizeFacts
<1>2. /\ DOMAIN header = {0, 1} /\ header[0] = <<n, 64>> /\ header[1] = <<n, size>>
  BY SizeFacts DEF Header
<1>3. /\ DOMAIN body = {2 + a : a \in {0} \cup assigned}
      /\ body[2] = <<n, id>> /\ \A a \in assigned : body[2 + a] = <<n, 0>>
  BY <1>1, SizeFacts DEF Body
<1> HIDE DEF header, body, n, size, id
<1>4. <<n, 64>> \in Cells /\ <<n, size>> \in Cells /\ <<n, id>> \in Cells /\ <<n, 0>> \in Cells
  <2>1. n \in 0..MaxCalls /\ 64 \in 0..255 /\ size \in 0..255 /\ id \in 0..255 /\ 0 \in 0..255
    BY <1>1, ClientReportsAssumption
  <2> QED BY <2>1 DEF Cells
<1>5. \A a \in assigned : a \in 1..(size - 1) /\ 2 + a \in 3..34
  BY <1>1 DEF size
<1>6. DOMAIN header \cup DOMAIN body \subseteq Bytes
  BY <1>2, <1>3, <1>5, SizeFacts
<1>7. /\ DOMAIN controlReport' = Bytes
      /\ controlReport'[0] = <<n, 64>> /\ controlReport'[1] = <<n, size>>
      /\ controlReport'[2] = <<n, id>> /\ \A a \in assigned : controlReport'[2 + a] = <<n, 0>>
      /\ \A o \in Bytes : o \notin DOMAIN header \cup DOMAIN body =>
            controlReport'[o] = controlReport[o]
  BY <1>1, <1>2, <1>3, <1>5, <1>6, CallsFacts DEF Over
<1>8. \A o \in Bytes : controlReport'[o] \in Cells
  <2> TAKE o \in Bytes
  <2>1. CASE o \in DOMAIN header
    BY <1>2, <1>4, <1>7, <2>1
  <2>2. CASE o \in DOMAIN body
    BY <1>3, <1>4, <1>7, <2>2
  <2>3. CASE o \notin DOMAIN header \cup DOMAIN body
    BY <1>7, <2>3, CallsFacts
  <2> QED BY <2>1, <2>2, <2>3
<1>9. controlReport' = [o \in Bytes |-> controlReport'[o]]
  BY <1>1, <1>7 DEF Over
<1> QED BY <1>1, <1>7, <1>8, <1>9 DEF n, size, id
\* A function of the library, other than that for touches: what it does to everything else.
LEMMA UpdateEffect ==
    ASSUME TypeOK, Bounded, NEW kind \in Kinds \ {"MTOUCH"},
           NEW assigned \in SUBSET (1..(ReportStruct[kind].size - 1)), Update(kind, assigned),
           kind = "MESSAGE" => 1 \in assigned
    PROVE  LET n == Len(calls) + 1 IN
           /\ pc = "idle" /\ UNCHANGED <<pc, numberOfTouchesSent, received, frame, frames>>
           /\ n \in 1..MaxCalls /\ calls' = Append(calls, [kind |-> kind, count |-> 0])
           /\ controlReport' \in [Bytes -> Cells]
           /\ \/ UNCHANGED delivered
              \/ \E body : /\ delivered' = [call |-> n, body |-> body]
                           /\ DOMAIN body = 0..(ReportStruct[kind].size - 1)
                           /\ \A o \in {0} \cup assigned : body[o][1] = n
           /\ \/ UNCHANGED <<unread, written>>
              \/ /\ kind = "MESSAGE" /\ written' = Append(written, n)
                 /\ unread' = Append(IF Len(unread) = InputBuffers THEN Tail(unread) ELSE unread, n)
<1> DEFINE n == Len(calls) + 1
           size == ReportStruct[kind].size
           body == [o \in 0..(size - 1) |-> controlReport'[2 + o]]
<1>1. /\ pc = "idle" /\ UNCHANGED <<pc, numberOfTouchesSent, received>>
      /\ calls' = Append(calls, [kind |-> kind, count |-> 0])
      /\ \E sent \in BOOLEAN : HidOutput(n, sent)
  BY DEF Update
<1>2. /\ n \in 1..MaxCalls /\ controlReport' \in [Bytes -> Cells]
      /\ controlReport'[1] = <<n, size>>
      /\ controlReport'[2] = <<n, ReportStruct[kind].id>>
      /\ \A a \in assigned : controlReport'[2 + a] = <<n, 0>>
  BY UpdateFills
<1>3. size \in 5..33
  BY SizeFacts
<1>4. /\ DOMAIN body = 0..(size - 1)
      /\ body[0] = <<n, ReportStruct[kind].id>> /\ \A a \in assigned : body[a] = <<n, 0>>
  <2> HIDE DEF n
  <2>1. \A o \in {0} \cup assigned : o \in 0..(size - 1) /\ 2 + 0 = 2
    BY <1>3
  <2> QED BY <1>2, <2>1
<1>5. UNCHANGED receivers \/ Handed(n, body)
  <2>1. controlReport'[1][2] = size
    BY <1>2
  <2> HIDE DEF n, size
  <2> QED BY <1>1, <2>1, OutputFacts
<1> HIDE DEF body, n
<1>6. CASE UNCHANGED receivers
  BY <1>1, <1>2, <1>6 DEF receivers, n
<1>7. CASE Handed(n, body)
  <2>1. body[0][2] = ReportStruct[kind].id /\ \A o \in {0} \cup assigned : body[o][1] = n
    BY <1>4
  <2>2. UNCHANGED <<frame, frames>> /\ delivered' = [call |-> n, body |-> body]
    BY <1>7, <2>1, SizeFacts DEF Handed
  <2>3. ASSUME kind = "MESSAGE"
        PROVE  /\ written' = Append(written, n)
               /\ unread' = Append(IF Len(unread) = InputBuffers THEN Tail(unread) ELSE unread, n)
    <3>1. AddMessage(n, body) /\ body[1] = <<n, 0>>
      BY <1>4, <1>7, <2>1, <2>3, SizeFacts DEF Handed
    <3> QED BY <3>1 DEF AddMessage
  <2>4. kind # "MESSAGE" => UNCHANGED <<unread, written>>
    BY <1>7, <2>1, SizeFacts DEF Handed
  <2> QED BY <1>1, <1>2, <1>4, <2>1, <2>2, <2>3, <2>4 DEF n
<1> QED BY <1>5, <1>6, <1>7

\* The rest of a list of touches: the slots of the next report.
First == numberOfTouchesSent + 1
Second == IF First < calls[Len(calls)].count THEN First + 1 ELSE 0
Count == IF First = 1 THEN calls[Len(calls)].count ELSE 0

LEMMA TouchingFacts ==
    ASSUME TypeOK, Bounded, Touching, pc = "touching"
    PROVE  LET n == Len(calls) IN
           /\ n \in 1..Len(calls) /\ n \in 0..MaxCalls
           /\ calls[n].kind = "MTOUCH" /\ calls[n].count \in 1..255
           /\ numberOfTouchesSent \in Nat /\ numberOfTouchesSent < calls[n].count
           /\ First \in 1..calls[n].count
           /\ Second \in 0..calls[n].count /\ Count \in 0..calls[n].count
<1> DEFINE n == Len(calls)
<1>1. n \in 1..Len(calls) /\ n \in 0..MaxCalls /\ IsTouch(n) /\ numberOfTouchesSent < calls[n].count
  BY CallsFacts DEF Touching
<1>2. calls[n].kind = "MTOUCH" /\ calls[n].count > 0 /\ calls[n].count \in 0..255
      /\ numberOfTouchesSent \in 0..256
  BY <1>1, CallsFacts DEF IsTouch, TypeOK
<1>d. PICK c \in 1..255, s \in Nat : c = calls[n].count /\ s = numberOfTouchesSent
  <2> HIDE DEF n
  <2>1. calls[n].count \in 1..255
    BY <1>2
  <2>2. numberOfTouchesSent \in Nat
    BY <1>2
  <2> QED BY <2>1, <2>2
<1>3. First = s + 1 /\ s < c /\ Second = (IF s + 1 < c THEN (s + 1) + 1 ELSE 0)
      /\ Count = (IF s + 1 = 1 THEN c ELSE 0)
  BY <1>1, <1>d DEF First, Second, Count
<1> HIDE DEF n
<1>4. First \in 1..c /\ Second \in 0..c /\ Count \in 0..c
  BY <1>3
<1> QED BY <1>1, <1>2, <1>3, <1>4, <1>d DEF n

LEMMA SendTouchesFills ==
    ASSUME TypeOK, Bounded, Touching, SendTouches
    PROVE  LET n == Len(calls) IN
           /\ pc = "touching" /\ controlReport' \in [Bytes -> Cells]
           /\ controlReport'[1] = controlReport[1]
           /\ controlReport'[2] = <<n, 1>> /\ controlReport'[23] = <<n, Count>>
           /\ \A o \in 3..12 : controlReport'[o] = <<n, First>>
           /\ \A o \in 13..22 : controlReport'[o] = <<n, Second>>
<1> DEFINE n == Len(calls)
           bytes == TouchReport(n, First, Second, Count)
<1>1. pc = "touching" /\ controlReport' = Over(bytes, controlReport)
  BY DEF SendTouches, SendNext, Fill, First, Second, Count
<1>2. /\ n \in 0..MaxCalls /\ First \in 0..255 /\ Second \in 0..255 /\ Count \in 0..255
  <2>1. \A c \in 1..255 : 0..c \subseteq 0..255 /\ 1..c \subseteq 0..255
    OBVIOUS
  <2> QED BY <1>1, <2>1, TouchingFacts
<1>3. /\ DOMAIN bytes = 2..23 /\ bytes[2] = <<n, 1>> /\ bytes[23] = <<n, Count>>
      /\ \A o \in 3..12 : bytes[o] = <<n, First>>
      /\ \A o \in 13..22 : bytes[o] = <<n, Second>>
  <2> HIDE DEF n
  <2>1. bytes = [o \in 2..23 |-> <<n, CASE o = 2 -> 1 [] o \in 3..12 -> First
                                      [] o = 23 -> Count [] OTHER -> Second>>]
    BY SizeFacts DEF TouchReport
  <2> QED BY <2>1
<1>4. <<n, 1>> \in Cells /\ <<n, Count>> \in Cells /\ <<n, First>> \in Cells
      /\ <<n, Second>> \in Cells
  <2>1. 1 \in 0..255
    OBVIOUS
  <2> QED BY <1>2, <2>1 DEF Cells
<1> HIDE DEF bytes, n
<1>5. \A o \in 2..23 : bytes[o] \in Cells
  <2>1. \A o \in 2..23 : o = 2 \/ o = 23 \/ o \in 3..12 \/ o \in 13..22
    OBVIOUS
  <2> QED BY <1>3, <1>4, <2>1
<1>6. /\ controlReport' = [o \in Bytes |-> controlReport'[o]]
      /\ \A o \in 2..23 : controlReport'[o] = bytes[o]
      /\ \A o \in Bytes \ 2..23 : controlReport'[o] = controlReport[o]
  <2>1. 2..23 \subseteq Bytes
    BY SizeFacts
  <2> QED BY <1>1, <1>3, <2>1, CallsFacts DEF Over
<1>7. \A o \in Bytes : controlReport'[o] \in Cells
  BY <1>5, <1>6, CallsFacts
<1>8. 1 \in Bytes \ 2..23
  BY SizeFacts
<1>9. controlReport' \in [Bytes -> Cells]
  BY <1>6, <1>7
<1>10. 2 \in 2..23 /\ 23 \in 2..23 /\ 3..12 \subseteq 2..23 /\ 13..22 \subseteq 2..23
  OBVIOUS
<1>11. /\ controlReport'[1] = controlReport[1]
       /\ controlReport'[2] = <<n, 1>> /\ controlReport'[23] = <<n, Count>>
       /\ \A o \in 3..12 : controlReport'[o] = <<n, First>>
       /\ \A o \in 13..22 : controlReport'[o] = <<n, Second>>
  BY <1>3, <1>6, <1>8, <1>10
<1> QED BY <1>1, <1>9, <1>11 DEF n
\* The next report of a list of touches: refused, or handed over to the touch consumer.
LEMMA SendTouchesEffect ==
    ASSUME TypeOK, Bounded, Touching, SendTouches
    PROVE  LET n == Len(calls) IN
           /\ UNCHANGED <<calls, received, unread, written>>
           /\ \/ UNCHANGED receivers /\ pc' = "idle" /\ UNCHANGED numberOfTouchesSent
              \/ /\ numberOfTouchesSent' = numberOfTouchesSent + 2
                 /\ pc' = IF numberOfTouchesSent + 2 < calls[n].count THEN "touching" ELSE "idle"
                 /\ \E body : /\ delivered' = [call |-> n, body |-> body]
                              /\ DOMAIN body = 0..21
                              /\ \A o \in 0..21 : body[o][1] = n
                              /\ \A o \in 1..20 : body[o][2] <= calls[n].count
                              /\ body[1] = <<n, First>> /\ body[11] = <<n, Second>>
                              /\ body[21] = <<n, Count>> /\ AddTouches(body)
<1> DEFINE n == Len(calls)
           count == calls[n].count
           body == [o \in 0..(22 - 1) |-> controlReport'[2 + o]]
<1>1. PICK sent \in BOOLEAN :
        /\ HidOutput(n, sent)
        /\ numberOfTouchesSent' = IF sent THEN numberOfTouchesSent + 2 ELSE numberOfTouchesSent
        /\ pc' = IF sent /\ numberOfTouchesSent + 2 < count THEN "touching" ELSE "idle"
  BY DEF SendTouches, SendNext
<1>2. UNCHANGED <<calls, received>> /\ pc = "touching"
  BY DEF SendTouches, SendNext
<1>3. /\ controlReport'[1] = <<n, 22>>
      /\ controlReport'[2] = <<n, 1>> /\ controlReport'[23] = <<n, Count>>
      /\ \A o \in 3..12 : controlReport'[o] = <<n, First>>
      /\ \A o \in 13..22 : controlReport'[o] = <<n, Second>>
  BY <1>2, SendTouchesFills, SizeFacts DEF Touching
<1>4. (~sent /\ UNCHANGED receivers) \/ (sent /\ Handed(n, body))
  <2>1. controlReport'[1][2] = 22
    BY <1>3
  <2> HIDE DEF n
  <2> QED BY <1>1, <2>1, OutputFacts
<1>5. /\ DOMAIN body = 0..21 /\ body[0] = <<n, 1>> /\ body[21] = <<n, Count>>
      /\ \A o \in 1..10 : body[o] = <<n, First>>
      /\ \A o \in 11..20 : body[o] = <<n, Second>>
  <2> HIDE DEF n
  <2>1. /\ \A o \in 1..10 : 2 + o \in 3..12 /\ o \in 0..21
        /\ \A o \in 11..20 : 2 + o \in 13..22 /\ o \in 0..21
        /\ 22 - 1 = 21 /\ 0 \in 0..21 /\ 2 + 0 = 2 /\ 21 \in 0..21 /\ 2 + 21 = 23
    OBVIOUS
  <2> QED BY <1>3, <2>1
<1> HIDE DEF body
<1>6. First <= count /\ Second <= count
  <2>1. count \in 1..255 /\ First \in 1..count /\ Second \in 0..count
    BY <1>2, TouchingFacts
  <2> HIDE DEF count
  <2> QED BY <2>1
<1>7. /\ \A o \in 0..21 : o = 0 \/ o = 21 \/ o \in 1..10 \/ o \in 11..20
      /\ \A o \in 1..20 : o \in 1..10 \/ o \in 11..20
      /\ 1 \in 1..10 /\ 11 \in 11..20
  OBVIOUS
<1>8. /\ \A o \in 0..21 : body[o][1] = n
      /\ \A o \in 1..20 : body[o][2] <= count
      /\ body[1] = <<n, First>> /\ body[11] = <<n, Second>>
  <2> HIDE DEF n, count
  <2>1. \A o \in 0..21 : body[o][1] = n
    BY <1>5, <1>7
  <2>2. \A o \in 1..20 : body[o][2] <= count
    BY <1>5, <1>6, <1>7
  <2> QED BY <1>5, <1>7, <2>1, <2>2
<1>9. CASE ~sent /\ UNCHANGED receivers
  BY <1>1, <1>2, <1>9 DEF receivers
<1>10. CASE sent /\ Handed(n, body)
  <2>1. /\ delivered' = [call |-> n, body |-> body]
        /\ AddTouches(body) /\ UNCHANGED <<unread, written>>
    <3>1. body[0][2] = 1
      BY <1>5
    <3> HIDE DEF n
    <3> QED BY <1>10, <3>1, SizeFacts DEF Handed
  <2> QED BY <1>1, <1>2, <1>5, <1>8, <1>10, <2>1
<1> QED BY <1>4, <1>9, <1>10

\* What the touch consumer makes of it.
Upto(n, k) == [i \in 1..k |-> <<n, i>>]

LEMMA AddTouchesEffect ==
    ASSUME TypeOK, Bounded, Touching, pc = "touching",
           NEW body, AddTouches(body), body[1] = <<Len(calls), First>>,
           body[11] = <<Len(calls), Second>>, body[21] = <<Len(calls), Count>>
    PROVE  LET n == Len(calls)
               c == calls[n].count
               s == numberOfTouchesSent
           IN  \/ s + 2 < c /\ frame' = [need |-> c, got |-> Upto(n, s + 2)] /\ frames' = frames
               \/ c <= s + 2 /\ frame' = NoFrame /\ frames' = Append(frames, TouchesOf(n))
<1> DEFINE n == Len(calls)
           begun == IF Count > 0 THEN [need |-> Count, got |-> <<>>] ELSE frame
           more == Contacts(body, begun.need - Len(begun.got))
           now == [begun EXCEPT !.got = @ \o more]
<1>1. IF Len(now.got) = now.need THEN frame' = NoFrame /\ frames' = Append(frames, now.got)
                                 ELSE frame' = now /\ frames' = frames
  <2> DEFINE count == body[ActualCountByte][2]
             begins == IF count > 0 THEN [need |-> count, got |-> <<>>] ELSE frame
             goes == [begins EXCEPT !.got = @ \o Contacts(body, begins.need - Len(begins.got))]
  <2>1. IF Len(goes.got) = goes.need THEN frame' = NoFrame /\ frames' = Append(frames, goes.got)
                                     ELSE frame' = goes /\ frames' = frames
    BY DEF AddTouches
  <2>2. count = Count
    BY SizeFacts
  <2>3. begins = begun
    BY <2>2
  <2> HIDE DEF begins, begun
  <2>4. goes = now
    BY <2>3
  <2> HIDE DEF goes, now
  <2> QED BY <2>1, <2>4
<1>d. PICK c \in 1..255, s \in Nat :
         c = calls[n].count /\ s = numberOfTouchesSent /\ s < c
  <2>1. /\ calls[n].count \in 1..255 /\ numberOfTouchesSent \in Nat
        /\ numberOfTouchesSent < calls[n].count
    BY TouchingFacts
  <2> HIDE DEF n
  <2> QED BY <2>1
<1>e. c \in Nat /\ 1 <= c /\ c <= 255
  <2>1. c \in 1..255
    BY <1>d
  <2> QED BY <2>1
<1>2. n \in 0..MaxCalls
  BY TouchingFacts
<1>3. First = s + 1 /\ Second = (IF s + 1 < c THEN s + 2 ELSE 0) /\ Count = (IF s = 0 THEN c ELSE 0)
  BY <1>d DEF First, Second, Count
<1>4. body[1] = <<n, s + 1>> /\ (s + 1 < c => body[11] = <<n, s + 2>>) /\ TouchesOf(n) = Upto(n, c)
  BY <1>3, <1>d DEF TouchesOf, Upto
<1>5. begun = [need |-> c, got |-> Upto(n, s)]
  <2>1. CASE s = 0
    <3>1. Upto(n, 0) = <<>>
      BY DEF Upto
    <3> QED BY <1>3, <1>e, <2>1, <3>1
  <2>2. CASE s > 0
    <3>1. frame.need = c /\ frame.got = Upto(n, s)
      BY <1>d, <2>2 DEF Touching, Upto
    <3>2. frame \in [need : 0..255, got : Lists]
      BY DEF Bounded
    <3> QED BY <1>3, <2>2, <3>1, <3>2
  <2> QED BY <1>d, <2>1, <2>2
<1> HIDE DEF n, begun
<1>6. Upto(n, s) \in Lists /\ Len(Upto(n, s)) = s
  <2>1. \A i \in 1..s : i \in 0..255
    BY <1>d, <1>e
  <2>2. \A i \in 1..s : <<n, i>> \in Cells
    BY <1>2, <2>1 DEF Cells
  <2> QED BY <2>2 DEF Upto, Lists
<1> DEFINE m == IF c - s < 2 THEN c - s ELSE 2
<1>7. more = [i \in 1..m |-> <<n, s + i>>]
  <2>1. more = [i \in 1..m |-> body[1 + (i - 1) * 10]]
    BY <1>5, <1>6, SizeFacts DEF Contacts
  <2>2. \A i \in 1..m : body[1 + (i - 1) * 10] = <<n, s + i>>
    <3> TAKE i \in 1..m
    <3>1. i = 1 \/ (i = 2 /\ s + 1 < c)
      BY <1>d
    <3> QED BY <1>4, <3>1
  <2> QED BY <2>1, <2>2
<1> HIDE DEF more, now
<1>8. m \in {1, 2} /\ s + m <= c /\ (m = 2 <=> s + 2 <= c) /\ s + m \in Nat
  BY <1>d, SMTT(30)
<1> HIDE DEF m
<1>9. Upto(n, s) \o more = Upto(n, s + m)
  <2>1. more \in Lists /\ Len(more) = m
    <3>1. \A i \in 1..m : s + i \in 0..255
      BY <1>8, <1>d, <1>e
    <3>2. \A i \in 1..m : <<n, s + i>> \in Cells
      BY <1>2, <3>1 DEF Cells
    <3> QED BY <1>7, <1>8, <3>2 DEF Lists
  <2>0. Upto(n, s) \in Seq(Cells) /\ more \in Seq(Cells)
    BY <1>6, <2>1 DEF Lists
  <2>2. /\ Upto(n, s) \o more \in Seq(Cells)
        /\ Len(Upto(n, s) \o more) = Len(Upto(n, s)) + Len(more)
        /\ \A i \in 1..Len(Upto(n, s)) : (Upto(n, s) \o more)[i] = Upto(n, s)[i]
        /\ \A i \in 1..Len(more) : (Upto(n, s) \o more)[Len(Upto(n, s)) + i] = more[i]
    BY <2>0, ConcatFacts
  <2> DEFINE all == Upto(n, s) \o more
  <2>3. all = [i \in 1..(s + m) |-> all[i]]
    <3>1. all \in Seq(Cells) /\ Len(all) = s + m
      BY <1>6, <2>1, <2>2
    <3> HIDE DEF all
    <3> QED BY <3>1
  <2>4. \A i \in 1..s : all[i] = <<n, i>>
    BY <1>6, <2>2 DEF Upto
  <2>5. \A i \in 1..m : all[s + i] = <<n, s + i>>
    BY <1>6, <1>7, <2>1, <2>2
  <2> HIDE DEF all
  <2>6. \A i \in 1..(s + m) : all[i] = <<n, i>>
    <3> TAKE i \in 1..(s + m)
    <3>1. CASE i \in 1..s
      BY <2>4, <3>1
    <3>2. CASE i \notin 1..s
      <4>1. i - s \in 1..m /\ s + (i - s) = i
        BY <1>8, <1>d, <3>2
      <4> QED BY <2>5, <4>1
    <3> QED BY <3>1, <3>2
  <2>7. all = [i \in 1..(s + m) |-> <<n, i>>]
    BY <2>3, <2>6
  <2> QED BY <2>7 DEF all, Upto
<1>10. now = [need |-> c, got |-> Upto(n, s + m)]
  <2> DEFINE g == Upto(n, s)
  <2>1. now = [[need |-> c, got |-> g] EXCEPT !.got = g \o more]
    BY <1>5 DEF now
  <2> HIDE DEF g
  <2>2. now = [need |-> c, got |-> g \o more]
    BY <2>1
  <2> QED BY <1>9, <2>2 DEF g
<1>11. Len(Upto(n, s + m)) = s + m
  BY <1>8 DEF Upto
<1>12. CASE s + 2 < c
  <2>1. s + m = s + 2 /\ s + 2 # c
    BY <1>8, <1>12, <1>d
  <2> QED BY <1>1, <1>10, <1>11, <1>12, <1>d, <2>1 DEF n
<1>13. CASE c <= s + 2
  <2>1. s + m = c
    BY <1>8, <1>13, <1>d
  <2> QED BY <1>1, <1>4, <1>10, <1>11, <1>13, <1>d, <2>1 DEF n
<1> QED BY <1>12, <1>13, <1>d
-----------------------------------------------------------------------------
(* Each part of the invariant, step by step.                               *)

LEMMA SeqGrows ==
    ASSUME NEW S, NEW T, S \subseteq T, NEW s \in Seq(S)
    PROVE  s \in Seq(T)
<1>1. Len(s) \in Nat /\ s = [i \in 1..Len(s) |-> s[i]] /\ \A i \in 1..Len(s) : s[i] \in T
  OBVIOUS
<1> QED BY <1>1

\* A call is added to those made: the others keep their places.
LEMMA CallsGrow ==
    ASSUME TypeOK, Bounded, NEW kind \in Kinds, NEW count \in 0..255,
           calls' = Append(calls, [kind |-> kind, count |-> count])
    PROVE  LET n == Len(calls) + 1 IN
           /\ Len(calls') = n /\ n \in Nat /\ calls' \in Seq([kind : Kinds, count : 0..255])
           /\ \A m \in 1..Len(calls) : calls'[m] = calls[m] /\ m \in 1..n /\ m # n /\ m < n
           /\ calls'[n].kind = kind /\ calls'[n].count = count /\ n \in 1..n
<1> DEFINE Call == [kind : Kinds, count : 0..255]
           c == [kind |-> kind, count |-> count]
<1>1. calls \in Seq(Call) /\ Len(calls) \in Nat /\ c \in Call
      /\ c.kind = kind /\ c.count = count
  BY CallsFacts
<1> HIDE DEF Call, c
<1>2. /\ calls' \in Seq(Call) /\ Len(calls') = Len(calls) + 1
      /\ calls'[Len(calls) + 1] = c
      /\ \A m \in 1..Len(calls) : calls'[m] = calls[m]
  BY <1>1, AppendFacts DEF c
<1> QED BY <1>1, <1>2 DEF Call

\* Types, when calls only grow and the consumers' part is given.
LEMMA TypeGrows ==
    ASSUME TypeOK, Bounded, NEW kind \in Kinds, NEW count \in 0..255,
           calls' = Append(calls, [kind |-> kind, count |-> count]), Len(calls) + 1 <= MaxCalls,
           controlReport' \in [Bytes -> Cells], pc' \in {"idle", "touching"},
           numberOfTouchesSent' \in 0..256, UNCHANGED <<frame, frames, received>>,
           delivered'.call \in {delivered.call, Len(calls) + 1},
           \/ UNCHANGED <<unread, written>>
           \/ /\ written' = Append(written, Len(calls) + 1)
              /\ unread' = Append(IF Len(unread) = InputBuffers THEN Tail(unread) ELSE unread,
                                  Len(calls) + 1)
    PROVE  TypeOK' /\ Bounded'
<1> DEFINE n == Len(calls) + 1
           kept == IF Len(unread) = InputBuffers THEN Tail(unread) ELSE unread
<1>1. Len(calls') = n /\ n \in Nat /\ calls' \in Seq([kind : Kinds, count : 0..255])
  BY CallsGrow
<1>2. /\ Len(calls) \in Nat /\ 0..Len(calls) \subseteq 0..n /\ 1..Len(calls) \subseteq 1..n
      /\ n \in 0..n /\ n \in 1..n
  BY CallsFacts
<1>3. /\ unread \in Seq(0..Len(calls)) /\ received \in Seq(0..Len(calls))
      /\ written \in Seq(1..Len(calls)) /\ Len(unread) <= InputBuffers
      /\ delivered.call \in 0..Len(calls)
  BY DEF TypeOK
<1> HIDE DEF n
<1>4. unread \in Seq(0..n) /\ received \in Seq(0..n) /\ written \in Seq(1..n)
  BY <1>2, <1>3, SeqGrows
<1>5. kept \in Seq(0..n) /\ Len(kept) < InputBuffers
  <2>1. CASE Len(unread) = InputBuffers
    <3>1. unread # <<>>
      BY <2>1, ClientReportsAssumption
    <3>2. Tail(unread) \in Seq(0..n) /\ Len(Tail(unread)) = Len(unread) - 1 /\ Len(unread) \in Nat
      BY <1>4, <3>1, TailFacts
    <3> QED BY <2>1, <3>2
  <2>2. CASE Len(unread) # InputBuffers
    <3>1. Len(unread) \in Nat
      BY <1>4
    <3> QED BY <1>3, <1>4, <2>2, <3>1, ClientReportsAssumption
  <2> QED BY <2>1, <2>2
<1> HIDE DEF kept
<1>6. /\ unread' \in Seq(0..n) /\ Len(unread') <= InputBuffers
      /\ written' \in Seq(1..n)
  <2>1. CASE UNCHANGED <<unread, written>>
    BY <1>3, <1>4, <2>1
  <2>2. CASE written' = Append(written, n) /\ unread' = Append(kept, n)
    <3>1. /\ Append(kept, n) \in Seq(0..n) /\ Len(Append(kept, n)) = Len(kept) + 1
          /\ Len(kept) \in Nat /\ Append(written, n) \in Seq(1..n)
      BY <1>2, <1>4, <1>5, AppendFacts
    <3> QED BY <1>5, <2>2, <3>1, ClientReportsAssumption
  <2> QED BY <2>1, <2>2 DEF n, kept
<1>7. delivered'.call \in 0..n /\ n <= MaxCalls
  BY <1>2, <1>3 DEF n
<1>8. frame'.need \in 0..255 /\ Len(frame'.got) <= frame'.need
  BY DEF TypeOK
<1>9. TypeOK'
  BY <1>1, <1>4, <1>6, <1>7, <1>8 DEF TypeOK, Bytes
<1>10. Bounded'
  BY <1>1, <1>7 DEF Bounded
<1> QED BY <1>9, <1>10

\* A report delivered earlier stays the report of its call.
LEMMA StaleGrows ==
    ASSUME TypeOK, Bounded, NothingStale, UNCHANGED delivered,
           NEW kind \in Kinds, NEW count \in 0..255,
           calls' = Append(calls, [kind |-> kind, count |-> count])
    PROVE  NothingStale'
<1>1. delivered.call > 0 => delivered.call \in 1..Len(calls)
  BY CallsFacts DEF TypeOK
<1>2. delivered.call > 0 => calls'[delivered.call] = calls[delivered.call]
  BY <1>1, CallsGrow
<1> QED BY <1>2 DEF NothingStale, Sender

\* Frames of earlier calls stay theirs.
LEMMA CompletedGrows ==
    ASSUME TypeOK, Bounded, Completed, pc = "idle", UNCHANGED frames,
           NEW kind \in Kinds, NEW count \in 0..255,
           calls' = Append(calls, [kind |-> kind, count |-> count]),
           kind = "MTOUCH" => numberOfTouchesSent' = 0
    PROVE  Completed'
<1>n. PICK n \in Nat : n = Len(calls) + 1
  BY CallsFacts
<1>1. /\ Len(calls') = n /\ n \in Nat /\ calls'[n].kind = kind /\ calls'[n].count = count
      /\ \A m \in 1..Len(calls) : calls'[m] = calls[m] /\ m \in 1..n /\ m < n
  BY <1>n, CallsGrow
<1>2. \A m \in 1..Len(calls) : TouchesOf(m)' = TouchesOf(m) /\ (IsTouch(m) => IsTouch(m)')
  BY <1>1 DEF TouchesOf, IsTouch
<1>3. \A i \in 1..Len(frames') :
         \E m \in 1..n : IsTouch(m)' /\ frames'[i] = TouchesOf(m)' /\ m < n
  BY <1>1, <1>2 DEF Completed
<1>4. n > 0 /\ IsTouch(n)' => Unfinished'
  <2>1. calls'[n].kind = "MTOUCH" => numberOfTouchesSent' = 0
    BY <1>1
  <2> QED BY <1>1, <2>1 DEF IsTouch, Unfinished
<1> QED BY <1>1, <1>3, <1>4 DEF Completed
LEMMA LengthFacts ==
    ASSUME TypeOK
    PROVE  /\ Len(written) \in Nat /\ Len(unread) \in Nat /\ Len(received) \in Nat
           /\ InputBuffers \in Nat /\ InputBuffers > 0 /\ Len(unread) <= InputBuffers
<1>1. /\ written \in Seq(1..Len(calls)) /\ unread \in Seq(0..Len(calls))
      /\ received \in Seq(0..Len(calls)) /\ Len(unread) <= InputBuffers
  BY DEF TypeOK
<1>2. Len(written) \in Nat /\ Len(unread) \in Nat /\ Len(received) \in Nat
  BY <1>1
<1> QED BY <1>1, <1>2, ClientReportsAssumption

\* A message is written: when the buffers are full the oldest unread one makes room.
LEMMA MessageWritten ==
    ASSUME TypeOK, Bounded, Messages, UNCHANGED received,
           written' = Append(written, Len(calls) + 1),
           unread' = Append(IF Len(unread) = InputBuffers THEN Tail(unread) ELSE unread,
                            Len(calls) + 1)
    PROVE  Messages'
<1> DEFINE kept == IF Len(unread) = InputBuffers THEN Tail(unread) ELSE unread
           R == Len(received)
<1>n. PICK n \in Nat : n = Len(calls) + 1
  BY CallsFacts
<1>a. PICK W \in Nat, U \in Nat, B \in Nat : W = Len(written) /\ U = Len(unread) /\ B = InputBuffers
  BY LengthFacts
<1>1. /\ written \in Seq(Nat) /\ unread \in Seq(Nat) /\ U <= B /\ B > 0 /\ U <= W
      /\ \A i \in 1..W : written[i] \in Nat /\ written[i] < n
  <2>1. written \in Seq(1..Len(calls)) /\ unread \in Seq(0..Len(calls)) /\ Len(calls) \in Nat
    BY CallsFacts DEF TypeOK
  <2>2. \A i \in 1..Len(written) : written[i] \in 1..Len(calls)
    BY <2>1, SMTT(30)
  <2>3. \A i \in 1..W : written[i] \in Nat /\ written[i] < n
    BY <1>n, <1>a, <2>1, <2>2
  <2>4. written \in Seq(Nat) /\ unread \in Seq(Nat)
    BY <2>1, SeqGrows
  <2> QED BY <1>a, <2>3, <2>4, ClientReportsAssumption DEF Messages, TypeOK
<1>2. /\ Len(written') = W + 1 /\ written'[W + 1] = n
      /\ \A i \in 1..W : written'[i] = written[i]
  <2>1. written' = Append(written, n)
    BY <1>n
  <2> QED BY <1>1, <1>a, <2>1, AppendFacts
<1>3. PICK K \in Nat :
        /\ K = Len(kept) /\ kept \in Seq(Nat) /\ K <= U
        /\ (K = U /\ U < B) \/ (K + 1 = U /\ U = B)
        /\ \A i \in 1..K : kept[i] = written[W - K + i]
  <2>1. CASE U = B
    <3>1. unread # <<>> /\ kept = Tail(unread)
      <4>1. Len(unread) = InputBuffers /\ Len(unread) > 0
        BY <1>1, <1>a, <2>1
      <4> QED BY <4>1
    <3>2. /\ kept \in Seq(Nat) /\ Len(kept) = U - 1 /\ U - 1 \in Nat /\ U - 1 <= U
          /\ \A i \in 1..(U - 1) : kept[i] = unread[i + 1]
      BY <1>1, <1>a, <3>1, TailFacts
    <3>3. \A i \in 1..(U - 1) : kept[i] = written[W - (U - 1) + i]
      <4> TAKE i \in 1..(U - 1)
      <4>1. i + 1 \in 1..U /\ W - U + (i + 1) = W - (U - 1) + i
        BY <1>1
      <4> QED BY <1>a, <3>2, <4>1 DEF Messages
    <3>4. (U - 1) + 1 = U
      OBVIOUS
    <3> HIDE DEF kept
    <3> QED BY <2>1, <3>2, <3>3, <3>4
  <2>2. CASE U # B
    <3>1. kept = unread /\ U < B
      BY <1>1, <1>a, <2>2
    <3>2. \A i \in 1..U : unread[i] = written[W - U + i]
      BY <1>a DEF Messages
    <3> HIDE DEF kept
    <3> QED BY <1>1, <1>a, <3>1, <3>2
  <2> QED BY <2>1, <2>2
<1>4. /\ Len(unread') = K + 1 /\ unread'[K + 1] = n
      /\ \A i \in 1..K : unread'[i] = kept[i]
  <2>1. unread' = Append(kept, n)
    BY <1>n
  <2> HIDE DEF kept
  <2>2. kept \in Seq(Nat) /\ n \in Nat
    BY <1>3
  <2>3. /\ Len(Append(kept, n)) = Len(kept) + 1 /\ Append(kept, n)[Len(kept) + 1] = n
        /\ \A i \in 1..Len(kept) : Append(kept, n)[i] = kept[i]
    BY <2>2, AppendFacts
  <2> QED BY <1>3, <2>1, <2>3
<1> HIDE DEF kept
<1>5. \A i, j \in 1..(W + 1) : i < j => written'[i] < written'[j]
  <2> SUFFICES ASSUME NEW i \in 1..(W + 1), NEW j \in 1..(W + 1), i < j
               PROVE  written'[i] < written'[j]
    OBVIOUS
  <2>1. i \in 1..W
    OBVIOUS
  <2>2. CASE j \in 1..W
    BY <1>2, <1>a, <2>1, <2>2 DEF Messages
  <2>3. CASE j = W + 1
    BY <1>1, <1>2, <2>1, <2>3
  <2>4. j \in 1..W \/ j = W + 1
    OBVIOUS
  <2> QED BY <2>2, <2>3, <2>4
<1>6. \A i \in 1..(K + 1) : unread'[i] = written'[(W + 1) - (K + 1) + i]
  <2> TAKE i \in 1..(K + 1)
  <2>1. CASE i \in 1..K
    <3>1. (W + 1) - (K + 1) + i = W - K + i /\ W - K + i \in 1..W
      BY <1>1, <1>3, <2>1
    <3> QED BY <1>2, <1>3, <1>4, <2>1, <3>1
  <2>2. CASE i = K + 1
    <3>1. (W + 1) - (K + 1) + i = W + 1
      BY <2>2
    <3> QED BY <1>2, <1>4, <2>2, <3>1
  <2>3. i \in 1..K \/ i = K + 1
    OBVIOUS
  <2> QED BY <2>1, <2>2, <2>3
<1>7. \A i \in 1..R : \E j \in 1..((W + 1) - (K + 1)) : received[i] = written'[j]
  <2> TAKE i \in 1..R
  <2>1. PICK j \in 1..(W - U) : received[i] = written[j]
    BY <1>a DEF Messages
  <2>2. j \in 1..((W + 1) - (K + 1)) /\ j \in 1..W
    BY <1>1, <1>3
  <2> QED BY <1>2, <2>1, <2>2
<1>8. \A j \in 1..((W + 1) - (K + 1)) :
         j + B > W + 1 => \E i \in 1..R : received[i] = written'[j]
  <2> SUFFICES ASSUME NEW j \in 1..((W + 1) - (K + 1)), j + B > W + 1
               PROVE  \E i \in 1..R : received[i] = written'[j]
    OBVIOUS
  <2>1. K = U /\ j \in 1..(W - U) /\ j + B > W /\ j \in 1..W
    BY <1>1, <1>3
  <2> QED BY <1>2, <1>a, <2>1 DEF Messages
<1>9. K + 1 <= W + 1
  BY <1>1, <1>3
<1>10. /\ \A i, j \in 1..Len(written') : i < j => written'[i] < written'[j]
       /\ \A i, j \in 1..Len(received') : i < j => received'[i] < received'[j]
  <2>1. \A i, j \in 1..Len(received) : i < j => received[i] < received[j]
    BY DEF Messages
  <2> QED BY <1>2, <1>5, <2>1
<1>11. /\ Len(unread') <= Len(written')
       /\ \A i \in 1..Len(unread') : unread'[i] = written'[Len(written') - Len(unread') + i]
  BY <1>2, <1>4, <1>6, <1>9
<1>12. /\ Len(written') = W + 1 /\ Len(unread') = K + 1 /\ InputBuffers = B
       /\ received' = received /\ Len(received') = R
  BY <1>2, <1>4, <1>a
<1> HIDE DEF R
<1>13. \A i \in 1..Len(received') :
          \E j \in 1..(Len(written') - Len(unread')) : received'[i] = written'[j]
  BY <1>7, <1>12
<1>14. \A j \in 1..(Len(written') - Len(unread')) :
          j + InputBuffers > Len(written') =>
             \E i \in 1..Len(received') : received'[i] = written'[j]
  BY <1>8, <1>12
<1> QED BY <1>10, <1>11, <1>13, <1>14 DEF Messages

\* The oldest message is read.
LEMMA MessageRead ==
    ASSUME TypeOK, Bounded, Messages, vmulti_read_message
    PROVE  Messages'
<1>a. PICK W \in Nat, U \in Nat, B \in Nat, R \in Nat :
        W = Len(written) /\ U = Len(unread) /\ B = InputBuffers /\ R = Len(received)
  BY LengthFacts
<1>b. PICK x : x = Head(unread)
  OBVIOUS
<1>1. /\ received' = Append(received, x) /\ unread' = Tail(unread) /\ written' = written
      /\ unread # <<>> /\ U <= W
  BY <1>a, <1>b DEF vmulti_read_message, Messages
<1>2. /\ Len(unread') = U - 1 /\ U > 0 /\ x = unread[1] /\ x \in 0..Len(calls)
      /\ \A i \in 1..(U - 1) : unread'[i] = unread[i + 1]
  <2>1. unread \in Seq(0..Len(calls))
    BY DEF TypeOK
  <2> QED BY <1>1, <1>a, <1>b, <2>1, TailFacts
<1>3. /\ Len(received') = R + 1 /\ received'[R + 1] = x
      /\ \A i \in 1..R : received'[i] = received[i]
  <2>1. received \in Seq(0..Len(calls))
    BY DEF TypeOK
  <2> QED BY <1>1, <1>2, <1>a, <2>1, AppendFacts
<1>4. x = written[W - U + 1] /\ W - U + 1 \in 1..W
  <2>1. 1 \in 1..U /\ W - U + 1 \in 1..W
    BY <1>1, <1>2
  <2> QED BY <1>2, <1>a, <2>1 DEF Messages
<1>5. U - 1 <= W
  BY <1>1
<1>6. \A i \in 1..(U - 1) : unread'[i] = written[W - (U - 1) + i]
  <2> TAKE i \in 1..(U - 1)
  <2>1. i + 1 \in 1..U /\ W - U + (i + 1) = W - (U - 1) + i
    BY <1>1
  <2> QED BY <1>2, <1>a, <2>1 DEF Messages
<1>7. \A i \in 1..(R + 1) : \E j \in 1..(W - (U - 1)) : received'[i] = written[j]
  <2> TAKE i \in 1..(R + 1)
  <2>1. CASE i \in 1..R
    <3>1. PICK j \in 1..(W - U) : received[i] = written[j]
      BY <1>a, <2>1 DEF Messages
    <3>2. j \in 1..(W - (U - 1))
      OBVIOUS
    <3> QED BY <1>3, <2>1, <3>1, <3>2
  <2>2. CASE i = R + 1
    <3>1. W - U + 1 \in 1..(W - (U - 1))
      BY <1>1
    <3> QED BY <1>3, <1>4, <2>2, <3>1
  <2> QED BY <2>1, <2>2
<1>8. \A i, j \in 1..(R + 1) : i < j => received'[i] < received'[j]
  <2> SUFFICES ASSUME NEW i \in 1..(R + 1), NEW j \in 1..(R + 1), i < j
               PROVE  received'[i] < received'[j]
    OBVIOUS
  <2>1. i \in 1..R
    OBVIOUS
  <2>2. CASE j \in 1..R
    BY <1>3, <1>a, <2>1, <2>2 DEF Messages
  <2>3. CASE j = R + 1
    <3>1. PICK k \in 1..(W - U) : received[i] = written[k]
      BY <1>a, <2>1 DEF Messages
    <3>2. k \in 1..W /\ k < W - U + 1
      BY <1>1
    <3>3. written[k] < written[W - U + 1]
      BY <1>4, <1>a, <3>2 DEF Messages
    <3> QED BY <1>3, <1>4, <2>1, <2>3, <3>1, <3>3
  <2> QED BY <2>2, <2>3
<1>9. \A j \in 1..(W - (U - 1)) :
         j + B > W => \E i \in 1..(R + 1) : received'[i] = written[j]
  <2> SUFFICES ASSUME NEW j \in 1..(W - (U - 1)), j + B > W
               PROVE  \E i \in 1..(R + 1) : received'[i] = written[j]
    OBVIOUS
  <2>1. CASE j \in 1..(W - U)
    <3>1. PICK i \in 1..R : received[i] = written[j]
      BY <1>a, <2>1 DEF Messages
    <3>2. i \in 1..(R + 1)
      OBVIOUS
    <3> QED BY <1>3, <3>1, <3>2
  <2>2. CASE j = W - U + 1
    <3>1. R + 1 \in 1..(R + 1)
      OBVIOUS
    <3> QED BY <1>3, <1>4, <2>2, <3>1
  <2>3. j \in 1..(W - U) \/ j = W - U + 1
    BY <1>1
  <2> QED BY <2>1, <2>2, <2>3
<1>10. /\ \A i, j \in 1..Len(written') : i < j => written'[i] < written'[j]
       /\ \A i, j \in 1..Len(received') : i < j => received'[i] < received'[j]
  <2>1. \A i, j \in 1..Len(written) : i < j => written[i] < written[j]
    BY DEF Messages
  <2> QED BY <1>1, <1>3, <1>8, <2>1
<1>11. /\ Len(unread') <= Len(written')
       /\ \A i \in 1..Len(unread') : unread'[i] = written'[Len(written') - Len(unread') + i]
  BY <1>1, <1>2, <1>5, <1>6, <1>a
<1>12. /\ Len(written') = W /\ Len(unread') = U - 1 /\ written' = written
       /\ Len(received') = R + 1 /\ InputBuffers = B /\ InputBuffers' = InputBuffers
  BY <1>1, <1>2, <1>3, <1>a
<1>13. \A i \in 1..Len(received') :
          \E j \in 1..(Len(written') - Len(unread')) : received'[i] = written'[j]
  BY <1>7, <1>12
<1>14. \A j \in 1..(Len(written') - Len(unread')) :
          j + InputBuffers > Len(written') =>
             \E i \in 1..Len(received') : received'[i] = written'[j]
  BY <1>9, <1>12
<1> QED BY <1>10, <1>11, <1>13, <1>14 DEF Messages

\* What the invariant says of messages is what the property asks.
LEMMA MessagesImply == TypeOK /\ Bounded /\ Messages => MessagesInOrder
<1> SUFFICES ASSUME TypeOK, Bounded, Messages PROVE MessagesInOrder
  OBVIOUS
<1> DEFINE seen == received \o unread
<1>a. PICK W \in Nat, U \in Nat, B \in Nat, R \in Nat :
        W = Len(written) /\ U = Len(unread) /\ B = InputBuffers /\ R = Len(received)
  BY LengthFacts
<1>1. received \in Seq(0..Len(calls)) /\ unread \in Seq(0..Len(calls))
  BY DEF TypeOK
<1>2. /\ Len(seen) = Len(received) + Len(unread)
      /\ \A i \in 1..Len(received) : seen[i] = received[i]
      /\ \A i \in 1..Len(unread) : seen[Len(received) + i] = unread[i]
  BY <1>1, ConcatFacts
<1> HIDE DEF seen
<1>3. /\ Len(seen) = R + U /\ U <= W
      /\ \A i \in 1..R : seen[i] = received[i]
      /\ \A i \in 1..U : seen[R + i] = written[W - U + i] /\ W - U + i \in 1..W
  <2>1. U <= W /\ \A i \in 1..U : unread[i] = written[W - U + i]
    BY <1>a DEF Messages
  <2>2. \A i \in 1..U : W - U + i \in 1..W
    BY <2>1
  <2> QED BY <1>2, <1>a, <2>1, <2>2
<1>4. \A i \in 1..(Len(seen) - 1) : seen[i] < seen[i + 1]
  <2> SUFFICES ASSUME NEW i \in 1..(R + U - 1) PROVE seen[i] < seen[i + 1]
    BY <1>3
  <2>1. CASE i + 1 <= R
    <3>1. i \in 1..R /\ i + 1 \in 1..R /\ i < i + 1
      BY <2>1
    <3> QED BY <1>3, <1>a, <3>1 DEF Messages
  <2>2. CASE i = R
    <3>1. R \in 1..R /\ 1 \in 1..U /\ i + 1 = R + 1
      BY <2>2
    <3>2. PICK k \in 1..(W - U) : received[R] = written[k]
      BY <1>a, <3>1 DEF Messages
    <3>3. k \in 1..W /\ k < W - U + 1 /\ W - U + 1 \in 1..W
      BY <1>3, <3>1
    <3>4. written[k] < written[W - U + 1]
      BY <1>a, <3>3 DEF Messages
    <3> QED BY <1>3, <2>2, <3>1, <3>2, <3>4
  <2>3. CASE i > R
    <3>1. PICK k \in 1..U : k = i - R
      BY <2>3
    <3>2. k + 1 \in 1..U /\ i = R + k /\ i + 1 = R + (k + 1)
      BY <3>1
    <3>3. W - U + k \in 1..W /\ W - U + (k + 1) \in 1..W /\ W - U + k < W - U + (k + 1)
      BY <1>3, <3>2
    <3>4. written[W - U + k] < written[W - U + (k + 1)]
      BY <1>a, <3>3 DEF Messages
    <3> QED BY <1>3, <3>2, <3>4
  <2> QED BY <2>1, <2>2, <2>3
<1>5. \A i \in 1..Len(seen) : \E j \in 1..Len(written) : written[j] = seen[i]
  <2> SUFFICES ASSUME NEW i \in 1..(R + U) PROVE \E j \in 1..W : written[j] = seen[i]
    BY <1>3, <1>a
  <2>1. CASE i \in 1..R
    <3>1. PICK j \in 1..(W - U) : received[i] = written[j]
      BY <1>a, <2>1 DEF Messages
    <3>2. j \in 1..W
      BY <1>3
    <3> QED BY <1>3, <2>1, <3>1, <3>2
  <2>2. CASE i \notin 1..R
    <3>1. i - R \in 1..U /\ R + (i - R) = i
      BY <2>2
    <3> QED BY <1>3, <3>1
  <2> QED BY <2>1, <2>2
<1>6. \A j \in 1..Len(written) :
         j + InputBuffers > Len(written) => \E i \in 1..Len(seen) : seen[i] = written[j]
  <2> SUFFICES ASSUME NEW j \in 1..W, j + B > W
               PROVE  \E i \in 1..(R + U) : seen[i] = written[j]
    BY <1>3, <1>a
  <2>1. CASE j \in 1..(W - U)
    <3>1. PICK i \in 1..R : received[i] = written[j]
      BY <1>a, <2>1 DEF Messages
    <3>2. i \in 1..(R + U)
      OBVIOUS
    <3> QED BY <1>3, <3>1, <3>2
  <2>2. CASE j \notin 1..(W - U)
    <3>1. PICK k \in 1..U : k = j - (W - U)
      BY <1>3, <2>2
    <3>2. W - U + k = j /\ R + k \in 1..(R + U)
      BY <1>3, <3>1
    <3> QED BY <1>3, <3>2
  <2> QED BY <2>1, <2>2
<1> QED BY <1>4, <1>5, <1>6 DEF MessagesInOrder, seen

-----------------------------------------------------------------------------
(* The invariant holds at first, and every step keeps it.                  *)

LEMMA InitReports == Init => ReportsInv
<1> SUFFICES ASSUME Init PROVE ReportsInv
  OBVIOUS
<1>1. /\ calls = <<>> /\ Len(calls) = 0 /\ pc = "idle" /\ numberOfTouchesSent = 0
      /\ delivered.call = 0 /\ frame = NoFrame /\ frames = <<>> /\ Len(frames) = 0
      /\ unread = <<>> /\ Len(unread) = 0 /\ received = <<>> /\ Len(received) = 0
      /\ written = <<>> /\ Len(written) = 0
  BY DEF Init
<1>2. frame.need = 0 /\ frame.got = <<>> /\ Len(frame.got) = 0 /\ frame.got \in Lists
  BY <1>1 DEF NoFrame, Lists
<1>3. <<0, 0>> \in Cells
  BY ClientReportsAssumption DEF Cells
<1>4. controlReport \in [Bytes -> Cells]
  BY <1>3 DEF Init, Bytes
<1>5. TypeOK
  BY <1>1, <1>2, <1>4, ClientReportsAssumption DEF TypeOK, Bytes
<1>6. Bounded
  <2>1. frame \in [need : 0..255, got : Lists]
    BY <1>1, <1>2 DEF NoFrame
  <2> QED BY <1>1, <2>1, ClientReportsAssumption DEF Bounded
<1>7. NothingStale
  BY <1>1 DEF NothingStale
<1>8. Touching
  BY <1>1 DEF Touching
<1>9. Completed
  BY <1>1 DEF Completed
<1>10. Messages
  BY <1>1 DEF Messages
<1> QED BY <1>5, <1>6, <1>7, <1>8, <1>9, <1>10 DEF ReportsInv

\* A report other than of touches: all of its data is assigned.
LEMMA UpdateStep ==
    ASSUME ReportsInv, NEW kind \in Kinds \ {"MTOUCH"},
           NEW assigned \in SUBSET (1..(ReportStruct[kind].size - 1)), Update(kind, assigned),
           kind = "MESSAGE" => 1 \in assigned, DataBytes[kind] \subseteq assigned
    PROVE  ReportsInv'
<1>0. TypeOK /\ Bounded /\ NothingStale /\ Completed /\ Messages
  BY DEF ReportsInv
<1>n. PICK n \in Nat : n = Len(calls) + 1
  BY <1>0, CallsFacts
<1>1. /\ pc = "idle" /\ UNCHANGED <<pc, numberOfTouchesSent, received, frame, frames>>
      /\ n \in 1..MaxCalls /\ calls' = Append(calls, [kind |-> kind, count |-> 0])
      /\ controlReport' \in [Bytes -> Cells]
      /\ \/ UNCHANGED delivered
         \/ \E body : /\ delivered' = [call |-> n, body |-> body]
                      /\ DOMAIN body = 0..(ReportStruct[kind].size - 1)
                      /\ \A o \in {0} \cup assigned : body[o][1] = n
      /\ \/ UNCHANGED <<unread, written>>
         \/ /\ written' = Append(written, n)
            /\ unread' = Append(IF Len(unread) = InputBuffers THEN Tail(unread) ELSE unread, n)
  BY <1>0, <1>n, UpdateEffect
<1>2. kind \in Kinds /\ kind # "MTOUCH" /\ 0 \in 0..255
  OBVIOUS
<1>3. TypeOK' /\ Bounded'
  <2>1. Len(calls) + 1 <= MaxCalls
    BY <1>1, <1>n, ClientReportsAssumption
  <2>2. delivered'.call \in {delivered.call, Len(calls) + 1}
    BY <1>1, <1>n
  <2>3. pc' \in {"idle", "touching"} /\ numberOfTouchesSent' \in 0..256
        /\ UNCHANGED <<frame, frames, received>>
    BY <1>0, <1>1 DEF TypeOK
  <2>4. \/ UNCHANGED <<unread, written>>
        \/ /\ written' = Append(written, Len(calls) + 1)
           /\ unread' = Append(IF Len(unread) = InputBuffers THEN Tail(unread) ELSE unread,
                               Len(calls) + 1)
    BY <1>1, <1>n
  <2> QED BY <1>0, <1>1, <1>2, <2>1, <2>2, <2>3, <2>4, TypeGrows
<1>4. NothingStale'
  <2>1. CASE UNCHANGED delivered
    BY <1>0, <1>1, <1>2, <2>1, StaleGrows
  <2>2. ASSUME NEW body, delivered' = [call |-> n, body |-> body],
               DOMAIN body = 0..(ReportStruct[kind].size - 1),
               \A o \in {0} \cup assigned : body[o][1] = n
        PROVE  NothingStale'
    <3>1. calls'[n].kind = kind
      BY <1>0, <1>1, <1>2, <1>n, CallsGrow
    <3>2. delivered'.call = n /\ delivered'.body = body
      BY <2>2
    <3>3. DOMAIN body = 0..(DeclaredSize[kind] - 1)
      BY <1>2, <2>2, DescriptorFacts
    <3>4. \A o \in {0} \cup DataBytes[kind] : body[o][1] = n
      BY <2>2
    <3> QED BY <1>2, <3>1, <3>2, <3>3, <3>4 DEF NothingStale, Sender
  <2> QED BY <1>1, <2>1, <2>2
<1>5. Touching'
  BY <1>1 DEF Touching
<1>6. Completed'
  <2>1. pc = "idle" /\ UNCHANGED frames /\ (kind = "MTOUCH" => numberOfTouchesSent' = 0)
    BY <1>1, <1>2
  <2> QED BY <1>0, <1>1, <1>2, <2>1, CompletedGrows
<1>7. Messages'
  <2>1. CASE UNCHANGED <<unread, written>>
    BY <1>0, <1>1, <2>1 DEF Messages
  <2>2. CASE /\ written' = Append(written, n)
             /\ unread' = Append(IF Len(unread) = InputBuffers THEN Tail(unread) ELSE unread, n)
    <3>1. UNCHANGED received
      BY <1>1
    <3> QED BY <1>0, <1>n, <2>2, <3>1, MessageWritten
  <2> QED BY <1>1, <2>1, <2>2
<1> QED BY <1>3, <1>4, <1>5, <1>6, <1>7 DEF ReportsInv

\* Which bytes each function assigns.
LEMMA UpdatesStep ==
    ASSUME ReportsInv,
           \/ vmulti_update_mouse \/ vmulti_update_relative_mouse \/ vmulti_update_digi
           \/ vmulti_update_joystick \/ vmulti_update_keyboard \/ vmulti_write_message
    PROVE  ReportsInv'
<1>1. /\ "MOUSE" \in Kinds \ {"MTOUCH"} /\ "RELATIVE_MOUSE" \in Kinds \ {"MTOUCH"}
      /\ "DIGI" \in Kinds \ {"MTOUCH"} /\ "JOYSTICK" \in Kinds \ {"MTOUCH"}
      /\ "KEYBOARD" \in Kinds \ {"MTOUCH"} /\ "MESSAGE" \in Kinds \ {"MTOUCH"}
  BY DEF Kinds, ReportStruct
<1>2. /\ ReportStruct["MOUSE"].size = 7 /\ ReportStruct["RELATIVE_MOUSE"].size = 5
      /\ ReportStruct["DIGI"].size = 6 /\ ReportStruct["JOYSTICK"].size = 9
      /\ ReportStruct["KEYBOARD"].size = 9 /\ ReportStruct["MESSAGE"].size = 33
  BY DEF ReportStruct
<1>3. ASSUME NEW kind \in Kinds \ {"MTOUCH"}, Update(kind, 1..(ReportStruct[kind].size - 1))
      PROVE  ReportsInv'
  <2>1. DataBytes[kind] \subseteq 1..(ReportStruct[kind].size - 1)
    BY DescriptorFacts
  <2>2. 1 \in 1..(ReportStruct[kind].size - 1)
    BY SizeFacts
  <2> QED BY <1>3, <2>1, <2>2, UpdateStep
<1>4. CASE vmulti_update_keyboard
  <2> DEFINE assigned == {1} \cup 3..8
  <2>1. assigned \in SUBSET (1..(ReportStruct["KEYBOARD"].size - 1)) /\ 1 \in assigned
    BY <1>2
  <2>2. DataBytes["KEYBOARD"] \subseteq assigned
    <3>1. DataBytes["KEYBOARD"] \subseteq 1..8 /\ 2 \notin DataBytes["KEYBOARD"]
      BY <1>1, <1>2, DescriptorFacts
    <3>2. \A o \in 1..8 : o = 2 \/ o \in assigned
      OBVIOUS
    <3> QED BY <3>1, <3>2
  <2>3. Update("KEYBOARD", assigned)
    BY <1>4 DEF vmulti_update_keyboard
  <2> HIDE DEF assigned
  <2> QED BY <1>1, <2>1, <2>2, <2>3, UpdateStep
<1>5. CASE vmulti_update_mouse
  <2>1. Update("MOUSE", 1..6) /\ ReportStruct["MOUSE"].size - 1 = 6
    BY <1>2, <1>5 DEF vmulti_update_mouse
  <2>2. Update("MOUSE", 1..(ReportStruct["MOUSE"].size - 1))
    BY <2>1
  <2> QED BY <1>1, <1>3, <2>2
<1>6. CASE vmulti_update_relative_mouse
  <2>1. Update("RELATIVE_MOUSE", 1..4) /\ ReportStruct["RELATIVE_MOUSE"].size - 1 = 4
    BY <1>2, <1>6 DEF vmulti_update_relative_mouse
  <2>2. Update("RELATIVE_MOUSE", 1..(ReportStruct["RELATIVE_MOUSE"].size - 1))
    BY <2>1
  <2> QED BY <1>1, <1>3, <2>2
<1>7. CASE vmulti_update_digi
  <2>1. Update("DIGI", 1..5) /\ ReportStruct["DIGI"].size - 1 = 5
    BY <1>2, <1>7 DEF vmulti_update_digi
  <2>2. Update("DIGI", 1..(ReportStruct["DIGI"].size - 1))
    BY <2>1
  <2> QED BY <1>1, <1>3, <2>2
<1>8. CASE vmulti_update_joystick
  <2>1. Update("JOYSTICK", 1..8) /\ ReportStruct["JOYSTICK"].size - 1 = 8
    BY <1>2, <1>8 DEF vmulti_update_joystick
  <2>2. Update("JOYSTICK", 1..(ReportStruct["JOYSTICK"].size - 1))
    BY <2>1
  <2> QED BY <1>1, <1>3, <2>2
<1>9. CASE vmulti_write_message
  <2>1. Update("MESSAGE", 1..32) /\ ReportStruct["MESSAGE"].size - 1 = 32
    BY <1>2, <1>9 DEF vmulti_write_message
  <2>2. Update("MESSAGE", 1..(ReportStruct["MESSAGE"].size - 1))
    BY <2>1
  <2> QED BY <1>1, <1>3, <2>2
<1> QED BY <1>4, <1>5, <1>6, <1>7, <1>8, <1>9

\* A list of touches is begun, or an empty one done with.
LEMMA MultitouchStep ==
    ASSUME ReportsInv, vmulti_update_multitouch
    PROVE  ReportsInv'
<1>0. TypeOK /\ Bounded /\ NothingStale /\ Completed /\ Messages
  BY DEF ReportsInv
<1>n. PICK n \in Nat : n = Len(calls) + 1
  BY <1>0, CallsFacts
<1>1. /\ pc = "idle" /\ n <= MaxCalls /\ numberOfTouchesSent' = 0
      /\ UNCHANGED <<delivered, frame, frames, unread, written, received>>
      /\ controlReport' = Over(Header(n, "MTOUCH"), controlReport)
  BY <1>n DEF vmulti_update_multitouch, Fill, receivers
<1>2. PICK count \in 0..MaxTouches :
        /\ calls' = Append(calls, [kind |-> "MTOUCH", count |-> count])
        /\ pc' = IF count > 0 THEN "touching" ELSE "idle"
  BY DEF vmulti_update_multitouch
<1>3. count \in 0..255 /\ "MTOUCH" \in Kinds /\ n \in 1..MaxCalls
  <2>1. MaxTouches \in 0..255 /\ MaxCalls \in Nat
    BY ClientReportsAssumption
  <2>2. n >= 1
    BY <1>0, <1>n, CallsFacts
  <2> QED BY <1>1, <1>2, <2>1, <2>2, SizeFacts
<1>4. controlReport' \in [Bytes -> Cells] /\ controlReport'[1] = <<n, 22>>
  <2> DEFINE header == Header(n, "MTOUCH")
  <2>1. /\ DOMAIN header = {0, 1} /\ header[0] = <<n, 64>> /\ header[1] = <<n, 22>>
    BY SizeFacts DEF Header
  <2>2. <<n, 64>> \in Cells /\ <<n, 22>> \in Cells
    <3>1. n \in 0..MaxCalls /\ 64 \in 0..255 /\ 22 \in 0..255
      BY <1>3, ClientReportsAssumption
    <3> QED BY <3>1 DEF Cells
  <2>3. controlReport \in [Bytes -> Cells] /\ DOMAIN controlReport = Bytes
        /\ 0 \in Bytes /\ 1 \in Bytes
    BY <1>0, CallsFacts, SizeFacts
  <2> HIDE DEF header
  <2>4. controlReport' = [o \in Bytes |-> IF o \in {0, 1} THEN header[o] ELSE controlReport[o]]
    <3>1. {0, 1} \cup Bytes = Bytes
      BY <2>3
    <3> QED BY <1>1, <2>1, <2>3, <3>1 DEF Over, header
  <2> QED BY <2>1, <2>2, <2>3, <2>4
<1>5. /\ Len(calls') = n /\ calls'[n].kind = "MTOUCH" /\ calls'[n].count = count /\ n \in 1..n
  BY <1>0, <1>2, <1>3, <1>n, CallsGrow
<1>6. TypeOK' /\ Bounded'
  <2>1. pc' \in {"idle", "touching"} /\ numberOfTouchesSent' \in 0..256
        /\ UNCHANGED <<frame, frames, received>> /\ UNCHANGED <<unread, written>>
        /\ delivered'.call \in {delivered.call, Len(calls) + 1} /\ Len(calls) + 1 <= MaxCalls
    BY <1>1, <1>2, <1>n
  <2> QED BY <1>0, <1>2, <1>3, <1>4, <2>1, TypeGrows
<1>7. NothingStale'
  BY <1>0, <1>1, <1>2, <1>3, StaleGrows
<1>8. Touching'
  <2>1. pc' = "touching" => count > 0
    BY <1>2
  <2>2. ReportStruct["MTOUCH"].size = 22
    BY SizeFacts
  <2> QED BY <1>1, <1>3, <1>4, <1>5, <2>1, <2>2 DEF Touching, IsTouch
<1>9. Completed'
  BY <1>0, <1>1, <1>2, <1>3, CompletedGrows
<1>10. Messages'
  BY <1>0, <1>1 DEF Messages
<1> QED BY <1>6, <1>7, <1>8, <1>9, <1>10 DEF ReportsInv

\* Two more touches go out, or their report is refused and the call gives up.
LEMMA SendTouchesStep ==
    ASSUME ReportsInv, SendTouches
    PROVE  ReportsInv'
<1>0. TypeOK /\ Bounded /\ NothingStale /\ Touching /\ Completed /\ Messages
  BY DEF ReportsInv
<1>n. PICK n \in Nat : n = Len(calls)
  BY <1>0, CallsFacts
<1>1. /\ pc = "touching" /\ controlReport' \in [Bytes -> Cells]
      /\ controlReport'[1] = controlReport[1]
  BY <1>0, SendTouchesFills
<1>2. /\ UNCHANGED <<calls, received, unread, written>>
      /\ \/ UNCHANGED receivers /\ pc' = "idle" /\ UNCHANGED numberOfTouchesSent
         \/ /\ numberOfTouchesSent' = numberOfTouchesSent + 2
            /\ pc' = IF numberOfTouchesSent + 2 < calls[n].count THEN "touching" ELSE "idle"
            /\ \E body : /\ delivered' = [call |-> n, body |-> body]
                         /\ DOMAIN body = 0..21
                         /\ \A o \in 0..21 : body[o][1] = n
                         /\ \A o \in 1..20 : body[o][2] <= calls[n].count
                         /\ body[1] = <<n, First>> /\ body[11] = <<n, Second>>
                         /\ body[21] = <<n, Count>> /\ AddTouches(body)
  BY <1>0, <1>n, SendTouchesEffect
<1>3. /\ n \in 1..Len(calls) /\ n \in 0..MaxCalls /\ calls[n].kind = "MTOUCH"
      /\ calls[n].count \in 1..255 /\ numberOfTouchesSent \in Nat
      /\ numberOfTouchesSent < calls[n].count
  BY <1>0, <1>1, <1>n, TouchingFacts
<1>d. PICK c \in 1..255, s \in Nat : c = calls[n].count /\ s = numberOfTouchesSent /\ s < c
  BY <1>3
<1>e. c \in Nat /\ 1 <= c /\ c <= 255 /\ n > 0 /\ IsTouch(n) /\ Unfinished
  <2>1. c \in 1..255
    BY <1>d
  <2>2. c \in Nat /\ 1 <= c /\ c <= 255
    BY <2>1
  <2>3. n > 0
    BY <1>3
  <2> QED BY <1>3, <1>d, <1>n, <2>2, <2>3 DEF IsTouch, Unfinished
<1>4. Messages'
  BY <1>0, <1>2 DEF Messages
<1>5. CASE UNCHANGED receivers /\ pc' = "idle" /\ UNCHANGED numberOfTouchesSent
  <2>1. /\ UNCHANGED <<calls, received, unread, written, delivered, frame, frames>>
        /\ UNCHANGED numberOfTouchesSent /\ pc' = "idle"
    BY <1>2, <1>5 DEF receivers
  <2>2. TypeOK' /\ Bounded'
    BY <1>0, <1>1, <2>1 DEF TypeOK, Bounded, Bytes
  <2>3. NothingStale' /\ Touching'
    BY <1>0, <2>1 DEF NothingStale, Sender, Touching
  <2>4. Completed'
    BY <1>0, <2>1 DEF Completed, Unfinished, IsTouch, TouchesOf
  <2> QED BY <1>4, <2>2, <2>3, <2>4 DEF ReportsInv
<1>6. ASSUME NEW body,
             numberOfTouchesSent' = s + 2, pc' = IF s + 2 < c THEN "touching" ELSE "idle",
             delivered' = [call |-> n, body |-> body], DOMAIN body = 0..21,
             \A o \in 0..21 : body[o][1] = n, \A o \in 1..20 : body[o][2] <= c,
             body[1] = <<n, First>>, body[11] = <<n, Second>>, body[21] = <<n, Count>>,
             AddTouches(body)
      PROVE  ReportsInv'
  <2>1. \/ s + 2 < c /\ frame' = [need |-> c, got |-> Upto(n, s + 2)] /\ frames' = frames
        \/ c <= s + 2 /\ frame' = NoFrame /\ frames' = Append(frames, TouchesOf(n))
    BY <1>0, <1>1, <1>6, <1>d, <1>n, AddTouchesEffect
  <2>2. UNCHANGED calls /\ Len(calls') = n
    BY <1>2, <1>n
  <2>3. \A k \in 0..255 : Upto(n, k) \in Lists /\ Len(Upto(n, k)) = k
    <3> TAKE k \in 0..255
    <3>1. \A i \in 1..k : i \in 0..255
      OBVIOUS
    <3>2. \A i \in 1..k : <<n, i>> \in Cells
      BY <1>3, <3>1 DEF Cells
    <3> QED BY <3>2 DEF Upto, Lists
  <2>4. TouchesOf(n) = Upto(n, c) /\ TouchesOf(n) \in Lists
    <3>1. TouchesOf(n) = Upto(n, c)
      BY <1>d DEF TouchesOf, Upto
    <3>2. c \in 0..255
      BY <1>e
    <3> QED BY <2>3, <3>1, <3>2
  <2>5. frames \in Seq(Lists) /\ frame \in [need : 0..255, got : Lists]
    BY <1>0 DEF Bounded
  <2>6. /\ Append(frames, TouchesOf(n)) \in Seq(Lists) /\ Len(frames) \in Nat
        /\ Len(Append(frames, TouchesOf(n))) = Len(frames) + 1
        /\ Append(frames, TouchesOf(n))[Len(frames) + 1] = TouchesOf(n)
        /\ \A i \in 1..Len(frames) : Append(frames, TouchesOf(n))[i] = frames[i]
    BY <2>4, <2>5, AppendFacts
  <2>7. frame' \in [need : 0..255, got : Lists] /\ Len(frame'.got) <= frame'.need
    <3>1. CASE s + 2 < c /\ frame' = [need |-> c, got |-> Upto(n, s + 2)]
      <4>1. c \in 0..255 /\ s + 2 \in 0..255 /\ s + 2 <= c
        BY <1>d, <1>e, <3>1
      <4> QED BY <2>3, <3>1, <4>1
    <3>2. CASE frame' = NoFrame
      <4>1. <<>> \in Lists /\ Len(<<>>) = 0
        BY DEF Lists
      <4> QED BY <3>2, <4>1 DEF NoFrame
    <3> QED BY <2>1, <3>1, <3>2
  <2>8. frames' \in Seq(Lists)
    BY <2>1, <2>5, <2>6
  <2>9. TypeOK'
    <3>1. numberOfTouchesSent' \in 0..256 /\ pc' \in {"idle", "touching"}
      <4>1. s + 2 \in 0..256
        BY <1>d, <1>e
      <4> QED BY <1>6, <4>1
    <3>2. delivered'.call \in 0..Len(calls)
      BY <1>6, <1>n
    <3>3. /\ controlReport' \in [0..(CONTROL_REPORT_SIZE - 1) -> Cells]
          /\ calls' \in Seq([kind : Kinds, count : 0..255])
          /\ unread' \in Seq(0..Len(calls')) /\ Len(unread') <= InputBuffers
          /\ received' \in Seq(0..Len(calls')) /\ written' \in Seq(1..Len(calls'))
      BY <1>0, <1>1, <1>2 DEF TypeOK, Bytes
    <3>4. frame'.need \in 0..255 /\ Len(frame'.got) <= frame'.need
      BY <2>7
    <3> QED BY <2>2, <3>1, <3>2, <3>3, <3>4, <1>n DEF TypeOK
  <2>10. Bounded'
    BY <1>0, <1>6, <1>n, <2>2, <2>7, <2>8 DEF Bounded
  <2>11. NothingStale'
    <3>1. delivered'.call = n /\ delivered'.body = body /\ Sender' = calls[n]
      BY <1>6, <2>2 DEF Sender
    <3>2. /\ DeclaredSize["MTOUCH"] = 22 /\ DataBytes["MTOUCH"] \subseteq 1..21
          /\ 2 * TouchSize = 20
      BY DescriptorFacts, SizeFacts
    <3>3. \A o \in {0} \cup DataBytes["MTOUCH"] : o \in 0..21
      BY <3>2
    <3>4. \A o \in {0} \cup DataBytes["MTOUCH"] : body[o][1] = n
      BY <1>6, <3>3
    <3>5. DOMAIN body = 0..(DeclaredSize["MTOUCH"] - 1)
      BY <1>6, <3>2
    <3>6. \A o \in 1..(2 * TouchSize) : body[o][2] <= calls[n].count
      BY <1>6, <1>d, <3>2
    <3> QED BY <1>3, <3>1, <3>4, <3>5, <3>6 DEF NothingStale
  <2>12. Touching'
    <3> SUFFICES ASSUME pc' = "touching" PROVE Touching'
      BY DEF Touching
    <3>1. s + 2 < c /\ frame' = [need |-> c, got |-> Upto(n, s + 2)]
      BY <1>6, <1>d, <1>e, <2>1, SMTT(30)
    <3>2. controlReport'[1] = <<n, ReportStruct["MTOUCH"].size>>
      BY <1>0, <1>1, <1>n DEF Touching
    <3>3. IsTouch(n)'
      BY <1>e, <2>2 DEF IsTouch
    <3>4. frame'.got = [k \in 1..numberOfTouchesSent' |-> <<n, k>>] /\ frame'.need = calls'[n].count
      BY <1>6, <1>d, <2>2, <3>1 DEF Upto
    <3>5. numberOfTouchesSent' < calls'[n].count
      BY <1>6, <1>d, <2>2, <3>1
    <3> QED BY <1>e, <2>2, <3>2, <3>3, <3>4, <3>5 DEF Touching
  <2>13. Completed'
    <3>1. \A m \in 1..n : TouchesOf(m)' = TouchesOf(m) /\ (IsTouch(m) => IsTouch(m)')
      BY <2>2 DEF TouchesOf, IsTouch
    <3>2. \A i \in 1..Len(frames) : \E m \in 1..n : IsTouch(m) /\ frames[i] = TouchesOf(m) /\ m < n
      BY <1>0, <1>e, <1>n DEF Completed
    <3>3. CASE s + 2 < c /\ frames' = frames
      <4>1. \A i \in 1..Len(frames') :
               \E m \in 1..n : IsTouch(m)' /\ frames'[i] = TouchesOf(m)' /\ m < n
        BY <3>1, <3>2, <3>3
      <4>2. Unfinished'
        <5>1. numberOfTouchesSent' < calls'[n].count /\ IsTouch(n)'
          BY <1>6, <1>d, <1>e, <2>2, <3>3 DEF IsTouch
        <5> QED BY <2>2, <5>1 DEF Unfinished
      <4> QED BY <2>2, <4>1, <4>2 DEF Completed
    <3>4. CASE c <= s + 2 /\ frames' = Append(frames, TouchesOf(n))
      <4>1. ~Unfinished'
        <5>1. ~(numberOfTouchesSent' < calls'[n].count)
          BY <1>6, <1>d, <1>e, <2>2, <3>4, SMTT(30)
        <5> QED BY <2>2, <5>1 DEF Unfinished
      <4>2. n \in 1..n /\ IsTouch(n)' /\ TouchesOf(n)' = TouchesOf(n)
        BY <1>e, <2>2 DEF IsTouch, TouchesOf
      <4>3. \A i \in 1..Len(frames') : \E m \in 1..n : IsTouch(m)' /\ frames'[i] = TouchesOf(m)'
        <5> TAKE i \in 1..Len(frames')
        <5>1. CASE i \in 1..Len(frames)
          BY <2>6, <3>1, <3>2, <3>4, <5>1
        <5>2. CASE i = Len(frames) + 1
          BY <2>6, <3>4, <4>2, <5>2
        <5>3. i \in 1..Len(frames) \/ i = Len(frames) + 1
          BY <2>6, <3>4
        <5> QED BY <5>1, <5>2, <5>3
      <4>4. \E i \in 1..Len(frames') : frames'[i] = TouchesOf(n)'
        <5>1. Len(frames) + 1 \in 1..Len(frames')
          BY <2>6, <3>4
        <5> QED BY <2>6, <3>4, <4>2, <5>1
      <4> QED BY <2>2, <4>1, <4>3, <4>4 DEF Completed
    <3> QED BY <2>1, <3>3, <3>4
  <2> QED BY <1>4, <2>9, <2>10, <2>11, <2>12, <2>13 DEF ReportsInv
<1> QED BY <1>2, <1>5, <1>6, <1>d

\* A message is read.
LEMMA ReadStep ==
    ASSUME ReportsInv, vmulti_read_message
    PROVE  ReportsInv'
<1>0. TypeOK /\ Bounded /\ NothingStale /\ Touching /\ Completed /\ Messages
  BY DEF ReportsInv
<1>1. /\ UNCHANGED <<controlReport, calls, pc, numberOfTouchesSent, delivered, frame, frames,
                     written>>
      /\ received' = Append(received, Head(unread)) /\ unread' = Tail(unread) /\ unread # <<>>
  BY DEF vmulti_read_message
<1>2. unread \in Seq(0..Len(calls)) /\ received \in Seq(0..Len(calls)) /\ Len(unread) <= InputBuffers
  BY <1>0 DEF TypeOK
<1>3. /\ Tail(unread) \in Seq(0..Len(calls)) /\ Len(Tail(unread)) = Len(unread) - 1
      /\ Len(unread) \in Nat /\ Head(unread) \in 0..Len(calls)
  BY <1>1, <1>2, TailFacts
<1>4. Append(received, Head(unread)) \in Seq(0..Len(calls))
  BY <1>2, <1>3, AppendFacts
<1>5. Len(Tail(unread)) <= InputBuffers
  BY <1>2, <1>3, ClientReportsAssumption
<1>6. TypeOK'
  BY <1>0, <1>1, <1>3, <1>4, <1>5 DEF TypeOK
<1>7. Bounded' /\ NothingStale' /\ Touching'
  BY <1>0, <1>1 DEF Bounded, NothingStale, Sender, Touching, IsTouch
<1>8. Completed'
  BY <1>0, <1>1 DEF Completed, Unfinished, IsTouch, TouchesOf
<1>9. Messages'
  BY <1>0, MessageRead
<1> QED BY <1>6, <1>7, <1>8, <1>9 DEF ReportsInv

LEMMA ReportsStep == ReportsInv /\ [Next]_vars => ReportsInv'
<1> SUFFICES ASSUME ReportsInv, [Next]_vars PROVE ReportsInv'
  OBVIOUS
<1>1. CASE \/ vmulti_update_mouse \/ vmulti_update_relative_mouse \/ vmulti_update_digi
           \/ vmulti_update_joystick \/ vmulti_update_keyboard \/ vmulti_write_message
  BY <1>1, UpdatesStep
<1>2. CASE vmulti_read_message
  BY <1>2, ReadStep
<1>3. CASE vmulti_update_multitouch
  BY <1>3, MultitouchStep
<1>4. CASE SendTouches
  BY <1>4, SendTouchesStep
<1>5. CASE UNCHANGED vars
  <2>1. UNCHANGED <<controlReport, calls, pc, numberOfTouchesSent, delivered, frame, frames,
                    unread, written, received>>
    BY <1>5 DEF vars, receivers
  <2>2. TypeOK' /\ Bounded' /\ Messages'
    BY <2>1 DEF ReportsInv, TypeOK, Bounded, Messages
  <2>3. NothingStale' /\ Touching'
    BY <2>1 DEF ReportsInv, NothingStale, Sender, Touching, IsTouch
  <2>4. Completed'
    BY <2>1 DEF ReportsInv, Completed, Unfinished, IsTouch, TouchesOf
  <2> QED BY <2>2, <2>3, <2>4 DEF ReportsInv
<1> QED BY <1>1, <1>2, <1>3, <1>4, <1>5 DEF Next

LEMMA ReportsAlways == Spec => []ReportsInv
BY InitReports, ReportsStep, PTL DEF Spec

-----------------------------------------------------------------------------
(* The theorems.                                                           *)

(* The buffer, the calls, the frame being put together and the input       *)
(* buffers have their types; no more messages wait than there are buffers. *)
THEOREM TypeCorrect == Spec => []TypeOK
<1>1. ReportsInv => TypeOK
  BY DEF ReportsInv
<1> QED BY <1>1, ReportsAlways, PTL

(* No byte of an earlier report, and none from behind the caller's array   *)
(* of touches, reaches the reader of a report: the packed structures of    *)
(* client.c and the report descriptor of vmulti.h fit together.            *)
THEOREM NothingStaleAlways == Spec => []NothingStale
<1>1. ReportsInv => NothingStale
  BY DEF ReportsInv
<1> QED BY <1>1, ReportsAlways, PTL

(* vmulti_read_message returns the messages in the order written, each at  *)
(* most once, and loses one only behind a full set of input buffers.       *)
THEOREM MessagesInOrderAlways == Spec => []MessagesInOrder
<1>1. ReportsInv => MessagesInOrder
  BY MessagesImply DEF ReportsInv
<1> QED BY <1>1, ReportsAlways, PTL

(* Every frame completed at the touch consumer holds all the touches of    *)
(* one call of vmulti_update_multitouch, in order.                         *)
THEOREM FramesAreWholeAlways == Spec => []FramesAreWhole
<1>1. ReportsInv => FramesAreWhole
  BY DEF ReportsInv, Completed, FramesAreWhole, IsTouch
<1> QED BY <1>1, ReportsAlways, PTL

(* vmulti_update_multitouch returns TRUE exactly when the touch consumer   *)
(* has been given the complete frame of the call.                          *)
THEOREM TrueMeansWholeFrameAlways == Spec => []TrueMeansWholeFrame
<1>1. ReportsInv => TrueMeansWholeFrame
  <2> SUFFICES ASSUME ReportsInv, NEW n \in Nat, n = Len(calls), n > 0,
                      calls[n].kind = "MTOUCH", calls[n].count > 0
               PROVE  ReturnsTrue <=> \E i \in 1..Len(frames) : frames[i] = TouchesOf(n)
    <3>1. ReportsInv => Len(calls) \in Nat
      BY CallsFacts DEF ReportsInv
    <3> QED BY <3>1 DEF TrueMeansWholeFrame
  <2>1. TypeOK /\ Bounded /\ Completed
    BY DEF ReportsInv
  <2>2. IsTouch(n) /\ calls[n].count \in Nat /\ numberOfTouchesSent \in Nat
    <3>1. n \in 1..Len(calls)
      OBVIOUS
    <3>2. calls[n].count \in 0..255
      BY <2>1, <3>1, CallsFacts
    <3>3. numberOfTouchesSent \in 0..256
      BY <2>1 DEF TypeOK
    <3>4. \A x \in 0..255 : x \in Nat
      OBVIOUS
    <3>5. calls[n].count \in Nat
      BY <3>2, <3>4, ZenonT(30)
    <3>6. \A x \in 0..256 : x \in Nat
      OBVIOUS
    <3>7. numberOfTouchesSent \in Nat
      BY <3>3, <3>6, ZenonT(30)
    <3> QED BY <3>5, <3>7 DEF IsTouch
  <2>3. ReturnsTrue <=> ~Unfinished
    BY <2>2 DEF ReturnsTrue, Unfinished
  <2>4. CASE ~Unfinished
    BY <2>1, <2>2, <2>3, <2>4 DEF Completed
  <2>5. CASE Unfinished
    <3>1. ASSUME NEW i \in 1..Len(frames), frames[i] = TouchesOf(n) PROVE FALSE
      <4>1. PICK m \in 1..n : IsTouch(m) /\ frames[i] = TouchesOf(m) /\ m < n
        BY <2>1, <2>5 DEF Completed
      <4>2. calls[m].count \in Nat /\ calls[m].count > 0
        <5>1. m \in 1..Len(calls)
          OBVIOUS
        <5>2. calls[m].count \in 0..255
          BY <2>1, <5>1, CallsFacts
        <5>3. \A x \in 0..255 : x \in Nat
          OBVIOUS
        <5>4. calls[m].count \in Nat
          BY <5>2, <5>3, ZenonT(30)
        <5> QED BY <4>1, <5>4 DEF IsTouch
      <4>3. TouchesOf(m)[1] = <<m, 1>> /\ TouchesOf(n)[1] = <<n, 1>>
        <5>1. 1 \in 1..calls[m].count /\ 1 \in 1..calls[n].count
          BY <2>2, <4>2
        <5> QED BY <5>1 DEF TouchesOf
      <4>4. <<m, 1>> = <<n, 1>>
        BY <3>1, <4>1, <4>3
      <4>5. m = n
        BY <4>4
      <4> QED BY <4>1, <4>5
    <3> QED BY <2>3, <2>5, <3>1
  <2> QED BY <2>4, <2>5
<1> QED BY <1>1, ReportsAlways, PTL
=============================================================================
