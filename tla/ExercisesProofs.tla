---------------------------- MODULE ExercisesProofs ----------------------------
(***************************************************************************)
(* Proofs about Exercises.  The program of an exercise is a table of calls *)
(* fixed by the source, so the argument is the one Floyd gave for          *)
(* programs: an assertion before each call, and for each call that it      *)
(* takes the assertion before it to the one after it, or ends the exercise *)
(* with everything returned.  The lemmas named <exercise>Table state the   *)
(* calls of an exercise, those named for a verb (Opens, Frees ...) what a  *)
(* call of its kind does, those named ...Next where control goes after a   *)
(* call of an exercise with loops, and those named <exercise>Step that a   *)
(* step keeps the assertions of that exercise.                             *)
(***************************************************************************)
EXTENDS Exercises, SequenceTheorems, TLAPS

-----------------------------------------------------------------------------
(* Positions, and what local variables may hold there.                     *)
Values == {"garbage", "open", "closed", "NULL", "raw", "filled", "freed"}
Blocks == {"NULL", "raw", "filled"}
Kinds == {"handle", "size", "data", "pool", "NULL", "literal"}

At(segment, at, i) == [segment |-> segment, at |-> at, i |-> i]
Body(t) == DriverEntry[t][1].body

\* h is open in the positions P only, and surely so unless something was refused.
Handled(h, P) == (local[h] = "open" => P) /\ (P /\ ~disturbed => local[h] = "open")

\* What an allocation returned, what a query was given (and what has been read since without a
\* stop), and what v still counts for.
Given(v) == local[v] \in {"raw", "NULL"} /\ (~disturbed => local[v] = "raw")
Asked(v) == local[v] \in Blocks /\ (~disturbed => local[v] = "filled")
Read(v) == Asked(v) /\ local[v] # "NULL"
Owned(v) == IF local[v] \in {"raw", "filled"} THEN 1 ELSE 0

Ended ==
    \/ pc = Stopped /\ outstanding \in 0..Elements + 2
    \/ /\ pc = Returned
       /\ \A v \in DOMAIN local : local[v] /= "open"
       /\ outstanding = 0 \/ (test = "QueryRegTest" /\ outstanding = 1)

-----------------------------------------------------------------------------
(* The assertions: what holds before each call of an exercise.             *)
Straight == pc = At(1, pc.at, 0) /\ pc.at \in 1..Len(Body(test))

\* A handle opened first and closed last.
OneHandle(h) == Straight /\ Handled(h, pc.at > 1) /\ outstanding = 0

Creating ==
    /\ Straight /\ outstanding = 0
    /\ Handled("hRegister", pc.at \in {2, 3}) /\ Handled("hSubRegister", pc.at \in {3, 4})

Rtl == Straight /\ outstanding = 0 /\ local["uQueryValue"] \in {"garbage", "filled"}

Querying ==
    /\ Straight /\ outstanding = Owned("pvpi")
    /\ Handled("hRegister", pc.at > 1)
    /\ pc.at \in 1..3 => local["pvpi"] = "garbage"
    /\ pc.at \in {4, 9} => Given("pvpi")
    /\ pc.at \in {5, 6, 10, 11} => local["pvpi"] = "filled"
    /\ pc.at \in {7, 8} => local["pvpi"] = "freed"
    /\ pc.at > 2 /\ ~disturbed => size /= Garbage

Writing ==
    /\ Straight /\ outstanding = Owned("pBuffer")
    /\ Handled("hfile", pc.at \in 2..7)
    /\ pc.at < 3 => local["pBuffer"] = "garbage"
    /\ pc.at = 3 => Given("pBuffer")
    /\ pc.at > 3 => local["pBuffer"] = "filled"

Reading ==
    /\ Straight /\ outstanding = Owned("pBuffer")
    /\ Handled("hfile", pc.at \in 2..5)
    /\ pc.at < 4 => local["pBuffer"] = "garbage"
    /\ pc.at = 4 => Given("pBuffer")
    /\ pc.at > 4 => local["pBuffer"] \in Blocks /\ (~disturbed => local["pBuffer"] # "NULL")
    /\ pc.at > 1 /\ ~disturbed => world["file"] > 0
    /\ pc.at > 2 /\ ~disturbed => size /= Garbage

InitString ==
    /\ Straight /\ outstanding = Owned("UnicodeString1")
    /\ local["string1"] /= "open"
    /\ pc.at < 3 => local["UnicodeString1"] = "garbage"
    /\ pc.at = 3 => Given("UnicodeString1")
    /\ pc.at > 3 => local["UnicodeString1"] = "filled"

\* A string that is given its buffer, filled, used and freed.
OneString(u) ==
    /\ Straight /\ outstanding = Owned(u)
    /\ pc.at = 1 => local[u] = "garbage"
    /\ pc.at = 2 => Given(u)
    /\ pc.at > 2 => local[u] = "filled"

Comparing == Straight /\ outstanding = 0 /\ local["UnicodeString2"] = "garbage"

Converting ==
    /\ Straight /\ outstanding = Owned("AnsiString1") + Owned("UnicodeString2")
    /\ local["AnsiString1"] \in {"garbage", "filled", "freed"}
    /\ local["UnicodeString2"] \in {"garbage", "filled", "freed"}
    /\ pc.at = 1 => local["AnsiString1"] = "garbage"
    /\ pc.at = 2 /\ ~disturbed => local["AnsiString1"] = "filled"
    /\ pc.at > 2 => local["AnsiString1"] /= "filled"
    /\ pc.at < 4 => local["UnicodeString2"] = "garbage"
    /\ pc.at = 4 /\ ~disturbed => local["UnicodeString2"] = "filled"

\* pfi is the description of the key, pbi that of one entry after the other.
Describing ==
    /\ pc.segment = 1 /\ pc.at \in 1..5 /\ pc.i = 0
    /\ pc.at < 4 => local["pfi"] = "garbage"
    /\ pc.at = 4 => Given("pfi") /\ (~disturbed => size = 1)
    /\ pc.at = 5 => Asked("pfi") /\ (~disturbed => n = Len(entries))
    /\ pc.at > 1 /\ ~disturbed => world["key"] > 0
    /\ pc.at = 3 /\ ~disturbed => size = 1
Listing(pbi) ==
    /\ pc.segment = 2 /\ pc.at \in 1..5 /\ pc.i \in 0..n - 1
    /\ Read("pfi") /\ (~disturbed => n = Len(entries))
    /\ pc.at < 3 => local[pbi] \in {"garbage", "freed"}
    /\ pc.at = 3 => Given(pbi)
    /\ pc.at = 4 => Asked(pbi)
    /\ pc.at = 5 => Read(pbi)
    /\ pc.at \in {2, 3} /\ ~disturbed => size = entries[pc.i + 1]
Enumerating(pbi) ==
    /\ pc = At(pc.segment, pc.at, pc.i)
    /\ outstanding = Owned("pfi") + Owned(pbi)
    /\ Handled("hRegister", pc.segment > 1 \/ pc.at > 1)
    /\ \/ Describing /\ local[pbi] = "garbage"
       \/ Listing(pbi)
       \/ /\ pc = At(3, pc.at, 0) /\ pc.at \in {1, 2} /\ local[pbi] \in {"garbage", "freed"}
          /\ IF pc.at = 1 THEN Read("pfi") ELSE local["pfi"] = "freed"

Linking ==
    /\ pc = At(1, pc.at, pc.i) /\ pc.at \in 1..3
    /\ Len(list) = pc.i /\ pc.i < Elements
    /\ pc.at = 2 => Given("pData")
    /\ pc.at = 3 => local["pData"] = "filled"
    /\ outstanding = pc.i + IF pc.at = 1 THEN 0 ELSE Owned("pData")
Unlinking ==
    /\ pc = At(2, pc.at, pc.i) /\ pc.at \in 1..3 /\ pc.i \in 0..Elements - 1
    /\ Len(list) = Elements - pc.i - IF pc.at = 1 THEN 0 ELSE 1
    /\ pc.at > 1 => local["pData"] = "filled"
    /\ outstanding = Elements - pc.i
InList ==
    /\ local["pData"] /= "open" /\ \A j \in 1..Len(list) : list[j] = "filled"
    /\ Linking \/ Unlinking

\* As many blocks are outstanding as the list has before its first NULL, and more of them.
Backed(more) ==
    \A k \in 0..Len(list) :
        (\A j \in 1..k : list[j] = "raw") => outstanding >= k + more
Storing ==
    /\ pc = At(1, pc.at, pc.i) /\ pc.at \in {1, 2}
    /\ Len(list) = pc.i /\ pc.i < Elements
    /\ Backed(0) /\ outstanding \in 0..pc.i + pc.at - 1
    /\ pc.at = 2 => Given("MyObject") /\ (local["MyObject"] = "raw" => Backed(1))
Taking ==
    /\ pc = At(2, pc.at, pc.i) /\ pc.at \in {1, 2} /\ pc.i \in 0..Elements - 1
    /\ Len(list) = Elements - pc.i - IF pc.at = 1 THEN 0 ELSE 1
    /\ outstanding \in 0..Elements - pc.i
    /\ IF pc.at = 1 THEN Backed(0)
       ELSE Given("MyObject") /\ (local["MyObject"] = "raw" => Backed(1))
InArray ==
    /\ local["MyObject"] /= "open"
    /\ \A j \in 1..Len(list) :
          list[j] \in {"raw", "NULL"} /\ (~disturbed => list[j] = "raw")
    /\ Storing \/ Taking

-----------------------------------------------------------------------------
(* The inductive invariant.                                                *)
Typed ==
    /\ test \in DOMAIN DriverEntry /\ disturbed \in BOOLEAN
    /\ local \in [Locals(test) -> Values]
    /\ list \in Seq(Blocks) /\ Len(list) <= Elements
    /\ outstanding \in Int
    /\ size \in 0..MaxSize \cup {Garbage} /\ n \in 0..MaxEntries
    /\ world \in [Objects(test) -> 0..MaxSize]
    /\ entries \in SeqOf(1..MaxSize, MaxEntries)
    /\ undefined \subseteq Kinds

OneRegHandle == {"OpenRegTest", "SetRegTest", "DeleteItemRegTest"}
OneFileHandle == {"CreateFileTest", "OpenFileTest1", "OpenFileTest2", "FileAttributeTest"}

Asserted ==
    /\ test \in OneRegHandle => OneHandle("hRegister")
    /\ test \in OneFileHandle => OneHandle("hfile")
    /\ test = "CreateRegTest" => Creating
    /\ test = "QueryRegTest" => Querying
    /\ test = "EnumerateSubItemRegTest" => Enumerating("pbi")
    /\ test = "EnumerateSubValueRegTest" => Enumerating("pvbi")
    /\ test = "RtlRegTest" => Rtl
    /\ test = "WriteFileTest" => Writing
    /\ test = "ReadFileTest" => Reading
    /\ test = "StringInitTest" => InitString
    /\ test = "StringCopyTest" => OneString("UnicodeString2")
    /\ test = "StringToIntegerTest" => OneString("Unicodestring2")
    /\ test = "StringCompareTest" => Comparing
    /\ test = "StringConverTest" => Converting
    /\ test = "LinkListTest" => InList
    /\ test = "LookasideTest" => InArray

\* Before its last call an exercise satisfies its assertion; what it has used so far was defined.
ExerciseInv ==
    /\ Typed
    /\ Ended \/ Asserted
    /\ DefinedUnlessDisturbed
    /\ test = "RtlRegTest" => undefined = {}
-----------------------------------------------------------------------------
(* The tables.                                                             *)

LEMMA Tables ==
    /\ DOMAIN DriverEntry = DOMAIN ListTests \cup DOMAIN RegTest \cup DOMAIN FileTest
                            \cup DOMAIN StringTest
    /\ \A t \in DOMAIN ListTests : DriverEntry[t] = ListTests[t]
    /\ \A t \in DOMAIN RegTest : DriverEntry[t] = RegTest[t]
    /\ \A t \in DOMAIN FileTest : DriverEntry[t] = FileTest[t]
    /\ \A t \in DOMAIN StringTest : DriverEntry[t] = StringTest[t]
<1>1. DOMAIN ListTests = {"LinkListTest", "LookasideTest"}
  BY DEF ListTests
<1>2. DOMAIN RegTest = {"CreateRegTest", "OpenRegTest", "SetRegTest", "QueryRegTest",
                        "EnumerateSubItemRegTest", "EnumerateSubValueRegTest",
                        "DeleteItemRegTest", "RtlRegTest"}
  BY DEF RegTest
<1>3. DOMAIN FileTest = {"CreateFileTest", "OpenFileTest1", "OpenFileTest2",
                         "FileAttributeTest", "WriteFileTest", "ReadFileTest"}
  BY DEF FileTest
<1>4. DOMAIN StringTest = {"StringInitTest", "StringCopyTest", "StringCompareTest",
                           "StringToIntegerTest", "StringConverTest"}
  BY DEF StringTest
<1> DEFINE L == Joined(ListTests, RegTest)
           R == Joined(FileTest, StringTest)
<1>5. /\ DOMAIN L = DOMAIN ListTests \cup DOMAIN RegTest
      /\ \A t \in DOMAIN ListTests : L[t] = ListTests[t]
      /\ \A t \in DOMAIN RegTest : L[t] = RegTest[t]
  BY <1>1, <1>2 DEF Joined
<1>6. /\ DOMAIN R = DOMAIN FileTest \cup DOMAIN StringTest
      /\ \A t \in DOMAIN FileTest : R[t] = FileTest[t]
      /\ \A t \in DOMAIN StringTest : R[t] = StringTest[t]
  BY <1>3, <1>4 DEF Joined
<1>7. DriverEntry = Joined(L, R)
  BY DEF DriverEntry
<1>8. \A t \in DOMAIN R : t \notin DOMAIN L
  BY <1>1, <1>2, <1>3, <1>4, <1>5, <1>6
<1> HIDE DEF L, R
<1>9. /\ DOMAIN DriverEntry = DOMAIN L \cup DOMAIN R
      /\ \A t \in DOMAIN L : DriverEntry[t] = L[t]
      /\ \A t \in DOMAIN R : DriverEntry[t] = R[t]
  BY <1>7, <1>8 DEF Joined
<1> QED BY <1>5, <1>6, <1>9

LEMMA Entries ==
    /\ DriverEntry["CreateRegTest"] = CreateRegTest
    /\ DriverEntry["OpenRegTest"] = OpenRegTest
    /\ DriverEntry["SetRegTest"] = SetRegTest
    /\ DriverEntry["QueryRegTest"] = QueryRegTest
    /\ DriverEntry["EnumerateSubItemRegTest"] = EnumerateKey("pbi")
    /\ DriverEntry["EnumerateSubValueRegTest"] = EnumerateKey("pvbi")
    /\ DriverEntry["DeleteItemRegTest"] = DeleteItemRegTest
    /\ DriverEntry["RtlRegTest"] = RtlRegTest
    /\ DriverEntry["CreateFileTest"] = CreateFileTest
    /\ DriverEntry["OpenFileTest1"] = OpenFileTest1
    /\ DriverEntry["OpenFileTest2"] = OpenFileTest2
    /\ DriverEntry["FileAttributeTest"] = FileAttributeTest
    /\ DriverEntry["WriteFileTest"] = WriteFileTest
    /\ DriverEntry["ReadFileTest"] = ReadFileTest
    /\ DriverEntry["StringInitTest"] = StringInitTest
    /\ DriverEntry["StringCopyTest"] = StringCopyTest
    /\ DriverEntry["StringCompareTest"] = StringCompareTest
    /\ DriverEntry["StringToIntegerTest"] = StringToIntegerTest
    /\ DriverEntry["StringConverTest"] = StringConverTest
    /\ DriverEntry["LinkListTest"] = LinkListTest
    /\ DriverEntry["LookasideTest"] = LookasideTest
    /\ DOMAIN DriverEntry =
          {"CreateRegTest", "OpenRegTest", "SetRegTest", "QueryRegTest",
           "EnumerateSubItemRegTest", "EnumerateSubValueRegTest", "DeleteItemRegTest",
           "RtlRegTest", "CreateFileTest", "OpenFileTest1", "OpenFileTest2",
           "FileAttributeTest", "WriteFileTest", "ReadFileTest", "StringInitTest",
           "StringCopyTest", "StringCompareTest", "StringToIntegerTest",
           "StringConverTest", "LinkListTest", "LookasideTest"}
<1>1. \A t \in {"LinkListTest", "LookasideTest"} :
         t \in DOMAIN DriverEntry /\ DriverEntry[t] = ListTests[t]
  BY Tables DEF ListTests
<1>2. DriverEntry["LinkListTest"] = LinkListTest /\ DriverEntry["LookasideTest"] = LookasideTest
  BY <1>1 DEF ListTests
<1> QED BY Tables, <1>2 DEF ListTests, RegTest, FileTest, StringTest,
           EnumerateSubItemRegTest, EnumerateSubValueRegTest

LEMMA CreateRegTestTable ==
    ASSUME test = "CreateRegTest"
    PROVE  /\ DriverEntry[test] = <<Once(Body(test))>>
           /\ DOMAIN Body(test) = 1..4 /\ Len(Body(test)) = 4
           /\ Body(test)[1] = Call("open", "hRegister", "none", "key", "create")
           /\ Body(test)[2] = Call("open", "hSubRegister", "hRegister", "SubItem", "create")
           /\ Body(test)[3] = Call("close", "hRegister", "hRegister", "none", "none")
           /\ Body(test)[4] = Call("close", "hSubRegister", "hSubRegister", "none", "none")
           /\ Locals(test) = {"hRegister", "hSubRegister"}
<1>1. DriverEntry[test] = CreateRegTest
  BY Entries
<1> DEFINE b == CreateRegTest[1].body
<1>2. DriverEntry[test] = <<Once(b)>> /\ Body(test) = b
  BY <1>1 DEF CreateRegTest, Body, Once
<1>3. DOMAIN b = 1..4 /\ Len(b) = 4
  BY DEF CreateRegTest, Once
<1>4. /\ b[1] = Call("open", "hRegister", "none", "key", "create")
      /\ b[2] = Call("open", "hSubRegister", "hRegister", "SubItem", "create")
      /\ b[3] = Call("close", "hRegister", "hRegister", "none", "none")
      /\ b[4] = Call("close", "hSubRegister", "hSubRegister", "none", "none")
  BY DEF CreateRegTest, Once, Call, Create, Close
<1> HIDE DEF b
<1>5. Calls(test) = {b[k] : k \in 1..4}
  BY <1>2, <1>3 DEF Calls, Once, ToSet
<1>6. \A k \in 1..4 : k = 1 \/ k = 2 \/ k = 3 \/ k = 4
  OBVIOUS
<1>7. b[1].v = "hRegister" /\ b[2].v = "hSubRegister" /\ b[3].v = "hRegister"
      /\ b[4].v = "hSubRegister"
  BY <1>4 DEF Call
<1>8. {c.v : c \in Calls(test)} = {"hRegister", "hSubRegister"}
  BY <1>5, <1>6, <1>7
<1>9. Locals(test) = {"hRegister", "hSubRegister"}
  BY <1>8 DEF Locals
<1> QED BY <1>2, <1>3, <1>4, <1>9

LEMMA QueryRegTestTable ==
    ASSUME test = "QueryRegTest"
    PROVE  /\ DriverEntry[test] = <<Once(Body(test))>>
           /\ DOMAIN Body(test) = 1..11 /\ Len(Body(test)) = 11
           /\ Body(test)[1] = Call("open", "hRegister", "none", "key", "none")
           /\ Body(test)[2] = Call("size", "none", "hRegister", "dword", "return")
           /\ Body(test)[3] = Call("allocate", "pvpi", "none", "none", "sized")
           /\ Body(test)[4] = Call("data", "pvpi", "hRegister", "dword", "return")
           /\ Body(test)[5] = Call("use", "pvpi", "none", "none", "none")
           /\ Body(test)[6] = Call("free", "pvpi", "none", "none", "none")
           /\ Body(test)[7] = Call("size", "none", "hRegister", "sz", "return")
           /\ Body(test)[8] = Call("allocate", "pvpi", "none", "none", "sized")
           /\ Body(test)[9] = Call("data", "pvpi", "hRegister", "sz", "return")
           /\ Body(test)[10] = Call("use", "pvpi", "none", "none", "none")
           /\ Body(test)[11] = Call("close", "hRegister", "hRegister", "none", "none")
           /\ Locals(test) = {"hRegister", "pvpi"}
<1>1. DriverEntry[test] = QueryRegTest
  BY Entries
<1> DEFINE b == QueryRegTest[1].body
<1>2. DriverEntry[test] = <<Once(b)>> /\ Body(test) = b
  BY <1>1 DEF QueryRegTest, Body, Once
<1>3. DOMAIN b = 1..11 /\ Len(b) = 11
  BY DEF QueryRegTest, Once
<1>4. /\ b[1] = Call("open", "hRegister", "none", "key", "none")
      /\ b[2] = Call("size", "none", "hRegister", "dword", "return")
      /\ b[3] = Call("allocate", "pvpi", "none", "none", "sized")
      /\ b[4] = Call("data", "pvpi", "hRegister", "dword", "return")
      /\ b[5] = Call("use", "pvpi", "none", "none", "none")
      /\ b[6] = Call("free", "pvpi", "none", "none", "none")
      /\ b[7] = Call("size", "none", "hRegister", "sz", "return")
      /\ b[8] = Call("allocate", "pvpi", "none", "none", "sized")
      /\ b[9] = Call("data", "pvpi", "hRegister", "sz", "return")
      /\ b[10] = Call("use", "pvpi", "none", "none", "none")
      /\ b[11] = Call("close", "hRegister", "hRegister", "none", "none")
  BY DEF QueryRegTest, Once, Call, Open, QuerySize, Allocate, QueryData, Use, Free, Close,
     OrReturn
<1> HIDE DEF b
<1>5. Calls(test) = {b[k] : k \in 1..11}
  BY <1>2, <1>3 DEF Calls, Once, ToSet
<1>6. \A k \in 1..11 : k = 1 \/ k = 2 \/ k = 3 \/ k = 4 \/ k = 5 \/ k = 6 \/ k = 7 \/ k = 8
      \/ k = 9 \/ k = 10 \/ k = 11
  OBVIOUS
<1>7. /\ b[1].v = "hRegister" /\ b[2].v = "none" /\ b[3].v = "pvpi" /\ b[4].v = "pvpi"
      /\ b[5].v = "pvpi" /\ b[6].v = "pvpi" /\ b[7].v = "none" /\ b[8].v = "pvpi"
      /\ b[9].v = "pvpi" /\ b[10].v = "pvpi" /\ b[11].v = "hRegister"
  BY <1>4 DEF Call
<1>8. {c.v : c \in Calls(test)} = {"hRegister", "pvpi"} \cup {"none"}
  BY <1>5, <1>6, <1>7
<1>9. Locals(test) = {"hRegister", "pvpi"}
  BY <1>8 DEF Locals
<1> QED BY <1>2, <1>3, <1>4, <1>9

LEMMA RtlRegTestTable ==
    ASSUME test = "RtlRegTest"
    PROVE  /\ DriverEntry[test] = <<Once(Body(test))>>
           /\ DOMAIN Body(test) = 1..6 /\ Len(Body(test)) = 6
           /\ Body(test)[1] = Call("put", "none", "none", "service_key", "none")
           /\ Body(test)[2] = Call("put", "none", "none", "service_dword", "none")
           /\ Body(test)[3] = Call("put", "none", "none", "service_sz", "none")
           /\ Body(test)[4] = Call("data", "uQueryValue", "none", "service_dword", "none")
           /\ Body(test)[5] = Call("use", "uQueryValue", "none", "none", "if_ok")
           /\ Body(test)[6] = Call("delete", "none", "none", "service_dword", "none")
           /\ Locals(test) = {"uQueryValue"}
<1>1. DriverEntry[test] = RtlRegTest
  BY Entries
<1> DEFINE b == RtlRegTest[1].body
<1>2. DriverEntry[test] = <<Once(b)>> /\ Body(test) = b
  BY <1>1 DEF RtlRegTest, Body, Once
<1>3. DOMAIN b = 1..6 /\ Len(b) = 6
  BY DEF RtlRegTest, Once
<1>4. /\ b[1] = Call("put", "none", "none", "service_key", "none")
      /\ b[2] = Call("put", "none", "none", "service_dword", "none")
      /\ b[3] = Call("put", "none", "none", "service_sz", "none")
      /\ b[4] = Call("data", "uQueryValue", "none", "service_dword", "none")
      /\ b[5] = Call("use", "uQueryValue", "none", "none", "if_ok")
      /\ b[6] = Call("delete", "none", "none", "service_dword", "none")
  BY DEF RtlRegTest, Once, Call, Put, QueryData, Use, Delete
<1> HIDE DEF b
<1>5. Calls(test) = {b[k] : k \in 1..6}
  BY <1>2, <1>3 DEF Calls, Once, ToSet
<1>6. \A k \in 1..6 : k = 1 \/ k = 2 \/ k = 3 \/ k = 4 \/ k = 5 \/ k = 6
  OBVIOUS
<1>7. /\ b[1].v = "none" /\ b[2].v = "none" /\ b[3].v = "none" /\ b[4].v = "uQueryValue"
      /\ b[5].v = "uQueryValue" /\ b[6].v = "none"
  BY <1>4 DEF Call
<1>8. {c.v : c \in Calls(test)} = {"uQueryValue"} \cup {"none"}
  BY <1>5, <1>6, <1>7
<1>9. Locals(test) = {"uQueryValue"}
  BY <1>8 DEF Locals
<1> QED BY <1>2, <1>3, <1>4, <1>9

LEMMA WriteFileTestTable ==
    ASSUME test = "WriteFileTest"
    PROVE  /\ DriverEntry[test] = <<Once(Body(test))>>
           /\ DOMAIN Body(test) = 1..8 /\ Len(Body(test)) = 8
           /\ Body(test)[1] = Call("open", "hfile", "none", "file", "create")
           /\ Body(test)[2] = Call("allocate", "pBuffer", "none", "none", "fixed")
           /\ Body(test)[3] = Call("fill", "pBuffer", "none", "none", "none")
           /\ Body(test)[4] = Call("put", "none", "hfile", "file", "none")
           /\ Body(test)[5] = Call("fill", "pBuffer", "none", "none", "none")
           /\ Body(test)[6] = Call("put", "none", "hfile", "file", "none")
           /\ Body(test)[7] = Call("close", "hfile", "hfile", "none", "none")
           /\ Body(test)[8] = Call("free", "pBuffer", "none", "none", "none")
           /\ Locals(test) = {"hfile", "pBuffer"}
<1>1. DriverEntry[test] = WriteFileTest
  BY Entries
<1> DEFINE b == WriteFileTest[1].body
<1>2. DriverEntry[test] = <<Once(b)>> /\ Body(test) = b
  BY <1>1 DEF WriteFileTest, Body, Once
<1>3. DOMAIN b = 1..8 /\ Len(b) = 8
  BY DEF WriteFileTest, Once
<1>4. /\ b[1] = Call("open", "hfile", "none", "file", "create")
      /\ b[2] = Call("allocate", "pBuffer", "none", "none", "fixed")
      /\ b[3] = Call("fill", "pBuffer", "none", "none", "none")
      /\ b[4] = Call("put", "none", "hfile", "file", "none")
      /\ b[5] = Call("fill", "pBuffer", "none", "none", "none")
      /\ b[6] = Call("put", "none", "hfile", "file", "none")
      /\ b[7] = Call("close", "hfile", "hfile", "none", "none")
      /\ b[8] = Call("free", "pBuffer", "none", "none", "none")
  BY DEF WriteFileTest, Once, Call, Create, AllocateFixed, Fill, Put, Close, Free
<1> HIDE DEF b
<1>5. Calls(test) = {b[k] : k \in 1..8}
  BY <1>2, <1>3 DEF Calls, Once, ToSet
<1>6. \A k \in 1..8 : k = 1 \/ k = 2 \/ k = 3 \/ k = 4 \/ k = 5 \/ k = 6 \/ k = 7 \/ k = 8
  OBVIOUS
<1>7. /\ b[1].v = "hfile" /\ b[2].v = "pBuffer" /\ b[3].v = "pBuffer" /\ b[4].v = "none"
      /\ b[5].v = "pBuffer" /\ b[6].v = "none" /\ b[7].v = "hfile" /\ b[8].v = "pBuffer"
  BY <1>4 DEF Call
<1>8. {c.v : c \in Calls(test)} = {"hfile", "pBuffer"} \cup {"none"}
  BY <1>5, <1>6, <1>7
<1>9. Locals(test) = {"hfile", "pBuffer"}
  BY <1>8 DEF Locals
<1> QED BY <1>2, <1>3, <1>4, <1>9

LEMMA ReadFileTestTable ==
    ASSUME test = "ReadFileTest"
    PROVE  /\ DriverEntry[test] = <<Once(Body(test))>>
           /\ DOMAIN Body(test) = 1..6 /\ Len(Body(test)) = 6
           /\ Body(test)[1] = Call("open", "hfile", "none", "file", "return")
           /\ Body(test)[2] = Call("size", "none", "hfile", "file", "none")
           /\ Body(test)[3] = Call("allocate", "pBuffer", "none", "none", "sized")
           /\ Body(test)[4] = Call("data", "pBuffer", "hfile", "file", "none")
           /\ Body(test)[5] = Call("close", "hfile", "hfile", "none", "none")
           /\ Body(test)[6] = Call("free", "pBuffer", "none", "none", "none")
           /\ Locals(test) = {"hfile", "pBuffer"}
<1>1. DriverEntry[test] = ReadFileTest
  BY Entries
<1> DEFINE b == ReadFileTest[1].body
<1>2. DriverEntry[test] = <<Once(b)>> /\ Body(test) = b
  BY <1>1 DEF ReadFileTest, Body, Once
<1>3. DOMAIN b = 1..6 /\ Len(b) = 6
  BY DEF ReadFileTest, Once
<1>4. /\ b[1] = Call("open", "hfile", "none", "file", "return")
      /\ b[2] = Call("size", "none", "hfile", "file", "none")
      /\ b[3] = Call("allocate", "pBuffer", "none", "none", "sized")
      /\ b[4] = Call("data", "pBuffer", "hfile", "file", "none")
      /\ b[5] = Call("close", "hfile", "hfile", "none", "none")
      /\ b[6] = Call("free", "pBuffer", "none", "none", "none")
  BY DEF ReadFileTest, Once, Call, Open, QuerySize, Allocate, QueryData, Close, Free, OrReturn
<1> HIDE DEF b
<1>5. Calls(test) = {b[k] : k \in 1..6}
  BY <1>2, <1>3 DEF Calls, Once, ToSet
<1>6. \A k \in 1..6 : k = 1 \/ k = 2 \/ k = 3 \/ k = 4 \/ k = 5 \/ k = 6
  OBVIOUS
<1>7. /\ b[1].v = "hfile" /\ b[2].v = "none" /\ b[3].v = "pBuffer" /\ b[4].v = "pBuffer"
      /\ b[5].v = "hfile" /\ b[6].v = "pBuffer"
  BY <1>4 DEF Call
<1>8. {c.v : c \in Calls(test)} = {"hfile", "pBuffer"} \cup {"none"}
  BY <1>5, <1>6, <1>7
<1>9. Locals(test) = {"hfile", "pBuffer"}
  BY <1>8 DEF Locals
<1> QED BY <1>2, <1>3, <1>4, <1>9

LEMMA StringInitTestTable ==
    ASSUME test = "StringInitTest"
    PROVE  /\ DriverEntry[test] = <<Once(Body(test))>>
           /\ DOMAIN Body(test) = 1..5 /\ Len(Body(test)) = 5
           /\ Body(test)[1] = Call("overwrite", "string1", "none", "none", "none")
           /\ Body(test)[2] = Call("allocate", "UnicodeString1", "none", "none", "fixed")
           /\ Body(test)[3] = Call("fill", "UnicodeString1", "none", "none", "none")
           /\ Body(test)[4] = Call("use", "UnicodeString1", "none", "none", "none")
           /\ Body(test)[5] = Call("free", "UnicodeString1", "none", "none", "none")
           /\ Locals(test) = {"string1", "UnicodeString1"}
<1>1. DriverEntry[test] = StringInitTest
  BY Entries
<1> DEFINE b == StringInitTest[1].body
<1>2. DriverEntry[test] = <<Once(b)>> /\ Body(test) = b
  BY <1>1 DEF StringInitTest, Body, Once
<1>3. DOMAIN b = 1..5 /\ Len(b) = 5
  BY DEF StringInitTest, Once
<1>4. /\ b[1] = Call("overwrite", "string1", "none", "none", "none")
      /\ b[2] = Call("allocate", "UnicodeString1", "none", "none", "fixed")
      /\ b[3] = Call("fill", "UnicodeString1", "none", "none", "none")
      /\ b[4] = Call("use", "UnicodeString1", "none", "none", "none")
      /\ b[5] = Call("free", "UnicodeString1", "none", "none", "none")
  BY DEF StringInitTest, Once, Call, Overwrite, AllocateFixed, Fill, Use, Free
<1> HIDE DEF b
<1>5. Calls(test) = {b[k] : k \in 1..5}
  BY <1>2, <1>3 DEF Calls, Once, ToSet
<1>6. \A k \in 1..5 : k = 1 \/ k = 2 \/ k = 3 \/ k = 4 \/ k = 5
  OBVIOUS
<1>7. /\ b[1].v = "string1" /\ b[2].v = "UnicodeString1" /\ b[3].v = "UnicodeString1" /\ b[4].v = "UnicodeString1"
      /\ b[5].v = "UnicodeString1"
  BY <1>4 DEF Call
<1>8. {c.v : c \in Calls(test)} = {"string1", "UnicodeString1"}
  BY <1>5, <1>6, <1>7
<1>9. Locals(test) = {"string1", "UnicodeString1"}
  BY <1>8 DEF Locals
<1> QED BY <1>2, <1>3, <1>4, <1>9

LEMMA StringCopyTestTable ==
    ASSUME test = "StringCopyTest"
    PROVE  /\ DriverEntry[test] = <<Once(Body(test))>>
           /\ DOMAIN Body(test) = 1..4 /\ Len(Body(test)) = 4
           /\ Body(test)[1] = Call("allocate", "UnicodeString2", "none", "none", "fixed")
           /\ Body(test)[2] = Call("fill", "UnicodeString2", "none", "none", "none")
           /\ Body(test)[3] = Call("use", "UnicodeString2", "none", "none", "none")
           /\ Body(test)[4] = Call("free", "UnicodeString2", "none", "none", "string")
           /\ Locals(test) = {"UnicodeString2"}
<1>1. DriverEntry[test] = StringCopyTest
  BY Entries
<1> DEFINE b == StringCopyTest[1].body
<1>2. DriverEntry[test] = <<Once(b)>> /\ Body(test) = b
  BY <1>1 DEF StringCopyTest, Body, Once
<1>3. DOMAIN b = 1..4 /\ Len(b) = 4
  BY DEF StringCopyTest, Once
<1>4. /\ b[1] = Call("allocate", "UnicodeString2", "none", "none", "fixed")
      /\ b[2] = Call("fill", "UnicodeString2", "none", "none", "none")
      /\ b[3] = Call("use", "UnicodeString2", "none", "none", "none")
      /\ b[4] = Call("free", "UnicodeString2", "none", "none", "string")
  BY DEF StringCopyTest, Once, Call, AllocateFixed, Fill, Use, FreeString
<1> HIDE DEF b
<1>5. Calls(test) = {b[k] : k \in 1..4}
  BY <1>2, <1>3 DEF Calls, Once, ToSet
<1>6. \A k \in 1..4 : k = 1 \/ k = 2 \/ k = 3 \/ k = 4
  OBVIOUS
<1>7. b[1].v = "UnicodeString2" /\ b[2].v = "UnicodeString2" /\ b[3].v = "UnicodeString2"
      /\ b[4].v = "UnicodeString2"
  BY <1>4 DEF Call
<1>8. {c.v : c \in Calls(test)} = {"UnicodeString2"}
  BY <1>5, <1>6, <1>7
<1>9. Locals(test) = {"UnicodeString2"}
  BY <1>8 DEF Locals
<1> QED BY <1>2, <1>3, <1>4, <1>9

LEMMA StringToIntegerTestTable ==
    ASSUME test = "StringToIntegerTest"
    PROVE  /\ DriverEntry[test] = <<Once(Body(test))>>
           /\ DOMAIN Body(test) = 1..4 /\ Len(Body(test)) = 4
           /\ Body(test)[1] = Call("allocate", "Unicodestring2", "none", "none", "fixed")
           /\ Body(test)[2] = Call("fill", "Unicodestring2", "none", "none", "none")
           /\ Body(test)[3] = Call("use", "Unicodestring2", "none", "none", "none")
           /\ Body(test)[4] = Call("free", "Unicodestring2", "none", "none", "string")
           /\ Locals(test) = {"Unicodestring2"}
<1>1. DriverEntry[test] = StringToIntegerTest
  BY Entries
<1> DEFINE b == StringToIntegerTest[1].body
<1>2. DriverEntry[test] = <<Once(b)>> /\ Body(test) = b
  BY <1>1 DEF StringToIntegerTest, Body, Once
<1>3. DOMAIN b = 1..4 /\ Len(b) = 4
  BY DEF StringToIntegerTest, Once
<1>4. /\ b[1] = Call("allocate", "Unicodestring2", "none", "none", "fixed")
      /\ b[2] = Call("fill", "Unicodestring2", "none", "none", "none")
      /\ b[3] = Call("use", "Unicodestring2", "none", "none", "none")
      /\ b[4] = Call("free", "Unicodestring2", "none", "none", "string")
  BY DEF StringToIntegerTest, Once, Call, AllocateFixed, Fill, Use, FreeString
<1> HIDE DEF b
<1>5. Calls(test) = {b[k] : k \in 1..4}
  BY <1>2, <1>3 DEF Calls, Once, ToSet
<1>6. \A k \in 1..4 : k = 1 \/ k = 2 \/ k = 3 \/ k = 4
  OBVIOUS
<1>7. b[1].v = "Unicodestring2" /\ b[2].v = "Unicodestring2" /\ b[3].v = "Unicodestring2"
      /\ b[4].v = "Unicodestring2"
  BY <1>4 DEF Call
<1>8. {c.v : c \in Calls(test)} = {"Unicodestring2"}
  BY <1>5, <1>6, <1>7
<1>9. Locals(test) = {"Unicodestring2"}
  BY <1>8 DEF Locals
<1> QED BY <1>2, <1>3, <1>4, <1>9

LEMMA StringCompareTestTable ==
    ASSUME test = "StringCompareTest"
    PROVE  /\ DriverEntry[test] = <<Once(Body(test))>>
           /\ DOMAIN Body(test) = 1..1 /\ Len(Body(test)) = 1
           /\ Body(test)[1] = Call("use", "UnicodeString2", "none", "none", "none")
           /\ Locals(test) = {"UnicodeString2"}
<1>1. DriverEntry[test] = StringCompareTest
  BY Entries
<1> DEFINE b == StringCompareTest[1].body
<1>2. DriverEntry[test] = <<Once(b)>> /\ Body(test) = b
  BY <1>1 DEF StringCompareTest, Body, Once
<1>3. DOMAIN b = 1..1 /\ Len(b) = 1
  BY DEF StringCompareTest, Once
<1>4. /\ b[1] = Call("use", "UnicodeString2", "none", "none", "none")
  BY DEF StringCompareTest, Once, Call, Use
<1> HIDE DEF b
<1>5. Calls(test) = {b[k] : k \in 1..1}
  BY <1>2, <1>3 DEF Calls, Once, ToSet
<1>6. \A k \in 1..1 : k = 1
  OBVIOUS
<1>7. b[1].v = "UnicodeString2"
  BY <1>4 DEF Call
<1>8. {c.v : c \in Calls(test)} = {"UnicodeString2"}
  BY <1>5, <1>6, <1>7
<1>9. Locals(test) = {"UnicodeString2"}
  BY <1>8 DEF Locals
<1> QED BY <1>2, <1>3, <1>4, <1>9

LEMMA StringConverTestTable ==
    ASSUME test = "StringConverTest"
    PROVE  /\ DriverEntry[test] = <<Once(Body(test))>>
           /\ DOMAIN Body(test) = 1..4 /\ Len(Body(test)) = 4
           /\ Body(test)[1] = Call("convert", "AnsiString1", "none", "none", "none")
           /\ Body(test)[2] = Call("free", "AnsiString1", "none", "none", "string")
           /\ Body(test)[3] = Call("convert", "UnicodeString2", "none", "none", "none")
           /\ Body(test)[4] = Call("free", "UnicodeString2", "none", "none", "string")
           /\ Locals(test) = {"AnsiString1", "UnicodeString2"}
<1>1. DriverEntry[test] = StringConverTest
  BY Entries
<1> DEFINE b == StringConverTest[1].body
<1>2. DriverEntry[test] = <<Once(b)>> /\ Body(test) = b
  BY <1>1 DEF StringConverTest, Body, Once
<1>3. DOMAIN b = 1..4 /\ Len(b) = 4
  BY DEF StringConverTest, Once
<1>4. /\ b[1] = Call("convert", "AnsiString1", "none", "none", "none")
      /\ b[2] = Call("free", "AnsiString1", "none", "none", "string")
      /\ b[3] = Call("convert", "UnicodeString2", "none", "none", "none")
      /\ b[4] = Call("free", "UnicodeString2", "none", "none", "string")
  BY DEF StringConverTest, Once, Call, Convert, FreeString
<1> HIDE DEF b
<1>5. Calls(test) = {b[k] : k \in 1..4}
  BY <1>2, <1>3 DEF Calls, Once, ToSet
<1>6. \A k \in 1..4 : k = 1 \/ k = 2 \/ k = 3 \/ k = 4
  OBVIOUS
<1>7. b[1].v = "AnsiString1" /\ b[2].v = "AnsiString1" /\ b[3].v = "UnicodeString2"
      /\ b[4].v = "UnicodeString2"
  BY <1>4 DEF Call
<1>8. {c.v : c \in Calls(test)} = {"AnsiString1", "UnicodeString2"}
  BY <1>5, <1>6, <1>7
<1>9. Locals(test) = {"AnsiString1", "UnicodeString2"}
  BY <1>8 DEF Locals
<1> QED BY <1>2, <1>3, <1>4, <1>9


-----------------------------------------------------------------------------
(* What is asked for has a size.                                           *)

Placed ==
    /\ pc.segment \in DOMAIN DriverEntry[test]
    /\ pc.at \in DOMAIN DriverEntry[test][pc.segment].body
    /\ pc.i \in Nat

LEMMA EntriesType ==
    ASSUME entries \in SeqOf(1..MaxSize, MaxEntries)
    PROVE  /\ Len(entries) \in 0..MaxEntries
           /\ \A k \in 1..Len(entries) : entries[k] \in 1..MaxSize
<1>1. PICK m \in 0..MaxEntries : entries \in [1..m -> 1..MaxSize]
  BY DEF SeqOf
<1>2. m \in Nat /\ Len(entries) = m
  BY <1>1, ExercisesAssumption
<1> QED BY <1>1, <1>2

LEMMA ObjectNamed ==
    ASSUME Typed, Placed, This.o \notin {"none", "entry", "full"}
    PROVE  This.o \in DOMAIN world
<1>1. This \in Calls(test)
  BY DEF Placed, This, Calls, ToSet
<1> QED BY <1>1 DEF Objects, Typed

LEMMA SizeOfType ==
    ASSUME Typed, Placed, This.o # "none", There(This.o)
    PROVE  SizeOf(This.o) \in 0..MaxSize
<1>1. This \in Calls(test)
  BY DEF Placed, This, Calls, ToSet
<1>2. CASE This.o = "entry"
  <2>1. pc.i + 1 \in 1..Len(entries)
    BY <1>2, EntriesType, ExercisesAssumption DEF Typed, Placed, There
  <2> QED BY <1>2, <2>1, EntriesType DEF Typed, SizeOf
<1>3. CASE This.o = "full"
  BY <1>3, ExercisesAssumption DEF SizeOf
<1>4. CASE This.o \notin {"entry", "full"}
  <2>1. This.o \in Objects(test)
    BY <1>1, <1>4 DEF Objects
  <2> QED BY <1>4, <2>1 DEF Typed, SizeOf
<1> QED BY <1>2, <1>3, <1>4

-----------------------------------------------------------------------------
(* What a step does, by the kind of the call it makes.                     *)

Makes(c) == Next /\ ~OthersChange /\ This = c
Surely == ~disturbed' => ~disturbed
Stops(v) ==
    /\ local[v] = "NULL" /\ pc' = Stopped
    /\ undefined' = undefined \cup {"NULL"}
    /\ UNCHANGED <<test, local, list, outstanding, size, n, world, entries, disturbed>>

LEMMA Opens ==
    ASSUME NEW v, NEW via, NEW o, NEW how, Makes(Call("open", v, via, o, how))
    PROVE  /\ UNCHANGED <<test, list, outstanding, entries, size, n>> /\ Surely
           /\ undefined' \subseteq undefined \cup {"handle"} /\ (~Stray(via) => undefined' = undefined)
           /\ \/ local' = [local EXCEPT ![v] = "open"] /\ GoOn
              \/ local' = local /\ disturbed' /\ (GoOn \/ (how = "return" /\ pc' = Returned))
           /\ o \in DOMAIN world \ {"entry", "full"} /\ ~disturbed' => world'[o] > 0
<1>1. OpenHandle
  BY DEF Makes, Next, Call, Doing, AskSize, AllocateBlock, AskData, FillBlock, UseBlock,
     FreeBlock,
     UseNull, CloseHandle, ChangeObject, ConvertString, OverwriteLiteral, InsertBlock, RemoveBlock
<1>2. This = Call("open", v, via, o, how)
  BY DEF Makes
<1>3. This.v = v /\ This.via = via /\ This.o = o /\ This.how = how
  BY <1>2 DEF Call
<1>4. PICK opened \in BOOLEAN :
        /\ local' = IF opened THEN [local EXCEPT ![v] = "open"] ELSE local
        /\ world' = IF opened /\ ~There(o) THEN [world EXCEPT ![o] = 1] ELSE world
        /\ disturbed' = (disturbed \/ ~opened)
        /\ undefined' = undefined \cup IF Stray(via) THEN {"handle"} ELSE {}
        /\ UNCHANGED <<test, list, outstanding, entries, size, n>>
        /\ IF ~opened /\ how = "return" THEN pc' = Returned ELSE GoOn
  BY <1>1, <1>3 DEF OpenHandle, Doing, Notes
<1>5. CASE opened
  <2>1. Surely
    BY <1>4, <1>5 DEF Surely
  <2>2. o \in DOMAIN world \ {"entry", "full"} => world'[o] > 0
    BY <1>4, <1>5 DEF There
  <2> QED BY <1>4, <1>5, <2>1, <2>2
<1>6. CASE ~opened
  <2>1. disturbed'
    BY <1>4, <1>6
  <2> QED BY <1>4, <1>6, <2>1 DEF Surely
<1> QED BY <1>5, <1>6

LEMMA AsksSize ==
    ASSUME NEW via, NEW o, NEW how, Makes(Call("size", "none", via, o, how))
    PROVE  /\ UNCHANGED <<test, list, outstanding, n, world, entries>> /\ Surely
           /\ undefined' \subseteq undefined \cup {"handle", "size"}
           /\ ~Stray(via) /\ ~disturbed' => undefined' = undefined
           /\ ~Stray(via) /\ ~disturbed' /\ There(o) => size' = SizeOf(o)
           /\ \/ /\ local' = local /\ GoOn
                 /\ how = "return" /\ ~disturbed' => size' # Garbage
              \/ how = "return" /\ local' = [local EXCEPT ![via] = "closed"] /\ pc' = Returned
<1>1. AskSize
  BY DEF Makes, Next, Call, Doing, OpenHandle, AllocateBlock, AskData, FillBlock, UseBlock,
     FreeBlock,
     UseNull, CloseHandle, ChangeObject, ConvertString, OverwriteLiteral, InsertBlock, RemoveBlock
<1>2. This = Call("size", "none", via, o, how)
  BY DEF Makes
<1>3. \A s \in 1..MaxSize : s # Garbage
  BY ExercisesAssumption DEF Garbage
<1> QED BY <1>1, <1>2, <1>3 DEF AskSize, shared, Doing, Call, Surely, CloseAndReturn

LEMMA Allocates ==
    ASSUME NEW v, NEW how, Makes(Call("allocate", v, "none", "none", how)), outstanding \in Int
    PROVE  /\ UNCHANGED <<test, list, size, n, world, entries>> /\ GoOn /\ Surely
           /\ \/ local' = [local EXCEPT ![v] = "raw"] /\ outstanding' = outstanding + 1
              \/ local' = [local EXCEPT ![v] = "NULL"] /\ outstanding' = outstanding /\ disturbed'
           /\ undefined' \subseteq undefined \cup {"size"}
           /\ how = "fixed" \/ size # Garbage => undefined' = undefined
<1>1. AllocateBlock
  BY DEF Makes, Next, Call, Doing, OpenHandle, AskSize, AskData, FillBlock, UseBlock, FreeBlock,
     UseNull, CloseHandle, ChangeObject, ConvertString, OverwriteLiteral, InsertBlock, RemoveBlock
<1>2. This = Call("allocate", v, "none", "none", how)
  BY DEF Makes
<1>3. This.v = v /\ This.how = how
  BY <1>2 DEF Call
<1>4. PICK block \in {"raw", "NULL"} :
        /\ local' = [local EXCEPT ![v] = block]
        /\ outstanding' = outstanding + IF block = "raw" THEN 1 ELSE 0
        /\ disturbed' = (disturbed \/ block = "NULL")
  BY <1>1, <1>3 DEF AllocateBlock
<1>5. /\ UNCHANGED <<test, list, size, n, world, entries>> /\ GoOn
      /\ undefined' = undefined \cup IF how = "sized" /\ size = Garbage THEN {"size"} ELSE {}
  BY <1>1, <1>3 DEF AllocateBlock, Doing, Notes, shared
<1>6. CASE block = "raw"
  <2>1. Surely
    BY <1>4, <1>6 DEF Surely
  <2> QED BY <1>4, <1>5, <1>6, <2>1
<1>7. CASE block = "NULL"
  <2>1. disturbed'
    BY <1>4, <1>7
  <2>2. outstanding' = outstanding
    BY <1>4, <1>7
  <2> QED BY <1>4, <1>5, <1>7, <2>1, <2>2 DEF Surely
<1> QED BY <1>6, <1>7

LEMMA AsksData ==
    ASSUME NEW v, NEW via, NEW o, NEW how, how # "string", o # "none",
           Makes(Call("data", v, via, o, how)), Typed, Placed
    PROVE  \/ Stops(v)
           \/ /\ UNCHANGED <<test, list, outstanding, world, entries>> /\ Surely
              /\ undefined' \subseteq undefined \cup {"handle"}
              /\ ~Stray(via) => undefined' = undefined
              /\ size # Garbage => size' # Garbage
              /\ o # "full" => n' = n
              /\ ~Stray(via) /\ CanDeliver(This) /\ ~disturbed' => o # "full" \/ n' = Len(entries)
              /\ \/ local[v] # "NULL" /\ local' = [local EXCEPT ![v] = "filled"] /\ GoOn
                 \/ /\ \/ how # "return" /\ local' = local /\ GoOn
                       \/ /\ how = "return"
                          /\ local' = [local EXCEPT ![via] = "closed"] /\ pc' = Returned
                    /\ ~disturbed' => ~CanDeliver(This)
<1>1. AskData \/ UseNull
  BY DEF Makes, Next, Call, Doing, OpenHandle, AskSize, AllocateBlock, FillBlock, UseBlock,
     FreeBlock,
     CloseHandle, ChangeObject, ConvertString, OverwriteLiteral, InsertBlock, RemoveBlock
<1>2. This = Call("data", v, via, o, how)
  BY DEF Makes
<1>3. CASE AskData
  <2>1. This.v = v /\ This.via = via /\ This.o = o /\ This.how = how
    BY <1>2 DEF Call
  <2>2. size' = size \/ (There(This.o) /\ size' = SizeOf(This.o))
    BY <1>3 DEF AskData
  <2>3. size # Garbage => size' # Garbage
    BY <2>1, <2>2, SizeOfType, ExercisesAssumption DEF Garbage
  <2> QED BY <1>3, <2>1, <2>3 DEF AskData, Doing, shared, Surely, Notes, CloseAndReturn
<1>4. CASE UseNull
  BY <1>4, <1>2 DEF UseNull, Doing, memory, shared, Call, Notes, Stops
<1> QED BY <1>1, <1>3, <1>4

LEMMA Fills ==
    ASSUME NEW v, Makes(Call("fill", v, "none", "none", "none"))
    PROVE  \/ Stops(v)
           \/ /\ local[v] # "NULL" /\ local' = [local EXCEPT ![v] = "filled"]
              /\ UNCHANGED <<test, list, outstanding, size, n, world, entries, disturbed, undefined>>
              /\ GoOn
<1>1. FillBlock \/ UseNull
  BY DEF Makes, Next, Call, Doing, OpenHandle, AskSize, AllocateBlock, AskData, UseBlock,
     FreeBlock,
     CloseHandle, ChangeObject, ConvertString, OverwriteLiteral, InsertBlock, RemoveBlock
<1>2. This = Call("fill", v, "none", "none", "none")
  BY DEF Makes
<1> QED BY <1>1, <1>2 DEF FillBlock, UseNull, Doing, memory, shared, Call, Notes, Stops

LEMMA Uses ==
    ASSUME NEW v, NEW how, how # "string", Makes(Call("use", v, "none", "none", how))
    PROVE  \/ Stops(v)
           \/ /\ local[v] # "NULL"
              /\ how = "if_ok" \/ local[v] = "filled" => undefined' = undefined
              /\ UNCHANGED <<test, local, list, outstanding, size, n, world, entries, disturbed>>
              /\ GoOn
<1>1. UseBlock \/ UseNull
  BY DEF Makes, Next, Call, Doing, OpenHandle, AskSize, AllocateBlock, AskData, FillBlock,
     FreeBlock,
     CloseHandle, ChangeObject, ConvertString, OverwriteLiteral, InsertBlock, RemoveBlock
<1>2. This = Call("use", v, "none", "none", how)
  BY DEF Makes
<1> QED BY <1>1, <1>2 DEF UseBlock, UseNull, Doing, memory, shared, Call, Notes, Stops

LEMMA Frees ==
    ASSUME NEW v, NEW how, Makes(Call("free", v, "none", "none", how))
    PROVE  \/ Stops(v) /\ how # "string"
           \/ /\ local[v] = "NULL" => how = "string"
              /\ IF local[v] \in {"raw", "filled"}
                 THEN local' = [local EXCEPT ![v] = "freed"] /\ outstanding' = outstanding - 1
                 ELSE local' = local /\ outstanding' = outstanding
              /\ undefined' \subseteq undefined \cup {"pool"}
              /\ local[v] \in {"raw", "filled", "NULL"} => undefined' = undefined
              /\ UNCHANGED <<test, list, size, n, world, entries, disturbed>>
              /\ GoOn
<1>1. FreeBlock \/ UseNull
  BY DEF Makes, Next, Call, Doing, OpenHandle, AskSize, AllocateBlock, AskData, FillBlock,
     UseBlock,
     CloseHandle, ChangeObject, ConvertString, OverwriteLiteral, InsertBlock, RemoveBlock
<1>2. This = Call("free", v, "none", "none", how)
  BY DEF Makes
<1> QED BY <1>1, <1>2 DEF FreeBlock, UseNull, Doing, memory, shared, Call, Notes, Stops

LEMMA Closes ==
    ASSUME NEW h, Makes(Call("close", h, h, "none", "none"))
    PROVE  /\ local' = [local EXCEPT ![h] = "closed"]
           /\ undefined' \subseteq undefined \cup {"handle"} /\ (~Stray(h) => undefined' = undefined)
           /\ UNCHANGED <<test, list, outstanding, size, n, world, entries, disturbed>>
           /\ GoOn
<1>1. CloseHandle
  BY DEF Makes, Next, Call, Doing, OpenHandle, AskSize, AllocateBlock, AskData, FillBlock,
     UseBlock,
     FreeBlock, UseNull, ChangeObject, ConvertString, OverwriteLiteral, InsertBlock, RemoveBlock
<1>2. This = Call("close", h, h, "none", "none")
  BY DEF Makes
<1> QED BY <1>1, <1>2 DEF CloseHandle, shared, Doing, Call, Notes

LEMMA Changes ==
    ASSUME NEW op \in {"put", "delete", "position"}, NEW via, NEW o,
           Makes(Call(op, "none", via, o, "none"))
    PROVE  /\ undefined' \subseteq undefined \cup {"handle"} /\ (~Stray(via) => undefined' = undefined)
           /\ UNCHANGED <<test, local, list, outstanding, entries, size, n>> /\ GoOn /\ Surely
<1>1. ChangeObject
  BY DEF Makes, Next, Call, Doing, OpenHandle, AskSize, AllocateBlock, AskData, FillBlock,
     UseBlock,
     FreeBlock, UseNull, CloseHandle, ConvertString, OverwriteLiteral, InsertBlock, RemoveBlock
<1>2. This = Call(op, "none", via, o, "none")
  BY DEF Makes
<1> QED BY <1>1, <1>2 DEF ChangeObject, memory, Doing, Call, Notes, Surely

LEMMA Converts ==
    ASSUME NEW v, Makes(Call("convert", v, "none", "none", "none"))
    PROVE  /\ UNCHANGED <<test, list, size, n, world, entries, undefined>> /\ GoOn /\ Surely
           /\ \/ local' = [local EXCEPT ![v] = "filled"] /\ outstanding' = outstanding + 1
              \/ local' = local /\ outstanding' = outstanding /\ disturbed'
<1>1. ConvertString
  BY DEF Makes, Next, Call, Doing, OpenHandle, AskSize, AllocateBlock, AskData, FillBlock,
     UseBlock,
     FreeBlock, UseNull, CloseHandle, ChangeObject, OverwriteLiteral, InsertBlock, RemoveBlock
<1>2. This = Call("convert", v, "none", "none", "none")
  BY DEF Makes
<1> QED BY <1>1, <1>2 DEF ConvertString, shared, Doing, Call, Surely

LEMMA Overwrites ==
    ASSUME NEW v, Makes(Call("overwrite", v, "none", "none", "none"))
    PROVE  /\ UNCHANGED <<test, local, list, outstanding, size, n, world, entries, disturbed>>
           /\ undefined' = undefined \cup {"literal"}
           /\ GoOn \/ pc' = Stopped
<1>1. OverwriteLiteral
  BY DEF Makes, Next, Call, Doing, OpenHandle, AskSize, AllocateBlock, AskData, FillBlock,
     UseBlock,
     FreeBlock, UseNull, CloseHandle, ChangeObject, ConvertString, InsertBlock, RemoveBlock
<1>2. This = Call("overwrite", v, "none", "none", "none")
  BY DEF Makes
<1> QED BY <1>1, <1>2 DEF OverwriteLiteral, memory, shared, Doing, Notes

LEMMA Inserts ==
    ASSUME NEW v, Makes(Call("insert", v, "none", "none", "none"))
    PROVE  /\ list' = Append(list, local[v]) /\ GoOn
           /\ UNCHANGED <<test, local, outstanding, size, n, world, entries, disturbed, undefined>>
<1>1. InsertBlock
  BY DEF Makes, Next, Call, Doing, OpenHandle, AskSize, AllocateBlock, AskData, FillBlock,
     UseBlock,
     FreeBlock, UseNull, CloseHandle, ChangeObject, ConvertString, OverwriteLiteral, RemoveBlock
<1>2. This = Call("insert", v, "none", "none", "none")
  BY DEF Makes
<1> QED BY <1>1, <1>2 DEF InsertBlock, shared, Doing, Call

LEMMA Removes ==
    ASSUME NEW v, Makes(Call("remove", v, "none", "none", "none"))
    PROVE  /\ local' = [local EXCEPT ![v] = Head(list)] /\ list' = Tail(list) /\ GoOn
           /\ UNCHANGED <<test, outstanding, size, n, world, entries, disturbed, undefined>>
<1>1. RemoveBlock
  BY DEF Makes, Next, Call, Doing, OpenHandle, AskSize, AllocateBlock, AskData, FillBlock,
     UseBlock,
     FreeBlock, UseNull, CloseHandle, ChangeObject, ConvertString, OverwriteLiteral, InsertBlock
<1>2. This = Call("remove", v, "none", "none", "none")
  BY DEF Makes
<1> QED BY <1>1, <1>2 DEF RemoveBlock, shared, Doing, Call

-----------------------------------------------------------------------------
(* Types, whatever the exercise.                                           *)

\* What the call at hand finds: blocks where it needs some, room in the list.
Sensible ==
    /\ This.op = "insert" => local[This.v] \in Blocks /\ Len(list) < Elements
    /\ This.op = "remove" => list # <<>>
    /\ This.op = "data" => This.o # "none"

LEMMA TypedStep ==
    ASSUME Typed, Placed, Sensible, Next
    PROVE  Typed'
<1> USE DEF Typed, Values, Blocks, Kinds
<1>1. CASE OpenHandle
  <2>1. disturbed' \in BOOLEAN
    BY <1>1 DEF OpenHandle
  <2>2. local' \in [Locals(test) -> Values]
    BY <1>1 DEF OpenHandle
  <2>3. 1 \in 0..MaxSize
    BY ExercisesAssumption
  <2>4. world' = world \/ world' = [world EXCEPT ![This.o] = 1]
    BY <1>1 DEF OpenHandle
  <2>5. world' \in [Objects(test) -> 0..MaxSize]
    BY <2>3, <2>4
  <2> QED BY <1>1, <2>1, <2>2, <2>5 DEF OpenHandle, Doing, Notes
<1>2. CASE AskSize
  <2>1. PICK answer \in {"delivered", "not_found", "refused"}, s \in 1..MaxSize :
          size' = IF answer = "delivered" THEN s ELSE size
    BY <1>2 DEF AskSize
  <2>2. size' \in 0..MaxSize \cup {Garbage}
    BY <2>1, ExercisesAssumption
  <2> QED BY <1>2, <2>2 DEF AskSize, Doing, CloseAndReturn, shared
<1>3. CASE AllocateBlock
  <2>1. disturbed' \in BOOLEAN
    BY <1>3 DEF AllocateBlock
  <2>2. local' \in [Locals(test) -> Values]
    BY <1>3 DEF AllocateBlock
  <2>3. outstanding' \in Int
    BY <1>3 DEF AllocateBlock
  <2> QED BY <1>3, <2>1, <2>2, <2>3 DEF AllocateBlock, Doing, Notes, shared
<1>4. CASE AskData
  <2>1. size' \in 0..MaxSize \cup {Garbage}
    BY <1>4, SizeOfType DEF AskData, Doing, Sensible
  <2>2. n' \in 0..MaxEntries
    BY <1>4, EntriesType DEF AskData
  <2>3. local' \in [Locals(test) -> Values]
    BY <1>4 DEF AskData, CloseAndReturn
  <2>4. disturbed' \in BOOLEAN
    BY <1>4 DEF AskData
  <2> QED BY <1>4, <2>1, <2>2, <2>3, <2>4 DEF AskData, Doing, Notes, shared
<1>5. CASE FillBlock
  BY <1>5 DEF FillBlock, Doing, shared
<1>6. CASE UseBlock
  BY <1>6 DEF UseBlock, Doing, Notes, memory, shared
<1>7. CASE FreeBlock
  BY <1>7 DEF FreeBlock, Doing, Notes, shared
<1>8. CASE UseNull
  BY <1>8 DEF UseNull, Doing, Notes, memory, shared
<1>9. CASE CloseHandle
  BY <1>9 DEF CloseHandle, Doing, Notes, shared
<1>10. CASE ChangeObject
  <2>1. world' \in [Objects(test) -> 0..MaxSize]
    BY <1>10, ExercisesAssumption DEF ChangeObject, Doing
  <2> QED BY <1>10, <2>1 DEF ChangeObject, Doing, Notes, memory
<1>11. CASE ConvertString
  <2>1. disturbed' \in BOOLEAN
    BY <1>11 DEF ConvertString
  <2>2. local' \in [Locals(test) -> Values] /\ outstanding' \in Int
    BY <1>11 DEF ConvertString
  <2> QED BY <1>11, <2>1, <2>2 DEF ConvertString, Doing, shared
<1>12. CASE OverwriteLiteral
  BY <1>12 DEF OverwriteLiteral, Doing, Notes, memory, shared
<1>13. CASE InsertBlock
  <2>1. list' = Append(list, local[This.v]) /\ local[This.v] \in Blocks /\ Len(list) < Elements
    BY <1>13 DEF InsertBlock, Doing, Sensible
  <2>2. list' \in Seq(Blocks) /\ Len(list') = Len(list) + 1
    BY <2>1
  <2>3. Len(list') <= Elements
    BY <2>1, <2>2, ExercisesAssumption
  <2> QED BY <1>13, <2>2, <2>3 DEF InsertBlock, Doing, shared
<1>14. CASE RemoveBlock
  <2>1. list # <<>> /\ list' = Tail(list) /\ local' = [local EXCEPT ![This.v] = Head(list)]
    BY <1>14 DEF RemoveBlock, Doing, Sensible
  <2>2. Head(list) \in Blocks /\ list' \in Seq(Blocks) /\ Len(list') = Len(list) - 1
    BY <2>1
  <2>3. Len(list') <= Elements
    BY <2>2, ExercisesAssumption
  <2>4. local' \in [Locals(test) -> Values]
    BY <2>1, <2>2
  <2> QED BY <1>14, <2>2, <2>3, <2>4 DEF RemoveBlock, Doing, shared
<1>15. CASE OthersChange
  <2>1. world' \in [Objects(test) -> 0..MaxSize] /\ entries' \in SeqOf(1..MaxSize, MaxEntries)
    BY <1>15 DEF OthersChange
  <2> QED BY <1>15, <2>1 DEF OthersChange, memory
<1> QED BY <1>1, <1>2, <1>3, <1>4, <1>5, <1>6, <1>7, <1>8, <1>9, <1>10, <1>11, <1>12, <1>13,
           <1>14,
           <1>15 DEF Next

-----------------------------------------------------------------------------
(* The call after this one.                                                *)

LEMMA GoesOnce ==
    ASSUME NEW segment, segment.times = "once", NEW i
    PROVE  Goes(segment, i) <=> i < 1
BY DEF Goes

LEMMA AtStraight ==
    ASSUME Straight
    PROVE  pc.segment = 1 /\ pc.i = 0 /\ This = Body(test)[pc.at]
<1>1. pc.segment = 1 /\ pc.i = 0
  BY DEF Straight, At
<1> QED BY <1>1 DEF This, Body

LEMMA NextCall ==
    ASSUME GoOn, Straight, NEW m \in Nat, Len(Body(test)) = m,
           DriverEntry[test] = <<Once(Body(test))>>
    PROVE  pc' = IF pc.at < m THEN At(1, pc.at + 1, 0) ELSE Returned
<1> DEFINE segments == DriverEntry[test]
<1>1. pc.segment = 1 /\ pc.i = 0 /\ pc.at \in 1..m
  BY AtStraight DEF Straight
<1>2. segments[1].times = "once" /\ segments[1].body = Body(test) /\ Len(segments) = 1
  BY DEF Once
<1>3. ~Goes(segments[1], 1)
  BY <1>2, GoesOnce
<1>4. {s \in pc.segment + 1 .. Len(segments) : Goes(segments[s], 0)} = {}
  BY <1>1, <1>2
<1>5. pc.at < m => pc' = [pc EXCEPT !.at = pc.at + 1]
  BY <1>1, <1>2 DEF GoOn
<1>6. ~(pc.at < m) => pc' = Returned
  BY <1>1, <1>2, <1>3, <1>4 DEF GoOn
<1>7. pc = At(1, pc.at, 0)
  BY DEF Straight
<1>8. [pc EXCEPT !.at = pc.at + 1] = At(1, pc.at + 1, 0)
  BY <1>7 DEF At
<1> QED BY <1>5, <1>6, <1>8

-----------------------------------------------------------------------------
(* The exercises of one segment, call by call.                             *)

LEMMA CreateRegTestStep ==
    ASSUME Typed, test = "CreateRegTest", Creating, Next, DefinedUnlessDisturbed
    PROVE  Placed /\ Sensible /\ (Ended \/ Creating)' /\ DefinedUnlessDisturbed'
<1> Straight /\ local \in [{"hRegister", "hSubRegister"} -> Values] /\ outstanding \in Int
  BY CreateRegTestTable DEF Typed, Creating
<1>1. pc.at \in 1..4 /\ pc.segment = 1 /\ pc.i = 0 /\ This = Body(test)[pc.at]
  BY CreateRegTestTable, AtStraight DEF Straight
<1>2. pc.at = 1 \/ pc.at = 2 \/ pc.at = 3 \/ pc.at = 4
  BY <1>1
<1>3. Placed
  BY <1>1, CreateRegTestTable DEF Placed, Once, At
<1>4. Sensible
  BY <1>1, <1>2, CreateRegTestTable DEF Sensible, Call
<1>5. GoOn => pc' = IF pc.at < 4 THEN At(1, pc.at + 1, 0) ELSE Returned
  <2>1. 4 \in Nat /\ Len(Body(test)) = 4 /\ DriverEntry[test] = <<Once(Body(test))>>
    BY CreateRegTestTable
  <2> QED BY <2>1, NextCall
<1>6. CASE OthersChange
  <2>1. Creating'
    BY <1>1, <1>6 DEF OthersChange, Creating, Straight, Handled, Given, Owned, memory
  <2>2. DefinedUnlessDisturbed'
    BY <1>6 DEF OthersChange, DefinedUnlessDisturbed
  <2> QED BY <1>3, <1>4, <2>1, <2>2
<1>7. CASE ~OthersChange /\ pc.at = 1
  <2>1. Makes(Call("open", "hRegister", "none", "key", "create"))
    BY <1>1, <1>7, CreateRegTestTable DEF Makes
  <2>2. GoOn => pc' = At(1, 2, 0)
    BY <1>5, <1>7
  <2>3. DefinedUnlessDisturbed'
    BY <1>1, <1>7, <2>1, <2>2, Opens DEF Creating, Handled, Given, Stray, Surely, Stops,
       DefinedUnlessDisturbed, Faulty
  <2>4. Creating'
    BY <1>1, <1>7, <2>1, <2>2, Opens, CreateRegTestTable DEF Creating, Straight, At, Handled,
       Given, Owned, Stray, Surely, Values, Returned
  <2> QED BY <1>3, <1>4, <2>3, <2>4
<1>8. CASE ~OthersChange /\ pc.at = 2
  <2>1. Makes(Call("open", "hSubRegister", "hRegister", "SubItem", "create"))
    BY <1>1, <1>8, CreateRegTestTable DEF Makes
  <2>2. GoOn => pc' = At(1, 3, 0)
    BY <1>5, <1>8
  <2>3. DefinedUnlessDisturbed'
    BY <1>1, <1>8, <2>1, <2>2, Opens DEF Creating, Handled, Given, Stray, Surely, Stops,
       DefinedUnlessDisturbed, Faulty
  <2>4. Creating'
    BY <1>1, <1>8, <2>1, <2>2, Opens, CreateRegTestTable DEF Creating, Straight, At, Handled,
       Given, Owned, Stray, Surely, Values, Returned
  <2> QED BY <1>3, <1>4, <2>3, <2>4
<1>9. CASE ~OthersChange /\ pc.at = 3
  <2>1. Makes(Call("close", "hRegister", "hRegister", "none", "none"))
    BY <1>1, <1>9, CreateRegTestTable DEF Makes
  <2>2. GoOn => pc' = At(1, 4, 0)
    BY <1>5, <1>9
  <2>3. DefinedUnlessDisturbed'
    BY <1>1, <1>9, <2>1, <2>2, Closes DEF Creating, Handled, Given, Stray, Surely, Stops,
       DefinedUnlessDisturbed, Faulty
  <2>4. Creating'
    BY <1>1, <1>9, <2>1, <2>2, Closes, CreateRegTestTable DEF Creating, Straight, At, Handled,
       Given, Owned, Stray, Surely, Values, Returned
  <2> QED BY <1>3, <1>4, <2>3, <2>4
<1>10. CASE ~OthersChange /\ pc.at = 4
  <2>1. Makes(Call("close", "hSubRegister", "hSubRegister", "none", "none"))
    BY <1>1, <1>10, CreateRegTestTable DEF Makes
  <2>2. GoOn => pc' = Returned
    BY <1>5, <1>10
  <2>3. DefinedUnlessDisturbed'
    BY <1>1, <1>10, <2>1, <2>2, Closes DEF Creating, Handled, Given, Stray, Surely, Stops,
       DefinedUnlessDisturbed, Faulty
  <2>4. pc' = Returned => Ended'
    BY <1>1, <1>10, <2>1, <2>2, Closes DEF Creating, Ended, Handled, Given, Owned, Stray, At,
       Returned
  <2>5. pc' = Returned
    BY <1>1, <1>10, <2>1, <2>2, Closes
  <2> QED BY <1>3, <1>4, <2>3, <2>4, <2>5
<1> QED BY <1>2, <1>6, <1>7, <1>8, <1>9, <1>10

LEMMA QueryRegTestStep ==
    ASSUME Typed, test = "QueryRegTest", Querying, Next, DefinedUnlessDisturbed
    PROVE  Placed /\ Sensible /\ (Ended \/ Querying)' /\ DefinedUnlessDisturbed'
<1> Straight /\ local \in [{"hRegister", "pvpi"} -> Values] /\ outstanding \in Int
  BY QueryRegTestTable DEF Typed, Querying
<1>1. pc.at \in 1..11 /\ pc.segment = 1 /\ pc.i = 0 /\ This = Body(test)[pc.at]
  BY QueryRegTestTable, AtStraight DEF Straight
<1>2. pc.at = 1 \/ pc.at = 2 \/ pc.at = 3 \/ pc.at = 4 \/ pc.at = 5 \/ pc.at = 6 \/ pc.at = 7
      \/ pc.at = 8 \/ pc.at = 9 \/ pc.at = 10 \/ pc.at = 11
  BY <1>1
<1>3. Placed
  BY <1>1, QueryRegTestTable DEF Placed, Once, At
<1>4. Sensible
  BY <1>1, <1>2, QueryRegTestTable DEF Sensible, Call
<1>5. GoOn => pc' = IF pc.at < 11 THEN At(1, pc.at + 1, 0) ELSE Returned
  <2>1. 11 \in Nat /\ Len(Body(test)) = 11 /\ DriverEntry[test] = <<Once(Body(test))>>
    BY QueryRegTestTable
  <2> QED BY <2>1, NextCall
<1>6. CASE OthersChange
  <2>1. Querying'
    BY <1>1, <1>6 DEF OthersChange, Querying, Straight, Handled, Given, Owned, memory
  <2>2. DefinedUnlessDisturbed'
    BY <1>6 DEF OthersChange, DefinedUnlessDisturbed
  <2> QED BY <1>3, <1>4, <2>1, <2>2
<1>7. CASE ~OthersChange /\ pc.at = 1
  <2>1. Makes(Call("open", "hRegister", "none", "key", "none"))
    BY <1>1, <1>7, QueryRegTestTable DEF Makes
  <2>2. GoOn => pc' = At(1, 2, 0)
    BY <1>5, <1>7
  <2>3. DefinedUnlessDisturbed'
    BY <1>1, <1>7, <2>1, <2>2, Opens DEF Querying, Handled, Given, Stray, Surely, Stops,
       DefinedUnlessDisturbed, Faulty
  <2>4. Querying'
    BY <1>1, <1>7, <2>1, <2>2, Opens, QueryRegTestTable DEF Querying, Straight, At, Handled,
       Given, Owned, Stray, Surely, Values, Returned
  <2> QED BY <1>3, <1>4, <2>3, <2>4
<1>8. CASE ~OthersChange /\ pc.at = 2
  <2>1. Makes(Call("size", "none", "hRegister", "dword", "return"))
    BY <1>1, <1>8, QueryRegTestTable DEF Makes
  <2>2. GoOn => pc' = At(1, 3, 0)
    BY <1>5, <1>8
  <2>3. DefinedUnlessDisturbed'
    BY <1>1, <1>8, <2>1, <2>2, AsksSize DEF Querying, Handled, Given, Stray, Surely, Stops,
       DefinedUnlessDisturbed, Faulty
  <2>4. pc' = Returned => Ended'
    BY <1>1, <1>8, <2>1, <2>2, AsksSize DEF Querying, Ended, Handled, Given, Owned, Stray, At,
       Returned
  <2>5. pc' # Returned => Querying'
    BY <1>1, <1>8, <2>1, <2>2, AsksSize, QueryRegTestTable DEF Querying, Straight, At, Handled,
       Given, Owned, Stray, Surely, Values, Returned
  <2> QED BY <1>3, <1>4, <2>3, <2>4, <2>5
<1>9. CASE ~OthersChange /\ pc.at = 3
  <2>1. Makes(Call("allocate", "pvpi", "none", "none", "sized"))
    BY <1>1, <1>9, QueryRegTestTable DEF Makes
  <2>2. GoOn => pc' = At(1, 4, 0)
    BY <1>5, <1>9
  <2>3. DefinedUnlessDisturbed'
    BY <1>1, <1>9, <2>1, <2>2, Allocates DEF Querying, Handled, Given, Stray, Surely, Stops,
       DefinedUnlessDisturbed, Faulty
  <2>4. Querying'
    BY <1>1, <1>9, <2>1, <2>2, Allocates, QueryRegTestTable DEF Querying, Straight, At, Handled,
       Given, Owned, Stray, Surely, Values, Returned
  <2> QED BY <1>3, <1>4, <2>3, <2>4
<1>10. CASE ~OthersChange /\ pc.at = 4
  <2>1. Makes(Call("data", "pvpi", "hRegister", "dword", "return"))
    BY <1>1, <1>10, QueryRegTestTable DEF Makes
  <2>2. GoOn => pc' = At(1, 5, 0)
    BY <1>5, <1>10
  <2>3. DefinedUnlessDisturbed'
    BY <1>3, <1>1, <1>10, <2>1, <2>2, AsksData DEF Querying, Handled, Given, Stray, Surely,
       Stops, DefinedUnlessDisturbed, Faulty
  <2>4. Stops("pvpi") => Ended'
    BY ExercisesAssumption DEF Stops, Ended, Querying, Owned
  <2>5. ~Stops("pvpi") /\ pc' = Returned => Ended'
    BY <1>3, <1>1, <1>10, <2>1, <2>2, AsksData DEF Querying, Ended, Handled, Given, Owned,
       Stray, At, Returned
  <2>6. ~Stops("pvpi") /\ pc' # Returned => Querying'
    BY <1>3, <1>1, <1>10, <2>1, <2>2, AsksData, QueryRegTestTable DEF Querying, Straight, At,
       Handled, Given, Owned, Stray, Surely, Values, Returned
  <2> QED BY <1>3, <1>4, <2>3, <2>4, <2>5, <2>6
<1>11. CASE ~OthersChange /\ pc.at = 5
  <2>1. Makes(Call("use", "pvpi", "none", "none", "none"))
    BY <1>1, <1>11, QueryRegTestTable DEF Makes
  <2>2. GoOn => pc' = At(1, 6, 0)
    BY <1>5, <1>11
  <2>3. DefinedUnlessDisturbed'
    BY <1>1, <1>11, <2>1, <2>2, Uses DEF Querying, Handled, Given, Stray, Surely, Stops,
       DefinedUnlessDisturbed, Faulty
  <2>4. Stops("pvpi") => Ended'
    BY ExercisesAssumption DEF Stops, Ended, Querying, Owned
  <2>5. ~Stops("pvpi") => Querying'
    BY <1>1, <1>11, <2>1, <2>2, Uses, QueryRegTestTable DEF Querying, Straight, At, Handled,
       Given, Owned, Stray, Surely, Values, Returned
  <2> QED BY <1>3, <1>4, <2>3, <2>4, <2>5
<1>12. CASE ~OthersChange /\ pc.at = 6
  <2>1. Makes(Call("free", "pvpi", "none", "none", "none"))
    BY <1>1, <1>12, QueryRegTestTable DEF Makes
  <2>2. GoOn => pc' = At(1, 7, 0)
    BY <1>5, <1>12
  <2>3. DefinedUnlessDisturbed'
    BY <1>1, <1>12, <2>1, <2>2, Frees DEF Querying, Handled, Given, Stray, Surely, Stops,
       DefinedUnlessDisturbed, Faulty
  <2>4. Stops("pvpi") => Ended'
    BY ExercisesAssumption DEF Stops, Ended, Querying, Owned
  <2>5. ~Stops("pvpi") => Querying'
    BY <1>1, <1>12, <2>1, <2>2, Frees, QueryRegTestTable DEF Querying, Straight, At, Handled,
       Given, Owned, Stray, Surely, Values, Returned
  <2> QED BY <1>3, <1>4, <2>3, <2>4, <2>5
<1>13. CASE ~OthersChange /\ pc.at = 7
  <2>1. Makes(Call("size", "none", "hRegister", "sz", "return"))
    BY <1>1, <1>13, QueryRegTestTable DEF Makes
  <2>2. GoOn => pc' = At(1, 8, 0)
    BY <1>5, <1>13
  <2>3. DefinedUnlessDisturbed'
    BY <1>1, <1>13, <2>1, <2>2, AsksSize DEF Querying, Handled, Given, Stray, Surely, Stops,
       DefinedUnlessDisturbed, Faulty
  <2>4. pc' = Returned => Ended'
    BY <1>1, <1>13, <2>1, <2>2, AsksSize DEF Querying, Ended, Handled, Given, Owned, Stray, At,
       Returned
  <2>5. pc' # Returned => Querying'
    BY <1>1, <1>13, <2>1, <2>2, AsksSize, QueryRegTestTable DEF Querying, Straight, At, Handled,
       Given, Owned, Stray, Surely, Values, Returned
  <2> QED BY <1>3, <1>4, <2>3, <2>4, <2>5
<1>14. CASE ~OthersChange /\ pc.at = 8
  <2>1. Makes(Call("allocate", "pvpi", "none", "none", "sized"))
    BY <1>1, <1>14, QueryRegTestTable DEF Makes
  <2>2. GoOn => pc' = At(1, 9, 0)
    BY <1>5, <1>14
  <2>3. DefinedUnlessDisturbed'
    BY <1>1, <1>14, <2>1, <2>2, Allocates DEF Querying, Handled, Given, Stray, Surely, Stops,
       DefinedUnlessDisturbed, Faulty
  <2>4. Querying'
    BY <1>1, <1>14, <2>1, <2>2, Allocates, QueryRegTestTable DEF Querying, Straight, At,
       Handled, Given, Owned, Stray, Surely, Values, Returned
  <2> QED BY <1>3, <1>4, <2>3, <2>4
<1>15. CASE ~OthersChange /\ pc.at = 9
  <2>1. Makes(Call("data", "pvpi", "hRegister", "sz", "return"))
    BY <1>1, <1>15, QueryRegTestTable DEF Makes
  <2>2. GoOn => pc' = At(1, 10, 0)
    BY <1>5, <1>15
  <2>3. DefinedUnlessDisturbed'
    BY <1>3, <1>1, <1>15, <2>1, <2>2, AsksData DEF Querying, Handled, Given, Stray, Surely,
       Stops, DefinedUnlessDisturbed, Faulty
  <2>4. Stops("pvpi") => Ended'
    BY ExercisesAssumption DEF Stops, Ended, Querying, Owned
  <2>5. ~Stops("pvpi") /\ pc' = Returned => Ended'
    BY <1>3, <1>1, <1>15, <2>1, <2>2, AsksData DEF Querying, Ended, Handled, Given, Owned,
       Stray, At, Returned
  <2>6. ~Stops("pvpi") /\ pc' # Returned => Querying'
    BY <1>3, <1>1, <1>15, <2>1, <2>2, AsksData, QueryRegTestTable DEF Querying, Straight, At,
       Handled, Given, Owned, Stray, Surely, Values, Returned
  <2> QED BY <1>3, <1>4, <2>3, <2>4, <2>5, <2>6
<1>16. CASE ~OthersChange /\ pc.at = 10
  <2>1. Makes(Call("use", "pvpi", "none", "none", "none"))
    BY <1>1, <1>16, QueryRegTestTable DEF Makes
  <2>2. GoOn => pc' = At(1, 11, 0)
    BY <1>5, <1>16
  <2>3. DefinedUnlessDisturbed'
    BY <1>1, <1>16, <2>1, <2>2, Uses DEF Querying, Handled, Given, Stray, Surely, Stops,
       DefinedUnlessDisturbed, Faulty
  <2>4. Stops("pvpi") => Ended'
    BY ExercisesAssumption DEF Stops, Ended, Querying, Owned
  <2>5. ~Stops("pvpi") => Querying'
    BY <1>1, <1>16, <2>1, <2>2, Uses, QueryRegTestTable DEF Querying, Straight, At, Handled,
       Given, Owned, Stray, Surely, Values, Returned
  <2> QED BY <1>3, <1>4, <2>3, <2>4, <2>5
<1>17. CASE ~OthersChange /\ pc.at = 11
  <2>1. Makes(Call("close", "hRegister", "hRegister", "none", "none"))
    BY <1>1, <1>17, QueryRegTestTable DEF Makes
  <2>2. GoOn => pc' = Returned
    BY <1>5, <1>17
  <2>3. DefinedUnlessDisturbed'
    BY <1>1, <1>17, <2>1, <2>2, Closes DEF Querying, Handled, Given, Stray, Surely, Stops,
       DefinedUnlessDisturbed, Faulty
  <2>4. pc' = Returned => Ended'
    BY <1>1, <1>17, <2>1, <2>2, Closes DEF Querying, Ended, Handled, Given, Owned, Stray, At,
       Returned
  <2>5. pc' = Returned
    BY <1>1, <1>17, <2>1, <2>2, Closes
  <2> QED BY <1>3, <1>4, <2>3, <2>4, <2>5
<1> QED BY <1>2, <1>6, <1>7, <1>8, <1>9, <1>10, <1>11, <1>12, <1>13, <1>14, <1>15, <1>16, <1>17

LEMMA RtlRegTestStep ==
    ASSUME Typed, test = "RtlRegTest", Rtl, Next, DefinedUnlessDisturbed, undefined = {}
    PROVE  Placed /\ Sensible /\ (Ended \/ Rtl)' /\ DefinedUnlessDisturbed' /\ undefined' = {}
<1> Straight /\ local \in [{"uQueryValue"} -> Values] /\ outstanding \in Int
  BY RtlRegTestTable DEF Typed, Rtl
<1>1. pc.at \in 1..6 /\ pc.segment = 1 /\ pc.i = 0 /\ This = Body(test)[pc.at]
  BY RtlRegTestTable, AtStraight DEF Straight
<1>2. pc.at = 1 \/ pc.at = 2 \/ pc.at = 3 \/ pc.at = 4 \/ pc.at = 5 \/ pc.at = 6
  BY <1>1
<1>3. Placed
  BY <1>1, RtlRegTestTable DEF Placed, Once, At
<1>4. Sensible
  BY <1>1, <1>2, RtlRegTestTable DEF Sensible, Call
<1>5. GoOn => pc' = IF pc.at < 6 THEN At(1, pc.at + 1, 0) ELSE Returned
  <2>1. 6 \in Nat /\ Len(Body(test)) = 6 /\ DriverEntry[test] = <<Once(Body(test))>>
    BY RtlRegTestTable
  <2> QED BY <2>1, NextCall
<1>6. CASE OthersChange
  <2>1. Rtl'
    BY <1>1, <1>6 DEF OthersChange, Rtl, Straight, Handled, Given, Owned, memory
  <2>2. DefinedUnlessDisturbed'
    BY <1>6 DEF OthersChange, DefinedUnlessDisturbed
  <2> QED BY <1>3, <1>4, <1>6, <2>1, <2>2 DEF OthersChange
<1>7. CASE ~OthersChange /\ pc.at = 1
  <2>1. Makes(Call("put", "none", "none", "service_key", "none"))
    BY <1>1, <1>7, RtlRegTestTable DEF Makes
  <2>2. GoOn => pc' = At(1, 2, 0)
    BY <1>5, <1>7
  <2>3. DefinedUnlessDisturbed' /\ undefined' = {}
    BY <1>1, <1>7, <2>1, <2>2, Changes DEF Rtl, Handled, Given, Stray, Surely, Stops,
       DefinedUnlessDisturbed, Faulty
  <2>4. Rtl'
    BY <1>1, <1>7, <2>1, <2>2, Changes, RtlRegTestTable DEF Rtl, Straight, At, Handled, Given,
       Owned, Stray, Surely, Values, Returned
  <2> QED BY <1>3, <1>4, <2>3, <2>4
<1>8. CASE ~OthersChange /\ pc.at = 2
  <2>1. Makes(Call("put", "none", "none", "service_dword", "none"))
    BY <1>1, <1>8, RtlRegTestTable DEF Makes
  <2>2. GoOn => pc' = At(1, 3, 0)
    BY <1>5, <1>8
  <2>3. DefinedUnlessDisturbed' /\ undefined' = {}
    BY <1>1, <1>8, <2>1, <2>2, Changes DEF Rtl, Handled, Given, Stray, Surely, Stops,
       DefinedUnlessDisturbed, Faulty
  <2>4. Rtl'
    BY <1>1, <1>8, <2>1, <2>2, Changes, RtlRegTestTable DEF Rtl, Straight, At, Handled, Given,
       Owned, Stray, Surely, Values, Returned
  <2> QED BY <1>3, <1>4, <2>3, <2>4
<1>9. CASE ~OthersChange /\ pc.at = 3
  <2>1. Makes(Call("put", "none", "none", "service_sz", "none"))
    BY <1>1, <1>9, RtlRegTestTable DEF Makes
  <2>2. GoOn => pc' = At(1, 4, 0)
    BY <1>5, <1>9
  <2>3. DefinedUnlessDisturbed' /\ undefined' = {}
    BY <1>1, <1>9, <2>1, <2>2, Changes DEF Rtl, Handled, Given, Stray, Surely, Stops,
       DefinedUnlessDisturbed, Faulty
  <2>4. Rtl'
    BY <1>1, <1>9, <2>1, <2>2, Changes, RtlRegTestTable DEF Rtl, Straight, At, Handled, Given,
       Owned, Stray, Surely, Values, Returned
  <2> QED BY <1>3, <1>4, <2>3, <2>4
<1>10. CASE ~OthersChange /\ pc.at = 4
  <2>1. Makes(Call("data", "uQueryValue", "none", "service_dword", "none"))
    BY <1>1, <1>10, RtlRegTestTable DEF Makes
  <2>2. GoOn => pc' = At(1, 5, 0)
    BY <1>5, <1>10
  <2>3. DefinedUnlessDisturbed' /\ undefined' = {}
    BY <1>3, <1>1, <1>10, <2>1, <2>2, AsksData DEF Rtl, Handled, Given, Stray, Surely, Stops,
       DefinedUnlessDisturbed, Faulty
  <2>4. Stops("uQueryValue") => Ended'
    BY ExercisesAssumption DEF Stops, Ended, Rtl, Owned
  <2>5. ~Stops("uQueryValue") => Rtl'
    BY <1>3, <1>1, <1>10, <2>1, <2>2, AsksData, RtlRegTestTable DEF Rtl, Straight, At, Handled,
       Given, Owned, Stray, Surely, Values, Returned
  <2> QED BY <1>3, <1>4, <2>3, <2>4, <2>5
<1>11. CASE ~OthersChange /\ pc.at = 5
  <2>1. Makes(Call("use", "uQueryValue", "none", "none", "if_ok"))
    BY <1>1, <1>11, RtlRegTestTable DEF Makes
  <2>2. GoOn => pc' = At(1, 6, 0)
    BY <1>5, <1>11
  <2>3. DefinedUnlessDisturbed' /\ undefined' = {}
    BY <1>1, <1>11, <2>1, <2>2, Uses DEF Rtl, Handled, Given, Stray, Surely, Stops,
       DefinedUnlessDisturbed, Faulty
  <2>4. Stops("uQueryValue") => Ended'
    BY ExercisesAssumption DEF Stops, Ended, Rtl, Owned
  <2>5. ~Stops("uQueryValue") => Rtl'
    BY <1>1, <1>11, <2>1, <2>2, Uses, RtlRegTestTable DEF Rtl, Straight, At, Handled, Given,
       Owned, Stray, Surely, Values, Returned
  <2> QED BY <1>3, <1>4, <2>3, <2>4, <2>5
<1>12. CASE ~OthersChange /\ pc.at = 6
  <2>1. Makes(Call("delete", "none", "none", "service_dword", "none"))
    BY <1>1, <1>12, RtlRegTestTable DEF Makes
  <2>2. GoOn => pc' = Returned
    BY <1>5, <1>12
  <2>3. DefinedUnlessDisturbed' /\ undefined' = {}
    BY <1>1, <1>12, <2>1, <2>2, Changes DEF Rtl, Handled, Given, Stray, Surely, Stops,
       DefinedUnlessDisturbed, Faulty
  <2>4. pc' = Returned => Ended'
    BY <1>1, <1>12, <2>1, <2>2, Changes DEF Rtl, Ended, Handled, Given, Owned, Stray, At,
       Returned
  <2>5. pc' = Returned
    BY <1>1, <1>12, <2>1, <2>2, Changes
  <2> QED BY <1>3, <1>4, <2>3, <2>4, <2>5
<1> QED BY <1>2, <1>6, <1>7, <1>8, <1>9, <1>10, <1>11, <1>12

LEMMA WriteFileTestStep ==
    ASSUME Typed, test = "WriteFileTest", Writing, Next, DefinedUnlessDisturbed
    PROVE  Placed /\ Sensible /\ (Ended \/ Writing)' /\ DefinedUnlessDisturbed'
<1> Straight /\ local \in [{"hfile", "pBuffer"} -> Values] /\ outstanding \in Int
  BY WriteFileTestTable DEF Typed, Writing
<1>1. pc.at \in 1..8 /\ pc.segment = 1 /\ pc.i = 0 /\ This = Body(test)[pc.at]
  BY WriteFileTestTable, AtStraight DEF Straight
<1>2. pc.at = 1 \/ pc.at = 2 \/ pc.at = 3 \/ pc.at = 4 \/ pc.at = 5 \/ pc.at = 6 \/ pc.at = 7
      \/ pc.at = 8
  BY <1>1
<1>3. Placed
  BY <1>1, WriteFileTestTable DEF Placed, Once, At
<1>4. Sensible
  BY <1>1, <1>2, WriteFileTestTable DEF Sensible, Call
<1>5. GoOn => pc' = IF pc.at < 8 THEN At(1, pc.at + 1, 0) ELSE Returned
  <2>1. 8 \in Nat /\ Len(Body(test)) = 8 /\ DriverEntry[test] = <<Once(Body(test))>>
    BY WriteFileTestTable
  <2> QED BY <2>1, NextCall
<1>6. CASE OthersChange
  <2>1. Writing'
    BY <1>1, <1>6 DEF OthersChange, Writing, Straight, Handled, Given, Owned, memory
  <2>2. DefinedUnlessDisturbed'
    BY <1>6 DEF OthersChange, DefinedUnlessDisturbed
  <2> QED BY <1>3, <1>4, <2>1, <2>2
<1>7. CASE ~OthersChange /\ pc.at = 1
  <2>1. Makes(Call("open", "hfile", "none", "file", "create"))
    BY <1>1, <1>7, WriteFileTestTable DEF Makes
  <2>2. GoOn => pc' = At(1, 2, 0)
    BY <1>5, <1>7
  <2>3. DefinedUnlessDisturbed'
    BY <1>1, <1>7, <2>1, <2>2, Opens DEF Writing, Handled, Given, Stray, Surely, Stops,
       DefinedUnlessDisturbed, Faulty
  <2>4. Writing'
    BY <1>1, <1>7, <2>1, <2>2, Opens, WriteFileTestTable DEF Writing, Straight, At, Handled,
       Given, Owned, Stray, Surely, Values, Returned
  <2> QED BY <1>3, <1>4, <2>3, <2>4
<1>8. CASE ~OthersChange /\ pc.at = 2
  <2>1. Makes(Call("allocate", "pBuffer", "none", "none", "fixed"))
    BY <1>1, <1>8, WriteFileTestTable DEF Makes
  <2>2. GoOn => pc' = At(1, 3, 0)
    BY <1>5, <1>8
  <2>3. DefinedUnlessDisturbed'
    BY <1>1, <1>8, <2>1, <2>2, Allocates DEF Writing, Handled, Given, Stray, Surely, Stops,
       DefinedUnlessDisturbed, Faulty
  <2>4. Writing'
    BY <1>1, <1>8, <2>1, <2>2, Allocates, WriteFileTestTable DEF Writing, Straight, At, Handled,
       Given, Owned, Stray, Surely, Values, Returned
  <2> QED BY <1>3, <1>4, <2>3, <2>4
<1>9. CASE ~OthersChange /\ pc.at = 3
  <2>1. Makes(Call("fill", "pBuffer", "none", "none", "none"))
    BY <1>1, <1>9, WriteFileTestTable DEF Makes
  <2>2. GoOn => pc' = At(1, 4, 0)
    BY <1>5, <1>9
  <2>3. DefinedUnlessDisturbed'
    BY <1>1, <1>9, <2>1, <2>2, Fills DEF Writing, Handled, Given, Stray, Surely, Stops,
       DefinedUnlessDisturbed, Faulty
  <2>4. Stops("pBuffer") => Ended'
    BY ExercisesAssumption DEF Stops, Ended, Writing, Owned
  <2>5. ~Stops("pBuffer") => Writing'
    BY <1>1, <1>9, <2>1, <2>2, Fills, WriteFileTestTable DEF Writing, Straight, At, Handled,
       Given, Owned, Stray, Surely, Values, Returned
  <2> QED BY <1>3, <1>4, <2>3, <2>4, <2>5
<1>10. CASE ~OthersChange /\ pc.at = 4
  <2>1. Makes(Call("put", "none", "hfile", "file", "none"))
    BY <1>1, <1>10, WriteFileTestTable DEF Makes
  <2>2. GoOn => pc' = At(1, 5, 0)
    BY <1>5, <1>10
  <2>3. DefinedUnlessDisturbed'
    BY <1>1, <1>10, <2>1, <2>2, Changes DEF Writing, Handled, Given, Stray, Surely, Stops,
       DefinedUnlessDisturbed, Faulty
  <2>4. Writing'
    BY <1>1, <1>10, <2>1, <2>2, Changes, WriteFileTestTable DEF Writing, Straight, At, Handled,
       Given, Owned, Stray, Surely, Values, Returned
  <2> QED BY <1>3, <1>4, <2>3, <2>4
<1>11. CASE ~OthersChange /\ pc.at = 5
  <2>1. Makes(Call("fill", "pBuffer", "none", "none", "none"))
    BY <1>1, <1>11, WriteFileTestTable DEF Makes
  <2>2. GoOn => pc' = At(1, 6, 0)
    BY <1>5, <1>11
  <2>3. DefinedUnlessDisturbed'
    BY <1>1, <1>11, <2>1, <2>2, Fills DEF Writing, Handled, Given, Stray, Surely, Stops,
       DefinedUnlessDisturbed, Faulty
  <2>4. Stops("pBuffer") => Ended'
    BY ExercisesAssumption DEF Stops, Ended, Writing, Owned
  <2>5. ~Stops("pBuffer") => Writing'
    BY <1>1, <1>11, <2>1, <2>2, Fills, WriteFileTestTable DEF Writing, Straight, At, Handled,
       Given, Owned, Stray, Surely, Values, Returned
  <2> QED BY <1>3, <1>4, <2>3, <2>4, <2>5
<1>12. CASE ~OthersChange /\ pc.at = 6
  <2>1. Makes(Call("put", "none", "hfile", "file", "none"))
    BY <1>1, <1>12, WriteFileTestTable DEF Makes
  <2>2. GoOn => pc' = At(1, 7, 0)
    BY <1>5, <1>12
  <2>3. DefinedUnlessDisturbed'
    BY <1>1, <1>12, <2>1, <2>2, Changes DEF Writing, Handled, Given, Stray, Surely, Stops,
       DefinedUnlessDisturbed, Faulty
  <2>4. Writing'
    BY <1>1, <1>12, <2>1, <2>2, Changes, WriteFileTestTable DEF Writing, Straight, At, Handled,
       Given, Owned, Stray, Surely, Values, Returned
  <2> QED BY <1>3, <1>4, <2>3, <2>4
<1>13. CASE ~OthersChange /\ pc.at = 7
  <2>1. Makes(Call("close", "hfile", "hfile", "none", "none"))
    BY <1>1, <1>13, WriteFileTestTable DEF Makes
  <2>2. GoOn => pc' = At(1, 8, 0)
    BY <1>5, <1>13
  <2>3. DefinedUnlessDisturbed'
    BY <1>1, <1>13, <2>1, <2>2, Closes DEF Writing, Handled, Given, Stray, Surely, Stops,
       DefinedUnlessDisturbed, Faulty
  <2>4. Writing'
    BY <1>1, <1>13, <2>1, <2>2, Closes, WriteFileTestTable DEF Writing, Straight, At, Handled,
       Given, Owned, Stray, Surely, Values, Returned
  <2> QED BY <1>3, <1>4, <2>3, <2>4
<1>14. CASE ~OthersChange /\ pc.at = 8
  <2>1. Makes(Call("free", "pBuffer", "none", "none", "none"))
    BY <1>1, <1>14, WriteFileTestTable DEF Makes
  <2>2. GoOn => pc' = Returned
    BY <1>5, <1>14
  <2>3. DefinedUnlessDisturbed'
    BY <1>1, <1>14, <2>1, <2>2, Frees DEF Writing, Handled, Given, Stray, Surely, Stops,
       DefinedUnlessDisturbed, Faulty
  <2>4. Stops("pBuffer") => Ended'
    BY ExercisesAssumption DEF Stops, Ended, Writing, Owned
  <2>5. ~Stops("pBuffer") /\ pc' = Returned => Ended'
    BY <1>1, <1>14, <2>1, <2>2, Frees DEF Writing, Ended, Handled, Given, Owned, Stray, At,
       Returned
  <2>6. Stops("pBuffer") \/ pc' = Returned
    BY <1>1, <1>14, <2>1, <2>2, Frees
  <2> QED BY <1>3, <1>4, <2>3, <2>4, <2>5, <2>6
<1> QED BY <1>2, <1>6, <1>7, <1>8, <1>9, <1>10, <1>11, <1>12, <1>13, <1>14

LEMMA ReadFileTestStep ==
    ASSUME Typed, test = "ReadFileTest", Reading, Next, DefinedUnlessDisturbed
    PROVE  Placed /\ Sensible /\ (Ended \/ Reading)' /\ DefinedUnlessDisturbed'
<1> Straight /\ local \in [{"hfile", "pBuffer"} -> Values] /\ outstanding \in Int
  BY ReadFileTestTable DEF Typed, Reading
<1>1. pc.at \in 1..6 /\ pc.segment = 1 /\ pc.i = 0 /\ This = Body(test)[pc.at]
  BY ReadFileTestTable, AtStraight DEF Straight
<1>2. pc.at = 1 \/ pc.at = 2 \/ pc.at = 3 \/ pc.at = 4 \/ pc.at = 5 \/ pc.at = 6
  BY <1>1
<1>3. Placed
  BY <1>1, ReadFileTestTable DEF Placed, Once, At
<1>4. Sensible
  BY <1>1, <1>2, ReadFileTestTable DEF Sensible, Call
<1>5. GoOn => pc' = IF pc.at < 6 THEN At(1, pc.at + 1, 0) ELSE Returned
  <2>1. 6 \in Nat /\ Len(Body(test)) = 6 /\ DriverEntry[test] = <<Once(Body(test))>>
    BY ReadFileTestTable
  <2> QED BY <2>1, NextCall
<1>6. CASE OthersChange
  <2>1. Reading'
    BY <1>1, <1>6 DEF OthersChange, Reading, Straight, Handled, Given, Owned, memory
  <2>2. DefinedUnlessDisturbed'
    BY <1>6 DEF OthersChange, DefinedUnlessDisturbed
  <2> QED BY <1>3, <1>4, <2>1, <2>2
<1>7. CASE ~OthersChange /\ pc.at = 1
  <2>1. Makes(Call("open", "hfile", "none", "file", "return"))
    BY <1>1, <1>7, ReadFileTestTable DEF Makes
  <2>2. GoOn => pc' = At(1, 2, 0)
    BY <1>5, <1>7
  <2>3. DefinedUnlessDisturbed'
    BY <1>1, <1>7, <2>1, <2>2, Opens DEF Reading, Blocks, Handled, Given, Stray, Surely, Stops,
       DefinedUnlessDisturbed, Faulty
  <2>4. "file" \in DOMAIN world \ {"entry", "full"}
    BY <1>1, <1>3, <1>7, ReadFileTestTable, ObjectNamed DEF Call
  <2>5. pc' = Returned => Ended'
    BY <1>1, <1>7, <2>1, <2>2, Opens, <2>4 DEF Reading, Blocks, Ended, Handled, Given, Owned,
       Stray, At, Returned
  <2>6. pc' # Returned => Reading'
    BY <1>1, <1>7, <2>1, <2>2, Opens, <2>4, ReadFileTestTable DEF Reading, Blocks, Straight, At,
       Handled, Given, Owned, Stray, Surely, Values, Returned
  <2> QED BY <1>3, <1>4, <2>3, <2>5, <2>6
<1>8. CASE ~OthersChange /\ pc.at = 2
  <2>1. Makes(Call("size", "none", "hfile", "file", "none"))
    BY <1>1, <1>8, ReadFileTestTable DEF Makes
  <2>2. GoOn => pc' = At(1, 3, 0)
    BY <1>5, <1>8
  <2>3. DefinedUnlessDisturbed'
    BY <1>1, <1>8, <2>1, <2>2, AsksSize DEF Reading, Blocks, Handled, Given, Stray, Surely,
       Stops, DefinedUnlessDisturbed, Faulty
  <2>4. local' = local /\ world' = world /\ (~disturbed' => size' # Garbage)
    BY <1>1, <1>8, <2>1, <2>2, AsksSize DEF Reading, Blocks, Handled, Stray, There, SizeOf,
       Surely, Garbage
  <2>5. Reading'
    BY <1>1, <1>8, <2>1, <2>2, AsksSize, <2>4, ReadFileTestTable DEF Reading, Blocks, Straight,
       At, Handled, Given, Owned, Stray, Surely, Values, Returned
  <2> QED BY <1>3, <1>4, <2>3, <2>5
<1>9. CASE ~OthersChange /\ pc.at = 3
  <2>1. Makes(Call("allocate", "pBuffer", "none", "none", "sized"))
    BY <1>1, <1>9, ReadFileTestTable DEF Makes
  <2>2. GoOn => pc' = At(1, 4, 0)
    BY <1>5, <1>9
  <2>3. DefinedUnlessDisturbed'
    BY <1>1, <1>9, <2>1, <2>2, Allocates DEF Reading, Blocks, Handled, Given, Stray, Surely,
       Stops, DefinedUnlessDisturbed, Faulty
  <2>4. Reading'
    BY <1>1, <1>9, <2>1, <2>2, Allocates, ReadFileTestTable DEF Reading, Blocks, Straight, At,
       Handled, Given, Owned, Stray, Surely, Values, Returned
  <2> QED BY <1>3, <1>4, <2>3, <2>4
<1>10. CASE ~OthersChange /\ pc.at = 4
  <2>1. Makes(Call("data", "pBuffer", "hfile", "file", "none"))
    BY <1>1, <1>10, ReadFileTestTable DEF Makes
  <2>2. GoOn => pc' = At(1, 5, 0)
    BY <1>5, <1>10
  <2>3. DefinedUnlessDisturbed'
    BY <1>3, <1>1, <1>10, <2>1, <2>2, AsksData DEF Reading, Blocks, Handled, Given, Stray,
       Surely, Stops, DefinedUnlessDisturbed, Faulty
  <2>4. Stops("pBuffer") => Ended'
    BY ExercisesAssumption DEF Stops, Ended, Reading, Owned
  <2>5. ~Stops("pBuffer") => Reading'
    BY <1>3, <1>1, <1>10, <2>1, <2>2, AsksData, ReadFileTestTable DEF Reading, Blocks, Straight,
       At, Handled, Given, Owned, Stray, Surely, Values, Returned
  <2> QED BY <1>3, <1>4, <2>3, <2>4, <2>5
<1>11. CASE ~OthersChange /\ pc.at = 5
  <2>1. Makes(Call("close", "hfile", "hfile", "none", "none"))
    BY <1>1, <1>11, ReadFileTestTable DEF Makes
  <2>2. GoOn => pc' = At(1, 6, 0)
    BY <1>5, <1>11
  <2>3. DefinedUnlessDisturbed'
    BY <1>1, <1>11, <2>1, <2>2, Closes DEF Reading, Blocks, Handled, Given, Stray, Surely,
       Stops, DefinedUnlessDisturbed, Faulty
  <2>4. Reading'
    BY <1>1, <1>11, <2>1, <2>2, Closes, ReadFileTestTable DEF Reading, Blocks, Straight, At,
       Handled, Given, Owned, Stray, Surely, Values, Returned
  <2> QED BY <1>3, <1>4, <2>3, <2>4
<1>12. CASE ~OthersChange /\ pc.at = 6
  <2>1. Makes(Call("free", "pBuffer", "none", "none", "none"))
    BY <1>1, <1>12, ReadFileTestTable DEF Makes
  <2>2. GoOn => pc' = Returned
    BY <1>5, <1>12
  <2>3. DefinedUnlessDisturbed'
    BY <1>1, <1>12, <2>1, <2>2, Frees DEF Reading, Blocks, Handled, Given, Stray, Surely, Stops,
       DefinedUnlessDisturbed, Faulty
  <2>4. Stops("pBuffer") => Ended'
    BY ExercisesAssumption DEF Stops, Ended, Reading, Owned
  <2>5. ~Stops("pBuffer") /\ pc' = Returned => Ended'
    BY <1>1, <1>12, <2>1, <2>2, Frees DEF Reading, Blocks, Ended, Handled, Given, Owned, Stray,
       At, Returned
  <2>6. Stops("pBuffer") \/ pc' = Returned
    BY <1>1, <1>12, <2>1, <2>2, Frees
  <2> QED BY <1>3, <1>4, <2>3, <2>4, <2>5, <2>6
<1> QED BY <1>2, <1>6, <1>7, <1>8, <1>9, <1>10, <1>11, <1>12

LEMMA StringInitTestStep ==
    ASSUME Typed, test = "StringInitTest", InitString, Next, DefinedUnlessDisturbed
    PROVE  Placed /\ Sensible /\ (Ended \/ InitString)' /\ DefinedUnlessDisturbed'
<1> Straight /\ local \in [{"string1", "UnicodeString1"} -> Values] /\ outstanding \in Int
  BY StringInitTestTable DEF Typed, InitString
<1>1. pc.at \in 1..5 /\ pc.segment = 1 /\ pc.i = 0 /\ This = Body(test)[pc.at]
  BY StringInitTestTable, AtStraight DEF Straight
<1>2. pc.at = 1 \/ pc.at = 2 \/ pc.at = 3 \/ pc.at = 4 \/ pc.at = 5
  BY <1>1
<1>3. Placed
  BY <1>1, StringInitTestTable DEF Placed, Once, At
<1>4. Sensible
  BY <1>1, <1>2, StringInitTestTable DEF Sensible, Call
<1>5. GoOn => pc' = IF pc.at < 5 THEN At(1, pc.at + 1, 0) ELSE Returned
  <2>1. 5 \in Nat /\ Len(Body(test)) = 5 /\ DriverEntry[test] = <<Once(Body(test))>>
    BY StringInitTestTable
  <2> QED BY <2>1, NextCall
<1>6. CASE OthersChange
  <2>1. InitString'
    BY <1>1, <1>6 DEF OthersChange, InitString, Straight, Handled, Given, Owned, memory
  <2>2. DefinedUnlessDisturbed'
    BY <1>6 DEF OthersChange, DefinedUnlessDisturbed
  <2> QED BY <1>3, <1>4, <2>1, <2>2
<1>7. CASE ~OthersChange /\ pc.at = 1
  <2>1. Makes(Call("overwrite", "string1", "none", "none", "none"))
    BY <1>1, <1>7, StringInitTestTable DEF Makes
  <2>2. GoOn => pc' = At(1, 2, 0)
    BY <1>5, <1>7
  <2>3. DefinedUnlessDisturbed'
    BY <1>1, <1>7, <2>1, <2>2, Overwrites DEF InitString, Handled, Given, Stray, Surely, Stops,
       DefinedUnlessDisturbed, Faulty
  <2>4. pc' = Stopped => Ended'
    BY <1>1, <1>7, <2>1, <2>2, Overwrites, ExercisesAssumption DEF Ended, InitString, Owned
  <2>5. pc' # Stopped => InitString'
    BY <1>1, <1>7, <2>1, <2>2, Overwrites, StringInitTestTable DEF InitString, Straight, At,
       Handled, Given, Owned, Stray, Surely, Values, Returned
  <2> QED BY <1>3, <1>4, <2>3, <2>4, <2>5
<1>8. CASE ~OthersChange /\ pc.at = 2
  <2>1. Makes(Call("allocate", "UnicodeString1", "none", "none", "fixed"))
    BY <1>1, <1>8, StringInitTestTable DEF Makes
  <2>2. GoOn => pc' = At(1, 3, 0)
    BY <1>5, <1>8
  <2>3. DefinedUnlessDisturbed'
    BY <1>1, <1>8, <2>1, <2>2, Allocates DEF InitString, Handled, Given, Stray, Surely, Stops,
       DefinedUnlessDisturbed, Faulty
  <2>4. InitString'
    BY <1>1, <1>8, <2>1, <2>2, Allocates, StringInitTestTable DEF InitString, Straight, At,
       Handled, Given, Owned, Stray, Surely, Values, Returned
  <2> QED BY <1>3, <1>4, <2>3, <2>4
<1>9. CASE ~OthersChange /\ pc.at = 3
  <2>1. Makes(Call("fill", "UnicodeString1", "none", "none", "none"))
    BY <1>1, <1>9, StringInitTestTable DEF Makes
  <2>2. GoOn => pc' = At(1, 4, 0)
    BY <1>5, <1>9
  <2>3. DefinedUnlessDisturbed'
    BY <1>1, <1>9, <2>1, <2>2, Fills DEF InitString, Handled, Given, Stray, Surely, Stops,
       DefinedUnlessDisturbed, Faulty
  <2>4. Stops("UnicodeString1") => Ended'
    BY ExercisesAssumption DEF Stops, Ended, InitString, Owned
  <2>5. ~Stops("UnicodeString1") => InitString'
    BY <1>1, <1>9, <2>1, <2>2, Fills, StringInitTestTable DEF InitString, Straight, At, Handled,
       Given, Owned, Stray, Surely, Values, Returned
  <2> QED BY <1>3, <1>4, <2>3, <2>4, <2>5
<1>10. CASE ~OthersChange /\ pc.at = 4
  <2>1. Makes(Call("use", "UnicodeString1", "none", "none", "none"))
    BY <1>1, <1>10, StringInitTestTable DEF Makes
  <2>2. GoOn => pc' = At(1, 5, 0)
    BY <1>5, <1>10
  <2>3. DefinedUnlessDisturbed'
    BY <1>1, <1>10, <2>1, <2>2, Uses DEF InitString, Handled, Given, Stray, Surely, Stops,
       DefinedUnlessDisturbed, Faulty
  <2>4. Stops("UnicodeString1") => Ended'
    BY ExercisesAssumption DEF Stops, Ended, InitString, Owned
  <2>5. ~Stops("UnicodeString1") => InitString'
    BY <1>1, <1>10, <2>1, <2>2, Uses, StringInitTestTable DEF InitString, Straight, At, Handled,
       Given, Owned, Stray, Surely, Values, Returned
  <2> QED BY <1>3, <1>4, <2>3, <2>4, <2>5
<1>11. CASE ~OthersChange /\ pc.at = 5
  <2>1. Makes(Call("free", "UnicodeString1", "none", "none", "none"))
    BY <1>1, <1>11, StringInitTestTable DEF Makes
  <2>2. GoOn => pc' = Returned
    BY <1>5, <1>11
  <2>3. DefinedUnlessDisturbed'
    BY <1>1, <1>11, <2>1, <2>2, Frees DEF InitString, Handled, Given, Stray, Surely, Stops,
       DefinedUnlessDisturbed, Faulty
  <2>4. Stops("UnicodeString1") => Ended'
    BY ExercisesAssumption DEF Stops, Ended, InitString, Owned
  <2>5. ~Stops("UnicodeString1") /\ pc' = Returned => Ended'
    BY <1>1, <1>11, <2>1, <2>2, Frees DEF InitString, Ended, Handled, Given, Owned, Stray, At,
       Returned
  <2>6. Stops("UnicodeString1") \/ pc' = Returned
    BY <1>1, <1>11, <2>1, <2>2, Frees
  <2> QED BY <1>3, <1>4, <2>3, <2>4, <2>5, <2>6
<1> QED BY <1>2, <1>6, <1>7, <1>8, <1>9, <1>10, <1>11

LEMMA StringCopyTestStep ==
    ASSUME Typed, test = "StringCopyTest", OneString("UnicodeString2"), Next,
    DefinedUnlessDisturbed
    PROVE  Placed /\ Sensible /\ (Ended
    \/ OneString("UnicodeString2"))' /\ DefinedUnlessDisturbed'
<1> Straight /\ local \in [{"UnicodeString2"} -> Values] /\ outstanding \in Int
  BY StringCopyTestTable DEF Typed, OneString
<1>1. pc.at \in 1..4 /\ pc.segment = 1 /\ pc.i = 0 /\ This = Body(test)[pc.at]
  BY StringCopyTestTable, AtStraight DEF Straight
<1>2. pc.at = 1 \/ pc.at = 2 \/ pc.at = 3 \/ pc.at = 4
  BY <1>1
<1>3. Placed
  BY <1>1, StringCopyTestTable DEF Placed, Once, At
<1>4. Sensible
  BY <1>1, <1>2, StringCopyTestTable DEF Sensible, Call
<1>5. GoOn => pc' = IF pc.at < 4 THEN At(1, pc.at + 1, 0) ELSE Returned
  <2>1. 4 \in Nat /\ Len(Body(test)) = 4 /\ DriverEntry[test] = <<Once(Body(test))>>
    BY StringCopyTestTable
  <2> QED BY <2>1, NextCall
<1>6. CASE OthersChange
  <2>1. OneString("UnicodeString2")'
    BY <1>1, <1>6 DEF OthersChange, OneString, Straight, Handled, Given, Owned, memory
  <2>2. DefinedUnlessDisturbed'
    BY <1>6 DEF OthersChange, DefinedUnlessDisturbed
  <2> QED BY <1>3, <1>4, <2>1, <2>2
<1>7. CASE ~OthersChange /\ pc.at = 1
  <2>1. Makes(Call("allocate", "UnicodeString2", "none", "none", "fixed"))
    BY <1>1, <1>7, StringCopyTestTable DEF Makes
  <2>2. GoOn => pc' = At(1, 2, 0)
    BY <1>5, <1>7
  <2>3. DefinedUnlessDisturbed'
    BY <1>1, <1>7, <2>1, <2>2, Allocates DEF OneString, Handled, Given, Stray, Surely, Stops,
       DefinedUnlessDisturbed, Faulty
  <2>4. OneString("UnicodeString2")'
    BY <1>1, <1>7, <2>1, <2>2, Allocates, StringCopyTestTable DEF OneString, Straight, At,
       Handled, Given, Owned, Stray, Surely, Values, Returned
  <2> QED BY <1>3, <1>4, <2>3, <2>4
<1>8. CASE ~OthersChange /\ pc.at = 2
  <2>1. Makes(Call("fill", "UnicodeString2", "none", "none", "none"))
    BY <1>1, <1>8, StringCopyTestTable DEF Makes
  <2>2. GoOn => pc' = At(1, 3, 0)
    BY <1>5, <1>8
  <2>3. DefinedUnlessDisturbed'
    BY <1>1, <1>8, <2>1, <2>2, Fills DEF OneString, Handled, Given, Stray, Surely, Stops,
       DefinedUnlessDisturbed, Faulty
  <2>4. Stops("UnicodeString2") => Ended'
    BY ExercisesAssumption DEF Stops, Ended, OneString, Owned
  <2>5. ~Stops("UnicodeString2") => OneString("UnicodeString2")'
    BY <1>1, <1>8, <2>1, <2>2, Fills, StringCopyTestTable DEF OneString, Straight, At, Handled,
       Given, Owned, Stray, Surely, Values, Returned
  <2> QED BY <1>3, <1>4, <2>3, <2>4, <2>5
<1>9. CASE ~OthersChange /\ pc.at = 3
  <2>1. Makes(Call("use", "UnicodeString2", "none", "none", "none"))
    BY <1>1, <1>9, StringCopyTestTable DEF Makes
  <2>2. GoOn => pc' = At(1, 4, 0)
    BY <1>5, <1>9
  <2>3. DefinedUnlessDisturbed'
    BY <1>1, <1>9, <2>1, <2>2, Uses DEF OneString, Handled, Given, Stray, Surely, Stops,
       DefinedUnlessDisturbed, Faulty
  <2>4. Stops("UnicodeString2") => Ended'
    BY ExercisesAssumption DEF Stops, Ended, OneString, Owned
  <2>5. ~Stops("UnicodeString2") => OneString("UnicodeString2")'
    BY <1>1, <1>9, <2>1, <2>2, Uses, StringCopyTestTable DEF OneString, Straight, At, Handled,
       Given, Owned, Stray, Surely, Values, Returned
  <2> QED BY <1>3, <1>4, <2>3, <2>4, <2>5
<1>10. CASE ~OthersChange /\ pc.at = 4
  <2>1. Makes(Call("free", "UnicodeString2", "none", "none", "string"))
    BY <1>1, <1>10, StringCopyTestTable DEF Makes
  <2>2. GoOn => pc' = Returned
    BY <1>5, <1>10
  <2>3. DefinedUnlessDisturbed'
    BY <1>1, <1>10, <2>1, <2>2, Frees DEF OneString, Handled, Given, Stray, Surely, Stops,
       DefinedUnlessDisturbed, Faulty
  <2>4. pc' = Returned => Ended'
    BY <1>1, <1>10, <2>1, <2>2, Frees DEF OneString, Ended, Handled, Given, Owned, Stray, At,
       Returned
  <2>5. pc' = Returned
    BY <1>1, <1>10, <2>1, <2>2, Frees
  <2> QED BY <1>3, <1>4, <2>3, <2>4, <2>5
<1> QED BY <1>2, <1>6, <1>7, <1>8, <1>9, <1>10

LEMMA StringToIntegerTestStep ==
    ASSUME Typed, test = "StringToIntegerTest", OneString("Unicodestring2"), Next,
    DefinedUnlessDisturbed
    PROVE  Placed /\ Sensible /\ (Ended
    \/ OneString("Unicodestring2"))' /\ DefinedUnlessDisturbed'
<1> Straight /\ local \in [{"Unicodestring2"} -> Values] /\ outstanding \in Int
  BY StringToIntegerTestTable DEF Typed, OneString
<1>1. pc.at \in 1..4 /\ pc.segment = 1 /\ pc.i = 0 /\ This = Body(test)[pc.at]
  BY StringToIntegerTestTable, AtStraight DEF Straight
<1>2. pc.at = 1 \/ pc.at = 2 \/ pc.at = 3 \/ pc.at = 4
  BY <1>1
<1>3. Placed
  BY <1>1, StringToIntegerTestTable DEF Placed, Once, At
<1>4. Sensible
  BY <1>1, <1>2, StringToIntegerTestTable DEF Sensible, Call
<1>5. GoOn => pc' = IF pc.at < 4 THEN At(1, pc.at + 1, 0) ELSE Returned
  <2>1. 4 \in Nat /\ Len(Body(test)) = 4 /\ DriverEntry[test] = <<Once(Body(test))>>
    BY StringToIntegerTestTable
  <2> QED BY <2>1, NextCall
<1>6. CASE OthersChange
  <2>1. OneString("Unicodestring2")'
    BY <1>1, <1>6 DEF OthersChange, OneString, Straight, Handled, Given, Owned, memory
  <2>2. DefinedUnlessDisturbed'
    BY <1>6 DEF OthersChange, DefinedUnlessDisturbed
  <2> QED BY <1>3, <1>4, <2>1, <2>2
<1>7. CASE ~OthersChange /\ pc.at = 1
  <2>1. Makes(Call("allocate", "Unicodestring2", "none", "none", "fixed"))
    BY <1>1, <1>7, StringToIntegerTestTable DEF Makes
  <2>2. GoOn => pc' = At(1, 2, 0)
    BY <1>5, <1>7
  <2>3. DefinedUnlessDisturbed'
    BY <1>1, <1>7, <2>1, <2>2, Allocates DEF OneString, Handled, Given, Stray, Surely, Stops,
       DefinedUnlessDisturbed, Faulty
  <2>4. OneString("Unicodestring2")'
    BY <1>1, <1>7, <2>1, <2>2, Allocates, StringToIntegerTestTable DEF OneString, Straight, At,
       Handled, Given, Owned, Stray, Surely, Values, Returned
  <2> QED BY <1>3, <1>4, <2>3, <2>4
<1>8. CASE ~OthersChange /\ pc.at = 2
  <2>1. Makes(Call("fill", "Unicodestring2", "none", "none", "none"))
    BY <1>1, <1>8, StringToIntegerTestTable DEF Makes
  <2>2. GoOn => pc' = At(1, 3, 0)
    BY <1>5, <1>8
  <2>3. DefinedUnlessDisturbed'
    BY <1>1, <1>8, <2>1, <2>2, Fills DEF OneString, Handled, Given, Stray, Surely, Stops,
       DefinedUnlessDisturbed, Faulty
  <2>4. Stops("Unicodestring2") => Ended'
    BY ExercisesAssumption DEF Stops, Ended, OneString, Owned
  <2>5. ~Stops("Unicodestring2") => OneString("Unicodestring2")'
    BY <1>1, <1>8, <2>1, <2>2, Fills, StringToIntegerTestTable DEF OneString, Straight, At,
       Handled, Given, Owned, Stray, Surely, Values, Returned
  <2> QED BY <1>3, <1>4, <2>3, <2>4, <2>5
<1>9. CASE ~OthersChange /\ pc.at = 3
  <2>1. Makes(Call("use", "Unicodestring2", "none", "none", "none"))
    BY <1>1, <1>9, StringToIntegerTestTable DEF Makes
  <2>2. GoOn => pc' = At(1, 4, 0)
    BY <1>5, <1>9
  <2>3. DefinedUnlessDisturbed'
    BY <1>1, <1>9, <2>1, <2>2, Uses DEF OneString, Handled, Given, Stray, Surely, Stops,
       DefinedUnlessDisturbed, Faulty
  <2>4. Stops("Unicodestring2") => Ended'
    BY ExercisesAssumption DEF Stops, Ended, OneString, Owned
  <2>5. ~Stops("Unicodestring2") => OneString("Unicodestring2")'
    BY <1>1, <1>9, <2>1, <2>2, Uses, StringToIntegerTestTable DEF OneString, Straight, At,
       Handled, Given, Owned, Stray, Surely, Values, Returned
  <2> QED BY <1>3, <1>4, <2>3, <2>4, <2>5
<1>10. CASE ~OthersChange /\ pc.at = 4
  <2>1. Makes(Call("free", "Unicodestring2", "none", "none", "string"))
    BY <1>1, <1>10, StringToIntegerTestTable DEF Makes
  <2>2. GoOn => pc' = Returned
    BY <1>5, <1>10
  <2>3. DefinedUnlessDisturbed'
    BY <1>1, <1>10, <2>1, <2>2, Frees DEF OneString, Handled, Given, Stray, Surely, Stops,
       DefinedUnlessDisturbed, Faulty
  <2>4. pc' = Returned => Ended'
    BY <1>1, <1>10, <2>1, <2>2, Frees DEF OneString, Ended, Handled, Given, Owned, Stray, At,
       Returned
  <2>5. pc' = Returned
    BY <1>1, <1>10, <2>1, <2>2, Frees
  <2> QED BY <1>3, <1>4, <2>3, <2>4, <2>5
<1> QED BY <1>2, <1>6, <1>7, <1>8, <1>9, <1>10

LEMMA StringCompareTestStep ==
    ASSUME Typed, test = "StringCompareTest", Comparing, Next, DefinedUnlessDisturbed
    PROVE  Placed /\ Sensible /\ (Ended \/ Comparing)' /\ DefinedUnlessDisturbed'
<1> Straight /\ local \in [{"UnicodeString2"} -> Values] /\ outstanding \in Int
  BY StringCompareTestTable DEF Typed, Comparing
<1>1. pc.at \in 1..1 /\ pc.segment = 1 /\ pc.i = 0 /\ This = Body(test)[pc.at]
  BY StringCompareTestTable, AtStraight DEF Straight
<1>2. pc.at = 1
  BY <1>1
<1>3. Placed
  BY <1>1, StringCompareTestTable DEF Placed, Once, At
<1>4. Sensible
  BY <1>1, <1>2, StringCompareTestTable DEF Sensible, Call
<1>5. GoOn => pc' = IF pc.at < 1 THEN At(1, pc.at + 1, 0) ELSE Returned
  <2>1. 1 \in Nat /\ Len(Body(test)) = 1 /\ DriverEntry[test] = <<Once(Body(test))>>
    BY StringCompareTestTable
  <2> QED BY <2>1, NextCall
<1>6. CASE OthersChange
  <2>1. Comparing'
    BY <1>1, <1>6 DEF OthersChange, Comparing, Straight, Handled, Given, Owned, memory
  <2>2. DefinedUnlessDisturbed'
    BY <1>6 DEF OthersChange, DefinedUnlessDisturbed
  <2> QED BY <1>3, <1>4, <2>1, <2>2
<1>7. CASE ~OthersChange /\ pc.at = 1
  <2>1. Makes(Call("use", "UnicodeString2", "none", "none", "none"))
    BY <1>1, <1>7, StringCompareTestTable DEF Makes
  <2>2. GoOn => pc' = Returned
    BY <1>5, <1>7
  <2>3. DefinedUnlessDisturbed'
    BY <1>1, <1>7, <2>1, <2>2, Uses DEF Comparing, Handled, Given, Stray, Surely, Stops,
       DefinedUnlessDisturbed, Faulty
  <2>4. Stops("UnicodeString2") => Ended'
    BY ExercisesAssumption DEF Stops, Ended, Comparing, Owned
  <2>5. ~Stops("UnicodeString2") /\ pc' = Returned => Ended'
    BY <1>1, <1>7, <2>1, <2>2, Uses DEF Comparing, Ended, Handled, Given, Owned, Stray, At,
       Returned
  <2>6. Stops("UnicodeString2") \/ pc' = Returned
    BY <1>1, <1>7, <2>1, <2>2, Uses
  <2> QED BY <1>3, <1>4, <2>3, <2>4, <2>5, <2>6
<1> QED BY <1>2, <1>6, <1>7

LEMMA StringConverTestStep ==
    ASSUME Typed, test = "StringConverTest", Converting, Next, DefinedUnlessDisturbed
    PROVE  Placed /\ Sensible /\ (Ended \/ Converting)' /\ DefinedUnlessDisturbed'
<1> Straight /\ local \in [{"AnsiString1", "UnicodeString2"} -> Values] /\ outstanding \in Int
  BY StringConverTestTable DEF Typed, Converting
<1>1. pc.at \in 1..4 /\ pc.segment = 1 /\ pc.i = 0 /\ This = Body(test)[pc.at]
  BY StringConverTestTable, AtStraight DEF Straight
<1>2. pc.at = 1 \/ pc.at = 2 \/ pc.at = 3 \/ pc.at = 4
  BY <1>1
<1>3. Placed
  BY <1>1, StringConverTestTable DEF Placed, Once, At
<1>4. Sensible
  BY <1>1, <1>2, StringConverTestTable DEF Sensible, Call
<1>5. GoOn => pc' = IF pc.at < 4 THEN At(1, pc.at + 1, 0) ELSE Returned
  <2>1. 4 \in Nat /\ Len(Body(test)) = 4 /\ DriverEntry[test] = <<Once(Body(test))>>
    BY StringConverTestTable
  <2> QED BY <2>1, NextCall
<1>6. CASE OthersChange
  <2>1. Converting'
    BY <1>1, <1>6 DEF OthersChange, Converting, Straight, Handled, Given, Owned, memory
  <2>2. DefinedUnlessDisturbed'
    BY <1>6 DEF OthersChange, DefinedUnlessDisturbed
  <2> QED BY <1>3, <1>4, <2>1, <2>2
<1>7. CASE ~OthersChange /\ pc.at = 1
  <2>1. Makes(Call("convert", "AnsiString1", "none", "none", "none"))
    BY <1>1, <1>7, StringConverTestTable DEF Makes
  <2>2. GoOn => pc' = At(1, 2, 0)
    BY <1>5, <1>7
  <2>3. DefinedUnlessDisturbed'
    BY <1>1, <1>7, <2>1, <2>2, Converts DEF Converting, Handled, Given, Stray, Surely, Stops,
       DefinedUnlessDisturbed, Faulty
  <2>4. Converting'
    BY <1>1, <1>7, <2>1, <2>2, Converts, StringConverTestTable DEF Converting, Straight, At,
       Handled, Given, Owned, Stray, Surely, Values, Returned
  <2> QED BY <1>3, <1>4, <2>3, <2>4
<1>8. CASE ~OthersChange /\ pc.at = 2
  <2>1. Makes(Call("free", "AnsiString1", "none", "none", "string"))
    BY <1>1, <1>8, StringConverTestTable DEF Makes
  <2>2. GoOn => pc' = At(1, 3, 0)
    BY <1>5, <1>8
  <2>3. DefinedUnlessDisturbed'
    BY <1>1, <1>8, <2>1, <2>2, Frees DEF Converting, Handled, Given, Stray, Surely, Stops,
       DefinedUnlessDisturbed, Faulty
  <2>4. Converting'
    BY <1>1, <1>8, <2>1, <2>2, Frees, StringConverTestTable DEF Converting, Straight, At,
       Handled, Given, Owned, Stray, Surely, Values, Returned
  <2> QED BY <1>3, <1>4, <2>3, <2>4
<1>9. CASE ~OthersChange /\ pc.at = 3
  <2>1. Makes(Call("convert", "UnicodeString2", "none", "none", "none"))
    BY <1>1, <1>9, StringConverTestTable DEF Makes
  <2>2. GoOn => pc' = At(1, 4, 0)
    BY <1>5, <1>9
  <2>3. DefinedUnlessDisturbed'
    BY <1>1, <1>9, <2>1, <2>2, Converts DEF Converting, Handled, Given, Stray, Surely, Stops,
       DefinedUnlessDisturbed, Faulty
  <2>4. Converting'
    BY <1>1, <1>9, <2>1, <2>2, Converts, StringConverTestTable DEF Converting, Straight, At,
       Handled, Given, Owned, Stray, Surely, Values, Returned
  <2> QED BY <1>3, <1>4, <2>3, <2>4
<1>10. CASE ~OthersChange /\ pc.at = 4
  <2>1. Makes(Call("free", "UnicodeString2", "none", "none", "string"))
    BY <1>1, <1>10, StringConverTestTable DEF Makes
  <2>2. GoOn => pc' = Returned
    BY <1>5, <1>10
  <2>3. DefinedUnlessDisturbed'
    BY <1>1, <1>10, <2>1, <2>2, Frees DEF Converting, Handled, Given, Stray, Surely, Stops,
       DefinedUnlessDisturbed, Faulty
  <2>4. pc' = Returned => Ended'
    BY <1>1, <1>10, <2>1, <2>2, Frees DEF Converting, Ended, Handled, Given, Owned, Stray, At,
       Returned
  <2>5. pc' = Returned
    BY <1>1, <1>10, <2>1, <2>2, Frees
  <2> QED BY <1>3, <1>4, <2>3, <2>4, <2>5
<1> QED BY <1>2, <1>6, <1>7, <1>8, <1>9, <1>10


\* The seven exercises that open a handle, work through it and close it.
Brackets(h) ==
    /\ DriverEntry[test] = <<Once(Body(test))>>
    /\ Len(Body(test)) \in Nat \ {0, 1} /\ DOMAIN Body(test) = 1..Len(Body(test))
    /\ Body(test)[1] = Call("open", h, "none", Body(test)[1].o, Body(test)[1].how)
    /\ Body(test)[1].how # "return"
    /\ \A k \in 2..Len(Body(test)) - 1 :
          \E op \in {"put", "delete", "position", "size"} :
              Body(test)[k] = Call(op, "none", h, Body(test)[k].o, "none")
    /\ Body(test)[Len(Body(test))] = Call("close", h, h, "none", "none")

LEMMA RegHandleTable ==
    ASSUME test \in OneRegHandle
    PROVE  Brackets("hRegister")
<1>1. CASE test = "OpenRegTest"
  <2>1. /\ DriverEntry[test] = <<Once(Body(test))>>
        /\ Body(test) = <<Open("hRegister", "key"), Close("hRegister")>>
    BY <1>1, Entries DEF OpenRegTest, Body, Once
  <2> QED BY <2>1 DEF Brackets, Open, Close, Call
<1>2. CASE test = "DeleteItemRegTest"
  <2>1. /\ DriverEntry[test] = <<Once(Body(test))>>
        /\ Body(test) = <<Open("hRegister", "SubItem"), Delete("hRegister", "SubItem"),
                          Close("hRegister")>>
    BY <1>2, Entries DEF DeleteItemRegTest, Body, Once
  <2>2. 2..3 - 1 = {2}
    OBVIOUS
  <2> QED BY <2>1, <2>2 DEF Brackets, Open, Delete, Close, Call
<1>3. CASE test = "SetRegTest"
  <2>1. /\ DriverEntry[test] = <<Once(Body(test))>>
        /\ Body(test) = <<Open("hRegister", "key"), Put("hRegister", "dword"),
                          Put("hRegister", "sz"), Put("hRegister", "binary"),
                          Close("hRegister")>>
    BY <1>3, Entries DEF SetRegTest, Body, Once
  <2>2. 2..5 - 1 = {2, 3, 4}
    OBVIOUS
  <2> QED BY <2>1, <2>2 DEF Brackets, Open, Put, Close, Call
<1> QED BY <1>1, <1>2, <1>3 DEF OneRegHandle

LEMMA FileHandleTable ==
    ASSUME test \in OneFileHandle
    PROVE  Brackets("hfile")
<1>1. CASE test = "CreateFileTest"
  <2>1. /\ DriverEntry[test] = <<Once(Body(test))>>
        /\ Body(test) = <<Create("hfile", "file"), Close("hfile")>>
    BY <1>1, Entries DEF CreateFileTest, Body, Once
  <2> QED BY <2>1 DEF Brackets, Create, Close, Call
<1>2. CASE test \in {"OpenFileTest1", "OpenFileTest2"}
  <2>1. /\ DriverEntry[test] = <<Once(Body(test))>>
        /\ Body(test) = <<Open("hfile", "file"), Close("hfile")>>
    BY <1>2, Entries DEF OpenFileTest1, OpenFileTest2, Body, Once
  <2> QED BY <2>1 DEF Brackets, Open, Close, Call
<1>3. CASE test = "FileAttributeTest"
  <2>1. /\ DriverEntry[test] = <<Once(Body(test))>>
        /\ Body(test) = <<Open("hfile", "file"), QuerySize("hfile", "file"),
                          Call("position", "none", "hfile", "file", "none"), Close("hfile")>>
    BY <1>3, Entries DEF FileAttributeTest, Body, Once
  <2>2. 2..4 - 1 = {2, 3}
    OBVIOUS
  <2> QED BY <2>1, <2>2 DEF Brackets, Open, QuerySize, Close, Call
<1> QED BY <1>1, <1>2, <1>3 DEF OneFileHandle

LEMMA BracketsLocals ==
    ASSUME NEW h, h # "none", Brackets(h)
    PROVE  Locals(test) = {h}
<1> DEFINE m == Len(Body(test))
<1>1. Calls(test) = {Body(test)[k] : k \in 1..m}
  BY DEF Brackets, Calls, Once, ToSet
<1>2. Body(test)[1].v = h /\ Body(test)[m].v = h /\ 1 \in 1..m /\ m \in Nat
  BY DEF Brackets, Call
<1>3. ASSUME NEW k \in 2..m - 1 PROVE Body(test)[k].v = "none"
  <2>1. PICK op \in {"put", "delete", "position", "size"} :
          Body(test)[k] = Call(op, "none", h, Body(test)[k].o, "none")
    BY DEF Brackets
  <2> DEFINE o == Body(test)[k].o
  <2> HIDE DEF o
  <2>2. Call(op, "none", h, o, "none").v = "none"
    BY DEF Call
  <2> QED BY <2>1, <2>2 DEF o
<1>4. \A k \in 1..m : k = 1 \/ k = m \/ k \in 2..m - 1
  BY <1>2
<1>5. \A k \in 1..m : Body(test)[k].v \in {h, "none"}
  BY <1>2, <1>3, <1>4
<1> QED BY <1>1, <1>2, <1>5 DEF Locals

LEMMA OneHandleStep ==
    ASSUME Typed, NEW h, h # "none", Brackets(h), OneHandle(h), Next, DefinedUnlessDisturbed,
           test \notin {"QueryRegTest", "RtlRegTest"}
    PROVE  Placed /\ Sensible /\ (Ended \/ OneHandle(h))' /\ DefinedUnlessDisturbed'
<1> DEFINE m == Len(Body(test))
<1> Straight /\ local \in [{h} -> Values] /\ outstanding = 0
  BY BracketsLocals DEF OneHandle, Typed
<1> m \in Nat /\ m > 1 /\ DriverEntry[test] = <<Once(Body(test))>>
  BY DEF Brackets
<1>1. pc.at \in 1..m /\ pc.segment = 1 /\ pc.i = 0 /\ This = Body(test)[pc.at]
  BY AtStraight DEF Straight
<1>2. pc.at = 1 \/ pc.at = m \/ pc.at \in 2..m - 1
  BY <1>1
<1>3. Placed
  BY <1>1 DEF Placed, Brackets, Once
<1>4. This.op \in {"open", "close", "put", "delete", "position", "size"}
  <2>1. Body(test)[1].op = "open" /\ Body(test)[m].op = "close"
    BY DEF Brackets, Call
  <2>2. ASSUME NEW k \in 2..m - 1
        PROVE  Body(test)[k].op \in {"put", "delete", "position", "size"}
    <3>1. PICK op \in {"put", "delete", "position", "size"} :
            Body(test)[k] = Call(op, "none", h, Body(test)[k].o, "none")
      BY DEF Brackets
    <3> DEFINE o == Body(test)[k].o
    <3> HIDE DEF o
    <3>2. Call(op, "none", h, o, "none").op = op
      BY DEF Call
    <3> QED BY <3>1, <3>2 DEF o
  <2> QED BY <1>1, <1>2, <2>1, <2>2
<1>5. Sensible
  BY <1>4 DEF Sensible
<1>6. GoOn => pc' = IF pc.at < m THEN At(1, pc.at + 1, 0) ELSE Returned
  BY NextCall
<1>7. CASE OthersChange
  <2>1. OneHandle(h)'
    BY <1>7 DEF OthersChange, OneHandle, Straight, Handled, memory
  <2>2. DefinedUnlessDisturbed'
    BY <1>7 DEF OthersChange, DefinedUnlessDisturbed
  <2> QED BY <1>3, <1>5, <2>1, <2>2
<1>8. CASE ~OthersChange /\ pc.at = 1
  <2> DEFINE c == Body(test)[1]
  <2>1. Makes(Call("open", h, "none", c.o, c.how)) /\ c.how # "return"
    BY <1>1, <1>8 DEF Makes, Brackets
  <2>2. GoOn => pc' = At(1, 2, 0)
    BY <1>6, <1>8
  <2> HIDE DEF c
  <2>3. DefinedUnlessDisturbed'
    BY <2>1, Opens DEF Stray, Surely, DefinedUnlessDisturbed
  <2>4. OneHandle(h)'
    <3>1. pc' = At(1, 2, 0) /\ 2 \in 1..m /\ Body(test)' = Body(test)
      BY <2>1, <2>2, Opens DEF Body
    <3>2. Straight'
      BY <3>1 DEF Straight, At
    <3>3. pc'.at > 1
      BY <3>1 DEF At
    <3> QED BY <2>1, <3>2, <3>3, Opens DEF OneHandle, Straight, At, Handled, Surely
  <2> QED BY <1>3, <1>5, <2>3, <2>4
<1>9. CASE ~OthersChange /\ pc.at \in 2..m - 1
  <2> DEFINE c == Body(test)[pc.at]
  <2>1. PICK op \in {"put", "delete", "position", "size"} : Makes(Call(op, "none", h, c.o,
  "none"))
    BY <1>1, <1>9 DEF Makes, Brackets
  <2> HIDE DEF c
  <2>2. GoOn => pc' = At(1, pc.at + 1, 0)
    BY <1>6, <1>9
  <2>3. local[h] = "open" \/ disturbed
    BY <1>9 DEF OneHandle, Handled
  <2>4. /\ UNCHANGED <<test, local, outstanding>> /\ Surely /\ GoOn
        /\ ~Stray(h) /\ ~disturbed' => undefined' = undefined
    <3>1. CASE op = "size"
      BY <2>1, <3>1, AsksSize
    <3>2. CASE op # "size"
      BY <2>1, <3>2, Changes
    <3> QED BY <3>1, <3>2
  <2>5. DefinedUnlessDisturbed'
    BY <2>3, <2>4 DEF Stray, Surely, DefinedUnlessDisturbed
  <2>6. OneHandle(h)'
    BY <1>9, <2>2, <2>3, <2>4 DEF OneHandle, Straight, At, Handled, Surely
  <2> QED BY <1>3, <1>5, <2>5, <2>6
<1>10. CASE ~OthersChange /\ pc.at = m
  <2>1. Makes(Call("close", h, h, "none", "none"))
    BY <1>1, <1>10 DEF Makes, Brackets
  <2>2. GoOn => pc' = Returned
    BY <1>6, <1>10
  <2>3. local[h] = "open" \/ disturbed
    BY <1>10, m > 1 DEF OneHandle, Handled
  <2>4. DefinedUnlessDisturbed'
    BY <2>1, <2>3, Closes DEF Stray, DefinedUnlessDisturbed
  <2>5. Ended'
    BY <2>1, <2>2, Closes DEF Ended
  <2> QED BY <1>3, <1>5, <2>4, <2>5
<1> QED BY <1>2, <1>7, <1>8, <1>9, <1>10

-----------------------------------------------------------------------------
(* The exercises of several segments.                                      *)

LEMMA Loops ==
    ASSUME NEW segment, NEW i
    PROVE  /\ segment.times = "entries" => (Goes(segment, i) <=> i < n')
           /\ segment.times = "elements" => (Goes(segment, i) <=> i < Elements)
           /\ segment.times = "listed" => (Goes(segment, i) <=> list' # <<>>)
BY DEF Goes

LEMMA Minima == Min({2}) = 2 /\ Min({3}) = 3 /\ Min({2, 3}) = 2
<1>1. \A S \in SUBSET {2, 3} : \A x \in S : (\A y \in S : x =< y) => Min(S) = x
  <2> SUFFICES ASSUME NEW S \in SUBSET {2, 3}, NEW x \in S, \A y \in S : x =< y
               PROVE  Min(S) = x
    OBVIOUS
  <2>1. Min(S) \in S /\ \A y \in S : Min(S) =< y
    BY DEF Min
  <2>2. PICK m \in S : m = Min(S) /\ \A y \in S : m =< y
    BY <2>1
  <2>3. m \in Int /\ x \in Int /\ m =< x /\ x =< m
    BY <2>2
  <2>4. m = x
    BY <2>3
  <2> QED BY <2>2, <2>4
<1> QED BY <1>1

LEMMA NextInSegment ==
    ASSUME GoOn, pc = At(pc.segment, pc.at, pc.i),
           pc.at < Len(DriverEntry[test][pc.segment].body)
    PROVE  pc' = At(pc.segment, pc.at + 1, pc.i)
<1>1. pc' = [pc EXCEPT !.at = pc.at + 1]
  BY DEF GoOn
<1> QED BY <1>1 DEF At

\* At the end of a segment: once more, on to the next one that has an iteration, or done.
Later == {s \in pc.segment + 1 .. Len(DriverEntry[test]) : Goes(DriverEntry[test][s], 0)}
LEMMA NextSegment ==
    ASSUME GoOn, pc = At(pc.segment, pc.at, pc.i),
           ~(pc.at < Len(DriverEntry[test][pc.segment].body))
    PROVE  /\ Goes(DriverEntry[test][pc.segment], pc.i + 1) => pc' = At(pc.segment, 1, pc.i + 1)
           /\ ~Goes(DriverEntry[test][pc.segment], pc.i + 1) =>
                 pc' = IF Later # {} THEN At(Min(Later), 1, 0) ELSE Returned
<1>1. pc' = IF Goes(DriverEntry[test][pc.segment], pc.i + 1)
            THEN [segment |-> pc.segment, at |-> 1, i |-> pc.i + 1]
            ELSE IF Later # {} THEN [segment |-> Min(Later), at |-> 1, i |-> 0]
            ELSE Returned
  BY DEF GoOn, Later
<1> QED BY <1>1 DEF At

LEMMA EnumerateTable ==
    ASSUME NEW pbi \in {"pbi", "pvbi"}, DriverEntry[test] = EnumerateKey(pbi)
    PROVE  /\ Len(DriverEntry[test]) = 3 /\ DOMAIN DriverEntry[test] = 1..3
           /\ DriverEntry[test][1].times = "once"
           /\ DriverEntry[test][2].times = "entries"
           /\ DriverEntry[test][3].times = "once"
           /\ Len(DriverEntry[test][1].body) = 5
           /\ DOMAIN DriverEntry[test][1].body = 1..5
           /\ Len(DriverEntry[test][2].body) = 5
           /\ DOMAIN DriverEntry[test][2].body = 1..5
           /\ Len(DriverEntry[test][3].body) = 2
           /\ DOMAIN DriverEntry[test][3].body = 1..2
           /\ DriverEntry[test][1].body[1] = Call("open", "hRegister", "none", "key", "none")
           /\ DriverEntry[test][1].body[2] = Call("size", "none", "hRegister", "full", "none")
           /\ DriverEntry[test][1].body[3] = Call("allocate", "pfi", "none", "none", "sized")
           /\ DriverEntry[test][1].body[4] = Call("data", "pfi", "hRegister", "full", "none")
           /\ DriverEntry[test][1].body[5] = Call("use", "pfi", "none", "none", "none")
           /\ DriverEntry[test][2].body[1] = Call("size", "none", "hRegister", "entry", "none")
           /\ DriverEntry[test][2].body[2] = Call("allocate", pbi, "none", "none", "sized")
           /\ DriverEntry[test][2].body[3] = Call("data", pbi, "hRegister", "entry", "none")
           /\ DriverEntry[test][2].body[4] = Call("use", pbi, "none", "none", "none")
           /\ DriverEntry[test][2].body[5] = Call("free", pbi, "none", "none", "none")
           /\ DriverEntry[test][3].body[1] = Call("free", "pfi", "none", "none", "none")
           /\ DriverEntry[test][3].body[2] = Call("close", "hRegister", "hRegister", "none", "none")
           /\ Locals(test) = {"hRegister", "pfi", pbi}
<1> DEFINE first == EnumerateKey(pbi)[1].body
           loop == EnumerateKey(pbi)[2].body
           last == EnumerateKey(pbi)[3].body
<1>1. /\ DriverEntry[test] = <<Once(first), Repeat("entries", loop), Once(last)>>
      /\ Len(first) = 5 /\ DOMAIN first = 1..5 /\ Len(loop) = 5 /\ DOMAIN loop = 1..5
      /\ Len(last) = 2 /\ DOMAIN last = 1..2
  BY DEF EnumerateKey, Once, Repeat
<1>2. /\ first[1] = Call("open", "hRegister", "none", "key", "none")
      /\ first[2] = Call("size", "none", "hRegister", "full", "none")
      /\ first[3] = Call("allocate", "pfi", "none", "none", "sized")
      /\ first[4] = Call("data", "pfi", "hRegister", "full", "none")
      /\ first[5] = Call("use", "pfi", "none", "none", "none")
  BY DEF EnumerateKey, Once, Repeat, Call, Open, QuerySize, Allocate, QueryData, Use, Free,
     Close
<1>3. /\ loop[1] = Call("size", "none", "hRegister", "entry", "none")
      /\ loop[2] = Call("allocate", pbi, "none", "none", "sized")
      /\ loop[3] = Call("data", pbi, "hRegister", "entry", "none")
      /\ loop[4] = Call("use", pbi, "none", "none", "none")
      /\ loop[5] = Call("free", pbi, "none", "none", "none")
  BY DEF EnumerateKey, Once, Repeat, Call, Open, QuerySize, Allocate, QueryData, Use, Free,
     Close
<1>4. /\ last[1] = Call("free", "pfi", "none", "none", "none")
      /\ last[2] = Call("close", "hRegister", "hRegister", "none", "none")
  BY DEF EnumerateKey, Once, Repeat, Call, Open, QuerySize, Allocate, QueryData, Use, Free,
     Close
<1> HIDE DEF first, loop, last
<1>5. /\ Len(DriverEntry[test]) = 3 /\ DOMAIN DriverEntry[test] = 1..3
      /\ DriverEntry[test][1].times = "once" /\ DriverEntry[test][1].body = first
      /\ DriverEntry[test][2].times = "entries" /\ DriverEntry[test][2].body = loop
      /\ DriverEntry[test][3].times = "once" /\ DriverEntry[test][3].body = last
  BY <1>1 DEF Once, Repeat
<1>6. Calls(test) = {first[k] : k \in 1..5} \cup {loop[k] : k \in 1..5} \cup {last[k] : k \in 1..2}
  <2>1. \A s \in 1..3 : s = 1 \/ s = 2 \/ s = 3
    OBVIOUS
  <2> QED BY <1>1, <1>5, <2>1 DEF Calls, ToSet
<1>7. /\ \A k \in 1..5 : k = 1 \/ k = 2 \/ k = 3 \/ k = 4 \/ k = 5
      /\ \A k \in 1..2 : k = 1 \/ k = 2
  OBVIOUS
<1>8. /\ first[1].v = "hRegister"
      /\ first[2].v = "none"
      /\ first[3].v = "pfi"
      /\ first[4].v = "pfi"
      /\ first[5].v = "pfi"
  BY <1>2 DEF Call
<1>9. /\ loop[1].v = "none"
      /\ loop[2].v = pbi
      /\ loop[3].v = pbi
      /\ loop[4].v = pbi
      /\ loop[5].v = pbi
  BY <1>3 DEF Call
<1>10. /\ last[1].v = "pfi"
      /\ last[2].v = "hRegister"
  BY <1>4 DEF Call
<1>11. {c.v : c \in Calls(test)} = {"hRegister", "none", "pfi", pbi}
  <2>1. \A c \in Calls(test) : c.v \in {"hRegister", "none", "pfi", pbi}
    BY <1>6, <1>7, <1>8, <1>9, <1>10
  <2>2. first[1] \in Calls(test) /\ first[2] \in Calls(test) /\ first[3] \in Calls(test)
    BY <1>6
  <2>3. loop[2] \in Calls(test)
    BY <1>6
  <2> QED BY <1>8, <1>9, <2>1, <2>2, <2>3
<1>12. Locals(test) = {"hRegister", "pfi", pbi}
  BY <1>11 DEF Locals
<1> QED BY <1>2, <1>3, <1>4, <1>1, <1>5, <1>12

LEMMA EnumerateNext ==
    ASSUME NEW pbi \in {"pbi", "pvbi"}, DriverEntry[test] = EnumerateKey(pbi),
           GoOn, pc = At(pc.segment, pc.at, pc.i)
    PROVE  /\ pc.segment \in {1, 2} /\ pc.at \in 1..4 => pc' = At(pc.segment, pc.at + 1, pc.i)
           /\ pc.segment = 1 /\ pc.at = 5 /\ pc.i = 0 =>
                 pc' = IF 0 < n' THEN At(2, 1, 0) ELSE At(3, 1, 0)
           /\ pc.segment = 2 /\ pc.at = 5 =>
                 pc' = IF pc.i + 1 < n' THEN At(2, 1, pc.i + 1) ELSE At(3, 1, 0)
           /\ pc.segment = 3 /\ pc.at = 1 => pc' = At(3, 2, pc.i)
           /\ pc.segment = 3 /\ pc.at = 2 /\ pc.i = 0 => pc' = Returned
<1> DEFINE segments == DriverEntry[test]
<1>1. /\ Len(segments) = 3 /\ Len(segments[1].body) = 5
      /\ Len(segments[2].body) = 5 /\ Len(segments[3].body) = 2
      /\ segments[1].times = "once" /\ segments[2].times = "entries"
      /\ segments[3].times = "once"
  BY EnumerateTable
<1> HIDE DEF segments
<1>2. /\ pc.segment = 1 => Later = IF 0 < n' THEN {2, 3} ELSE {3}
      /\ pc.segment = 2 => Later = {3}
      /\ pc.segment = 3 => Later = {}
  <2>1. 1 + 1 .. 3 = {2, 3} /\ 2 + 1 .. 3 = {3} /\ 3 + 1 .. 3 = {}
    OBVIOUS
  <2>2. (Goes(segments[2], 0) <=> 0 < n') /\ Goes(segments[3], 0)
    BY <1>1, GoesOnce, Loops
  <2> QED BY <1>1, <2>1, <2>2 DEF Later, segments
<1>3. ASSUME pc.segment \in {1, 2}, pc.at \in 1..4
      PROVE  pc' = At(pc.segment, pc.at + 1, pc.i)
  <2>1. Len(segments[pc.segment].body) = 5
    BY <1>1, <1>3
  <2>2. pc.at < Len(segments[pc.segment].body)
    BY <1>3, <2>1
  <2> QED BY <2>2, NextInSegment DEF segments
<1>4. ASSUME pc.segment = 3, pc.at = 1
      PROVE  pc' = At(3, 2, pc.i)
  <2> Len(segments[pc.segment].body) = 2
    BY <1>1, <1>4
  <2>1.  pc.at < Len(segments[pc.segment].body)
    BY <1>4
  <2>2. pc' = At(pc.segment, pc.at + 1, pc.i)
    BY <2>1, NextInSegment DEF segments
  <2> QED BY <1>4, <2>2
<1>5. ASSUME pc.segment = 1, pc.at = 5, pc.i = 0
      PROVE  pc' = IF 0 < n' THEN At(2, 1, 0) ELSE At(3, 1, 0)
  <2> Len(segments[pc.segment].body) = 5
    BY <1>1, <1>5
  <2> segments[pc.segment].times = "once"
    BY <1>1, <1>5
  <2>1.  ~(pc.at < Len(segments[pc.segment].body))
    BY <1>5
  <2> ~Goes(segments[pc.segment], pc.i + 1)
    BY <1>5, <2>1, GoesOnce
  <2>2. pc' = IF Later # {} THEN At(Min(Later), 1, 0) ELSE Returned
    BY <2>1, NextSegment DEF segments
  <2> QED BY <1>2, <1>5, <2>2, Minima
<1>6. ASSUME pc.segment = 2, pc.at = 5
      PROVE  pc' = IF pc.i + 1 < n' THEN At(2, 1, pc.i + 1) ELSE At(3, 1, 0)
  <2> Len(segments[pc.segment].body) = 5
    BY <1>1, <1>6
  <2> segments[pc.segment].times = "entries"
    BY <1>1, <1>6
  <2>1.  ~(pc.at < Len(segments[pc.segment].body))
    BY <1>6
  <2> Goes(segments[pc.segment], pc.i + 1) <=> pc.i + 1 < n'
    BY <2>1, Loops
  <2>2. pc.i + 1 < n' => pc' = At(pc.segment, 1, pc.i + 1)
    BY <2>1, NextSegment DEF segments
  <2>3. ~(pc.i + 1 < n') => pc' = IF Later # {} THEN At(Min(Later), 1, 0) ELSE Returned
    BY <2>1, NextSegment DEF segments
  <2> QED BY <1>2, <1>6, <2>2, <2>3, Minima
<1>7. ASSUME pc.segment = 3, pc.at = 2, pc.i = 0
      PROVE  pc' = Returned
  <2> Len(segments[pc.segment].body) = 2
    BY <1>1, <1>7
  <2> segments[pc.segment].times = "once"
    BY <1>1, <1>7
  <2>1.  ~(pc.at < Len(segments[pc.segment].body))
    BY <1>7
  <2> ~Goes(segments[pc.segment], pc.i + 1)
    BY <1>7, <2>1, GoesOnce
  <2>2. pc' = IF Later # {} THEN At(Min(Later), 1, 0) ELSE Returned
    BY <2>1, NextSegment DEF segments
  <2> QED BY <1>2, <1>7, <2>2
<1> QED BY <1>3, <1>4, <1>5, <1>6, <1>7

LEMMA EnumeratingStep ==
    ASSUME NEW pbi \in {"pbi", "pvbi"}, DriverEntry[test] = EnumerateKey(pbi),
           test \notin {"QueryRegTest", "RtlRegTest"},
           Typed, Enumerating(pbi), Next, DefinedUnlessDisturbed
    PROVE  Placed /\ Sensible /\ (Ended \/ Enumerating(pbi))' /\ DefinedUnlessDisturbed'
<1> DEFINE Freeing == /\ pc.segment = 3 /\ pc.at \in {1, 2} /\ pc.i = 0
                   /\ local[pbi] \in {"garbage", "freed"}
                   /\ IF pc.at = 1 THEN Read("pfi") ELSE local["pfi"] = "freed"
<1> /\ local \in [{"hRegister", "pfi", pbi} -> Values] /\ outstanding \in Int
    /\ n \in Nat /\ Len(entries) \in Nat /\ pbi \notin {"hRegister", "pfi", "none"}
  BY EnumerateTable, EntriesType, ExercisesAssumption DEF Typed
<1>1. \A s, k, i : /\ At(s, k, i).segment = s /\ At(s, k, i).at = k /\ At(s, k, i).i = i
                   /\ At(s, k, i) # Returned \/ s = 0
  BY DEF At, Returned
<1>2. /\ pc = At(pc.segment, pc.at, pc.i) /\ outstanding = Owned("pfi") + Owned(pbi)
      /\ Handled("hRegister", pc.segment > 1 \/ pc.at > 1)
      /\ (Describing /\ local[pbi] = "garbage") \/ Listing(pbi) \/ Freeing
  <2>1. ASSUME NEW k, pc = At(3, k, 0)
        PROVE  pc.segment = 3 /\ pc.i = 0
    BY <1>1, <2>1
  <2> QED BY <2>1 DEF Enumerating
<1>3. /\ pc.segment = 1 => Describing /\ local[pbi] = "garbage" /\ pc.i = 0
      /\ pc.segment = 2 => Listing(pbi)
      /\ pc.segment = 3 => Freeing
  BY <1>2 DEF Describing, Listing
<1>4. pc.segment \in 1..3 /\ pc.i \in Nat /\ pc.at \in 1..IF pc.segment = 3 THEN 2 ELSE 5
  <2>1. Describing => pc.segment = 1 /\ pc.i = 0 /\ pc.at \in 1..5
    BY DEF Describing
  <2>2. Listing(pbi) => pc.segment = 2 /\ pc.i \in Nat /\ pc.at \in 1..5
    BY DEF Listing
  <2> QED BY <1>2, <2>1, <2>2
<1>5. Placed
  <2>1. pc.segment \in 1..3 /\ DOMAIN DriverEntry[test] = 1..3
    BY <1>4, EnumerateTable
  <2>2. pc.segment = 1 \/ pc.segment = 2 \/ pc.segment = 3
    BY <1>4
  <2>3. DOMAIN DriverEntry[test][pc.segment].body = 1..IF pc.segment = 3 THEN 2 ELSE 5
    BY <2>2, EnumerateTable
  <2> QED BY <1>4, <2>1, <2>3 DEF Placed
<1>6. (pc.segment = 1 /\ pc.at = 1) \/ (pc.segment = 1 /\ pc.at = 2)
      \/ (pc.segment = 1 /\ pc.at = 3)
      \/ (pc.segment = 1 /\ pc.at = 4) \/ (pc.segment = 1 /\ pc.at = 5)
      \/ (pc.segment = 2 /\ pc.at = 1) \/ (pc.segment = 2 /\ pc.at = 2) \/ (pc.segment = 2 /\ pc.at = 3)
      \/ (pc.segment = 2 /\ pc.at = 4) \/ (pc.segment = 2 /\ pc.at = 5)
      \/ (pc.segment = 3 /\ pc.at = 1) \/ (pc.segment = 3 /\ pc.at = 2)
  BY <1>4
<1>7. /\ pc.segment = 1 /\ pc.at = 1 => This = Call("open", "hRegister", "none", "key", "none")
      /\ pc.segment = 1 /\ pc.at = 2 => This = Call("size", "none", "hRegister", "full", "none")
      /\ pc.segment = 1 /\ pc.at = 3 => This = Call("allocate", "pfi", "none", "none", "sized")
      /\ pc.segment = 1 /\ pc.at = 4 => This = Call("data", "pfi", "hRegister", "full", "none")
      /\ pc.segment = 1 /\ pc.at = 5 => This = Call("use", "pfi", "none", "none", "none")
      /\ pc.segment = 2 /\ pc.at = 1 => This = Call("size", "none", "hRegister", "entry", "none")
      /\ pc.segment = 2 /\ pc.at = 2 => This = Call("allocate", pbi, "none", "none", "sized")
      /\ pc.segment = 2 /\ pc.at = 3 => This = Call("data", pbi, "hRegister", "entry", "none")
      /\ pc.segment = 2 /\ pc.at = 4 => This = Call("use", pbi, "none", "none", "none")
      /\ pc.segment = 2 /\ pc.at = 5 => This = Call("free", pbi, "none", "none", "none")
      /\ pc.segment = 3 /\ pc.at = 1 => This = Call("free", "pfi", "none", "none", "none")
      /\ pc.segment = 3 /\ pc.at = 2 => This = Call("close", "hRegister", "hRegister", "none", "none")
  BY EnumerateTable DEF This
<1>8. Sensible
  BY <1>6, <1>7 DEF Sensible, Call
<1>9. CASE OthersChange
  <2>1. UNCHANGED <<local, outstanding, size, n, pc>> /\ disturbed'
    BY <1>9 DEF OthersChange, memory
  <2>2. (Describing /\ local[pbi] = "garbage")' \/ Listing(pbi)' \/ Freeing'
    BY <1>2, <2>1 DEF Describing, Listing, Given, Asked, Read, Blocks
  <2>3. Freeing' => pc' = At(3, pc'.at, 0)
    BY <1>2, <2>1
  <2>4. Enumerating(pbi)'
    BY <1>2, <2>1, <2>2, <2>3 DEF Enumerating, Owned, Handled
  <2>5. DefinedUnlessDisturbed'
    BY <1>9 DEF OthersChange, DefinedUnlessDisturbed
  <2> QED BY <1>5, <1>8, <2>4, <2>5
<1> DEFINE Target == (Describing /\ local[pbi] = "garbage") \/ Listing(pbi) \/ Freeing
           Held == /\ outstanding = Owned("pfi") + Owned(pbi)
                   /\ Handled("hRegister", pc.segment > 1 \/ pc.at > 1)
<1>10. pc' = At(pc'.segment, pc'.at, pc'.i) /\ Held' /\ Target' => Enumerating(pbi)'
  BY DEF Enumerating

<1>11. CASE ~OthersChange /\ pc.segment = 1 /\ pc.at = 1
  <2>1. Makes(Call("open", "hRegister", "none", "key", "none"))
    BY <1>7, <1>11 DEF Makes
  <2>2. Describing /\ local[pbi] = "garbage" /\ pc.i = 0
    BY <1>3, <1>11
  <2>3. GoOn => pc' = At(1, 2, 0)
    BY <1>2, <1>11, <2>2, EnumerateNext
  <2>4. "key" \in DOMAIN world \ {"entry", "full"}
    BY <1>2, <1>5, <1>7, <1>11, <2>2, ObjectNamed DEF Call
  <2>5. DefinedUnlessDisturbed'
    BY <1>2, <1>11, <2>1, <2>2, <2>4, Opens DEF Describing, Handled, Given, Asked, Read, Blocks,
       Stray, Surely, Stops, DefinedUnlessDisturbed, Faulty
  <2>6. pc' = At(1, 2, 0) /\ pc'.segment = 1 /\ pc'.at = 2 /\ pc'.i = 0
    BY <1>1, <2>1, <2>3, Opens
  <2>7. Held'
    BY <1>2, <1>11, <2>1, <2>2, <2>4, Opens, <2>6 DEF Describing, Handled, Given, Asked, Read,
       Blocks, Owned, Stray, Surely, Values
  <2>8. (Describing /\ local[pbi] = "garbage")'
    BY <1>2, <1>11, <2>1, <2>2, <2>4, Opens, <2>6 DEF Describing, Handled, Given, Asked, Read,
       Blocks, Stray, Surely, Values
  <2> QED BY <1>5, <1>8, <2>5, <2>7, <2>8, <2>6, <1>1, <1>10
<1>12. CASE ~OthersChange /\ pc.segment = 1 /\ pc.at = 2
  <2>1. Makes(Call("size", "none", "hRegister", "full", "none"))
    BY <1>7, <1>12 DEF Makes
  <2>2. Describing /\ local[pbi] = "garbage" /\ pc.i = 0
    BY <1>3, <1>12
  <2>3. GoOn => pc' = At(1, 3, 0)
    BY <1>2, <1>12, <2>2, EnumerateNext
  <2>4. ~disturbed => There("full")
    BY <1>2, <1>5, <1>7, <1>12, <2>2 DEF There, Describing
  <2>5. SizeOf("full") = 1
    BY <1>2, <1>5, <1>7, <1>12, <2>2, <2>4 DEF SizeOf
  <2>6. DefinedUnlessDisturbed'
    BY <1>2, <1>12, <2>1, <2>2, <2>4, <2>5, AsksSize DEF Describing, Handled, Given, Asked,
       Read, Blocks, Stray, Surely, Stops, DefinedUnlessDisturbed, Faulty
  <2>7. pc' = At(1, 3, 0) /\ pc'.segment = 1 /\ pc'.at = 3 /\ pc'.i = 0
    BY <1>1, <2>1, <2>3, AsksSize
  <2>8. Held'
    BY <1>2, <1>12, <2>1, <2>2, <2>4, <2>5, AsksSize, <2>7 DEF Describing, Handled, Given,
       Asked, Read, Blocks, Owned, Stray, Surely, Values
  <2>9. (Describing /\ local[pbi] = "garbage")'
    BY <1>2, <1>12, <2>1, <2>2, <2>4, <2>5, AsksSize, <2>7 DEF Describing, Handled, Given,
       Asked, Read, Blocks, Stray, Surely, Values
  <2> QED BY <1>5, <1>8, <2>6, <2>8, <2>9, <2>7, <1>1, <1>10
<1>13. CASE ~OthersChange /\ pc.segment = 1 /\ pc.at = 3
  <2>1. Makes(Call("allocate", "pfi", "none", "none", "sized"))
    BY <1>7, <1>13 DEF Makes
  <2>2. Describing /\ local[pbi] = "garbage" /\ pc.i = 0
    BY <1>3, <1>13
  <2>3. GoOn => pc' = At(1, 4, 0)
    BY <1>2, <1>13, <2>2, EnumerateNext
  <2>4. ~disturbed => size # Garbage
    BY <1>2, <1>5, <1>7, <1>13, <2>2 DEF Describing, Garbage
  <2>5. DefinedUnlessDisturbed'
    BY <1>2, <1>13, <2>1, <2>2, <2>4, Allocates DEF Describing, Handled, Given, Asked, Read,
       Blocks, Stray, Surely, Stops, DefinedUnlessDisturbed, Faulty
  <2>6. pc' = At(1, 4, 0) /\ pc'.segment = 1 /\ pc'.at = 4 /\ pc'.i = 0
    BY <1>1, <2>1, <2>3, Allocates
  <2>7. Held'
    BY <1>2, <1>13, <2>1, <2>2, <2>4, Allocates, <2>6 DEF Describing, Handled, Given, Asked,
       Read, Blocks, Owned, Stray, Surely, Values
  <2>8. (Describing /\ local[pbi] = "garbage")'
    BY <1>2, <1>13, <2>1, <2>2, <2>4, Allocates, <2>6 DEF Describing, Handled, Given, Asked,
       Read, Blocks, Stray, Surely, Values
  <2> QED BY <1>5, <1>8, <2>5, <2>7, <2>8, <2>6, <1>1, <1>10
<1>14. CASE ~OthersChange /\ pc.segment = 1 /\ pc.at = 4
  <2>1. Makes(Call("data", "pfi", "hRegister", "full", "none"))
    BY <1>7, <1>14 DEF Makes
  <2>2. Describing /\ local[pbi] = "garbage" /\ pc.i = 0
    BY <1>3, <1>14
  <2>3. GoOn => pc' = At(1, 5, 0)
    BY <1>2, <1>14, <2>2, EnumerateNext
  <2>4. This.via = "hRegister" /\ This.o = "full"
    BY <1>2, <1>5, <1>7, <1>14, <2>2 DEF Call
  <2>5. ~disturbed => CanDeliver(This)
    BY <1>2, <1>5, <1>7, <1>14, <2>2, <2>4 DEF CanDeliver, There, Fits, SizeOf, Stray, Handled,
       Describing
  <2>6. DefinedUnlessDisturbed'
    BY <1>2, <1>14, <2>1, <2>2, <1>5, <2>4, <2>5, AsksData DEF Describing, Handled, Given,
       Asked, Read, Blocks, Stray, Surely, Stops, DefinedUnlessDisturbed, Faulty
  <2>7. Stops("pfi") => Ended'
    BY <1>2, ExercisesAssumption DEF Stops, Ended, Owned
  <2>8. ~Stops("pfi") => pc' = At(1, 5, 0) /\ pc'.segment = 1 /\ pc'.at = 5 /\ pc'.i = 0
    BY <1>1, <2>1, <2>3, <1>5, AsksData
  <2>9. ~Stops("pfi") => Held'
    BY <1>2, <1>14, <2>1, <2>2, <1>5, <2>4, <2>5, AsksData, <2>8 DEF Describing, Handled, Given,
       Asked, Read, Blocks, Owned, Stray, Surely, Values
  <2>10. ~Stops("pfi") => (Describing /\ local[pbi] = "garbage")'
    BY <1>2, <1>14, <2>1, <2>2, <1>5, <2>4, <2>5, AsksData, <2>8 DEF Describing, Handled, Given,
       Asked, Read, Blocks, Stray, Surely, Values
  <2> QED BY <1>5, <1>8, <2>6, <2>7, <2>9, <2>10, <2>8, <1>1, <1>10
<1>15. CASE ~OthersChange /\ pc.segment = 1 /\ pc.at = 5
  <2>1. Makes(Call("use", "pfi", "none", "none", "none"))
    BY <1>7, <1>15 DEF Makes
  <2>2. Describing /\ local[pbi] = "garbage" /\ pc.i = 0
    BY <1>3, <1>15
  <2>3. GoOn => /\ (0 < n' => pc' = At(2, 1, 0))
           /\ (~(0 < n') => pc' = At(3, 1, 0))
    BY <1>2, <1>15, <2>2, EnumerateNext
  <2>4. DefinedUnlessDisturbed'
    BY <1>2, <1>15, <2>1, <2>2, Uses DEF Describing, Handled, Given, Asked, Read, Blocks, Stray,
       Surely, Stops, DefinedUnlessDisturbed, Faulty
  <2>5. Stops("pfi") => Ended'
    BY <1>2, ExercisesAssumption DEF Stops, Ended, Owned
  <2>6. ~Stops("pfi") => 
           \/ /\ pc' = At(2, 1, 0) /\ pc'.segment = 2 /\ pc'.at = 1 /\ pc'.i = 0 /\ 0 < n'
           \/ /\ pc' = At(3, 1, 0) /\ pc'.segment = 3 /\ pc'.at = 1 /\ pc'.i = 0 /\ ~(0 < n')
    BY <1>1, <2>1, <2>3, Uses
  <2>7. ~Stops("pfi") => Held'
    BY <1>2, <1>15, <2>1, <2>2, Uses, <2>6 DEF Describing, Handled, Given, Asked, Read, Blocks,
       Owned, Stray, Surely, Values
  <2>8. ~Stops("pfi") => (Listing(pbi) \/ Freeing)'
    BY <1>2, <1>15, <2>1, <2>2, Uses, <2>6 DEF Describing, Listing, Handled, Given, Asked, Read,
       Blocks, Stray, Surely, Values
  <2> QED BY <1>5, <1>8, <2>4, <2>5, <2>7, <2>8, <2>6, <1>1, <1>10
<1>16. CASE ~OthersChange /\ pc.segment = 2 /\ pc.at = 1
  <2>1. Makes(Call("size", "none", "hRegister", "entry", "none"))
    BY <1>7, <1>16 DEF Makes
  <2>2. Listing(pbi)
    BY <1>3, <1>16
  <2>3. GoOn => pc' = At(2, 2, pc.i)
    BY <1>2, <1>16, <2>2, EnumerateNext
  <2>4. pc.i \in 0..n - 1 /\ n \in Nat
    BY <1>2, <1>5, <1>7, <1>16, <2>2 DEF Listing
  <2>5. ~disturbed => There("entry")
    BY <1>2, <1>5, <1>7, <1>16, <2>2, <2>4 DEF There, Listing
  <2>6. SizeOf("entry") = entries[pc.i + 1]
    BY <1>2, <1>5, <1>7, <1>16, <2>2, <2>4, <2>5 DEF SizeOf
  <2>7. DefinedUnlessDisturbed'
    BY <1>2, <1>16, <2>1, <2>2, <2>4, <2>5, <2>6, AsksSize DEF Listing, Handled, Given, Asked,
       Read, Blocks, Stray, Surely, Stops, DefinedUnlessDisturbed, Faulty
  <2>8. pc' = At(2, 2, pc.i) /\ pc'.segment = 2 /\ pc'.at = 2 /\ pc'.i = pc.i
    BY <1>1, <2>1, <2>3, AsksSize
  <2>9. Held'
    BY <1>2, <1>16, <2>1, <2>2, <2>4, <2>5, <2>6, AsksSize, <2>8 DEF Listing, Handled, Given,
       Asked, Read, Blocks, Owned, Stray, Surely, Values
  <2>10. Listing(pbi)'
    BY <1>2, <1>16, <2>1, <2>2, <2>4, <2>5, <2>6, AsksSize, <2>8 DEF Listing, Handled, Given,
       Asked, Read, Blocks, Stray, Surely, Values
  <2> QED BY <1>5, <1>8, <2>7, <2>9, <2>10, <2>8, <1>1, <1>10
<1>17. CASE ~OthersChange /\ pc.segment = 2 /\ pc.at = 2
  <2>1. Makes(Call("allocate", pbi, "none", "none", "sized"))
    BY <1>7, <1>17 DEF Makes
  <2>2. Listing(pbi)
    BY <1>3, <1>17
  <2>3. GoOn => pc' = At(2, 3, pc.i)
    BY <1>2, <1>17, <2>2, EnumerateNext
  <2>4. pc.i \in 0..n - 1 /\ n \in Nat
    BY <1>2, <1>5, <1>7, <1>17, <2>2 DEF Listing
  <2>5. ~disturbed => entries[pc.i + 1] \in 1..MaxSize
    BY <1>2, <1>5, <1>7, <1>17, <2>2, <2>4, EntriesType DEF Typed, Listing
  <2>6. ~disturbed => size # Garbage
    BY <1>2, <1>5, <1>7, <1>17, <2>2, <2>4, <2>5 DEF Listing, Garbage
  <2>7. DefinedUnlessDisturbed'
    BY <1>2, <1>17, <2>1, <2>2, <2>4, <2>5, <2>6, Allocates DEF Listing, Handled, Given, Asked,
       Read, Blocks, Stray, Surely, Stops, DefinedUnlessDisturbed, Faulty
  <2>8. pc' = At(2, 3, pc.i) /\ pc'.segment = 2 /\ pc'.at = 3 /\ pc'.i = pc.i
    BY <1>1, <2>1, <2>3, Allocates
  <2>9. Held'
    BY <1>2, <1>17, <2>1, <2>2, <2>4, <2>5, <2>6, Allocates, <2>8 DEF Listing, Handled, Given,
       Asked, Read, Blocks, Owned, Stray, Surely, Values
  <2>10. Listing(pbi)'
    BY <1>2, <1>17, <2>1, <2>2, <2>4, <2>5, <2>6, Allocates, <2>8 DEF Listing, Handled, Given,
       Asked, Read, Blocks, Stray, Surely, Values
  <2> QED BY <1>5, <1>8, <2>7, <2>9, <2>10, <2>8, <1>1, <1>10
<1>18. CASE ~OthersChange /\ pc.segment = 2 /\ pc.at = 3
  <2>1. Makes(Call("data", pbi, "hRegister", "entry", "none"))
    BY <1>7, <1>18 DEF Makes
  <2>2. Listing(pbi)
    BY <1>3, <1>18
  <2>3. GoOn => pc' = At(2, 4, pc.i)
    BY <1>2, <1>18, <2>2, EnumerateNext
  <2>4. pc.i \in 0..n - 1 /\ n \in Nat
    BY <1>2, <1>5, <1>7, <1>18, <2>2 DEF Listing
  <2>5. ~disturbed => entries[pc.i + 1] \in 1..MaxSize
    BY <1>2, <1>5, <1>7, <1>18, <2>2, <2>4, EntriesType DEF Typed, Listing
  <2>6. This.via = "hRegister" /\ This.o = "entry"
    BY <1>2, <1>5, <1>7, <1>18, <2>2, <2>4, <2>5 DEF Call
  <2>7. ~disturbed => CanDeliver(This)
    BY <1>2, <1>5, <1>7, <1>18, <2>2, <2>4, <2>5, <2>6 DEF CanDeliver, There, Fits, SizeOf,
       Stray, Handled, Listing
  <2>8. DefinedUnlessDisturbed'
    BY <1>2, <1>18, <2>1, <2>2, <1>5, <2>4, <2>5, <2>6, <2>7, AsksData DEF Listing, Handled,
       Given, Asked, Read, Blocks, Stray, Surely, Stops, DefinedUnlessDisturbed,
       Faulty
  <2>9. Stops(pbi) => Ended'
    BY <1>2, ExercisesAssumption DEF Stops, Ended, Owned
  <2>10. ~Stops(pbi) => pc' = At(2, 4, pc.i) /\ pc'.segment = 2 /\ pc'.at = 4 /\ pc'.i = pc.i
    BY <1>1, <2>1, <2>3, <1>5, AsksData
  <2>11. ~Stops(pbi) => Held'
    BY <1>2, <1>18, <2>1, <2>2, <1>5, <2>4, <2>5, <2>6, <2>7, AsksData, <2>10 DEF Listing,
       Handled, Given, Asked, Read, Blocks, Owned, Stray, Surely, Values
  <2>12. ~Stops(pbi) => Listing(pbi)'
    BY <1>2, <1>18, <2>1, <2>2, <1>5, <2>4, <2>5, <2>6, <2>7, AsksData, <2>10 DEF Listing,
       Handled, Given, Asked, Read, Blocks, Stray, Surely, Values
  <2> QED BY <1>5, <1>8, <2>8, <2>9, <2>11, <2>12, <2>10, <1>1, <1>10
<1>19. CASE ~OthersChange /\ pc.segment = 2 /\ pc.at = 4
  <2>1. Makes(Call("use", pbi, "none", "none", "none"))
    BY <1>7, <1>19 DEF Makes
  <2>2. Listing(pbi)
    BY <1>3, <1>19
  <2>3. GoOn => pc' = At(2, 5, pc.i)
    BY <1>2, <1>19, <2>2, EnumerateNext
  <2>4. pc.i \in 0..n - 1 /\ n \in Nat
    BY <1>2, <1>5, <1>7, <1>19, <2>2 DEF Listing
  <2>5. DefinedUnlessDisturbed'
    BY <1>2, <1>19, <2>1, <2>2, <2>4, Uses DEF Listing, Handled, Given, Asked, Read, Blocks,
       Stray, Surely, Stops, DefinedUnlessDisturbed, Faulty
  <2>6. Stops(pbi) => Ended'
    BY <1>2, ExercisesAssumption DEF Stops, Ended, Owned
  <2>7. ~Stops(pbi) => pc' = At(2, 5, pc.i) /\ pc'.segment = 2 /\ pc'.at = 5 /\ pc'.i = pc.i
    BY <1>1, <2>1, <2>3, Uses
  <2>8. ~Stops(pbi) => Held'
    BY <1>2, <1>19, <2>1, <2>2, <2>4, Uses, <2>7 DEF Listing, Handled, Given, Asked, Read,
       Blocks, Owned, Stray, Surely, Values
  <2>9. ~Stops(pbi) => Listing(pbi)'
    BY <1>2, <1>19, <2>1, <2>2, <2>4, Uses, <2>7 DEF Listing, Handled, Given, Asked, Read,
       Blocks, Stray, Surely, Values
  <2> QED BY <1>5, <1>8, <2>5, <2>6, <2>8, <2>9, <2>7, <1>1, <1>10
<1>20. CASE ~OthersChange /\ pc.segment = 2 /\ pc.at = 5
  <2>1. Makes(Call("free", pbi, "none", "none", "none"))
    BY <1>7, <1>20 DEF Makes
  <2>2. Listing(pbi)
    BY <1>3, <1>20
  <2>3. GoOn => /\ (pc.i + 1 < n' => pc' = At(2, 1, pc.i + 1))
           /\ (~(pc.i + 1 < n') => pc' = At(3, 1, 0))
    BY <1>2, <1>20, <2>2, EnumerateNext
  <2>4. pc.i \in 0..n - 1 /\ n \in Nat
    BY <1>2, <1>5, <1>7, <1>20, <2>2 DEF Listing
  <2>5. DefinedUnlessDisturbed'
    BY <1>2, <1>20, <2>1, <2>2, <2>4, Frees DEF Listing, Handled, Given, Asked, Read, Blocks,
       Stray, Surely, Stops, DefinedUnlessDisturbed, Faulty
  <2>6. Stops(pbi) => Ended'
    BY <1>2, ExercisesAssumption DEF Stops, Ended, Owned
  <2>7. ~Stops(pbi) => 
           \/ /\ pc' = At(2, 1, pc.i + 1) /\ pc'.segment = 2 /\ pc'.at = 1 /\ pc'.i = pc.i + 1
              /\ pc.i + 1 < n'
           \/ /\ pc' = At(3, 1, 0) /\ pc'.segment = 3 /\ pc'.at = 1 /\ pc'.i = 0
              /\ ~(pc.i + 1 < n')
    BY <1>1, <2>1, <2>3, Frees
  <2>8. ~Stops(pbi) => Held'
    BY <1>2, <1>20, <2>1, <2>2, <2>4, Frees, <2>7 DEF Listing, Handled, Given, Asked, Read,
       Blocks, Owned, Stray, Surely, Values
  <2>9. ~Stops(pbi) => (Listing(pbi) \/ Freeing)'
    BY <1>2, <1>20, <2>1, <2>2, <2>4, Frees, <2>7 DEF Listing, Handled, Given, Asked, Read,
       Blocks, Stray, Surely, Values
  <2> QED BY <1>5, <1>8, <2>5, <2>6, <2>8, <2>9, <2>7, <1>1, <1>10
<1>21. CASE ~OthersChange /\ pc.segment = 3 /\ pc.at = 1
  <2>1. Makes(Call("free", "pfi", "none", "none", "none"))
    BY <1>7, <1>21 DEF Makes
  <2>2. Freeing
    BY <1>3, <1>21
  <2>3. GoOn => pc' = At(3, 2, 0)
    BY <1>2, <1>21, <2>2, EnumerateNext
  <2>4. DefinedUnlessDisturbed'
    BY <1>2, <1>21, <2>1, <2>2, Frees DEF Handled, Given, Asked, Read, Blocks, Stray, Surely,
       Stops, DefinedUnlessDisturbed, Faulty
  <2>5. Stops("pfi") => Ended'
    BY <1>2, ExercisesAssumption DEF Stops, Ended, Owned
  <2>6. ~Stops("pfi") => pc' = At(3, 2, 0) /\ pc'.segment = 3 /\ pc'.at = 2 /\ pc'.i = 0
    BY <1>1, <2>1, <2>3, Frees
  <2>7. ~Stops("pfi") => Held'
    BY <1>2, <1>21, <2>1, <2>2, Frees, <2>6 DEF Handled, Given, Asked, Read, Blocks, Owned,
       Stray, Surely, Values
  <2>8. ~Stops("pfi") => Freeing'
    BY <1>2, <1>21, <2>1, <2>2, Frees, <2>6 DEF Handled, Given, Asked, Read, Blocks, Stray,
       Surely, Values
  <2> QED BY <1>5, <1>8, <2>4, <2>5, <2>7, <2>8, <2>6, <1>1, <1>10
<1>22. CASE ~OthersChange /\ pc.segment = 3 /\ pc.at = 2
  <2>1. Makes(Call("close", "hRegister", "hRegister", "none", "none"))
    BY <1>7, <1>22 DEF Makes
  <2>2. Freeing
    BY <1>3, <1>22
  <2>3. GoOn => pc' = Returned
    BY <1>2, <1>22, <2>2, EnumerateNext
  <2>4. DefinedUnlessDisturbed'
    BY <1>2, <1>22, <2>1, <2>2, Closes DEF Handled, Given, Asked, Read, Blocks, Stray, Surely,
       Stops, DefinedUnlessDisturbed, Faulty
  <2>5. Ended'
    BY <1>2, <1>22, <2>1, <2>2, Closes, <2>3 DEF Ended, Owned, Returned
  <2> QED BY <1>5, <1>8, <2>4, <2>5
<1> QED BY <1>6, <1>9, <1>11, <1>12, <1>13, <1>14, <1>15, <1>16, <1>17, <1>18, <1>19, <1>20,
           <1>21, <1>22

\* The two exercises that fill a list, or an array, and empty it.
LEMMA LinkListTable ==
    ASSUME test = "LinkListTest"
    PROVE  /\ Len(DriverEntry[test]) = 2 /\ DOMAIN DriverEntry[test] = 1..2
           /\ DriverEntry[test][1].times = "elements"
           /\ DriverEntry[test][2].times = "listed"
           /\ Len(DriverEntry[test][1].body) = 3 /\ DOMAIN DriverEntry[test][1].body = 1..3
           /\ Len(DriverEntry[test][2].body) = 3 /\ DOMAIN DriverEntry[test][2].body = 1..3
           /\ DriverEntry[test][1].body[1] = Call("allocate", "pData", "none", "none", "fixed")
           /\ DriverEntry[test][1].body[2] = Call("fill", "pData", "none", "none", "none")
           /\ DriverEntry[test][1].body[3] = Call("insert", "pData", "none", "none", "none")
           /\ DriverEntry[test][2].body[1] = Call("remove", "pData", "none", "none", "none")
           /\ DriverEntry[test][2].body[2] = Call("use", "pData", "none", "none", "none")
           /\ DriverEntry[test][2].body[3] = Call("free", "pData", "none", "none", "none")
           /\ Locals(test) = {"pData"}
<1> DEFINE filling == LinkListTest[1].body
           emptying == LinkListTest[2].body
<1>1. /\ DriverEntry[test] = <<Repeat("elements", filling), Repeat("listed", emptying)>>
      /\ Len(filling) = 3 /\ DOMAIN filling = 1..3 /\ Len(emptying) = 3 /\ DOMAIN emptying = 1..3
  BY Entries DEF LinkListTest, Repeat
<1>2. /\ filling[1] = Call("allocate", "pData", "none", "none", "fixed")
      /\ filling[2] = Call("fill", "pData", "none", "none", "none")
      /\ filling[3] = Call("insert", "pData", "none", "none", "none")
      /\ emptying[1] = Call("remove", "pData", "none", "none", "none")
      /\ emptying[2] = Call("use", "pData", "none", "none", "none")
      /\ emptying[3] = Call("free", "pData", "none", "none", "none")
  BY DEF LinkListTest, Repeat, Call, AllocateFixed, Fill, Link, Unlink, Use, Free
<1> HIDE DEF filling, emptying
<1>3. /\ Len(DriverEntry[test]) = 2 /\ DOMAIN DriverEntry[test] = 1..2
      /\ DriverEntry[test][1].times = "elements" /\ DriverEntry[test][1].body = filling
      /\ DriverEntry[test][2].times = "listed" /\ DriverEntry[test][2].body = emptying
  BY <1>1 DEF Repeat
<1>4. Calls(test) = {filling[k] : k \in 1..3} \cup {emptying[k] : k \in 1..3}
  <2>1. \A s \in 1..2 : s = 1 \/ s = 2
    OBVIOUS
  <2> QED BY <1>1, <1>3, <2>1 DEF Calls, ToSet
<1>5. \A k \in 1..3 : filling[k].v = "pData" /\ emptying[k].v = "pData"
  <2>1. \A k \in 1..3 : k = 1 \/ k = 2 \/ k = 3
    OBVIOUS
  <2> QED BY <1>2, <2>1 DEF Call
<1>6. {c.v : c \in Calls(test)} = {"pData"}
  BY <1>4, <1>5
<1>7. Locals(test) = {"pData"}
  BY <1>6 DEF Locals
<1> QED BY <1>1, <1>2, <1>3, <1>7

LEMMA LinkListNext ==
    ASSUME test = "LinkListTest", GoOn, pc = At(pc.segment, pc.at, pc.i)
    PROVE  /\ pc.segment \in {1, 2} /\ pc.at \in 1..2 => pc' = At(pc.segment, pc.at + 1, pc.i)
           /\ pc.segment = 1 /\ pc.at = 3 =>
                 pc' = IF pc.i + 1 < Elements THEN At(1, 1, pc.i + 1)
                       ELSE IF list' # <<>> THEN At(2, 1, 0) ELSE Returned
           /\ pc.segment = 2 /\ pc.at = 3 =>
                 pc' = IF list' # <<>> THEN At(2, 1, pc.i + 1) ELSE Returned
<1> DEFINE segments == DriverEntry[test]
<1>1. /\ Len(segments) = 2 /\ Len(segments[1].body) = 3 /\ Len(segments[2].body) = 3
      /\ segments[1].times = "elements" /\ segments[2].times = "listed"
  BY LinkListTable
<1> HIDE DEF segments
<1>2. /\ pc.segment = 1 => Later = IF list' # <<>> THEN {2} ELSE {}
      /\ pc.segment = 2 => Later = {}
  <2>1. 1 + 1 .. 2 = {2} /\ 2 + 1 .. 2 = {}
    OBVIOUS
  <2>2. Goes(segments[2], 0) <=> list' # <<>>
    BY <1>1, Loops
  <2> QED BY <1>1, <2>1, <2>2 DEF Later, segments
<1>3. ASSUME pc.segment \in {1, 2}, pc.at \in 1..2
      PROVE  pc' = At(pc.segment, pc.at + 1, pc.i)
  <2>1. Len(segments[pc.segment].body) = 3
    BY <1>1, <1>3
  <2>2. pc.at < Len(segments[pc.segment].body)
    BY <1>3, <2>1
  <2> QED BY <2>2, NextInSegment DEF segments
<1>4. ASSUME pc.segment = 1, pc.at = 3
      PROVE  pc' = IF pc.i + 1 < Elements THEN At(1, 1, pc.i + 1)
                   ELSE IF list' # <<>> THEN At(2, 1, 0) ELSE Returned
  <2> Len(segments[pc.segment].body) = 3 /\ segments[pc.segment].times = "elements"
    BY <1>1, <1>4
  <2>1. ~(pc.at < Len(segments[pc.segment].body))
    BY <1>4
  <2> Goes(segments[pc.segment], pc.i + 1) <=> pc.i + 1 < Elements
    BY Loops
  <2>2. pc.i + 1 < Elements => pc' = At(pc.segment, 1, pc.i + 1)
    BY <2>1, NextSegment DEF segments
  <2>3. ~(pc.i + 1 < Elements) => pc' = IF Later # {} THEN At(Min(Later), 1, 0) ELSE Returned
    BY <2>1, NextSegment DEF segments
  <2> QED BY <1>2, <1>4, <2>2, <2>3, Minima
<1>5. ASSUME pc.segment = 2, pc.at = 3
      PROVE  pc' = IF list' # <<>> THEN At(2, 1, pc.i + 1) ELSE Returned
  <2> Len(segments[pc.segment].body) = 3 /\ segments[pc.segment].times = "listed"
    BY <1>1, <1>5
  <2>1. ~(pc.at < Len(segments[pc.segment].body))
    BY <1>5
  <2> Goes(segments[pc.segment], pc.i + 1) <=> list' # <<>>
    BY Loops
  <2>2. list' # <<>> => pc' = At(pc.segment, 1, pc.i + 1)
    BY <2>1, NextSegment DEF segments
  <2>3. ~(list' # <<>>) => pc' = IF Later # {} THEN At(Min(Later), 1, 0) ELSE Returned
    BY <2>1, NextSegment DEF segments
  <2> QED BY <1>2, <1>5, <2>2, <2>3
<1> QED BY <1>3, <1>4, <1>5


LEMMA LookasideTable ==
    ASSUME test = "LookasideTest"
    PROVE  /\ Len(DriverEntry[test]) = 2 /\ DOMAIN DriverEntry[test] = 1..2
           /\ DriverEntry[test][1].times = "elements"
           /\ DriverEntry[test][2].times = "elements"
           /\ Len(DriverEntry[test][1].body) = 2 /\ DOMAIN DriverEntry[test][1].body = 1..2
           /\ Len(DriverEntry[test][2].body) = 2 /\ DOMAIN DriverEntry[test][2].body = 1..2
           /\ DriverEntry[test][1].body[1] = Call("allocate", "MyObject", "none", "none", "fixed")
           /\ DriverEntry[test][1].body[2] = Call("insert", "MyObject", "none", "none", "none")
           /\ DriverEntry[test][2].body[1] = Call("remove", "MyObject", "none", "none", "none")
           /\ DriverEntry[test][2].body[2] = Call("free", "MyObject", "none", "none", "none")
           /\ Locals(test) = {"MyObject"}
<1> DEFINE filling == LookasideTest[1].body
           emptying == LookasideTest[2].body
<1>1. /\ DriverEntry[test] = <<Repeat("elements", filling), Repeat("elements", emptying)>>
      /\ Len(filling) = 2 /\ DOMAIN filling = 1..2 /\ Len(emptying) = 2 /\ DOMAIN emptying = 1..2
  BY Entries DEF LookasideTest, Repeat
<1>2. /\ filling[1] = Call("allocate", "MyObject", "none", "none", "fixed")
      /\ filling[2] = Call("insert", "MyObject", "none", "none", "none")
      /\ emptying[1] = Call("remove", "MyObject", "none", "none", "none")
      /\ emptying[2] = Call("free", "MyObject", "none", "none", "none")
  BY DEF LookasideTest, Repeat, Call, AllocateFixed, Link, Unlink, Free
<1> HIDE DEF filling, emptying
<1>3. /\ Len(DriverEntry[test]) = 2 /\ DOMAIN DriverEntry[test] = 1..2
      /\ DriverEntry[test][1].times = "elements" /\ DriverEntry[test][1].body = filling
      /\ DriverEntry[test][2].times = "elements" /\ DriverEntry[test][2].body = emptying
  BY <1>1 DEF Repeat
<1>4. Calls(test) = {filling[k] : k \in 1..2} \cup {emptying[k] : k \in 1..2}
  <2>1. \A s \in 1..2 : s = 1 \/ s = 2
    OBVIOUS
  <2> QED BY <1>1, <1>3, <2>1 DEF Calls, ToSet
<1>5. \A k \in 1..2 : filling[k].v = "MyObject" /\ emptying[k].v = "MyObject"
  <2>1. \A k \in 1..2 : k = 1 \/ k = 2
    OBVIOUS
  <2> QED BY <1>2, <2>1 DEF Call
<1>6. {c.v : c \in Calls(test)} = {"MyObject"}
  BY <1>4, <1>5
<1>7. Locals(test) = {"MyObject"}
  BY <1>6 DEF Locals
<1> QED BY <1>1, <1>2, <1>3, <1>7

LEMMA LookasideNext ==
    ASSUME test = "LookasideTest", GoOn, pc = At(pc.segment, pc.at, pc.i)
    PROVE  /\ pc.segment \in {1, 2} /\ pc.at = 1 => pc' = At(pc.segment, 2, pc.i)
           /\ pc.segment = 1 /\ pc.at = 2 =>
                 pc' = IF pc.i + 1 < Elements THEN At(1, 1, pc.i + 1) ELSE At(2, 1, 0)
           /\ pc.segment = 2 /\ pc.at = 2 =>
                 pc' = IF pc.i + 1 < Elements THEN At(2, 1, pc.i + 1) ELSE Returned
<1> DEFINE segments == DriverEntry[test]
<1>1. /\ Len(segments) = 2 /\ Len(segments[1].body) = 2 /\ Len(segments[2].body) = 2
      /\ segments[1].times = "elements" /\ segments[2].times = "elements"
  BY LookasideTable
<1> HIDE DEF segments
<1>2. (pc.segment = 1 => Later = {2}) /\ (pc.segment = 2 => Later = {})
  <2>1. 1 + 1 .. 2 = {2} /\ 2 + 1 .. 2 = {}
    OBVIOUS
  <2>2. Goes(segments[2], 0)
    BY <1>1, Loops, ExercisesAssumption
  <2> QED BY <1>1, <2>1, <2>2 DEF Later, segments
<1>3. ASSUME pc.segment \in {1, 2}, pc.at = 1
      PROVE  pc' = At(pc.segment, 2, pc.i)
  <2>1. Len(segments[pc.segment].body) = 2
    BY <1>1, <1>3
  <2>2. pc.at < Len(segments[pc.segment].body)
    BY <1>3, <2>1
  <2>3. pc' = At(pc.segment, pc.at + 1, pc.i)
    BY <2>2, NextInSegment DEF segments
  <2> QED BY <1>3, <2>3
<1>4. ASSUME pc.segment = 1, pc.at = 2
      PROVE  pc' = IF pc.i + 1 < Elements THEN At(1, 1, pc.i + 1) ELSE At(2, 1, 0)
  <2> Len(segments[pc.segment].body) = 2 /\ segments[pc.segment].times = "elements"
    BY <1>1, <1>4
  <2>1. ~(pc.at < Len(segments[pc.segment].body))
    BY <1>4
  <2> Goes(segments[pc.segment], pc.i + 1) <=> pc.i + 1 < Elements
    BY Loops
  <2>2. pc.i + 1 < Elements => pc' = At(pc.segment, 1, pc.i + 1)
    BY <2>1, NextSegment DEF segments
  <2>3. ~(pc.i + 1 < Elements) => pc' = IF Later # {} THEN At(Min(Later), 1, 0) ELSE Returned
    BY <2>1, NextSegment DEF segments
  <2> QED BY <1>2, <1>4, <2>2, <2>3, Minima
<1>5. ASSUME pc.segment = 2, pc.at = 2
      PROVE  pc' = IF pc.i + 1 < Elements THEN At(2, 1, pc.i + 1) ELSE Returned
  <2> Len(segments[pc.segment].body) = 2 /\ segments[pc.segment].times = "elements"
    BY <1>1, <1>5
  <2>1. ~(pc.at < Len(segments[pc.segment].body))
    BY <1>5
  <2> Goes(segments[pc.segment], pc.i + 1) <=> pc.i + 1 < Elements
    BY Loops
  <2>2. pc.i + 1 < Elements => pc' = At(pc.segment, 1, pc.i + 1)
    BY <2>1, NextSegment DEF segments
  <2>3. ~(pc.i + 1 < Elements) => pc' = IF Later # {} THEN At(Min(Later), 1, 0) ELSE Returned
    BY <2>1, NextSegment DEF segments
  <2> QED BY <1>2, <1>5, <2>2, <2>3
<1> QED BY <1>3, <1>4, <1>5

LEMMA LinkListStep ==
    ASSUME Typed, test = "LinkListTest", InList, Next, DefinedUnlessDisturbed
    PROVE  Placed /\ Sensible /\ (Ended \/ InList)' /\ DefinedUnlessDisturbed'
<1> /\ local \in [{"pData"} -> Values] /\ outstanding \in Int /\ list \in Seq(Blocks)
    /\ Elements \in Nat \ {0}
  BY LinkListTable, ExercisesAssumption DEF Typed
<1>1. \A s, k, i : At(s, k, i).segment = s /\ At(s, k, i).at = k /\ At(s, k, i).i = i
  BY DEF At
<1>2. /\ pc.segment = 1 => Linking
      /\ pc.segment = 2 => Unlinking
      /\ pc.segment \in {1, 2} /\ pc.at \in 1..3 /\ pc = At(pc.segment, pc.at, pc.i)
      /\ pc.i \in 0..Elements - 1
  <2>1. ASSUME Linking
        PROVE  pc.segment = 1 /\ pc.at \in 1..3 /\ pc = At(1, pc.at, pc.i)
        /\ pc.i \in 0..Elements - 1
    <3>1. pc = At(1, pc.at, pc.i) /\ pc.at \in 1..3 /\ Len(list) = pc.i /\ pc.i < Elements
      BY <2>1 DEF Linking
    <3>2. pc.segment = 1
      BY <1>1, <3>1
    <3>3. pc.i \in 0..Elements - 1
      BY <3>1
    <3> QED BY <3>1, <3>2, <3>3
  <2>2. ASSUME Unlinking
        PROVE  pc.segment = 2 /\ pc.at \in 1..3 /\ pc = At(2, pc.at, pc.i)
        /\ pc.i \in 0..Elements - 1
    <3>1. pc = At(2, pc.at, pc.i) /\ pc.at \in 1..3 /\ pc.i \in 0..Elements - 1
      BY <2>2 DEF Unlinking
    <3>2. pc.segment = 2
      BY <1>1, <3>1
    <3> QED BY <3>1, <3>2
  <2> QED BY <2>1, <2>2 DEF InList
<1>3. Placed
  <2>1. pc.segment \in 1..2 /\ pc.i \in Nat
    BY <1>2
  <2> QED BY <1>2, <2>1, LinkListTable DEF Placed
<1>4. \/ pc.segment = 1 /\ pc.at = 1
      \/ pc.segment = 1 /\ pc.at = 2
      \/ pc.segment = 1 /\ pc.at = 3
      \/ pc.segment = 2 /\ pc.at = 1
      \/ pc.segment = 2 /\ pc.at = 2
      \/ pc.segment = 2 /\ pc.at = 3
  BY <1>2
<1>5. /\ pc.segment = 1 /\ pc.at = 1 => This = Call("allocate", "pData", "none", "none", "fixed")
      /\ pc.segment = 1 /\ pc.at = 2 => This = Call("fill", "pData", "none", "none", "none")
      /\ pc.segment = 1 /\ pc.at = 3 => This = Call("insert", "pData", "none", "none", "none")
      /\ pc.segment = 2 /\ pc.at = 1 => This = Call("remove", "pData", "none", "none", "none")
      /\ pc.segment = 2 /\ pc.at = 2 => This = Call("use", "pData", "none", "none", "none")
      /\ pc.segment = 2 /\ pc.at = 3 => This = Call("free", "pData", "none", "none", "none")
  BY LinkListTable DEF This
<1>6. local["pData"] # "open" /\ \A j \in 1..Len(list) : list[j] = "filled"
  BY DEF InList
<1>7. Sensible
  <2>1. CASE pc.segment = 1 /\ pc.at = 3
    <3>1. local["pData"] = "filled" /\ Len(list) < Elements
      BY <1>2, <2>1 DEF Linking
    <3> QED BY <1>5, <2>1, <3>1 DEF Sensible, Call, Blocks
  <2>2. CASE pc.segment = 2 /\ pc.at = 1
    <3>1. Len(list) = Elements - pc.i
      BY <1>2, <2>2 DEF Unlinking
    <3>2. list # <<>>
      BY <1>2, <3>1
    <3> QED BY <1>5, <2>2, <3>2 DEF Sensible, Call
  <2> QED BY <1>4, <1>5, <2>1, <2>2 DEF Sensible, Call
<1>8. CASE OthersChange
  <2>1. UNCHANGED <<local, list, outstanding, pc>> /\ disturbed'
    BY <1>8 DEF OthersChange, memory
  <2>2. InList'
    BY <1>6, <2>1 DEF InList, Linking, Unlinking, Given, Owned
  <2>3. DefinedUnlessDisturbed'
    BY <1>8 DEF OthersChange, DefinedUnlessDisturbed
  <2> QED BY <1>3, <1>7, <2>2, <2>3
<1>9. CASE ~OthersChange /\ pc.segment = 1 /\ pc.at = 1
  <2>1. Makes(Call("allocate", "pData", "none", "none", "fixed"))
    BY <1>5, <1>9 DEF Makes
  <2>2. Len(list) = pc.i /\ pc.i < Elements /\ outstanding = pc.i
    BY <1>2, <1>9 DEF Linking
  <2>3. pc' = At(1, 2, pc.i) /\ pc'.segment = 1 /\ pc'.at = 2 /\ pc'.i = pc.i
    BY <1>1, <1>2, <1>9, <2>1, Allocates, LinkListNext
  <2>4. DefinedUnlessDisturbed'
    BY <2>1, Allocates DEF DefinedUnlessDisturbed, Surely, Faulty
  <2>5. Linking'
    BY <2>1, <2>2, <2>3, Allocates DEF Linking, Given, Owned
  <2>6. local'["pData"] # "open"
    BY <2>1, Allocates
  <2>7. list' = list
    BY <2>1, Allocates
  <2> QED BY <1>3, <1>6, <1>7, <2>4, <2>5, <2>6, <2>7 DEF InList
<1>10. CASE ~OthersChange /\ pc.segment = 1 /\ pc.at = 2
  <2>1. Makes(Call("fill", "pData", "none", "none", "none"))
    BY <1>5, <1>10 DEF Makes
  <2>2. Len(list) = pc.i /\ pc.i < Elements /\ outstanding = pc.i + Owned("pData")
        /\ Given("pData")
    BY <1>2, <1>10 DEF Linking
  <2>3. DefinedUnlessDisturbed'
    BY <2>1, <2>2, Fills DEF DefinedUnlessDisturbed, Stops, Given, Faulty
  <2>4. Stops("pData") => Ended'
    BY <1>2, <2>2 DEF Stops, Ended, Owned
  <2>5. ~Stops("pData") => pc' = At(1, 3, pc.i) /\ pc'.segment = 1 /\ pc'.at = 3 /\ pc'.i = pc.i
    BY <1>1, <1>2, <1>10, <2>1, Fills, LinkListNext
  <2>6. ~Stops("pData") => Linking'
    BY <2>1, <2>2, <2>5, Fills DEF Linking, Given, Owned
  <2>7. ~Stops("pData") => local'["pData"] # "open" /\ list' = list
    BY <2>1, Fills
  <2> QED BY <1>3, <1>6, <1>7, <2>3, <2>4, <2>6, <2>7 DEF InList
<1>11. CASE ~OthersChange /\ pc.segment = 1 /\ pc.at = 3
  <2>1. Makes(Call("insert", "pData", "none", "none", "none"))
    BY <1>5, <1>11 DEF Makes
  <2>2. /\ Len(list) = pc.i /\ pc.i < Elements /\ local["pData"] = "filled"
        /\ outstanding = pc.i + 1
    BY <1>2, <1>11 DEF Linking, Owned
  <2>3. DefinedUnlessDisturbed'
    BY <2>1, Inserts DEF DefinedUnlessDisturbed
  <2>4. list' = Append(list, "filled") /\ local' = local /\ outstanding' = outstanding
    BY <2>1, <2>2, Inserts
  <2>5. Len(list') = pc.i + 1 /\ \A j \in 1..Len(list') : list'[j] = "filled"
    BY <1>6, <2>2, <2>4
  <2>6. list' # <<>>
    BY <2>2, <2>5
  <2>7. pc' = IF pc.i + 1 < Elements THEN At(1, 1, pc.i + 1) ELSE At(2, 1, 0)
    BY <1>2, <1>11, <2>1, <2>6, Inserts, LinkListNext
  <2>8. CASE pc.i + 1 < Elements
    <3>1. pc' = At(1, 1, pc.i + 1) /\ pc'.at = 1 /\ pc'.i = pc.i + 1
      BY <1>1, <2>7, <2>8
    <3>2. Linking'
      BY <2>2, <2>4, <2>5, <2>8, <3>1 DEF Linking
    <3> QED BY <1>3, <1>6, <1>7, <2>3, <2>4, <2>5, <3>2 DEF InList
  <2>9. CASE ~(pc.i + 1 < Elements)
    <3>1. pc' = At(2, 1, 0) /\ pc'.at = 1 /\ pc'.i = 0 /\ pc.i + 1 = Elements
      BY <1>1, <1>2, <2>7, <2>9
    <3>2. Unlinking'
      BY <2>2, <2>4, <2>5, <3>1 DEF Unlinking
    <3> QED BY <1>3, <1>6, <1>7, <2>3, <2>4, <2>5, <3>2 DEF InList
  <2> QED BY <2>8, <2>9
<1>12. CASE ~OthersChange /\ pc.segment = 2 /\ pc.at = 1
  <2>1. Makes(Call("remove", "pData", "none", "none", "none"))
    BY <1>5, <1>12 DEF Makes
  <2>2. Len(list) = Elements - pc.i /\ outstanding = Elements - pc.i
    BY <1>2, <1>12 DEF Unlinking
  <2>3. DefinedUnlessDisturbed'
    BY <2>1, Removes DEF DefinedUnlessDisturbed
  <2>4. /\ local' = [local EXCEPT !["pData"] = Head(list)] /\ list' = Tail(list)
        /\ outstanding' = outstanding
    BY <2>1, Removes
  <2>5. list # <<>>
    BY <1>2, <2>2
  <2>6. Head(list) = "filled"
    BY <1>6, <2>5
  <2>7. Len(list') = Elements - pc.i - 1 /\ \A j \in 1..Len(list') : list'[j] = "filled"
    BY <1>6, <2>2, <2>4, <2>5
  <2>8. pc' = At(2, 2, pc.i) /\ pc'.at = 2 /\ pc'.i = pc.i
    BY <1>1, <1>2, <1>12, <2>1, Removes, LinkListNext
  <2>9. local'["pData"] = "filled"
    BY <2>4, <2>6
  <2>10. Unlinking'
    BY <1>2, <2>2, <2>4, <2>7, <2>8, <2>9 DEF Unlinking
  <2> QED BY <1>3, <1>7, <2>3, <2>7, <2>9, <2>10 DEF InList
<1>13. CASE ~OthersChange /\ pc.segment = 2 /\ pc.at = 2
  <2>1. Makes(Call("use", "pData", "none", "none", "none"))
    BY <1>5, <1>13 DEF Makes
  <2>2. /\ Len(list) = Elements - pc.i - 1 /\ outstanding = Elements - pc.i
        /\ local["pData"] = "filled"
    BY <1>2, <1>13 DEF Unlinking
  <2>3. DefinedUnlessDisturbed'
    BY <2>1, <2>2, Uses DEF DefinedUnlessDisturbed, Stops
  <2>4. ~Stops("pData")
    BY <2>2 DEF Stops
  <2>5. local' = local /\ list' = list /\ outstanding' = outstanding
    BY <2>1, <2>4, Uses
  <2>6. pc' = At(2, 3, pc.i) /\ pc'.at = 3 /\ pc'.i = pc.i
    BY <1>1, <1>2, <1>13, <2>1, <2>4, Uses, LinkListNext
  <2>7. Unlinking'
    BY <1>2, <2>2, <2>5, <2>6 DEF Unlinking
  <2> QED BY <1>3, <1>6, <1>7, <2>3, <2>5, <2>7 DEF InList
<1>14. CASE ~OthersChange /\ pc.segment = 2 /\ pc.at = 3
  <2>1. Makes(Call("free", "pData", "none", "none", "none"))
    BY <1>5, <1>14 DEF Makes
  <2>2. /\ Len(list) = Elements - pc.i - 1 /\ outstanding = Elements - pc.i
        /\ local["pData"] = "filled"
    BY <1>2, <1>14 DEF Unlinking
  <2>3. DefinedUnlessDisturbed'
    BY <2>1, <2>2, Frees DEF DefinedUnlessDisturbed, Stops
  <2>4. ~Stops("pData")
    BY <2>2 DEF Stops
  <2>5. /\ local' = [local EXCEPT !["pData"] = "freed"] /\ list' = list
        /\ outstanding' = outstanding - 1
    BY <2>1, <2>2, <2>4, Frees
  <2>6. pc' = IF list # <<>> THEN At(2, 1, pc.i + 1) ELSE Returned
    BY <1>2, <1>14, <2>1, <2>4, <2>5, Frees, LinkListNext
  <2>7. CASE list # <<>>
    <3>1. pc' = At(2, 1, pc.i + 1) /\ pc'.at = 1 /\ pc'.i = pc.i + 1
      BY <1>1, <2>6, <2>7
    <3>2. Len(list) # 0
      BY <2>7
    <3>3. pc.i + 1 \in 0..Elements - 1
      BY <1>2, <2>2, <3>2
    <3>4. Len(list') = Elements - (pc.i + 1) /\ outstanding' = Elements - (pc.i + 1)
      BY <1>2, <2>2, <2>5
    <3>5. Unlinking'
      BY <3>1, <3>3, <3>4 DEF Unlinking
    <3>6. local'["pData"] # "open"
      BY <2>5
    <3> QED BY <1>3, <1>6, <1>7, <2>3, <2>5, <3>5, <3>6 DEF InList
  <2>8. CASE list = <<>>
    <3>1. outstanding' = 0
      BY <1>2, <2>2, <2>5, <2>8
    <3>2. \A v \in DOMAIN local' : local'[v] # "open"
      BY <2>5
    <3> QED BY <1>3, <1>7, <2>3, <2>6, <2>8, <3>1, <3>2 DEF Ended
  <2> QED BY <2>7, <2>8
<1> QED BY <1>4, <1>8, <1>9, <1>10, <1>11, <1>12, <1>13, <1>14

LEMMA LookasideStep ==
    ASSUME Typed, test = "LookasideTest", InArray, Next, DefinedUnlessDisturbed
    PROVE  Placed /\ Sensible /\ (Ended \/ InArray)' /\ DefinedUnlessDisturbed'
<1> /\ local \in [{"MyObject"} -> Values] /\ outstanding \in Int /\ list \in Seq(Blocks)
    /\ Elements \in Nat \ {0}
  BY LookasideTable, ExercisesAssumption DEF Typed
<1>1. \A s, k, i : At(s, k, i).segment = s /\ At(s, k, i).at = k /\ At(s, k, i).i = i
  BY DEF At
<1>2. /\ pc.segment = 1 => Storing
      /\ pc.segment = 2 => Taking
      /\ pc.segment \in {1, 2} /\ pc.at \in {1, 2} /\ pc = At(pc.segment, pc.at, pc.i)
      /\ pc.i \in 0..Elements - 1
  <2>1. ASSUME Storing
        PROVE  pc.segment = 1 /\ pc.at \in {1, 2} /\ pc = At(1, pc.at, pc.i)
        /\ pc.i \in 0..Elements - 1
    <3>1. pc = At(1, pc.at, pc.i) /\ pc.at \in {1, 2} /\ Len(list) = pc.i /\ pc.i < Elements
      BY <2>1 DEF Storing
    <3>2. pc.segment = 1
      BY <1>1, <3>1
    <3>3. pc.i \in 0..Elements - 1
      BY <3>1
    <3> QED BY <3>1, <3>2, <3>3
  <2>2. ASSUME Taking
        PROVE  pc.segment = 2 /\ pc.at \in {1, 2} /\ pc = At(2, pc.at, pc.i)
        /\ pc.i \in 0..Elements - 1
    <3>1. pc = At(2, pc.at, pc.i) /\ pc.at \in {1, 2} /\ pc.i \in 0..Elements - 1
      BY <2>2 DEF Taking
    <3>2. pc.segment = 2
      BY <1>1, <3>1
    <3> QED BY <3>1, <3>2
  <2> QED BY <2>1, <2>2 DEF InArray
<1>3. Placed
  <2>1. pc.segment \in 1..2 /\ pc.at \in 1..2 /\ pc.i \in Nat
    BY <1>2
  <2> QED BY <1>2, <2>1, LookasideTable DEF Placed
<1>4. \/ pc.segment = 1 /\ pc.at = 1
      \/ pc.segment = 1 /\ pc.at = 2
      \/ pc.segment = 2 /\ pc.at = 1
      \/ pc.segment = 2 /\ pc.at = 2
  BY <1>2
<1>5. /\ pc.segment = 1 /\ pc.at = 1 => This = Call("allocate", "MyObject", "none", "none", "fixed")
      /\ pc.segment = 1 /\ pc.at = 2 => This = Call("insert", "MyObject", "none", "none", "none")
      /\ pc.segment = 2 /\ pc.at = 1 => This = Call("remove", "MyObject", "none", "none", "none")
      /\ pc.segment = 2 /\ pc.at = 2 => This = Call("free", "MyObject", "none", "none", "none")
  BY LookasideTable DEF This
<1>6. /\ local["MyObject"] # "open"
      /\ \A j \in 1..Len(list) : list[j] \in {"raw", "NULL"} /\ (~disturbed => list[j] = "raw")
  BY DEF InArray
<1>7. Sensible
  <2>1. CASE pc.segment = 1 /\ pc.at = 2
    <3>1. local["MyObject"] \in {"raw", "NULL"} /\ Len(list) < Elements
      BY <1>2, <2>1 DEF Storing, Given
    <3> QED BY <1>5, <2>1, <3>1 DEF Sensible, Call, Blocks
  <2>2. CASE pc.segment = 2 /\ pc.at = 1
    <3>1. Len(list) = Elements - pc.i
      BY <1>2, <2>2 DEF Taking
    <3>2. list # <<>>
      BY <1>2, <3>1
    <3> QED BY <1>5, <2>2, <3>2 DEF Sensible, Call
  <2> QED BY <1>4, <1>5, <2>1, <2>2 DEF Sensible, Call
<1>8. CASE OthersChange
  <2>1. UNCHANGED <<local, list, outstanding, pc>> /\ disturbed'
    BY <1>8 DEF OthersChange, memory
  <2>2. InArray'
    BY <1>6, <2>1 DEF InArray, Storing, Taking, Given, Backed
  <2>3. DefinedUnlessDisturbed'
    BY <1>8 DEF OthersChange, DefinedUnlessDisturbed
  <2> QED BY <1>3, <1>7, <2>2, <2>3
<1>9. CASE ~OthersChange /\ pc.segment = 1 /\ pc.at = 1
  <2>1. Makes(Call("allocate", "MyObject", "none", "none", "fixed"))
    BY <1>5, <1>9 DEF Makes
  <2>2. Len(list) = pc.i /\ pc.i < Elements /\ outstanding \in 0..pc.i /\ Backed(0)
    BY <1>2, <1>9 DEF Storing
  <2>3. pc' = At(1, 2, pc.i) /\ pc'.segment = 1 /\ pc'.at = 2 /\ pc'.i = pc.i
    BY <1>1, <1>2, <1>9, <2>1, Allocates, LookasideNext
  <2>4. DefinedUnlessDisturbed'
    BY <2>1, Allocates DEF DefinedUnlessDisturbed, Surely, Faulty
  <2>5. /\ local'["MyObject"] = "raw" => outstanding' = outstanding + 1
        /\ local'["MyObject"] # "raw" => outstanding' = outstanding
        /\ list' = list
    BY <2>1, Allocates
  <2>6. /\ Backed(0)'
        /\ local'["MyObject"] = "raw" => Backed(1)'
    <3> SUFFICES ASSUME NEW k \in 0..Len(list), \A j \in 1..k : list[j] = "raw"
                 PROVE  /\ outstanding' >= k + 0
                        /\ local'["MyObject"] = "raw" => outstanding' >= k + 1
      BY <2>5 DEF Backed
    <3>1. outstanding >= k + 0
      BY <2>2 DEF Backed
    <3> QED BY <2>5, <3>1
  <2>7. Given("MyObject")' /\ local'["MyObject"] # "open"
    BY <2>1, Allocates DEF Given
  <2>8. outstanding' \in 0..pc.i + 2 - 1
    <3>1. outstanding' = outstanding \/ outstanding' = outstanding + 1
      BY <2>5
    <3> QED BY <1>2, <2>2, <3>1
  <2>9. Storing'
    BY <2>2, <2>3, <2>5, <2>6, <2>7, <2>8 DEF Storing
  <2>10. Surely
    BY <2>1, Allocates
  <2> QED BY <1>3, <1>6, <1>7, <2>4, <2>5, <2>7, <2>9, <2>10 DEF InArray, Surely
<1>10. CASE ~OthersChange /\ pc.segment = 1 /\ pc.at = 2
  <2>1. Makes(Call("insert", "MyObject", "none", "none", "none"))
    BY <1>5, <1>10 DEF Makes
  <2>2. /\ Len(list) = pc.i /\ pc.i < Elements /\ outstanding \in 0..pc.i + 1
        /\ Backed(0) /\ Given("MyObject")
        /\ local["MyObject"] = "raw" => Backed(1)
    BY <1>2, <1>10 DEF Storing
  <2>3. DefinedUnlessDisturbed'
    BY <2>1, Inserts DEF DefinedUnlessDisturbed
  <2>4. /\ list' = Append(list, local["MyObject"]) /\ local' = local
        /\ outstanding' = outstanding /\ disturbed' = disturbed
    BY <2>1, Inserts
  <2>5. /\ Len(list') = pc.i + 1
        /\ \A j \in 1..Len(list) : list'[j] = list[j]
        /\ list'[pc.i + 1] = local["MyObject"]
    BY <2>2, <2>4 DEF Given, Blocks
  <2>6. \A j \in 1..Len(list') : list'[j] \in {"raw", "NULL"} /\ (~disturbed' => list'[j] = "raw")
    <3> SUFFICES ASSUME NEW j \in 1..pc.i + 1
                 PROVE  list'[j] \in {"raw", "NULL"} /\ (~disturbed' => list'[j] = "raw")
      BY <2>5
    <3>1. j \in 1..Len(list) \/ j = pc.i + 1
      BY <1>2, <2>2
    <3> QED BY <1>6, <2>2, <2>4, <2>5, <3>1 DEF Given
  <2>7. Backed(0)'
    <3> SUFFICES ASSUME NEW k \in 0..pc.i + 1, \A j \in 1..k : list'[j] = "raw"
                 PROVE  outstanding >= k
      BY <1>2, <2>4, <2>5 DEF Backed
    <3>1. ASSUME NEW m \in 0..pc.i, \A j \in 1..m : list'[j] = "raw"
          PROVE  /\ outstanding >= m + 0
                 /\ local["MyObject"] = "raw" => outstanding >= m + 1
      <4>1. \A j \in 1..m : j \in 1..Len(list)
        BY <1>2, <2>2
      <4>2. \A j \in 1..m : list[j] = "raw"
        BY <2>5, <3>1, <4>1
      <4> QED BY <2>2, <4>2 DEF Backed
    <3>2. CASE k \in 0..pc.i
      <4>1. outstanding >= k + 0
        BY <3>1, <3>2
      <4> QED BY <1>2, <4>1
    <3>3. CASE k = pc.i + 1
      <4>1. pc.i \in 0..pc.i /\ \A j \in 1..pc.i : list'[j] = "raw"
        BY <1>2, <3>3
      <4>2. local["MyObject"] = "raw"
        BY <1>2, <2>5, <3>3
      <4>3. outstanding >= pc.i + 1
        BY <3>1, <4>1, <4>2
      <4> QED BY <3>3, <4>3
    <3> QED BY <1>2, <3>2, <3>3
  <2>8. pc' = IF pc.i + 1 < Elements THEN At(1, 1, pc.i + 1) ELSE At(2, 1, 0)
    BY <1>2, <1>10, <2>1, Inserts, LookasideNext
  <2>9. CASE pc.i + 1 < Elements
    <3>1. pc' = At(1, 1, pc.i + 1) /\ pc'.at = 1 /\ pc'.i = pc.i + 1
      BY <1>1, <2>8, <2>9
    <3>2. Storing'
      BY <2>2, <2>4, <2>5, <2>7, <2>9, <3>1 DEF Storing
    <3> QED BY <1>3, <1>6, <1>7, <2>3, <2>4, <2>6, <3>2 DEF InArray
  <2>10. CASE ~(pc.i + 1 < Elements)
    <3>1. pc' = At(2, 1, 0) /\ pc'.at = 1 /\ pc'.i = 0 /\ pc.i + 1 = Elements
      BY <1>1, <1>2, <2>8, <2>10
    <3>2. Taking'
      BY <2>2, <2>4, <2>5, <2>7, <3>1 DEF Taking
    <3> QED BY <1>3, <1>6, <1>7, <2>3, <2>4, <2>6, <3>2 DEF InArray
  <2> QED BY <2>9, <2>10
<1>11. CASE ~OthersChange /\ pc.segment = 2 /\ pc.at = 1
  <2>1. Makes(Call("remove", "MyObject", "none", "none", "none"))
    BY <1>5, <1>11 DEF Makes
  <2>2. Len(list) = Elements - pc.i /\ outstanding \in 0..Elements - pc.i /\ Backed(0)
    BY <1>2, <1>11 DEF Taking
  <2>3. DefinedUnlessDisturbed'
    BY <2>1, Removes DEF DefinedUnlessDisturbed
  <2>4. /\ local' = [local EXCEPT !["MyObject"] = Head(list)] /\ list' = Tail(list)
        /\ outstanding' = outstanding /\ disturbed' = disturbed
    BY <2>1, Removes
  <2>5. list # <<>>
    BY <1>2, <2>2
  <2>6. Head(list) = list[1] /\ 1 \in 1..Len(list)
    BY <2>5
  <2>7. /\ Len(list') = Elements - pc.i - 1
        /\ \A j \in 1..Len(list') : list'[j] = list[j + 1] /\ j + 1 \in 1..Len(list)
    BY <1>2, <2>2, <2>4, <2>5
  <2>8. \A j \in 1..Len(list') : list'[j] \in {"raw", "NULL"} /\ (~disturbed' => list'[j] = "raw")
    BY <1>6, <2>4, <2>7
  <2>9. Given("MyObject")' /\ local'["MyObject"] # "open"
    BY <1>6, <2>4, <2>6 DEF Given
  <2>10. local'["MyObject"] = "raw" => Backed(1)'
    <3> SUFFICES ASSUME list[1] = "raw", NEW k \in 0..Len(list'), \A j \in 1..k : list'[j] = "raw"
                 PROVE  outstanding >= k + 1
      BY <2>4, <2>6 DEF Backed
    <3>1. k + 1 \in 0..Len(list)
      BY <1>2, <2>2, <2>7
    <3>2. \A j \in 1..k + 1 : list[j] = "raw"
      <4> SUFFICES ASSUME NEW j \in 1..k + 1, j # 1
                   PROVE  list[j] = "raw"
        OBVIOUS
      <4>1. j - 1 \in 1..k /\ j - 1 \in 1..Len(list')
        BY <1>2, <2>2, <2>7
      <4>2. list'[j - 1] = list[(j - 1) + 1] /\ (j - 1) + 1 = j
        BY <2>7, <4>1
      <4> QED BY <4>1, <4>2
    <3>3. outstanding >= (k + 1) + 0
      BY <2>2, <3>1, <3>2 DEF Backed
    <3> QED BY <3>1, <3>3
  <2>11. pc' = At(2, 2, pc.i) /\ pc'.at = 2 /\ pc'.i = pc.i
    BY <1>1, <1>2, <1>11, <2>1, Removes, LookasideNext
  <2>12. Taking'
    BY <1>2, <2>2, <2>4, <2>7, <2>9, <2>10, <2>11 DEF Taking
  <2> QED BY <1>3, <1>7, <2>3, <2>8, <2>9, <2>12 DEF InArray
<1>12. CASE ~OthersChange /\ pc.segment = 2 /\ pc.at = 2
  <2>1. Makes(Call("free", "MyObject", "none", "none", "none"))
    BY <1>5, <1>12 DEF Makes
  <2>2. /\ Len(list) = Elements - pc.i - 1 /\ outstanding \in 0..Elements - pc.i
        /\ Given("MyObject") /\ (local["MyObject"] = "raw" => Backed(1))
    BY <1>2, <1>12 DEF Taking
  <2>3. DefinedUnlessDisturbed'
    BY <2>1, <2>2, Frees DEF DefinedUnlessDisturbed, Stops, Given, Faulty
  <2>4. Stops("MyObject") => Ended'
    BY <1>2, <2>2 DEF Stops, Ended
  <2>5. CASE ~Stops("MyObject")
    <3>1. local["MyObject"] = "raw" /\ Backed(1)
      BY <2>1, <2>2, <2>5, Frees DEF Given
    <3>2. /\ local' = [local EXCEPT !["MyObject"] = "freed"] /\ list' = list
          /\ outstanding' = outstanding - 1 /\ disturbed' = disturbed
      BY <2>1, <2>5, <3>1, Frees
    <3>3. outstanding >= 1 /\ Backed(0)'
      <4>1. \A k \in 0..Len(list) : (\A j \in 1..k : list[j] = "raw") => outstanding >= k + 1
        BY <3>1 DEF Backed
      <4>2. outstanding >= 0 + 1
        <5>1. 0 \in 0..Len(list) /\ \A j \in 1..0 : list[j] = "raw"
          BY <2>2
        <5> QED BY <4>1, <5>1
      <4>3. \A k \in 0..Len(list) : (\A j \in 1..k : list[j] = "raw") => outstanding - 1 >= k + 0
        BY <4>1
      <4> QED BY <3>2, <4>2, <4>3 DEF Backed
    <3>4. pc' = IF pc.i + 1 < Elements THEN At(2, 1, pc.i + 1) ELSE Returned
      BY <1>2, <1>12, <2>1, <2>5, Frees, LookasideNext
    <3>5. CASE pc.i + 1 < Elements
      <4>1. pc' = At(2, 1, pc.i + 1) /\ pc'.at = 1 /\ pc'.i = pc.i + 1
        BY <1>1, <3>4, <3>5
      <4>2. /\ pc.i + 1 \in 0..Elements - 1 /\ Len(list') = Elements - (pc.i + 1)
            /\ outstanding' \in 0..Elements - (pc.i + 1)
        BY <1>2, <2>2, <3>2, <3>3, <3>5
      <4>3. Taking'
        BY <3>3, <4>1, <4>2 DEF Taking
      <4>4. local'["MyObject"] # "open"
        BY <3>2
      <4> QED BY <1>3, <1>6, <1>7, <2>3, <3>2, <4>3, <4>4 DEF InArray
    <3>6. CASE ~(pc.i + 1 < Elements)
      <4>1. outstanding' = 0
        BY <1>2, <2>2, <3>2, <3>3, <3>6
      <4>2. \A v \in DOMAIN local' : local'[v] # "open"
        BY <3>2
      <4> QED BY <1>3, <1>7, <2>3, <3>4, <3>6, <4>1, <4>2 DEF Ended
    <3> QED BY <3>5, <3>6
  <2> QED BY <1>3, <1>7, <2>3, <2>4, <2>5
<1> QED BY <1>4, <1>8, <1>9, <1>10, <1>11, <1>12

-----------------------------------------------------------------------------
(* All the exercises.                                                      *)

LEMMA Exercise ==
    ASSUME test \in DOMAIN DriverEntry
    PROVE  test \in OneRegHandle \cup OneFileHandle
                    \cup {"CreateRegTest", "QueryRegTest", "EnumerateSubItemRegTest",
                          "EnumerateSubValueRegTest", "RtlRegTest", "WriteFileTest",
                          "ReadFileTest", "StringInitTest", "StringCopyTest",
                          "StringToIntegerTest", "StringCompareTest", "StringConverTest",
                          "LinkListTest", "LookasideTest"}
BY Entries DEF OneRegHandle, OneFileHandle

\* What an assertion says of where control is, and of what is outstanding.
Located ==
    /\ Placed /\ Running /\ pc = At(pc.segment, pc.at, pc.i)
    /\ Len(DriverEntry[test]) \in 1..3 /\ pc.segment \in 1..3 /\ pc.at \in Nat
    /\ pc.i \in 0..MaxEntries + Elements /\ outstanding \in 0..Elements + 2

LEMMA LocatedStraight ==
    ASSUME Straight, DriverEntry[test] = <<Once(Body(test))>>,
           DOMAIN Body(test) = 1..Len(Body(test)), outstanding \in {0, 1, 2}
    PROVE  Located
<1>1. pc.segment = 1 /\ pc.i = 0 /\ pc.at \in 1..Len(Body(test))
  BY AtStraight DEF Straight
<1>2. Placed
  BY <1>1 DEF Placed, Once
<1>3. Running
  BY <1>1 DEF Running, Returned, Stopped
<1>4. /\ pc = At(pc.segment, pc.at, pc.i) /\ pc.at \in Nat
      /\ Len(DriverEntry[test]) \in 1..3 /\ pc.segment \in 1..3
  BY <1>1 DEF Straight
<1>5. 0 \in 0..MaxEntries + Elements /\ outstanding \in 0..Elements + 2
  BY ExercisesAssumption
<1> QED BY <1>1, <1>2, <1>3, <1>4, <1>5 DEF Located

LEMMA AssertedLocated ==
    ASSUME Typed, Asserted
    PROVE  Located
<1>1. ASSUME NEW h, h # "none", OneHandle(h), Brackets(h)
      PROVE  Located
  BY <1>1, LocatedStraight DEF OneHandle, Brackets
<1>2. CASE test \in OneRegHandle
  BY <1>1, <1>2, RegHandleTable DEF Asserted
<1>3. CASE test \in OneFileHandle
  BY <1>1, <1>3, FileHandleTable DEF Asserted
<1>4. ASSUME NEW pbi \in {"pbi", "pvbi"}, DriverEntry[test] = EnumerateKey(pbi), Enumerating(pbi)
      PROVE  Located
  <2>1. n \in 0..MaxEntries /\ pc = At(pc.segment, pc.at, pc.i)
    BY <1>4 DEF Typed, Enumerating
  <2>2. Owned("pfi") \in {0, 1} /\ Owned(pbi) \in {0, 1}
        /\ outstanding = Owned("pfi") + Owned(pbi)
    BY <1>4 DEF Enumerating, Owned
  <2>3. outstanding \in 0..Elements + 2
    BY <2>2, ExercisesAssumption
  <2>4. CASE Describing
    <3>1. pc.segment = 1 /\ pc.at \in 1..5 /\ pc.i = 0
      BY <2>4 DEF Describing
    <3> QED BY <1>4, <2>1, <2>3, <3>1, EnumerateTable, ExercisesAssumption
            DEF Located, Placed, Running, Returned, Stopped
  <2>5. CASE Listing(pbi)
    <3>1. pc.segment = 2 /\ pc.at \in 1..5 /\ pc.i \in 0..n - 1
      BY <2>5 DEF Listing
    <3>2. pc.i \in 0..MaxEntries + Elements /\ pc.i \in Nat
      BY <2>1, <3>1, ExercisesAssumption
    <3> QED BY <1>4, <2>1, <2>3, <3>1, <3>2, EnumerateTable DEF Located, Placed, Running,
               Returned, Stopped
  <2>6. CASE pc = At(3, pc.at, 0) /\ pc.at \in {1, 2}
    <3>1. \A k : At(3, k, 0).segment = 3 /\ At(3, k, 0).i = 0
      BY DEF At
    <3>2. pc.segment = 3 /\ pc.i = 0 /\ pc.at \in 1..2
      BY <2>6, <3>1
    <3> QED BY <1>4, <2>1, <2>3, <3>2, EnumerateTable, ExercisesAssumption
            DEF Located, Placed, Running, Returned, Stopped
  <2> QED BY <1>4, <2>4, <2>5, <2>6 DEF Enumerating
<1>5. CASE test = "EnumerateSubItemRegTest"
  BY <1>4, <1>5, Entries DEF Asserted
<1>6. CASE test = "EnumerateSubValueRegTest"
  BY <1>4, <1>6, Entries DEF Asserted
<1>7. CASE test = "LinkListTest"
  <2>1. Linking \/ Unlinking
    BY <1>7 DEF Asserted, InList
  <2>2. Len(list) \in Nat /\ Elements \in Nat /\ MaxEntries \in Nat /\ Owned("pData") \in {0, 1}
    BY ExercisesAssumption DEF Typed, Owned
  <2>3. \A s, k, i : At(s, k, i).segment = s
    BY DEF At
  <2>4. CASE Linking
    <3>1. pc.segment = 1 /\ pc.at \in 1..3 /\ pc = At(pc.segment, pc.at, pc.i)
      BY <2>3, <2>4 DEF Linking
    <3>2. Len(list) = pc.i /\ pc.i < Elements
          /\ outstanding = pc.i + IF pc.at = 1 THEN 0 ELSE Owned("pData")
      BY <2>4 DEF Linking
    <3>3. pc.i \in 0..MaxEntries + Elements /\ outstanding \in 0..Elements + 2 /\ pc.i \in Nat
      BY <2>2, <3>2
    <3> QED BY <1>7, <3>1, <3>3, LinkListTable DEF Located, Placed, Running, Returned, Stopped
  <2>5. CASE Unlinking
    <3>1. pc.segment = 2 /\ pc.at \in 1..3 /\ pc = At(pc.segment, pc.at, pc.i)
      BY <2>3, <2>5 DEF Unlinking
    <3>2. pc.i \in 0..Elements - 1 /\ outstanding = Elements - pc.i
      BY <2>5 DEF Unlinking
    <3>3. pc.i \in 0..MaxEntries + Elements /\ outstanding \in 0..Elements + 2 /\ pc.i \in Nat
      BY <2>2, <3>2
    <3> QED BY <1>7, <3>1, <3>3, LinkListTable DEF Located, Placed, Running, Returned, Stopped
  <2> QED BY <2>1, <2>4, <2>5
<1>8. CASE test = "LookasideTest"
  <2>1. Storing \/ Taking
    BY <1>8 DEF Asserted, InArray
  <2>2. Len(list) \in Nat /\ Elements \in Nat /\ MaxEntries \in Nat
    BY ExercisesAssumption DEF Typed
  <2>3. \A s, k, i : At(s, k, i).segment = s
    BY DEF At
  <2>4. CASE Storing
    <3>1. pc.segment = 1 /\ pc.at \in 1..2 /\ pc = At(pc.segment, pc.at, pc.i)
      BY <2>3, <2>4 DEF Storing
    <3>2. Len(list) = pc.i /\ pc.i < Elements /\ outstanding \in 0..pc.i + pc.at - 1
      BY <2>4 DEF Storing
    <3>3. pc.i \in 0..MaxEntries + Elements /\ outstanding \in 0..Elements + 2 /\ pc.i \in Nat
      BY <2>2, <3>1, <3>2
    <3> QED BY <1>8, <3>1, <3>3, LookasideTable DEF Located, Placed, Running, Returned, Stopped
  <2>5. CASE Taking
    <3>1. pc.segment = 2 /\ pc.at \in 1..2 /\ pc = At(pc.segment, pc.at, pc.i)
      BY <2>3, <2>5 DEF Taking
    <3>2. pc.i \in 0..Elements - 1 /\ outstanding \in 0..Elements - pc.i
      BY <2>5 DEF Taking
    <3>3. pc.i \in 0..MaxEntries + Elements /\ outstanding \in 0..Elements + 2 /\ pc.i \in Nat
      BY <2>2, <3>2
    <3> QED BY <1>8, <3>1, <3>3, LookasideTable DEF Located, Placed, Running, Returned, Stopped
  <2> QED BY <2>1, <2>4, <2>5
<1>9. CASE test = "CreateRegTest"
  <2>1. Creating
    BY <1>9 DEF Asserted
  <2>2. Straight /\ outstanding \in {0, 1, 2}
    BY <2>1 DEF Creating
  <2> QED BY <1>9, <2>2, CreateRegTestTable, LocatedStraight
<1>10. CASE test = "QueryRegTest"
  <2>1. Querying
    BY <1>10 DEF Asserted
  <2>2. Straight /\ outstanding \in {0, 1, 2}
    BY <2>1 DEF Querying, Owned
  <2> QED BY <1>10, <2>2, QueryRegTestTable, LocatedStraight
<1>11. CASE test = "RtlRegTest"
  <2>1. Rtl
    BY <1>11 DEF Asserted
  <2>2. Straight /\ outstanding \in {0, 1, 2}
    BY <2>1 DEF Rtl
  <2> QED BY <1>11, <2>2, RtlRegTestTable, LocatedStraight
<1>12. CASE test = "WriteFileTest"
  <2>1. Writing
    BY <1>12 DEF Asserted
  <2>2. Straight /\ outstanding \in {0, 1, 2}
    BY <2>1 DEF Writing, Owned
  <2> QED BY <1>12, <2>2, WriteFileTestTable, LocatedStraight
<1>13. CASE test = "ReadFileTest"
  <2>1. Reading
    BY <1>13 DEF Asserted
  <2>2. Straight /\ outstanding \in {0, 1, 2}
    BY <2>1 DEF Reading, Blocks, Owned
  <2> QED BY <1>13, <2>2, ReadFileTestTable, LocatedStraight
<1>14. CASE test = "StringInitTest"
  <2>1. InitString
    BY <1>14 DEF Asserted
  <2>2. Straight /\ outstanding \in {0, 1, 2}
    BY <2>1 DEF InitString, Owned
  <2> QED BY <1>14, <2>2, StringInitTestTable, LocatedStraight
<1>15. CASE test = "StringCopyTest"
  <2>1. OneString("UnicodeString2")
    BY <1>15 DEF Asserted
  <2>2. Straight /\ outstanding \in {0, 1, 2}
    BY <2>1 DEF OneString, Owned
  <2> QED BY <1>15, <2>2, StringCopyTestTable, LocatedStraight
<1>16. CASE test = "StringToIntegerTest"
  <2>1. OneString("Unicodestring2")
    BY <1>16 DEF Asserted
  <2>2. Straight /\ outstanding \in {0, 1, 2}
    BY <2>1 DEF OneString, Owned
  <2> QED BY <1>16, <2>2, StringToIntegerTestTable, LocatedStraight
<1>17. CASE test = "StringCompareTest"
  <2>1. Comparing
    BY <1>17 DEF Asserted
  <2>2. Straight /\ outstanding \in {0, 1, 2}
    BY <2>1 DEF Comparing
  <2> QED BY <1>17, <2>2, StringCompareTestTable, LocatedStraight
<1>18. CASE test = "StringConverTest"
  <2>1. Converting
    BY <1>18 DEF Asserted
  <2>2. Straight /\ outstanding \in {0, 1, 2}
    BY <2>1 DEF Converting, Owned
  <2> QED BY <1>18, <2>2, StringConverTestTable, LocatedStraight
<1> QED BY <1>2, <1>3, <1>5, <1>6, <1>7, <1>8, <1>9, <1>10, <1>11, <1>12, <1>13, <1>14, <1>15,
           <1>16, <1>17, <1>18, Exercise DEF Typed

LEMMA InitialTypes ==
    ASSUME Init
    PROVE  Typed /\ DefinedUnlessDisturbed /\ (test = "RtlRegTest" => undefined = {})
<1>1. local \in [Locals(test) -> Values]
  BY DEF Init, Values
<1>2. list \in Seq(Blocks) /\ Len(list) <= Elements /\ outstanding \in Int
  BY ExercisesAssumption DEF Init
<1>3. size \in 0..MaxSize \cup {Garbage} /\ n \in 0..MaxEntries
  BY ExercisesAssumption DEF Init
<1>4. entries \in SeqOf(1..MaxSize, MaxEntries)
  <2>1. 0 \in 0..MaxEntries /\ <<>> \in [1..0 -> 1..MaxSize]
    BY ExercisesAssumption
  <2>2. <<>> \in SeqOf(1..MaxSize, MaxEntries)
    BY <2>1 DEF SeqOf
  <2> QED BY <2>2 DEF Init
<1> QED BY <1>1, <1>2, <1>3, <1>4 DEF Init, Typed, Kinds, DefinedUnlessDisturbed

LEMMA InitialAssertion ==
    ASSUME Init
    PROVE  Asserted
<1>1. \A v \in Locals(test) : local[v] = "garbage"
  BY DEF Init
<1>2. pc = At(1, 1, 0) /\ pc.segment = 1 /\ pc.at = 1 /\ pc.i = 0
  BY DEF Init, At
<1>3. outstanding = 0 /\ list = <<>> /\ Len(list) = 0 /\ ~disturbed /\ Elements \in Nat \ {0}
  BY ExercisesAssumption DEF Init
<1>4. ASSUME NEW h, h # "none", Brackets(h)
      PROVE  OneHandle(h)
  <2>1. local[h] = "garbage" /\ pc.at \in 1..Len(Body(test))
    BY <1>1, <1>2, <1>4, BracketsLocals DEF Brackets
  <2> QED BY <1>2, <1>3, <2>1 DEF OneHandle, Straight, Handled
<1>5. test \in OneRegHandle => OneHandle("hRegister")
  BY <1>4, RegHandleTable
<1>6. test \in OneFileHandle => OneHandle("hfile")
  BY <1>4, FileHandleTable
<1>7. ASSUME NEW pbi \in {"pbi", "pvbi"}, DriverEntry[test] = EnumerateKey(pbi)
      PROVE  Enumerating(pbi)
  <2>1. local["hRegister"] = "garbage" /\ local["pfi"] = "garbage" /\ local[pbi] = "garbage"
    BY <1>1, <1>7, EnumerateTable
  <2>2. Describing
    BY <1>2, <2>1 DEF Describing
  <2> QED BY <1>2, <1>3, <2>1, <2>2 DEF Enumerating, Handled, Owned
<1>8. test = "LinkListTest" => InList
  <2> SUFFICES ASSUME test = "LinkListTest"
               PROVE  InList
    OBVIOUS
  <2>1. local["pData"] = "garbage"
    BY <1>1, LinkListTable
  <2>2. Linking
    BY <1>2, <1>3 DEF Linking
  <2> QED BY <1>3, <2>1, <2>2 DEF InList
<1>9. test = "LookasideTest" => InArray
  <2> SUFFICES ASSUME test = "LookasideTest"
               PROVE  InArray
    OBVIOUS
  <2>1. local["MyObject"] = "garbage"
    BY <1>1, LookasideTable
  <2>2. Backed(0)
    BY <1>3 DEF Backed
  <2>3. Storing
    BY <1>2, <1>3, <2>2 DEF Storing
  <2> QED BY <1>3, <2>1, <2>3 DEF InArray
<1>10. test = "CreateRegTest" => Creating
  BY <1>1, <1>2, <1>3, CreateRegTestTable DEF Creating, Straight, Handled, Owned
<1>11. test = "QueryRegTest" => Querying
  BY <1>1, <1>2, <1>3, QueryRegTestTable DEF Querying, Straight, Handled, Owned
<1>12. test = "RtlRegTest" => Rtl
  BY <1>1, <1>2, <1>3, RtlRegTestTable DEF Rtl, Straight, Handled, Owned
<1>13. test = "WriteFileTest" => Writing
  BY <1>1, <1>2, <1>3, WriteFileTestTable DEF Writing, Straight, Handled, Owned
<1>14. test = "ReadFileTest" => Reading
  BY <1>1, <1>2, <1>3, ReadFileTestTable DEF Reading, Blocks, Straight, Handled, Owned
<1>15. test = "StringInitTest" => InitString
  BY <1>1, <1>2, <1>3, StringInitTestTable DEF InitString, Straight, Handled, Owned
<1>16. test = "StringCopyTest" => OneString("UnicodeString2")
  BY <1>1, <1>2, <1>3, StringCopyTestTable DEF OneString, Straight, Handled, Owned
<1>17. test = "StringToIntegerTest" => OneString("Unicodestring2")
  BY <1>1, <1>2, <1>3, StringToIntegerTestTable DEF OneString, Straight, Handled, Owned
<1>18. test = "StringCompareTest" => Comparing
  BY <1>1, <1>2, <1>3, StringCompareTestTable DEF Comparing, Straight, Handled, Owned
<1>19. test = "StringConverTest" => Converting
  BY <1>1, <1>2, <1>3, StringConverTestTable DEF Converting, Straight, Handled, Owned
<1>20. /\ test = "EnumerateSubItemRegTest" => Enumerating("pbi")
       /\ test = "EnumerateSubValueRegTest" => Enumerating("pvbi")
  BY <1>7, Entries
<1> QED BY <1>5, <1>6, <1>8, <1>9, <1>10, <1>11, <1>12, <1>13, <1>14, <1>15, <1>16, <1>17,
   <1>18, <1>19,
           <1>20 DEF Asserted

\* What a step keeps: the assertion of the exercise, or that it has ended.
Kept ==
    /\ Placed /\ Sensible /\ (Ended \/ Asserted)' /\ DefinedUnlessDisturbed'
    /\ test = "RtlRegTest" => undefined' = {}

LEMMA NextRuns ==
    ASSUME Next
    PROVE  Running /\ test' = test
BY DEF Next, Doing, OpenHandle, AskSize, AllocateBlock, AskData, FillBlock, UseBlock, FreeBlock,
   UseNull,
   CloseHandle, ChangeObject, ConvertString, OverwriteLiteral, InsertBlock, RemoveBlock,
   OthersChange

LEMMA NextKeeps ==
    ASSUME ExerciseInv, Next
    PROVE  Kept
<1>1. Typed /\ DefinedUnlessDisturbed /\ Running /\ test' = test
  BY NextRuns DEF ExerciseInv
<1>2. ~Ended
  BY <1>1 DEF Ended, Running
<1>3. Asserted
  BY <1>2 DEF ExerciseInv
<1>4. CASE test \in OneRegHandle
  <2>1. OneHandle("hRegister") /\ Brackets("hRegister")
    BY <1>3, <1>4, RegHandleTable DEF Asserted
  <2>2. test \notin {"QueryRegTest", "RtlRegTest"} /\ "hRegister" # "none"
    BY <1>4 DEF OneRegHandle
  <2>3. Placed /\ Sensible /\ (Ended \/ OneHandle("hRegister"))' /\ DefinedUnlessDisturbed'
    BY <1>1, <2>1, <2>2, OneHandleStep
  <2>4. OneHandle("hRegister")' => Asserted'
    BY <1>1, <1>4 DEF Asserted, OneRegHandle, OneFileHandle
  <2> QED BY <2>2, <2>3, <2>4 DEF Kept
<1>5. CASE test \in OneFileHandle
  <2>1. OneHandle("hfile") /\ Brackets("hfile")
    BY <1>3, <1>5, FileHandleTable DEF Asserted
  <2>2. test \notin {"QueryRegTest", "RtlRegTest"} /\ "hfile" # "none"
    BY <1>5 DEF OneFileHandle
  <2>3. Placed /\ Sensible /\ (Ended \/ OneHandle("hfile"))' /\ DefinedUnlessDisturbed'
    BY <1>1, <2>1, <2>2, OneHandleStep
  <2>4. OneHandle("hfile")' => Asserted'
    BY <1>1, <1>5 DEF Asserted, OneRegHandle, OneFileHandle
  <2> QED BY <2>2, <2>3, <2>4 DEF Kept
<1>6. CASE test = "EnumerateSubItemRegTest"
  <2>1. Placed /\ Sensible /\ (Ended \/ Enumerating("pbi"))' /\ DefinedUnlessDisturbed'
    BY <1>1, <1>3, <1>6, EnumeratingStep, Entries DEF Asserted
  <2>2. Enumerating("pbi")' => Asserted'
    BY <1>1, <1>6 DEF Asserted, OneRegHandle, OneFileHandle
  <2> QED BY <1>6, <2>1, <2>2 DEF Kept
<1>7. CASE test = "EnumerateSubValueRegTest"
  <2>1. Placed /\ Sensible /\ (Ended \/ Enumerating("pvbi"))' /\ DefinedUnlessDisturbed'
    BY <1>1, <1>3, <1>7, EnumeratingStep, Entries DEF Asserted
  <2>2. Enumerating("pvbi")' => Asserted'
    BY <1>1, <1>7 DEF Asserted, OneRegHandle, OneFileHandle
  <2> QED BY <1>7, <2>1, <2>2 DEF Kept
<1>8. CASE test = "LinkListTest"
  <2>1. Placed /\ Sensible /\ (Ended \/ InList)' /\ DefinedUnlessDisturbed'
    BY <1>1, <1>3, <1>8, LinkListStep DEF Asserted
  <2>2. InList' => Asserted'
    BY <1>1, <1>8 DEF Asserted, OneRegHandle, OneFileHandle
  <2> QED BY <1>8, <2>1, <2>2 DEF Kept
<1>9. CASE test = "LookasideTest"
  <2>1. Placed /\ Sensible /\ (Ended \/ InArray)' /\ DefinedUnlessDisturbed'
    BY <1>1, <1>3, <1>9, LookasideStep DEF Asserted
  <2>2. InArray' => Asserted'
    BY <1>1, <1>9 DEF Asserted, OneRegHandle, OneFileHandle
  <2> QED BY <1>9, <2>1, <2>2 DEF Kept
<1>10. CASE test = "CreateRegTest"
  <2>1. Placed /\ Sensible /\ (Ended \/ Creating)' /\ DefinedUnlessDisturbed'
    BY <1>1, <1>3, <1>10, CreateRegTestStep DEF Asserted
  <2>2. Creating' => Asserted'
    BY <1>1, <1>10 DEF Asserted, OneRegHandle, OneFileHandle
  <2> QED BY <1>10, <2>1, <2>2 DEF Kept
<1>11. CASE test = "QueryRegTest"
  <2>1. Placed /\ Sensible /\ (Ended \/ Querying)' /\ DefinedUnlessDisturbed'
    BY <1>1, <1>3, <1>11, QueryRegTestStep DEF Asserted
  <2>2. Querying' => Asserted'
    BY <1>1, <1>11 DEF Asserted, OneRegHandle, OneFileHandle
  <2> QED BY <1>11, <2>1, <2>2 DEF Kept
<1>12. CASE test = "RtlRegTest"
  <2>1. Placed /\ Sensible /\ (Ended \/ Rtl)' /\ DefinedUnlessDisturbed' /\ undefined' = {}
    BY <1>1, <1>3, <1>12, RtlRegTestStep DEF Asserted, ExerciseInv
  <2>2. Rtl' => Asserted'
    BY <1>1, <1>12 DEF Asserted, OneRegHandle, OneFileHandle
  <2> QED BY <1>12, <2>1, <2>2 DEF Kept
<1>13. CASE test = "WriteFileTest"
  <2>1. Placed /\ Sensible /\ (Ended \/ Writing)' /\ DefinedUnlessDisturbed'
    BY <1>1, <1>3, <1>13, WriteFileTestStep DEF Asserted
  <2>2. Writing' => Asserted'
    BY <1>1, <1>13 DEF Asserted, OneRegHandle, OneFileHandle
  <2> QED BY <1>13, <2>1, <2>2 DEF Kept
<1>14. CASE test = "ReadFileTest"
  <2>1. Placed /\ Sensible /\ (Ended \/ Reading)' /\ DefinedUnlessDisturbed'
    BY <1>1, <1>3, <1>14, ReadFileTestStep DEF Asserted
  <2>2. Reading' => Asserted'
    BY <1>1, <1>14 DEF Asserted, OneRegHandle, OneFileHandle
  <2> QED BY <1>14, <2>1, <2>2 DEF Kept
<1>15. CASE test = "StringInitTest"
  <2>1. Placed /\ Sensible /\ (Ended \/ InitString)' /\ DefinedUnlessDisturbed'
    BY <1>1, <1>3, <1>15, StringInitTestStep DEF Asserted
  <2>2. InitString' => Asserted'
    BY <1>1, <1>15 DEF Asserted, OneRegHandle, OneFileHandle
  <2> QED BY <1>15, <2>1, <2>2 DEF Kept
<1>16. CASE test = "StringCopyTest"
  <2>1. Placed /\ Sensible /\ (Ended \/ OneString("UnicodeString2"))' /\ DefinedUnlessDisturbed'
    BY <1>1, <1>3, <1>16, StringCopyTestStep DEF Asserted
  <2>2. OneString("UnicodeString2")' => Asserted'
    BY <1>1, <1>16 DEF Asserted, OneRegHandle, OneFileHandle
  <2> QED BY <1>16, <2>1, <2>2 DEF Kept
<1>17. CASE test = "StringToIntegerTest"
  <2>1. Placed /\ Sensible /\ (Ended \/ OneString("Unicodestring2"))' /\ DefinedUnlessDisturbed'
    BY <1>1, <1>3, <1>17, StringToIntegerTestStep DEF Asserted
  <2>2. OneString("Unicodestring2")' => Asserted'
    BY <1>1, <1>17 DEF Asserted, OneRegHandle, OneFileHandle
  <2> QED BY <1>17, <2>1, <2>2 DEF Kept
<1>18. CASE test = "StringCompareTest"
  <2>1. Placed /\ Sensible /\ (Ended \/ Comparing)' /\ DefinedUnlessDisturbed'
    BY <1>1, <1>3, <1>18, StringCompareTestStep DEF Asserted
  <2>2. Comparing' => Asserted'
    BY <1>1, <1>18 DEF Asserted, OneRegHandle, OneFileHandle
  <2> QED BY <1>18, <2>1, <2>2 DEF Kept
<1>19. CASE test = "StringConverTest"
  <2>1. Placed /\ Sensible /\ (Ended \/ Converting)' /\ DefinedUnlessDisturbed'
    BY <1>1, <1>3, <1>19, StringConverTestStep DEF Asserted
  <2>2. Converting' => Asserted'
    BY <1>1, <1>19 DEF Asserted, OneRegHandle, OneFileHandle
  <2> QED BY <1>19, <2>1, <2>2 DEF Kept
<1> QED BY <1>1, <1>4, <1>5, <1>6, <1>7, <1>8, <1>9, <1>10, <1>11, <1>12, <1>13, <1>14, <1>15,
           <1>16,
           <1>17, <1>18, <1>19, Exercise DEF Typed

LEMMA Stuttering ==
    ASSUME ExerciseInv, UNCHANGED vars
    PROVE  ExerciseInv'
<1> USE DEF vars, memory, shared
<1>1. Typed'
  BY DEF ExerciseInv, Typed
<1>2. DefinedUnlessDisturbed' /\ (test = "RtlRegTest" => undefined = {})'
  BY DEF ExerciseInv, DefinedUnlessDisturbed
<1>3. Ended => Ended'
  BY DEF Ended
<1>4. \A h : OneHandle(h) => OneHandle(h)'
  BY DEF OneHandle, Straight, Handled, Body
<1>5. (Creating => Creating') /\ (Rtl => Rtl') /\ (Querying => Querying')
  BY DEF Creating, Rtl, Querying, Straight, Handled, Given, Owned, Body
<1>6. (Writing => Writing') /\ (Reading => Reading') /\ (InitString => InitString')
  BY DEF Writing, Reading, InitString, Straight, Handled, Given, Owned, Body
<1>7. (Comparing => Comparing') /\ (Converting => Converting')
  BY DEF Comparing, Converting, Straight, Owned, Body
<1>8. \A u : OneString(u) => OneString(u)'
  BY DEF OneString, Straight, Given, Owned, Body
<1>9. \A pbi : Enumerating(pbi) => Enumerating(pbi)'
  BY DEF Enumerating, Describing, Listing, Handled, Given, Asked, Read, Blocks, Owned
<1>10. InList => InList'
  BY DEF InList, Linking, Unlinking, Given, Owned
<1>11. InArray => InArray'
  BY DEF InArray, Storing, Taking, Backed, Given
<1>12. Asserted => Asserted'
  BY <1>4, <1>5, <1>6, <1>7, <1>8, <1>9, <1>10, <1>11 DEF Asserted
<1> QED BY <1>1, <1>2, <1>3, <1>12 DEF ExerciseInv

THEOREM ExerciseInvariant == Spec => []ExerciseInv
<1>1. Init => ExerciseInv
  BY InitialTypes, InitialAssertion DEF ExerciseInv
<1>2. ExerciseInv /\ [Next]_vars => ExerciseInv'
  <2>1. ASSUME ExerciseInv, Next
        PROVE  ExerciseInv'
    <3>1. Kept
      BY <2>1, NextKeeps
    <3>2. Typed'
      BY <2>1, <3>1, TypedStep DEF ExerciseInv, Kept
    <3>3. test' = test
      BY <2>1, NextRuns
    <3> QED BY <3>1, <3>2, <3>3 DEF ExerciseInv, Kept
  <2> QED BY <2>1, Stuttering
<1> QED BY <1>1, <1>2, PTL DEF Spec

-----------------------------------------------------------------------------
(* What follows from it.                                                   *)

\* The exercises run within their tables and their loops within their bounds, the list and
\* the array never overflow, no pool block is freed that is not outstanding, and every
\* variable keeps its type.
THEOREM TypeCorrect == Spec => []TypeOK
<1>1. ExerciseInv => TypeOK
  <2> SUFFICES ASSUME ExerciseInv
               PROVE  TypeOK
    OBVIOUS
  <2>1. Typed
    BY DEF ExerciseInv
  <2>2. Running => Located
    BY <2>1, AssertedLocated DEF ExerciseInv, Ended, Running
  <2>3. outstanding \in 0..Elements + 2
    <3>1. Ended => outstanding \in 0..Elements + 2
      BY ExercisesAssumption DEF Ended
    <3> QED BY <2>1, <3>1, AssertedLocated DEF ExerciseInv, Located
  <2>4. ToSet(list) \subseteq {"NULL", "raw", "filled"}
    BY <2>1 DEF Typed, Blocks, ToSet
  <2> QED BY <2>1, <2>2, <2>3, <2>4 DEF TypeOK, Typed, Values, Kinds, Located, Placed
<1> QED BY <1>1, ExerciseInvariant, PTL

\* Whatever was refused, and whoever changed the objects meanwhile, an exercise that returns
\* has closed every handle it opened and freed every block it was given, but the one
\* QueryRegTest keeps.
THEOREM EverythingReturnedAlways == Spec => []EverythingReturned
<1>1. ExerciseInv => EverythingReturned
  <2> SUFFICES ASSUME ExerciseInv, pc = Returned
               PROVE  /\ \A v \in DOMAIN local : local[v] /= "open"
                      /\ outstanding <= IF test = "QueryRegTest" THEN 1 ELSE 0
    BY DEF EverythingReturned
  <2>1. ~Asserted
    BY AssertedLocated DEF ExerciseInv, Located, Running
  <2>2. Returned # Stopped
    BY DEF Returned, Stopped
  <2> QED BY <2>1, <2>2 DEF ExerciseInv, Ended
<1> QED BY <1>1, ExerciseInvariant, PTL

\* As long as nothing was refused and nobody else touched the objects, an exercise, but the
\* two whose own text does it, uses only what it has defined; and the two that look at the
\* result of each query never use data that was not delivered.
THEOREM DefinedUnlessDisturbedAlways == Spec => []DefinedUnlessDisturbed
<1>1. ExerciseInv => DefinedUnlessDisturbed
  BY DEF ExerciseInv
<1> QED BY <1>1, ExerciseInvariant, PTL

-----------------------------------------------------------------------------
(* The loops end: a variant for the whole exercise.  What is left of a     *)
(* loop is what its condition is about: the entries pfi has counted, the   *)
(* elements, or what is still in the list; no body has more than MostCalls *)
(* calls, so that CallsLeft bounds the calls an exercise can still make.   *)
MostCalls == 11
MostIterations == MaxEntries + Elements + 1

Times == DriverEntry[test][pc.segment].times
Rounds ==
    CASE Times = "once"                   -> 1
      [] Times = "entries"                -> n
      [] Times \in {"elements", "listed"} -> Elements
IterationsLeft ==
    IF Times = "listed" THEN Len(list) + IF pc.at = 1 THEN 0 ELSE 1 ELSE Rounds - pc.i
LaterIterations ==
    CASE pc.segment = 1 -> 2 * MostIterations
      [] pc.segment = 2 -> MostIterations
      [] OTHER          -> 0
CallsLeft ==
    IF Running
    THEN MostCalls * (IterationsLeft - 1 + LaterIterations) + MostCalls - pc.at + 1
    ELSE 0

\* Inside a loop something is left of it, and the list shrinks by one element an iteration.
Measured ==
    /\ pc.at \in 1..MostCalls
    /\ IterationsLeft \in 1..MostIterations
    /\ Rounds \in Nat /\ IterationsLeft = Rounds - pc.i
    /\ Times = "entries" => This.o # "full"

LEMMA MeasuredStraight ==
    ASSUME Straight, DriverEntry[test] = <<Once(Body(test))>>, Len(Body(test)) \in 1..11
    PROVE  Measured
<1>1. pc.segment = 1 /\ pc.i = 0 /\ pc.at \in 1..Len(Body(test))
  BY AtStraight DEF Straight
<1>2. Times = "once"
  BY <1>1 DEF Times, Once
<1>3. Rounds = 1 /\ IterationsLeft = 1
  BY <1>1, <1>2 DEF Rounds, IterationsLeft
<1>4. \A m \in 1..11 : \A k \in 1..m : k \in 1..11
  OBVIOUS
<1>5. pc.at \in 1..MostCalls
  BY <1>1, <1>4, Zenon DEF MostCalls
<1> QED BY <1>1, <1>2, <1>3, <1>5, ExercisesAssumption DEF Measured, MostIterations

LEMMA ShortBrackets ==
    ASSUME test \in OneRegHandle \cup OneFileHandle
    PROVE  Len(Body(test)) \in 1..11
<1>2. CASE test = "OpenRegTest"
  <2>1. Body(test) = <<Open("hRegister", "key"), Close("hRegister")>>
    BY <1>2, Entries DEF OpenRegTest, Body, Once
  <2> QED BY <2>1
<1>3. CASE test = "DeleteItemRegTest"
  <2>1. Body(test) = <<Open("hRegister", "SubItem"), Delete("hRegister", "SubItem"),
                       Close("hRegister")>>
    BY <1>3, Entries DEF DeleteItemRegTest, Body, Once
  <2> QED BY <2>1
<1>4. CASE test = "SetRegTest"
  <2>1. Body(test) = <<Open("hRegister", "key"), Put("hRegister", "dword"),
                       Put("hRegister", "sz"), Put("hRegister", "binary"), Close("hRegister")>>
    BY <1>4, Entries DEF SetRegTest, Body, Once
  <2> QED BY <2>1
<1>5. CASE test = "CreateFileTest"
  <2>1. Body(test) = <<Create("hfile", "file"), Close("hfile")>>
    BY <1>5, Entries DEF CreateFileTest, Body, Once
  <2> QED BY <2>1
<1>6. CASE test \in {"OpenFileTest1", "OpenFileTest2"}
  <2>1. Body(test) = <<Open("hfile", "file"), Close("hfile")>>
    BY <1>6, Entries DEF OpenFileTest1, OpenFileTest2, Body, Once
  <2> QED BY <2>1
<1>7. CASE test = "FileAttributeTest"
  <2>1. Body(test) = <<Open("hfile", "file"), QuerySize("hfile", "file"),
                       Call("position", "none", "hfile", "file", "none"), Close("hfile")>>
    BY <1>7, Entries DEF FileAttributeTest, Body, Once
  <2> QED BY <2>1
<1> QED BY <1>2, <1>3, <1>4, <1>5, <1>6, <1>7 DEF OneRegHandle, OneFileHandle

LEMMA MeasuredEnumerating ==
    ASSUME NEW pbi \in {"pbi", "pvbi"}, DriverEntry[test] = EnumerateKey(pbi),
           Typed, Enumerating(pbi)
    PROVE  Measured
<1> n \in 0..MaxEntries /\ MaxEntries \in Nat /\ Elements \in Nat \ {0}
  BY ExercisesAssumption DEF Typed
<1>1. CASE Describing
  <2>1. pc.segment = 1 /\ pc.at \in 1..5 /\ pc.i = 0
    BY <1>1 DEF Describing
  <2>2. Times = "once"
    BY <2>1, EnumerateTable DEF Times
  <2> QED BY <2>1, <2>2 DEF Measured, MostCalls, MostIterations, Rounds, IterationsLeft
<1>2. CASE Listing(pbi)
  <2>1. pc.segment = 2 /\ pc.at \in 1..5 /\ pc.i \in 0..n - 1
    BY <1>2 DEF Listing
  <2>2. Times = "entries"
    BY <2>1, EnumerateTable DEF Times
  <2>3. This.o # "full"
    <3>1. /\ pc.at = 1 => This = Call("size", "none", "hRegister", "entry", "none")
          /\ pc.at = 2 => This = Call("allocate", pbi, "none", "none", "sized")
          /\ pc.at = 3 => This = Call("data", pbi, "hRegister", "entry", "none")
          /\ pc.at = 4 => This = Call("use", pbi, "none", "none", "none")
          /\ pc.at = 5 => This = Call("free", pbi, "none", "none", "none")
      BY <2>1, EnumerateTable DEF This
    <3> QED BY <2>1, <3>1 DEF Call
  <2>4. Rounds = n /\ IterationsLeft = n - pc.i
    BY <2>2 DEF Rounds, IterationsLeft
  <2> QED BY <2>1, <2>3, <2>4 DEF Measured, MostCalls, MostIterations
<1>3. CASE pc = At(3, pc.at, 0) /\ pc.at \in {1, 2}
  <2>1. pc.segment = 3 /\ pc.i = 0
    BY <1>3 DEF At
  <2>2. Times = "once"
    BY <2>1, EnumerateTable DEF Times
  <2> QED BY <1>3, <2>1, <2>2 DEF Measured, MostCalls, MostIterations, Rounds, IterationsLeft
<1> QED BY <1>1, <1>2, <1>3 DEF Enumerating

LEMMA MeasuredInList ==
    ASSUME test = "LinkListTest", Typed, InList
    PROVE  Measured
<1> MaxEntries \in Nat /\ Elements \in Nat \ {0} /\ Len(list) \in Nat
  BY ExercisesAssumption DEF Typed
<1>1. CASE Linking
  <2>1. pc = At(1, pc.at, pc.i) /\ pc.at \in 1..3 /\ pc.i = Len(list) /\ pc.i < Elements
    BY <1>1 DEF Linking
  <2>2. pc.segment = 1
    BY <2>1 DEF At
  <2>3. Times = "elements"
    BY <2>2, LinkListTable DEF Times
  <2>4. Rounds = Elements /\ IterationsLeft = Elements - pc.i
    BY <2>3 DEF Rounds, IterationsLeft
  <2> QED BY <2>1, <2>3, <2>4 DEF Measured, MostCalls, MostIterations
<1>2. CASE Unlinking
  <2>1. /\ pc = At(2, pc.at, pc.i) /\ pc.at \in 1..3 /\ pc.i \in 0..Elements - 1
        /\ Len(list) = Elements - pc.i - IF pc.at = 1 THEN 0 ELSE 1
    BY <1>2 DEF Unlinking
  <2>2. pc.segment = 2
    BY <2>1 DEF At
  <2>3. Times = "listed"
    BY <2>2, LinkListTable DEF Times
  <2>4. Rounds = Elements /\ IterationsLeft = Elements - pc.i
    BY <2>1, <2>3 DEF Rounds, IterationsLeft
  <2> QED BY <2>1, <2>3, <2>4 DEF Measured, MostCalls, MostIterations
<1> QED BY <1>1, <1>2 DEF InList

LEMMA MeasuredInArray ==
    ASSUME test = "LookasideTest", Typed, InArray
    PROVE  Measured
<1> MaxEntries \in Nat /\ Elements \in Nat \ {0} /\ Len(list) \in Nat
  BY ExercisesAssumption DEF Typed
<1>1. /\ pc.at \in {1, 2} /\ pc.i \in 0..Elements - 1
      /\ pc = At(1, pc.at, pc.i) \/ pc = At(2, pc.at, pc.i)
  BY DEF InArray, Storing, Taking
<1>2. pc.segment = 1 \/ pc.segment = 2
  BY <1>1 DEF At
<1>3. Times = "elements"
  BY <1>2, LookasideTable DEF Times
<1>4. Rounds = Elements /\ IterationsLeft = Elements - pc.i
  BY <1>3 DEF Rounds, IterationsLeft
<1> QED BY <1>1, <1>3, <1>4 DEF Measured, MostCalls, MostIterations

LEMMA AssertedMeasured ==
    ASSUME Typed, Asserted
    PROVE  Measured
<1>1. CASE test \in OneRegHandle
  BY <1>1, MeasuredStraight, RegHandleTable, ShortBrackets DEF Asserted, OneHandle, Brackets
<1>2. CASE test \in OneFileHandle
  BY <1>2, MeasuredStraight, FileHandleTable, ShortBrackets DEF Asserted, OneHandle, Brackets
<1>3. CASE test = "CreateRegTest"
  BY <1>3, MeasuredStraight, CreateRegTestTable DEF Asserted, Creating
<1>4. CASE test = "QueryRegTest"
  BY <1>4, MeasuredStraight, QueryRegTestTable DEF Asserted, Querying
<1>5. CASE test = "RtlRegTest"
  BY <1>5, MeasuredStraight, RtlRegTestTable DEF Asserted, Rtl
<1>6. CASE test = "WriteFileTest"
  BY <1>6, MeasuredStraight, WriteFileTestTable DEF Asserted, Writing
<1>7. CASE test = "ReadFileTest"
  BY <1>7, MeasuredStraight, ReadFileTestTable DEF Asserted, Reading
<1>8. CASE test = "StringInitTest"
  BY <1>8, MeasuredStraight, StringInitTestTable DEF Asserted, InitString
<1>9. CASE test = "StringCopyTest"
  BY <1>9, MeasuredStraight, StringCopyTestTable DEF Asserted, OneString
<1>10. CASE test = "StringToIntegerTest"
  BY <1>10, MeasuredStraight, StringToIntegerTestTable DEF Asserted, OneString
<1>11. CASE test = "StringCompareTest"
  BY <1>11, MeasuredStraight, StringCompareTestTable DEF Asserted, Comparing
<1>12. CASE test = "StringConverTest"
  BY <1>12, MeasuredStraight, StringConverTestTable DEF Asserted, Converting
<1>13. CASE test = "EnumerateSubItemRegTest"
  BY <1>13, MeasuredEnumerating, Entries DEF Asserted
<1>14. CASE test = "EnumerateSubValueRegTest"
  BY <1>14, MeasuredEnumerating, Entries DEF Asserted
<1>15. CASE test = "LinkListTest"
  BY <1>15, MeasuredInList DEF Asserted
<1>16. CASE test = "LookasideTest"
  BY <1>16, MeasuredInArray DEF Asserted
<1> QED BY <1>1, <1>2, <1>3, <1>4, <1>5, <1>6, <1>7, <1>8, <1>9, <1>10, <1>11, <1>12, <1>13,
           <1>14, <1>15, <1>16, Exercise DEF Typed

\* Only the query for the description of the key assigns the bound of a loop.
LEMMA NextKeepsBound ==
    ASSUME Next, This.o # "full"
    PROVE  n' = n
BY DEF Next, OpenHandle, AskSize, AllocateBlock, AskData, FillBlock, UseBlock, FreeBlock,
   UseNull, CloseHandle, ChangeObject, ConvertString, OverwriteLiteral, InsertBlock,
   RemoveBlock, OthersChange

\* Where a call leads: to the next one, to the next iteration, or to a later segment.
LEMMA GoOnLeads ==
    ASSUME Located, GoOn
    PROVE  \/ pc'.segment = pc.segment /\ pc'.i = pc.i /\ pc'.at = pc.at + 1
           \/ pc'.segment = pc.segment /\ pc'.i = pc.i + 1
           \/ pc'.segment > pc.segment
           \/ pc' = Returned
<1> DEFINE body == DriverEntry[test][pc.segment].body
<1>1. pc = At(pc.segment, pc.at, pc.i) /\ pc.segment \in 1..3 /\ pc.at \in Nat /\ pc.i \in Nat
  BY DEF Located, Placed
<1>2. \A s, k, i : At(s, k, i).segment = s /\ At(s, k, i).at = k /\ At(s, k, i).i = i
  BY DEF At
<1>3. CASE pc.at < Len(body)
  <2>1. pc' = At(pc.segment, pc.at + 1, pc.i)
    BY <1>1, <1>3, NextInSegment
  <2> QED BY <1>2, <2>1
<1>4. CASE ~(pc.at < Len(body))
  <2>1. CASE pc' = At(pc.segment, 1, pc.i + 1)
    BY <1>2, <2>1
  <2>2. CASE pc' = At(Min(Later), 1, 0) /\ Later # {}
    <3>1. pc'.segment = Min(Later)
      BY <1>2, <2>2
    <3>2. Later = {2} \/ Later = {3} \/ Later = {2, 3}
      <4>1. \A s \in Later : s = 2 \/ s = 3
        BY <1>1 DEF Later, Located
      <4> QED BY <2>2, <4>1
    <3>3. pc.segment < Min(Later)
      <4>1. \A s \in Later : pc.segment < s
        BY <1>1 DEF Later
      <4>2. Min(Later) \in Later
        BY <3>2, Minima
      <4> QED BY <4>1, <4>2
    <3> QED BY <3>1, <3>3
  <2> QED BY <1>1, <1>4, <2>1, <2>2, NextSegment
<1> QED BY <1>3, <1>4

LEMMA RunningMeasured ==
    ASSUME ExerciseInv, Running
    PROVE  Located /\ Measured
BY AssertedLocated, AssertedMeasured DEF ExerciseInv, Ended, Running

\* The arithmetic of the variant.
CallsLeftIn ==
    /\ IterationsLeft \in 1..MostIterations /\ pc.at \in 1..11 /\ pc.segment \in 1..3
    /\ pc.segment = 1 => CallsLeft = 11 * (IterationsLeft + 2 * MostIterations) + 1 - pc.at
    /\ pc.segment = 2 => CallsLeft = 11 * (IterationsLeft + MostIterations) + 1 - pc.at
    /\ pc.segment = 3 => CallsLeft = 11 * IterationsLeft + 1 - pc.at

LEMMA MostIterationsType == MostIterations \in Nat
BY ExercisesAssumption DEF MostIterations

LEMMA CallsLeftIs ==
    ASSUME ExerciseInv, Running
    PROVE  CallsLeftIn
<1>1. IterationsLeft \in 1..MostIterations /\ pc.at \in 1..11 /\ pc.segment \in 1..3
  BY RunningMeasured DEF Located, Measured, MostCalls
<1>2. CallsLeft = 11 * (IterationsLeft - 1 + LaterIterations) + 11 - pc.at + 1
  BY DEF CallsLeft, MostCalls
<1>3. LaterIterations = IF pc.segment = 1 THEN 2 * MostIterations
                        ELSE IF pc.segment = 2 THEN MostIterations ELSE 0
  BY DEF LaterIterations
<1> QED BY <1>1, <1>2, <1>3, MostIterationsType DEF CallsLeftIn

LEMMA EachCallCounts ==
    ASSUME ExerciseInv, ExerciseInv', Next, ~OthersChange
    PROVE  CallsLeft' < CallsLeft
<1>1. Running /\ test' = test
  BY NextRuns
<1>2. Located /\ Measured
  BY <1>1, RunningMeasured
<1>3. CallsLeftIn /\ MostIterations \in Nat /\ pc.i \in Nat
  BY <1>1, <1>2, CallsLeftIs, MostIterationsType DEF Located, Placed
<1>4. CASE ~Running'
  <2>1. CallsLeft' = 0
    BY <1>4 DEF CallsLeft
  <2> QED BY <1>3, <2>1 DEF CallsLeftIn
<1>5. CASE Running'
  <2>1. GoOn
    BY <1>5 DEF Running, Next, OpenHandle, AskSize, AllocateBlock, AskData, FillBlock,
       UseBlock, FreeBlock, UseNull, CloseHandle, ChangeObject, ConvertString,
       OverwriteLiteral, InsertBlock, RemoveBlock, CloseAndReturn
  <2>2. Measured' /\ Located'
    BY <1>5, RunningMeasured, PTL
  <2>3. CallsLeftIn' /\ MostIterations' = MostIterations
    <3>1. CallsLeftIn'
      BY <1>5, CallsLeftIs, PTL
    <3> QED BY <3>1 DEF MostIterations
  <2>4. pc' # Returned
    BY <1>5 DEF Running
  <2>5. CASE pc'.segment > pc.segment
    BY <1>3, <2>3, <2>5 DEF CallsLeftIn
  <2>6. ASSUME pc'.segment = pc.segment
        PROVE  IterationsLeft' = IterationsLeft - (pc'.i - pc.i)
    <3>1. Times' = Times
      BY <1>1, <2>6 DEF Times
    <3>2. Times = "entries" => n' = n
      BY <1>2, NextKeepsBound DEF Measured
    <3>3. Rounds' = Rounds
      BY <3>1, <3>2 DEF Rounds
    <3>4. IterationsLeft = Rounds - pc.i /\ IterationsLeft' = Rounds' - pc'.i
      BY <1>2, <2>2 DEF Measured
    <3>5. Rounds \in Int /\ pc.i \in Int /\ pc'.i \in Int
      BY <1>2, <2>2 DEF Measured, Located
    <3> QED BY <3>3, <3>4, <3>5
  <2>7. CASE pc'.segment = pc.segment /\ pc'.i = pc.i /\ pc'.at = pc.at + 1
    BY <1>3, <2>3, <2>6, <2>7 DEF CallsLeftIn
  <2>8. CASE pc'.segment = pc.segment /\ pc'.i = pc.i + 1
    BY <1>3, <2>3, <2>6, <2>8 DEF CallsLeftIn
  <2> QED BY <1>2, <2>1, <2>4, <2>5, <2>7, <2>8, GoOnLeads
<1> QED BY <1>4, <1>5

\* Every exercise comes to an end, however large the key and the list are, whatever is
\* delivered or refused, and though others change the key while it is enumerated: the number
\* of calls it can still make is finite, and each call makes it smaller.  The loops over the
\* entries rest on pfi, which their bodies leave alone, the loop over the list on an element
\* leaving it in each iteration.
THEOREM LoopsEnd == Spec => [](CallsLeft \in Nat) /\ [][OthersChange \/ CallsLeft' < CallsLeft]_vars
<1>1. ExerciseInv => CallsLeft \in Nat
  <2> SUFFICES ASSUME ExerciseInv
               PROVE  CallsLeft \in Nat
    OBVIOUS
  <2>1. CASE Running
    BY <2>1, CallsLeftIs, MostIterationsType DEF CallsLeftIn
  <2>2. CASE ~Running
    BY <2>2 DEF CallsLeft
  <2> QED BY <2>1, <2>2
<1>2. ExerciseInv /\ ExerciseInv' /\ [Next]_vars => [OthersChange \/ CallsLeft' < CallsLeft]_vars
  BY EachCallCounts
<1> QED BY <1>1, <1>2, ExerciseInvariant, PTL DEF Spec
================================================================================
