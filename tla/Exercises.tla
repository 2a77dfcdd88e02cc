------------------------------ MODULE Exercises ------------------------------
(***************************************************************************)
(* The exercises BasicFunction calls from its DriverEntry: registry, file, *)
(* string, list and lookaside routines.  Each is a straight line of kernel *)
(* calls, with a loop at most, whose results are hardly looked at; so each *)
(* is a table here, and the actions are the kinds of calls in the tables.  *)
(*                                                                         *)
(* Any call may be refused, and what a refused call should have delivered  *)
(* is unspecified.  The registry key and the file an exercise works on     *)
(* belong to everybody: other processes change them while it runs, between *)
(* the call that asks for a size and the one that asks for the data, too.  *)
(***************************************************************************)
EXTENDS Integers, Sequences, SequencesExt

CONSTANTS MaxSize,    \* bound on the size of a value, a name or a file
          MaxEntries, \* bound on the subkeys or values of the key
          Elements    \* the elements of the list (10) and of the array (50)

ASSUME ExercisesAssumption ==
    MaxSize \in Nat \ {0} /\ MaxEntries \in Nat /\ Elements \in Nat \ {0}

VARIABLES
    test,        \* the exercise
    pc,          \* its next call: segment, position in it, and iteration
    local,       \* its local variables: handles, pointers to pool blocks
    list,        \* the blocks in the list, or in the array
    outstanding, \* how many pool blocks it has and has not freed
    size,        \* ulSize, or the EndOfFile of fsi
    n,           \* the SubKeys or Values read from pfi
    world,       \* the size of each key, value or file it names; 0: not there
    entries,     \* the sizes of the key's entries
    disturbed,   \* history: a call was refused, or others changed the objects
    undefined    \* history: the kinds of things used without being defined

memory == <<local, list, outstanding>>
shared == <<world, entries>>
vars == <<test, pc, memory, size, n, shared, disturbed, undefined>>

-----------------------------------------------------------------------------
(* The exercises.  A call assigns, uses or releases the local variable v,  *)
(* goes through the handle via, and is about the object o, each if any.    *)
(* "return": a failed call closes via and ends the exercise.               *)

Call(op, v, via, o, how) == [op |-> op, v |-> v, via |-> via, o |-> o, how |-> how]
Once(body) == [times |-> "once", body |-> body]
Repeat(times, body) == [times |-> times, body |-> body]

Open(h, o)      == Call("open", h, "none", o, "none")
Create(h, o)    == Call("open", h, "none", o, "create")
Put(h, o)       == Call("put", "none", h, o, "none")
QuerySize(h, o) == Call("size", "none", h, o, "none")
Allocate(v)     == Call("allocate", v, "none", "none", "sized")
AllocateFixed(v) == Call("allocate", v, "none", "none", "fixed")
QueryData(v, h, o) == Call("data", v, h, o, "none")
Fill(v)         == Call("fill", v, "none", "none", "none")
Use(v)          == Call("use", v, "none", "none", "none")
Free(v)         == Call("free", v, "none", "none", "none")
FreeString(v)   == Call("free", v, "none", "none", "string")
Close(h)        == Call("close", h, h, "none", "none")
Link(v)       == Call("insert", v, "none", "none", "none")
Unlink(v)       == Call("remove", v, "none", "none", "none")
Delete(h, o)    == Call("delete", "none", h, o, "none")
Convert(v)      == Call("convert", v, "none", "none", "none")
Overwrite(v)    == Call("overwrite", v, "none", "none", "none")
OrReturn(c)     == [c EXCEPT !.how = "return"]

CreateRegTest ==
    <<Once(<<Create("hRegister", "key"),
             [Create("hSubRegister", "SubItem") EXCEPT !.via = "hRegister"],
             Close("hRegister"), Close("hSubRegister")>>)>>
OpenRegTest == <<Once(<<Open("hRegister", "key"), Close("hRegister")>>)>>
DeleteItemRegTest ==
    <<Once(<<Open("hRegister", "SubItem"),
             Delete("hRegister", "SubItem"), Close("hRegister")>>)>>

\* SetRegTest that returns when the key is not there, and forgets to close it otherwise.
SetRegTest_NoClose ==
    <<Once(<<OrReturn(Open("hRegister", "key")),
             Put("hRegister", "dword"), Put("hRegister", "sz"), Put("hRegister", "binary")>>)>>
SetRegTest ==
    <<Once(<<Open("hRegister", "key"),
             Put("hRegister", "dword"), Put("hRegister", "sz"), Put("hRegister", "binary"),
             Close("hRegister")>>)>>

\* The block of the second value is never freed, nor is one whose second query fails.
QueryRegTest ==
    <<Once(<<Open("hRegister", "key"),
             OrReturn(QuerySize("hRegister", "dword")), Allocate("pvpi"),
             OrReturn(QueryData("pvpi", "hRegister", "dword")), Use("pvpi"), Free("pvpi"),
             OrReturn(QuerySize("hRegister", "sz")), Allocate("pvpi"),
             OrReturn(QueryData("pvpi", "hRegister", "sz")), Use("pvpi"),
             Close("hRegister")>>)>>

\* The loop condition reads pfi->SubKeys, or pfi->Values.
EnumerateKey(pbi) ==
    <<Once(<<Open("hRegister", "key"),
             QuerySize("hRegister", "full"), Allocate("pfi"),
             QueryData("pfi", "hRegister", "full"), Use("pfi")>>),
      Repeat("entries", <<QuerySize("hRegister", "entry"), Allocate(pbi),
                          QueryData(pbi, "hRegister", "entry"), Use(pbi), Free(pbi)>>),
      Once(<<Free("pfi"), Close("hRegister")>>)>>
EnumerateSubItemRegTest == EnumerateKey("pbi")
EnumerateSubValueRegTest == EnumerateKey("pvbi")

\* The Rtl routines take a path each time, and uQueryValue is printed after success only.
RtlRegTest ==
    <<Once(<<Put("none", "service_key"), Put("none", "service_dword"), Put("none", "service_sz"),
             QueryData("uQueryValue", "none", "service_dword"),
             [Use("uQueryValue") EXCEPT !.how = "if_ok"],
             Delete("none", "service_dword")>>)>>

CreateFileTest == <<Once(<<Create("hfile", "file"), Close("hfile")>>)>>
OpenFileTest2 == <<Once(<<Open("hfile", "file"), Close("hfile")>>)>>
OpenFileTest1 == <<Once(<<Open("hfile", "file"), Close("hfile")>>)>>

\* fsi is printed, and the file pointer set, whether the file is open or not.
FileAttributeTest ==
    <<Once(<<Open("hfile", "file"), QuerySize("hfile", "file"),
             Call("position", "none", "hfile", "file", "none"), Close("hfile")>>)>>
WriteFileTest ==
    <<Once(<<Create("hfile", "file"), AllocateFixed("pBuffer"),
             Fill("pBuffer"), Put("hfile", "file"), Fill("pBuffer"), Put("hfile", "file"),
             Close("hfile"), Free("pBuffer")>>)>>

\* ReadFileTest that frees its buffer in both branches of an early close.
ReadFileTest_FreesTwice ==
    <<Once(<<OrReturn(Open("hfile", "file")),
             QuerySize("hfile", "file"), Allocate("pBuffer"),
             QueryData("pBuffer", "hfile", "file"), Free("pBuffer"),
             Close("hfile"), Free("pBuffer")>>)>>
ReadFileTest ==
    <<Once(<<OrReturn(Open("hfile", "file")),
             QuerySize("hfile", "file"), Allocate("pBuffer"),
             QueryData("pBuffer", "hfile", "file"),
             Close("hfile"), Free("pBuffer")>>)>>

\* It overwrites a string literal first.
StringInitTest ==
    <<Once(<<Overwrite("string1"), AllocateFixed("UnicodeString1"),
             Fill("UnicodeString1"), Use("UnicodeString1"), Free("UnicodeString1")>>)>>
StringCopyTest ==
    <<Once(<<AllocateFixed("UnicodeString2"), Fill("UnicodeString2"), Use("UnicodeString2"),
             FreeString("UnicodeString2")>>)>>
\* UnicodeString2 is compared, but it is UnicodeString1 that is initialised twice.
StringCompareTest == <<Once(<<Use("UnicodeString2")>>)>>
StringToIntegerTest ==
    <<Once(<<AllocateFixed("Unicodestring2"), Fill("Unicodestring2"), Use("Unicodestring2"),
             FreeString("Unicodestring2")>>)>>
StringConverTest ==
    <<Once(<<Convert("AnsiString1"), FreeString("AnsiString1"),
             Convert("UnicodeString2"), FreeString("UnicodeString2")>>)>>

LinkListTest ==
    <<Repeat("elements", <<AllocateFixed("pData"), Fill("pData"), Link("pData")>>),
      Repeat("listed", <<Unlink("pData"), Use("pData"), Free("pData")>>)>>
LookasideTest ==
    <<Repeat("elements", <<AllocateFixed("MyObject"), Link("MyObject")>>),
      Repeat("elements", <<Unlink("MyObject"), Free("MyObject")>>)>>

\* The dispatchers call one exercise each, SetRegTest, ReadFileTest and StringConverTest;
\* the calls of the others are there to be uncommented.
RegTest == [CreateRegTest |-> CreateRegTest, OpenRegTest |-> OpenRegTest,
            SetRegTest |-> SetRegTest, QueryRegTest |-> QueryRegTest,
            EnumerateSubItemRegTest |-> EnumerateSubItemRegTest,
            EnumerateSubValueRegTest |-> EnumerateSubValueRegTest,
            DeleteItemRegTest |-> DeleteItemRegTest, RtlRegTest |-> RtlRegTest]
FileTest == [CreateFileTest |-> CreateFileTest, OpenFileTest1 |-> OpenFileTest1,
             OpenFileTest2 |-> OpenFileTest2, FileAttributeTest |-> FileAttributeTest,
             WriteFileTest |-> WriteFileTest, ReadFileTest |-> ReadFileTest]
StringTest == [StringInitTest |-> StringInitTest, StringCopyTest |-> StringCopyTest,
               StringCompareTest |-> StringCompareTest,
               StringToIntegerTest |-> StringToIntegerTest,
               StringConverTest |-> StringConverTest]
ListTests == [LinkListTest |-> LinkListTest, LookasideTest |-> LookasideTest]
Joined(f, g) ==
    [t \in DOMAIN f \cup DOMAIN g |-> IF t \in DOMAIN f THEN f[t] ELSE g[t]]
DriverEntry == Joined(Joined(ListTests, RegTest), Joined(FileTest, StringTest))

-----------------------------------------------------------------------------
(* The calls.                                                              *)

Garbage == -1 \* what ulSize holds before a call has assigned it
Returned == [segment |-> 0, at |-> 0, i |-> 0]
Stopped == [segment |-> -1, at |-> 0, i |-> 0]
Running == pc \notin {Returned, Stopped}

Calls(t) == UNION {ToSet(DriverEntry[t][s].body) : s \in DOMAIN DriverEntry[t]}
This == DriverEntry[test][pc.segment].body[pc.at]
Locals(t) == {c.v : c \in Calls(t)} \ {"none"}
Objects(t) == {c.o : c \in Calls(t)} \ {"none", "entry", "full"}
Enumerates == \E c \in Calls(test) : c.o = "entry"

\* The loops with <= for <.
Goes_OneMore(segment, i) ==
    CASE segment.times = "once"     -> i < 1
      [] segment.times = "entries"  -> i <= n'
      [] segment.times = "elements" -> i <= Elements
      [] segment.times = "listed"   -> list' /= <<>>
\* The loop of a segment goes (on) after i iterations.
Goes(segment, i) ==
    CASE segment.times = "once"     -> i < 1
      [] segment.times = "entries"  -> i < n'
      [] segment.times = "elements" -> i < Elements
      [] segment.times = "listed"   -> list' /= <<>>

\* The call after this one: in the segment, in its next iteration, or in the next segment.
GoOn ==
    LET segments == DriverEntry[test]
        later == {s \in pc.segment + 1 .. Len(segments) : Goes(segments[s], 0)} IN
    pc' = IF pc.at < Len(segments[pc.segment].body) THEN [pc EXCEPT !.at = @ + 1]
          ELSE IF Goes(segments[pc.segment], pc.i + 1)
               THEN [segment |-> pc.segment, at |-> 1, i |-> pc.i + 1]
          ELSE IF later /= {} THEN [segment |-> Min(later), at |-> 1, i |-> 0]
          ELSE Returned

\* A handle the exercise has not opened, or has closed: the call may do anything.
Stray(h) == h /= "none" /\ local[h] /= "open"
Notes(kind, p) == undefined' = undefined \cup IF p THEN {kind} ELSE {}

\* "full" is the description of the key itself, "entry" the entry of this iteration.
There(o) ==
    CASE o = "entry" -> pc.i < Len(entries) [] o = "full" -> world["key"] > 0 [] OTHER -> world[o] > 0
SizeOf(o) == CASE o = "entry" -> entries[pc.i + 1] [] o = "full" -> 1 [] OTHER -> world[o]

Doing(ops) == Running /\ This.op \in ops /\ UNCHANGED test

\* What "return" does before it returns; the handle may be a stray one.
CloseAndReturn(h) == local' = [local EXCEPT ![h] = "closed"] /\ pc' = Returned

OpenHandle ==
    /\ Doing({"open"})
    /\ \E opened \in BOOLEAN :
        /\ opened /\ ~Stray(This.via) => There(This.o) \/ This.how = "create"
        /\ local' = IF opened THEN [local EXCEPT ![This.v] = "open"] ELSE local
        /\ world' = IF opened /\ ~There(This.o) THEN [world EXCEPT ![This.o] = 1] ELSE world
        /\ disturbed' = (disturbed \/ ~opened)
        /\ Notes("handle", Stray(This.via))
        /\ UNCHANGED <<list, outstanding, entries, size, n>>
        /\ IF ~opened /\ This.how = "return" THEN pc' = Returned ELSE GoOn

\* Asking for a size: what is not there has none, and any request may be refused.
AskSize ==
    /\ Doing({"size"})
    /\ \E answer \in {"delivered", "not_found", "refused"}, s \in 1..MaxSize :
        /\ ~Stray(This.via) /\ answer /= "refused" => (answer = "delivered") = There(This.o)
        /\ answer = "delivered" /\ ~Stray(This.via) => s = SizeOf(This.o)
        /\ size' = IF answer = "delivered" THEN s ELSE size
        /\ disturbed' = (disturbed \/ answer = "refused")
        /\ UNCHANGED <<list, outstanding, n, shared>>
        /\ \/ This.how = "return" /\ (answer = "not_found" \/ size' = Garbage)
              /\ CloseAndReturn(This.via)
           \/ ~(This.how = "return" /\ answer = "not_found") /\ UNCHANGED local /\ GoOn
        /\ undefined' = undefined \cup (IF Stray(This.via) THEN {"handle"} ELSE {})
                \cup (IF This.how = "return" /\ answer = "refused" /\ size = Garbage
                      THEN {"size"} ELSE {})

AllocateBlock ==
    /\ Doing({"allocate"})
    /\ \E block \in {"raw", "NULL"} :
        /\ local' = [local EXCEPT ![This.v] = block]
        /\ outstanding' = outstanding + IF block = "raw" THEN 1 ELSE 0
        /\ disturbed' = (disturbed \/ block = "NULL")
    /\ Notes("size", This.how = "sized" /\ size = Garbage)
    /\ UNCHANGED <<list, size, n, shared>>
    /\ GoOn

\* The data must fit in ulSize bytes, which becomes the size needed.
Fits(c) == c.via = "none" \/ c.o = "file" \/ size = Garbage \/ SizeOf(c.o) <= size
CanDeliver(c) == ~Stray(c.via) /\ There(c.o) /\ Fits(c)
\* Given a NULL block the call fails, unless it stops the system (UseNull).
AskData ==
    /\ Doing({"data"})
    /\ \E delivered \in BOOLEAN, m \in 0..MaxEntries :
        /\ delivered => local[This.v] /= "NULL" /\ (CanDeliver(This) \/ Stray(This.via))
        /\ n' = IF This.o /= "full" THEN n
                ELSE IF delivered /\ ~Stray(This.via) THEN Len(entries) ELSE m
        /\ size' = IF This.via /= "none" /\ This.o /= "file" /\ ~Stray(This.via) /\ There(This.o)
                   THEN SizeOf(This.o) ELSE size
        /\ disturbed' = (disturbed \/ (~delivered /\ CanDeliver(This)))
        /\ Notes("handle", Stray(This.via))
        /\ UNCHANGED <<list, outstanding, shared>>
        /\ IF ~delivered /\ This.how = "return"
           THEN CloseAndReturn(This.via)
           ELSE /\ local' = IF delivered THEN [local EXCEPT ![This.v] = "filled"] ELSE local
                /\ GoOn

FillBlock ==
    /\ Doing({"fill"})
    /\ local[This.v] /= "NULL"
    /\ local' = [local EXCEPT ![This.v] = "filled"]
    /\ UNCHANGED <<list, outstanding, size, n, shared, disturbed, undefined>>
    /\ GoOn

UseBlock ==
    /\ Doing({"use"})
    /\ local[This.v] /= "NULL"
    /\ Notes("data", This.how /= "if_ok" /\ local[This.v] /= "filled")
    /\ UNCHANGED <<memory, size, n, shared, disturbed>>
    /\ GoOn

\* A string whose buffer is NULL may be freed.
FreeBlock ==
    /\ Doing({"free"})
    /\ local[This.v] = "NULL" => This.how = "string"
    /\ IF local[This.v] \in {"raw", "filled"}
       THEN /\ local' = [local EXCEPT ![This.v] = "freed"]
            /\ outstanding' = outstanding - 1
       ELSE UNCHANGED <<local, outstanding>>
    /\ Notes("pool", local[This.v] \notin {"raw", "filled", "NULL"})
    /\ UNCHANGED <<list, size, n, shared, disturbed>>
    /\ GoOn

\* Touching what is behind a NULL pointer stops the system.
UseNull ==
    /\ Doing({"data", "fill", "use", "free"}) /\ This.how /= "string"
    /\ local[This.v] = "NULL"
    /\ pc' = Stopped
    /\ Notes("NULL", TRUE)
    /\ UNCHANGED <<memory, size, n, shared, disturbed>>

CloseHandle ==
    /\ Doing({"close"})
    /\ local' = [local EXCEPT ![This.v] = "closed"]
    /\ Notes("handle", Stray(This.v))
    /\ UNCHANGED <<list, outstanding, size, n, shared, disturbed>>
    /\ GoOn

\* Creating, setting or writing an object; deleting one; moving the file pointer.
ChangeObject ==
    /\ Doing({"put", "delete", "position"})
    /\ \/ /\ ~Stray(This.via)
          /\ \E s \in 1..MaxSize :
                world' = CASE This.op = "put"      -> [world EXCEPT ![This.o] = s]
                           [] This.op = "delete"   -> [world EXCEPT ![This.o] = 0]
                           [] This.op = "position" -> world
          /\ UNCHANGED disturbed
       \/ UNCHANGED world /\ disturbed' = TRUE
    /\ Notes("handle", Stray(This.via))
    /\ UNCHANGED <<memory, entries, size, n>>
    /\ GoOn

\* The conversion allocates the buffer of its result.
ConvertString ==
    /\ Doing({"convert"})
    /\ \/ /\ local' = [local EXCEPT ![This.v] = "filled"]
          /\ outstanding' = outstanding + 1
          /\ UNCHANGED disturbed
       \/ UNCHANGED <<local, outstanding>> /\ disturbed' = TRUE
    /\ UNCHANGED <<list, size, n, shared, undefined>>
    /\ GoOn

\* Writing to a string literal goes well or stops the system.
OverwriteLiteral ==
    /\ Doing({"overwrite"})
    /\ Notes("literal", TRUE)
    /\ UNCHANGED <<memory, size, n, shared, disturbed>>
    /\ GoOn \/ pc' = Stopped

\* The list is filled at its head and emptied from its tail; the array from its first element.
InsertBlock ==
    /\ Doing({"insert"})
    /\ list' = Append(list, local[This.v])
    /\ UNCHANGED <<local, outstanding, size, n, shared, disturbed, undefined>>
    /\ GoOn
RemoveBlock ==
    /\ Doing({"remove"})
    /\ local' = [local EXCEPT ![This.v] = Head(list)]
    /\ list' = Tail(list)
    /\ UNCHANGED <<outstanding, size, n, shared, disturbed, undefined>>
    /\ GoOn

\* Other processes change an object, or the entries of the key.
OthersChange ==
    /\ Running
    /\ \/ /\ \E o \in DOMAIN world, s \in 0..MaxSize : world' = [world EXCEPT ![o] = s]
          /\ UNCHANGED entries
       \/ /\ Enumerates
          /\ entries' \in SeqOf(1..MaxSize, MaxEntries)
          /\ UNCHANGED world
    /\ shared' /= shared
    /\ disturbed' = TRUE
    /\ UNCHANGED <<test, pc, memory, size, n, undefined>>

-----------------------------------------------------------------------------
Init ==
    /\ test \in DOMAIN DriverEntry
    /\ pc = [segment |-> 1, at |-> 1, i |-> 0]
    /\ local = [v \in Locals(test) |-> "garbage"]
    /\ list = <<>> /\ outstanding = 0
    /\ size = Garbage /\ n = 0
    /\ world \in [Objects(test) -> 0..MaxSize]
    /\ entries \in IF Enumerates THEN SeqOf(1..MaxSize, MaxEntries) ELSE {<<>>}
    /\ disturbed = FALSE /\ undefined = {}

Next ==
    \/ OpenHandle \/ AskSize \/ AllocateBlock \/ AskData \/ FillBlock \/ UseBlock
    \/ FreeBlock \/ UseNull \/ CloseHandle \/ ChangeObject \/ ConvertString
    \/ OverwriteLiteral \/ InsertBlock \/ RemoveBlock \/ OthersChange

Spec == Init /\ [][Next]_vars

-----------------------------------------------------------------------------
(* Properties.                                                             *)

\* Every variable has its type.
TypeOK ==
    /\ test \in DOMAIN DriverEntry
    /\ Running => /\ pc.segment \in DOMAIN DriverEntry[test]
                  /\ pc.at \in DOMAIN DriverEntry[test][pc.segment].body
                  /\ pc.i \in 0..MaxEntries + Elements
    /\ \A v \in DOMAIN local :
          local[v] \in {"garbage", "open", "closed", "NULL", "raw", "filled", "freed"}
    /\ Len(list) <= Elements /\ ToSet(list) \subseteq {"NULL", "raw", "filled"}
    /\ outstanding \in 0..Elements + 2
    /\ size \in 0..MaxSize \cup {Garbage} /\ n \in 0..MaxEntries
    /\ \A o \in DOMAIN world : world[o] \in 0..MaxSize
    /\ entries \in SeqOf(1..MaxSize, MaxEntries)
    /\ undefined \subseteq {"handle", "size", "data", "pool", "NULL", "literal"}

\* An exercise that returns has closed every handle it opened and freed every block it was
\* given, whatever was refused and whoever changed the objects meanwhile.  Only QueryRegTest
\* keeps a block: the one of the value it read last, or failed to read.
EverythingReturned ==
    pc = Returned =>
        /\ \A v \in DOMAIN local : local[v] /= "open"
        /\ outstanding <= IF test = "QueryRegTest" THEN 1 ELSE 0

\* The exercises whose own text uses what it has not defined.
Faulty == {"StringCompareTest", "StringInitTest"}

\* As long as nothing was refused and nobody else touched the objects, an exercise uses only
\* handles it has opened, sizes and data it has asked for and blocks it owns, in every
\* iteration; and the two that look at the result of each query never use data that was not
\* delivered, even when the value changes between the query for its size and the one for its
\* data.
DefinedUnlessDisturbed ==
    /\ undefined /= {} => disturbed \/ test \in Faulty
    /\ test \in {"QueryRegTest", "RtlRegTest"} => "data" \notin undefined
=============================================================================
