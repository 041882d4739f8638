--------------------------- MODULE StandardLibrary ---------------------------
(***************************************************************************)
(* The virtual functions of /std/array.sbf, /std/string.sbf and            *)
(* /std/io.sbf, called by a program that also uses the instructions of     *)
(* Memory on the same heap.                                                *)
(*                                                                         *)
(* A String32 is a structure of a pointer to an array of int, a length and *)
(* a capacity.  The program owns the structure and may do with it what it  *)
(* does with any other: copy it, write its fields, delete it.              *)
(***************************************************************************)
EXTENDS Memory

CONSTANTS
  String32,      \* the structure type of strings
  Chars,         \* what the program pushes to a string
  MaxRead,       \* characters that readString32 finds in a stream
  Handles,       \* addresses that StreamManager::Streams has for its nodes
  Stdin, Stdout  \* those of the standard streams

ASSUME LibraryAssumption ==
  /\ String32 \in Structures /\ Fields[String32] = <<PointerType, LongType, LongType>>
  /\ Chars \subseteq Ints /\ MaxRead \in Nat
  /\ {Stdin, Stdout} \subseteq Handles /\ Stdin # Stdout
  /\ IsFiniteSet(Addresses)
  /\ WordSize >= 4 * MaxCells  \* a cell has more than four bytes

VARIABLE streams  \* what the stream at a handle is, or "none"

vars == <<memoryVars, streams>>

StreamKinds == {"none", "stdin", "stdout", "file"}
LibraryCodes == {"STDLIB_TYPEASSERTFAIL", "STDLIB_ARRAY_OUTOFRANGE", "STDLIB_IO_INVALIDSTREAM"}

\* An accessor of VirtualObject asserts a type that the object has not, a loop
\* never ends, a C++ exception leaves Interpret(), a stream is cast to what it
\* is not, or what lies past the end of a block is taken for an object.
LibraryFailures == {"assert", "hangs", "uncaught", "miscast", "past end"}

-----------------------------------------------------------------------------
(* What a call does to the heap *)

\* A call goes on, or ends, with this heap, and the string that it works on or
\* returns; or it fails.
Going(h, string) == [code |-> "running", heap |-> h, string |-> string]
Done(h) == Going(h, <<>>)
Failed(code) == [code |-> code]

GoesOn(result) == result.code = "running"

\* Each of the results is a failure, or what follows from it.
Then(results, step(_)) ==
  UNION {IF GoesOn(result) THEN step(result) ELSE {result} : result \in results}

ASSERT(test, code, results) == IF test THEN results ELSE {Failed(code)}

-----------------------------------------------------------------------------
(* array.copy *)

ElementType(h, p) == Cell(h, Moved(p, 1)).type

\* Count cells from p lie in its block.
Fits(h, p, count) == p.index + count - 1 <= Len(h[p.address])

\* Mutant of ObjectsOf: the count is one of cells.
CellsOf(h, p, count) == count

\* Cells of count objects of the type that is found at p.
ObjectsOf(h, p, count) == count * ObjectSize(Cell(h, p).type)

\* The heap after count cells from p were copied to q: memcpy of places that overlap
\* may also copy cell by cell, from the first on.
MemCpy(h, q, p, count) ==
  LET from    == [i \in 1 .. count |-> h[p.address][p.index + i - 1]]
      shift   == q.index - p.index
      forward == [i \in 1 .. count |-> h[p.address][p.index + ((i - 1) % shift)]]
  IN  {Done(Written(h, q, from))} \cup
      (IF q.address = p.address /\ shift \in 1 .. count - 1 THEN {Done(Written(h, q, forward))} ELSE {})

\* The size of the objects is found where the first one is.
CopyObjectUnsafe(h, q, p, count) ==
  ASSERT(IsLive(h, p), "past end",
  ASSERT(Fits(h, q, ObjectsOf(h, p, count)) /\ Fits(h, p, ObjectsOf(h, p, count)), "overrun",
    MemCpy(h, q, p, ObjectsOf(h, p, count))))

\* Mutant of Ends: the end of the range may be one past the count.
EndsAfter(h, p, begin, count) == (begin + count) % WordSize <= Cell(h, p).val + 1

\* begin + count <= GetCount(), in 64 bits.
Ends(h, p, begin, count) == (begin + count) % WordSize <= Cell(h, p).val

\* array.copy of arrays of a type.
ArrayCopy(h, dest, destBegin, src, srcBegin, count) ==
  ASSERT(Ends(h, dest, destBegin, count), "STDLIB_ARRAY_OUTOFRANGE",
  ASSERT(Ends(h, src, srcBegin, count), "STDLIB_ARRAY_OUTOFRANGE",
  ASSERT(destBegin + count < WordSize /\ srcBegin + count < WordSize, "wrapped",
    CopyObjectUnsafe(h, ElementAt(h, dest, destBegin), ElementAt(h, src, srcBegin), count))))

\* Of every range that the program may ask for.
ArrayCopies(h, dest, src) ==
  UNION {ArrayCopy(h, dest, destBegin, src, srcBegin, count) :
           destBegin \in Literals, srcBegin \in Literals, count \in Literals}

-----------------------------------------------------------------------------
(* Strings *)

Data(string) == string[2].val
Length(string) == string[3].val
Capacity(string) == string[4].val

StringOf(data, length, capacity) ==
  <<[type |-> String32, val |-> 0], [type |-> PointerType, val |-> data],
    [type |-> LongType, val |-> length], [type |-> LongType, val |-> capacity]>>

EmptyString == StringOf(Null, 0, 0)

\* Mutant of Suffices: off by one.
SufficesAlmost(capacity, required) == required <= capacity + 1

Suffices(capacity, required) == required <= capacity

\* The capacity when the loop of Expand32 has doubled it k times.
Doublings(capacity) ==
  LET doubled[k \in 0 .. WordSize] == IF k = 0 THEN capacity ELSE (2 * doubled[k - 1]) % WordSize
  IN  doubled

\* The capacity that the loop of Expand32 ends with, or 0 if it never ends.
Grown(capacity, required) ==
  LET doubled == Doublings(capacity)
      enough  == {k \in 1 .. WordSize : doubled[k] >= required}
  IN  IF capacity = 0 THEN required
      ELSE IF enough = {} THEN 0
      ELSE doubled[CHOOSE k \in enough : \A l \in enough : k <= l]

\* PDREF(data) and GetElement of it, if it is an array of int.
ItemFailure(h, data) ==
  IF data = Null THEN "null"
  ELSE IF ~IsLive(h, data) THEN "freed"
  ELSE IF Cell(h, data).type # ArrayType \/ ElementType(h, data) # IntType THEN "assert"
  ELSE "running"

Items(h, data, results) == ASSERT(ItemFailure(h, data) = "running", ItemFailure(h, data), results)

\* Mutant of Replaced: the old buffer is not deleted.
ReplacedOnly(h, a, buffer, data) == [h EXCEPT ![a] = buffer]

\* DeleteObject of the old buffer, once the new one is at a.
Replaced(h, a, buffer, data) ==
  IF data = Null THEN [h EXCEPT ![a] = buffer] ELSE Deallocated([h EXCEPT ![a] = buffer], data)

\* Mutant of Copied: CopyObject is not called.
CopiedNothing(h, buffer, data) == buffer

\* CopyObject, as far as both arrays go.
Copied(h, buffer, data) ==
  IF data = Null THEN buffer
  ELSE [i \in DOMAIN buffer |->
          IF i > 1 /\ i <= Len(h[data.address]) THEN h[data.address][i] ELSE buffer[i]]

Expand32(h, string, required) ==
  LET capacity == Grown(Capacity(string), required)
      data     == Data(string)
      buffer   == NewArray(IntType, capacity)
      expanded == {Going(Replaced(h, a, Copied(h, buffer, data), data),
                         StringOf(First(a), Length(string), capacity)) : a \in Allocatable(h, buffer)}
  IN  IF Suffices(Capacity(string), required) THEN {Going(h, string)}
      ELSE ASSERT(capacity # 0, "hangs",
           ASSERT(ArraySize(IntType, capacity) < WordSize, "wrapped",
           ASSERT(Allocatable(h, buffer) # {}, "null",
             IF data = Null THEN expanded ELSE Items(h, data, expanded))))

\* ITEM(data, at + i).SetInt(text[i]) for every i.
SetInts(h, string, at, text) ==
  LET first == Moved(Data(string), at + 1)
      ints  == [i \in DOMAIN text |-> [type |-> IntType, val |-> text[i]]]
  IN  IF text = <<>> THEN {Going(h, string)}
      ELSE Items(h, Data(string),
           ASSERT(Fits(h, first, Len(text)), "overrun", {Going(Written(h, first, ints), string)}))

\* The string at p is the one that the call worked on, now of that length.
SetLength(h, p, string, length) ==
  {Done(Written(h, p, StringOf(Data(string), length, Capacity(string))))}

Push(h, p, value) ==
  LET string   == ObjectAt(h, p)
      required == (Length(string) + 1) % WordSize
  IN  Then(Then(Expand32(h, string, required),
        LAMBDA expanded : SetInts(expanded.heap, expanded.string, Length(string), <<value>>)),
        LAMBDA set : SetLength(set.heap, p, set.string, required))

Concat(h, p, q) ==
  LET string   == ObjectAt(h, p)
      count    == Length(ObjectAt(h, q))
      required == (Length(string) + count) % WordSize
      \* The memcpy, from the buffer of the string at q as it is by now.
      Copy(expanded) ==
        LET now == Written(expanded.heap, p, expanded.string)
            src == Data(ObjectAt(now, q))
        IN  Items(now, Data(expanded.string),
            ASSERT(IsLive(now, q), "freed",
            Items(now, src,
              Then(CopyObjectUnsafe(now, ElementAt(now, Data(expanded.string), Length(string)),
                                    ElementAt(now, src, 0), count),
                   LAMBDA copied : SetLength(copied.heap, p, expanded.string, required)))))
  IN  Then(Expand32(h, string, required), Copy)

\* Mutant of Destroy: the structure is freed instead of the buffer.
DestroyStructure(h, p) == {Done(Deallocated(h, p))}

\* The structure stays as it is.
Destroy(h, p) ==
  LET data == Data(ObjectAt(h, p))
  IN  {Done(IF data = Null THEN h ELSE Deallocated(h, data))}

\* Mutant of ConvertFromCppString32: the length is not set.
ConvertWithoutLength(h, string, text) ==
  Then(Expand32(h, string, Len(text)), LAMBDA expanded : SetInts(expanded.heap, expanded.string, 0, text))

ConvertFromCppString32(h, string, text) ==
  Then(Expand32(h, string, Len(text)),
    LAMBDA expanded : SetInts(expanded.heap,
      StringOf(Data(expanded.string), Len(text), Capacity(expanded.string)), 0, text))

\* For a length beyond all memory u32string may throw.
ConvertToCppString32(h, p) ==
  LET string == ObjectAt(h, p)
  IN  IF Length(string) = 0 THEN {Done(h)}
      ELSE Items(h, Data(string),
             ASSERT(Fits(h, Moved(Data(string), 1), Length(string)), "overrun", {Done(h)}))
           \cup {Failed("uncaught") : length \in {Length(string)} \ 0 .. MaxCells}

-----------------------------------------------------------------------------
(* Calls *)

\* PDREF_A of a parameter: it is no pointer, or designates no object of the type.
PDREF_A(type) == Misses({type}, "null", "STDLIB_TYPEASSERTFAIL") \/ End("STDLIB_TYPEASSERTFAIL")

\* The call ends with one of the results.  The program gets the addresses of the
\* buffers that were allocated from the strings.
Return(results) ==
  \E result \in results :
    IF GoesOn(result)
      THEN /\ heap' = result.heap
           /\ known' = known \cup {a \in Addresses : result.heap[a] # <<>>}
           /\ top' = result.string
           /\ UNCHANGED status
      ELSE End(result.code)

\* A structure is pushed, if the stack has room for it.
PushStructure(results) == End("null") \/ Return(results)

ArrayCall ==
  \/ PDREF_A(ArrayType)
  \/ \E dest, src \in Live({ArrayType}) :
       Return(ASSERT(ElementType(heap, dest) = ElementType(heap, src), "STDLIB_TYPEASSERTFAIL",
         ArrayCopies(heap, dest, src)))

StringCall ==
  \/ PushStructure({Going(heap, EmptyString)})
  \/ PDREF_A(String32)
  \/ \E p \in Live({String32}) : \E value \in Chars : Return(Push(heap, p, value))
  \/ \E p, q \in Live({String32}) : Return(Concat(heap, p, q))
  \/ \E p \in Live({String32}) : Return(Destroy(heap, p))

\* A stream of the kind serves the direction; the standard streams throw
\* bad_function_call in the other one.
Serves(kind, direction) ==
  \/ kind = "file"
  \/ kind = "stdin" /\ direction = "read"
  \/ kind = "stdout" /\ direction = "write"

Valid(handle, results) == ASSERT(streams[handle] # "none", "STDLIB_IO_INVALIDSTREAM", results)

\* Either way the conversion from or to UTF-8 throws when the text is none.
Served(handle, direction, results) ==
  {Failed("uncaught")} \cup (IF Serves(streams[handle], direction) THEN results ELSE {})

\* Strings that may have lain on the stack where readString32 puts its result:
\* PushStructure writes the types of the fields over them, and
\* ConvertFromCppString32 takes the values as they are; the length it sets before
\* it is read.  A pointer into a block would come back as it is, which a program can
\* have by tstore as well, or fail an assertion.
StaleStrings ==
  {StringOf(data, 0, capacity) : data \in {Null} \cup {First(a) : a \in known}, capacity \in Literals}

Texts == UNION {[1 .. n -> Chars] : n \in 0 .. MaxRead}

\* readString32, of whatever the stream has and the stack had.
StringsRead(h) == UNION {ConvertFromCppString32(h, stale, text) : stale \in StaleStrings, text \in Texts}

StreamCall ==
  \E handle \in Handles :
    \/ Return(Valid(handle, Served(handle, "read", {Done(heap)})))
    \/ Return(Valid(handle, Served(handle, "write", {Done(heap)})))
    \/ PushStructure(Valid(handle, Served(handle, "read", StringsRead(heap))))
    \/ PDREF_A(String32)
    \/ \E p \in Live({String32}) : Return(Valid(handle,
         Then(ConvertToCppString32(heap, p), LAMBDA text : Served(handle, "write", {Done(heap)}))))

\* The stream is opened whether there is such a file or not.
OpenFile ==
  /\ \/ PDREF_A(String32)
     \/ \E p \in Live({String32}) : PushStructure(ConvertToCppString32(heap, p))
  /\ IF status' # "running"
       THEN UNCHANGED streams
       ELSE \E handle \in Handles :
              streams[handle] = "none" /\ streams' = [streams EXCEPT ![handle] = "file"]

\* A standard stream is taken for a FileStream.
CloseFile(handle) ==
  \/ streams[handle] = "none" /\ End("STDLIB_IO_INVALIDSTREAM") /\ UNCHANGED streams
  \/ streams[handle] \in {"stdin", "stdout"} /\ End("miscast") /\ UNCHANGED streams
  \/ /\ streams[handle] = "file"
     /\ streams' = [streams EXCEPT ![handle] = "none"]
     /\ Return({Done(heap)})

-----------------------------------------------------------------------------

Init ==
  /\ MemoryInit
  /\ streams = [handle \in Handles |-> CASE handle = Stdin -> "stdin"
                                         [] handle = Stdout -> "stdout"
                                         [] OTHER -> "none"]

Call ==
  /\ Fetch
  /\ \/ (ArrayCall \/ StringCall \/ StreamCall) /\ UNCHANGED streams
     \/ OpenFile
     \/ \E handle \in Handles : CloseFile(handle)

Next == (MemoryNext /\ UNCHANGED streams) \/ Call

Spec == Init /\ [][Next]_vars

-----------------------------------------------------------------------------
(* Properties *)

TypeOK ==
  /\ MemoryTypeOK
  /\ streams \in [Handles -> StreamKinds]
  /\ status \in {"running"} \cup ExceptionCodes \cup Failures \cup LibraryCodes \cup LibraryFailures

StringsIn(h) ==
  UNION {{[address |-> a, index |-> i] : i \in {j \in DOMAIN h[a] : h[a][j].type = String32}} : a \in Addresses}

\* A string has no buffer, and is empty, or has one that is as long as its capacity.
IsString(h, string) ==
  \/ string = EmptyString
  \/ /\ ItemFailure(h, Data(string)) = "running"
     /\ IsAddress(h, Data(string))
     /\ Cell(h, Data(string)).val = Capacity(string)
     /\ Length(string) <= Capacity(string)

\* The strings in the heap are well formed and share no buffers.
Sound(h) ==
  /\ \A p \in StringsIn(h) : IsString(h, ObjectAt(h, p))
  /\ \A p, q \in StringsIn(h) :
       p # q => Data(ObjectAt(h, p)) = Null \/ Data(ObjectAt(h, p)) # Data(ObjectAt(h, q))

\* The program runs, and has not broken a string: destroyed one that it keeps, written
\* its fields so that it is none, or copied one that has a buffer.
Disciplined ==
  /\ Fetch /\ Sound(heap)
  /\ top # <<>> /\ top[1].type = String32 =>
       /\ IsString(heap, top)
       /\ Data(top) # Null => \A p \in StringsIn(heap) : Data(ObjectAt(heap, p)) # Data(top)

TextOf(h, string) == [i \in 1 .. Length(string) |-> h[Data(string).address][i + 1].val]
Text(h, p) == TextOf(h, ObjectAt(h, p))

Buffer(h, p) == Data(ObjectAt(h, p))

\* What the call leaves as it was: every other string, and every block that is
\* neither the string's own, nor its buffer, nor was free.
OthersUntouched(h, p, after) ==
  \A a \in Addresses \ (Free(h) \cup {p.address}) :
    Buffer(h, p) = First(a) \/ after[a] = h[a]

\* The string at p has the text; it, and it alone, has changed; the strings are sound,
\* and the blocks are as many as they were, unless the string had no buffer.
BecomesText(h, p, result, text) ==
  GoesOn(result) =>
    /\ Sound(result.heap)
    /\ Text(result.heap, p) = text
    /\ OthersUntouched(h, p, result.heap)
    /\ Cardinality(Free(result.heap)) =
         Cardinality(Free(h)) - IF Buffer(h, p) = Null /\ Buffer(result.heap, p) # Null THEN 1 ELSE 0

\* push appends the character: through the doubling of the buffer, the copy and the
\* release of the old one, no text is lost, no other string changes and no buffer is
\* leaked.
PushAppends ==
  Disciplined => \A p \in StringsIn(heap), value \in Chars :
    \A result \in Push(heap, p, value) : BecomesText(heap, p, result, Append(Text(heap, p), value))

\* concat appends the other text, also of the string to itself, whose buffer Expand32
\* may have replaced and released before it is copied from.
ConcatJoins ==
  Disciplined => \A p, q \in StringsIn(heap) :
    \A result \in Concat(heap, p, q) : BecomesText(heap, p, result, Text(heap, p) \o Text(heap, q))

\* destroy frees the string's buffer, and nothing else: the structure stays and
\* designates freed memory.
DestroyFreesBuffer ==
  Disciplined => \A p \in StringsIn(heap) : \A result \in Destroy(heap, p) :
    /\ result.heap[p.address] = heap[p.address]
    /\ OthersUntouched(heap, p, result.heap)
    /\ Buffer(heap, p) # Null => Buffer(heap, p).address \in Free(result.heap)

\* What readString32 returns, where the stack had been empty bytes: a well-formed
\* string of the text that was read, in a buffer of its own.
ReadReturnsText ==
  Disciplined => \A text \in Texts : \A result \in ConvertFromCppString32(heap, EmptyString, text) :
    GoesOn(result) =>
      /\ IsString(result.heap, result.string)
      /\ TextOf(result.heap, result.string) = text
      /\ \A a \in Addresses \ Free(heap) : result.heap[a] = heap[a]

\* Calls on sound strings stay in the blocks they are for: what fails is an
\* allocation whose failure is not looked at, or concat of a string that has no buffer.
StringsStayInBlocks ==
  Disciplined =>
    /\ \A p \in StringsIn(heap), value \in Chars : \A result \in Push(heap, p, value) :
         result.code \in {"running", "null"}
    /\ \A p, q \in StringsIn(heap) : \A result \in Concat(heap, p, q) :
         result.code \in {"running", "null"}
    /\ \A p \in StringsIn(heap) : \A result \in ConvertToCppString32(heap, p) : GoesOn(result)

\* The element's cells.
Element(h, p, i) ==
  LET q == ElementAt(h, p, i) IN SubSeq(h[q.address], q.index, q.index + ObjectSize(Cell(h, q).type) - 1)

\* The result has the elements of the range, and is otherwise as it was.
HasCopy(h, dest, destBegin, src, srcBegin, count, result) ==
  /\ \A a \in Addresses \ {dest.address} : result.heap[a] = h[a]
  /\ \A i \in 0 .. Cell(h, dest).val - 1 :
       Element(result.heap, dest, i) =
         IF i \in destBegin .. destBegin + count - 1
           THEN Element(h, src, i - destBegin + srcBegin)
           ELSE Element(h, dest, i)

\* array.copy stays in its arrays and is exact: it copies the elements of the range and
\* changes nothing else, unless it copies within an array to places after those that it
\* copies from (memcpy is called for ranges that overlap), the ends of the ranges were
\* computed modulo 2^64, or it copies no elements from the end of an array (it looks
\* at the type of what lies there all the same).
ArrayCopyIsExact ==
  Disciplined => \A dest, src \in Live({ArrayType}) :
    ElementType(heap, dest) = ElementType(heap, src) =>
      \A destBegin, srcBegin, count \in Literals :
        \A result \in ArrayCopy(heap, dest, destBegin, src, srcBegin, count) :
          \/ GoesOn(result) /\ HasCopy(heap, dest, destBegin, src, srcBegin, count, result)
          \/ GoesOn(result) /\ dest = src /\ destBegin - srcBegin \in 1 .. count - 1
          \/ result.code \in {"wrapped", "STDLIB_ARRAY_OUTOFRANGE"}
          \/ result.code = "past end" /\ count = 0 /\ srcBegin = Cell(heap, src).val

=============================================================================
