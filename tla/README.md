# A formal model of ShitVM

ShitVM is a virtual machine for the bytecode of the documents `docs/ShitBC.md`
(the instructions) and `docs/ShitBF.md` (the file format): a single-threaded
interpreter with one stack, a heap of memory that the program frees, a
generational garbage collector and a small standard library.  This directory
holds TLA+ specifications of it, their TLC configurations, and TLAPS proofs.
Paths are relative to the repository.

## The system

| Part | State | Operations | What makes it correct |
|---|---|---|---|
| `Stack` (`src/Stack.cpp`) | bytes, `m_Used` | push, pop, get, expand, reduce | never above its capacity nor below its bottom |
| `Interpreter` (`src/Interpreter.cpp`, `src/inst/`) | the stack, `m_StackFrame`, `m_Depth`, `m_LocalVariables`, `m_Exception` | one per instruction, the loop, call, ret | objects stay whole on the stack; ret finds the caller; a function cannot touch its caller |
| Memory instructions (`inst-Memory.cpp`) | pointers on the stack and in the heap | lea, flea, alea, tload, tstore, new, delete, gcnew, ... | a pointer designates an object of the type that is read or written |
| Arithmetic (`inst-Operation.cpp`, `inst-TypeCast.cpp`) | none | on int, long, single, double, pointers | the value of the operation, at the edges of the widths too |
| `Heap` (`src/Heap.cpp`) | table of unmanaged blocks | allocate, deallocate, hand over to the collector | a block is freed once; a foreign address is refused |
| `ManagedHeapGeneration` (`src/GarbageCollector.cpp`) | list of blocks, the current one | allocate, new block, empty block, delete empty blocks, find | the current block is in the list; blocks do not overlap |
| `SimpleGarbageCollector` (`src/gc/`) | two generations, ages and marks, card table | allocate, minor and major collection | what is reachable survives whole, and every pointer to it is updated |
| Virtual functions (`src/virtual/`) | views of the stack and the heap | parameters, pushes, references | a virtual function is a function like any other |
| Standard library (`src/Loader.cpp`) | table of streams | `array.copy`, strings, streams | bounds of arrays and strings; a stream is used only while it is open |
| `Loader`, parser (`ShitCore`, a submodule) | modules, mappings | load | external: not in the repository |
| `ProgramOption`, `Main` | options | parse, verify, run | the rules about sizes |

They interact by calls only.  The interpreter owns the stack and calls the heap;
an allocation may run a collection, which reads the interpreter's locals as
roots and rewrites the pointers in them; a call of a virtual function runs C++
code that pushes on the same stack, and the interpreter executes its ret.

**What is hard here.**  Nothing runs concurrently and nothing is persisted: the
hazards are in the protocol between instructions.  All of the machine's data
structures, saved frames included, lie untyped on one stack, and the code moves
by sizes it reads from headers; several instructions use different sizes for the
same array.  Locals are offsets that other instructions may invalidate.  The
bytecode is not verified, so any sequence of instructions is an input.  In the
collector, Sweep gives out memory that still holds objects, a promotion may
start a major collection in the middle of a minor one, and what must be
remembered in the card table depends on every instruction that writes.  The
hazards are listed, each at its line, in `PROJECT.json`.

## The modules

| Module | Models | Checked by | Proved in |
|---|---|---|---|
| `CallStack` | the interpreter's stack, locals, frames, calls | `call_stack`, `any_bytecode`, `local_argument`, `mixed_swap` | `CallStack_proofs`, `Isolation_proofs`, `Caller_proofs` |
| `Activations` | what call and ret promise: the abstract specification | `call_stack` | `Caller_proofs` |
| `CallStackRefinement` | how `CallStack` implements `Activations` | `call_stack` | `Caller_proofs` |
| `Sweep` | Sweep and MoveSurvived of the collector | `sweep`, `oversized_sweep`, `oversized_survivor` | `Sweep_proofs` |
| `GenerationalGC` | what the collector keeps: marking, ages, promotion, card table, both collections | `generational`, `stores`, `majors` | `GenerationalGC_proofs` |
| `Generation` | a generation's list of blocks, the current one, and the addresses of cards | `generation` | `Generation_proofs` |
| `Memory` | the unmanaged heap and the instructions on pointers into it | `standard_library` | `Memory_proofs`, `Library_proofs` |
| `StandardLibrary` | array.copy, strings and streams, on the heap of `Memory` | `standard_library` | `Library_proofs` |

`StandardLibrary` extends `Memory`: its programs interleave the memory
instructions with calls of the library on one heap.  `CallStack`, `Sweep`,
`GenerationalGC` and `Generation` are separate views; where one leaves something
open as any choice, another is about it.  The MC modules give the constants
their values.

### CallStack

The variables are those of `Interpreter` (`Interpreter.hpp:48-58`): `mem` and
`used` are `m_Stack`, then `frame`, `depth`, `locals`, `exception`; `status`
says how far `Interpret()` is.  A cell is one object header with its value; a
structure or an array is a header cell and, below it, the cells of its fields or
elements, so that a wrong size splits an object in the model as it does in the
code.  A saved `StackFrame` is one cell of `NoneType`, the type the code gives
it.  Cells above `m_Used` are normalised to `Raw`.  The one place where the code
reads them, ret's move of the result after the pops, is one action.

Each handler of the code is an action of the same name, with its early returns
in their order; `Occur` is `OccurException`.  `InterpretCall` is split into
`CallFails`, `CallFunction` and `CallNative`.  A virtual function runs inside
the call: it may push objects and the last one is its result, it may throw, and
when its result found no room it goes on without it, as the accessors of
`VirtualContext` let it.  A dereference of a null pointer ends in the status
`crashed`.  `Next` lets any instruction with any operand follow any other: the
bytecode is universally quantified.  `UnknownOperand` stands for the handlers'
first test, operands that designate no constant, type, label or function.

`ScalarOnTop`, `NumberOnTop` and `PopTwoSameType` are the tests that the
operations of `inst-Operation.cpp` and `inst-TypeCast.cpp` share, `Yield` their
common end: scalars on top are replaced by one.  They differ in how many they
take, in the type of the result (a comparison always yields `IntType`) and in
div and mod, which have already popped the divisor when they throw.  `Unhandled`
is `top`: `docs/ShitBC.md:339` says that it casts to a pointer, but the switch
of the loop has no case for it, and its handler is never called.

The memory instructions and lea are actions too, with what they do to the stack:
which operands they look for, which of them they test for the newest local
variable (alea does not test the pointer below the index), what they leave there
and what is gone when they throw (inc and dec pop the pointer all the same).
Where a pointer leads is any choice: `BadTarget` throws one of `PointerErrors`, and
tload finds any of `Targets`, objects that may have cells without a type
(`ObjectOf`), because copy makes such structures and tstore writes them to the
heap.  What an instruction does in the heap is the subject of `Memory`; that
tstore, inc and dec may write to the stack itself through a pointer from lea is
left out.  A count whose size in bytes wraps around (`CalcArraySize`) passes, and
`CountOnTop` then ends as crashed, since InitArray writes on beyond all memory.

Two constants restrict the bytecode, because properties do not hold without them:
`LocalArguments` allows a call to pass an object that is a local variable, and
`MixedSizes` allows swap and store to exchange objects of different sizes
(`Exchangeable`), which the code compares too little to exclude.  There may be
structures of different sizes without it.  Nothing else is restricted.

Abstractions: `Scalars` are the fundamental types, of which `Numbers` are those
that arithmetic takes and that can count an array (single and double, which
cannot count, are left out); values are model values and an operation's result
is any of them, except that a division looks for `Zero`; labels are any
instruction of the function; the size of a frame is one cell; what a virtual
function pushed before it threw is not on the stack, which nothing reads any more.

### Activations and CallStackRefinement

`Activations` is a stack of records: the function, how far it is, its objects and
its locals, all its own.  The newest activation works on its own objects and
locals only; a call moves the arguments to a new activation; ret moves the
result back and resumes the caller after its call; of arguments that are arrays it
may leave elements between the caller's objects and the result, because ret pops
them by the size of the header.  The refinement cuts the one
stack of `CallStack` into those parts: the frame at depth d is `m_StackFrame` or
the saved frame with d saved frames below it, which is the one that `StackBegin`
of the next frame designates; the arguments below a frame and what lies above it
up to the next call's arguments are the activation's objects, and the part of
`m_LocalVariables` from `VariableBegin` on are its locals, relative to where its
part begins.  The mapping is a definition, `Activation(d)`, of the state alone;
after the end of `Interpret()` there are no activations.

### Sweep

A generation is a ring of blocks, numbered in the order of `Prev` from the block
where the sweep begins to fill.  `tops` says where the headers of the objects
are, `reached` which were marked, `aged` whose age becomes 32: all three are any
choice in `Init`, so that the module covers every result of the marking.
`newAddress` is the last entry of the pointer table of an object.  `Skip`,
`Promote` and `Keep` are the three ways through the body of the inner loop,
`NextBlock` the end of the outer one, `MoveObject` one memcpy, in any order
within a block because the pointer table is a hash table.  `Keep` ignores the result of the second `Expand` as the code does.  A survivor whose
place reaches below the bottom of a block ends in the phase `corrupt`; where the
block is still empty the code has a null pointer for the place, which is outside a
block as well.

### GenerationalGC

Where `Sweep` is about places, this module is about names: an object keeps its
name when it is moved, and a pointer that the collection should have rewritten
and did not is `Dangling` from then on.  `gen`, `age`, `fields` and `locals` are
what `m_YoungGeneration`, `m_OldGeneration`, `ManagedHeapInfo` and the local
variables hold; `dirty` is `m_CardTable`, kept for objects instead of for
64 bytes of addresses.  That several objects share a card is covered by
`Scannable`: a collection scans the remembered objects and any other old ones.

`Marked` is the result of `MarkGCRoots`, `CheckCardTable` or
`CheckYoungGeneration`, and `MarkGCObjects`: the least closed set.  `MinorGC`
is a minor collection whose promotions find room; `MajorGC` is the collection
that `Allocate` starts for an object that the young generation is too small for;
`MinorGCWithMajorGC` is the one that the first promotion of a minor collection
starts, with the pointer table of the minor collection, and `MajorGCMisreads`
the cases in which that collection reads a header that was not written yet or a
size from an object that has moved.  Whether a block has room is any choice.
After a collection the phase says which allocation comes next.  The phase
`broken` stands for a dereference of a null pointer or of freed memory.

`kind` tells objects whose pointers `UpdateCardTable` sees, the fields of a
structure, from those it does not: elements of arrays, and fields of inner
structures.  `causes` is a history variable and no part of the code: it says
which of the three things that break pointers have happened, a store of a young
pointer into an old object, the promotion of an object whose pointers are not
seen, and a major collection.  The properties about the collector are stated as
long as it is empty, or holds one of them.

A stale pointer that marking follows ends in `broken` (`MarkMisreads`), in a minor
collection and in the major one that it starts.

Left out: cards that stay dirty when their block is erased, through which a later
major collection may look at young objects that lie there, and keep more than it
does here; pointers on the operand stack, which are no roots, neither in the code
nor in the document (`docs/ShitBC.md:151-157`), so that every object is in a local
variable when it matters; and whether the block of a card is found, which is the
subject of `Generation`.

### Generation

The old generation as `ManagedHeapGeneration` keeps it: `blocks` is the list with
what is allocated in each block, from its end downwards, `current` the place of
`m_CurrentBlock`, `cards` the dirty cards by their numbers.  Blocks lie where the
allocator places them, not at multiples of a card.  There are two actions, the
allocation of a large object by the program and a minor collection that promotes
a survivor; either may run a major collection, which is one step: `GetEmptyBlock`,
`Sweep`, `UpdateCardTable`, `DeleteEmptyBlocks` (`Spared`) and `SetCurrentBlock` are
operators named as the functions of the code.  Which objects survive is any
subset.  The order of the survivors, and which block is filled next, follow
`Prev` round the list as in the code, and nothing assumes the list to be in the
order in which `Sweep` numbers its blocks.  The young generation is such a list
too, with objects as small as those that are promoted here.

A step that goes wrong ends in a status that says how: `bad_alloc` and `null` where
memory is exhausted, `lost` for a survivor without room, `no table` for the
null pointer table of the minor collection, `erased` for a current block that
`DeleteEmptyBlocks` erased, `end` for a card without a block.  All of them are
reachable; the properties say when.

Left out: that a minor collection promotes more than one object (the further
ones are further steps), and, as in `Sweep`, the copying itself.

### Memory

`heap` is `Heap::m_UnmanagedHeap` with the contents: at each address a sequence of
cells as in `CallStack`, empty where nothing is allocated.  A pointer is an
address and the place of a cell in the block.  `known` are the addresses that the
program has been given, and it may keep them after delete; calloc may return an
address again.  Since flea and alea give a pointer to every cell of a block, an
instruction finds on the stack any pointer to a live cell of a known block, null,
or a pointer to a freed block.  `top` is the structure on top of the stack, which
only a load or the library can make; scalars and pointers can always be pushed
and are not kept.

Each instruction has its early returns; `Misses` is the common start, a pointer
that is null, freed or of the wrong type.  tstore over an array compares the
counts and copies nothing (`DRefAndAssignArray`).  `ArraySize` is computed without
a bound, and a count whose size does not fit in `WordSize` ends in the status
`wrapped`, where the code writes beyond the block.  An exception or a failure ends
the execution.

### StandardLibrary

The functions of `Loader.cpp` on the heap of `Memory`, each one step, as it is
for the program.  Inside, a function is a composition of operators on heaps that
are named as the code's helpers: `Expand32` returns the heaps and strings that it
may leave, `Then` goes on from those and hands failures through, `ASSERT` is the
test of an accessor.  The order of allocation, copy, release and read is that of
the code: `Concat` reads the second string from the heap as it is after the first
was expanded, which matters when they are the same.  `CopyObjectUnsafe` copies
cells with memcpy, which, for ranges that overlap, has two outcomes.
`ConvertFromCppString32` starts from the fields that the structure which
`readString32` pushed happens to have: null or any address that the program has, and
any capacity.  A C++ exception leaves `Interpret()` with the status `uncaught`: a
standard stream used in the wrong direction, text that UTF-8 does not encode, and a
length beyond all memory in `ConvertToCppString32`.  `streams` is `StreamManager::Streams`.

A program may do with a string's structure what it does with any other, and some
of it breaks every string library: use after destroy, a copy whose original
grows, fields overwritten.  `Disciplined` says that it has not: strings are well
formed and share no buffers.  The properties of the string functions are about
disciplined states, and TLC explores on from these only, so that the heap is not
arbitrary garbage; a state that is not disciplined is still checked for types and
blocks.

## The runs

| Run | Shows | Bounds |
|---|---|---|
| `call_stack` | only headers are taken for objects; parameters stay below their frame, locals designate objects, own locals ascend; a function, and its return, leave the caller's objects, locals and frame as they were; a return replaces the arguments by the result, and leaves parts only of arrays; the stack implements `Activations` | 6 cells, one scalar, which is a number, one structure of two cells, an array of one such structure, also as an argument, functions of one and two arguments and a virtual one, 2 values; no pointers |
| `any_bytecode` | types, nesting of objects, chain of frames, for every bytecode and every argument, where swap and store exchange objects of one size | 5 cells, a number, a pointer and all instructions on pointers, the structure, an array of two numbers, also a function of no arguments, one value, operands that wrap around (0 and 15 of 16), all errors of operands, one of pointers |
| `local_argument` | violation: a local passed as an argument is gone after the call | as `call_stack`, with `LocalArguments` |
| `mixed_swap` | violation: swap of structures of different sizes moves a saved frame | 7 cells, structures of two and three cells, with `MixedSizes` |
| `sweep` | filling stays behind sweeping, places do not overlap, survivors are whole | 4 blocks of 2 cells, promotion |
| `oversized_sweep` | no block overflows, what is read as a header is one, and the sweep ends, with one block twice as large | 4 blocks, of 2, 2, 4 and 2 cells |
| `oversized_survivor` | violation: the survivor in the oversized block is lost | 3 blocks, of 2, 2 and 4 cells |
| `generational` | minor collections lose nothing and the card table remembers what it must, while `causes` is empty; whatever happened, a collection keeps what is reachable within its generation | 3 objects of one field, 2 locals, promotion at age 3 |
| `stores` | violation: a young object that was stored into an old one is lost | 3 objects of one field, 2 locals, promotion at age 2 |
| `majors` | violation: a major collection breaks as soon as an old object is reachable | as `stores` |
| `generation` | the current block stays in the list unless nothing survived; a survivor finds room, however the list has grown, unless a block is oversized; empty blocks do not pile up; what is remembered keeps a dirty card that leads to its block; a card has a block until one is erased | 4 places for blocks of 4 cells, objects of 2, 3 and 5 cells, cards of 4 cells, 1 empty block spared |
| `standard_library` | blocks stay whole, alea designates elements, push and concat yield the text and leak nothing, destroy frees one buffer, a read string is the text that was read, sound strings stay in their blocks, array.copy is exact | 4 addresses (symmetric), blocks of 4 cells, 13 cells in all, 2 strings, arrays of a structure of one int, one character, numbers 0, 1 and 15 of 16 |

Six cells hold two nested calls with an argument and a local each, or a
structure below a frame and one above it, which is what each of the properties
needs to be violated: every mutant listed in `PROJECT.json` is found within
these bounds.  Four blocks let the block being filled advance twice while the
sweep goes on.  Three objects are an old one, a young one that it points to, and
one that is created when they are collected; at least three is also what
promotion at different times needs.  `MinorGC` and its variants are bounded by
`Live' # Objects`: after a collection there is a name for the object to be
allocated.  What holds beyond them is what the proofs are for.

In `generation` the list has a full, a filled, an empty and an oversized block at
once; sparing 1 empty block instead of 8 makes the ninth the second; blocks begin
between cards (at 6, 13) and with them (at 20, 28).  In `standard_library` there is
room for two strings with buffers, or a string, its buffer and two arrays, and
buffers grow from 1 to 2 characters (blocks of 4 cells hold no more than 3, and a
failing allocation is one more case); index 15 makes the end of a range wrap
around, as does the count 15.  Deadlock is not checked there: the machine stops
after an exception.

Pointers are in `any_bytecode` and not in `call_stack`, where 6 cells and two values
are what the properties need: a pointer is one more scalar there, and what tload
brings is what a push or a copy brings.  The theorems are about both.

`TopIsReadable` is in `call_stack` and not in `any_bytecode` for a reason: with
local variables as arguments it does not hold.  A local that ret has left
designating a cell that is gone may come to designate an element of an array; a
structure made by copy, whose fields are stale bytes, can be stored over that
element; copy of the array, and pop of the copy, then leave the stale bytes on top.
This takes an array of structures and seven cells.  tload may bring such an array
from the heap, which is why `TopReadable` below assumes that it does not.

The five violations are disagreements with the documents (`docs/ShitBC.md`),
quoted in the findings of `PROJECT.json`.

**Fairness.**  `Sweep` assumes weak fairness of its next-state relation: it is a
sequential loop in one thread and nothing else runs meanwhile, so while it has a
step to take it takes it.  Liveness is claimed of nothing else; a bytecode may
loop for ever, and need never allocate or collect: the other modules assume no
fairness.

**Deadlock** is checked in every run but `standard_library`: `Stopped` and `Finished`
are the states where the program has really ended or its behaviour is undefined.

## The proofs

`CallStack_proofs` shows, for every capacity of the stack, every layout of types
allowed by `LayoutAssumption`, every set of functions and every operand, of all executions in which swap and store
exchange objects of one size (`~MixedSizes`),

* `TypeCorrectness`: `Spec => []TypeOK`,
* `Nesting`: `Spec => []ObjectsNested`,
* `CallerChain`: `Spec => []FrameChain`,

from one inductive invariant, their conjunction.  None of them is inductive
alone.  That the saved frame is found at `StackBegin` (`FrameChain`) needs that
no object reaches into a frame (`ObjectsNested`), since every pop, swap and
store moves as many cells as the header says; nesting needs that what is popped,
walked over or copied starts and ends at the boundary of an object; and both
need `used` between bottom and capacity.  The two lemmas that carry the proof
are `WalkCrossesNoFrame`, by which the walk over the arguments of a call stays
above the caller's frame, although ret takes smaller steps than call, and
`NestedReplaced`, by which a block of nested objects may replace another.

The assumption `~MixedSizes` is about what is executed and not about the types,
which may be of any sizes.  It is necessary: swap and store compare less than the
types, and the run `mixed_swap` breaks `FrameChain` with two structures of different
sizes.  The other thing that an execution may not do here is what `CallStack` leaves
out, to write through a pointer into the stack.

Two further modules are about programs that, besides, pass no local variable as an
argument (`~LocalArguments`), which is necessary, as `local_argument` shows.  Arrays
may be passed: call walks over an array argument by its whole size and ret by the
size of its header, so that `ReturnReplacesArguments` and `Activations` say what is
left.

`Isolation_proofs`: every active function has its own part of the stack,

* `Isolation`: `Spec => []Isolated`,
* `LocalsStay`: `Spec => []LocalsDesignateObjects`,
* `ArgumentsStay`: `Spec => []ParametersBelowFrame`,
* `OwnLocalsOrdered`: `Spec => []OwnLocalsAscend`.

None of the last three is inductive, nor are they together.  That a local still
designates an object after a pop, a swap or a store needs that no object above
the local reaches into it (`LocalsApart`): a pop of the top object then removes
at most the one local that is the top.  After ret it needs that the locals that
remain in `m_LocalVariables` lie below the arguments that ret takes off; that is
`ArgumentsHeld`, which says of every frame, and not of the running one only,
that a walk from below the frame passes over exactly its arguments and that all
locals of its callers are below the end of the walk.  That `store` of the last
local, when the local is on top, deletes it and no other needs that the own
locals ascend (`Ascending`), again for the frames of all callers, because the
property is back when they are.  `Isolated` is the conjunction.

In the same module: the top of the stack is always a header,

* `TopReadable`: `Spec => []TopIsReadable`, if tload finds no array that contains a
  cell without a type (`WholeElements`).

A copy of a structure writes the types of the structure and of nothing in it, so
that there are cells without a type on the stack.  The inductive invariant
`Readable` says where: strictly inside a structure that lies above them, and
never inside an array, whose elements come to the top when pop takes the header
of an array off alone.  It is preserved because a store cannot put a structure
over an element of an array: it would have to go through a local, and a local
designates an object that no object above reaches into (`LocalsApart`).

`Caller_proofs`: what a function leaves to its caller, and the refinement,

* `ReturnsReplaceArguments`: `Spec => ReturnReplacesArguments`,
* `CallersUntouched`: `Spec => CallerUntouched`,
* `ActivationsImplemented`: `Spec => ImplementsActivations`.

The first two are action properties that follow from `Isolated`.  For the first,
ret's walk over the arguments goes by smaller steps than call's did; `ReturnEnds`
shows that it ends between where the arguments end and where the frame begins, at
the boundary of an object, and at the end of the arguments if none of them is an
array.  The second needs besides that no two locals designate the same object (`LocalsDiffer`, proved
inductive), so that a store into an own local is no store into a caller's.  It
assumes that no operand is so large that its sum with `VariableBegin` wraps
around: load and store compute the index of a local by that sum, and an operand
close to 2^32 would be a caller's local.  (The theorem asks for
`operand + StackSize < WordSize`; operands of `call_stack` are of this kind,
those of `any_bytecode` are not.)

`ActivationsImplemented` has the same assumptions: the stack implements
`Activations`, every step being a step of `Activations` or none.  Its parts are

* what the mapping reads: the objects between two points are a recursive function
  that exists and is unique (`ObjectsDefined`, `ObjectsUnique`), which depends on
  nothing but the cells between the points (`ObjectsSame`), is cut where no object
  from above reaches below (`ObjectsSplit`), and has as many elements as a walk
  between the points takes steps (`ObjectsWalked`);
* the saved frames by their number from the bottom (`RankFacts`, `PlacePrefix`):
  `Chain` shows that they are the frames one finds by following `StackBegin`, and
  `Layers` that the parts of the activations lie above each other in this order;
* `LowerKept`: what leaves the cells, the frames and the locals below an activation
  leaves the activations there as they are.  The activation that waits for its
  callee ends where the callee's part begins, at the last argument's lower end, so
  the arguments must also stay locals, and of the same size, whatever the callee
  stores into them (`ArgumentsStayLocals` and `ArgumentsSized`, which is part of
  the step of `CallersUntouched`, `CallerKept`);
* the three kinds of steps.  `KindsOfStep`: only call and ret change more of
  `m_StackFrame` than `Caller`.  `WorkRefines` takes a step that does neither to
  `Work`, `CallRefines` a call to `Call`: the last objects of the caller become the
  first of the callee, `Arity` of them, whatever their sizes.  `ReturnRefines`
  takes ret to `Return`: the walk of ret over the arguments ends where the part of
  the returning activation begins, or above it at the boundary of an object, and
  what lies between are the objects that are left, only if an argument is an array
  (`ArrayPassed`).

`Sweep_proofs` shows, for every number of blocks, every capacity and whatever
they hold,

* `TypeCorrectness`: `Spec => []TypeOK`,
* `HeadersRead`: `Spec => []TopIsHeader`,
* `FillingStaysBehind`: `Spec => []FillsBehind`,
* `Reservation`: `Spec => []PlacesReserved`,
* `Survival`: `Spec => []SurvivorsIntact`,

the last three under `EqualCapacities`, which is necessary as
`oversized_survivor` shows.  The first two need no such assumption and follow
from `Shape`: the block being filled is at most the block being swept, since it
advances only when an object does not fit and an object always fits back into
the block from which it was just popped; there it lies where it was, so that the
header on top is the old one.  `FillsBehind` alone is not inductive: the block
being filled could catch up when the object does not fit.  The strengthening is
`Behind`: as long as filled and swept block are neighbours, what was reserved in
the one and what is left in the other fit into one block together; then an
object that does not fit into the filled block proves that there is an empty one
between them.  Hence survivors move to blocks with a lower number (`Descending`),
so that when the objects of a block are moved every later block is untouched
(`Moving`), and places do not overlap, so that no copy destroys an earlier one.

* `Progress`: `Spec => LeftDecreases`, in the same module and for blocks of any
  sizes: every step leaves less to do, in the lexicographic order of the phase, the
  number of the objects that are still to be visited while they are marked (or to be
  moved), the blocks, and the cells of the block being swept.  The cells alone do not
  decrease, nor do the objects: an object may be put back on the block it was on.
  That it is then visited again, marked no more, and popped, is why the number of
  marked objects comes first.

`Generation_proofs` shows, for blocks and objects of every size, cards of every
size, every allocator that does not place blocks over each other, and lists of
every length,

* `GenerationTypes`: `Spec => []TypeOK`,
* `CurrentSurviving`: `Spec => []CurrentSurvives`,
* `NothingIsLost`: `Spec => []NothingLost`,
* `EmptiesAreBounded`: `Spec => []EmptiesBounded`,
* `RememberedAreFound`: `Spec => []RememberedIsFound`,
* `CardsAreCovered`: `Spec => []CardsHaveBlocks`.

They are parts of one inductive invariant, `Sane` and `Remembers`.  None is
inductive alone, since a step is a whole collection: that the current block is not
erased needs that the block filled last is not empty, that a remembered object is
found needs that it was found where it lay before and that its card moved with it.
So most of the proof goes along the sweep, survivor by survivor (`KeepOK`), block by
block (`SweepBlockOK`) and round the list (`SweepIsOK`): `SweepOK` says what the
sweep has reached when so many blocks were swept.  That nothing is lost is the part
`Ahead`: the block being filled was swept before, or is the one that is being swept
and then holds no more than was already swept of it, since blocks are of one size
and the objects are the same.  `Spared` and `Sublist` number the blocks that are
left by counting; `RankFacts` and `SublistFacts` say that the numbering keeps them
all, in their order.  The object just allocated is not in a dirty card until
`MakeDirty` (`RemembersButLast`).  Nothing is assumed beyond `GenerationAssumption`.

`GenerationalGC_proofs` shows, for every number of objects, fields and local
variables, every graph of pointers and every age of promotion,

* `TypeCorrectness`: `Spec => []TypeOK`,
* `MinorCollectionsKeep`: `Spec => []MinorCollectionsSafe`,
* `CardTableRemembers`: `Spec => []Remembered`,
* `CollectionsKeepGenerations`: `Spec => GenerationsSurvive`.

`TypeOK` contains that pointers other than `Dangling` lead to live objects; it is
inductive because what is marked is closed (`MarkedClosed`) and a collection makes
every other pointer `Dangling`.  `MinorCollectionsSafe` speaks of reachable
objects, but it is inductive only for all live ones (`Sound`): an object that the
program cannot reach may be remembered, or share the card of one that is, and
will be scanned.  With it goes the body of `Remembered`, which is what makes an
old object that is not scanned hold nothing that moved.  `GenerationsSurvive`
needs only that the objects reached within a generation are in every closed set
(`WithinMarked`).  `Collected` states what both kinds of minor collections have in
common, so that types are proved once for them.

`Memory_proofs` shows, for blocks of any size, any structures of fundamental
fields, any width of counts and any set of literals, of programs that use the
memory instructions (`MemorySpec`),

* `TypeCorrectness`: `MemorySpec => []MemoryTypeOK`,
* `Wholeness`: `MemorySpec => []BlocksStayWhole`,
* `Elements`: `MemorySpec => []LeaDesignatesElement`.

The invariant is that every block is free or whole, that elements of arrays are
no arrays, that arrays have elements, and that a structure on top of the stack is
whole; wholeness of the blocks alone is not inductive, since tstore writes what
lies on the stack.  `ObjectLies` is the heart of it: where a block has a header of
a structure, in an array at whatever index, the cells of its fields follow and
are in the block, so that what tstore overwrites has the types of what it writes.

`Library_proofs` shows the same of programs that call the library too (`Spec` of
`StandardLibrary`), and what the functions promise, for any number of strings and
characters, arrays of any structure, and every order of calls and instructions,

* `LibraryTypes`: `Spec => []TypeOK`,
* `LibraryWholeness`: `Spec => []BlocksStayWhole`,
* `LibraryElements`: `Spec => []LeaDesignatesElement`,
* `ArrayCopyExact`: `Spec => []ArrayCopyIsExact`,
* `PushAppending`: `Spec => []PushAppends`,
* `ConcatJoining`: `Spec => []ConcatJoins`,
* `DestroyFrees`: `Spec => []DestroyFreesBuffer`,
* `ReadReturns`: `Spec => []ReadReturnsText`,
* `StringsStay`: `Spec => []StringsStayInBlocks`.

The inductive invariant is `LibraryInv`: that of `Memory_proofs`, and that streams
and the status have their types.  It is kept whatever the strings are: a program
may have overwritten their fields, and still an accessor that takes a block for an
array of int has tested its header (`IntArrayFacts`), SetInt and memcpy go on only
within it, and the one structure that is written is a string with fields of the
right types (`StringWhole`).  The promises need that the program has broken no
string (`Disciplined`, which the properties assume) and the invariant, no more.
They follow the code: `ExpandResult` says what `Expand32` may leave, `ExpandBuffers`
what that is for a sound string (its buffer, old or new, belongs to no other
string, and what was free and is not the new buffer still is), `TextIsSet` and
`CellsAreCopied` what is in the buffer then, `Prepares` that concat finds both
texts although the first string has moved, and `SoundAfter` that all strings are
sound again and no buffer has leaked.  `GrownBounded` bounds the loop of doublings
by an induction over the number of turns: it ends below twice what is required,
so it cannot wrap around, and `StringsStay` follows.

What the constants are assumed to be (`MemoryAssumption`, `LibraryAssumption`) the
code justifies: the null pointer is no address of a cell; there are finitely many
addresses; and counts are wide enough, `WordSize > 2 * MaxCells` and
`WordSize >= 4 * MaxCells`: sizes are computed in bytes with 64 bits, a cell has
more than four bytes, and calloc returns no block beyond the address space.

Only model-checked: `Terminates`, since liveness under fairness is out of the
prover's reach.  What it rests on is proved (`Progress`, for every number of blocks
and whatever they hold); that the sweep takes a step as long as it is not at the
end is for TLC, which finds no deadlock and, in `oversized_sweep`, no behaviour that
does not end.

## What is not modelled

* Writes through a pointer into the stack (tstore, inc, dec after lea): pointers of
  `Memory` lead into the heap, and the properties of `CallStack` are about programs
  without such writes.
* What gcnew, agcnew, tload and tstore do to managed objects, cell by cell:
  `GenerationalGC` has their effect on pointers between objects, and `CallStack` what
  they do to the stack.
* Hazards that the code does not guard against and the properties exclude, or that
  end the model, are listed in `PROJECT.json` without a property: operands that wrap,
  sizes and ranges computed with overflow, the array that store leaves on the stack,
  destroy of a string twice, what readString32 finds on the stack.
* In `Sweep` promoted objects always find room, and in `GenerationalGC` room is any
  choice; the modules about the collector are not composed.
* Structures in structures on the heap of `Memory`.
* The values of arithmetic and casts; bit operations of single and double.
* `top`, the documented cast to a pointer, has a handler and no case in the loop:
  `CallStack` has it as `Unhandled`, an instruction that does nothing.
* The parser and the resolution of mappings, which are in a submodule outside
  the repository; `IsObject` and `SameType` are modelled from how the code uses
  them and marked external.
* `ProgramOption` and `Main`: one pass over the arguments, before the machine starts.
* Printing, messages, versions, timing; what is written to streams.

## Plan

What would come next.

1. Pointers from lea that tload and tstore follow in `CallStack`: into objects on the
   stack, which ret and pop leave dangling.
2. `Arithmetic`: operations, comparisons and conditional jumps at a small width
   against mathematical definitions; the casts.
3. `Sweep` as the step of `Generation` that moves objects, and `GenerationalGC` on
   its addresses.
