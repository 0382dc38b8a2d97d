# A verification development of emdevif

emdevif is a C++20 library for embedded programs: containers without a heap,
an error handler, a thin layer over FreeRTOS (threads, mutexes, semaphores,
queues, event groups, heap), a logger and a timeline. It has no tests of its
own. This directory holds TLA+ modules of its parts, TLC configurations that
check them on small instances, and proofs that TLAPS checks for every value of
the constants. Paths below are relative to the repository.

## 1. Inventory

Each part: its state, its operations, whom it interacts with, what is hard, and
what makes it correct.

**Ring buffer** (`core/inc/emdevif/core/data_container/ring_buffer.hpp`).
State: an array, two indices `head_` and `tail_` of a modular type
`RingUnsigned`, a count. Operations: push and pop of one item or of a span (by
`memcpy` in two pieces, or item by item), peek, discard, clear, and writing in
place (`nextSlot`, `useNextSlot`, `havePushed`). A push into a full ring evicts
the oldest item. Used by the asynchronous logger. Hard: three redundant views
of one state, the wrap of the array and of `size_t`, three-call writes, code
that differs in constant evaluation. Correct when it is a first-in first-out
queue that loses only its oldest items and only when full.

**Asynchronous logger** (`logger/async/async.cpp`, interface in
`logger/inc/emdevif/logger/sync_async_interface.hpp`). State: a ring of line
buffers, a mutex, a binary semaphore, a printer thread of low priority, the
failure counter of the fatal path. Operations: `logInit`, `logDeInit`, the log
functions of six levels, the printer's loop. Calls the user's `getTimeLine`,
`printLogMessage` and formatter under the mutex. Hard: the wake-up protocol
between the ring and the semaphore, a formatter or an output that fails,
messages formatted in the slot of the oldest one, a Fatal message that stops
the program with the mutex held. Correct when no stored message is left with
the printer asleep, what is printed is printed once, whole and in order, calls
return and a Fatal call ends the program.

**Synchronous logger** (`logger/sync/sync.cpp`). State: one static line buffer
and an optional mutex. Operations as above. Hard: without the lock two threads
write one buffer; with it, every way out of a log call must unlock; `logInit` ignores that
the mutex could not be created, and called again in a static build makes the one in use anew;
`logDeInit` deletes it under whoever holds it; the room for the text is an unsigned
difference. Correct when a printed line is one thread's and stays in the buffer.

**Error handling** (`core/src/error_handler/`, `core/.../error_handler/`).
State: three function pointers (terminate, fatal handler, assert handler).
`fatalHandler` calls the callback and then `terminate`, which never returns
even if the user's function does. Hard: a pointer is read for its test and read again for
its call. Correct when no null handler is called and failures end a thread.

**Mutex, lock guard** (`system/.../mutex.hpp`, `mutex.inl`,
`core/.../resource_guard/lock_guard.hpp`). State: a FreeRTOS handle. `unlock` is
fatal when the give fails; moving into a non-empty object is fatal. The guard
unlocks in its destructor, whether or not it locked. Correct when sections are
exclusive and no way out leaves a mutex held.

**Semaphores** (`system/.../semaphore.hpp`, `semaphore.inl`). State: a handle; a
count bounded by the template argument. Releases of a full semaphore are
ignored silently. Correct when a permit goes to one `acquire`.

**Threads** (`system/.../thread.hpp`, `thread.inl`, `thread.cpp`). State: a
handle per `Thread` object, the task, and for `create(mulparam)` a tuple on the
heap. Hard: `exit` clears the object that the task was given, which may not have the handle
yet, or no longer after a move; `destroy` of a handle that is stale, who frees the tuple, `delayUntil`
over a wrap of the tick. Correct when a handle that lives has one holder, a
tuple one owner, and `destroy` reaches the task it was called for.

**System queue, message slot** (`system/.../sys_queue.hpp`, `sys_queue.inl`,
`sys_message_slot.hpp`). State: a FreeRTOS queue. Hard: tasks and interrupts on
one queue, timeouts, `forcePush` on queues longer than one. Correct when what a push
answers is what happened to its message.

**Event group** (`system/.../event_group.hpp`, `event_group_implements.inl`).
Hard: `setBits` of an interrupt is deferred to the timer task; `waitBits` judges
by the bits it got back; `sync` is a rendezvous. Correct when nobody is told of what
did not happen, and the meeting ends.

**Heap** (`system/.../heap.hpp`, `heap.inl`). `construct`, `destruct`,
`unique_ptr`, an allocator over `pvPortMalloc`.

**Inplace dynamic array** (`core/.../data_container/inplace_dynamic_array.hpp`).
State: raw storage of `N` slots and `size_`; the first `size_` slots hold
elements. Operations: constructors, assignments, `assign`, `resize`, `reserve`,
`at`, insertion and removal at the end and anywhere, `swap`, `eraseIf`. Hard:
which slots are assigned to, constructed, moved from and destroyed differs with
position, count and size; what does not fit must be refused and change nothing.
Correct when exactly the first `size_` slots are alive and the contents are
those of a bounded sequence.

**Inplace map** (`core/.../data_container/inplace_map.hpp`). State: two such
arrays, of keys in ascending order and of the values at the same indices. Operations: eight
forms of insertion, some with a hint, lookups, removals, `swap`. Hard: an
insertion that fails between the two arrays, hints, range insertions that stop
halfway. Correct when it is a finite function of at most `N` keys.

**Timeline** (`timeline/inc/emdevif/timeline.hpp`). Delays and durations over a
user's clock that wraps.

**Init guard, init once, defer** (`core/.../resource_guard/`,
`core/.../utils/init_once.hpp`). Initialise once, de-initialise on scope exit.

**Bit integers** (`core/.../utils/bit_int/`). Integers of n bits in a wider word,
the signed one as a residue that each read extends. Correct when every operator gives
the residue of the exact result.

**Static map, fixed string** (`core/.../data_container/`). A constant table with a key
comparison of the user's, a text with its length in its type. Hard: NULs inside a text,
keys that are equal and not the same.

**Concepts, literals, endian, when** (`core/`). Types and macros; no state.

**Peripheral interfaces** (`peripheral/`). Wrappers over the user's drivers.

**Build** (CMake, module interface units under `cmake/support/`).

## 2. Modules

| Module | Models | Kind |
| --- | --- | --- |
| `RingUnsigned` | the index type of the ring, in `size_t` arithmetic | operators |
| `RingBuffer` | a ring as a record of its members, each method an operator that gives the ring it leaves | operators |
| `RingBufferUse` | one thread that calls every method of a ring | state machine |
| `RingCalls` | the names of the calls of a ring's client and of their stages | operators |
| `EvictingFifo` | what a ring promises of each call | abstract specification |
| `AsyncLogger` | `logInit`, the log calls of any number of threads, the printer | state machine, uses `RingBuffer` |
| `MCAsyncLogger` | two producers for TLC | instance |
| `LogChannel` | what the logger promises | abstract specification |
| `InplaceDynamicArray` | the array as slots of storage with the lifetime of their elements, each method an operator | operators |
| `InplaceDynamicArrayUse` | a thread that calls every method of its arrays | state machine |
| `BoundedVector` | what the array promises | abstract specification |
| `InplaceMap` | the map as two sequences, each method an operator | operators |
| `InplaceMapUse` | a thread that calls every method of its maps | state machine, an array being what `BoundedVector` says |
| `FiniteMap` | what the map promises | abstract specification |
| `EventGroup` | an event group, its tasks, an interrupt and the timer task | state machine |
| `SysQueue` | a queue or message slot and a counting semaphore, with tasks and an interrupt | state machine |
| `Lifetimes` | creation, move and destruction of threads and kernel objects, the heap | state machine |
| `MCLifetimes` | `Lifetimes` with its symmetries for TLC | instance |
| `ErrorHandlers` | the three handlers and the ways to `terminate` | actions |
| `Guards` | `Mutex`, `LockGuard`, `InitGuard` | actions, extends `ErrorHandlers` |
| `SyncLogger` | the synchronous logger | state machine, extends `Guards` |
| `BitIntegers`, `BitOperations` | `UBitInt`, `BitInt`; the second has what needs bitwise operators | operators |
| `ClockTime` | delays and durations over a clock that wraps | operators |
| `FixedStrings`, `StaticMaps`, `InitOnces` | the classes of those names | operators |
| `Counters` | clients that walk the numbers | actions, uses `RingUnsigned`, `BitOperations`, `ClockTime` |
| `CoreTypes` | `Counters` and clients of strings, maps and `InitOnce` | state machine |
| `RingBufferUseProofs` | the ring's operators; types, alignment, bounds of the ring; it implements `EvictingFifo` | proofs |
| `AsyncLoggerProofs` | the logger's invariants, its order; it implements `LogChannel` | proofs |
| `SysQueueProofs` | delivery, permits and readers of the queue and the semaphore | proofs |
| `EventGroupProofs` | what the event group's tasks are told | proofs |
| `LifetimesProofs` | owners of tuples and handles | proofs |
| `SyncLoggerProofs` | handlers, sections and lines | proofs |
| `InplaceDynamicArrayUseProofs` | what stands in the array's slots; it implements `BoundedVector` | proofs |
| `InplaceMapUseProofs` | the map's two arrays, the order of its keys; it implements `FiniteMap` | proofs |

### The ring

A ring is `[buffer, head, tail, count]`, for `buffer_`, `head_`, `tail_` and
`count_`. Slots hold values of `Type` or `Unset`. `RingBufferUse` keeps one ring
in the variable `ring`; `call` says what is left to do of a call that takes
several steps (a span moved item by item, a write in place between `nextSlot`
and `useNextSlot` or `havePushed`), and `did` and `out` are the operation the last
step carried out, with the items or the number it was given, and the items it gave back.
`EvictingFifo` has `call`, `did` and `out` too, and one action per operation, which sees its
arguments and leaves no choice: a push loses exactly the oldest items that find no room, a pop
takes as many items as the client asks for (no more than there are), `discard` the
number asked for, a peek nothing. `Begin` and `End` of a call of several steps change no item. The client keeps to
`docs/core/data_container.md`: it takes no more than there is.
`ConstantEvaluated` chooses the branch of the `if` in the span calls. Whether
`Type` is trivially copyable chooses the other branch at compile time; the
client here may take either branch in each call (`PushSpan` and `PopSpan` by
`memcpy`, `PushItemByItem` and `PopItemByItem`), so that one run and one proof
cover the rings of both kinds of type.

### The logger

One action is what a thread does between two points where another can
interfere. The variable `pc` says where each thread is: a producer goes

    idle -> lock -> format -> commit -> unlock -> release -> idle
                          \-> abandon -> idle             (a formatter failed)
                          \-> drain ... -> halted         (level Fatal)

and the printer

    start -> acquire -> lock -> check -> print -> discard -> unlock -> release
                                  |         \-> unlock (the output failed)
                                  \-> unlockEmpty -> acquire

`mutex` is the holder of `mutex_`, `semaphore` the count of the binary
semaphore, `ring` the ring of line buffers, `failCount` the static `fail_count`.
A line is the stamp that `getTimeLine` gave the message, which rises with every
call; `Torn` is a line a failed formatter left. `printed` and `fatal` are history
variables: the lines given to `printLogMessage` with success, and the stamps of
Fatal messages. `FormatMayFail` and `PrintMayFail` switch the two failures on.
`terminate()` is the place `halted`, from which no step leads: with the mutex
held if the fatal path called it, and without it if a formatter failed and
`fatal()` went on to the fatal handler.

FreeRTOS is modelled from its use: `xSemaphoreTake` with `portMAX_DELAY` waits
until the mutex is free; a binary semaphore saturates at one.

`LogChannel`, the logger's abstract specification, accepts messages with
increasing stamps, emits the oldest, and evicts it when full. `Displace` is what
formatting in place costs when the call does not get to `useNextSlot()`: in a
full ring the torn line, or the Fatal message, takes the oldest line's place.

### The array and the map

A slot of an array is `Raw`, or holds a value or `Moved`, what a move leaves
behind. The algorithms of the standard library that the code calls
(`uninitialized_copy`, `move`, `move_backward`, `destroy`, `remove_if`...) are
operators on slots: constructing over an element, assigning to or reading a raw slot,
destroying what is not there, or an overlap that the algorithm does not allow
makes the slot `Broken`, and a range beyond the storage breaks every slot.
The methods combine them as the code does. `InplaceDynamicArrayUse` keeps one
array per member of `Arrays`; `call` is the last call with its arguments and
`ret` what it returned, so that the refinement of `BoundedVector` says of each
call, with its arguments, what it leaves and what it gives back. `insert` computes
`size_ + count` modulo `SizeMax`.

The map is written over sequences, which is what the array is shown to be. An
iterator is an index; in the refinement of `FiniteMap` it is the key it stands
at. A map that was moved from keeps its size and has lost its contents, and the client does not
look into it before it is assigned, cleared or built again. `AnyHint = FALSE`
keeps hints from standing before the key's place.

Left out: arguments that are elements of the array itself, exceptions of the
element type, iterator arithmetic, comparison operators, a `Compare` with state.

### The event group

`bits` are the kernel's event bits. A task has a bit of its own for `sync` and
the others are `Flags`. `call` says what a task is in: `Idle`, blocked in the kernel, or
`returned` with the bits the kernel handed back, before the wrapper has judged
them (`Return`: Success or Timeout). `pending` is the timer task's command
queue: `setBits` and `clearBits` of an interrupt only put a command there
(`SetBitsFromIsr`, refused when it is full), and `RunTimerCommand` carries it out
later. Setting bits releases every waiter it satisfies and clears what they
asked to have cleared, in one step, as `xEventGroupSetBits` does with the scheduler
suspended. `raised` and `told` count per bit how often it was set and how often a task
was told so with the bit consumed.

### The queue and the semaphore

`items` are the messages in a queue of `length`, numbered in the order the
pushes were called; `answer` is the code each push gave. A call that waits is a step
that blocks and a step that gets through or times out; interrupts do not wait. The
wrapper's mapping from `pdTRUE` and `pdFALSE` to error codes is part of the
step. `forcePush` is `xQueueOverwrite`, which the kernel allows for one slot only, so the model
calls it on queues of length one. A `SysMessageSlot` is
the queue of length one under `forcePush`, `peek` and `clear`. `accepted`, `delivered`,
`dropped` and `seen` are history variables. `count` is the semaphore's; a release of a full
one is lost without an answer.

### Lifetimes

`made` lists the kernel objects ever made with their state (`live`, `suspended`,
`ended` but not yet freed by the idle task, `gone`), the address they live at
and, for `create(mulparam)`, who has the tuple of arguments: the creator's `unique_ptr`
and the entry's both know it (`shared`), the entry alone, or nobody
(`freed`). `home` is the object that the result of its creation goes to, the one on which its
entry may call `exit`: the task keeps a reference to it, so `Exit` clears `handle_` of this object,
whatever a move has put there or taken from it since (`thread.inl:181`). `handle` is `handle_` of every object of every user. A handle is
an address: what it reaches is whatever `occupant` says lives there now. `create`
takes the steps `MakeTuple`, `CreateMulparam`, (the new task may run and end), `Store`;
`destroy` takes the handle out of its object, asks `eTaskGetState` and deletes (`DestroyBegins`,
`DestroyAsks`, `DestroyDeletes`); `Exit` and `EntryReturns` are the task's own end. `stopped` covers the
fatal handler and every call of the kernel with a handle that reaches no task: after it
nothing is said. All the classes with a handle move and are
destroyed by the same code, so an object that is not a thread is simply `"object"`.

### Handlers, guards and the synchronous logger

One composed system: `act` says where each thread is, in the guards, in the handlers or in
a log call. `handler` holds the three function pointers; `Null` and the default
`terminate` are among their values; a thread that fails goes to `handling`, `terminating` and
`dead`. A guard is opened in the throwing or the manual mode, with a lock that succeeds or is
refused, and closed by its destructor. An unlock by a thread that does not hold the mutex
takes it from its holder or stops the thread: which of them depends on whether the
kernel is built with its assertions. `robbed` names the threads in a section whose mutex was taken
from them, by such an unlock or because it was deleted or made anew. `build` says whether the logger has
a lock and whether its mutex is static; `buffer` names the thread that wrote the prefix and the
one that wrote the text; a line is its length, and `printed.end` the place its
separator goes to. A second `LogInit` is fatal to its caller, in the move-assignment; the mutex
constructed before it is another one in a dynamic build, and in a static build the one in use, which
is then free (`sync.cpp:57-62`, `mutex.cpp:40`). `Room` is the unsigned difference of
`sync.cpp:98`: with a prefix longer than the buffer it wraps, the text goes past the end
(`overrun`), and the call goes on, or the thread ends if what it overwrote was vital.

`docs/core/error_handler.md:103-111` allows registration of handlers before the tasks start only.
The model lets any thread register at any time, which includes that.

### The value types

`kind` chooses a class once; `value` is what the object holds, `position` what its
client thinks it stands for, an unbounded number or a plain sequence, function or first
value. `Worth` and `Read` relate the two for numbers. Every operator that the
compiler accepts is an action: the ones it does not are in Remarks. `OverflowCast`,
`TransToSigned` and the integer promotions are computed as the code does, in words of
`RealBits` and, for types narrower than `int`, of `IntBits`. A signed result that does not fit the
type it is computed in is undefined behaviour in C++ and `Undefined` in the model; the client
leaves such calls out, as it does divisions by zero. What a ring index gets wrong, the postfix
decrement and sums that wrap in `size_t`, is in the model as it is in the code, and `off` counts
how far the index has fallen behind its client by it.

## 3. Runs

| Run | Module, configuration | Checks | Expected |
| --- | --- | --- | --- |
| `ring` | `RingBufferUse`, `RingBuffer.cfg` | `TypeOK`, `AlignedInv`, `PopLoopBounded`, `RefinesFifo` | pass |
| `async_safety` | `MCAsyncLogger`, `AsyncSafety.cfg` | types, mutual exclusion, no lost wake-up (`NoLostWakeup`), a discard only of what was printed (`DiscardsWhatItPrinted`), order (`PrintedInOrder`), loss only of the oldest (`LeavesPrintedOrOldest`), halting (`HaltFreezes`), `RefinesChannel` | pass |
| `async_liveness` | `MCAsyncLogger`, `AsyncLiveness.cfg` | `EveryMessageLeaves`, `EveryCallReturns`, `FatalEnds` | pass |
| `async_fatal_lost` | `MCAsyncLogger`, `AsyncFatalLost.cfg` | `FatalMessageOutput` | violation |
| `array` | `InplaceDynamicArrayUse`, `DynamicArray.cfg` | `TypeOK`, `LiveExactly`, `RefinesBoundedVector` | pass |
| `map` | `InplaceMapUse`, `InplaceMap.cfg` | `TypeOK`, `KeysAscend`, `Parallel`, `RefinesFiniteMap` | pass |
| `map_hint` | `InplaceMapUse`, `InplaceMapHint.cfg` | `KeysAscend` with any hint | violation |
| `events` | `EventGroup` | `TypeOK`, `NothingFromNowhere`, `AnswerMatchesKernel`, `SyncReturns` | pass |
| `queues` | `SysQueue` | `TypeOK`, `ExactlyOnceInOrder`, `PermitsAccounted`, `NeverGoesBack` | pass |
| `lifetimes` | `MCLifetimes`, `Lifetimes.cfg` | `TypeOK`, `TuplesAccounted`, `OneHolder`, `StraysOnlyAfterMissedExit` | pass |
| `guards` | `SyncLogger` | `TypeOK`, `SectionsExclusive`, `NeverCallsNull` | pass |
| `values` | `CoreTypes` | `ResidueInv`, `DistanceInv`, `ValuesKept` | pass |

**What the newer runs show.**

- `events`: a flag set from an interrupt whose command was refused is never reported; no
  `waitBits` with `clear_on_exit` consumes a flag twice; no task gets
  past the meeting more often than each of the others has come to it, even when some
  time out; and Success is answered exactly when the kernel has cleared the bits.
- `queues`: the code a push answers is the truth about its message, also when it
  timed out, so a caller may repeat it; a message slot that is read while it
  is overwritten never falls back; permits are neither doubled nor, within the
  bound, lost.
- `lifetimes`: a handle has one holder and a tuple is never freed under its task under every
  interleaving in which each task calls `exit` on an object that has its handle. `astray` names the
  tasks touched by an `exit` on another: because `create` had not stored the handle yet, `destroy` had
  taken it out, or it had been moved, so that the new object keeps it, and an old one that
  was used again loses another thread's. After that a handle can reach a task that is gone, and
  TLC reaches such states. What the property says is that nothing else leads there: not
  moves without an `exit`, suspension, a heap that is full, or the reuse of addresses.
- `guards`: whoever is in a section holds its mutex unless it was taken from that thread, by a
  refused manual guard, `logDeInit` or a second `logInit`; `deInit` of an uninitialised object happens only
  after a failed manual `init`; the locked logger's lines are whole unless one of the latter two comes during a
  call. A text leaves the buffer after a prefix longer than the whole buffer, and never otherwise:
  not after one that just fills it (`WritesInside`, in `TypeOK`). A handler that is registered away
  between test and call is never called as null, because no function that registers one accepts null.
- `values`: the operators in any order, as long as none is undefined, leave a bit integer that is the
  residue of what the client thinks it is. A ring index is, but for one for each postfix decrement and
  the size of `size_t` for each sum that wraps: it is off by exactly that until it is assigned again.
  Distances, pauses, sleeps and durations are those of the unbounded
  clock up to its range, wherever the points stand; a pause in milliseconds is right exactly if it
  is shorter than a turn of the clock.

**Bounds.** The ring run uses three slots, two item values, spans of up to four
items (one more than fits) and a `size_t` of 16 values. Three slots are the
fewest in which head, tail and a free slot can all differ, and a span can cross
the end of the array with a piece on each side. The logger runs use two producers, which contend for the mutex and
finish in any order, a ring of two lines, which fills, evicts and wraps, and
four or five messages, twice what the ring holds or more. With more messages the
ring's indices only come round again. The array and map runs use three slots, so that
a tail can be shorter than, as long as and longer than what is inserted
before it; ranges of up to four elements, one more than fits; four keys, one
more than fits; ranges of two pairs, the first of which may be
present and the second new. `MaxOther` bounds the size of the other array or map
while a method works on one of them alone: such a method does not touch the other, and
the calls on two start from every pair of sizes of which one is at most `MaxOther`, 1 in the
`array` run, and from what such calls leave (two arrays of one size after a copy, for instance). The other
pairs, of two and three elements, are covered by the proofs only. Symmetry (of producers, arrays and
their values, maps, and of users, objects and addresses in `lifetimes`) is used only where no liveness is checked.

`events`: two tasks (one can be late while the other meets again), one flag that
both want, a timer queue of two (two commands can be out of order with a task's
call, and a third is refused), each bit raised at most twice (`MaxRaises`), enough for
a second meeting to run into what is left of the first. `queues`: two tasks
and an interrupt, lengths one and two (the shortest with `forcePush`, the shortest in which order matters), three messages, one
more than fits, a semaphore of two and three releases (`MaxReleases`), one more than it
counts. `lifetimes`: two users with two thread variables and two others each, so that an object can be
moved, two addresses and three objects made (`MaxMade`), so that an address is used
twice while a stale handle to it exists, and a heap of three blocks, one short
of what two threads and their tuples need. `guards`: two threads, a
line of six characters, prefixes of 4, of 6 (as long as the line) and of 7 (longer), texts of 0 and 5, a separator
of two, so that a text fits, does not, or finds no room at all, a `size_t` of 16 values, and one function to register.
`values`: `MaxNum` 5 with a `size_t` of 16 values, so that the moduli do not divide one another;
numbers of 5 bits in words of 8, which are as wide as `int`, so that sums fit in them
and products do not (as `BitInt<20>` in 32 bits). `ResidueInv` was tried with an `int` of 24 as well, where words
are promoted and everything fits, and with words of 5 bits and an `int` of 10 (as 16 bits are to 32: a product
of unsigned words may be undefined) and of 5; in the last two `OverflowCast` does nothing;
a clock of 16; walks of `MaxPosition` 70 each way, more
than two turns of each modulus; texts of up to three characters with a NUL among them;
five keys in three classes of equal ones.

**Deadlock** is checked for the containers, the guards and the value types. The other
runs say `CHECK_DEADLOCK FALSE`, because there the system really stops or the bounds stop it. Logger:
after `MaxMessages` messages nobody calls, a failed `logInit` is not called again,
and `terminate` stops everything that needs the mutex. `events`: a task that
waits for ever for a bit that cannot be raised again. `queues`: the tasks wait for ever on an
empty queue when `MaxMessages` were sent. `lifetimes`: `MaxMade` objects were
made and have gone, or the fatal handler stopped the program.

**Fairness.** *Logger.* `WF` of the setup, of each producer's steps and of the printer's: the
scheduler runs every ready thread in the end. `SF` of `Lock(p)`: a producer that
waits for the mutex is woken when it is given back, and the printer, of priority
`Low`, cannot outrun it. The printer has no such claim on the mutex (its `Lock`
is only weakly fair), and the properties hold without it because the clients'
calls are bounded. `OutputWorks`, strong fairness of a successful print, is
assumed only where a message is to leave the ring, as the premise of
`EveryMessageLeaves`: with an output that always fails it stays there, and the calls
still return. All three properties allow for a Fatal call, which stops the
program: `Ended` says that a thread has halted with the mutex.

*Event group.* `WF` of `Return`, a released task runs in the end, and `SF` of `Sync`, every
task comes to the meeting again and again, which is the rendezvous's contract and
not the library's doing. The timer task and the interrupt have no fairness. `SyncReturns`
has as premises that no `sync` ends in Timeout (a late partner would find the others
gone) and that no task stays in `waitBits` for ever.

**What the violations show.**

1. `async_fatal_lost`: `fatal` ends with "Fatal log message outputted" while the
   message stands in a slot the ring does not count (`async.cpp:193`). Only when
   the ring was full is it output, then first, as the line of the oldest slot.
2. `map_hint`: a hint is accepted when the key at it is not greater than the new one
   (`inplace_map.hpp:1091`), where it should not be less: with a hint before the key's place
   the new key goes in front of a smaller one. A hint at the right place is never
   taken, and the insertion looks the place up itself, as `map` shows.

### Remarks

Disagreements of the code with its comments and documents that were met while
modelling and that no run is spent on. Paths are under `core/inc/emdevif/core/` unless
they begin otherwise.

- `data_container/ring_buffer.hpp:77`: the postfix `--` of `RingUnsigned` assigns the
  old value back and so does nothing, against the comment it shares with the prefix form (`:62`).
- `data_container/ring_buffer.hpp:91`: `value_ + rhs` wraps before the modulus, so `+=` with a
  large operand goes to a wrong place, against the comment of the class (`:23`). The ring buffer adds
  at most its size. `ResidueInv` says how far both of these put an index off.
- `data_container/ring_buffer.hpp:308`: in constant evaluation `peek(span)` fills the span
  with copies of the oldest item; at run time it copies consecutive ones.
- `data_container/ring_buffer.hpp:465`: the comment of `havePushed` says to get the slot with
  `useNextSlot`, which already counts it. `RingBufferUse` pairs it with `nextSlot`.
- `data_container/inplace_dynamic_array.hpp:750`: `insert(pos, count, value)` compares
  `size_ + count` with `N` after the sum has wrapped, so an enormous count is not refused;
  `assign` and `resize` compare the count itself. The client's counts do not
  wrap in the `array` run.
- `resource_guard/init_guard.hpp:91` runs `deInit` in the destructor of a manual guard whose `init`
  failed; `docs/core/resource_guard.md:232` says that it does not. `SectionsExclusive` says that this is the only way to it, and TLC reaches
  a state in which it has happened (`unpaired`).
- `resource_guard/lock_guard.hpp:111` unlocks in the destructor of a manual guard that was refused, though the
  class says of itself that it unlocks what it locked (`:41`) and the document has its error handled
  (`docs/core/resource_guard.md:119`). In a kernel built without assertions two threads are then inside.
- `logger/sync/sync.cpp:57`: a second `logInit` in a static build makes the mutex in use anew before it is
  fatal; `:70`: `logDeInit` deletes it under a running call; `:98`: a prefix longer than the buffer leaves a room
  that has wrapped. In a dynamic build without the lock `logDeInit` does not compile, so there is no such build.
- `system/Implements/FreeRTOS/inc/emdevif/system_impl/sys_queue.inl:117`: a push whose time
  is up answers Full, and a pop Empty, where the documentation lists Timeout.
- `system/Implements/FreeRTOS/thread.cpp:75`: `system/inc/emdevif/system/thread.hpp:308` has `destroy` answer
  InvalidArgument for a thread that was deleted. It does while the idle task has not freed the task; after that it
  asks the kernel about freed memory, and may delete another task. `lifetimes` shows that only an `exit` on an object without
  the task's handle leads there: while `create` or `destroy` is under way, or after a move. TLC reaches such a state by
  a creation, the new task's `exit`, the idle task, and only then the move of the handle into its object.
- `system/inc/emdevif/system/thread.hpp:228`: a task that `exit` or `destroy` ends never runs the
  destructor of its entry's `unique_ptr`; its tuple stays on the heap for ever. `TuplesAccounted` says so: every
  thread ever made with arguments keeps a tuple there unless its entry returned.
- `timeline/inc/emdevif/timeline.hpp:107`: `delay_time_ms * 1000U` wraps, so a pause of more than a turn of the clock (71
  minutes with 32 bits of microseconds) is far too short, against the comment (`:101`). `DistanceInv` gives the exact limit.
- `system/Implements/FreeRTOS/inc/emdevif/system_impl/thread.inl:143`: `getTick` calls the
  interrupt's form of the kernel's function outside interrupts and the task's form inside.
- `utils/bit_int/`: `-=` and `--` of `BitInt`, `<=>` of both, and `<<=` and `>>=` of both do not
  compile when they are used. The operators that share their purpose do.
- `docs/core/utils.md:121` and `:220` give `UBitInt<4>(15) + UBitInt<4>(1)` as a `uint8_t` of 16; every operator cuts
  its result to the bits of the operand, and the sum is 0.
- `docs/core/utils.md:271` gives `UBitInt<4>(15) + 1000` as an `int` of 1015; the operator
  converts to the word first and gives 7 in a `uint8_t`.
- `docs/core/utils.md:209` and `:253` use `InitOnce::is_init()`, which is not a member.

## 4. Proofs

All theorems are about the specification for every value of the constants under
the assumptions the modules name. Each theorem of an invariant has the same shape: `Init`
implies an inductive invariant `IInv` (`Inv` and `LinesInv` of the logger), every action
preserves it, and it implies the property. TLC checked each inductive invariant, as an
invariant of the component's run, before it was proved. `IInv` is named `IHeld` for the array.

**Assumptions.** *Ring and logger:* a ring of at least one slot and at most half
of the values of `size_t` (an object in C++ is no larger), a finite set of producers of which `Printer` is none,
blank and torn lines distinct from stamps. *Queue:* finitely many tasks, lengths and a semaphore of at
least one. *Array:* a capacity of at least one and at most half of the values of `size_t`, any element type. *Map:* a capacity of at least one, finitely many keys and at least one, which are numbers in the order of `Compare`.
*Event group:* finitely many tasks and flags, the tasks' bits are not flags, room for one command of the timer task.
*Lifetimes:* finitely many users and addresses, thread variables that are no object variables. *Handlers and guards:*
the null pointer and the default handler are not functions of the user, no thread is named `"free"` or
`"none"`, the words for a mutex without holder, and the line buffer is smaller than `size_t` counts. Levels, timeouts, formats and bounds on the number of calls are arbitrary.

**Ring** (`RingBufferUseProofs`). `TypeCorrect`, `HeadTailCountAgree` (head is count
slots ahead of tail, in every form of every call) and `PopSpanInBounds` (the loop
of `pop(span)` never meets an empty ring, so the count never wraps). The three are one inductive
invariant: alignment needs the ranges, the ranges need that pops stay in
bounds, and that needs the number of items left in the call. The first half of the
module does the modular arithmetic once (a sum reduced by `size_t` and then by the size is
the sum reduced by the size) and says of each operator that it keeps a ring a ring and
aligned. `AsyncLoggerProofs` takes these lemmas, through `INSTANCE`, for its ring of line buffers.

`RingIsFifo`: the ring implements `EvictingFifo`, step by step with the same call, the same arguments and the
same items handed out; as the actions of `EvictingFifo` leave no choice, a ring that lost an item in a peek, or
discarded a wrong number, would not. For this the lemmas say of each operator what it does to
`Contents`, the sequence of items from the oldest to the newest: a push appends, and drops the head of a
full ring; a pop gives and removes the head; the two pieces of a `memcpy` that crosses the end of the array are one
piece of the contents. A write in place needs one more fact, `StagedInv`: between `nextSlot` and
`havePushed` the items written stand just past the contents. The theorem is for
`~ConstantEvaluated`: in constant evaluation `peek(span)` copies the oldest item (`ring_buffer.hpp:308`, see Remarks),
and the ring is no queue there.

**Asynchronous logger** (`AsyncLoggerProofs`). `TypeCorrect`, `MutualExclusion`, `NoWakeupIsLost`,
`DiscardIsSafe` and the action property `HaltIsFinal`. The inductive invariant
joins `TypeOK` and `MutexInv` with two facts the code relies on silently: before
`logInit` is done nobody is past `idle` and the ring is empty (`SetupInv`), and a
printer that is about to print or discard knows that the ring is not empty, and
about to discard has printed its oldest line (`PrinterKnows`); the latter holds because
every other writer needs the mutex. `HaltIsFinal` follows from `MutexInv`: every
action that touches the ring or prints belongs to the holder.

`OutputIsOrdered`, `OnlyTheOldestIsLost` and `LoggerIsChannel` are about the lines. Each step is either no step of the channel
or one of its steps on the same lines (`Transition`), so order has to be kept by
the channel's steps alone. That a formatted message may be appended is `CommitInv`: the producer
at `commit` drew the last stamp, its slot holds it, and every line before it has an older one.
It holds because the stamp is drawn under the mutex; were it drawn before `Lock`, `CommitInv` would fail.
`BoundInv` counts the calls that have yet to draw a stamp, so that every stamp drawn is within `MaxMessages`.
`OnlyTheOldestIsLost` reads off the same case distinction which line a step takes away.

**Queue and semaphore** (`SysQueueProofs`). `TypeCorrect`, `DeliveryIsExact`, `PermitsAreAccounted` and the
action property `ReadersGoForward`. The queue is the end of what was accepted, and what has left it was
delivered or, by `clear` or `forcePush`, dropped; deliveries go in the order of acceptance (`Order`). That the answer is
the truth needs `AcceptedInv` (accepted are exactly the messages whose push answered Success) and
`PendingInv` (a push is unanswered exactly while its task waits), and these that no two tasks wait with the same
message (`CallsInv`). `PermitsAccounted` is inductive with the ranges of the counters.

**Event group** (`EventGroupProofs`). `TypeCorrect`, `ToldOnlyWhatHappened`, `AnswersAreTrue`. For each bit and task,
the times the task has been told, the one that a call about to return owes it, one if the bit is set and
the commands of the timer task that will set it are together no more than the times it was raised (`Covered`). A call that returns
was released with its bits cleared, or its time was up with them untouched, and the wrapper judges by the bits the kernel handed back
(`Truthful`). For the second case to be a Timeout, a blocked task must really have something to wait for at every moment
(`Unsatisfied`): every step that sets bits wakes all whom they satisfy, and no step that clears bits satisfies anybody.

**Lifetimes** (`LifetimesProofs`). `TypeCorrect`, `TuplesAreAccounted`, `HandlesHaveOneHolder` and the action property
`StraysAreMissedExits`. The holders of a kernel object are the objects whose `handle_` is its
and the calls that have the handle in a local variable; `SoleInv` says that a live object that is not `astray` has one of them, and a dead one none,
which is what an address that is used again needs: `OccupancyInv` says that an address is occupied by the one object there that the idle task has not freed. `KindInv` keeps threads in thread variables, `TupleInv` counts the tuples of
creators and tasks against the heap's.

**Handlers, guards, synchronous logger** (`SyncLoggerProofs`). `TypeCorrect`, `NoNullIsCalled`, `SectionsAreExclusive`, `GuardsAreExclusive`,
`TextsStayInside`. The invariant has a part
for each object: the handlers are never null between calls (`HandlerInv`), which suffices because no
function that registers one takes null; a mutex is held by the thread whose place in its guard says so, unless it
was taken from that thread, and that happens only once a guard was refused (`UserLockInv`); initialisation and its failure (`ObjectInv`); and for the
logger's lock, that who formats or prints holds it or was robbed of it by a disturbance, that undisturbed lines
are whole, and which prefixes overran (`LoggerInv`). `GuardsAreExclusive` is the promise of `LockGuard` under
the one condition it has.

**Array** (`InplaceDynamicArrayUseProofs`). For any capacity and element type, any number of arrays, and spans of any length.
`TypeCorrect` is inductive as it stands and holds for any count. `HoldsExactlyItsElements` and
`ImplementsBoundedVector` are for `NoCountWraps`: that size and count together stay below `SizeMax`, since `insert`
does not look whether they do (`inplace_dynamic_array.hpp:750`, see Remarks). Nothing else that a client can pass
needs a hypothesis. `LiveExactly` alone is no basis for what the arrays contain, so the invariant `IHeld` is an equation: each array is
`Held(s)`, the one array that contains the sequence `s`, for the `s` that `Contents` reads from it. Every method then is an
equation between such arrays: `Emplace(Held(s), i, item)` is `Held` of `s` with the item in place `i`, and the like for the other
methods. Below them stand lemmas on the algorithms: given slots that are ready, a copy writes just the
target range, a destruction empties just its range, and a move that overlaps in the direction it allows gives the
old elements (`MovesAre`). `insert` opens a gap in two moves, one into raw slots and one backwards over elements
(`OpenedIs`), and fills it in two copies, one over moved-from elements and one into raw slots (`InsertedIs`); which slots each of
them gets depends on where the shorter of tail and count ends, and the proof goes through both cases. `swap` is proved for one
side (`ExchangedIs`), for both sides do the same with the sizes exchanged.

**Map** (`InplaceMapUseProofs`). For any capacity, any finite set of keys and any ranges. `TypeCorrect` and
`StaysParallel` hold whatever hints the client gives. `StaysAscending` and `ImplementsFiniteMap` are for `~AnyHint`: run `map_hint`
shows that with any hint the code breaks the order, so the hypothesis is exactly what the client must see to. `IInv` says that each map is
`Sound` (parallel arrays, within the capacity, ascending) or `GivenAway` (moved from, with its old size), and that the last iterator
returned is within its map. The lemmas say of each method what it leaves and answers: `lowerBound` finds the
one place where the key can stand, so that an insertion there and an erasure anywhere keep the keys ascending. For the refinement they say
it again in terms of `Abs`, the map as a set of keys with values; the iterator is the key at
its index, and the end is greater than every key. A range is inserted pair by pair until one does not fit, in the code and in the
abstract map, by a recursive function of the number of pairs done; that both run alike (`InsertAllIs`) is shown for the least number at
which they would not.

**Model-checked only.**

- *Liveness* (`EveryMessageLeaves`, `EveryCallReturns`, `FatalEnds`, `SyncReturns`): the prover does not
  handle fairness.
- *Value types* (`ResidueInv`, `DistanceInv`, `ValuesKept`): `Counters` and `CoreTypes` reach
  `BitOperations`, which uses bitwise operators that the prover does not have. They are checked for one set of widths.

## 5. Plan

1. (done) `RingUnsigned`, `RingBuffer`, `EvictingFifo`, `AsyncLogger`, `LogChannel`.
2. (done) `InplaceDynamicArray` and `InplaceMap` with `BoundedVector` and `FiniteMap`.
3. (done) `SyncLogger` on `Guards` and `ErrorHandlers`.
4. (done) `SysQueue` with the semaphore and the message slot, `EventGroup`.
5. (done) `Lifetimes`.
6. (done) `CoreTypes` over `Counters`, `FixedStrings`, `StaticMaps`, `InitOnces`.
7. (done) Proofs of every safety property of the ring, both loggers, the queue and the semaphore, the event
   group, the lifetimes, the array and the map, and of the refinements of `EvictingFifo`, `LogChannel`,
   `BoundedVector` and `FiniteMap`.
8. What remains with the model checker is listed at the end of section 4.

## 6. Not modelled

- *Asynchronous logger:* a second `logInit` after a failure and `logDeInit`, which
  deletes the mutex and the semaphore in front of the printer (`async.cpp:135`): what the kernel
  does with a deleted object is undefined, and nothing holds after it.
- *Threads:* creation in static storage, priorities, `delay`, `join`, the scheduler's start. They
  change no state of the library; priorities would only forbid interleavings.
- *Heap:* `Allocator` and the forms that throw, more calls of the same two functions.
- *Timeline:* floating-point conversions of durations.
- *Defer, tryFinally:* a call at the end of a scope, no state.
- *Peripheral interfaces:* their state is in the user's drivers.
- *Compile-time utilities, build:* no state.
- *Exceptions of the user's element types* in the containers, stateful comparisons, and arguments
  that are elements of the container itself.
- *The kernel:* modelled from how the code uses it and marked external in the map: tasks that become
  ready in any order, the semantics of queues, semaphores, mutexes and event groups that the wrappers rely
  on, the idle task that frees what was deleted.
