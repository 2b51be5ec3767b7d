# A verification of GRIF in TLA+

GRIF (the gamma-ray imaging framework) runs an application described by an XML
file: *DAQ threads* acquire data from devices, *analysis threads* process it, and
a *regulator* with a *memory manager* carries packets between them. This
directory holds TLA+ models of that program, the TLC configurations that check
them on small instances, and theorems about them that TLAPS checks for instances
of any size. Every definition is taken from the C++ source under
`src/framework`, or from the script and the index that the documentation is
searched with (`src/search`); `PROJECT.json` gives the lines for each.

    tlc -workers 2 -config data_path.cfg MCAnalysis.tla      # check a run
    tlapm GRIRegulatorProofs.tla                             # check the proofs

## 1. The system

### Components, their state and their operations

| component | state | operations | hard because |
|---|---|---|---|
| packet buffer (`GRIBuffer`) | packet list, marker per reader, `busy_write_`, `size_`, null packets | append a byte, size, copy, clear, markers | half of it is read without its lock |
| memory manager (`GRIMemoryManager`) | a buffer and a read-write lock per block and name | `WriteMemory`, `ReadMemory`, `LastPacket`, `SizeofPacket`, `DeletePacket` | lock and no-lock accesses mixed |
| regulator, data path (`GRIRegulator`) | `buffer_ready_`, `mutex_` | `ReadMemory`, `WriteMemory` | check, wait and wake-up are three steps |
| data block (`GRIDataBlock`) | write, read and first-packet counters, enabled flag | `UpdateReader`, `UpdateWriter`, `DeletePacket`, `LoadBalancing` | counters run ahead of the copies |
| packet memory | heap, `read_data_ptrs_` of the regulator and of each thread, `gc_mutex_` | `ReadData`, `GarbageCollection`, `ReadGarbageCollection` | one call both registers and frees |
| DAQ accumulators (`core/accum`) | a ring of time windows | `InitializeTime`, `Accumulate`, `FlushBuffers` | rotation by flags, boundaries of windows |
| DAQ thread (`GRIDAQThread`) | run, exit and force flags, place in `run()` | start, stop, quit, force quit, `PostData` | flags of other threads, polled |
| analysis thread (`GRIAnalysisThread`) | run and exit flags, addresses it read, histograms | `run`, `ReadData`, `ForceQuitAnalysis`, `openHistogram...` | stop while asleep in a read |
| load balancing (`GRIDataBlock`, `GRIProcessThread`) | priority and two counters per thread | `LoadBalancing`, `ChangePriority` | any thread adjusts another, unlocked |
| dynamic commands (`GRIProcessThread`) | command queue per thread | enqueue, flush, get, set, run | handlers fall through; run under the lock |
| command line (`GRICLI`) | current process, macros | create, enqueue, macros | owns commands that the threads delete |
| documentation search box (`search.js`) | field, menu, result window, two timers | key, click, focus, timer and load handlers | handlers set each other off; timers outlive what set them |
| documentation search results (`search.js`, index pages) | visible rows, open rows, focus, remembered key | search, arrow keys, toggle | rows share ids; rows are found by number and by id |
| loader, parser (`GRILoader`, `GRIParser`) | objects, links, graph | parse, create, `SetLink`, `DetectCycles` | partial failures |
| relay server (`GRIServer`) | list of sockets | connect, read and distribute | the slot is called inside itself; fixed buffer |
| logger, histogrammers, widgets, generators | files, ROOT objects, screens | output | little state that others rely on |

### How they interact

    device -> DAQ thread -> accumulator -> Regulator::WriteMemory -> buffer
                                                                      |
    analysis thread <- Regulator::ReadMemory <------------------------+
         |      (copy, registered for garbage collection)
         +-> Analyze() -> WriteMemory -> next block -> ...
         +-> ReadGarbageCollection()
    command line -> command queue of a thread -> FlushBuffer() in its run()
    Regulator::Start/Stop -> run and exit flags of all threads

The threads are real operating system threads. What they share is: the buffers
(a read-write lock each, not held by every access), the counters of the data
blocks (no lock), one condition variable for all blocks, the garbage registry
(`gc_mutex_`), the flags (no lock) and the command queues (a mutex each).

### What makes each component correct

* **Data path.** Per block, first in first out: a reader is given each posted
  packet once, whole, in order; nothing is cleared before it is copied; counters
  and content agree; calls return or wait for a packet.
* **Analysis thread.** It ends between two packets, whatever it is told and when, and
  told to exit it ends, unless it sleeps in a read.
* **Packet memory.** Each copy is freed once, after the `Analyze()` that read it, and no
  thread frees what another one holds.
* **Accumulators.** The windows tile time; each packet is exactly the events of
  its window that arrived in time; a flush leaves nothing behind.
* **DAQ thread.** Whatever the flags do, what an accumulator took is posted and
  the device is closed as often as opened; the thread ends when told to.
* **DAQ thread with its accumulators.** The outputs post the same windows, so that
  their packets correspond.
* **Commands.** A pointer that a thread will handle is to a live command, and is the
  only one; what was enqueued is handled.
* **Loader.** The links that run are links of the file, all of them if it is whole; what starts is linked
  in both directions; a cycle that is warned about exists.
* **Load balancing.** Priorities stay in the range of Qt, whoever adjusts them.
* **Search box.** The window shows the last search, what was typed is searched for,
  and no text of the user is overwritten.
* **Search results.** The arrow keys follow what can be seen, in reading order.
* **Server.** Each byte that is taken from a client is sent once to every client that
  was connected then; the loops end.

`PROJECT.json` lists under "hazards" every place where this could fail and a test
would hardly notice, with its line and the properties that cover it.

## 2. The modules

| module | models | lines of code it stands for |
|---|---|---|
| `GRIBuffer` | the buffer of one block as a record, its operations as operators | `GRIBuffer.cpp`, `GRIBuffer.h` |
| `GRIRegulator` | reads and writes of threads on blocks; extends `GRIBuffer` | `GRIRegulator.cpp`, `GRIMemoryManager.cpp`, `GRIDataBlock.cpp` |
| `PacketStream` | abstract: blocks as FIFO streams | - |
| `GRIRegulatorInv` | the inductive invariant, for the proofs and for TLC | - |
| `GRIAnalysisThread` | `run()` of the analysis threads, their start and stop; extends `GRIRegulator` | `GRIAnalysisThread.cpp`, `GRIRegulator.cpp` |
| `GRIRegulatorProofs` | proofs of both: lemmas about buffers, refinements, theorems | - |
| `GRIGarbage` | the memory of packets that were read | `GRIRegulator.cpp`, `GRIAnalysisThread.cpp` |
| `GRIGarbageProofs` | inductive invariant, theorems | - |
| `GRIAccumulator` | one accumulator | `core/accum/*.h` |
| `GRIAccumulatorProofs` | inductive invariants, theorems | - |
| `GRIDAQThread` | `run()` of a DAQ thread and the calls that steer it | `GRIDAQThread.cpp`, `GRIDAQThread.h` |
| `GRICollection` | the DAQ thread with the windows of its accumulators; extends `GRIDAQThread` | `GRIDAQThread.cpp`, `GRIDAQAccumulator.h` |
| `GRIDAQThreadProofs` | inductive invariants of both, theorems | - |
| `GRILoader` | from the file to linked processes and blocks | `GRIParser.cpp`, `GRILoader.cpp`, `SetLink` of both classes, `BufferCreate` |
| `GRILoaderProofs` | inductive invariants, theorems | - |
| `GRICommands` | command line, macros, command queues | `GRICLI.cpp`, `GRIProcessThread.cpp` |
| `GRIServer` | the relay server | `GRIServer.h` |
| `InterfaceProofs` | proofs of `GRICommands` and `GRIServer`: inductive invariants, theorems | - |
| `GRILoadBalancing` | priorities and the counters they follow | `GRIDataBlock.cpp`, `GRIProcessThread.cpp` |
| `SearchBox` | the search box of the documentation | `search.js`, class `SearchBox` |
| `SearchResults` | the page of results and its keys | `search.js`, class `SearchResults`, `createResults` |
| `SearchPages` | 26 pages of the index: ids and numbers of places | `src/search/all_*.js`, `classes_67.js`, `files_67.js` |
| `SearchProofs` | proofs of both: inductive invariants, theorems | - |
| `Lists` | `ElementsAt`, what a loop copies from a list, and lemmas about it | - |
| `MC...` | instances for TLC | - |

`GRIRegulator` extends `GRIBuffer`, and `chain` checks it against `PacketStream` by the
instance `Stream`. `GRIAnalysisThread` extends `GRIRegulator` and is shown to implement it:
it says when the threads that are free there may make their calls. `GRICollection` extends `GRIDAQThread` and is shown to implement it.
The other modules stand for themselves: `GRILoader` ends where the
links that `GRIRegulator` has as constants are in place, `GRIDAQThread` sees of an
accumulator only whether it is empty, `GRIGarbage` sees of a read only the address,
`GRILoadBalancing` only the counters, `GRICommands` of `run()` only the round of one
call and one `FlushBuffer()`. `SearchBox` and `SearchResults` meet at the focus: the
first has it in the frame as one place, the second as a link or outside.
`GRIAccumulator`, `GRILoader` and `SearchBox` extend `Lists`.

### GRIRegulator

State: one buffer record, lock, set of read-lock holders, enabled flag and three
counters per block; per thread a program counter and the locals of its call; the
condition variable as the set of sleeping threads; `mutex_` as its holder;
`posted` and `received` are histories.

The grain is the one at which threads can interleave. A step is: starting a call
up to the first shared access that matters (`WriteMemory`, `ReadMemory`); the two
unlocked loads of `BufferSize()` (`LoadBusy`, `LoadSize`); each lock and unlock;
each byte written; setting and clearing `busy_write_`; `wait()` and the return from
it; `wakeAll()`; the counting of a read; the unlocked `SizeofPacket()` and
`DeletePacket()`. Where the code does several things under the exclusive lock or on
data of one thread, they are one step.

Choices:

* A call on a block that is disabled, or that `FindData()` does not find, changes
  nothing and is not an action; switching a block on and off (`SetEnabled`) is,
  and calls in progress finish either way.
* `append` and `++size_` are one step: the two are only told apart by an access
  that already races with the write.
* The `QList` data race (a look-up or clearing while the writer appends) is
  undefined behaviour; the model keeps the list exact. It is listed as a hazard.
* The `tryLock` loop of the read lock is a blocking acquisition:
  `currentThread()->wait(50)` returns at once for the running thread.
* `unlock()` of a `QMutex` that nobody holds leaves it unlocked.
* `GarbageCollection(c)` between copy and `LoadBalancing()` is in `GRIGarbage`, the
  priority part of `LoadBalancing()` in `GRILoadBalancing`; the two touch none of this state.
* Wrappers with no caller in the framework are left out.

### GRIAnalysisThread

The data path of `GRIRegulator`, with some of its threads as analysis threads: they make
their calls in `Analyze()` only (`MayCall`), and their steps in a call are those of the data
path. Each look at a flag in `run()` is a step (`Outer`, `IdleRun`, `IdleExit`, `LoopRun`,
`LoopExit`), against `GRIRegulator::Start` and `Stop`, which write two things for each
process, one after the other (`SetRunFlag`, then `StartThread` or `SetExitThreadFlag`), and
`ForceQuitAnalysis` at any time. `run_flag_` has no initial value. One thread at a time
calls `Start()` and `Stop()`; in which order they go through the processes is left open.
`Analyze()` is whatever calls the application makes; `FlushBuffer()` and
`ReadGarbageCollection()`, which follow it, touch none of this state. The other threads, the
DAQ threads, are as free as in `GRIRegulator`.

### GRIGarbage

Per thread the place in `ReadData`/`ReadGarbageCollection`/`GarbageCollection` and
their locals; the heap as the set of addresses in use; the registry as the list it
is. A read is one step up to the call of `GarbageCollection()`, since the data path
does not touch this state. The allocator returns any free address, so that a
freed address can come back. `overlapped` and `kept` are histories: a thread locked the
mutex while another one was inside, and a collection ended without forgetting its list.
The model takes every interleaving of any number of threads, with these or without.

### GRIAccumulator

The ring as a function from the position in the list to a buffer record. `Accumulate`
is the first loop (every buffer takes the events of its window and the leading edge
says how many packets to post); `WriteBubble` is one pass of the second loop or of
the flush (post, move the buffer to the front, re-buffer, mark the next bubble):
each packet posted is a step because `WriteMemory` may block. Times are integers
without overflow; the 64-bit range and the cast of the number of windows to `int`
are not modelled. After a flush comes `InitializeTime`, as in all the DAQ threads of
the repository; posting into a flushed ring without it is not modelled.

### GRIDAQThread

`run()` with each look at a flag as a step, against `StartCollection`,
`StopCollection`, `QuitDAQ`, `ForceQuitDAQ` and `GRIRegulator::Stop` called at any time
by others. The calls that write two flags do so in two steps (`exitDue` holds the
second write; one such call runs at a time). `run_flag_` has no initial value: it is
any Boolean until `StartThreads` raises it. The methods of the device return, and
their errors are only printed, as in `run()`. An accumulator is here only full or
empty: `GRIAccumulator` has its contents.

### GRICollection

Adds to `GRIDAQThread` how far the windows of each accumulator have moved since
`InitializeAccumulators`, which is the number of packets it posted (a flush posts one
per window, the same number for all). `AcquireData()` gets events at any distance
(`reach`); each output then takes them or, with the run flag down at that moment,
drops them. All outputs have the same number of windows and are given the same
times, as in the simulator and the histogramming example; `LynxDAQ` gives one output
the first time only, so that its packets need not correspond in any case. `seen`
and `split` record what the run flag was at the posts of one acquisition.

### GRICommands

The heap of commands as a set of addresses, a queue of addresses per thread, the
state of `GRICLI` and its macros. `HandleProcessTop` (create and enqueue) is a step;
so is each command of a macro, since the thread may take one before the next is
enqueued.

* An address that was freed may be given out again: a macro that runs a second time
  may then point at another command. Handling what was freed is undefined: the
  program ends or goes on.
* A line that cannot be parsed in a macro leaves a null pointer in it, which is
  skipped when the macro runs. Enqueueing to `curr_proc_` before a process was chosen
  ends the program.
* `Launch()` and `HandleMacroDef()` compare the first word before they look whether
  there is one. A line without a word, and every line after the end of the input
  (`EmptyLine`), reads element 0 of an array of length 0; a blank between two semicolons
  of a macro (`MacroDefBlank`) that of an empty list. Both are undefined: the program
  ends, or goes on as with any line or command that it cannot parse.
* `quit` only returns from `Launch()` to the application.
* `run_flag_` and `exit_thread_flag_` are one value per thread, `Run`, `Hold` or `Exit`:
  the second is what `Stop()` leaves. `QuitDAQ` and `ForceQuitDAQ` after a `Stop()` are
  in `GRIDAQThread` only.
* What a command sets or gets, the overridden handlers and the replies are left out;
  no property here depends on them.

### GRILoadBalancing

Each block has one writer and one reader, as its constructor takes them.
`LoadBalancing()` is cut where another thread can get in between: the test of the
writer's priority, the read of it in `ChangePriority()`, and `setPriority()`.
`Threshold` and `Saturation` are the defaults; `LOAD_BALANCING_FACTOR` of the threshold
is 3/2. Since a block has one reader, which has just cleared what it read, its lag
is zero when it looks at it, and `RaiseReader` never comes to raise: there too the code
decides that nothing is to be done. The model keeps the branch, as the code does.

### GRIServer

The bytes of a client are numbered, so that it can be told where each one went. `calls` is
the stack of calls of `readAndWriteData()`, each with its iterator and its array:
`waitForBytesWritten()` emits `readyRead()` of the socket that it waits for, so that a call
may begin inside another one, but not for a socket whose signal is being handled
already. One `read()`, one `write()` and one wait are a step each; connections come in the
event loop only, which runs when no call does. What one call of a notifier finds is a
number of bytes. A step that does nothing for ever, `read()` with no room in the array,
is no action; `Spins` says when that is. `QTcpSocket` is Qt's: what its signals do is
taken from how the server uses them, and that a read fails is left out.

### SearchBox

One variable for the object `searchBox` and the parts of the page it writes, one each
for the focus, the key that is down and the mouse. A handler is an action, with the
blur and focus handlers that it sets off in the middle of it, in that order. The
browser is an assumption: the focus is in one place, a key goes to the place that has
the focus when it is pressed and when it is released, what is hidden loses the
focus, a frame shows its page until the next has loaded, no mouse button goes down
while a key is, a text changes by keys only. `Search()` with an item beyond the menu
throws half-way (`Throws`). Texts, sections and the index are constants.

### SearchResults and SearchPages

A link is a row or a child of one. `Nav` is `SearchResults.Nav` with its look-ups: by
number for rows, by id for children, the first of that id. The pages are the real
ones, with the number of places of each row in place of the places. They are
all pages of the section All and, for comparison, the largest of Classes and of
Files; the pages of every other section hold parts of those of All.

### GRILoader

One thread, one action per pass of a loop: over the object and link elements
(`ParseObject`, `ParseLink`), over the objects and the links of each (`LoadObject`,
`LoadLink`, `AddProcess`), over the processes and the data blocks (`Start`, `SetLink`).
An element is the record of its attributes, `None` for a missing one.

* `continue` skips an element with a missing attribute but not the move to its
  sibling: `i` counts passes, `at` is the element, and they part at the first such
  element. Those after it are never read.
* `objs_and_links_` has copies of what `object_hash_` points to, but a copy shares the
  list of links: a link goes to the entry that `objectHash` names.
* The loader keeps a link with its writer, so `AddDataBlock()` fills `data_out_` only.
* `sizeof(edges) / sizeof(Edge)` is 8 / 8 where pointers have 64 bits: one edge. Without
  links that edge lies behind the array: any warning, or a crash.
* The builds of the repository do not define `NDEBUG`: a failed `assert` ends the
  program (`NoWriter`, `NoReader`).
* A second `Start()`, which links everything again, is allowed.

## 3. What TLC checks

| run | module, bounds | shows |
|---|---|---|
| `data_path` | `MCAnalysis`: 1 writer, its reader as analysis thread, 1 block switched on and off, sizes 0 and 2, 3 writes, any number of starts and stops, fair; 387,558 states | the inductive invariant `IInv` with the types, `CopiesArePostings`, `UnreadPacketsKept`, `NeverWaitsOnQueue`, `CountedPacketsAreWritten`; `EndsBetweenPackets`, `ExitEndsOrSleeps` |
| `chain` | `MCRegulator`: 3 threads in a row, the last linked to the first block too, 2 blocks, the second switched on and off, 2 writes each, fair; 224,260 states | refinement of `PacketStream`; `CallsReturnOrSleep` |
| `collect` | `MCGarbage`: 2 analysis threads, 3 addresses that are given out again, up to 2 reads of each at once, reads may be refused, all behaviours that are `Orderly`, fair; 196,991 states | `DeletesOnce`, `HeldIsAllocated`, `FreedAfterAnalyze`, `CollectionEnds` |
| `windows` | `MCAccumulator`: 3 windows of 2 ticks, times 0..11, two origins, batches of up to 2, 3 events per acquisition; about 58,000 states | `RingTiled`, `PacketsAreWindows`, `OnlyStaleAreLate`, `FlushPostsAll` |
| `daq` | `MCCollection`: 2 outputs, windows that move up to 2 steps in a collection, fair; 57,800 states | `OutputsInStep`, `NothingTakenIsDropped`, `DeviceIsBracketed`, `ExitEndsThread`, `StopClosesDevice` |
| `load` | `MCLoader`: 2 names, up to 3 objects and 3 links out of 5 elements each, with repeated and missing names, an unknown class, a self-loop and missing attributes; 24,336 files, 487,236 states | `BlocksAreTheLinks`, `WriterShouldExist`, `OnlyMissingReadersAbort`, `StartedIsLinked`, `WarningIsTrue` |
| `search` | `SearchBox`: 4 characters, 6 texts with leading and inner spaces and the label typed by hand, 2 sections, 4 pages, 2 timers; 693,328 states | `ShownIsLastSearch`, `TypedIsActive`, `OnlyShiftLosesSearch` |
| `results` | `SearchResults`: 26 real pages, all searches of up to 3 characters, 2 rows open at once, 1 on pages of 50 rows or more; 154,682 states | `VisibleIsOneBlock`, `ActsOnHeldKey`, `ReadingOrder` |
| `commands` | `MCCommands`: 2 threads, one a DAQ thread, 2 addresses, 1 macro of up to 2 commands, queues of up to 2, fair; 981,000 states | `PointersAreOwned`, `CommandsAreHandled` |
| `relay` | `GRIServer`: 2 clients, an array of 2 bytes, arrivals of 1 to 3, 4 bytes of each client, fair; 15,399 states | `ReceivedOnce`, `TakenIsRelayed`, `CallsReturn` |

The types are proved, and TLC checks them where they say more than types: with `IInv` in
`data_path`, with `ResultsTypeOK` (the focus is on a link that can be seen) in `results`.
Every property of these runs has a mutant, a small change of the model such as a bug
in the code could make (operators commented "Mutant:"), under which TLC refutes it.

Why the bounds are enough. On the data path the interesting cases are a write that
overlaps a read of the same packet, of the packet before (being cleared) and a
count loaded before and after: three packets of two bytes give a packet being
written, one being read and one being cleared. The proofs cover every larger
instance. In the accumulator, times up to 11 reach beyond the ring of 6 ticks by a
whole ring, so that one event can make all windows move, and origin 1 puts events
before the first window. Three objects over two names are the fewest in which a
name is repeated beside another one, and three links the fewest with a cycle, a
repeated block and an element that cannot be read. Two outputs whose windows move by
up to two steps are enough for one to post and the other not, in a later collection
than the one before. Two addresses are the fewest of which one can be given out again
while the other is in a queue; one macro can be run again and defined again. Of packets,
two threads with two each and three addresses let a thread be given, in the middle
of the other's collection, the address that was just freed, and run out of addresses. Two
running timers are one that `searchBox` knows of and one it forgot. A chain of two
blocks is the smallest in which a thread both reads and writes and in which a wake-up
on one block wakes a sleeper of another, and a second reader of the first block takes the
branch of those that are answered (0, NULL). One analysis thread is enough for its
life: what the threads share there is `calling`, one call at a time, and the theorems are for
any number. Two clients let one call of the slot begin inside the wait of another one; of
an array of two bytes, an arrival of one byte is not read alone, one of two fills
it, one of three leaves a byte behind, and one and three leave more than it can take.

`Orderly` is a constraint of `collect`: with a state in which two threads came to be inside
`gc_mutex_`, or a list was kept, the behaviour is not followed further, since the four
properties speak about the orderly part only. What happens behind it is what
`gc_serial` and `gc_refused` show; there `takeAt()` may be given an index that another
thread has made invalid, which is an assertion that fails.

Fairness. `FairSpec` gives weak fairness to the steps of a thread inside a call (the
operating system runs every thread that can run) and to the second flag write of a
controller; `CollectionSpec` gives the same. In `GRICommands` every thread has weak
fairness for its own steps: `Analyze()` and the handlers return. In `GRIAnalysisThread` a thread
looks at its flags when it can, and an `Analyze()` that is not in a call again and again
comes to its end (strong fairness of `EndAnalyze`): an application makes finitely many
calls in one. In `GRIGarbage` a thread that collects is scheduled, and the mutex
has strong fairness: two threads that collect want it again and again, and one that
finds it free in between gets it at some time. In `GRIServer` the thread of the server runs, and `BytesWritten` has strong
fairness: the peer reads what it is sent or goes away, which the code waits for without a
limit. Nothing else is assumed about starting calls, about anyone calling start or stop,
or about the user and the browser. On the data path a lock that is free again and again
while a thread wants it is not promised to that thread; the properties do not need it
because each block has one writer and one reader that gets past the check.

Deadlock is checked in `collect`, `windows`, `daq`, `search` and `results`. In the runs of
`MCRegulator` and `MCAnalysis` the system may stop: all writes done and readers asleep; in `relay`, when
the bytes are used up or the array is full; in `load`, when it has exited or an
assertion failed; in `commands`, when the program has ended; in `balance`, when all
packets are through.

### Disagreements between code and documentation

These runs end in a violation: the property states what a comment says, and the
counterexample is what the code does.

| run | property | what happens |
|---|---|---|
| `lost_wakeup` | `WaitingReaderIsServed` | `wakeAll()` between the check and the wait: the reader sleeps on a packet that is there |
| `balance` | `PriorityIsPossible` | two readers of two blocks both find the writer's priority above idle and both lower it: it becomes -1 |

Eleven more configurations show a disagreement. They are kept to be run by hand and are
not among the runs of `PROJECT.json`:

| configuration, module | property | what happens |
|---|---|---|
| `wait_mutex`, `MCRegulator` | `WokenThreadProceeds` | the first reader to leave `wait()` keeps `mutex_`; the next never leaves it |
| `stop_ends`, `MCAnalysis` | `StopEndsThreads` | `Stop()` ("Stop all of the threads.", `GRIRegulator.h:95`) wakes nobody: a thread that sleeps in a read does not see its flags |
| `relay_full`, `GRIServer` | `SentIsRelayed` | four bytes at once for an array of two: the loop has no way out. A last single byte is not read either (`GRIServer.h:91`) |
| `relay_order`, `GRIServer` | `OneOrder` | a call inside the wait of another one sends its bytes first to the clients that the outer one has yet to come to: two clients receive the same bytes in different orders |
| `torn_length`, `MCRegulator` | `LengthIsThatOfThePacket` | the two unlocked loads of `BufferSize()` count a packet that is half written; the length taken then is too short |
| `gc_serial`, `MCGarbage` | `DeletionIsSerial` | the second unlock of `gc_mutex_` lets two threads in |
| `gc_refused`, `MCGarbage` | `NothingHeldIsFreed` | after a refused read freed addresses are kept, collected again and deleted twice |
| `skipped`, `MCLoader` | `BrokenAreSkipped` | "Skipping that object...", "Skipping that link..." (`GRIParser.cpp:66`, `72`, `103`, `109`, `115`): the loop stays on the element that lacks an attribute, and what follows it is never read |
| `empty_line`, `MCCommands` | `UnparsableIsRefused` | "could not parse instructon" (`GRICLI.cpp:180`) comes too late for a line without a word: its first word was read before (`GRICLI.cpp:73`); nor is a blank command of a macro refused (`GRICLI.cpp:230`) |
| `macro_twice`, `MCCommands` | `HandledIsThere` | the second run of a macro enqueues what the thread has deleted (`GRICLI.cpp:265`) |
| `edge`, `MCAccumulator` | `NoneDroppedOnTheEdge` | an event exactly on the end of the ring fits no window and triggers nothing |

Seen while modelling, without a run of their own: `QuitDAQ()` sets the exit flag to
*false* (`GRIDAQThread.cpp:43`); a stop and a start between two looks at the flag go
unseen (`GRIDAQThread.cpp:89`); the readers of all but the first link to a block are
answered (0, NULL) (`GRIRegulator.cpp:213`, modelled as the `ELSE` of `UpdateReader`);
a packet of size 0 is read as one byte (`GRIBuffer.cpp:184`); a cycle of two links gets
"No dependency cycle detected." (`GRILoader.cpp:157`); a link whose reader
was not loaded ends the program, although the loader continues "without the file"
(`GRIDataBlock.cpp:116`); `data_in_` stays empty, so `FindDataBlock()` finds outputs only
(`GRILoader.cpp:103`).

Of the commands: the cases of `HandleDynamicCommand` fall through, so that a run also
sets and gets, and no reply is deleted (`GRIProcessThread.cpp:214`); a macro that runs before a process was chosen dereferences the null
`curr_proc_`. Of the collection: a stop between two posts of one acquisition leaves
the outputs apart for the rest of that collection (`GRIDAQThread.h:441`).

Of the search: a key timer that was set before the field was left reopens the results
on an inactive panel (`search.js:241`); `OnSelectItem` forgets a running timer when it
searches, and a later key does not stop it (`search.js:342`); Down in the menu
goes one past the last section, `Search()` throws, and Enter and Escape then leave the
menu open (`search.js:307`); Shift with Down drops the search that was pending
(`search.js:206`); a text equal to the label is cleared on leaving the field; spaces
are left out of the comparison, so that "a b" after "ab" is not searched for
(`search.js:233`); rows with the same id, as in `all_63`, `all_64` and `classes_64`, make
Right and Left on the second act on the first.

## 4. What TLAPS proves

`GRIRegulatorProofs`, for any sets of threads, blocks and sizes and any links that
satisfy `LinksAssumption` and `BoundsAssumption` (each block has one writer, and the
first reader linked to it is linked to it; a block is not a thread):

| theorem | states |
|---|---|
| `Invariance` | `Spec => []IInv` |
| `TypeCorrect` | `[]TypeOK` |
| `FirstInFirstOut` | `[]CopiesArePostings` |
| `NothingDeletedUnread` | `[]UnreadPacketsKept` |
| `QueueIsDead` | `[]NeverWaitsOnQueue` |
| `NothingCountedIsMissing` | `[]CountedPacketsAreWritten` |
| `Refinement` | `Spec => ImplementsStream` |

None of the properties is inductive. `IInv` adds: who may be where (`RoleInv`); that
the lock of a block excludes its writer from its readers (`LockInv`); how far the
write in progress has gone, as a relation of counter, list and bytes (`WriteInv`);
that a posted packet keeps its place, and its bytes while the first-packet counter is
below it (`ContentInv`); and how marker, read counter and deliveries follow each
other (`ReadInv`). The last one holds the argument why the unlocked count is safe:
the count may include a packet in progress, so `k < NextPacket` is all that a reader
knows when it goes on, and it is the read lock, taken later, that excludes the write.
`read_counter` is at most one ahead of the copies, and only while the reader is
between counting and copying, where nobody else clears: so nothing is cleared
unread. The proof has one lemma per action; frame lemmas (`WriteFrame`, `ReadFrame`
and the like) carry the invariant over to the blocks that a step does not touch.

The refinement maps a block to the packets posted to it and to those its reader was
given, without the calls they came from. Two steps are visible, one of the writer and
one of the reader: clearing `busy_write_` posts, the copy delivers; every other step is
a stutter. `RequestInv`, invariant beside `IInv`, bounds what a write in progress was
asked for, so that what it posts is one of the packets of `PacketStream`; that the copy
is the next packet of the stream is what `ContentInv` and `ReadInv` are for.

and of `GRIAnalysisThread`, for any set of analysis threads among the threads
(`AnalysisAssumption`):

| theorem | states |
|---|---|
| `AnalysisImplementsDataPath` | `AnalysisSpec => Spec` |
| `ThreadsEndBetweenPackets` | `[]EndsBetweenPackets` |

A step of `run()`, of `Start()` or of `Stop()` is a stutter of the data path, so that all the
theorems above hold of threads that are started and stopped. `LifeInv` says that a thread
which is not in `Analyze()` is in no call, and that a thread registered with the condition
variable is in the wait; what a thread in no call holds, has begun and was given
is in `LockInv`, `WriteInv` and `ReadInv`. That is what a stop relies on and nothing in the
code states: the flags are looked at in places where the data path is whole.

`GRIGarbageProofs`, for any set of analysis threads and of addresses
(`GarbageAssumption`):

| theorem | states |
|---|---|
| `TypeCorrect` | `[]TypeOK` |
| `Invariance` | `Spec => []IInv` |
| `NothingDeletedTwice` | `[]DeletesOnce` |
| `NothingFreedWhileHeld` | `[]HeldIsAllocated` |
| `EverythingFreed` | `FreedAfterAnalyze`, an action property |
| `AloneIsSerial` | `Readers = {r} => []~overlapped`: one thread is always alone inside |

The threads take turns as they like. The one condition is `Orderly`, a statement about
the past: no thread has yet locked `gc_mutex_` with another one inside, and no list was
kept because a read in it was refused. It is no assumption about the application: each
of the two is what the code does, at `GRIRegulator.cpp:234` and
`GRIAnalysisThread.cpp:91`, and `gc_serial` and `gc_refused` show that the properties fail
once it is gone. So the theorems say that these two lines are the only ways in which a
packet can be leaked, freed twice or freed under another thread. `IInv` relates heap and
registry to what the threads hold. Every address that is registered is held by one
thread; what a thread holds is registered, but for the address in its hand, which may be
registered or not depending on its place in `GarbageCollection()`; an address that was
freed and given out again is held by its new reader, in front of which the old list has
only places that its collection has passed (`First`). A thread that is inside is alone
there, so that the index that it found is still that of its address when it takes it.

`GRIAccumulatorProofs`, for any number of buffers, any length of the windows, any
origins and batches:

| theorem | states |
|---|---|
| `TypeCorrect` | `[]TypeOK` |
| `WindowsTile` | `[]RingTiled` |
| `PacketsHold` | `[]PacketsAreWindows` |
| `StaleOnly` | `[]OnlyStaleAreLate` |
| `FlushLosesNothing` | `[]FlushPostsAll` |

`RingTiled` is inductive with the types, with the position of the bubble as the
witness that makes the rotation arithmetic instead of a search. `ContentInv` is the
invariant of the contents. `PacketsInv` says of packets, of buffers *and of the windows
beyond the ring* what they have: those are in the batch that the running call still
re-buffers. `ReachInv` bounds all events by the window that the ring will reach when the
call is over, which is why a flush leaves nothing; `StaleInv` says that a window is
closed because of an event as many windows newer as the ring has.

`GRIDAQThreadProofs`, for any set of outputs and any `MaxReach`:

| theorem | states |
|---|---|
| `Invariance` | `Spec => []IInv` |
| `TakenIsPosted` | `[]NothingTakenIsDropped` |
| `DeviceIsClosed` | `[]DeviceIsBracketed` |
| `CollectionImplementsThread` | `CollectionSpec => Spec` |
| `CollectionInvariance` | `CollectionSpec => []CollectionInv` |
| `OutputsStayInStep` | `[]OutputsInStep` |
| `CollectionTypeCorrect` | `[]CollectionTypeOK` |

The first two properties speak about the places where it would be too late. The
invariant says where in `run()` an accumulator may hold data and where the device may
be open. `CollectionImplementsThread` carries all of this over to the thread with its
accumulators. There `CollectionInv` says that the windows of all outputs began the
acquisition at one place, and that those that were posted to have all moved to where
the events took them or have all stayed, as long as the posts saw one value of the
flag; without the first half a flush could not be shown to find them equal.

`InterfaceProofs`, of `GRICommands` for any numbers of threads, addresses and macros
(`CommandsAssumption`):

| theorem | states |
|---|---|
| `Invariance` | `Spec => []IInv` |
| `TypeCorrect` | `[]TypeOK` |
| `CommandsAreOwned` | `[]PointersAreOwned` |

A command has one owner at a time: a queue, what is left of a running macro, or a
macro that has not run. The lemmas on `Sound` and `Disjoint` say what taking the head
of a list, appending a new address and freeing one do to that. `PointersAreOwned` is
inductive together with the types, which say that a thread was chosen whenever a
single command is enqueued. It ends with the second run of a macro (`macro_twice`), and
says nothing of how the program may end (`empty_line`).

and of `GRIServer` for any sockets, any size of the array and any arrivals
(`ServerAssumption`):

| theorem | states |
|---|---|
| `ServerTypeCorrect` | `[]ServerTypeOK`: no array overflows, no byte is read that has not come |
| `BytesReceivedOnce` | `[]ReceivedOnce` |
| `AllRelayed` | `[]TakenIsRelayed` |

The invariant follows a byte from the socket it was taken from to the sockets it is
written to. `ToWrite(i, p)` says that call `i` of the stack has not come to socket `p` of the
list. A byte that was taken is then either received by an open socket or held by
a call that has yet to write to it (`RelayedInv`), and never both (`ReceivedInv`); two
calls hold different bytes (`HeldInv`), and all calls but the innermost are in a wait, which
is where they resume (`CallsInv`). With no call in progress the first alternative is
left, which is `TakenIsRelayed`. That no socket is added to the list during a call is
what makes the places in it stand for the same sockets throughout; connections
being signalled in the event loop only is what the code has instead of a lock.

`SearchProofs`, of `SearchBox` for any characters, texts, sections and pages (`TextsAssumption`,
`PagesAssumption`):

| theorem | states |
|---|---|
| `Invariance` | `Spec => []IInv` |
| `TypeCorrect` | `[]TypeOK` |
| `WindowIsLastSearch` | `[]ShownIsLastSearch` |
| `TextIsActive` | `[]TypedIsActive` |
| `TextIsSearched` | `OnlyShiftLosesSearch`, an action property |

The two invariants are inductive together with the types, which say that `keyTimeout`
names a timer only while one is running. A handler is a composition of functions on
`box`; a lemma for each function says what it keeps, and the actions follow from these.
For the third theorem they say that no function leaves results behind the text with no
timer to search for it (`Behind`) unless they were so before, and that while the field
is not in use what is shown is what stands in it (`Quiet`); both together are `Keeps`.
The lemmas on `Squeezed` and `LeadStripped` say that leading spaces and spaces in between
make no difference to the comparison.

and of `SearchResults` for any pages that satisfy `RowsAssumption`:

| theorem | states |
|---|---|
| `ResultsInvariance` | `ResultsSpec => []ResultsInv` |
| `ResultsTypeCorrect` | `[]ResultsTypeOK` |
| `ActsOnKey` | `[]ActsOnHeldKey` |
| `InReadingOrder` | `ReadingOrder`, an action property |

`RowsAssumption` is what the generator of the pages sees to: the rows that a search
finds are one block, and of the rows with one id only the first has children. TLC
evaluates it on the 26 pages of `results`. `NavUp()` looks for the children of the row
before by its number less one, and that is the row it found only because of the first
part; that the row which is opened is the one whose children are looked for takes the
second. The focus is always on a link that can be seen (`FocusInv`), and a lemma for
each arrow key names the link it goes to and that none that can be seen lies between.
`VisibleIsOneBlock` itself is a property of the data: the run checks it, the proofs
assume it of the pages.

`GRILoaderProofs`, for files of any size over any names, classes and data
(`ElementsAssumption`: elements have the attributes of their kind, and `None` is none of
the names):

| theorem | states |
|---|---|
| `Invariance`, `StartInvariance`, `ReaderInvariance`, `GraphInvariance`, `FileBlocksInvariance` | the inductive invariants |
| `TypeCorrect` | `[]TypeOK` |
| `WriterExists` | `[]WriterShouldExist` |
| `ReaderMissing` | `[]OnlyMissingReadersAbort` |
| `StartedLinked` | `[]StartedIsLinked` |
| `WarningHolds` | `[]WarningIsTrue` |
| `BlocksMatch` | `[]BlocksAreTheLinks` |

The writer of every block exists because of what three classes do: objects have
only links they write (`ObjectsInv`), a block is created while its writer is in the
making, and that writer then joins the processes (`WritersInv`). For what is linked at
the start an invariant follows each pair of writer and data from `AddDataBlock()` to
its block, to its buffer and back. A missing reader is traced from the processes back
to the elements of the file. The nodes of the graph are numbered without gaps, one for
each name that a block has, so that a cycle of numbers is a cycle of names.
`BlocksMatch` takes three steps: of the objects with one name the last one answers to it
(`HashInv`); it has the links of that name in the file so far, and the others have none
(`LinksInv`); so the loop over the objects makes the blocks of a name once, in the order
of the links (`BlocksInv`). What was read is the part of a list before the first element
that lacks an attribute (`ReadableIs`). Of a whole file that is all; of any other the
property leaves open what is read behind it, so that it holds of this parser and of one
that skips what it says it skips: what becomes a block is a link of the file, in its
order and once (`ReadComesFirst`).

### Induction over lists

The induction theorems of the library take the statement as an operator, which the
provers cannot instantiate. The module `Lists` goes round this: `LeastElement` gives the
least of a set of numbers from the well-foundedness of their order, `BoundedInduction`
follows for a *set* of numbers, and a statement to be proved by induction becomes
the set of the numbers for which it holds. In this way the recursive function in `ElementsAt`
is shown to exist, and its laws: what it does to an appended element, to two lists in
a row, to lists that agree at the places. The model uses `ElementsAt` where a loop
copies some elements of a list; `SelectSeq` takes the test as an operator and could not
be reasoned about. `Min` and `Max` are CHOOSEs and get their elements from the same
lemmas.

### What is only model-checked

* Liveness, which is out of reach of the prover: `CallsReturnOrSleep`,
  `ExitEndsOrSleeps`, `CollectionEnds`, `ExitEndsThread`, `StopClosesDevice`,
  `CommandsAreHandled`, `CallsReturn`.
* `VisibleIsOneBlock`, a property of the pages as they are.
* What the code violates: the runs of section 3.

## 5. Plan

Done: the data path with its abstract specification and proofs, the life of the analysis
threads on it, packet memory, accumulators, the DAQ thread alone and with its
accumulators, the loader, the command line with its commands, load balancing, the relay
server, and the search of the documentation; every safety property of the runs is
proved, but for `VisibleIsOneBlock`. What could follow: the logger, whose one property is
that a file has one writer; the collection of `GRIGarbage` with the life of the thread; the
priorities of `GRILoadBalancing` with the rates at which blocks fill.

## 6. What is not modelled

Of the commands, the handlers that applications override, their replies and
`FindProcess()`, which has no caller. Of the search, positions and styles
(`getXPos`, `getYPos`), the links that results lead to, and the pages of the index that
repeat parts of the section All. Of the relay server, reads that fail. Of the analysis
thread, its histograms and what an application does in `Initialize()`.

Painting and mouse handling of the histogram widgets; the histogrammers, which forward
to ROOT; `GRIMath` (floating-point distributions); the Python code generators; the logger
(text output); XML syntax (Qt); user code in `src/examples` and `src/experimental`, which
is read for how it calls the framework; vendored Boost and Qwt, and the vendored jQuery
of the documentation. `Clear()` and
destructors run with no thread alive. `BufferDelete`,
`SetPacketPosition`, `AddPacket` and `WakeOneOnQueue` have no caller once threads run.
