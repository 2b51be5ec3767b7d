----------------------------- MODULE GRICommands -----------------------------
(***************************************************************************)
(* Dynamic commands: the user of GRICLI sets and gets values of a thread   *)
(* and runs its actions, one by one or as a macro.  A command is a         *)
(* ProcessCommand on the heap; GRICLI creates it, a queue under a mutex    *)
(* hands it to the thread, and the thread deletes it when it handled it,   *)
(* between one Analyze() or AcquireData() and the next.                    *)
(*                                                                         *)
(* A pointer is an address.  An address that was freed may be given out    *)
(* again, and a pointer that is used after that points to another command. *)
(* Handling a freed pointer is undefined behaviour: the program ends, or   *)
(* goes on with what it finds there.  What the overridden DynamicSet...,   *)
(* DynamicGet... and DynamicRunAction of a thread do, and what becomes of  *)
(* the replies, is left out.                                               *)
(***************************************************************************)
EXTENDS Naturals, Sequences

CONSTANTS
  Threads,      \* the process threads
  DAQThreads,   \* those of them that are GRIDAQThreads
  Nobody,       \* curr_proc_ before a process is chosen
  Addresses,    \* where a ProcessCommand can be
  Null,         \* what a macro holds for a command it could not parse
  Macros,       \* names of macros
  MaxLength,    \* bound on the length of a macro
  MaxQueue      \* bound on the length of a queue

ASSUME CommandsAssumption ==
  /\ DAQThreads \subseteq Threads
  /\ Nobody \notin Threads
  /\ Null \notin Addresses
  /\ MaxLength \in Nat
  /\ MaxQueue \in Nat

VARIABLES
  heap,         \* the addresses that hold a ProcessCommand
  queue,        \* cmd_buffer_ of each thread
  at,           \* where each thread is in run()
  flags,        \* run_flag_ and exit_thread_flag_ of each thread, as one
  state,        \* cli_state_
  proc,         \* curr_proc_
  macros,       \* macro_hash_, <<>> for a name it does not contain
  todo,         \* what HandleMacroExecution() has still to enqueue
  crashed,      \* the program has ended
  ran,          \* history: the macros that ran since they were defined
  rerun         \* history: a macro ran that had run before

cliVars == <<state, proc, macros, todo, ran, rerun>>
threadVars == <<at, flags>>
vars == <<heap, queue, crashed, cliVars, threadVars>>

Pointers == Addresses \union {Null}

TypeOK ==
  /\ heap \subseteq Addresses
  /\ queue \in [Threads -> Seq(Addresses)]
  /\ at \in [Threads -> {"Loop", "Flush"}]
  /\ flags \in [Threads -> {"Run", "Hold", "Exit"}]
  /\ state \in {"MAIN", "PROCESS_TOP"}
  /\ proc \in Threads \union {Nobody}
  /\ state = "PROCESS_TOP" => proc \in Threads
  /\ macros \in [Macros -> Seq(Pointers)]
  /\ todo \in Seq(Pointers)
  /\ crashed \in BOOLEAN
  /\ ran \subseteq Macros
  /\ rerun \in BOOLEAN

Init ==
  /\ heap = {}
  /\ queue = [t \in Threads |-> <<>>]
  /\ at = [t \in Threads |-> "Loop"]
  /\ flags = [t \in Threads |-> "Run"]
  /\ state = "MAIN"
  /\ proc = Nobody
  /\ macros = [m \in Macros |-> <<>>]
  /\ todo = <<>>
  /\ crashed = FALSE
  /\ ran = {}
  /\ rerun = FALSE

-----------------------------------------------------------------------------
(* The command line. *)

\* FlushBuffer() keeps cmd_buffer_lock_ while it handles the commands.
Locked(t) == at[t] = "Flush"

EnqueueDynamicCommand(t, pc) ==
  /\ ~Locked(t) /\ Len(queue[t]) < MaxQueue
  /\ queue' = IF pc = Null THEN queue
                           ELSE [queue EXCEPT ![t] = Append(@, pc)]

\* The next line can be read: no macro is being run.
Prompt == ~crashed /\ todo = <<>>

\* HandleMain with the name of a process.
HandleMain(t) ==
  /\ Prompt
  /\ state = "MAIN"
  /\ state' = "PROCESS_TOP"
  /\ proc' = t
  /\ UNCHANGED <<heap, queue, crashed, macros, todo, ran, rerun, threadVars>>

\* HandleProcessTop with "back": curr_proc_ stays.
Back ==
  /\ Prompt
  /\ state = "PROCESS_TOP"
  /\ state' = "MAIN"
  /\ UNCHANGED <<heap, queue, crashed, proc, macros, todo, ran, rerun,
                 threadVars>>

\* Mutant: the command of an earlier line is filled in again.
HandleProcessTopAgain(pc) ==
  /\ Prompt
  /\ state = "PROCESS_TOP"
  /\ heap' = heap \union {pc}
  /\ EnqueueDynamicCommand(proc, pc)
  /\ UNCHANGED <<crashed, cliVars, threadVars>>

\* HandleProcessTop with "set", "get" or "run": create and enqueue.
HandleProcessTop(pc) ==
  /\ Prompt
  /\ state = "PROCESS_TOP"
  /\ pc \in Addresses \ heap
  /\ heap' = heap \union {pc}
  /\ EnqueueDynamicCommand(proc, pc)
  /\ UNCHANGED <<crashed, cliVars, threadVars>>

\* A line without a word, and every line after the end of the input: the first
\* word of an array of length 0 is compared before anything looks at n.  If the
\* program survives it, the line is one that cannot be parsed.
EmptyLine ==
  /\ Prompt
  /\ crashed' \in BOOLEAN
  /\ UNCHANGED <<heap, queue, cliVars, threadVars>>

\* HandleMacroDef: the commands of an earlier definition are not deleted.
HandleMacroDef(m, macro) ==
  /\ Prompt
  /\ \A i \in DOMAIN macro : macro[i] # Null =>
        /\ macro[i] \in Addresses \ heap
        /\ \A j \in DOMAIN macro : macro[j] = macro[i] => j = i
  /\ heap' = heap \union {macro[i] : i \in {j \in DOMAIN macro : macro[j] # Null}}
  /\ macros' = [macros EXCEPT ![m] = macro]
  /\ ran' = ran \ {m}
  /\ UNCHANGED <<queue, crashed, state, proc, todo, rerun, threadVars>>

\* HandleMacroDef where nothing but blanks stands between two semicolons: the
\* first word of an empty list is compared, and the program ends, with the
\* commands that it created for the macro.  If it survives, the part is one that
\* cannot be parsed, as in HandleMacroDef.
MacroDefBlank ==
  /\ Prompt
  /\ crashed' = TRUE
  /\ UNCHANGED <<heap, queue, cliVars, threadVars>>

\* HandleMacroExecution starts: it copies the list of pointers.
HandleMacroExecution(m) ==
  /\ Prompt
  /\ macros[m] # <<>>
  /\ todo' = macros[m]
  /\ ran' = ran \union {m}
  /\ rerun' = (rerun \/ m \in ran)
  /\ UNCHANGED <<heap, queue, crashed, state, proc, macros, threadVars>>

\* One round of its loop, with a process to enqueue to ...
MacroStep ==
  /\ ~crashed /\ todo # <<>> /\ proc \in Threads
  /\ EnqueueDynamicCommand(proc, Head(todo))
  /\ todo' = Tail(todo)
  /\ UNCHANGED <<heap, crashed, state, proc, macros, ran, rerun, threadVars>>

\* ... and with none: curr_proc_ is used without a test.
MacroCrash ==
  /\ ~crashed /\ todo # <<>> /\ proc = Nobody
  /\ crashed' = TRUE
  /\ UNCHANGED <<heap, queue, cliVars, threadVars>>

-----------------------------------------------------------------------------
(* The threads: run() of GRIAnalysisThread and of GRIDAQThread. *)

Goto(t, label) == at' = [at EXCEPT ![t] = label]

\* Mutant: no flush.
AnalyzeOnly(t) ==
  /\ ~crashed /\ at[t] = "Loop" /\ flags[t] = "Run"
  /\ UNCHANGED vars

\* The loop of run(): Analyze() or AcquireData(), then FlushBuffer() takes the
\* lock.  What they do with the data changes nothing here.  A thread that is to
\* exit does not come back to it.
Analyze(t) ==
  /\ ~crashed /\ at[t] = "Loop" /\ flags[t] = "Run"
  /\ Goto(t, "Flush")
  /\ UNCHANGED <<heap, queue, crashed, cliVars, flags>>

\* dequeue() and HandleDynamicCommand, which deletes the command.
HandleDynamicCommand(t) ==
  /\ ~crashed /\ at[t] = "Flush" /\ queue[t] # <<>>
  /\ Head(queue[t]) \in heap
  /\ heap' = heap \ {Head(queue[t])}
  /\ queue' = [queue EXCEPT ![t] = Tail(@)]
  /\ UNCHANGED <<crashed, cliVars, threadVars>>

\* The same with a pointer to what was deleted.
HandleFreed(t) ==
  /\ ~crashed /\ at[t] = "Flush" /\ queue[t] # <<>>
  /\ Head(queue[t]) \notin heap
  /\ queue' = [queue EXCEPT ![t] = Tail(@)]
  /\ crashed' \in BOOLEAN
  /\ UNCHANGED <<heap, cliVars, threadVars>>

\* FlushBuffer() found the queue empty and returns.
FlushDone(t) ==
  /\ ~crashed /\ at[t] = "Flush" /\ queue[t] = <<>>
  /\ Goto(t, "Loop")
  /\ UNCHANGED <<heap, queue, crashed, cliVars, flags>>

Step(t) ==
  Analyze(t) \/ HandleDynamicCommand(t) \/ HandleFreed(t) \/ FlushDone(t)

\* StartCollection() and StopCollection().
Collection(t, flag) ==
  /\ ~crashed /\ flags[t] # "Exit"
  /\ flags' = [flags EXCEPT ![t] = flag]
  /\ UNCHANGED <<heap, queue, crashed, cliVars, at>>

\* GRIRegulator::Stop() for one thread.
Stop(t) ==
  /\ ~crashed
  /\ flags' = [flags EXCEPT ![t] = "Exit"]
  /\ UNCHANGED <<heap, queue, crashed, cliVars, at>>

Definitions == UNION {[1 .. n -> Pointers] : n \in 0 .. MaxLength}

Next ==
  \/ \E t \in Threads : HandleMain(t)
  \/ Back
  \/ EmptyLine
  \/ \E pc \in Addresses : HandleProcessTop(pc)
  \/ \E m \in Macros, macro \in Definitions : HandleMacroDef(m, macro)
  \/ MacroDefBlank
  \/ \E m \in Macros : HandleMacroExecution(m)
  \/ MacroStep
  \/ MacroCrash
  \/ \E t \in Threads : Step(t)
  \/ \E t \in DAQThreads, flag \in {"Run", "Hold"} : Collection(t, flag)
  \/ \E t \in Threads : Stop(t)

\* A thread goes on as long as there is something to do, and Analyze() returns.
Fairness == \A t \in Threads : WF_vars(Step(t))

Spec == Init /\ [][Next]_vars /\ Fairness

-----------------------------------------------------------------------------
(* Properties. *)

\* A list of pointers to commands that are there, none of them twice.
Sound(list, commands) ==
  \A i \in DOMAIN list : list[i] # Null =>
    /\ list[i] \in commands
    /\ \A j \in DOMAIN list : list[j] = list[i] => j = i

Disjoint(list1, list2) ==
  \A i \in DOMAIN list1, j \in DOMAIN list2 :
    list1[i] = list2[j] => list1[i] = Null

\* As long as no macro runs for a second time, a pointer that will be handled,
\* now or when its macro runs, points to a command that was not deleted, and
\* nothing else leads to that command: not another thread's queue, not another
\* macro, and not a line that was typed after the address was freed.
PointersAreOwned ==
  ~rerun =>
    /\ \A t \in Threads : Sound(queue[t], heap) /\ Disjoint(queue[t], todo)
    /\ \A t, u \in Threads : t # u => Disjoint(queue[t], queue[u])
    /\ Sound(todo, heap)
    /\ \A m \in Macros \ ran :
          /\ Sound(macros[m], heap) /\ Disjoint(macros[m], todo)
          /\ \A t \in Threads : Disjoint(macros[m], queue[t])
          /\ \A n \in Macros \ ran : m # n => Disjoint(macros[m], macros[n])

\* "could not parse instruction", "could not parse macro instruction"
\* (GRICLI.cpp:180, 237): a line or a part of one that means nothing is refused,
\* and only a macro that runs again, or before a process was chosen, ends the
\* program.  It is not so: the first word is read before it is counted.
UnparsableIsRefused == crashed => rerun \/ (proc = Nobody /\ todo # <<>>)

\* Whatever a thread takes from its queue is a command that is there.  It is not
\* so when a macro runs for a second time (GRICLI.cpp:265).
HandledIsThere ==
  \A t \in Threads : at[t] = "Flush" /\ queue[t] # <<>> => Head(queue[t]) \in heap

\* A command that was enqueued is handled, unless the thread is stopped or told
\* to exit before: FlushBuffer() comes in every round and empties the queue.
CommandsAreHandled ==
  \A t \in Threads :
    queue[t] # <<>> ~> queue[t] = <<>> \/ flags[t] # "Run" \/ crashed
=============================================================================
