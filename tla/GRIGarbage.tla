----------------------------- MODULE GRIGarbage -----------------------------
(***************************************************************************)
(* The memory of the packets that were read.  GRIRegulator::ReadMemory     *)
(* allocates a copy of a packet and registers its address with             *)
(* GarbageCollection(); the analysis thread remembers the address and,     *)
(* after each Analyze(), calls GarbageCollection() on everything it        *)
(* remembers: an address that is registered is unregistered and deleted,   *)
(* one that is not is registered.                                          *)
(*                                                                         *)
(* The data path that fills the packets is GRIRegulator's; here a read     *)
(* either yields a fresh copy or, on a block that is disabled, NULL.  The  *)
(* allocator may return any address that is not in use.                    *)
(***************************************************************************)
EXTENDS Integers, Sequences, SequencesExt

CONSTANTS
  Readers,     \* the analysis threads
  Addresses,   \* the addresses the allocator can return
  Null,        \* the null pointer
  None,        \* no thread
  MaxReads     \* bound on the addresses a thread remembers at once

ASSUME GarbageAssumption ==
  /\ Null \notin Addresses
  /\ None \notin Readers
  /\ MaxReads \in Nat

Pointers == Addresses \union {Null}

VARIABLES
  heap,        \* the addresses that are allocated
  registry,    \* GRIRegulator::read_data_ptrs_
  gcMutex,     \* the thread that holds gc_mutex_
  pc,          \* pc[t]: what thread t does next
  readPtrs,    \* readPtrs[t]: GRIAnalysisThread::read_data_ptrs_
  gc,          \* gc[t]: the locals of ReadGarbageCollection and of its
               \*   current GarbageCollection call
  overlapped,  \* history: a thread locked gc_mutex_ with another one inside
  kept         \* history: a collection ended without forgetting its list

history == <<overlapped, kept>>
vars == <<heap, registry, gcMutex, pc, readPtrs, gc, history>>

-----------------------------------------------------------------------------

\* In GarbageCollection between locking gc_mutex_ and the first unlock.
InsidePCs == {"Find", "Register", "Take", "Delete"}

GarbagePCs == {"Analyze", "Collect", "Lock", "Unlock", "Release"}
                \union InsidePCs

\* collecting: called from ReadGarbageCollection, not from ReadMemory.
\* next, freed: position in the list that is collected and nFree.
\* p: the argument; at: the index found; taken: what takeAt() returned;
\* result: what the call will return.
Locals == [collecting : BOOLEAN, next : Nat, freed : Nat, p : Pointers,
           at : Nat, taken : Pointers, result : {0, 1}]

NoLocals == [collecting |-> FALSE, next |-> 1, freed |-> 0, p |-> Null,
             at |-> 0, taken |-> Null, result |-> 0]

TypeOK ==
  /\ heap \subseteq Addresses
  /\ registry \in Seq(Pointers)
  /\ gcMutex \in Readers \union {None}
  /\ pc \in [Readers -> GarbagePCs]
  /\ readPtrs \in [Readers -> Seq(Pointers)]
  /\ gc \in [Readers -> Locals]
  /\ overlapped \in BOOLEAN
  /\ kept \in BOOLEAN

Init ==
  /\ heap = {}
  /\ registry = <<>>
  /\ gcMutex = None
  /\ pc = [t \in Readers |-> "Analyze"]
  /\ readPtrs = [t \in Readers |-> <<>>]
  /\ gc = [t \in Readers |-> NoLocals]
  /\ overlapped = FALSE
  /\ kept = FALSE

Goto(t, from, to) == pc[t] = from /\ pc' = [pc EXCEPT ![t] = to]

-----------------------------------------------------------------------------
(* Analyze(), the user's code, reads; then the thread collects.            *)

\* ReadData() on an enabled block: the copy is allocated and filled, then
\* ReadMemory calls GarbageCollection() on it.
ReadPacket(t, a) ==
  /\ Len(readPtrs[t]) < MaxReads
  /\ a \notin heap
  /\ Goto(t, "Analyze", "Lock")
  /\ heap' = heap \union {a}
  /\ gc' = [gc EXCEPT ![t] = [NoLocals EXCEPT !.p = a]]
  /\ UNCHANGED <<registry, gcMutex, readPtrs, history>>

\* ReadData() on a disabled block: ReadMemory returns (0, NULL) at once, and
\* the null pointer is remembered like any other.
ReadRefused(t) ==
  /\ pc[t] = "Analyze"
  /\ Len(readPtrs[t]) < MaxReads
  /\ readPtrs' = [readPtrs EXCEPT ![t] = Append(@, Null)]
  /\ UNCHANGED <<heap, registry, gcMutex, pc, gc, history>>

\* Mutant: the loop starts at the second address.
EndAnalyzeSkipping(t) ==
  /\ Goto(t, "Analyze", "Collect")
  /\ gc' = [gc EXCEPT ![t] = [NoLocals EXCEPT !.collecting = TRUE,
                                             !.next = 2]]
  /\ UNCHANGED <<heap, registry, gcMutex, readPtrs, history>>

\* Analyze() returns; ReadGarbageCollection() starts.
EndAnalyze(t) ==
  /\ Goto(t, "Analyze", "Collect")
  /\ gc' = [gc EXCEPT ![t] = [NoLocals EXCEPT !.collecting = TRUE]]
  /\ UNCHANGED <<heap, registry, gcMutex, readPtrs, history>>

\* The loop of GarbageCollection(QList): the next address, if there is one.
CollectNext(t) ==
  /\ gc[t].next <= Len(readPtrs[t])
  /\ Goto(t, "Collect", "Lock")
  /\ gc' = [gc EXCEPT ![t].p = readPtrs[t][gc[t].next]]
  /\ UNCHANGED <<heap, registry, gcMutex, readPtrs, history>>

\* Mutant: the list is never forgotten.
CollectDoneKeeping(t) ==
  /\ gc[t].next > Len(readPtrs[t])
  /\ Goto(t, "Collect", "Analyze")
  /\ gc' = [gc EXCEPT ![t] = NoLocals]
  /\ UNCHANGED <<heap, registry, gcMutex, readPtrs, history>>

\* The end of ReadGarbageCollection(): the list is forgotten only if every
\* address in it was freed.
CollectDone(t) ==
  /\ gc[t].next > Len(readPtrs[t])
  /\ Goto(t, "Collect", "Analyze")
  /\ IF gc[t].freed = Len(readPtrs[t])
     THEN readPtrs' = [readPtrs EXCEPT ![t] = <<>>] /\ kept' = kept
     ELSE UNCHANGED readPtrs /\ kept' = TRUE
  /\ gc' = [gc EXCEPT ![t] = NoLocals]
  /\ UNCHANGED <<heap, registry, gcMutex, overlapped>>

-----------------------------------------------------------------------------
(* GRIRegulator::GarbageCollection(p).                                     *)

\* QMutexLocker locker(&gc_mutex_)
Lock(t) ==
  /\ Goto(t, "Lock", "Find")
  /\ gcMutex = None
  /\ gcMutex' = t
  /\ overlapped' = (overlapped \/ \E u \in Readers : pc[u] \in InsidePCs)
  /\ UNCHANGED <<heap, registry, readPtrs, gc, kept>>

\* The first place in the registry that holds p.
Find(t) ==
  LET places == {i \in DOMAIN registry : registry[i] = gc[t].p} IN
  /\ Goto(t, "Find", IF places = {} THEN "Register" ELSE "Take")
  /\ gc' = IF places = {} THEN gc
           ELSE [gc EXCEPT ![t].at = CHOOSE i \in places :
                                       \A j \in places : i <= j]
  /\ UNCHANGED <<heap, registry, gcMutex, readPtrs, history>>

Register(t) ==
  /\ Goto(t, "Register", "Release")
  /\ registry' = Append(registry, gc[t].p)
  /\ UNCHANGED <<heap, gcMutex, readPtrs, gc, history>>

\* Mutant: the call does not say that it deleted.
TakeUncounted(t) ==
  /\ gc[t].at \in DOMAIN registry
  /\ Goto(t, "Take", "Delete")
  /\ registry' = RemoveAt(registry, gc[t].at)
  /\ gc' = [gc EXCEPT ![t].taken = registry[gc[t].at]]
  /\ UNCHANGED <<heap, gcMutex, readPtrs, history>>

\* takeAt(i) asserts that i is in the list.
Take(t) ==
  /\ gc[t].at \in DOMAIN registry
  /\ Goto(t, "Take", "Delete")
  /\ registry' = RemoveAt(registry, gc[t].at)
  /\ gc' = [gc EXCEPT ![t].taken = registry[gc[t].at], ![t].result = 1]
  /\ UNCHANGED <<heap, gcMutex, readPtrs, history>>

Delete(t) ==
  /\ Goto(t, "Delete", "Unlock")
  /\ heap' = heap \ {gc[t].taken}
  /\ UNCHANGED <<registry, gcMutex, readPtrs, gc, history>>

\* gc_mutex_.unlock(), on the path that deleted.
Unlock(t) ==
  /\ Goto(t, "Unlock", "Release")
  /\ gcMutex' = None
  /\ UNCHANGED <<heap, registry, readPtrs, gc, history>>

\* Mutant: the loop does not advance.
ReleaseInPlace(t) ==
  /\ pc[t] = "Release"
  /\ gcMutex' = None
  /\ IF gc[t].collecting
     THEN /\ Goto(t, "Release", "Collect")
          /\ gc' = [gc EXCEPT ![t].result = 0]
          /\ UNCHANGED readPtrs
     ELSE /\ Goto(t, "Release", "Analyze")
          /\ gc' = [gc EXCEPT ![t] = NoLocals]
          /\ readPtrs' = [readPtrs EXCEPT ![t] = Append(@, gc[t].p)]
  /\ UNCHANGED <<heap, registry, history>>

\* The destructor of locker unlocks gc_mutex_, on every path and whoever
\* holds it; then the call returns to ReadData() or to the loop.
Release(t) ==
  /\ pc[t] = "Release"
  /\ gcMutex' = None
  /\ IF gc[t].collecting
     THEN /\ Goto(t, "Release", "Collect")
          /\ gc' = [gc EXCEPT ![t] =
                      [NoLocals EXCEPT !.collecting = TRUE,
                                       !.next = gc[t].next + 1,
                                       !.freed = gc[t].freed + gc[t].result]]
          /\ UNCHANGED readPtrs
     ELSE /\ Goto(t, "Release", "Analyze")
          /\ gc' = [gc EXCEPT ![t] = NoLocals]
          /\ readPtrs' = [readPtrs EXCEPT ![t] = Append(@, gc[t].p)]
  /\ UNCHANGED <<heap, registry, history>>

-----------------------------------------------------------------------------

CollectionStep(t) ==
  \/ CollectNext(t)
  \/ CollectDone(t)
  \/ Lock(t)
  \/ Find(t)
  \/ Register(t)
  \/ Take(t)
  \/ Delete(t)
  \/ Unlock(t)
  \/ Release(t)

Next ==
  \E t \in Readers :
    \/ \E a \in Addresses : ReadPacket(t, a)
    \/ ReadRefused(t)
    \/ EndAnalyze(t)
    \/ CollectionStep(t)

Spec == Init /\ [][Next]_vars

\* A thread that collects is scheduled, and gets a mutex that is free again and
\* again.  Nothing obliges Analyze() to return.
FairSpec ==
  Spec /\ \A t \in Readers : WF_vars(CollectionStep(t)) /\ SF_vars(Lock(t))

-----------------------------------------------------------------------------
(* What the collection does, for any number of threads, as long as the     *)
(* mutex has kept them apart and every list was forgotten.                 *)

Orderly == ~ overlapped /\ ~ kept

\* Where the part of the list begins that is still to be freed.
First(t) ==
  IF ~ gc[t].collecting THEN 1
  ELSE IF pc[t] \in {"Unlock", "Release"} THEN gc[t].next + 1
  ELSE gc[t].next

\* The packets that thread t has read and that were not freed since, the one
\* that ReadMemory() is about to return included.
Held(t) ==
  ({readPtrs[t][i] : i \in First(t) .. Len(readPtrs[t])}
     \union IF ~ gc[t].collecting /\ pc[t] # "Analyze" THEN {gc[t].p} ELSE {})
  \ {Null}

\* What delete [] is given is what the caller asked to free; it is allocated,
\* and no other thread still uses it, not even a packet read since to an
\* address that was freed before.
DeletesOnce ==
  \A t \in Readers : Orderly /\ pc[t] = "Delete" =>
    /\ gc[t].taken = gc[t].p
    /\ gc[t].taken \in heap \union {Null}
    /\ \A u \in Readers \ {t} : gc[t].taken \notin Held(u)

\* In every state what is allocated is what the threads hold, each packet one
\* of them: nothing is leaked, nothing is deleted under the thread that reads
\* it.  Between two calls the registry is the same set, each address once.
HeldIsAllocated ==
  Orderly =>
    /\ heap = UNION {Held(t) : t \in Readers}
    /\ \A t, u \in Readers : t # u => Held(t) \intersect Held(u) = {}
    /\ (\A t \in Readers : pc[t] \in {"Analyze", "Collect"}) =>
         /\ ToSet(registry) \ {Null} = heap
         /\ \A i, j \in DOMAIN registry :
              registry[i] = registry[j] => i = j \/ registry[i] = Null

\* All data read is freed after each Analyze (GRIAnalysisThread.cpp:72): what
\* is still allocated at an address of the list was read by another thread
\* since, and the list is forgotten unless a read in it was refused.
FreedAfterAnalyze ==
  [][\A t \in Readers :
       Orderly /\ pc[t] = "Collect" /\ pc'[t] = "Analyze" =>
         /\ \A a \in ToSet(readPtrs[t]) \intersect heap :
              \E u \in Readers \ {t} : a \in Held(u)
         /\ Null \notin ToSet(readPtrs[t]) => readPtrs'[t] = <<>>]_vars

\* The collection ends, whatever was read and however the threads take turns.
CollectionEnds ==
  \A t \in Readers : pc[t] = "Collect" ~> pc[t] = "Analyze" \/ ~ Orderly

-----------------------------------------------------------------------------
(* What the documentation says of any number of threads.                   *)

\* The mutex makes deletion serial (GRIRegulator.cpp:224-226): a thread that
\* changes the registry or deletes is alone in doing so.
DeletionIsSerial ==
  \A s, t \in Readers :
    pc[s] \in InsidePCs /\ pc[t] \in InsidePCs => s = t

\* All data read is freed, also when a read was refused.
NothingHeldIsFreed ==
  \A t \in Readers :
    pc[t] = "Delete" => gc[t].taken \in heap \union {Null}
=============================================================================
