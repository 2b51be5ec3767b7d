--------------------------- MODULE InterfaceProofs ---------------------------
(***************************************************************************)
(* Proofs about what faces the outside.                                    *)
(*                                                                         *)
(* GRICommands: for all threads, macros and addresses, as long as no macro *)
(* runs twice, every command has one pointer to it.                        *)
(*                                                                         *)
(* GRIServer: for any sockets and any size of the array, every byte that   *)
(* the server takes is written once to each socket that was connected.     *)
(***************************************************************************)
EXTENDS GRICommands, GRIServer, TLAPS

-----------------------------------------------------------------------------
(* The commands. *)

\* The pointer is not in the list.
Missing(pc, list) == \A i \in DOMAIN list : list[i] # pc

-----------------------------------------------------------------------------
(* Lists. *)

\* A command that was there and was in no list may be appended.
LEMMA SoundAppend ==
  ASSUME NEW h, NEW s \in Seq(Addresses), NEW pc \in h,
         pc \in Addresses, Sound(s, h), Missing(pc, s)
  PROVE  Sound(Append(s, pc), h)
<1> DEFINE a == Append(s, pc)
<1>1. /\ DOMAIN a = 1 .. Len(s) + 1
      /\ \A i \in 1 .. Len(s) : a[i] = s[i]
      /\ a[Len(s) + 1] = pc
      /\ DOMAIN s = 1 .. Len(s)
      /\ Len(s) \in Nat
  OBVIOUS
<1>2. SUFFICES ASSUME NEW i \in DOMAIN a, a[i] # Null
               PROVE  a[i] \in h /\ \A j \in DOMAIN a : a[j] = a[i] => j = i
  BY DEF Sound
<1> HIDE DEF a
<1>3. CASE i = Len(s) + 1
  BY <1>1, <1>3 DEF Missing
<1>4. CASE i \in 1 .. Len(s)
  BY <1>1, <1>2, <1>4 DEF Missing, Sound
<1>. QED
  BY <1>1, <1>3, <1>4

\* What comes after the head is sound, too.
LEMMA SoundTail ==
  ASSUME NEW h, NEW S, NEW s \in Seq(S), s # <<>>, Sound(s, h)
  PROVE  /\ Sound(Tail(s), h)
         /\ Head(s) # Null => Missing(Head(s), Tail(s)) /\ Head(s) \in h
<1>1. /\ DOMAIN Tail(s) = 1 .. Len(s) - 1
      /\ \A i \in 1 .. Len(s) - 1 : Tail(s)[i] = s[i + 1]
      /\ Head(s) = s[1]
      /\ DOMAIN s = 1 .. Len(s)
      /\ Len(s) \in Nat \ {0}
  OBVIOUS
<1>2. ASSUME NEW i \in DOMAIN Tail(s)
      PROVE  i + 1 \in DOMAIN s /\ Tail(s)[i] = s[i + 1] /\ i \in Nat
  BY <1>1
<1>3. Sound(Tail(s), h)
  BY <1>2 DEF Sound
<1>4. ASSUME Head(s) # Null
      PROVE  Missing(Head(s), Tail(s)) /\ Head(s) \in h
  BY <1>1, <1>2, <1>4 DEF Sound, Missing
<1>. QED
  BY <1>3, <1>4

\* Commands that come change nothing, nor does one that goes and is not listed.
LEMMA SoundGrows ==
  ASSUME NEW h, NEW g, NEW s, Sound(s, h), h \subseteq g
  PROVE  Sound(s, g)
BY DEF Sound

LEMMA SoundShrinks ==
  ASSUME NEW h, NEW pc, NEW s, Sound(s, h), Missing(pc, s)
  PROVE  Sound(s, h \ {pc})
BY DEF Sound, Missing

LEMMA DisjointAppend ==
  ASSUME NEW S, NEW s \in Seq(S), NEW l, NEW pc \in S,
         Disjoint(s, l), Missing(pc, l)
  PROVE  Disjoint(Append(s, pc), l)
<1>1. /\ DOMAIN Append(s, pc) = 1 .. Len(s) + 1
      /\ \A i \in 1 .. Len(s) : Append(s, pc)[i] = s[i]
      /\ Append(s, pc)[Len(s) + 1] = pc
      /\ DOMAIN s = 1 .. Len(s)
      /\ Len(s) \in Nat
  OBVIOUS
<1>2. ASSUME NEW i \in DOMAIN Append(s, pc)
      PROVE  \/ Append(s, pc)[i] = pc
             \/ i \in DOMAIN s /\ Append(s, pc)[i] = s[i]
  BY <1>1
<1>. QED
  BY <1>2 DEF Disjoint, Missing

LEMMA DisjointTail ==
  ASSUME NEW S, NEW s \in Seq(S), s # <<>>, NEW l, Disjoint(s, l)
  PROVE  /\ Disjoint(Tail(s), l)
         /\ Head(s) # Null => Missing(Head(s), l)
<1>1. /\ DOMAIN Tail(s) = 1 .. Len(s) - 1
      /\ \A i \in 1 .. Len(s) - 1 : Tail(s)[i] = s[i + 1]
      /\ Head(s) = s[1]
      /\ DOMAIN s = 1 .. Len(s)
      /\ Len(s) \in Nat \ {0}
  OBVIOUS
<1>2. ASSUME NEW i \in DOMAIN Tail(s)
      PROVE  i + 1 \in DOMAIN s /\ Tail(s)[i] = s[i + 1]
  BY <1>1
<1>3. Disjoint(Tail(s), l)
  BY <1>2 DEF Disjoint
<1>4. ASSUME Head(s) # Null
      PROVE  Missing(Head(s), l)
  BY <1>1, <1>4 DEF Disjoint, Missing
<1>. QED
  BY <1>3, <1>4

LEMMA DisjointSymmetric ==
  ASSUME NEW s, NEW l, Disjoint(s, l)
  PROVE  Disjoint(l, s)
BY DEF Disjoint

LEMMA DisjointEmpty ==
  ASSUME NEW s
  PROVE  Disjoint(s, <<>>) /\ Disjoint(<<>>, s) /\ Sound(<<>>, s)
BY DEF Disjoint, Sound

\* An address that is free is in no list.
LEMMA FreeIsMissing ==
  ASSUME NEW h, NEW pc, pc \notin h, pc # Null, NEW s, Sound(s, h)
  PROVE  Missing(pc, s)
BY DEF Missing, Sound

-----------------------------------------------------------------------------
(* The types. *)

LEMMA EnqueueType ==
  ASSUME TypeOK, NEW t \in Threads, NEW pc \in Pointers,
         EnqueueDynamicCommand(t, pc)
  PROVE  queue' \in [Threads -> Seq(Addresses)]
<1>1. pc # Null => Append(queue[t], pc) \in Seq(Addresses)
  BY DEF TypeOK, Pointers
<1>. QED
  BY <1>1 DEF TypeOK, EnqueueDynamicCommand

LEMMA TypeStep ==
  ASSUME TypeOK, [Next]_vars
  PROVE  TypeOK'
<1>1. ASSUME NEW t \in Threads, HandleMain(t)
      PROVE  TypeOK'
  BY <1>1 DEF TypeOK, HandleMain, threadVars
<1>2. CASE Back
  BY <1>2 DEF TypeOK, Back, threadVars
<1>3. ASSUME NEW pc \in Addresses, HandleProcessTop(pc)
      PROVE  TypeOK'
  <2>1. proc \in Threads /\ pc \in Pointers /\ EnqueueDynamicCommand(proc, pc)
    BY <1>3 DEF TypeOK, HandleProcessTop, Pointers
  <2>2. queue' \in [Threads -> Seq(Addresses)]
    BY <2>1, EnqueueType
  <2>. QED
    BY <1>3, <2>2 DEF TypeOK, HandleProcessTop, cliVars, threadVars
<1>4. ASSUME NEW m \in Macros, NEW macro \in Definitions,
             HandleMacroDef(m, macro)
      PROVE  TypeOK'
  <2>1. macro \in Seq(Pointers)
    BY DEF Definitions
  <2>2. heap' \subseteq Addresses
    BY <1>4 DEF TypeOK, HandleMacroDef
  <2>. QED
    BY <1>4, <2>1, <2>2 DEF TypeOK, HandleMacroDef, threadVars
<1>5. ASSUME NEW m \in Macros, HandleMacroExecution(m)
      PROVE  TypeOK'
  BY <1>5 DEF TypeOK, HandleMacroExecution, threadVars
<1>6. CASE MacroStep
  <2>1. /\ todo \in Seq(Pointers) /\ todo # <<>>
        /\ proc \in Threads /\ EnqueueDynamicCommand(proc, Head(todo))
    BY <1>6 DEF TypeOK, MacroStep
  <2>2. Head(todo) \in Pointers /\ Tail(todo) \in Seq(Pointers)
    BY <2>1
  <2>3. queue' \in [Threads -> Seq(Addresses)]
    BY <2>1, <2>2, EnqueueType
  <2>. QED
    BY <1>6, <2>2, <2>3 DEF TypeOK, MacroStep, threadVars
<1>7. CASE MacroCrash
  BY <1>7 DEF TypeOK, MacroCrash, cliVars, threadVars
<1>8. ASSUME NEW t \in Threads, Step(t)
      PROVE  TypeOK'
  <2>1. CASE Analyze(t) \/ FlushDone(t)
    BY <2>1 DEF TypeOK, Analyze, FlushDone, Goto, cliVars
  <2>2. CASE HandleDynamicCommand(t) \/ HandleFreed(t)
    <3>1. queue[t] \in Seq(Addresses) /\ queue[t] # <<>>
      BY <2>2 DEF TypeOK, HandleDynamicCommand, HandleFreed
    <3>2. Tail(queue[t]) \in Seq(Addresses)
      BY <3>1
    <3>. QED
      BY <2>2, <3>2
      DEF TypeOK, HandleDynamicCommand, HandleFreed, cliVars, threadVars
  <2>. QED
    BY <1>8, <2>1, <2>2 DEF Step
<1>9. ASSUME NEW t \in DAQThreads, NEW flag \in {"Run", "Hold"},
             Collection(t, flag)
      PROVE  TypeOK'
  BY <1>9 DEF TypeOK, Collection, cliVars
<1>10. ASSUME NEW t \in Threads, Stop(t)
       PROVE  TypeOK'
  BY <1>10 DEF TypeOK, Stop, cliVars
<1>11. CASE UNCHANGED vars
  BY <1>11 DEF TypeOK, vars, cliVars, threadVars
<1>12. CASE EmptyLine \/ MacroDefBlank
  BY <1>12 DEF TypeOK, EmptyLine, MacroDefBlank, cliVars, threadVars
<1>. QED
  BY <1>1, <1>2, <1>3, <1>4, <1>5, <1>6, <1>7, <1>8, <1>9, <1>10, <1>11,
     <1>12 DEF Next

-----------------------------------------------------------------------------
(* The pointers. *)

\* PointersAreOwned by parts.
LEMMA Parts ==
  PointersAreOwned <=>
    (~rerun =>
       /\ \A t \in Threads : Sound(queue[t], heap)
       /\ \A t \in Threads : Disjoint(queue[t], todo)
       /\ \A t, u \in Threads : t # u => Disjoint(queue[t], queue[u])
       /\ Sound(todo, heap)
       /\ \A m \in Macros \ ran : Sound(macros[m], heap)
       /\ \A m \in Macros \ ran : Disjoint(macros[m], todo)
       /\ \A m \in Macros \ ran, t \in Threads : Disjoint(macros[m], queue[t])
       /\ \A m, n \in Macros \ ran : m # n => Disjoint(macros[m], macros[n]))
BY DEF PointersAreOwned

\* A command that is in no queue is appended to one of them.
LEMMA Enqueued ==
  ASSUME queue \in [Threads -> Seq(Addresses)], NEW h,
         NEW t \in Threads, NEW pc \in Addresses, pc \in h,
         queue' = [queue EXCEPT ![t] = Append(@, pc)],
         \A u \in Threads : Sound(queue[u], h) /\ Missing(pc, queue[u]),
         \A u, v \in Threads : u # v => Disjoint(queue[u], queue[v])
  PROVE  /\ \A u \in Threads : Sound(queue'[u], h)
         /\ \A u, v \in Threads : u # v => Disjoint(queue'[u], queue'[v])
         /\ \A l : Missing(pc, l) /\ (\A u \in Threads : Disjoint(queue[u], l))
              => \A u \in Threads : Disjoint(queue'[u], l)
<1>1. /\ queue'[t] = Append(queue[t], pc)
      /\ \A u \in Threads \ {t} : queue'[u] = queue[u]
      /\ queue[t] \in Seq(Addresses)
  OBVIOUS
<1>2. Sound(queue'[t], h)
  BY <1>1, SoundAppend
<1>3. ASSUME NEW l, Missing(pc, l), Disjoint(queue[t], l)
      PROVE  Disjoint(queue'[t], l)
  BY <1>1, <1>3, DisjointAppend
<1>4. ASSUME NEW u \in Threads, NEW v \in Threads, u # v
      PROVE  Disjoint(queue'[u], queue'[v])
  <2>1. CASE u = t
    BY <1>1, <1>3, <1>4, <2>1
  <2>2. CASE v = t
    <3>1. Disjoint(queue[t], queue[u])
      BY <1>4, <2>2
    <3>2. Disjoint(queue'[t], queue[u])
      BY <1>3, <3>1
    <3>. QED
      BY <1>1, <1>4, <2>2, <3>2, DisjointSymmetric
  <2>3. CASE u # t /\ v # t
    BY <1>1, <1>4, <2>3
  <2>. QED
    BY <2>1, <2>2, <2>3
<1>. QED
  BY <1>1, <1>2, <1>3, <1>4

LEMMA ProcessTopOwned ==
  ASSUME TypeOK, PointersAreOwned, NEW pc \in Addresses, HandleProcessTop(pc)
  PROVE  PointersAreOwned'
<1>1. SUFFICES ASSUME ~rerun
               PROVE  PointersAreOwned'
  BY DEF HandleProcessTop, cliVars, PointersAreOwned
<1>2. /\ heap' = heap \union {pc} /\ pc \notin heap
      /\ todo = <<>> /\ todo' = <<>>
      /\ macros' = macros /\ ran' = ran
      /\ pc # Null /\ proc \in Threads
      /\ queue' = [queue EXCEPT ![proc] = Append(@, pc)]
  BY CommandsAssumption
  DEF TypeOK, HandleProcessTop, Prompt, EnqueueDynamicCommand, cliVars
<1>3. \A u \in Threads : Sound(queue[u], heap') /\ Missing(pc, queue[u])
  BY <1>1, <1>2, Parts, SoundGrows, FreeIsMissing
<1>4. \A m \in Macros \ ran : Sound(macros[m], heap') /\ Missing(pc, macros[m])
  BY <1>1, <1>2, Parts, SoundGrows, FreeIsMissing
<1>5. \A m \in Macros \ ran, t \in Threads : Disjoint(queue[t], macros[m])
  BY <1>1, Parts, DisjointSymmetric
<1>6. /\ \A u \in Threads : Sound(queue'[u], heap')
      /\ \A u, v \in Threads : u # v => Disjoint(queue'[u], queue'[v])
      /\ \A l : Missing(pc, l) /\ (\A u \in Threads : Disjoint(queue[u], l))
           => \A u \in Threads : Disjoint(queue'[u], l)
  <2>1. queue \in [Threads -> Seq(Addresses)]
    BY DEF TypeOK
  <2>2. \A u, v \in Threads : u # v => Disjoint(queue[u], queue[v])
    BY <1>1, Parts
  <2>3. pc \in heap'
    BY <1>2
  <2>. QED
    BY <1>2, <1>3, <2>1, <2>2, <2>3, Enqueued
<1>7. \A m \in Macros \ ran, t \in Threads : Disjoint(macros[m], queue'[t])
  BY <1>4, <1>5, <1>6, DisjointSymmetric
<1>. QED
  BY <1>1, <1>2, <1>4, <1>6, <1>7, Parts, DisjointEmpty DEF PointersAreOwned

LEMMA MacroDefOwned ==
  ASSUME TypeOK, PointersAreOwned, NEW m \in Macros, NEW macro \in Seq(Pointers),
         HandleMacroDef(m, macro)
  PROVE  PointersAreOwned'
<1>1. SUFFICES ASSUME ~rerun
               PROVE  PointersAreOwned'
  BY DEF HandleMacroDef, PointersAreOwned
<1>2. /\ queue' = queue /\ todo = <<>> /\ todo' = <<>>
      /\ heap \subseteq heap'
      /\ \A n \in Macros : macros'[n] = IF n = m THEN macro ELSE macros[n]
      /\ ran' = ran \ {m}
  BY DEF TypeOK, HandleMacroDef, Prompt
<1>3. /\ Sound(macro, heap')
      /\ \A i \in DOMAIN macro : macro[i] # Null => macro[i] \notin heap
  BY DEF HandleMacroDef, Sound
<1>4. ASSUME NEW l, Sound(l, heap)
      PROVE  Disjoint(macro, l) /\ Disjoint(l, macro) /\ Sound(l, heap')
  BY <1>2, <1>3, <1>4, SoundGrows DEF Disjoint, Sound
<1>5. \A n \in Macros \ ran' : n = m \/ n \in Macros \ ran
  BY <1>2
<1>6. \A n \in Macros \ ran' : Sound(macros'[n], heap')
  BY <1>1, <1>2, <1>3, <1>4, <1>5, Parts
<1>7. \A n \in Macros \ ran', t \in Threads : Disjoint(macros'[n], queue[t])
  BY <1>1, <1>2, <1>4, <1>5, Parts
<1>8. \A n, o \in Macros \ ran' : n # o => Disjoint(macros'[n], macros'[o])
  BY <1>1, <1>2, <1>4, <1>5, Parts
<1>. QED
  BY <1>1, <1>2, <1>4, <1>6, <1>7, <1>8, Parts, DisjointEmpty
  DEF PointersAreOwned

LEMMA MacroExecutionOwned ==
  ASSUME TypeOK, PointersAreOwned, NEW m \in Macros, HandleMacroExecution(m)
  PROVE  PointersAreOwned'
<1>1. SUFFICES ASSUME ~rerun'
               PROVE  PointersAreOwned'
  BY DEF PointersAreOwned
<1>2. /\ heap' = heap /\ queue' = queue /\ macros' = macros
      /\ todo' = macros[m] /\ ran' = ran \union {m}
      /\ ~rerun /\ m \in Macros \ ran
  BY <1>1 DEF HandleMacroExecution
<1>. QED
  BY <1>2, Parts, DisjointSymmetric DEF PointersAreOwned

LEMMA MacroStepOwned ==
  ASSUME TypeOK, PointersAreOwned, MacroStep
  PROVE  PointersAreOwned'
<1>1. SUFFICES ASSUME ~rerun
               PROVE  PointersAreOwned'
  BY DEF MacroStep, PointersAreOwned
<1>2. /\ heap' = heap /\ macros' = macros /\ ran' = ran
      /\ todo \in Seq(Pointers) /\ todo # <<>> /\ todo' = Tail(todo)
      /\ proc \in Threads
      /\ queue' = IF Head(todo) = Null THEN queue
                  ELSE [queue EXCEPT ![proc] = Append(@, Head(todo))]
  BY DEF TypeOK, MacroStep, EnqueueDynamicCommand
<1>3. /\ Sound(Tail(todo), heap)
      /\ Head(todo) # Null => Missing(Head(todo), Tail(todo)) /\ Head(todo) \in heap
  BY <1>1, <1>2, Parts, SoundTail
<1>4. ASSUME NEW l, Disjoint(l, todo)
      PROVE  /\ Disjoint(l, Tail(todo))
             /\ Head(todo) # Null => Missing(Head(todo), l)
  <2>1. Disjoint(todo, l)
    BY <1>4, DisjointSymmetric
  <2>. QED
    BY <1>2, <2>1, DisjointTail, DisjointSymmetric
<1>5. CASE Head(todo) = Null
  BY <1>1, <1>2, <1>3, <1>4, <1>5, Parts DEF PointersAreOwned
<1>6. CASE Head(todo) # Null
  <2>1. /\ \A u \in Threads : Sound(queue'[u], heap)
        /\ \A u, v \in Threads : u # v => Disjoint(queue'[u], queue'[v])
        /\ \A l : /\ Missing(Head(todo), l)
                  /\ \A u \in Threads : Disjoint(queue[u], l)
             => \A u \in Threads : Disjoint(queue'[u], l)
    <3>1. queue \in [Threads -> Seq(Addresses)] /\ heap \subseteq Addresses
      BY DEF TypeOK
    <3>2. \A u, v \in Threads : u # v => Disjoint(queue[u], queue[v])
      BY <1>1, Parts
    <3>3. \A u \in Threads : Sound(queue[u], heap) /\ Missing(Head(todo), queue[u])
      BY <1>1, <1>4, <1>6, Parts
    <3>. QED
      BY <1>2, <1>3, <1>6, <3>1, <3>2, <3>3, Enqueued
  <2>2. \A u \in Threads : Disjoint(queue'[u], Tail(todo))
    BY <1>1, <1>3, <1>4, <1>6, <2>1, Parts
  <2>3. \A m \in Macros \ ran, t \in Threads : Disjoint(macros[m], queue'[t])
    BY <1>1, <1>4, <1>6, <2>1, Parts, DisjointSymmetric
  <2>. QED
    BY <1>1, <1>2, <1>3, <1>4, <2>1, <2>2, <2>3, Parts DEF PointersAreOwned
<1>. QED
  BY <1>5, <1>6

LEMMA HandleOwned ==
  ASSUME TypeOK, PointersAreOwned, NEW t \in Threads, HandleDynamicCommand(t)
  PROVE  PointersAreOwned'
<1> DEFINE pc == Head(queue[t])
<1>1. SUFFICES ASSUME ~rerun
               PROVE  PointersAreOwned'
  BY DEF HandleDynamicCommand, cliVars, PointersAreOwned
<1>2. /\ heap' = heap \ {pc} /\ pc \in heap /\ pc # Null
      /\ todo' = todo /\ macros' = macros /\ ran' = ran
      /\ queue[t] \in Seq(Addresses) /\ queue[t] # <<>>
      /\ queue'[t] = Tail(queue[t])
      /\ \A u \in Threads \ {t} : queue'[u] = queue[u]
  BY CommandsAssumption DEF TypeOK, HandleDynamicCommand, cliVars
<1>3. Sound(Tail(queue[t]), heap) /\ Missing(pc, Tail(queue[t]))
  BY <1>1, <1>2, Parts, SoundTail
<1>4. ASSUME NEW l, Disjoint(queue[t], l)
      PROVE  Disjoint(Tail(queue[t]), l) /\ Missing(pc, l)
  BY <1>2, <1>4, DisjointTail
<1>. HIDE DEF pc
<1>5. \A u \in Threads : Sound(queue'[u], heap')
  BY <1>1, <1>2, <1>3, <1>4, Parts, SoundShrinks
<1>6. Sound(todo, heap')
  BY <1>1, <1>2, <1>4, Parts, SoundShrinks
<1>7. \A u \in Threads : Disjoint(queue'[u], todo)
  BY <1>1, <1>2, <1>4, Parts
<1>8. ASSUME NEW u \in Threads, NEW v \in Threads, u # v
      PROVE  Disjoint(queue'[u], queue'[v])
  <2>1. CASE u = t
    BY <1>1, <1>2, <1>4, <1>8, <2>1, Parts
  <2>2. CASE v = t
    <3>1. Disjoint(Tail(queue[t]), queue[u])
      BY <1>1, <1>4, <1>8, <2>2, Parts
    <3>. QED
      BY <1>2, <1>8, <2>2, <3>1, DisjointSymmetric
  <2>3. CASE u # t /\ v # t
    BY <1>1, <1>2, <1>8, <2>3, Parts
  <2>. QED
    BY <2>1, <2>2, <2>3
<1>9. ASSUME NEW m \in Macros \ ran
      PROVE  /\ Sound(macros[m], heap')
             /\ \A u \in Threads : Disjoint(macros[m], queue'[u])
  <2>1. Disjoint(queue[t], macros[m])
    BY <1>1, <1>9, Parts, DisjointSymmetric
  <2>2. Disjoint(macros[m], Tail(queue[t])) /\ Missing(pc, macros[m])
    BY <1>4, <2>1, DisjointSymmetric
  <2>. QED
    BY <1>1, <1>2, <1>9, <2>2, Parts, SoundShrinks
<1>. QED
  BY <1>1, <1>2, <1>5, <1>6, <1>7, <1>8, <1>9, Parts DEF PointersAreOwned

-----------------------------------------------------------------------------
(* The program. *)

IInv == TypeOK /\ PointersAreOwned

LEMMA OwnedStep ==
  ASSUME IInv, [Next]_vars
  PROVE  PointersAreOwned'
<1>1. ASSUME NEW pc \in Addresses, HandleProcessTop(pc)
      PROVE  PointersAreOwned'
  BY <1>1, ProcessTopOwned DEF IInv
<1>2. ASSUME NEW m \in Macros, NEW macro \in Definitions,
             HandleMacroDef(m, macro)
      PROVE  PointersAreOwned'
  <2>1. macro \in Seq(Pointers)
    BY DEF Definitions
  <2>. QED
    BY <1>2, <2>1, MacroDefOwned DEF IInv
<1>3. ASSUME NEW m \in Macros, HandleMacroExecution(m)
      PROVE  PointersAreOwned'
  BY <1>3, MacroExecutionOwned DEF IInv
<1>4. CASE MacroStep
  BY <1>4, MacroStepOwned DEF IInv
<1>5. ASSUME NEW t \in Threads, HandleDynamicCommand(t)
      PROVE  PointersAreOwned'
  BY <1>5, HandleOwned DEF IInv
<1>6. ASSUME NEW t \in Threads, HandleFreed(t)
      PROVE  PointersAreOwned'
  <2>1. queue[t] \in Seq(Addresses) /\ queue[t] # <<>> /\ Head(queue[t]) \notin heap
    BY <1>6 DEF IInv, TypeOK, HandleFreed
  <2>2. ~rerun => Sound(queue[t], heap)
    BY Parts DEF IInv
  <2>3. Head(queue[t]) # Null
    BY <2>1, CommandsAssumption
  <2>4. rerun
    BY <2>1, <2>2, <2>3, SoundTail
  <2>. QED
    BY <1>6, <2>4 DEF HandleFreed, PointersAreOwned, cliVars
<1>7. CASE UNCHANGED <<heap, queue, macros, todo, ran, rerun>>
  BY <1>7 DEF IInv, PointersAreOwned
<1>. QED
  BY <1>1, <1>2, <1>3, <1>4, <1>5, <1>6, <1>7
  DEF Next, Step, vars, cliVars, threadVars, HandleMain, Back, EmptyLine,
      MacroDefBlank, MacroCrash, Analyze, FlushDone, Collection, Stop

\* The pointers stay owned because lists and heap have their types.
THEOREM Invariance == Spec => []IInv
<1>1. Init => IInv
  <2>1. ASSUME Init
        PROVE  TypeOK
    <3>1. <<>> \in Seq(Addresses) /\ <<>> \in Seq(Pointers)
      OBVIOUS
    <3>. QED
      BY <2>1, <3>1 DEF Init, TypeOK
  <2>2. ASSUME Init
        PROVE  PointersAreOwned
    <3>1. /\ \A t \in Threads : queue[t] = <<>>
          /\ \A m \in Macros : macros[m] = <<>>
          /\ todo = <<>>
      BY <2>2 DEF Init
    <3>. QED
      BY <3>1, DisjointEmpty DEF PointersAreOwned
  <2>. QED
    BY <2>1, <2>2 DEF IInv
<1>2. IInv /\ [Next]_vars => IInv'
  <2>1. ASSUME IInv, [Next]_vars
        PROVE  IInv'
    <3>1. TypeOK'
      BY <2>1, TypeStep DEF IInv
    <3>. QED
      BY <2>1, <3>1, OwnedStep DEF IInv
  <2>. QED
    BY <2>1
<1>. QED
  BY <1>1, <1>2, PTL DEF Spec

\* The state of the command line and of the threads has its types; commands are
\* only typed for a process that was chosen.
THEOREM TypeCorrect == Spec => []TypeOK
<1>1. IInv => TypeOK
  BY DEF IInv
<1>. QED
  BY <1>1, Invariance, PTL

\* Until a macro runs again, whatever is queued or will be is a command that was
\* not deleted and has one pointer.
THEOREM CommandsAreOwned == Spec => []PointersAreOwned
<1>1. IInv => PointersAreOwned
  BY DEF IInv
<1>. QED
  BY <1>1, Invariance, PTL

-----------------------------------------------------------------------------
(* The relay server: its inductive invariant. *)

\* The byte is in the list.
Has(list, b) == \E i \in DOMAIN list : list[i] = b

\* The bytes of the list are different.
AllDifferent(list) ==
  \A i, j \in DOMAIN list : list[i] = list[j] => i = j

\* Call i has not yet written to the socket at place p of the list.
ToWrite(i, p) ==
  \/ calls[i].place = "Read"
  \/ calls[i].at < p
  \/ calls[i].at = p /\ calls[i].place = "Write"

\* All calls but the innermost wait for a socket.
CallsInv ==
  \A i \in DOMAIN calls :
    /\ calls[i].at > 0
    /\ i # Len(calls) => calls[i].place = "Wait"
    /\ calls[i].place = "Wait" => calls[i].at <= Len(connected)

\* What a call holds was taken, by no other call, and after the sockets that
\* it writes to were connected.
HeldInv ==
  /\ \A i \in DOMAIN calls :
       /\ AllDifferent(calls[i].writing)
       /\ \A k \in DOMAIN calls[i].writing :
            LET b == calls[i].writing[k] IN
            /\ b.n <= taken[b.from]
            /\ \A p \in DOMAIN connected : joined[connected[p]][b.from] < b.n
  /\ \A i, j \in DOMAIN calls : i # j =>
       \A k \in DOMAIN calls[i].writing :
         ~Has(calls[j].writing, calls[i].writing[k])

\* What a socket received was taken after it was connected, and no call that
\* has yet to write to it holds it.
ReceivedInv ==
  /\ \A s, c \in Sockets : joined[s][c] <= taken[c]
  /\ \A s \in Sockets :
       /\ AllDifferent(received[s])
       /\ \A k \in DOMAIN received[s] :
            LET b == received[s][k] IN
            joined[s][b.from] < b.n /\ b.n <= taken[b.from]
       /\ s \notin Elements(connected) => received[s] = <<>>
  /\ \A p \in DOMAIN connected, i \in DOMAIN calls : ToWrite(i, p) =>
       \A k \in DOMAIN calls[i].writing :
         ~Has(received[connected[p]], calls[i].writing[k])

\* A byte that was taken is in what an open socket received, or a call holds
\* it that has yet to write to the socket.
RelayedInv ==
  \A p \in DOMAIN connected : connected[p] \notin closed =>
    \A b \in Byte :
      joined[connected[p]][b.from] < b.n /\ b.n <= taken[b.from] =>
        \/ Has(received[connected[p]], b)
        \/ \E i \in DOMAIN calls : ToWrite(i, p) /\ Has(calls[i].writing, b)

ServerInv ==
  /\ ServerTypeOK
  /\ AllDifferent(connected)
  /\ CallsInv
  /\ HeldInv
  /\ ReceivedInv
  /\ RelayedInv

-----------------------------------------------------------------------------
(* Lists of bytes. *)

LEMMA HasConcat ==
  ASSUME NEW S, NEW u \in Seq(S), NEW v \in Seq(S), NEW b
  PROVE  Has(u \o v, b) <=> Has(u, b) \/ Has(v, b)
<1>1. /\ Len(u) \in Nat /\ DOMAIN u = 1 .. Len(u)
      /\ Len(v) \in Nat /\ DOMAIN v = 1 .. Len(v)
      /\ DOMAIN (u \o v) = 1 .. Len(u) + Len(v)
      /\ \A i \in 1 .. Len(u) + Len(v) :
           (u \o v)[i] = IF i <= Len(u) THEN u[i] ELSE v[i - Len(u)]
  OBVIOUS
<1> DEFINE w == u \o v
<1>2. ASSUME Has(w, b) PROVE Has(u, b) \/ Has(v, b)
  <2>1. PICK i \in 1 .. Len(u) + Len(v) : w[i] = b
    BY <1>1, <1>2 DEF Has
  <2>2. CASE i <= Len(u)
    BY <1>1, <2>1, <2>2 DEF Has
  <2>3. CASE ~(i <= Len(u))
    <3>1. i - Len(u) \in DOMAIN v /\ v[i - Len(u)] = b
      BY <1>1, <2>1, <2>3
    <3>. QED
      BY <3>1 DEF Has
  <2>. QED
    BY <2>2, <2>3
<1>3. ASSUME Has(u, b) PROVE Has(w, b)
  <2>1. PICK i \in DOMAIN u : u[i] = b
    BY <1>3 DEF Has
  <2>2. i \in DOMAIN w /\ w[i] = b
    BY <1>1, <2>1
  <2>. QED
    BY <2>2 DEF Has
<1>4. ASSUME Has(v, b) PROVE Has(w, b)
  <2>1. PICK i \in DOMAIN v : v[i] = b
    BY <1>4 DEF Has
  <2>2. i + Len(u) \in DOMAIN w /\ w[i + Len(u)] = b
    BY <1>1, <2>1
  <2>. QED
    BY <2>2 DEF Has
<1>. QED
  BY <1>2, <1>3, <1>4

LEMMA DifferentConcat ==
  ASSUME NEW S, NEW u \in Seq(S), NEW v \in Seq(S),
         AllDifferent(u), AllDifferent(v), \A k \in DOMAIN v : ~Has(u, v[k])
  PROVE  AllDifferent(u \o v)
<1>1. /\ Len(u) \in Nat /\ DOMAIN u = 1 .. Len(u)
      /\ Len(v) \in Nat /\ DOMAIN v = 1 .. Len(v)
      /\ DOMAIN (u \o v) = 1 .. Len(u) + Len(v)
      /\ \A i \in 1 .. Len(u) + Len(v) :
           (u \o v)[i] = IF i <= Len(u) THEN u[i] ELSE v[i - Len(u)]
  OBVIOUS
<1> DEFINE w == u \o v
<1>2. SUFFICES ASSUME NEW i \in 1 .. Len(u) + Len(v),
                      NEW j \in 1 .. Len(u) + Len(v), w[i] = w[j]
               PROVE  i = j
  BY <1>1 DEF AllDifferent
<1>3. ASSUME NEW k \in 1 .. Len(u) + Len(v), ~(k <= Len(u))
      PROVE  k - Len(u) \in DOMAIN v /\ w[k] = v[k - Len(u)]
  BY <1>1, <1>3
<1>4. \A k \in 1 .. Len(u) + Len(v) :
        k <= Len(u) => k \in DOMAIN u /\ w[k] = u[k]
  BY <1>1
<1> HIDE DEF w
<1>5. CASE i <= Len(u) /\ j <= Len(u)
  BY <1>2, <1>4, <1>5 DEF AllDifferent
<1>6. CASE i <= Len(u) /\ ~(j <= Len(u))
  BY <1>2, <1>3, <1>4, <1>6 DEF Has
<1>7. CASE ~(i <= Len(u)) /\ j <= Len(u)
  BY <1>2, <1>3, <1>4, <1>7 DEF Has
<1>8. CASE ~(i <= Len(u)) /\ ~(j <= Len(u))
  <2>1. i - Len(u) = j - Len(u)
    BY <1>2, <1>3, <1>8 DEF AllDifferent
  <2>. QED
    BY <1>1, <2>1
<1>. QED
  BY <1>5, <1>6, <1>7, <1>8

-----------------------------------------------------------------------------
(* The steps of the server. *)

\* The innermost call.
LEMMA TopFacts ==
  ASSUME ServerTypeOK, CallsInv, Running
  PROVE  /\ depth \in DOMAIN calls /\ depth \in Nat \ {0}
         /\ top \in ServerCall
         /\ top.at \in Nat \ {0} /\ top.writing \in Seq(Byte)
         /\ Len(top.writing) \in Nat /\ Len(top.writing) <= Capacity
         /\ Len(connected) \in Nat
         /\ top.at <= Len(connected) =>
              top.at \in DOMAIN connected /\ socket \in Sockets
<1>1. calls \in Seq(ServerCall) /\ calls # <<>>
  BY DEF ServerTypeOK, Running
<1>2. depth \in DOMAIN calls /\ depth \in Nat \ {0} /\ top \in ServerCall
  BY <1>1 DEF depth, top
<1>3. Len(top.writing) <= Capacity
  BY <1>2 DEF ServerTypeOK, top
<1>4. /\ top.at \in Nat \ {0} /\ top.writing \in Seq(Byte)
      /\ Len(top.writing) \in Nat
  BY <1>2 DEF ServerCall, CallsInv, top
<1>5. /\ Len(connected) \in Nat
      /\ top.at <= Len(connected) =>
           top.at \in DOMAIN connected /\ socket \in Sockets
  BY <1>4 DEF ServerTypeOK, socket
<1>. QED
  BY <1>2, <1>3, <1>4, <1>5

\* A step that changes the innermost call only.
LEMMA TopChanged ==
  ASSUME ServerTypeOK, CallsInv, Running, NEW c \in ServerCall,
         calls' = [calls EXCEPT ![depth] = c]
  PROVE  /\ calls' \in Seq(ServerCall)
         /\ Len(calls') = Len(calls)
         /\ DOMAIN calls' = DOMAIN calls
         /\ calls'[depth] = c
         /\ \A i \in DOMAIN calls : i # depth => calls'[i] = calls[i]
  BY TopFacts DEF ServerTypeOK

\* The call at another place.
Moved(c, place, k) ==
  [of |-> c.of, place |-> place, at |-> k, writing |-> c.writing]

LEMMA MovedFacts ==
  ASSUME NEW c \in ServerCall, NEW place \in {"Read", "Write", "Wait"},
         NEW k \in Nat
  PROVE  /\ Moved(c, place, k) \in ServerCall
         /\ Moved(c, place, k).writing = c.writing
         /\ Moved(c, place, k).place = place
         /\ Moved(c, place, k).at = k
  BY DEF ServerCall, Moved

LEMMA MovedIs ==
  ASSUME NEW c \in ServerCall, NEW place \in {"Read", "Write", "Wait"},
         NEW k \in Nat
  PROVE  /\ [c EXCEPT !.place = place, !.at = k] = Moved(c, place, k)
         /\ [c EXCEPT !.place = place] = Moved(c, place, c.at)
         /\ [c EXCEPT !.at = k] = Moved(c, c.place, k)
<1> DEFINE old == [c EXCEPT !.place = place, !.at = k]
           new == Moved(c, place, k)
           fields == {"of", "place", "at", "writing"}
<1>1. old = [f \in fields |-> old[f]]
  BY DEF ServerCall
<1>2. old.of = c.of /\ old.place = place /\ old.at = k /\ old.writing = c.writing
  BY DEF ServerCall
<1>3. new.of = c.of /\ new.place = place /\ new.at = k /\ new.writing = c.writing
  BY DEF Moved
<1>4. new = [f \in fields |-> new[f]]
  BY DEF Moved
<1>5. \A f \in fields : old[f] = new[f]
  BY <1>2, <1>3
<1>7. [c EXCEPT !.place = place] = Moved(c, place, c.at)
  BY DEF ServerCall, Moved
<1>8. [c EXCEPT !.at = k] = Moved(c, c.place, k)
  BY DEF ServerCall, Moved
<1>9. old = new
  <2> HIDE DEF old, new, fields
  <2>. QED
    BY <1>1, <1>4, <1>5
<1>. QED
  BY <1>7, <1>8, <1>9

\* A step that writes and reads nothing, and leaves what calls hold alone,
\* keeps the invariants if those sockets that a call need no longer write to
\* are closed or have nothing to get.
LEMMA NothingMoved ==
  ASSUME ServerInv, UNCHANGED <<connected, closed, taken, received, joined>>,
         DOMAIN calls' = DOMAIN calls,
         \A i \in DOMAIN calls : calls'[i].writing = calls[i].writing,
         \A i \in DOMAIN calls, p \in DOMAIN connected :
           /\ ToWrite(i, p)' => ToWrite(i, p)
           /\ ToWrite(i, p) =>
                \/ ToWrite(i, p)'
                \/ calls[i].writing = <<>>
                \/ connected[p] \in closed
  PROVE  HeldInv' /\ ReceivedInv' /\ RelayedInv'
<1>1. HeldInv'
  BY DEF ServerInv, HeldInv
<1>2. ReceivedInv'
  BY DEF ServerInv, ReceivedInv
<1>3. RelayedInv'
  <2>1. ASSUME NEW p \in DOMAIN connected, connected[p] \notin closed,
               NEW b \in Byte, NEW i \in DOMAIN calls,
               ToWrite(i, p), Has(calls[i].writing, b)
        PROVE  ToWrite(i, p)' /\ Has(calls[i].writing, b)'
    BY <2>1 DEF Has
  <2>. QED
    BY <2>1 DEF ServerInv, RelayedInv, Has
<1>. QED
  BY <1>1, <1>2, <1>3

LEMMA NextSocketStep == ServerInv /\ NextSocket => ServerInv'
<1>. SUFFICES ASSUME ServerInv, NextSocket PROVE ServerInv'
  OBVIOUS
<1> DEFINE c == [top EXCEPT !.at = @ + 1]
<1>1. ServerTypeOK /\ CallsInv /\ Running
  BY DEF ServerInv, NextSocket, Looping
<1>2. /\ c \in ServerCall /\ c.writing = top.writing /\ c.place = "Read"
      /\ c.at > 0
  BY <1>1, TopFacts DEF NextSocket, Looping, ServerCall
<1>3. calls' = [calls EXCEPT ![depth] = c]
  BY DEF NextSocket, top
<1> HIDE DEF c
<1>4. /\ calls' \in Seq(ServerCall) /\ Len(calls') = Len(calls)
      /\ DOMAIN calls' = DOMAIN calls /\ calls'[depth] = c
      /\ \A i \in DOMAIN calls : i # depth => calls'[i] = calls[i]
  BY <1>1, <1>2, <1>3, TopChanged
<1>5. \A i \in DOMAIN calls : calls'[i].writing = calls[i].writing
  BY <1>2, <1>4 DEF top
<1>6. \A i \in DOMAIN calls, p \in DOMAIN connected :
        ToWrite(i, p)' <=> ToWrite(i, p)
  BY <1>2, <1>4 DEF ToWrite, top, NextSocket, Looping
<1>7. ServerTypeOK'
  BY <1>1, <1>4, <1>5 DEF ServerTypeOK, NextSocket
<1>8. CallsInv'
  BY <1>1, <1>2, <1>4 DEF CallsInv, NextSocket, depth
<1>9. HeldInv' /\ ReceivedInv' /\ RelayedInv'
  BY <1>4, <1>5, <1>6, NothingMoved DEF NextSocket
<1>. QED
  BY <1>7, <1>8, <1>9 DEF ServerInv, NextSocket

LEMMA AllReadStep == ServerInv /\ AllRead => ServerInv'
<1>. SUFFICES ASSUME ServerInv, AllRead PROVE ServerInv'
  OBVIOUS
<1> DEFINE k == 1
           c == Moved(top, "Write", k)
<1>1. ServerTypeOK /\ CallsInv /\ Running /\ top.place = "Read"
  BY DEF ServerInv, AllRead, LoopEnded
<1>2. top \in ServerCall /\ k \in Nat
  BY <1>1, TopFacts
<1>3. calls' = [calls EXCEPT ![depth] = [top EXCEPT !.place = "Write", !.at = k]]
  BY DEF AllRead, top
<1> HIDE DEF k
<1>4. /\ c \in ServerCall /\ c.writing = top.writing
      /\ c.place = "Write" /\ c.at = k
  BY <1>2, MovedFacts
<1>5. [top EXCEPT !.place = "Write", !.at = k] = c
  BY <1>2, MovedIs
<1> HIDE DEF c
<1>6. /\ calls' \in Seq(ServerCall) /\ Len(calls') = Len(calls)
      /\ DOMAIN calls' = DOMAIN calls /\ calls'[depth] = c
      /\ \A i \in DOMAIN calls : i # depth => calls'[i] = calls[i]
  BY <1>1, <1>3, <1>4, <1>5, TopChanged
<1>7. \A i \in DOMAIN calls : calls'[i].writing = calls[i].writing
  BY <1>4, <1>6 DEF top
<1>8. DOMAIN connected \subseteq Nat \ {0}
  <2>1. connected \in Seq(Sockets)
    BY <1>1 DEF ServerTypeOK
  <2>2. DOMAIN connected = 1 .. Len(connected) /\ Len(connected) \in Nat
    BY <2>1
  <2>. QED
    BY <2>2
<1>9. \A i \in DOMAIN calls, p \in DOMAIN connected :
        ToWrite(i, p)' <=> ToWrite(i, p)
  <2>1. ASSUME NEW p \in DOMAIN connected, NEW i \in DOMAIN calls, i = depth
        PROVE  ToWrite(i, p)' /\ ToWrite(i, p)
    <3>1. k < p \/ k = p
      BY <1>8 DEF k
    <3>. QED
      BY <1>1, <1>4, <1>6, <2>1, <3>1 DEF ToWrite, top
  <2>2. \A i \in DOMAIN calls, p \in DOMAIN connected :
          i # depth => (ToWrite(i, p)' <=> ToWrite(i, p))
    BY <1>6 DEF ToWrite
  <2>. QED
    BY <2>1, <2>2
<1>10. ServerTypeOK'
  BY <1>1, <1>6, <1>7 DEF ServerTypeOK, AllRead
<1>11. k > 0
  BY DEF k
<1>12. CallsInv'
  BY <1>1, <1>4, <1>6, <1>11 DEF CallsInv, AllRead, depth
<1>13. HeldInv' /\ ReceivedInv' /\ RelayedInv'
  BY <1>6, <1>7, <1>9, NothingMoved DEF AllRead
<1>. QED
  BY <1>10, <1>12, <1>13 DEF ServerInv, AllRead
LEMMA BytesWrittenStep == ServerInv /\ BytesWritten => ServerInv'
<1>. SUFFICES ASSUME ServerInv, BytesWritten PROVE ServerInv'
  OBVIOUS
<1> DEFINE k == top.at + 1
           c == Moved(top, "Write", k)
<1>1. ServerTypeOK /\ CallsInv /\ Running /\ top.place = "Wait"
  BY DEF ServerInv, BytesWritten, Looping
<1>2. top \in ServerCall /\ k \in Nat
  BY <1>1, TopFacts
<1>3. calls' = [calls EXCEPT ![depth] = [top EXCEPT !.place = "Write", !.at = k]]
  BY DEF BytesWritten, top
<1> HIDE DEF k
<1>4. /\ c \in ServerCall /\ c.writing = top.writing
      /\ c.place = "Write" /\ c.at = k
  BY <1>2, MovedFacts
<1>5. [top EXCEPT !.place = "Write", !.at = k] = c
  BY <1>2, MovedIs
<1> HIDE DEF c
<1>6. /\ calls' \in Seq(ServerCall) /\ Len(calls') = Len(calls)
      /\ DOMAIN calls' = DOMAIN calls /\ calls'[depth] = c
      /\ \A i \in DOMAIN calls : i # depth => calls'[i] = calls[i]
  BY <1>1, <1>3, <1>4, <1>5, TopChanged
<1>7. \A i \in DOMAIN calls : calls'[i].writing = calls[i].writing
  BY <1>4, <1>6 DEF top
<1>8. DOMAIN connected \subseteq Nat /\ top.at \in Nat
  <2>1. connected \in Seq(Sockets)
    BY <1>1 DEF ServerTypeOK
  <2>. QED
    BY <1>1, <2>1, TopFacts
<1>9. \A i \in DOMAIN calls, p \in DOMAIN connected :
        ToWrite(i, p)' <=> ToWrite(i, p)
  <2>1. ASSUME NEW p \in DOMAIN connected, NEW i \in DOMAIN calls, i = depth
        PROVE  ToWrite(i, p)' <=> ToWrite(i, p)
    <3>1. /\ ToWrite(i, p) <=> top.at < p
          /\ ToWrite(i, p)' <=> k < p \/ k = p
      BY <1>1, <1>4, <1>6, <2>1 DEF ToWrite, top
    <3>. QED
      BY <1>8, <3>1 DEF k
  <2>2. \A i \in DOMAIN calls, p \in DOMAIN connected :
          i # depth => (ToWrite(i, p)' <=> ToWrite(i, p))
    BY <1>6 DEF ToWrite
  <2>. QED
    BY <2>1, <2>2
<1>10. ServerTypeOK'
  BY <1>1, <1>6, <1>7 DEF ServerTypeOK, BytesWritten
<1>11. k > 0
  BY <1>8 DEF k
<1>12. CallsInv'
  BY <1>1, <1>4, <1>6, <1>11 DEF CallsInv, BytesWritten, depth
<1>13. HeldInv' /\ ReceivedInv' /\ RelayedInv'
  BY <1>6, <1>7, <1>9, NothingMoved DEF BytesWritten
<1>. QED
  BY <1>10, <1>12, <1>13 DEF ServerInv, BytesWritten

LEMMA WriteSocketStep == ServerInv /\ WriteSocket => ServerInv'
<1>. SUFFICES ASSUME ServerInv, WriteSocket PROVE ServerInv'
  OBVIOUS
<1>1. /\ ServerTypeOK /\ CallsInv /\ Running /\ top.place = "Write"
      /\ top.at <= Len(connected)
  BY DEF ServerInv, WriteSocket, Looping
<1>2. /\ top \in ServerCall /\ depth \in DOMAIN calls /\ socket \in Sockets
      /\ top.at \in DOMAIN connected /\ top.at \in Nat \ {0}
      /\ top.writing \in Seq(Byte)
  BY <1>1, TopFacts
<1>3. DOMAIN connected \subseteq Nat
  <2>1. connected \in Seq(Sockets)
    BY <1>1 DEF ServerTypeOK
  <2>. QED
    BY <1>1, <2>1, TopFacts
<1>4. CASE top.writing = <<>> \/ socket \in closed
  <2> DEFINE k == top.at + 1
             c == Moved(top, "Write", k)
  <2>1. calls' = [calls EXCEPT ![depth] = [top EXCEPT !.at = k]]
    BY <1>4 DEF WriteSocket, top
  <2>2. k \in Nat /\ k > 0 /\ "Write" \in {"Read", "Write", "Wait"}
    BY <1>2
  <2> HIDE DEF k
  <2>3. /\ c \in ServerCall /\ c.writing = top.writing
        /\ c.place = "Write" /\ c.at = k
    <3>1. top \in ServerCall /\ k \in Nat
      BY <1>2, <2>2
    <3>. QED
      BY <3>1, MovedFacts
  <2>4. [top EXCEPT !.at = k] = c
    <3>1. [top EXCEPT !.at = k] = Moved(top, top.place, k)
      BY <1>2, <2>2, MovedIs
    <3>. QED
      BY <1>1, <3>1
  <2> HIDE DEF c
  <2>5. /\ calls' \in Seq(ServerCall) /\ Len(calls') = Len(calls)
        /\ DOMAIN calls' = DOMAIN calls /\ calls'[depth] = c
        /\ \A i \in DOMAIN calls : i # depth => calls'[i] = calls[i]
    BY <1>1, <2>1, <2>3, <2>4, TopChanged
  <2>6. \A i \in DOMAIN calls : calls'[i].writing = calls[i].writing
    BY <2>3, <2>5 DEF top
  <2>7. UNCHANGED <<connected, closed, arrived, taken, received, joined>>
    BY <1>4 DEF WriteSocket
  <2>8. ASSUME NEW i \in DOMAIN calls, NEW p \in DOMAIN connected
        PROVE  /\ ToWrite(i, p)' => ToWrite(i, p)
               /\ ToWrite(i, p) =>
                    \/ ToWrite(i, p)'
                    \/ calls[i].writing = <<>>
                    \/ connected[p] \in closed
    <3>1. CASE i = depth
      <4>1. /\ ToWrite(i, p) <=> top.at < p \/ top.at = p
            /\ ToWrite(i, p)' <=> k < p \/ k = p
        BY <1>1, <2>3, <2>5, <3>1 DEF ToWrite, top
      <4>2. top.at = p => calls[i].writing = <<>> \/ connected[p] \in closed
        BY <1>4, <3>1 DEF top, socket
      <4>3. k = p \/ k < p <=> top.at < p
        BY <1>2, <1>3 DEF k
      <4>. QED
        BY <4>1, <4>2, <4>3
    <3>2. CASE i # depth
      BY <2>5, <3>2 DEF ToWrite
    <3>. QED
      BY <3>1, <3>2
  <2>9. ServerTypeOK'
    BY <1>1, <2>5, <2>6, <2>7 DEF ServerTypeOK
  <2>10. CallsInv'
    BY <1>1, <2>2, <2>3, <2>5, <2>7 DEF CallsInv, depth
  <2>11. HeldInv' /\ ReceivedInv' /\ RelayedInv'
    BY <2>5, <2>6, <2>7, <2>8, NothingMoved
  <2>. QED
    BY <2>7, <2>9, <2>10, <2>11 DEF ServerInv
<1>5. CASE ~(top.writing = <<>> \/ socket \in closed)
  <2> DEFINE c == Moved(top, "Wait", top.at)
  <2>1. /\ calls' = [calls EXCEPT ![depth] = [top EXCEPT !.place = "Wait"]]
        /\ received' = [received EXCEPT ![socket] = @ \o top.writing]
    BY <1>5 DEF WriteSocket, top
  <2>2. /\ c \in ServerCall /\ c.writing = top.writing
        /\ c.place = "Wait" /\ c.at = top.at
    <3>1. top \in ServerCall /\ top.at \in Nat
      BY <1>2
    <3>. QED
      BY <3>1 DEF ServerCall, Moved
  <2>3. [top EXCEPT !.place = "Wait"] = c
    <3>1. "Wait" \in {"Read", "Write", "Wait"} /\ top.at \in Nat
      BY <1>2
    <3>. QED
      BY <1>2, <3>1, MovedIs
  <2> HIDE DEF c
  <2>4. /\ calls' \in Seq(ServerCall) /\ Len(calls') = Len(calls)
        /\ DOMAIN calls' = DOMAIN calls /\ calls'[depth] = c
        /\ \A i \in DOMAIN calls : i # depth => calls'[i] = calls[i]
    BY <1>1, <2>1, <2>2, <2>3, TopChanged
  <2>5. \A i \in DOMAIN calls : calls'[i].writing = calls[i].writing
    BY <2>2, <2>4 DEF top
  <2>6. UNCHANGED <<connected, closed, arrived, taken, joined>>
    BY DEF WriteSocket
  <2>7. received[socket] \in Seq(Byte)
    BY <1>1, <1>2 DEF ServerTypeOK
  <2>8. /\ received' \in [Sockets -> Seq(Byte)]
        /\ received'[socket] = received[socket] \o top.writing
        /\ \A s \in Sockets : s # socket => received'[s] = received[s]
    <3> DEFINE now == received[socket] \o top.writing
    <3>1. now \in Seq(Byte)
      BY <1>2, <2>7
    <3>2. received' = [received EXCEPT ![socket] = now]
      BY <2>1
    <3> HIDE DEF now
    <3>3. /\ received' \in [Sockets -> Seq(Byte)]
          /\ received'[socket] = now
          /\ \A s \in Sockets : s # socket => received'[s] = received[s]
      BY <1>1, <1>2, <3>1, <3>2 DEF ServerTypeOK
    <3>. QED
      BY <3>3 DEF now
  <2>9. ServerTypeOK'
    BY <1>1, <2>4, <2>5, <2>6, <2>8 DEF ServerTypeOK
  <2>10. CallsInv'
    BY <1>1, <1>2, <2>2, <2>4, <2>6 DEF CallsInv, depth
  <2>11. HeldInv'
    BY <2>4, <2>5, <2>6 DEF ServerInv, HeldInv
  <2>12. \A b : Has(received'[socket], b)
                  <=> Has(received[socket], b) \/ Has(top.writing, b)
    BY <1>2, <2>7, <2>8, HasConcat
  \* Of the socket that is written to, only this call had it to write.
  <2>13. ASSUME NEW i \in DOMAIN calls, NEW p \in DOMAIN connected
         PROVE  ToWrite(i, p)' <=> ToWrite(i, p) /\ ~(i = depth /\ p = top.at)
    <3>1. CASE i = depth
      <4>1. /\ ToWrite(i, p) <=> top.at < p \/ top.at = p
            /\ ToWrite(i, p)' <=> top.at < p
        BY <1>1, <2>2, <2>4, <3>1 DEF ToWrite, top
      <4>. QED
        BY <1>2, <1>3, <3>1, <4>1
    <3>2. CASE i # depth
      BY <2>4, <3>2 DEF ToWrite
    <3>. QED
      BY <3>1, <3>2
  <2>14. \A p \in DOMAIN connected : connected[p] = socket => p = top.at
    BY <1>2 DEF ServerInv, AllDifferent, socket
  <2>15. ToWrite(depth, top.at)
    BY <1>1 DEF ToWrite, top
  <2>16. ReceivedInv'
    <3>1. ASSUME NEW k \in DOMAIN top.writing
          PROVE  ~Has(received[socket], top.writing[k])
      BY <1>2, <2>15 DEF ServerInv, ReceivedInv, socket, top
    <3>2. AllDifferent(received'[socket])
      BY <1>2, <2>7, <2>8, <3>1, DifferentConcat
         DEF ServerInv, ReceivedInv, HeldInv, top
    <3>3. ASSUME NEW s \in Sockets
          PROVE  /\ AllDifferent(received'[s])
                 /\ s \notin Elements(connected) => received'[s] = <<>>
      BY <1>2, <2>8, <3>2 DEF ServerInv, ReceivedInv, Elements, socket
    <3>4. ASSUME NEW k \in DOMAIN received'[socket]
          PROVE  LET b == received'[socket][k] IN
                 joined[socket][b.from] < b.n /\ b.n <= taken[b.from]
      <4> DEFINE b == received'[socket][k]
      <4>1. Has(received[socket], b) \/ Has(top.writing, b)
        BY <2>12 DEF Has
      <4>2. CASE Has(received[socket], b)
        BY <1>2, <4>2 DEF Has, ServerInv, ReceivedInv
      <4>3. CASE Has(top.writing, b)
        BY <1>2, <4>3 DEF Has, ServerInv, HeldInv, socket, top
      <4>. QED
        BY <4>1, <4>2, <4>3
    <3>5. ASSUME NEW s \in Sockets, NEW k \in DOMAIN received'[s]
          PROVE  LET b == received'[s][k] IN
                 joined[s][b.from] < b.n /\ b.n <= taken[b.from]
      BY <2>8, <3>4 DEF ServerInv, ReceivedInv
    <3>6. ASSUME NEW p \in DOMAIN connected, NEW i \in DOMAIN calls,
                 ToWrite(i, p)', NEW k \in DOMAIN calls[i].writing
          PROVE  ~Has(received'[connected[p]], calls[i].writing[k])
      <4>1. /\ ToWrite(i, p) /\ ~(i = depth /\ p = top.at)
            /\ ~Has(received[connected[p]], calls[i].writing[k])
        BY <2>13, <3>6 DEF ServerInv, ReceivedInv
      <4>2. CASE connected[p] = socket
        <5>1. i # depth
          BY <2>14, <4>1, <4>2
        <5>2. ~Has(top.writing, calls[i].writing[k])
          BY <1>2, <5>1 DEF ServerInv, HeldInv, top
        <5>. QED
          BY <2>12, <4>1, <4>2, <5>2
      <4>3. CASE connected[p] # socket
        <5>1. connected[p] \in Sockets
          BY <1>1 DEF ServerTypeOK
        <5>. QED
          BY <2>8, <4>1, <4>3, <5>1
      <4>. QED
        BY <4>2, <4>3
    <3>7. \A s, t \in Sockets : joined[s][t] <= taken[t]
      BY DEF ServerInv, ReceivedInv
    <3>. QED
      BY <2>4, <2>5, <2>6, <3>3, <3>5, <3>6, <3>7 DEF ReceivedInv
  <2>17. RelayedInv'
    <3>1. ASSUME NEW p \in DOMAIN connected, connected[p] \notin closed,
                 NEW b \in Byte,
                 joined[connected[p]][b.from] < b.n, b.n <= taken[b.from]
          PROVE  \/ Has(received'[connected[p]], b)
                 \/ \E i \in DOMAIN calls :
                      ToWrite(i, p)' /\ Has(calls'[i].writing, b)
      <4>1. \/ Has(received[connected[p]], b)
            \/ \E i \in DOMAIN calls : ToWrite(i, p) /\ Has(calls[i].writing, b)
        BY <3>1 DEF ServerInv, RelayedInv
      <4>2. connected[p] \in Sockets
        BY <1>1 DEF ServerTypeOK
      <4>3. CASE Has(received[connected[p]], b)
        BY <2>8, <2>12, <4>2, <4>3
      <4>4. ASSUME NEW i \in DOMAIN calls, ToWrite(i, p),
                   Has(calls[i].writing, b)
            PROVE  \/ Has(received'[connected[p]], b)
                   \/ ToWrite(i, p)' /\ Has(calls'[i].writing, b)
        <5>1. CASE i = depth /\ p = top.at
          BY <2>12, <4>4, <5>1 DEF socket, top
        <5>2. CASE ~(i = depth /\ p = top.at)
          BY <2>5, <2>13, <4>4, <5>2
        <5>. QED
          BY <5>1, <5>2
      <4>. QED
        BY <4>1, <4>3, <4>4
    <3>. QED
      BY <2>4, <2>6, <3>1 DEF RelayedInv
  <2>. QED
    BY <2>6, <2>9, <2>10, <2>11, <2>16, <2>17 DEF ServerInv
<1>. QED
  BY <1>4, <1>5

LEMMA AllWrittenStep == ServerInv /\ AllWritten => ServerInv'
<1>. SUFFICES ASSUME ServerInv, AllWritten PROVE ServerInv'
  OBVIOUS
<1>1. /\ ServerTypeOK /\ CallsInv /\ Running /\ top.place = "Write"
      /\ top.at > Len(connected)
  BY DEF ServerInv, AllWritten, LoopEnded
<1>2. depth \in Nat \ {0} /\ depth \in DOMAIN calls
  BY <1>1, TopFacts
<1>3. calls \in Seq(ServerCall) /\ connected \in Seq(Sockets)
  BY <1>1 DEF ServerTypeOK
<1>4. /\ calls' \in Seq(ServerCall) /\ Len(calls') = depth - 1
      /\ DOMAIN calls' = 1 .. depth - 1 /\ DOMAIN calls = 1 .. depth
      /\ \A i \in DOMAIN calls' : calls'[i] = calls[i]
  <2>1. depth = Len(calls) /\ depth - 1 \in 0 .. Len(calls)
    BY <1>2 DEF depth
  <2>2. calls' = SubSeq(calls, 1, depth - 1)
    BY DEF AllWritten
  <2> HIDE DEF depth
  <2>. QED
    BY <1>2, <1>3, <2>1, <2>2
<1>5. DOMAIN calls' \subseteq DOMAIN calls /\ depth \notin DOMAIN calls'
  BY <1>2, <1>4
<1>6. UNCHANGED <<connected, closed, arrived, taken, received, joined>>
  BY DEF AllWritten
<1>7. \A i \in DOMAIN calls : i # depth => i \in DOMAIN calls'
  BY <1>2, <1>4
\* The call that returns has nothing more to write.
<1>8. \A p \in DOMAIN connected : ~ToWrite(depth, p)
  <2>1. DOMAIN connected = 1 .. Len(connected) /\ Len(connected) \in Nat
    BY <1>3
  <2>2. top.at \in Nat
    BY <1>1, TopFacts
  <2>. QED
    BY <1>1, <2>1, <2>2 DEF ToWrite, top
<1>9. \A i \in DOMAIN calls', p \in DOMAIN connected :
        ToWrite(i, p)' <=> ToWrite(i, p)
  BY <1>4 DEF ToWrite
<1>10. ServerTypeOK'
  BY <1>1, <1>4, <1>5, <1>6 DEF ServerTypeOK
<1>11. CallsInv'
  BY <1>1, <1>4, <1>5, <1>6 DEF CallsInv, depth
<1>12. HeldInv'
  BY <1>4, <1>5, <1>6 DEF ServerInv, HeldInv
<1>13. ReceivedInv'
  BY <1>4, <1>5, <1>6, <1>9 DEF ServerInv, ReceivedInv
<1>14. RelayedInv'
  <2>1. ASSUME NEW p \in DOMAIN connected, connected[p] \notin closed,
               NEW b \in Byte, NEW i \in DOMAIN calls,
               ToWrite(i, p), Has(calls[i].writing, b)
        PROVE  /\ i \in DOMAIN calls' /\ ToWrite(i, p)'
               /\ Has(calls'[i].writing, b)
    <3>1. i \in DOMAIN calls'
      BY <1>7, <1>8, <2>1
    <3>. QED
      BY <1>4, <1>9, <2>1, <3>1
  <2>2. ASSUME NEW p \in DOMAIN connected, connected[p] \notin closed,
               NEW b \in Byte,
               joined[connected[p]][b.from] < b.n, b.n <= taken[b.from]
        PROVE  \/ Has(received[connected[p]], b)
               \/ \E i \in DOMAIN calls' :
                    ToWrite(i, p)' /\ Has(calls'[i].writing, b)
    BY <2>1, <2>2 DEF ServerInv, RelayedInv
  <2>. QED
    BY <1>6, <2>2 DEF RelayedInv
<1>. QED
  BY <1>6, <1>10, <1>11, <1>12, <1>13, <1>14 DEF ServerInv

LEMMA DisconnectedStep ==
  ASSUME ServerInv, NEW s \in Sockets, Disconnected(s)
  PROVE  ServerInv'
<1>1. UNCHANGED <<connected, arrived, taken, calls, received, joined>>
  BY DEF Disconnected
<1>2. closed \subseteq closed' /\ closed' \subseteq Sockets
  BY DEF Disconnected, ServerInv, ServerTypeOK
<1>3. ServerTypeOK'
  BY <1>1, <1>2 DEF ServerInv, ServerTypeOK
<1>4. CallsInv' /\ HeldInv' /\ ReceivedInv'
  BY <1>1 DEF ServerInv, CallsInv, HeldInv, ReceivedInv, ToWrite
<1>5. RelayedInv'
  BY <1>1, <1>2 DEF ServerInv, RelayedInv, ToWrite
<1>. QED
  BY <1>1, <1>3, <1>4, <1>5 DEF ServerInv

LEMMA OnNewConnectionStep ==
  ASSUME ServerInv, NEW s \in Sockets, OnNewConnection(s)
  PROVE  ServerInv'
<1>1. ServerTypeOK /\ calls = <<>> /\ s \notin Elements(connected)
  BY DEF ServerInv, OnNewConnection, Running
<1>2. UNCHANGED <<closed, arrived, taken, calls, received>>
  BY DEF OnNewConnection
<1>3. connected \in Seq(Sockets)
  BY <1>1 DEF ServerTypeOK
<1>4. /\ connected' \in Seq(Sockets) /\ Len(connected) \in Nat
      /\ DOMAIN connected = 1 .. Len(connected)
      /\ DOMAIN connected' = 1 .. Len(connected) + 1
      /\ connected'[Len(connected) + 1] = s
      /\ \A p \in DOMAIN connected : connected'[p] = connected[p]
  BY <1>3 DEF OnNewConnection
<1>5. \A p \in DOMAIN connected' :
        p \in DOMAIN connected \/ p = Len(connected) + 1
  BY <1>4
<1>6. /\ joined' \in [Sockets -> [Sockets -> Nat]]
      /\ joined'[s] = taken
      /\ \A t \in Sockets : t # s => joined'[t] = joined[t]
  BY <1>1 DEF OnNewConnection, ServerTypeOK
<1>7. DOMAIN calls' = {} /\ DOMAIN calls = {}
  BY <1>1, <1>2
<1>8. \A p \in DOMAIN connected : connected[p] \in Sockets /\ connected[p] # s
  BY <1>1, <1>3 DEF Elements
<1>9. ServerTypeOK'
  BY <1>1, <1>2, <1>4, <1>6 DEF ServerTypeOK
<1>10. AllDifferent(connected)'
  <2>1. ASSUME NEW i \in DOMAIN connected', NEW j \in DOMAIN connected',
               connected'[i] = connected'[j]
        PROVE  i = j
    BY <1>4, <1>5, <1>8, <2>1 DEF ServerInv, AllDifferent
  <2>. QED
    BY <2>1 DEF AllDifferent
<1>11. CallsInv' /\ HeldInv'
  BY <1>7 DEF CallsInv, HeldInv
<1>12. ReceivedInv'
  <2>1. received[s] = <<>>
    BY <1>1 DEF ServerInv, ReceivedInv
  <2>2. taken \in [Sockets -> Nat]
    BY <1>1 DEF ServerTypeOK
  <2>3. ASSUME NEW t \in Sockets, NEW c \in Sockets
        PROVE  joined'[t][c] <= taken[c]
    <3>1. taken[c] \in Nat
      BY <2>2
    <3>2. t # s => joined'[t][c] <= taken[c]
      BY <1>6 DEF ServerInv, ReceivedInv
    <3>. QED
      BY <1>6, <3>1, <3>2
  <2>4. ASSUME NEW t \in Sockets, NEW k \in DOMAIN received[t]
        PROVE  LET b == received[t][k] IN
               joined'[t][b.from] < b.n /\ b.n <= taken[b.from]
    <3>1. t # s
      BY <2>1, <2>4
    <3>. QED
      BY <1>6, <3>1 DEF ServerInv, ReceivedInv
  <2>5. ASSUME NEW t \in Sockets, t \notin Elements(connected')
        PROVE  received[t] = <<>>
    <3>1. t \notin Elements(connected)
      BY <1>4, <2>5 DEF Elements
    <3>. QED
      BY <3>1 DEF ServerInv, ReceivedInv
  <2>6. \A t \in Sockets : AllDifferent(received[t])
    BY DEF ServerInv, ReceivedInv
  <2>. QED
    BY <1>2, <1>7, <2>3, <2>4, <2>5, <2>6 DEF ReceivedInv
<1>13. RelayedInv'
  <2>1. ASSUME NEW p \in DOMAIN connected', connected'[p] \notin closed,
               NEW b \in Byte,
               joined'[connected'[p]][b.from] < b.n, b.n <= taken[b.from]
        PROVE  Has(received[connected'[p]], b)
    <3>1. b.from \in Sockets /\ b.n \in Nat
      BY DEF Byte
    <3>2. taken[b.from] \in Nat
      BY <1>1, <3>1 DEF ServerTypeOK
    <3>3. p \in DOMAIN connected
      BY <1>4, <1>5, <1>6, <2>1, <3>1, <3>2
    <3>. QED
      BY <1>4, <1>6, <1>7, <1>8, <2>1, <3>3 DEF ServerInv, RelayedInv
  <2>. QED
    BY <1>2, <2>1 DEF RelayedInv
<1>. QED
  BY <1>9, <1>10, <1>11, <1>12, <1>13 DEF ServerInv

LEMMA ReadyReadStep ==
  ASSUME ServerInv, NEW s \in Sockets, NEW n \in Arrivals, ReadyRead(s, n)
  PROVE  ServerInv'
<1>1. ServerTypeOK /\ CallsInv
  BY DEF ServerInv
<1>2. UNCHANGED <<connected, closed, taken, received, joined>>
  BY DEF ReadyRead
<1>3. n \in Nat
  BY ServerAssumption
<1>4. /\ arrived' \in [Sockets -> Nat]
      /\ \A c \in Sockets : arrived[c] <= arrived'[c]
  <2> DEFINE more == arrived[s] + n
  <2>1. \A c \in Sockets : arrived[c] \in Nat
    BY <1>1 DEF ServerTypeOK
  <2>2. more \in Nat /\ arrived[s] <= more
    BY <1>3, <2>1
  <2>3. arrived' = [arrived EXCEPT ![s] = more]
    BY DEF ReadyRead
  <2> HIDE DEF more
  <2>4. arrived \in [Sockets -> Nat]
    BY <1>1 DEF ServerTypeOK
  <2>5. \A c \in Sockets : arrived'[c] = IF c = s THEN more ELSE arrived[c]
    BY <2>3, <2>4
  <2>6. arrived' \in [Sockets -> Nat]
    BY <2>2, <2>3, <2>4
  <2>7. \A c \in Sockets : arrived[c] <= arrived[c]
    BY <2>1
  <2>. QED
    BY <2>2, <2>5, <2>6, <2>7
<1>5. \A c \in Sockets : taken[c] <= arrived'[c]
  BY <1>1, <1>4 DEF ServerTypeOK
<1>6. CASE calls' = calls
  <2>1. ServerTypeOK'
    BY <1>1, <1>2, <1>4, <1>5, <1>6 DEF ServerTypeOK
  <2>2. CallsInv' /\ HeldInv' /\ ReceivedInv' /\ RelayedInv'
    BY <1>2, <1>6
       DEF ServerInv, CallsInv, HeldInv, ReceivedInv, RelayedInv, ToWrite
  <2>. QED
    BY <1>2, <2>1, <2>2 DEF ServerInv
<1>7. CASE calls' = Append(calls, NewServerCall(s))
  <2> DEFINE new == NewServerCall(s)
             last == Len(calls) + 1
  <2>1. /\ new \in ServerCall /\ new.writing = <<>> /\ new.at > 0
        /\ new.place = "Read" /\ Len(new.writing) = 0
    BY DEF NewServerCall, ServerCall
  <2>2. calls \in Seq(ServerCall) /\ Capacity \in Nat
    BY <1>1, ServerAssumption DEF ServerTypeOK
  <2> HIDE DEF new
  <2>3. /\ calls' \in Seq(ServerCall) /\ Len(calls') = last
        /\ DOMAIN calls' = 1 .. last /\ DOMAIN calls = 1 .. Len(calls)
        /\ Len(calls) \in Nat
        /\ calls'[last] = new
        /\ \A i \in DOMAIN calls : calls'[i] = calls[i]
    BY <1>7, <2>1, <2>2 DEF new
  <2>4. \A i \in DOMAIN calls' : i \in DOMAIN calls \/ i = last
    BY <2>3
  <2>5. last \in DOMAIN calls' /\ last \notin DOMAIN calls
    BY <2>3
  <2> HIDE DEF last
  <2>6. DOMAIN new.writing = {} /\ DOMAIN calls \subseteq DOMAIN calls'
    BY <2>1, <2>3 DEF last
  <2>7. \A i \in DOMAIN calls, p \in DOMAIN connected :
          ToWrite(i, p)' <=> ToWrite(i, p)
    BY <2>3 DEF ToWrite
  <2>8. ServerTypeOK'
    <3>1. \A i \in DOMAIN calls' : Len(calls'[i].writing) <= Capacity
      <4>1. \A i \in DOMAIN calls : Len(calls[i].writing) <= Capacity
        BY <1>1 DEF ServerTypeOK
      <4>2. Len(new.writing) <= Capacity
        BY <2>1, <2>2
      <4>. QED
        BY <2>3, <2>4, <4>1, <4>2
    <3>. QED
      BY <1>1, <1>2, <1>4, <1>5, <2>3, <3>1 DEF ServerTypeOK
  \* Only a call that waits is interrupted.
  <2>9. \A i \in DOMAIN calls : calls[i].place = "Wait"
    <3>1. Running => calls[Len(calls)].place = "Wait"
      BY DEF ReadyRead, Listening, top, depth
    <3>2. DOMAIN calls # {} => Running
      BY DEF Running
    <3>. QED
      BY <1>1, <3>1, <3>2 DEF CallsInv
  <2>10. CallsInv'
    BY <1>1, <1>2, <2>1, <2>3, <2>4, <2>9 DEF CallsInv
  <2>11. HeldInv'
    BY <1>2, <2>3, <2>4, <2>6 DEF ServerInv, HeldInv, AllDifferent, Has
  <2>12. ReceivedInv'
    BY <1>2, <2>3, <2>4, <2>6, <2>7 DEF ServerInv, ReceivedInv
  <2>13. RelayedInv'
    BY <1>2, <2>3, <2>6, <2>7 DEF ServerInv, RelayedInv
  <2>. QED
    BY <1>2, <2>8, <2>10, <2>11, <2>12, <2>13 DEF ServerInv
<1>. QED
  BY <1>6, <1>7 DEF ReadyRead

\* The bytes that a read takes: those of the socket from here on.
NextBytes(s, n) == [i \in 1 .. n |-> [from |-> s, n |-> taken[s] + i]]

LEMMA NextBytesFacts ==
  ASSUME ServerTypeOK, NEW s \in Sockets, NEW n \in Nat
  PROVE  /\ NextBytes(s, n) \in Seq(Byte)
         /\ Len(NextBytes(s, n)) = n
         /\ AllDifferent(NextBytes(s, n))
         /\ \A b \in Byte :
              Has(NextBytes(s, n), b)
                <=> b.from = s /\ taken[s] < b.n /\ b.n <= taken[s] + n
<1> DEFINE u == NextBytes(s, n)
<1>1. taken[s] \in Nat
  BY DEF ServerTypeOK
<1>2. /\ DOMAIN u = 1 .. n /\ u \in Seq(Byte)
      /\ \A i \in 1 .. n : u[i] = [from |-> s, n |-> taken[s] + i]
  BY <1>1 DEF NextBytes, Byte
<1> HIDE DEF u
<1>3. Len(u) = n
  BY <1>2
<1>4. AllDifferent(u)
  <2>1. ASSUME NEW i \in 1 .. n, NEW j \in 1 .. n, u[i] = u[j]
        PROVE  i = j
    <3>1. taken[s] + i = taken[s] + j
      BY <1>2, <2>1
    <3>. QED
      BY <1>1, <3>1
  <2>. QED
    BY <1>2, <2>1 DEF AllDifferent
<1>5. ASSUME NEW b \in Byte
      PROVE  Has(u, b) <=> b.from = s /\ taken[s] < b.n /\ b.n <= taken[s] + n
  <2>1. b.n \in Nat /\ b = [from |-> b.from, n |-> b.n]
    BY DEF Byte
  <2>2. ASSUME NEW i \in 1 .. n, u[i] = b
        PROVE  b.from = s /\ taken[s] < b.n /\ b.n <= taken[s] + n
    BY <1>1, <1>2, <2>2
  <2>3. ASSUME b.from = s, taken[s] < b.n, b.n <= taken[s] + n
        PROVE  b.n - taken[s] \in 1 .. n /\ u[b.n - taken[s]] = b
    <3>1. /\ b.n - taken[s] \in 1 .. n
          /\ taken[s] + (b.n - taken[s]) = b.n
      BY <1>1, <2>1, <2>3
    <3>. QED
      BY <1>2, <2>1, <2>3, <3>1
  <2>. QED
    BY <1>2, <2>2, <2>3 DEF Has
<1>. QED
  BY <1>2, <1>3, <1>4, <1>5 DEF u

LEMMA ReadBytesStep == ServerInv /\ ReadBytes => ServerInv'
<1>. SUFFICES ASSUME ServerInv, ReadBytes PROVE ServerInv'
  OBVIOUS
<1>1. /\ ServerTypeOK /\ CallsInv /\ Running /\ top.place = "Read"
      /\ top.at <= Len(connected)
  BY DEF ServerInv, ReadBytes, Looping
<1>2. /\ top \in ServerCall /\ depth \in DOMAIN calls /\ socket \in Sockets
      /\ top.writing \in Seq(Byte) /\ Len(top.writing) \in Nat
      /\ Len(top.writing) <= Capacity /\ Capacity \in Nat
  BY <1>1, TopFacts, ServerAssumption
<1>3. /\ taken \in [Sockets -> Nat] /\ arrived \in [Sockets -> Nat]
      /\ taken[socket] \in Nat /\ arrived[socket] \in Nat
      /\ taken[socket] <= arrived[socket]
  BY <1>1, <1>2 DEF ServerTypeOK
<1>4. PICK n \in Nat :
        /\ n <= bytesAvailable /\ Len(top.writing) + n <= Capacity
        /\ taken' = [taken EXCEPT ![socket] = taken[socket] + n]
        /\ calls' = [calls EXCEPT ![depth].writing =
                       top.writing \o NextBytes(socket, n)]
  <2> DEFINE n == IF bytesAvailable < Capacity - Len(top.writing)
                  THEN bytesAvailable ELSE Capacity - Len(top.writing)
  <2>1. /\ n \in Nat /\ n <= bytesAvailable
        /\ Len(top.writing) + n <= Capacity
    BY <1>2, <1>3 DEF bytesAvailable
  <2>2. taken' = [taken EXCEPT ![socket] = taken[socket] + n]
    BY DEF ReadBytes
  <2>3. calls' = [calls EXCEPT ![depth].writing =
                    top.writing \o NextBytes(socket, n)]
    BY DEF ReadBytes, NextBytes, top
  <2> HIDE DEF n
  <2>. QED
    BY <2>1, <2>2, <2>3
<1>5. UNCHANGED <<connected, closed, arrived, received, joined>>
  BY DEF ReadBytes
<1> DEFINE u == NextBytes(socket, n)
           held == top.writing \o u
           c == [top EXCEPT !.writing = held]
<1>6. /\ u \in Seq(Byte) /\ Len(u) = n /\ AllDifferent(u)
      /\ \A b \in Byte :
           Has(u, b) <=>
             b.from = socket /\ taken[socket] < b.n /\ b.n <= taken[socket] + n
  BY <1>1, <1>2, NextBytesFacts
<1>7. calls' = [calls EXCEPT ![depth] = c]
  <2>1. calls' = [calls EXCEPT ![depth].writing = held]
    BY <1>4
  <2> HIDE DEF held
  <2>. QED
    BY <2>1 DEF top
<1> HIDE DEF u
<1>8. held \in Seq(Byte) /\ Len(held) = Len(top.writing) + n
  <2> DEFINE v == top.writing
  <2>1. v \in Seq(Byte) /\ u \in Seq(Byte)
    BY <1>2, <1>6
  <2> HIDE DEF v
  <2>2. v \o u \in Seq(Byte) /\ Len(v \o u) = Len(v) + Len(u)
    BY <2>1
  <2>3. Len(u) = n
    BY <1>6
  <2>. QED
    BY <2>2, <2>3 DEF v
<1>9. \A b : Has(held, b) <=> Has(top.writing, b) \/ Has(u, b)
  <2> DEFINE v == top.writing
  <2>1. v \in Seq(Byte) /\ u \in Seq(Byte) /\ held = v \o u
    BY <1>2, <1>6
  <2> HIDE DEF v, held
  <2>2. \A b : Has(held, b) <=> Has(v, b) \/ Has(u, b)
    BY <2>1, HasConcat
  <2>. QED
    BY <2>2 DEF v
<1> HIDE DEF held
<1>10. /\ c \in ServerCall /\ c.writing = held /\ c.place = top.place
       /\ c.at = top.at
  BY <1>2, <1>8 DEF ServerCall
<1> HIDE DEF c
<1>11. /\ calls' \in Seq(ServerCall) /\ Len(calls') = Len(calls)
       /\ DOMAIN calls' = DOMAIN calls /\ calls'[depth] = c
       /\ \A i \in DOMAIN calls : i # depth => calls'[i] = calls[i]
  BY <1>1, <1>7, <1>10, TopChanged
<1>12. /\ taken' \in [Sockets -> Nat]
       /\ taken'[socket] = taken[socket] + n
       /\ \A s \in Sockets : s # socket => taken'[s] = taken[s]
       /\ \A s \in Sockets : taken[s] <= taken'[s] /\ taken'[s] <= arrived[s]
  <2>1. /\ taken' \in [Sockets -> Nat]
        /\ taken'[socket] = taken[socket] + n
        /\ \A s \in Sockets : s # socket => taken'[s] = taken[s]
    BY <1>2, <1>3, <1>4
  <2>2. \A s \in Sockets :
          taken[s] <= arrived[s] /\ taken[s] \in Nat /\ arrived[s] \in Nat
    BY <1>1 DEF ServerTypeOK
  <2>3. taken'[socket] <= arrived[socket]
    BY <1>3, <1>4, <2>1 DEF bytesAvailable
  <2>. QED
    BY <2>1, <2>2, <2>3
<1>13. \A i \in DOMAIN calls, p \in DOMAIN connected :
         ToWrite(i, p)' <=> ToWrite(i, p)
  BY <1>5, <1>10, <1>11 DEF ToWrite, top
\* What a call held was taken before, so that it is none of the new bytes.
<1>14. ASSUME NEW i \in DOMAIN calls, NEW k \in DOMAIN calls[i].writing
       PROVE  /\ calls[i].writing[k] \in Byte
              /\ ~Has(u, calls[i].writing[k])
  <2>1. calls[i].writing[k] \in Byte
    <3>1. calls \in Seq(ServerCall)
      BY <1>1 DEF ServerTypeOK
    <3>2. calls[i] \in ServerCall
      BY <3>1
    <3>3. calls[i].writing \in Seq(Byte)
      BY <3>2 DEF ServerCall
    <3>. QED
      BY <3>3
  <2> DEFINE b == calls[i].writing[k]
  <2>2. b.n <= taken[b.from] /\ b.n \in Nat
    BY <2>1 DEF ServerInv, HeldInv, Byte
  <2> HIDE DEF b
  <2>3. ~(b.from = socket /\ taken[socket] < b.n)
    BY <1>3, <2>2
  <2>. QED
    BY <1>6, <2>1, <2>3 DEF b
<1>15. ASSUME NEW s \in Sockets, NEW k \in DOMAIN received[s]
       PROVE  /\ received[s][k] \in Byte
              /\ ~Has(u, received[s][k])
  <2>1. received[s][k] \in Byte
    BY <1>1 DEF ServerTypeOK
  <2> DEFINE b == received[s][k]
  <2>2. b.n <= taken[b.from] /\ b.n \in Nat
    BY <2>1 DEF ServerInv, ReceivedInv, Byte
  <2> HIDE DEF b
  <2>3. ~(b.from = socket /\ taken[socket] < b.n)
    BY <1>3, <2>2
  <2>. QED
    BY <1>6, <2>1, <2>3 DEF b
<1>16. \A k \in DOMAIN held :
         held[k] \in Byte /\ (Has(top.writing, held[k]) \/ Has(u, held[k]))
  <2>1. \A k \in DOMAIN held : held[k] \in Byte
    BY <1>8
  <2>2. \A k \in DOMAIN held : Has(held, held[k])
    BY DEF Has
  <2>. QED
    BY <1>9, <2>1, <2>2
<1>17. ServerTypeOK'
  <2>1. \A i \in DOMAIN calls' : Len(calls'[i].writing) <= Capacity
    BY <1>1, <1>2, <1>4, <1>8, <1>10, <1>11 DEF ServerTypeOK
  <2>. QED
    BY <1>1, <1>5, <1>11, <1>12, <2>1 DEF ServerTypeOK
<1>18. CallsInv'
  BY <1>1, <1>5, <1>10, <1>11 DEF CallsInv, depth, top
<1>19. HeldInv'
  <2>1. ASSUME NEW i \in DOMAIN calls
        PROVE  AllDifferent(calls'[i].writing)
    <3>1. AllDifferent(held)
      BY <1>2, <1>6, <1>14, DifferentConcat DEF ServerInv, HeldInv, held, top, Has
    <3>. QED
      BY <1>10, <1>11, <3>1 DEF ServerInv, HeldInv
  <2>2. ASSUME NEW b \in Byte, NEW i \in DOMAIN calls,
               Has(calls'[i].writing, b)
        PROVE  /\ b.n <= taken'[b.from]
               /\ \A p \in DOMAIN connected : joined[connected[p]][b.from] < b.n
    <3>1. b.from \in Sockets /\ b.n \in Nat
      BY DEF Byte
    <3>2. CASE Has(calls[i].writing, b)
      <4>1. b.n <= taken[b.from] /\ taken[b.from] <= taken'[b.from]
        BY <1>12, <3>1, <3>2 DEF ServerInv, HeldInv, Has
      <4>2. b.n <= taken'[b.from]
        BY <1>3, <1>12, <3>1, <4>1
      <4>. QED
        BY <3>2, <4>2 DEF ServerInv, HeldInv, Has
    <3>3. CASE ~Has(calls[i].writing, b)
      <4>1. Has(u, b)
        BY <1>9, <1>10, <1>11, <2>2, <3>3 DEF top
      <4>2. b.from = socket /\ taken[socket] < b.n /\ b.n <= taken'[b.from]
        BY <1>6, <1>12, <4>1
      <4>3. ASSUME NEW p \in DOMAIN connected
            PROVE  joined[connected[p]][b.from] < b.n
        <5>1. connected[p] \in Sockets
          BY <1>1 DEF ServerTypeOK
        <5>2. /\ joined[connected[p]][socket] \in Nat
              /\ joined[connected[p]][socket] <= taken[socket]
          BY <1>1, <1>2, <5>1 DEF ServerInv, ReceivedInv, ServerTypeOK
        <5>. QED
          BY <1>3, <3>1, <4>2, <5>2
      <4>. QED
        BY <4>2, <4>3
    <3>. QED
      BY <3>2, <3>3
  <2>3. ASSUME NEW i \in DOMAIN calls, NEW j \in DOMAIN calls, i # j,
               NEW k \in DOMAIN calls'[i].writing
        PROVE  ~Has(calls'[j].writing, calls'[i].writing[k])
    <3>1. CASE i # depth /\ j # depth
      BY <1>11, <2>3, <3>1 DEF ServerInv, HeldInv
    <3>2. CASE i # depth /\ j = depth
      BY <1>9, <1>10, <1>11, <1>14, <2>3, <3>2 DEF ServerInv, HeldInv, top
    <3>3. CASE i = depth
      <4> DEFINE b == held[k]
      <4>1. k \in DOMAIN held /\ calls'[i].writing[k] = b /\ j # depth
        BY <1>10, <1>11, <2>3, <3>3
      <4>2. ASSUME Has(calls[j].writing, b) PROVE FALSE
        <5>1. ~Has(u, b)
          BY <1>14, <4>2 DEF Has
        <5>2. Has(top.writing, b)
          BY <1>16, <4>1, <5>1
        <5>. QED
          BY <1>2, <2>3, <3>3, <4>1, <4>2, <5>2 DEF ServerInv, HeldInv, Has, top
      <4>. QED
        BY <1>11, <4>1, <4>2
    <3>. QED
      BY <3>1, <3>2, <3>3
  <2>4. ASSUME NEW i \in DOMAIN calls, NEW k \in DOMAIN calls'[i].writing
        PROVE  /\ calls'[i].writing[k] \in Byte
               /\ Has(calls'[i].writing, calls'[i].writing[k])
    <3>1. calls'[i] \in ServerCall
      BY <1>11
    <3>2. calls'[i].writing \in Seq(Byte)
      BY <3>1 DEF ServerCall
    <3>. QED
      BY <3>2 DEF Has
  <2>. QED
    BY <1>5, <1>11, <2>1, <2>2, <2>3, <2>4 DEF HeldInv
<1>20. ReceivedInv'
  <2>1. ASSUME NEW s \in Sockets, NEW k \in Sockets
        PROVE  joined[s][k] <= taken'[k]
    <3>1. /\ joined[s][k] <= taken[k] /\ taken[k] <= taken'[k]
          /\ joined[s][k] \in Nat /\ taken[k] \in Nat /\ taken'[k] \in Nat
      BY <1>1, <1>12 DEF ServerInv, ReceivedInv, ServerTypeOK
    <3>. QED
      BY <3>1
  <2>2. ASSUME NEW s \in Sockets, NEW k \in DOMAIN received[s]
        PROVE  LET b == received[s][k] IN
               joined[s][b.from] < b.n /\ b.n <= taken'[b.from]
    <3> DEFINE b == received[s][k]
    <3>1. joined[s][b.from] < b.n /\ b.n <= taken[b.from]
      BY DEF ServerInv, ReceivedInv
    <3>2. b.from \in Sockets /\ b.n \in Nat
      BY <1>15 DEF Byte
    <3> HIDE DEF b
    <3>3. /\ taken[b.from] <= taken'[b.from]
          /\ taken[b.from] \in Nat /\ taken'[b.from] \in Nat
      BY <1>3, <1>12, <3>2
    <3>4. b.n <= taken'[b.from]
      BY <3>1, <3>2, <3>3
    <3>. QED
      BY <3>1, <3>4 DEF b
  <2>3. ASSUME NEW p \in DOMAIN connected, NEW i \in DOMAIN calls,
               ToWrite(i, p), NEW k \in DOMAIN calls'[i].writing
        PROVE  ~Has(received[connected[p]], calls'[i].writing[k])
    <3> DEFINE b == calls'[i].writing[k]
    <3>1. connected[p] \in Sockets
      BY <1>1 DEF ServerTypeOK
    <3>2. CASE i # depth
      BY <1>11, <2>3, <3>2 DEF ServerInv, ReceivedInv
    <3>3. CASE i = depth
      <4>1. Has(top.writing, b) \/ Has(u, b)
        BY <1>10, <1>11, <1>16, <3>3
      <4>2. ASSUME Has(received[connected[p]], b) PROVE FALSE
        <5>1. ~Has(u, b)
          BY <1>15, <3>1, <4>2 DEF Has
        <5>2. PICK m \in DOMAIN top.writing : top.writing[m] = b
          BY <4>1, <5>1 DEF Has
        <5>. QED
          BY <2>3, <3>3, <4>2, <5>2 DEF ServerInv, ReceivedInv, top
      <4>. QED
        BY <4>2
    <3>. QED
      BY <3>2, <3>3
  <2>. QED
    BY <1>5, <1>11, <1>13, <2>1, <2>2, <2>3 DEF ServerInv, ReceivedInv
<1>21. RelayedInv'
  <2>1. ASSUME NEW p \in DOMAIN connected, connected[p] \notin closed,
               NEW b \in Byte,
               joined[connected[p]][b.from] < b.n, b.n <= taken'[b.from]
        PROVE  \/ Has(received[connected[p]], b)
               \/ \E i \in DOMAIN calls :
                    ToWrite(i, p)' /\ Has(calls'[i].writing, b)
    <3>1. b.from \in Sockets /\ b.n \in Nat
      BY DEF Byte
    <3>2. CASE b.n <= taken[b.from]
      <4>1. \/ Has(received[connected[p]], b)
            \/ \E i \in DOMAIN calls : ToWrite(i, p) /\ Has(calls[i].writing, b)
        BY <2>1, <3>2 DEF ServerInv, RelayedInv
      <4>2. ASSUME NEW i \in DOMAIN calls, Has(calls[i].writing, b)
            PROVE  Has(calls'[i].writing, b)
        BY <1>9, <1>10, <1>11, <4>2 DEF top
      <4>. QED
        BY <1>13, <4>1, <4>2
    \* The bytes just read are still to be written to every socket.
    <3>3. CASE ~(b.n <= taken[b.from])
      <4>1. b.from = socket /\ taken[socket] < b.n /\ b.n <= taken[socket] + n
        BY <1>3, <1>12, <2>1, <3>1, <3>3
      <4>2. ASSUME NEW i \in DOMAIN calls, i = depth
            PROVE  ToWrite(i, p)' /\ Has(calls'[i].writing, b)
        <5>1. Has(calls'[i].writing, b)
          BY <1>6, <1>9, <1>10, <1>11, <4>1, <4>2
        <5>2. ToWrite(i, p)'
          BY <1>1, <1>10, <1>11, <4>2 DEF ToWrite
        <5>. QED
          BY <5>1, <5>2
      <4>. QED
        BY <1>2, <4>2
    <3>. QED
      BY <3>2, <3>3
  <2>. QED
    BY <1>5, <1>11, <2>1 DEF RelayedInv
<1>. QED
  BY <1>5, <1>17, <1>18, <1>19, <1>20, <1>21 DEF ServerInv

LEMMA ServerStart == ServerInit => ServerInv
<1>. SUFFICES ASSUME ServerInit PROVE ServerInv
  OBVIOUS
<1>1. DOMAIN calls = {} /\ DOMAIN connected = {}
  BY DEF ServerInit
<1>2. ServerTypeOK
  BY <1>1 DEF ServerInit, ServerTypeOK
<1>3. \A s \in Sockets : DOMAIN received[s] = {} /\ received[s] = <<>>
  <2>1. \A s \in Sockets : received[s] = <<>>
    BY DEF ServerInit
  <2>2. ASSUME NEW w, w = <<>> PROVE DOMAIN w = {}
    BY <2>2
  <2>. QED
    BY <2>1, <2>2
<1>4. \A s, c \in Sockets : joined[s][c] <= taken[c]
  BY DEF ServerInit
<1>5. ReceivedInv
  BY <1>1, <1>3, <1>4 DEF ReceivedInv, AllDifferent
<1>6. AllDifferent(connected) /\ CallsInv /\ HeldInv /\ RelayedInv
  BY <1>1 DEF AllDifferent, CallsInv, HeldInv, RelayedInv
<1>. QED
  BY <1>2, <1>5, <1>6 DEF ServerInv

LEMMA ServerInvariance == ServerSpec => []ServerInv
<1>1. ServerInv /\ [ServerNext]_serverVars => ServerInv'
  <2>. SUFFICES ASSUME ServerInv, [ServerNext]_serverVars PROVE ServerInv'
    OBVIOUS
  <2>1. ASSUME NEW s \in Sockets, OnNewConnection(s) PROVE ServerInv'
    BY <2>1, OnNewConnectionStep
  <2>2. ASSUME NEW s \in Sockets, Disconnected(s) PROVE ServerInv'
    BY <2>2, DisconnectedStep
  <2>3. ASSUME NEW s \in Sockets, NEW n \in Arrivals, ReadyRead(s, n)
        PROVE  ServerInv'
    BY <2>3, ReadyReadStep
  <2>4. CASE ServerStep
    BY <2>4, ReadBytesStep, NextSocketStep, AllReadStep, WriteSocketStep,
       BytesWrittenStep, AllWrittenStep DEF ServerStep
  <2>5. CASE UNCHANGED serverVars
    BY <2>5
       DEF serverVars, ServerInv, ServerTypeOK, CallsInv, HeldInv, ReceivedInv,
           RelayedInv, ToWrite
  <2>. QED
    BY <2>1, <2>2, <2>3, <2>4, <2>5 DEF ServerNext
<1>. QED
  BY <1>1, ServerStart, PTL DEF ServerSpec

\* The state of the server has its type at every step: no call holds more than
\* the array has room for, and no read takes more than has arrived.
THEOREM ServerTypeCorrect == ServerSpec => []ServerTypeOK
<1>1. ServerInv => ServerTypeOK
  BY DEF ServerInv
<1>. QED
  BY <1>1, ServerInvariance, PTL

\* However the calls of readAndWriteData() nest, no socket is sent a byte
\* twice, nor one that was read before it was connected.
THEOREM BytesReceivedOnce == ServerSpec => []ReceivedOnce
<1>1. ServerInv => ReceivedOnce
  <2>. SUFFICES ASSUME ServerInv, NEW s \in Sockets, NEW i \in DOMAIN received[s]
                PROVE  /\ received[s][i].n > joined[s][received[s][i].from]
                       /\ \A j \in DOMAIN received[s] :
                            received[s][j] = received[s][i] => j = i
    BY DEF ReceivedOnce
  <2>1. received[s][i] \in Byte
    BY DEF ServerInv, ServerTypeOK
  <2>2. received[s][i].from \in Sockets /\ received[s][i].n \in Nat
    BY <2>1 DEF Byte
  <2>3. joined[s][received[s][i].from] \in Nat
    BY <2>2 DEF ServerInv, ServerTypeOK
  <2>4. joined[s][received[s][i].from] < received[s][i].n
    BY DEF ServerInv, ReceivedInv
  <2>5. received[s][i].n > joined[s][received[s][i].from]
    BY <2>2, <2>3, <2>4
  <2>6. \A j \in DOMAIN received[s] : received[s][j] = received[s][i] => j = i
    BY DEF ServerInv, ReceivedInv, AllDifferent
  <2>. QED
    BY <2>5, <2>6
<1>. QED
  BY <1>1, ServerInvariance, PTL

\* Back in the event loop, the server has written every byte that it took from
\* a client to every socket that was connected when it took it and is open.
THEOREM AllRelayed == ServerSpec => []TakenIsRelayed
<1>1. ServerInv => TakenIsRelayed
  <2>. SUFFICES ASSUME ServerInv, ~Running,
                       NEW s \in Elements(connected) \ closed, NEW c \in Sockets,
                       NEW n \in joined[s][c] + 1 .. taken[c]
                PROVE  [from |-> c, n |-> n] \in Elements(received[s])
    BY DEF TakenIsRelayed
  <2> DEFINE b == [from |-> c, n |-> n]
  <2>1. PICK p \in DOMAIN connected : connected[p] = s
    BY DEF Elements
  <2>2. s \in Sockets
    BY <2>1 DEF ServerInv, ServerTypeOK
  <2>3. joined[s][c] \in Nat /\ taken[c] \in Nat
    BY <2>2 DEF ServerInv, ServerTypeOK
  <2>4. /\ n \in Nat \ {0} /\ joined[s][c] < n /\ n <= taken[c]
    BY <2>3
  <2>5. b \in Byte /\ b.from = c /\ b.n = n
    BY <2>4 DEF Byte
  <2> HIDE DEF b
  <2>6. DOMAIN calls = {}
    BY DEF Running
  <2>7. Has(received[s], b)
    BY <2>1, <2>4, <2>5, <2>6 DEF ServerInv, RelayedInv
  <2>. QED
    BY <2>7 DEF Has, Elements, b
<1>. QED
  BY <1>1, ServerInvariance, PTL
=============================================================================
