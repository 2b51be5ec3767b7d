--------------------------- MODULE GRILoaderProofs ---------------------------
(***************************************************************************)
(* GRIDataBlock::SetLink() asserts that the writer of the block exists.    *)
(* It does, whatever stands in the file, for a reason spread over three    *)
(* classes: the parser keeps a link with the object that object_hash_ has  *)
(* for its writer, the loader creates the block only after the process of  *)
(* that object, and the process joins the regulator before any SetLink().  *)
(* The second part follows blocks, outputs and buffers to the start of the *)
(* threads, where GRIRegulator begins.  The third compares the objects     *)
(* with the file: only a reader that it does not have stops the start.     *)
(* The fourth is about the graph, and what its search can report.  The     *)
(* last follows the links from the file to the data blocks.                *)
(***************************************************************************)
EXTENDS GRILoader, FiniteSetTheorems

\* The places of the loops, and what is in the making between two objects.
LoopInv ==
  /\ pc \in PCs
  /\ i \in Nat \ {0}
  /\ at \in Nat \ {0}
  /\ pc \in {"ParseObjects", "ParseLinks"} => at <= i
  /\ pc = "LoadLinks" => /\ i <= Len(objects)
                         /\ loading \in Process
                         /\ loading.name = objects[i].name

FileInv ==
  /\ file.objects \in Seq(ObjectElement)
  /\ file.links \in Seq(LinkElement)

\* The hash leads to an object of the name, and objects have the links that
\* they write.
ObjectsInv ==
  /\ objects \in Seq(Object)
  /\ objectHash \in [Names -> 0 .. Len(objects)]
  /\ \A n \in Names : objectHash[n] # 0 => objects[objectHash[n]].name = n
  /\ \A o \in 1 .. Len(objects) : \A k \in 1 .. Len(objects[o].links) :
       objects[o].links[k].writer = objects[o].name

SystemInv ==
  /\ processes \in Seq(Process)
  /\ dataBlocks \in Seq(DataBlock)

IsProcess(name) == \E p \in 1 .. Len(processes) : processes[p].name = name

\* The writer of a block is a process, or the one that is being loaded.
WritersInv ==
  \A b \in 1 .. Len(dataBlocks) :
    \/ IsProcess(dataBlocks[b].link.writer)
    \/ pc = "LoadLinks" /\ loading.name = dataBlocks[b].link.writer

IInv ==
  LoopInv /\ FileInv /\ ObjectsInv /\ SystemInv /\ WritersInv
    /\ WriterShouldExist

-----------------------------------------------------------------------------
(* Searching a list.                                                       *)

\* The search for a process finds one when there is one.
LEMMA FindNamedFinds ==
  ASSUME processes \in Seq(Process), NEW name, IsProcess(name)
  PROVE  /\ FindNamed(name) \in 1 .. Len(processes)
         /\ processes[FindNamed(name)].name = name
<1> DEFINE I == {p \in 1 .. Len(processes) : processes[p].name = name}
<1>1. I \subseteq Nat /\ I # {}
  BY DEF IsProcess
<1>2. Min(I) \in I
  <2> HIDE DEF I
  <2> QED
    BY <1>1, MinIsElement
<1>3. FindNamed(name) = Min(I)
  BY <1>1 DEF FindNamed, SelectInSeq
<1> QED
  BY <1>2, <1>3

\* The search yields a place in the list, or 0.
LEMMA FindNamedType ==
  ASSUME processes \in Seq(Process), NEW name
  PROVE  FindNamed(name) \in 0 .. Len(processes)
<1>1. CASE IsProcess(name)
  BY <1>1, FindNamedFinds
<1>2. CASE ~ IsProcess(name)
  <2>1. {p \in 1 .. Len(processes) : processes[p].name = name} = {}
    BY <1>2 DEF IsProcess
  <2>2. FindNamed(name) = 0
    BY <2>1 DEF FindNamed, SelectInSeq
  <2> QED
    BY <2>2
<1> QED
  BY <1>1, <1>2

\* So does the search for a block.
LEMMA LastBlockType ==
  ASSUME dataBlocks \in Seq(DataBlock), NEW name, NEW d
  PROVE  LastBlock(name, d) \in Nat
<1> DEFINE I == {b \in 1 .. Len(dataBlocks) :
                   /\ dataBlocks[b].link.writer = name
                   /\ dataBlocks[b].link.data = d}
<1>1. I \subseteq 0 .. Len(dataBlocks) /\ Len(dataBlocks) \in Nat
  OBVIOUS
<1>2. LastBlock(name, d) = IF I # {} THEN Max(I) ELSE 0
  BY DEF LastBlock, SelectLastInSeq
<1>3. I # {} => Max(I) \in I
  <2> HIDE DEF I
  <2> QED
    BY <1>1, MaxIsElement
<1> QED
  BY <1>1, <1>2, <1>3

\* The search for a block finds one when there is one.
LEMMA LastBlockFinds ==
  ASSUME dataBlocks \in Seq(DataBlock), NEW name, NEW d,
         NEW c \in 1 .. Len(dataBlocks),
         dataBlocks[c].link.writer = name, dataBlocks[c].link.data = d
  PROVE  /\ LastBlock(name, d) \in 1 .. Len(dataBlocks)
         /\ dataBlocks[LastBlock(name, d)].link.writer = name
         /\ dataBlocks[LastBlock(name, d)].link.data = d
<1> DEFINE I == {b \in 1 .. Len(dataBlocks) :
                   /\ dataBlocks[b].link.writer = name
                   /\ dataBlocks[b].link.data = d}
<1>1. I \subseteq 0 .. Len(dataBlocks) /\ Len(dataBlocks) \in Nat /\ I # {}
  OBVIOUS
<1>2. Max(I) \in I
  <2> HIDE DEF I
  <2> QED
    BY <1>1, MaxIsElement
<1>3. LastBlock(name, d) = Max(I)
  BY <1>1 DEF LastBlock, SelectLastInSeq
<1> QED
  BY <1>2, <1>3

-----------------------------------------------------------------------------
(* The elements of a file.                                                 *)

\* An element that lacks no attribute is an object or a link.
LEMMA WholeElements ==
  /\ \A e \in ObjectElement : Whole(e) => e.name \in Names /\ e.class \in Classes
  /\ \A e \in LinkElement : Whole(e) => e \in Link
<1>1. ASSUME NEW e \in ObjectElement, Whole(e)
      PROVE  e.name \in Names /\ e.class \in Classes
  <2>1. "name" \in DOMAIN e /\ "class" \in DOMAIN e
    BY DEF ObjectElement
  <2>2. e["name"] # None /\ e["class"] # None
    BY <1>1, <2>1 DEF Whole
  <2> QED
    BY <2>2 DEF ObjectElement
<1>2. ASSUME NEW e \in LinkElement, Whole(e)
      PROVE  e \in Link
  <2>1. "writer" \in DOMAIN e /\ "reader" \in DOMAIN e /\ "data" \in DOMAIN e
    BY DEF LinkElement
  <2>2. e["writer"] # None /\ e["reader"] # None /\ e["data"] # None
    BY <1>2, <2>1 DEF Whole
  <2> QED
    BY <2>2 DEF LinkElement, Link
<1> QED
  BY <1>1, <1>2

\* The elements of a file are a sequence.
LEMMA BoundedIsSeq ==
  ASSUME NEW S, NEW n \in Nat
  PROVE  BoundedSeq(S, n) \subseteq Seq(S)
BY DEF BoundedSeq, SeqOf

LEMMA InitEstablishes == Init => IInv
<1> SUFFICES ASSUME Init PROVE IInv
  OBVIOUS
<1>1. /\ file.objects \in BoundedSeq(ObjectElements, MaxObjects)
      /\ file.links \in BoundedSeq(LinkElements, MaxLinks)
  BY DEF Init
<1>2. /\ file.objects \in Seq(ObjectElements)
      /\ file.links \in Seq(LinkElements)
  BY <1>1, BoundedIsSeq, ElementsAssumption
<1>3. FileInv
  BY <1>2, ElementsAssumption DEF FileInv
<1>4. LoopInv /\ WriterShouldExist
  BY DEF Init, LoopInv, WriterShouldExist, PCs
<1>5. ObjectsInv /\ SystemInv /\ WritersInv
  BY DEF Init, ObjectsInv, SystemInv, WritersInv
<1> QED
  BY <1>3, <1>4, <1>5 DEF IInv
-----------------------------------------------------------------------------
(* The parser.                                                             *)

\* A step that leaves the lists of the regulator alone and is not in the
\* making of a process does not disturb them.
LEMMA SystemUnchanged ==
  ASSUME IInv, UNCHANGED <<file, systemVars>>,
         pc # "LoadLinks" \/ UNCHANGED <<pc, loading>>
  PROVE  FileInv' /\ SystemInv' /\ WritersInv'
BY DEF IInv, FileInv, SystemInv, WritersInv, IsProcess, systemVars

LEMMA ParsePreserves ==
  ASSUME IInv, Parse \/ ParseNext
  PROVE  IInv'
<1>1. pc # "LoadLinks" /\ UNCHANGED <<file, parserVars, loading, systemVars>>
  BY DEF Parse, ParseNext, Enter
<1>2. LoopInv' /\ WriterShouldExist'
  BY DEF Parse, ParseNext, Enter, LoopInv, WriterShouldExist, PCs
<1>3. ObjectsInv'
  BY <1>1 DEF IInv, ObjectsInv, parserVars
<1> QED
  BY <1>1, <1>2, <1>3, SystemUnchanged DEF IInv

LEMMA ParseObjectPreserves ==
  ASSUME IInv, ParseObject
  PROVE  IInv'
<1> DEFINE e == file.objects[at]
<1>1. at \in 1 .. Len(file.objects)
  BY DEF IInv, LoopInv, FileInv, ParseObject
<1>2. e \in ObjectElement
  BY <1>1 DEF IInv, FileInv
<1>3. LoopInv' /\ WriterShouldExist'
  BY DEF IInv, LoopInv, ParseObject, WriterShouldExist
<1>4. ObjectsInv'
  <2>1. CASE ~ Whole(e)
    BY <2>1 DEF IInv, ObjectsInv, ParseObject, parserVars
  <2>2. CASE Whole(e)
    <3> DEFINE o == [name |-> e.name, class |-> e.class, links |-> <<>>]
    <3>1. e.name \in Names /\ e.class \in Classes
      BY <1>2, <2>2, WholeElements
    <3>2. o \in Object
      BY <3>1 DEF Object
    <3>3. /\ objects' = Append(objects, o)
          /\ objectHash' = [objectHash EXCEPT ![e.name] = Len(objects) + 1]
      BY <2>2 DEF ParseObject
    <3> HIDE DEF e
    <3>4. /\ objects' \in Seq(Object)
          /\ Len(objects') = Len(objects) + 1
          /\ objects'[Len(objects) + 1] = o
          /\ \A k \in 1 .. Len(objects) : objects'[k] = objects[k]
      BY <3>2, <3>3 DEF IInv, ObjectsInv
    <3>5. objectHash' \in [Names -> 0 .. Len(objects')]
      BY <3>1, <3>3, <3>4 DEF IInv, ObjectsInv
    <3>6. ASSUME NEW n \in Names, objectHash'[n] # 0
          PROVE  objects'[objectHash'[n]].name = n
      BY <3>1, <3>3, <3>4, <3>6 DEF IInv, ObjectsInv
    <3>7. ASSUME NEW k \in 1 .. Len(objects'),
                 NEW l \in 1 .. Len(objects'[k].links)
          PROVE  objects'[k].links[l].writer = objects'[k].name
      BY <3>4 DEF IInv, ObjectsInv
    <3> QED
      BY <3>4, <3>5, <3>6, <3>7 DEF ObjectsInv
  <2> QED
    BY <2>1, <2>2
<1>5. pc # "LoadLinks" /\ UNCHANGED <<file, systemVars>>
  BY DEF ParseObject
<1> QED
  BY <1>3, <1>4, <1>5, SystemUnchanged DEF IInv

LEMMA ParseLinkPreserves ==
  ASSUME IInv, ParseLink
  PROVE  IInv'
<1> DEFINE e == file.links[at]
<1>1. at \in 1 .. Len(file.links)
  BY DEF IInv, LoopInv, FileInv, ParseLink
<1>2. e \in LinkElement
  BY <1>1 DEF IInv, FileInv
<1>3. LoopInv' /\ WriterShouldExist'
  BY DEF IInv, LoopInv, ParseLink, WriterShouldExist
<1>4. ObjectsInv'
  <2>1. CASE ~ Whole(e)
    BY <2>1 DEF IInv, ObjectsInv, ParseLink
  <2>2. CASE Whole(e)
    <3>1. e \in Link
      BY <1>2, <2>2, WholeElements
    <3>2. e.writer \in Names
      BY <3>1 DEF Link
    <3> DEFINE New(o) == IF o = objectHash[e.writer]
                         THEN [objects[o] EXCEPT !.links = Append(@, e)]
                         ELSE objects[o]
    <3>3. objects' = [o \in DOMAIN objects |-> New(o)] /\ UNCHANGED objectHash
      BY <2>2 DEF ParseLink
    <3> HIDE DEF e
    <3>4. ASSUME NEW o \in 1 .. Len(objects)
          PROVE  /\ New(o) \in Object
                 /\ New(o).name = objects[o].name
                 /\ \A k \in 1 .. Len(New(o).links) :
                      New(o).links[k].writer = objects[o].name
      <4>1. objects[o] \in Object
        BY DEF IInv, ObjectsInv
      <4>2. objects[o].links \in Seq(Link)
        BY <4>1 DEF Object
      <4>3. CASE o = objectHash[e.writer]
        <5>1. objects[o].name = e.writer
          BY <3>2, <4>3 DEF IInv, ObjectsInv
        <5>2. /\ New(o) \in Object
              /\ New(o).name = objects[o].name
              /\ New(o).links = Append(objects[o].links, e)
          <6>1. New(o) = [objects[o] EXCEPT !.links =
                            Append(objects[o].links, e)]
            BY <4>3
          <6>2. Append(objects[o].links, e) \in Seq(Link)
            BY <3>1, <4>2
          <6> HIDE DEF New
          <6> QED
            BY <4>2, <4>1, <6>1, <6>2 DEF Object
        <5>3. ASSUME NEW k \in 1 .. Len(Append(objects[o].links, e))
              PROVE  Append(objects[o].links, e)[k].writer = objects[o].name
          BY <4>2, <5>1 DEF IInv, ObjectsInv
        <5> HIDE DEF New
        <5> QED
          BY <5>2, <5>3
      <4>4. CASE o # objectHash[e.writer]
        BY <4>1, <4>4 DEF IInv, ObjectsInv
      <4> QED
        BY <4>3, <4>4
    <3> HIDE DEF New
    <3>5. /\ objects' \in Seq(Object)
          /\ Len(objects') = Len(objects)
          /\ \A o \in 1 .. Len(objects) : objects'[o] = New(o)
      BY <3>3, <3>4 DEF IInv, ObjectsInv
    <3> QED
      BY <3>3, <3>4, <3>5 DEF IInv, ObjectsInv
  <2> QED
    BY <2>1, <2>2
<1>5. pc # "LoadLinks" /\ UNCHANGED <<file, systemVars>>
  BY DEF ParseLink
<1> QED
  BY <1>3, <1>4, <1>5, SystemUnchanged DEF IInv

-----------------------------------------------------------------------------
(* The loader.                                                             *)

LEMMA LoadObjectPreserves ==
  ASSUME IInv, LoadObject
  PROVE  IInv'
<1>1. i \in 1 .. Len(objects) /\ objects[i] \in Object
  BY DEF IInv, LoopInv, ObjectsInv, LoadObject
<1>2. objects[i].name \in Names
  BY <1>1 DEF Object
<1>3. /\ NewProcess(objects[i].name) \in Process
      /\ NewProcess(objects[i].name).name = objects[i].name
  BY <1>2 DEF NewProcess, Process
<1>4. LoopInv' /\ WriterShouldExist'
  BY <1>1, <1>3
     DEF IInv, LoopInv, WriterShouldExist, LoadObject, parserVars, PCs
<1>5. ObjectsInv'
  BY DEF IInv, ObjectsInv, LoadObject, parserVars
<1>6. pc # "LoadLinks" /\ UNCHANGED <<file, systemVars>>
  BY DEF LoadObject
<1> QED
  BY <1>4, <1>5, <1>6, SystemUnchanged DEF IInv

LEMMA LoadLinkPreserves ==
  ASSUME IInv, LoadLink
  PROVE  IInv'
<1> DEFINE link == objects[i].links[at]
<1>1. i \in 1 .. Len(objects) /\ objects[i] \in Object /\ loading \in Process
  BY DEF IInv, LoopInv, ObjectsInv, LoadLink
<1>2. objects[i].links \in Seq(Link) /\ at \in 1 .. Len(objects[i].links)
  BY <1>1 DEF IInv, LoopInv, LoadLink, Object
<1>3. link \in Link
  BY <1>2
<1>4. link.writer = loading.name
  BY <1>1, <1>2 DEF IInv, LoopInv, ObjectsInv, LoadLink
<1>5. /\ NewDataBlock(link) \in DataBlock
      /\ NewDataBlock(link).link = link
  BY <1>3 DEF NewDataBlock, DataBlock
<1>6. /\ dataBlocks' = Append(dataBlocks, NewDataBlock(link))
      /\ loading' = [loading EXCEPT !.out[link.data] = 0]
      /\ at' = at + 1
      /\ UNCHANGED <<file, pc, i, parserVars, processes>>
  BY DEF LoadLink
<1>7. pc = "LoadLinks" /\ link.data \in Data
  BY <1>3 DEF LoadLink, Link
<1> HIDE DEF link
<1>8. loading' \in Process /\ loading'.name = loading.name
  BY <1>1, <1>6, <1>7 DEF Process
<1>9. LoopInv' /\ WriterShouldExist'
  BY <1>6, <1>7, <1>8
     DEF IInv, LoopInv, WriterShouldExist, parserVars
<1>10. FileInv' /\ ObjectsInv'
  BY <1>6 DEF IInv, FileInv, ObjectsInv, parserVars
<1>11. /\ dataBlocks' \in Seq(DataBlock)
       /\ Len(dataBlocks') = Len(dataBlocks) + 1
       /\ dataBlocks'[Len(dataBlocks) + 1] = NewDataBlock(link)
       /\ \A b \in 1 .. Len(dataBlocks) : dataBlocks'[b] = dataBlocks[b]
  BY <1>5, <1>6 DEF IInv, SystemInv
<1>12. SystemInv'
  BY <1>6, <1>11 DEF IInv, SystemInv
<1>13. WritersInv'
  <2> SUFFICES ASSUME NEW b \in 1 .. Len(dataBlocks')
               PROVE  \/ IsProcess(dataBlocks[b].link.writer)'
                      \/ loading'.name = dataBlocks'[b].link.writer
    BY <1>6, <1>7 DEF WritersInv
  <2>1. CASE b \in 1 .. Len(dataBlocks)
    <3>1. dataBlocks'[b] = dataBlocks[b]
      BY <1>11, <2>1
    <3> QED
      BY <1>6, <1>8, <2>1, <3>1 DEF IInv, WritersInv, IsProcess
  <2>2. CASE b = Len(dataBlocks) + 1
    BY <1>4, <1>5, <1>8, <1>11, <2>2
  <2> QED
    BY <1>11, <2>1, <2>2 DEF IInv, SystemInv
<1> QED
  BY <1>9, <1>10, <1>12, <1>13 DEF IInv

\* The process that was in the making is now one of the regulator's.
LEMMA AddProcessPreserves ==
  ASSUME IInv, AddProcess
  PROVE  IInv'
<1>1. pc = "LoadLinks" /\ loading \in Process
  BY DEF IInv, LoopInv, AddProcess
<1>2. LoopInv' /\ WriterShouldExist'
  BY DEF IInv, LoopInv, WriterShouldExist, AddProcess, PCs
<1>3. FileInv' /\ ObjectsInv'
  BY DEF IInv, FileInv, ObjectsInv, AddProcess, parserVars
<1>4. /\ processes' \in Seq(Process)
      /\ Len(processes') = Len(processes) + 1
      /\ processes'[Len(processes) + 1] = loading
      /\ \A p \in 1 .. Len(processes) : processes'[p] = processes[p]
  BY <1>1 DEF IInv, SystemInv, AddProcess
<1>5. UNCHANGED dataBlocks
  BY DEF AddProcess
<1>6. SystemInv'
  BY <1>4, <1>5 DEF IInv, SystemInv
<1>7. ASSUME NEW b \in 1 .. Len(dataBlocks)
      PROVE  IsProcess(dataBlocks[b].link.writer)'
  <2>1. Len(processes) \in Nat
    BY DEF IInv, SystemInv
  <2>2. CASE IsProcess(dataBlocks[b].link.writer)
    BY <1>4, <1>5, <2>1, <2>2 DEF IsProcess
  <2>3. CASE loading.name = dataBlocks[b].link.writer
    <3>1. Len(processes) + 1 \in 1 .. Len(processes')
      BY <1>4, <2>1
    <3> QED
      BY <1>4, <1>5, <2>3, <3>1 DEF IsProcess
  <2> QED
    BY <2>2, <2>3 DEF IInv, WritersInv
<1>8. WritersInv'
  BY <1>5, <1>7 DEF WritersInv
<1> QED
  BY <1>2, <1>3, <1>6, <1>8 DEF IInv

LEMMA DetectCyclesPreserves ==
  ASSUME IInv, DetectCycles
  PROVE  IInv'
<1>1. /\ pc = "LoadObjects"
      /\ pc' \in {"Loaded", "Crashed"}
      /\ i' = 1
      /\ at' = 1
      /\ UNCHANGED <<file, parserVars, loading, systemVars>>
  BY DEF DetectCycles, Enter
<1>2. LoopInv' /\ WriterShouldExist'
  BY <1>1 DEF LoopInv, WriterShouldExist, PCs
<1>3. ObjectsInv'
  BY <1>1 DEF IInv, ObjectsInv, parserVars
<1> QED
  BY <1>1, <1>2, <1>3, SystemUnchanged DEF IInv

-----------------------------------------------------------------------------
(* The start.                                                              *)

LEMMA StartPreserves ==
  ASSUME IInv, Start
  PROVE  IInv'
<1> DEFINE Out(p) == [d \in Data |-> IF processes[p].out[d] = None THEN None
                                     ELSE LastBlock(processes[p].name, d)]
           New(p) == [processes[p] EXCEPT !.out = Out(p)]
<1>1. /\ pc \in {"Loaded", "Started"}
      /\ pc' = "SetLinks"
      /\ i' = 1
      /\ at' = 1
      /\ processes' = [p \in DOMAIN processes |-> New(p)]
      /\ UNCHANGED <<file, parserVars, dataBlocks>>
  BY DEF Start, Enter
<1>2. LoopInv' /\ WriterShouldExist'
  BY <1>1 DEF LoopInv, WriterShouldExist, PCs
<1>3. FileInv' /\ ObjectsInv'
  BY <1>1 DEF IInv, FileInv, ObjectsInv, parserVars
<1>4. ASSUME NEW p \in 1 .. Len(processes)
      PROVE  New(p) \in Process /\ New(p).name = processes[p].name
  <2>1. processes[p] \in Process
    BY DEF IInv, SystemInv
  <2>2. \A d \in Data : LastBlock(processes[p].name, d) \in Nat
    BY LastBlockType DEF IInv, SystemInv
  <2>3. Out(p) \in [Data -> Nat \union {None}]
    BY <2>2
  <2> HIDE DEF Out
  <2> QED
    BY <2>1, <2>3 DEF Process
<1> HIDE DEF New
<1>5. /\ processes' \in Seq(Process)
      /\ Len(processes') = Len(processes)
      /\ \A p \in 1 .. Len(processes) : processes'[p].name = processes[p].name
  <2>1. Len(processes) \in Nat /\ DOMAIN processes = 1 .. Len(processes)
    BY DEF IInv, SystemInv
  <2>2. processes' = [p \in 1 .. Len(processes) |-> New(p)]
    BY <1>1, <2>1
  <2>3. processes' \in Seq(Process) /\ Len(processes') = Len(processes)
    BY <1>4, <2>1, <2>2
  <2>4. \A p \in 1 .. Len(processes) : processes'[p] = New(p)
    BY <2>2
  <2> QED
    BY <1>4, <2>3, <2>4
<1>6. SystemInv'
  BY <1>1, <1>5 DEF IInv, SystemInv
<1>7. WritersInv'
  <2>1. \A b \in 1 .. Len(dataBlocks) : IsProcess(dataBlocks[b].link.writer)
    BY <1>1 DEF IInv, WritersInv
  <2>2. \A name : IsProcess(name) => IsProcess(name)'
    BY <1>5 DEF IsProcess
  <2> QED
    BY <1>1, <2>1, <2>2 DEF WritersInv
<1> QED
  BY <1>2, <1>3, <1>6, <1>7 DEF IInv

\* No process is in the making any more: the writer is found.
LEMMA SetLinkPreserves ==
  ASSUME IInv, SetLink
  PROVE  IInv'
<1> DEFINE link   == dataBlocks[i].link
           writer == FindNamed(link.writer)
           reader == FindNamed(link.reader)
           new    == [dataBlocks EXCEPT ![i].writerThread = writer,
                                        ![i].readerThread = reader]
<1>1. pc = "SetLinks" /\ i \in 1 .. Len(dataBlocks)
  BY DEF IInv, LoopInv, SystemInv, SetLink
<1>2. IsProcess(link.writer) /\ processes \in Seq(Process)
  BY <1>1 DEF IInv, WritersInv, SystemInv
<1>3. writer \in Nat /\ writer # 0 /\ reader \in Nat
  BY <1>2, FindNamedFinds, FindNamedType
<1>4. /\ dataBlocks' = new
      /\ pc' \in {"SetLinks", "NoReader"}
      /\ i' \in {i, i + 1}
      /\ UNCHANGED <<file, at, parserVars, loading, processes>>
  BY <1>1, <1>3 DEF SetLink
<1>5. LoopInv' /\ WriterShouldExist'
  BY <1>4 DEF IInv, LoopInv, WriterShouldExist, PCs
<1>6. FileInv' /\ ObjectsInv'
  BY <1>4 DEF IInv, FileInv, ObjectsInv, parserVars
<1> HIDE DEF writer, reader
<1>7. /\ new \in Seq(DataBlock)
      /\ Len(new) = Len(dataBlocks)
      /\ \A b \in 1 .. Len(dataBlocks) : new[b].link = dataBlocks[b].link
  <2> DEFINE block == [dataBlocks[i] EXCEPT !.writerThread = writer,
                                            !.readerThread = reader]
  <2>1. dataBlocks \in Seq(DataBlock) /\ dataBlocks[i] \in DataBlock
    BY <1>1 DEF IInv, SystemInv
  <2>2. block \in DataBlock /\ block.link = dataBlocks[i].link
    BY <1>3, <2>1 DEF DataBlock
  <2>3. new = [dataBlocks EXCEPT ![i] = block]
    BY <1>1, <2>1
  <2> HIDE DEF block, new
  <2> QED
    BY <1>1, <2>1, <2>2, <2>3
<1> HIDE DEF new
<1>8. SystemInv'
  BY <1>4, <1>7 DEF IInv, SystemInv
<1>9. WritersInv'
  BY <1>1, <1>4, <1>7 DEF IInv, WritersInv, IsProcess
<1> QED
  BY <1>5, <1>6, <1>8, <1>9 DEF IInv

LEMMA StartThreadsPreserves ==
  ASSUME IInv, StartThreads
  PROVE  IInv'
<1>1. pc # "LoadLinks" /\ UNCHANGED <<file, parserVars, systemVars>>
  BY DEF StartThreads, Enter
<1>2. LoopInv' /\ WriterShouldExist'
  BY DEF StartThreads, Enter, LoopInv, WriterShouldExist, PCs
<1>3. ObjectsInv'
  BY <1>1 DEF IInv, ObjectsInv, parserVars
<1> QED
  BY <1>1, <1>2, <1>3, SystemUnchanged DEF IInv

-----------------------------------------------------------------------------
(* The results.                                                            *)

\* The strengthened invariant of loading holds in every state.
THEOREM Invariance == Spec => []IInv
<1>1. Init => IInv
  BY InitEstablishes
<1>2. IInv /\ [Next]_vars => IInv'
  <2> SUFFICES ASSUME IInv, [Next]_vars
               PROVE  IInv'
    OBVIOUS
  <2>1. CASE UNCHANGED vars
    BY <2>1 DEF vars, parserVars, systemVars, IInv, LoopInv, FileInv,
                ObjectsInv, SystemInv, WritersInv, IsProcess,
                WriterShouldExist
  <2>2. CASE Next
    BY <2>2, ParsePreserves, ParseObjectPreserves, ParseLinkPreserves,
       LoadObjectPreserves, LoadLinkPreserves, AddProcessPreserves,
       DetectCyclesPreserves, StartPreserves, SetLinkPreserves,
       StartThreadsPreserves
       DEF Next
  <2> QED
    BY <2>1, <2>2
<1> QED
  BY <1>1, <1>2, PTL DEF Spec

\* The assertion of SetLink() about the writer holds for every file, with any
\* number of objects and links, repeated names, classes that are not loaded
\* and elements that lack attributes (GRIDataBlock.cpp:74-93).
THEOREM WriterExists == Spec => []WriterShouldExist
<1>1. IInv => WriterShouldExist
  BY DEF IInv
<1> QED
  BY <1>1, Invariance, PTL

-----------------------------------------------------------------------------
(* What is linked when the threads start.                                  *)

PairOf(b) == <<dataBlocks[b].link.writer, dataBlocks[b].link.data>>

HasBlock(name, d) ==
  \E b \in 1 .. Len(dataBlocks) : PairOf(b) = <<name, d>>

\* A data block that SetLink() has been called for.
IsLinked(b) ==
  /\ dataBlocks[b].writerThread \in 1 .. Len(processes)
  /\ processes[dataBlocks[b].writerThread].name = dataBlocks[b].link.writer
  /\ dataBlocks[b].readerThread \in 1 .. Len(processes)
  /\ processes[dataBlocks[b].readerThread].name = dataBlocks[b].link.reader
  /\ PairOf(b) \in ToSet(buffers)

LinkedInv ==
  \A b \in 1 .. Len(dataBlocks) :
    pc = "Started" \/ (pc = "SetLinks" /\ b < i) => IsLinked(b)

BuffersInv ==
  /\ buffers \in Seq(Names \X Data)
  /\ \A n \in Names, d \in Data : <<n, d>> \in ToSet(buffers) => HasBlock(n, d)
  /\ IsInjective(buffers)

\* What AddDataBlock() announced has a block, and Start() has found it.
OutInv ==
  /\ \A p \in 1 .. Len(processes), d \in Data :
       processes[p].out[d] # None =>
         /\ HasBlock(processes[p].name, d)
         /\ pc \in {"SetLinks", "Started"} =>
              /\ processes[p].out[d] \in 1 .. Len(dataBlocks)
              /\ PairOf(processes[p].out[d]) = <<processes[p].name, d>>
  /\ pc = "LoadLinks" =>
       \A d \in Data : loading.out[d] # None => HasBlock(loading.name, d)

StartInv == LinkedInv /\ BuffersInv /\ OutInv

\* A step before the start that leaves the lists of the regulator alone.
LEMMA NothingStarted ==
  ASSUME StartInv, UNCHANGED systemVars,
         pc' \notin {"LoadLinks", "SetLinks", "Started"}
  PROVE  StartInv'
BY DEF StartInv, LinkedInv, BuffersInv, OutInv, HasBlock, PairOf, systemVars

\* A process in the making has no outputs yet.
LEMMA LoadObjectStart ==
  ASSUME IInv, StartInv, LoadObject
  PROVE  StartInv'
<1>1. pc = "LoadObjects" /\ UNCHANGED systemVars
  BY DEF LoadObject
<1>2. CASE pc' = "LoadObjects"
  BY <1>1, <1>2, NothingStarted
<1>3. CASE pc' = "LoadLinks"
  <2>1. loading' = NewProcess(objects[i].name)
    BY <1>1, <1>3 DEF LoadObject
  <2>2. \A d \in Data : loading'.out[d] = None
    BY <2>1 DEF NewProcess
  <2> QED
    BY <1>1, <1>3, <2>2
       DEF StartInv, LinkedInv, BuffersInv, OutInv, HasBlock, PairOf,
           systemVars
<1> QED
  BY <1>1, <1>2, <1>3 DEF LoadObject

\* AddDataBlock() announces an output when its block is in the list.
LEMMA LoadLinkStart ==
  ASSUME IInv, StartInv, LoadLink
  PROVE  StartInv'
<1> DEFINE link == objects[i].links[at]
<1>1. i \in 1 .. Len(objects) /\ objects[i] \in Object /\ loading \in Process
  BY DEF IInv, LoopInv, ObjectsInv, LoadLink
<1>2. objects[i].links \in Seq(Link) /\ at \in 1 .. Len(objects[i].links)
  BY <1>1 DEF IInv, LoopInv, LoadLink, Object
<1>3. link \in Link
  BY <1>2
<1>4. link.writer = loading.name
  BY <1>1, <1>2 DEF IInv, LoopInv, ObjectsInv, LoadLink
<1>5. /\ NewDataBlock(link) \in DataBlock
      /\ NewDataBlock(link).link = link
  BY <1>3 DEF NewDataBlock, DataBlock
<1>6. /\ dataBlocks' = Append(dataBlocks, NewDataBlock(link))
      /\ loading' = [loading EXCEPT !.out[link.data] = 0]
      /\ pc = "LoadLinks" /\ pc' = "LoadLinks"
      /\ UNCHANGED <<processes, buffers>>
  BY DEF LoadLink
<1>7. link.data \in Data
  BY <1>3 DEF Link
<1> HIDE DEF link
<1>8. /\ Len(dataBlocks') = Len(dataBlocks) + 1
      /\ Len(dataBlocks) \in Nat
      /\ dataBlocks'[Len(dataBlocks) + 1] = NewDataBlock(link)
      /\ \A b \in 1 .. Len(dataBlocks) : dataBlocks'[b] = dataBlocks[b]
  BY <1>5, <1>6 DEF IInv, SystemInv
<1>9. \A n, d : HasBlock(n, d) => HasBlock(n, d)'
  BY <1>8 DEF HasBlock, PairOf
<1>10. ASSUME NEW n, NEW d, n = loading.name, d = link.data
       PROVE  HasBlock(n, d)'
  <2>1. Len(dataBlocks) + 1 \in 1 .. Len(dataBlocks')
    BY <1>8
  <2>2. dataBlocks'[Len(dataBlocks) + 1].link = link
    BY <1>5, <1>8
  <2> QED
    BY <1>4, <1>10, <2>1, <2>2 DEF HasBlock, PairOf
<1>11. /\ loading'.name = loading.name
       /\ \A d \in Data : loading'.out[d] = IF d = link.data THEN 0
                                            ELSE loading.out[d]
  BY <1>1, <1>6, <1>7 DEF Process
<1>12. LinkedInv'
  BY <1>6 DEF LinkedInv
<1>13. BuffersInv'
  BY <1>6, <1>9 DEF StartInv, BuffersInv
<1>14. OutInv'
  <2>1. ASSUME NEW p \in 1 .. Len(processes), NEW d \in Data,
               processes[p].out[d] # None
        PROVE  HasBlock(processes[p].name, d)'
    BY <1>6, <1>9, <2>1 DEF StartInv, OutInv
  <2>2. ASSUME NEW d \in Data, loading'.out[d] # None
        PROVE  HasBlock(loading.name, d)'
    BY <1>6, <1>9, <1>10, <1>11, <2>2 DEF StartInv, OutInv
  <2> QED
    BY <1>6, <1>11, <2>1, <2>2 DEF OutInv
<1> QED
  BY <1>12, <1>13, <1>14 DEF StartInv

\* The process takes its outputs with it.
LEMMA AddProcessStart ==
  ASSUME IInv, StartInv, AddProcess
  PROVE  StartInv'
<1>1. /\ pc = "LoadLinks" /\ pc' = "LoadObjects"
      /\ loading \in Process
      /\ UNCHANGED <<dataBlocks, buffers>>
  BY DEF IInv, LoopInv, AddProcess
<1>2. /\ Len(processes) \in Nat
      /\ Len(processes') = Len(processes) + 1
      /\ processes'[Len(processes) + 1] = loading
      /\ \A p \in 1 .. Len(processes) : processes'[p] = processes[p]
  BY <1>1 DEF IInv, SystemInv, AddProcess
<1>3. \A n, d : HasBlock(n, d) => HasBlock(n, d)'
  BY <1>1 DEF HasBlock, PairOf
<1>4. LinkedInv'
  BY <1>1 DEF LinkedInv
<1>5. BuffersInv'
  BY <1>1, <1>3 DEF StartInv, BuffersInv
<1>6. ASSUME NEW p \in 1 .. Len(processes'), NEW d \in Data,
             processes'[p].out[d] # None
      PROVE  HasBlock(processes[p].name, d)'
  <2>1. CASE p \in 1 .. Len(processes)
    BY <1>2, <1>3, <1>6, <2>1 DEF StartInv, OutInv
  <2>2. CASE p = Len(processes) + 1
    BY <1>1, <1>2, <1>3, <1>6, <2>2 DEF StartInv, OutInv
  <2> QED
    BY <1>2, <2>1, <2>2
<1>7. OutInv'
  BY <1>1, <1>6 DEF OutInv
<1> QED
  BY <1>4, <1>5, <1>7 DEF StartInv

\* Start() finds a block for each name that AddDataBlock() announced.
LEMMA StartStart ==
  ASSUME IInv, StartInv, Start
  PROVE  StartInv'
<1> DEFINE Out(p) == [d \in Data |-> IF processes[p].out[d] = None THEN None
                                     ELSE LastBlock(processes[p].name, d)]
           New(p) == [processes[p] EXCEPT !.out = Out(p)]
<1>1. /\ pc' = "SetLinks"
      /\ i' = 1
      /\ processes' = [p \in DOMAIN processes |-> New(p)]
      /\ UNCHANGED <<dataBlocks, buffers>>
  BY DEF Start, Enter
<1>2. Len(processes) \in Nat /\ DOMAIN processes = 1 .. Len(processes)
  BY DEF IInv, SystemInv
<1>3. Len(processes') = Len(processes)
  BY <1>1, <1>2
<1>4. ASSUME NEW p \in 1 .. Len(processes)
      PROVE  New(p).name = processes[p].name /\ New(p).out = Out(p)
  <2>1. processes[p] \in Process
    BY DEF IInv, SystemInv
  <2> HIDE DEF Out
  <2> QED
    BY <2>1 DEF Process
<1>5. \A n, d : HasBlock(n, d) => HasBlock(n, d)'
  BY <1>1 DEF HasBlock, PairOf
<1>6. LinkedInv'
  <2> SUFFICES ASSUME NEW b \in 1 .. Len(dataBlocks') PROVE ~ (b < 1)
    BY <1>1 DEF LinkedInv
  <2> QED
    OBVIOUS
<1>7. BuffersInv'
  BY <1>1, <1>5 DEF StartInv, BuffersInv
<1>8. ASSUME NEW p \in 1 .. Len(processes), NEW d \in Data,
             New(p).out[d] # None
      PROVE  /\ HasBlock(processes[p].name, d)
             /\ New(p).out[d] \in 1 .. Len(dataBlocks)
             /\ PairOf(New(p).out[d]) = <<processes[p].name, d>>
  <2>1. /\ processes[p].out[d] # None
        /\ New(p).out[d] = LastBlock(processes[p].name, d)
    BY <1>4, <1>8
  <2>2. HasBlock(processes[p].name, d)
    BY <2>1 DEF StartInv, OutInv
  <2>3. PICK c \in 1 .. Len(dataBlocks) :
          /\ dataBlocks[c].link.writer = processes[p].name
          /\ dataBlocks[c].link.data = d
    BY <2>2 DEF HasBlock, PairOf
  <2>4. dataBlocks \in Seq(DataBlock)
    BY DEF IInv, SystemInv
  <2> HIDE DEF New
  <2> QED
    BY <2>1, <2>2, <2>3, <2>4, LastBlockFinds DEF PairOf
<1>9. OutInv'
  <2> SUFFICES ASSUME NEW p \in 1 .. Len(processes'), NEW d \in Data,
                      processes'[p].out[d] # None
               PROVE  (/\ HasBlock(processes[p].name, d)
                       /\ processes[p].out[d] \in 1 .. Len(dataBlocks)
                       /\ PairOf(processes[p].out[d])
                            = <<processes[p].name, d>>)'
    BY <1>1 DEF OutInv
  <2>1. p \in 1 .. Len(processes) /\ processes'[p] = New(p)
    BY <1>1, <1>2, <1>3
  <2>2. processes'[p].name = processes[p].name
    BY <1>4, <2>1
  <2> HIDE DEF New
  <2> QED
    BY <1>1, <1>5, <1>8, <2>1, <2>2 DEF PairOf
<1> QED
  BY <1>6, <1>7, <1>9 DEF StartInv

\* The loop over the blocks has reached every one of them.
LEMMA StartThreadsStart ==
  ASSUME IInv, StartInv, StartThreads
  PROVE  StartInv'
<1>1. /\ pc = "SetLinks" /\ pc' = "Started"
      /\ i > Len(dataBlocks)
      /\ UNCHANGED systemVars
  BY DEF StartThreads, Enter
<1>2. LinkedInv'
  <2>1. Len(dataBlocks) \in Nat /\ i \in Nat
    BY DEF IInv, SystemInv, LoopInv
  <2>2. \A b \in 1 .. Len(dataBlocks) : IsLinked(b)
    BY <1>1, <2>1 DEF StartInv, LinkedInv
  <2> QED
    BY <1>1, <2>2 DEF LinkedInv, IsLinked, PairOf, systemVars
<1>3. BuffersInv'
  BY <1>1 DEF StartInv, BuffersInv, HasBlock, PairOf, systemVars
<1>4. OutInv'
  BY <1>1 DEF StartInv, OutInv, HasBlock, PairOf, systemVars
<1> QED
  BY <1>2, <1>3, <1>4 DEF StartInv

\* A buffer is created unless there is one of that name.
LEMMA BufferCreated ==
  ASSUME BuffersInv, NEW w \in Names, NEW d \in Data, BufferCreate(w, d)
  PROVE  /\ buffers' \in Seq(Names \X Data)
         /\ ToSet(buffers') = ToSet(buffers) \union {<<w, d>>}
         /\ IsInjective(buffers')
<1>1. buffers \in Seq(Names \X Data) /\ IsInjective(buffers)
  BY DEF BuffersInv
<1>2. CASE <<w, d>> \in ToSet(buffers)
  BY <1>1, <1>2 DEF BufferCreate
<1>3. CASE <<w, d>> \notin ToSet(buffers)
  <2> DEFINE pair == <<w, d>>
  <2>1. buffers' = Append(buffers, pair)
    BY <1>3 DEF BufferCreate
  <2>2. pair \in Names \X Data
    OBVIOUS
  <2>3. \A k \in 1 .. Len(buffers) : buffers[k] # pair
    BY <1>1, <1>3 DEF ToSet
  <2> HIDE DEF pair
  <2>4. /\ buffers' \in Seq(Names \X Data)
        /\ Len(buffers') = Len(buffers) + 1
        /\ Len(buffers) \in Nat
        /\ buffers'[Len(buffers) + 1] = pair
        /\ \A k \in 1 .. Len(buffers) : buffers'[k] = buffers[k]
    BY <1>1, <2>1, <2>2
  <2>5. DOMAIN buffers = 1 .. Len(buffers) /\ DOMAIN buffers' = 1 .. Len(buffers')
    BY <1>1, <2>4
  <2>6. ToSet(buffers') = ToSet(buffers) \union {pair}
    BY <2>4, <2>5 DEF ToSet
  <2>7. IsInjective(buffers')
    BY <1>1, <2>3, <2>4, <2>5 DEF IsInjective
  <2> QED
    BY <2>4, <2>6, <2>7 DEF pair
<1> QED
  BY <1>2, <1>3

\* One more block is linked, and it has its buffer.
LEMMA SetLinkStart ==
  ASSUME IInv, StartInv, SetLink
  PROVE  StartInv'
<1> DEFINE link   == dataBlocks[i].link
           writer == FindNamed(link.writer)
           reader == FindNamed(link.reader)
           block  == [dataBlocks[i] EXCEPT !.writerThread = writer,
                                           !.readerThread = reader]
<1>1. /\ pc = "SetLinks"
      /\ i \in 1 .. Len(dataBlocks)
      /\ dataBlocks \in Seq(DataBlock)
      /\ processes \in Seq(Process)
  BY DEF IInv, LoopInv, SystemInv, SetLink
<1>2. link \in Link /\ link.writer \in Names /\ link.data \in Data
  <2>1. dataBlocks[i] \in DataBlock
    BY <1>1
  <2>2. link \in Link
    BY <2>1 DEF DataBlock
  <2> QED
    BY <2>2 DEF Link
<1>3. IsProcess(link.writer)
  BY <1>1 DEF IInv, WritersInv
<1>4. /\ writer \in 1 .. Len(processes)
      /\ processes[writer].name = link.writer
  BY <1>1, <1>3, FindNamedFinds
<1>5. /\ reader \in 0 .. Len(processes)
      /\ reader # 0 => processes[reader].name = link.reader
  <2>1. CASE IsProcess(link.reader)
    BY <1>1, <2>1, FindNamedFinds
  <2>2. CASE ~ IsProcess(link.reader)
    <3>1. {p \in 1 .. Len(processes) : processes[p].name = link.reader} = {}
      BY <2>2 DEF IsProcess
    <3>2. reader = 0
      BY <3>1 DEF FindNamed, SelectInSeq
    <3> QED
      BY <1>1, <3>2
  <2> QED
    BY <2>1, <2>2
<1>6. /\ BufferCreate(link.writer, link.data)
      /\ dataBlocks' = [dataBlocks EXCEPT ![i].writerThread = writer,
                                          ![i].readerThread = reader]
      /\ \/ pc' = "NoReader"
         \/ pc' = "SetLinks" /\ i' = i + 1 /\ reader # 0
      /\ UNCHANGED processes
  <2>1. pc = "SetLinks" /\ writer # 0
    BY <1>1, <1>4
  <2> QED
    BY <2>1 DEF SetLink
<1> HIDE DEF writer, reader
<1>7. /\ block.link = dataBlocks[i].link
      /\ block.writerThread = writer
      /\ block.readerThread = reader
  <2>1. dataBlocks[i] \in DataBlock
    BY <1>1
  <2> QED
    BY <2>1 DEF DataBlock
<1>8. dataBlocks' = [dataBlocks EXCEPT ![i] = block]
  BY <1>1, <1>6
<1> HIDE DEF block
<1>9. /\ Len(dataBlocks) \in Nat
      /\ Len(dataBlocks') = Len(dataBlocks)
      /\ dataBlocks'[i] = block
      /\ \A b \in 1 .. Len(dataBlocks) : b # i => dataBlocks'[b] = dataBlocks[b]
  BY <1>1, <1>8
<1>10. \A b \in 1 .. Len(dataBlocks) : dataBlocks'[b].link = dataBlocks[b].link
  BY <1>7, <1>9
<1> HIDE DEF link
<1>11. \A b \in 1 .. Len(dataBlocks) : PairOf(b)' = PairOf(b)
  BY <1>10 DEF PairOf
<1>12. \A n, d : HasBlock(n, d)' <=> HasBlock(n, d)
  BY <1>9, <1>11 DEF HasBlock
<1>13. PairOf(i) = <<link.writer, link.data>>
  BY DEF PairOf, link
<1>14. /\ buffers' \in Seq(Names \X Data)
       /\ ToSet(buffers') = ToSet(buffers) \union {PairOf(i)}
       /\ IsInjective(buffers')
  BY <1>2, <1>6, <1>13, BufferCreated DEF StartInv
<1>15. BuffersInv'
  <2> SUFFICES ASSUME NEW n \in Names, NEW d \in Data,
                      <<n, d>> \in ToSet(buffers')
               PROVE  HasBlock(n, d)'
    BY <1>14 DEF BuffersInv
  <2>1. CASE <<n, d>> \in ToSet(buffers)
    BY <1>12, <2>1 DEF StartInv, BuffersInv
  <2>2. CASE <<n, d>> = PairOf(i)
    BY <1>1, <1>12, <2>2 DEF HasBlock
  <2> QED
    BY <1>14, <2>1, <2>2
<1>16. LinkedInv'
  <2> SUFFICES ASSUME NEW b \in 1 .. Len(dataBlocks'),
                      pc' = "SetLinks", b < i'
               PROVE  IsLinked(b)'
    BY <1>6 DEF LinkedInv
  <2>1. b \in 1 .. Len(dataBlocks) /\ b < i + 1 /\ reader # 0
    BY <1>6, <1>9
  <2>2. CASE b = i
    <3>1. PairOf(b)' \in ToSet(buffers')
      BY <1>11, <1>14, <2>1, <2>2
    <3>2. dataBlocks'[b].link = link
      BY <1>10, <2>1, <2>2 DEF link
    <3>3. /\ dataBlocks'[b].writerThread = writer
          /\ dataBlocks'[b].readerThread = reader
      BY <1>7, <1>9, <2>2
    <3> QED
      BY <1>4, <1>5, <1>6, <2>1, <3>1, <3>2, <3>3 DEF IsLinked
  <2>3. CASE b # i
    <3>1. b < i
      BY <1>1, <2>1, <2>3
    <3>2. IsLinked(b)
      BY <1>1, <2>1, <3>1 DEF StartInv, LinkedInv
    <3>3. dataBlocks'[b] = dataBlocks[b] /\ PairOf(b)' = PairOf(b)
      BY <1>9, <1>11, <2>1, <2>3
    <3> QED
      BY <1>6, <1>14, <3>2, <3>3 DEF IsLinked
  <2> QED
    BY <2>2, <2>3
<1>17. OutInv'
  <2> SUFFICES ASSUME NEW p \in 1 .. Len(processes), NEW d \in Data,
                      processes[p].out[d] # None
               PROVE  (/\ HasBlock(processes[p].name, d)
                       /\ processes[p].out[d] \in 1 .. Len(dataBlocks)
                       /\ PairOf(processes[p].out[d])
                            = <<processes[p].name, d>>)'
    BY <1>6 DEF OutInv
  <2>1. /\ HasBlock(processes[p].name, d)
        /\ processes[p].out[d] \in 1 .. Len(dataBlocks)
        /\ PairOf(processes[p].out[d]) = <<processes[p].name, d>>
    BY <1>1 DEF StartInv, OutInv
  <2> QED
    BY <1>6, <1>9, <1>11, <1>12, <2>1
<1> QED
  BY <1>15, <1>16, <1>17 DEF StartInv

\* What holds of the lists when the threads start, and the way there.
THEOREM StartInvariance == Spec => []StartInv
<1>1. Init => StartInv
  <2> SUFFICES ASSUME Init PROVE StartInv
    OBVIOUS
  <2>1. pc = "Parse" /\ dataBlocks = <<>> /\ processes = <<>> /\ buffers = <<>>
    BY DEF Init
  <2> QED
    BY <2>1 DEF StartInv, LinkedInv, BuffersInv, OutInv, IsInjective, ToSet
<1>2. IInv /\ StartInv /\ [Next]_vars => StartInv'
  <2> SUFFICES ASSUME IInv, StartInv, [Next]_vars
               PROVE  StartInv'
    OBVIOUS
  <2>1. CASE UNCHANGED vars
    BY <2>1, SMTT(30) DEF vars, systemVars, StartInv, LinkedInv, BuffersInv,
                          OutInv, HasBlock, PairOf, IsLinked
  <2>2. CASE Parse \/ ParseObject \/ ParseLink \/ ParseNext \/ DetectCycles
    <3>1. /\ UNCHANGED systemVars
          /\ pc' \notin {"LoadLinks", "SetLinks", "Started"}
      BY <2>2 DEF Parse, ParseObject, ParseLink, ParseNext, DetectCycles, Enter
    <3> QED
      BY <3>1, NothingStarted
  <2>3. CASE Next
    BY <2>2, <2>3, LoadObjectStart, LoadLinkStart, AddProcessStart,
       StartStart, SetLinkStart, StartThreadsStart
       DEF Next
  <2> QED
    BY <2>1, <2>3
<1> QED
  BY <1>1, <1>2, Invariance, PTL DEF Spec

\* When the threads start, every data block has found its writer, its reader
\* and its one buffer, and every output of a process has its block, in every
\* application that gets that far (GRIRegulator.cpp:40-66).
THEOREM StartedLinked == Spec => []StartedIsLinked
<1>1. IInv /\ StartInv => StartedIsLinked
  <2> SUFFICES ASSUME IInv, StartInv, pc = "Started"
               PROVE  StartedIsLinked
    BY DEF StartedIsLinked
  <2>1. dataBlocks \in Seq(DataBlock) /\ processes \in Seq(Process)
    BY DEF IInv, SystemInv
  <2>2. /\ ToSet(dataBlocks) = {dataBlocks[b] : b \in 1 .. Len(dataBlocks)}
        /\ ToSet(processes) = {processes[p] : p \in 1 .. Len(processes)}
    BY <2>1 DEF ToSet
  <2>3. \A b \in 1 .. Len(dataBlocks) : IsLinked(b)
    BY DEF StartInv, LinkedInv
  <2>4. ASSUME NEW b \in ToSet(dataBlocks)
        PROVE  /\ b.writerThread # 0
               /\ processes[b.writerThread].name = b.link.writer
               /\ b.readerThread # 0
               /\ processes[b.readerThread].name = b.link.reader
    BY <2>2, <2>3 DEF IsLinked
  <2>5. ToSet(buffers) =
          {<<b.link.writer, b.link.data>> : b \in ToSet(dataBlocks)}
    <3>1. \A pair \in ToSet(buffers) :
            \E b \in 1 .. Len(dataBlocks) : PairOf(b) = pair
      <4>1. ToSet(buffers) \subseteq Names \X Data
        BY DEF StartInv, BuffersInv, ToSet
      <4> QED
        BY <4>1 DEF StartInv, BuffersInv, HasBlock
    <3>2. \A b \in 1 .. Len(dataBlocks) : PairOf(b) \in ToSet(buffers)
      BY <2>3 DEF IsLinked
    <3> QED
      BY <2>2, <3>1, <3>2 DEF PairOf
  <2>6. IsInjective(buffers)
    BY DEF StartInv, BuffersInv
  <2>7. ASSUME NEW p \in ToSet(processes), NEW d \in Data, p.out[d] # None
        PROVE  /\ p.out[d] # 0
               /\ dataBlocks[p.out[d]].link.writer = p.name
               /\ dataBlocks[p.out[d]].link.data = d
    <3>1. PICK k \in 1 .. Len(processes) : p = processes[k]
      BY <2>2
    <3>2. /\ p.out[d] \in 1 .. Len(dataBlocks)
          /\ PairOf(p.out[d]) = <<p.name, d>>
      BY <2>7, <3>1 DEF StartInv, OutInv
    <3> QED
      BY <3>2 DEF PairOf
  <2> QED
    BY <2>4, <2>5, <2>6, <2>7 DEF StartedIsLinked
<1> QED
  BY <1>1, Invariance, StartInvariance, PTL

-----------------------------------------------------------------------------
(* The assertion about the reader.                                         *)

\* An object was read from the element at the same place of the file.
IsElement(k) ==
  /\ k <= Len(file.objects)
  /\ Whole(file.objects[k])
  /\ objects[k].name = file.objects[k].name
  /\ objects[k].class = file.objects[k].class

\* Reading cannot go on after n elements.
StopsAfter(n) == n = Len(file.objects) \/ ~ Whole(file.objects[n + 1])

ReadInv ==
  /\ Len(objects) <= Len(file.objects)
  /\ \A k \in 1 .. Len(objects) : IsElement(k)
  /\ pc = "Parse" => Len(objects) = 0
  /\ pc = "ParseObjects" => /\ at = Len(objects) + 1
                            /\ at < i => /\ at <= Len(file.objects)
                                         /\ ~ Whole(file.objects[at])
  /\ pc \notin {"Parse", "ParseObjects", "Exited"} => StopsAfter(Len(objects))

\* The objects that the loader is done with.
Done(k) ==
  /\ pc \notin {"Parse", "ParseObjects", "ParseLinks", "Exited"}
  /\ pc \in {"LoadObjects", "LoadLinks"} => k < i

LoadedInv ==
  \A k \in 1 .. Len(objects) :
    Done(k) /\ objects[k].class \in Loadable => IsProcess(objects[k].name)

\* The block at which SetLink() gave up.
AbortInv ==
  pc = "NoReader" => \E b \in 1 .. Len(dataBlocks) :
                       ~ IsProcess(dataBlocks[b].link.reader)

ReaderInv == ReadInv /\ LoadedInv /\ AbortInv

-----------------------------------------------------------------------------
(* The graph.                                                              *)

NodesOf(index) == {n \in Names : index[n] # None}

\* The nodes of an index are numbered from 0, without a gap and without a
\* number given twice.
Numbered(index) ==
  /\ index \in [Names -> Nat \union {None}]
  /\ IsFiniteSet(NodesOf(index))
  /\ {index[n] : n \in NodesOf(index)}
       = 0 .. (Cardinality(NodesOf(index)) - 1)
  /\ \A m, n \in NodesOf(index) : index[m] = index[n] => m = n

\* Each block has an edge, from its reader to its writer.
EdgesInv ==
  /\ Len(edges) = Len(dataBlocks)
  /\ edges \in Seq(Nat \X Nat)
  /\ \A b \in 1 .. Len(edges) :
       /\ {dataBlocks[b].link.reader, dataBlocks[b].link.writer}
            \subseteq NodesOf(nodeIndex)
       /\ edges[b] = <<nodeIndex[dataBlocks[b].link.reader],
                       nodeIndex[dataBlocks[b].link.writer]>>

\* A cycle is reported of a block that its own writer reads.
WarnedInv ==
  /\ warned \in BOOLEAN
  /\ pc \in {"Parse", "ParseObjects", "ParseLinks", "LoadObjects",
             "LoadLinks"} => ~ warned
  /\ warned /\ edges # <<>> =>
       dataBlocks[1].link.reader = dataBlocks[1].link.writer

GraphInv == Numbered(nodeIndex) /\ EdgesInv /\ WarnedInv

\* The loops of the parser.
LEMMA ParseObjectRead ==
  ASSUME IInv, ReadInv, ParseObject
  PROVE  ReadInv'
<1> DEFINE e == file.objects[at]
<1>1. /\ pc = "ParseObjects" /\ pc' = "ParseObjects"
      /\ i' = i + 1
      /\ at \in Nat \ {0} /\ i \in Nat /\ at <= i
      /\ Len(file.objects) \in Nat /\ i <= Len(file.objects)
      /\ Len(objects) \in Nat
      /\ UNCHANGED file
  BY DEF IInv, LoopInv, FileInv, ObjectsInv, ParseObject
<1>2. at = Len(objects) + 1
  BY <1>1 DEF ReadInv
<1>3. CASE ~ Whole(e)
  <2>1. UNCHANGED <<at, objects>>
    BY <1>3 DEF ParseObject, parserVars
  <2> QED
    BY <1>1, <1>3, <2>1 DEF ReadInv, IsElement
<1>4. CASE Whole(e)
  <2> DEFINE o == [name |-> e.name, class |-> e.class, links |-> <<>>]
  <2>1. at' = at + 1 /\ objects' = Append(objects, o)
    BY <1>4 DEF ParseObject
  <2>2. o.name = e.name /\ o.class = e.class
    OBVIOUS
  <2>3. /\ Len(objects') = Len(objects) + 1
        /\ objects'[Len(objects) + 1] = o
        /\ \A k \in 1 .. Len(objects) : objects'[k] = objects[k]
    <3> HIDE DEF o
    <3> QED
      BY <2>1 DEF IInv, ObjectsInv
  <2>4. at = i
    BY <1>1, <1>4 DEF ReadInv
  <2>5. ASSUME NEW k \in 1 .. Len(objects')
        PROVE  IsElement(k)'
    <3>1. CASE k \in 1 .. Len(objects)
      BY <1>1, <2>3, <3>1 DEF ReadInv, IsElement
    <3>2. CASE k = Len(objects) + 1
      <4>1. file.objects[k] = e /\ k <= Len(file.objects) /\ objects'[k] = o
        BY <1>1, <1>2, <2>3, <2>4, <3>2
      <4> QED
        BY <1>1, <1>4, <2>2, <4>1 DEF IsElement
    <3> QED
      BY <1>1, <2>3, <3>1, <3>2
  <2> QED
    BY <1>1, <1>2, <2>1, <2>3, <2>4, <2>5 DEF ReadInv
<1> QED
  BY <1>3, <1>4

\* A link changes neither the name nor the class of an object.
LEMMA ParseLinkKeeps ==
  ASSUME IInv, ParseLink
  PROVE  /\ Len(objects') = Len(objects)
         /\ \A k \in 1 .. Len(objects) : /\ objects'[k].name = objects[k].name
                                         /\ objects'[k].class = objects[k].class
<1> DEFINE e == file.links[at]
           New(o) == IF o = objectHash[e.writer]
                     THEN [objects[o] EXCEPT !.links = Append(@, e)]
                     ELSE objects[o]
<1>1. CASE ~ Whole(e)
  BY <1>1 DEF ParseLink
<1>2. CASE Whole(e)
  <2>1. objects' = [o \in DOMAIN objects |-> New(o)]
    BY <1>2 DEF ParseLink
  <2>2. objects \in Seq(Object) /\ DOMAIN objects = 1 .. Len(objects)
    BY DEF IInv, ObjectsInv
  <2>3. ASSUME NEW k \in 1 .. Len(objects)
        PROVE  New(k).name = objects[k].name /\ New(k).class = objects[k].class
    <3>1. objects[k] \in Object
      BY <2>2
    <3> QED
      BY <3>1 DEF Object
  <2> HIDE DEF New
  <2>4. \A k \in 1 .. Len(objects) : objects'[k] = New(k)
    BY <2>1, <2>2
  <2>5. Len(objects') = Len(objects)
    BY <2>1, <2>2
  <2> QED
    BY <2>3, <2>4, <2>5
<1> QED
  BY <1>1, <1>2

\* At the end of its loop the parser has read what it could.
LEMMA ParseNextRead ==
  ASSUME IInv, ReadInv, ParseNext
  PROVE  ReadInv'
<1>1. UNCHANGED <<file, objects>>
  BY DEF ParseNext, parserVars
<1>2. CASE Enter("ParseObjects", "ParseLinks") /\ i > Len(file.objects)
  <2>1. /\ pc = "ParseObjects" /\ pc' = "ParseLinks"
        /\ at \in Nat /\ i \in Nat /\ at <= i
        /\ Len(file.objects) \in Nat
        /\ Len(objects) \in Nat
    BY <1>2 DEF Enter, IInv, LoopInv, FileInv, ObjectsInv
  <2>2. StopsAfter(Len(objects))
    <3>1. CASE at < i
      BY <2>1, <3>1 DEF ReadInv, StopsAfter
    <3>2. CASE at = i
      BY <1>2, <2>1, <3>2 DEF ReadInv, StopsAfter
    <3> QED
      BY <2>1, <3>1, <3>2
  <2> QED
    BY <1>1, <2>1, <2>2 DEF ReadInv, IsElement, StopsAfter
<1>3. CASE Enter("ParseLinks", "LoadObjects") /\ i > Len(file.links)
  BY <1>1, <1>3 DEF Enter, ReadInv, IsElement, StopsAfter
<1> QED
  BY <1>2, <1>3 DEF ParseNext

\* What was read stays as it is.
LEMMA ReadPreserves ==
  ASSUME IInv, ReadInv, [Next]_vars
  PROVE  ReadInv'
<1>1. CASE Parse
  <2>1. /\ pc = "Parse" /\ pc' \in {"ParseObjects", "Exited"}
        /\ i' = 1 /\ at' = 1 /\ UNCHANGED <<file, objects>>
    BY <1>1 DEF Parse, Enter, parserVars
  <2> QED
    BY <2>1 DEF ReadInv, IsElement
<1>2. CASE ParseLink
  <2>1. pc = "ParseLinks" /\ UNCHANGED <<file, pc>>
    BY <1>2 DEF ParseLink
  <2> QED
    BY <1>2, <2>1, ParseLinkKeeps DEF ReadInv, IsElement, StopsAfter
<1>3. CASE /\ UNCHANGED <<file, objects>>
           /\ pc \notin {"Parse", "ParseObjects", "Exited"}
           /\ pc' \notin {"Parse", "ParseObjects", "Exited"}
  BY <1>3 DEF ReadInv, IsElement, StopsAfter
<1>4. CASE \/ LoadObject \/ LoadLink \/ AddProcess \/ DetectCycles
           \/ Start \/ SetLink \/ StartThreads
  <2>1. /\ UNCHANGED <<file, objects>>
        /\ pc \in {"LoadObjects", "LoadLinks", "Loaded", "Started", "SetLinks"}
        /\ pc' \in {"LoadObjects", "LoadLinks", "Loaded", "Started", "SetLinks",
                    "Crashed", "NoWriter", "NoReader"}
    BY <1>4 DEF LoadObject, LoadLink, AddProcess, DetectCycles, Start, SetLink,
                StartThreads, Enter, parserVars
  <2> QED
    BY <1>3, <2>1
<1>5. CASE UNCHANGED vars
  BY <1>5 DEF vars, parserVars, ReadInv, IsElement, StopsAfter
<1> QED
  BY <1>1, <1>2, <1>4, <1>5, ParseObjectRead, ParseNextRead DEF Next

\* Processes keep their names, and none leaves.
LEMMA ProcessesStay ==
  ASSUME IInv, [Next]_vars
  PROVE  \A n : IsProcess(n) => IsProcess(n)'
<1>1. CASE UNCHANGED processes
  BY <1>1 DEF IsProcess
<1>2. CASE AddProcess
  <2>1. /\ Len(processes) \in Nat
        /\ Len(processes') = Len(processes) + 1
        /\ \A p \in 1 .. Len(processes) : processes'[p] = processes[p]
    BY <1>2 DEF IInv, LoopInv, SystemInv, AddProcess
  <2> QED
    BY <2>1 DEF IsProcess
<1>3. CASE Start
  <2> DEFINE Out(p) == [d \in Data |->
                          IF processes[p].out[d] = None THEN None
                          ELSE LastBlock(processes[p].name, d)]
             New(p) == [processes[p] EXCEPT !.out = Out(p)]
  <2>1. processes' = [p \in DOMAIN processes |-> New(p)]
    BY <1>3 DEF Start
  <2>2. processes \in Seq(Process)
    BY DEF IInv, SystemInv
  <2>3. ASSUME NEW p \in 1 .. Len(processes)
        PROVE  New(p).name = processes[p].name
    <3>1. processes[p] \in Process
      BY <2>2
    <3> HIDE DEF Out
    <3> QED
      BY <3>1 DEF Process
  <2> HIDE DEF New
  <2>4. Len(processes') = Len(processes)
    BY <2>1, <2>2
  <2>5. \A p \in 1 .. Len(processes) : processes'[p] = New(p)
    BY <2>1, <2>2
  <2> QED
    BY <2>3, <2>4, <2>5 DEF IsProcess
<1>4. CASE \/ Parse \/ ParseObject \/ ParseLink \/ ParseNext \/ LoadObject
           \/ LoadLink \/ DetectCycles \/ SetLink \/ StartThreads
           \/ UNCHANGED vars
  <2>1. UNCHANGED processes
    BY <1>4 DEF Parse, ParseObject, ParseLink, ParseNext, LoadObject, LoadLink,
                DetectCycles, SetLink, StartThreads, systemVars, vars
  <2> QED
    BY <1>1, <2>1
<1> QED
  BY <1>2, <1>3, <1>4 DEF Next

\* A step after which no more objects are done with than before.
LEMMA NoneDone ==
  ASSUME IInv, LoadedInv, [Next]_vars,
         Len(objects') = Len(objects),
         \A k \in 1 .. Len(objects) :
           /\ objects'[k].name = objects[k].name
           /\ objects'[k].class = objects[k].class
           /\ Done(k)' => Done(k)
  PROVE  LoadedInv'
BY ProcessesStay DEF LoadedInv

\* Before the loop over the objects none of them is done with.
LEMMA NothingLoaded ==
  ASSUME \/ pc' \in {"Parse", "ParseObjects", "ParseLinks", "Exited"}
         \/ pc' = "LoadObjects" /\ i' = 1
  PROVE  LoadedInv'
<1> SUFFICES ASSUME NEW k \in 1 .. Len(objects')
             PROVE  ~ Done(k)'
  BY DEF LoadedInv
<1> QED
  BY DEF Done

\* An object of a class that Load() knows has its process when the loop
\* goes on.
LEMMA LoadedPreserves ==
  ASSUME IInv, LoadedInv, [Next]_vars
  PROVE  LoadedInv'
<1>1. CASE Parse \/ ParseObject \/ ParseLink \/ ParseNext
  <2>1. \/ pc' \in {"Parse", "ParseObjects", "ParseLinks", "Exited"}
        \/ pc' = "LoadObjects" /\ i' = 1
    BY <1>1 DEF Parse, ParseObject, ParseLink, ParseNext, Enter
  <2> QED
    BY <2>1, NothingLoaded
<1>2. CASE LoadObject
  <2>1. /\ pc = "LoadObjects"
        /\ i \in Nat
        /\ UNCHANGED <<objects, processes>>
        /\ \/ /\ pc' = "LoadLinks" /\ i' = i
           \/ /\ pc' = "LoadObjects" /\ i' = i + 1
              /\ objects[i].class \notin Loadable
    BY <1>2 DEF IInv, LoopInv, LoadObject, parserVars, systemVars
  <2>2. ASSUME NEW k \in 1 .. Len(objects), Done(k)'
        PROVE  Done(k) \/ objects[k].class \notin Loadable
    BY <2>1, <2>2 DEF Done
  <2> QED
    BY <2>1, <2>2 DEF LoadedInv, IsProcess
<1>3. CASE AddProcess
  <2>1. /\ pc = "LoadLinks" /\ pc' = "LoadObjects"
        /\ i \in Nat /\ i' = i + 1
        /\ loading.name = objects[i].name
        /\ Len(processes) \in Nat
        /\ Len(processes') = Len(processes) + 1
        /\ processes'[Len(processes) + 1] = loading
        /\ UNCHANGED objects
    BY <1>3 DEF IInv, LoopInv, SystemInv, AddProcess, parserVars
  <2>2. ASSUME NEW k \in 1 .. Len(objects), Done(k)'
        PROVE  Done(k) \/ k = i
    BY <2>1, <2>2 DEF Done
  <2>3. ASSUME NEW n, n = objects[i].name
        PROVE  IsProcess(n)'
    <3>1. Len(processes) + 1 \in 1 .. Len(processes')
      BY <2>1
    <3> QED
      BY <2>1, <2>3, <3>1 DEF IsProcess
  <2>4. ASSUME NEW k \in 1 .. Len(objects), Done(k)',
               objects[k].class \in Loadable,
               NEW n, n = objects[k].name
        PROVE  IsProcess(n)'
    BY <2>2, <2>3, <2>4, ProcessesStay DEF LoadedInv
  <2> QED
    BY <2>1, <2>4 DEF LoadedInv
<1>4. CASE DetectCycles
  <2>1. /\ pc = "LoadObjects" /\ i > Len(objects)
        /\ i \in Nat /\ Len(objects) \in Nat
        /\ UNCHANGED objects
    BY <1>4 DEF IInv, LoopInv, ObjectsInv, DetectCycles, Enter, parserVars
  <2>2. \A k \in 1 .. Len(objects) : Done(k)
    BY <2>1 DEF Done
  <2> QED
    BY <2>1, <2>2, NoneDone
<1>5. CASE LoadLink \/ Start \/ SetLink \/ StartThreads \/ UNCHANGED vars
  <2>1. /\ UNCHANGED objects
        /\ \/ UNCHANGED <<pc, i>>
           \/ pc \in {"Loaded", "Started", "SetLinks"}
    BY <1>5 DEF LoadLink, Start, SetLink, StartThreads, Enter, parserVars, vars
  <2>2. \A k \in 1 .. Len(objects) : Done(k)' => Done(k)
    BY <2>1 DEF Done
  <2> QED
    BY <2>1, <2>2, NoneDone
<1> QED
  BY <1>1, <1>2, <1>3, <1>4, <1>5 DEF Next

\* The only assertion that fails is the one about a reader that is not there.
LEMMA AbortPreserves ==
  ASSUME IInv, AbortInv, [Next]_vars
  PROVE  AbortInv'
<1> SUFFICES ASSUME pc' = "NoReader" PROVE AbortInv'
  BY DEF AbortInv
<1>1. CASE UNCHANGED vars
  BY <1>1 DEF AbortInv, IsProcess, vars, systemVars
<1>2. CASE SetLink
  <2> DEFINE link   == dataBlocks[i].link
             writer == FindNamed(link.writer)
             reader == FindNamed(link.reader)
             block  == [dataBlocks[i] EXCEPT !.writerThread = writer,
                                             !.readerThread = reader]
  <2>1. /\ pc = "SetLinks" /\ i \in 1 .. Len(dataBlocks)
        /\ dataBlocks \in Seq(DataBlock)
        /\ processes \in Seq(Process)
    BY <1>2 DEF IInv, LoopInv, SystemInv, SetLink
  <2>2. IsProcess(link.writer)
    BY <2>1 DEF IInv, WritersInv
  <2>3. writer # 0
    BY <2>1, <2>2, FindNamedFinds
  <2>4. /\ dataBlocks' = [dataBlocks EXCEPT ![i].writerThread = writer,
                                            ![i].readerThread = reader]
        /\ reader = 0
        /\ UNCHANGED processes
    BY <1>2, <2>1, <2>3 DEF SetLink
  <2>5. ~ IsProcess(link.reader)
    BY <2>1, <2>4, FindNamedFinds
  <2> HIDE DEF writer, reader
  <2>6. block.link = link
    <3>1. dataBlocks[i] \in DataBlock
      BY <2>1
    <3> QED
      BY <3>1 DEF DataBlock
  <2>7. dataBlocks' = [dataBlocks EXCEPT ![i] = block]
    BY <2>1, <2>4
  <2> HIDE DEF block
  <2>8. Len(dataBlocks') = Len(dataBlocks) /\ dataBlocks'[i].link = link
    BY <2>1, <2>6, <2>7
  <2>9. ASSUME NEW n, n = link.reader
        PROVE  ~ IsProcess(n)'
    BY <2>4, <2>5, <2>9 DEF IsProcess
  <2> QED
    BY <2>1, <2>8, <2>9 DEF AbortInv
<1> QED
  BY <1>1, <1>2 DEF Next, Parse, ParseObject, ParseLink, ParseNext, LoadObject,
     LoadLink, AddProcess, DetectCycles, Start, StartThreads, Enter

\* What was read, what was loaded and where the start ended.
THEOREM ReaderInvariance == Spec => []ReaderInv
<1>1. Init => ReaderInv
  <2> SUFFICES ASSUME Init PROVE ReaderInv
    OBVIOUS
  <2>1. Len(file.objects) \in Nat
    BY InitEstablishes DEF IInv, FileInv
  <2> QED
    BY <2>1 DEF Init, ReaderInv, ReadInv, LoadedInv, AbortInv
<1>2. IInv /\ ReaderInv /\ [Next]_vars => ReaderInv'
  BY ReadPreserves, LoadedPreserves, AbortPreserves DEF ReaderInv
<1> QED
  BY <1>1, <1>2, Invariance, PTL DEF Spec

\* The first m elements of a list are read, and no others.
AreRead(elements, m) ==
  /\ m <= Len(elements)
  /\ \A k \in 1 .. m : Whole(elements[k])
  /\ m = Len(elements) \/ ~ Whole(elements[m + 1])

\* What can be read of a list is its elements up to the first that lacks an
\* attribute.
LEMMA ReadableIs ==
  ASSUME NEW S, NEW s \in Seq(S), NEW m \in Nat, AreRead(s, m)
  PROVE  Readable(s) = SubSeq(s, 1, m)
<1> DEFINE I == {k \in 1 .. Len(s) : ~ Whole(s[k])}
           broken == SelectInSeq(s, LAMBDA x : ~ Whole(x))
<1>1. /\ Len(s) \in Nat /\ m <= Len(s)
      /\ \A k \in 1 .. m : Whole(s[k])
      /\ m = Len(s) \/ ~ Whole(s[m + 1])
  BY DEF AreRead
<1>2. broken = IF I # {} THEN Min(I) ELSE 0
  BY DEF SelectInSeq
<1>3. CASE I = {}
  <2>1. Readable(s) = s
    BY <1>2, <1>3 DEF Readable
  <2>2. m = Len(s)
    BY <1>1, <1>3
  <2>3. SubSeq(s, 1, Len(s)) = s
    OBVIOUS
  <2> QED
    BY <2>1, <2>2, <2>3
<1>4. CASE I # {}
  <2>1. I \subseteq Nat
    OBVIOUS
  <2>2. m # Len(s)
    BY <1>1, <1>4
  <2>3. m + 1 \in I
    BY <1>1, <2>2
  <2>4. Min(I) \in I /\ Min(I) <= m + 1
    <3> HIDE DEF I
    <3> QED
      BY <2>1, <2>3, MinIsElement, MinIsLeast
  <2>5. Min(I) = m + 1
    BY <1>1, <2>4
  <2>6. broken = m + 1 /\ m + 1 # 0 /\ (m + 1) - 1 = m
    BY <1>2, <1>4, <2>5
  <2> HIDE DEF I
  <2> QED
    BY <2>6 DEF Readable
<1> QED
  BY <1>3, <1>4

\* What can be read of the file has become the objects.
LEMMA ReadableIsRead ==
  ASSUME FileInv, ObjectsInv, ReadInv, StopsAfter(Len(objects)),
         NEW e \in ToSet(Readable(file.objects))
  PROVE  \E k \in 1 .. Len(objects) : e = file.objects[k]
<1>1. PICK m \in Nat : m = Len(objects)
  BY DEF ObjectsInv
<1>2. PICK f \in Seq(ObjectElement) : f = file.objects
  BY DEF FileInv
<1>3. AreRead(f, m)
  BY <1>1, <1>2 DEF ReadInv, AreRead, IsElement, StopsAfter
<1>4. Readable(f) = SubSeq(f, 1, m)
  BY <1>3, ReadableIs
<1>5. m \in 0 .. Len(f)
  BY <1>1, <1>3 DEF AreRead
<1>6. /\ SubSeq(f, 1, m) \in Seq(ObjectElement)
      /\ Len(SubSeq(f, 1, m)) = m
      /\ \A k \in 1 .. m : SubSeq(f, 1, m)[k] = f[k]
  BY <1>5, PrefixIs
<1> QED
  BY <1>1, <1>2, <1>4, <1>6 DEF ToSet

\* The assertion of SetLink() about the reader fails only when the file has
\* no readable object of that name and of a class that Load() knows, however
\* many objects share the name (GRIDataBlock.cpp:95-118).
THEOREM ReaderMissing == Spec => []OnlyMissingReadersAbort
<1>1. IInv /\ ReaderInv => OnlyMissingReadersAbort
  <2> SUFFICES ASSUME IInv, ReaderInv, pc = "NoReader"
               PROVE  OnlyMissingReadersAbort
    BY DEF OnlyMissingReadersAbort
  <2>1. PICK b \in 1 .. Len(dataBlocks) : ~ IsProcess(dataBlocks[b].link.reader)
    BY DEF ReaderInv, AbortInv
  <2> DEFINE n == dataBlocks[b].link.reader
  <2>2. dataBlocks[b] \in DataBlock /\ dataBlocks[b] \in ToSet(dataBlocks)
    BY <2>1 DEF IInv, SystemInv, ToSet
  <2>3. n \in Names
    <3>1. dataBlocks[b].link \in Link
      BY <2>2 DEF DataBlock
    <3> QED
      BY <3>1 DEF Link
  <2>4. ASSUME NEW e \in ToSet(Readable(file.objects)), e.name = n
        PROVE  e.class \notin Loadable
    <3>1. StopsAfter(Len(objects))
      BY DEF ReaderInv, ReadInv
    <3>2. PICK k \in 1 .. Len(objects) : e = file.objects[k]
      BY <3>1, ReadableIsRead DEF IInv, ReaderInv
    <3>3. objects[k].name = n /\ objects[k].class = e.class
      BY <2>4, <3>2 DEF ReaderInv, ReadInv, IsElement
    <3>4. Done(k)
      BY DEF Done
    <3> QED
      BY <2>1, <3>3, <3>4 DEF ReaderInv, LoadedInv
  <2> QED
    BY <2>2, <2>3, <2>4 DEF OnlyMissingReadersAbort
<1> QED
  BY <1>1, Invariance, ReaderInvariance, PTL

-----------------------------------------------------------------------------
(* The graph and the warning.                                              *)

WithNode(index, n) == [index EXCEPT ![n] = NodeOf(index, n)]

\* A node gets the next number, or keeps the one it has; others keep theirs.
LEMMA NodeIsAdded ==
  ASSUME NEW index, Numbered(index), NEW n \in Names,
         NEW new, new = WithNode(index, n)
  PROVE  /\ Numbered(new)
         /\ NodesOf(new) = NodesOf(index) \union {n}
         /\ \A m \in NodesOf(index) : new[m] = index[m]
<1> DEFINE S == NodesOf(index)
           c == Cardinality(S)
<1>1. /\ index \in [Names -> Nat \union {None}]
      /\ IsFiniteSet(S)
      /\ {index[m] : m \in S} = 0 .. (c - 1)
      /\ \A l, m \in S : index[l] = index[m] => l = m
  BY DEF Numbered
<1>2. None \notin Nat /\ c \in Nat
  BY <1>1, FS_CardinalityType, ElementsAssumption
<1>3. CASE n \in S
  <2>1. new = index
    BY <1>1, <1>3 DEF WithNode, NodeOf, NodesOf
  <2> QED
    BY <1>3, <2>1
<1>4. CASE n \notin S
  <2>1. NodeOf(index, n) = c
    BY <1>4 DEF NodeOf, NodesOf
  <2>2. /\ new \in [Names -> Nat \union {None}]
        /\ new[n] = c
        /\ \A m \in Names \ {n} : new[m] = index[m]
    <3> HIDE DEF c
    <3> QED
      BY <1>1, <1>2, <2>1 DEF WithNode
  <2>3. NodesOf(new) = S \union {n}
    BY <1>2, <2>2 DEF NodesOf
  <2>4. IsFiniteSet(S \union {n}) /\ Cardinality(S \union {n}) = c + 1
    <3> HIDE DEF S
    <3> QED
      BY <1>1, <1>4, FS_AddElement
  <2>5. S \subseteq Names /\ \A m \in S : new[m] = index[m]
    BY <1>4, <2>2 DEF NodesOf
  <2>6. \A m \in S : new[m] \in 0 .. (c - 1)
    BY <1>1, <2>5
  <2> HIDE DEF S, c
  <2>7. {new[m] : m \in S \union {n}} = 0 .. ((c + 1) - 1)
    <3>1. {new[m] : m \in S \union {n}} = {new[m] : m \in S} \union {c}
      BY <2>2
    <3>2. {new[m] : m \in S} = {index[m] : m \in S}
      BY <2>5
    <3>3. (0 .. (c - 1)) \union {c} = 0 .. ((c + 1) - 1)
      BY <1>2
    <3> QED
      BY <1>1, <3>1, <3>2, <3>3
  <2>8. \A l, m \in S \union {n} : new[l] = new[m] => l = m
    <3>1. \A m \in S : new[m] # c
      BY <1>2, <2>6
    <3> QED
      BY <1>1, <2>2, <2>5, <3>1
  <2>9. Numbered(new)
    BY <2>2, <2>3, <2>4, <2>7, <2>8 DEF Numbered
  <2> QED
    BY <2>3, <2>5, <2>9 DEF S
<1> QED
  BY <1>3, <1>4

\* UpdateGraph() numbers the reader, then the writer, and adds their edge.
LEMMA GraphUpdated ==
  ASSUME Numbered(nodeIndex), NEW r \in Names, NEW w \in Names,
         UpdateGraph(r, w)
  PROVE  /\ Numbered(nodeIndex')
         /\ {r, w} \subseteq NodesOf(nodeIndex')
         /\ NodesOf(nodeIndex) \subseteq NodesOf(nodeIndex')
         /\ \A m \in NodesOf(nodeIndex) : nodeIndex'[m] = nodeIndex[m]
         /\ <<nodeIndex'[r], nodeIndex'[w]>> \in Nat \X Nat
         /\ edges' = Append(edges, <<nodeIndex'[r], nodeIndex'[w]>>)
<1>1. PICK with : with = WithNode(nodeIndex, r)
  OBVIOUS
<1>2. /\ nodeIndex' = WithNode(with, w)
      /\ edges' = Append(edges, <<nodeIndex'[r], nodeIndex'[w]>>)
  BY <1>1 DEF UpdateGraph, WithNode
<1>3. /\ Numbered(with)
      /\ NodesOf(with) = NodesOf(nodeIndex) \union {r}
      /\ \A m \in NodesOf(nodeIndex) : with[m] = nodeIndex[m]
  BY <1>1, NodeIsAdded
<1>4. /\ Numbered(nodeIndex')
      /\ NodesOf(nodeIndex') = NodesOf(with) \union {w}
      /\ \A m \in NodesOf(with) : nodeIndex'[m] = with[m]
  BY <1>2, <1>3, NodeIsAdded
<1>5. nodeIndex'[r] \in Nat /\ nodeIndex'[w] \in Nat
  <2>1. {r, w} \subseteq NodesOf(nodeIndex')
    BY <1>3, <1>4
  <2> QED
    BY <1>4, <2>1 DEF Numbered, NodesOf
<1> QED
  BY <1>2, <1>3, <1>4, <1>5

\* One block more, one edge more.
LEMMA LoadLinkGraph ==
  ASSUME IInv, GraphInv, LoadLink
  PROVE  GraphInv'
<1> DEFINE link == objects[i].links[at]
<1>1. /\ pc = "LoadLinks" /\ pc' = "LoadLinks"
      /\ i \in 1 .. Len(objects) /\ objects[i] \in Object
      /\ dataBlocks \in Seq(DataBlock)
  BY DEF IInv, LoopInv, ObjectsInv, SystemInv, LoadLink
<1>2. objects[i].links \in Seq(Link) /\ at \in 1 .. Len(objects[i].links)
  BY <1>1 DEF IInv, LoopInv, LoadLink, Object
<1>3. link \in Link
  BY <1>2
<1>4. link.reader \in Names /\ link.writer \in Names
  BY <1>3 DEF Link
<1>5. PICK r, w : r = link.reader /\ w = link.writer
  OBVIOUS
<1>6. PICK block : block = NewDataBlock(link)
  OBVIOUS
<1>7. block \in DataBlock /\ block.link.reader = r /\ block.link.writer = w
  BY <1>3, <1>5, <1>6 DEF NewDataBlock, DataBlock
<1>8. /\ dataBlocks' = Append(dataBlocks, block)
      /\ UpdateGraph(r, w)
      /\ UNCHANGED warned
  BY <1>5, <1>6 DEF LoadLink
<1> HIDE DEF link
<1>9. PICK e : e = <<nodeIndex'[r], nodeIndex'[w]>>
  OBVIOUS
<1>10. /\ Numbered(nodeIndex')
       /\ {r, w} \subseteq NodesOf(nodeIndex')
       /\ NodesOf(nodeIndex) \subseteq NodesOf(nodeIndex')
       /\ \A m \in NodesOf(nodeIndex) : nodeIndex'[m] = nodeIndex[m]
       /\ e \in Nat \X Nat
       /\ edges' = Append(edges, e)
  BY <1>4, <1>5, <1>8, <1>9, GraphUpdated DEF GraphInv
<1>11. /\ Len(dataBlocks) \in Nat
       /\ Len(dataBlocks') = Len(dataBlocks) + 1
       /\ dataBlocks'[Len(dataBlocks) + 1] = block
       /\ \A b \in 1 .. Len(dataBlocks) : dataBlocks'[b] = dataBlocks[b]
  BY <1>1, <1>7, <1>8
<1>12. /\ edges' \in Seq(Nat \X Nat)
       /\ Len(edges') = Len(edges) + 1
       /\ edges'[Len(edges) + 1] = e
       /\ \A b \in 1 .. Len(edges) : edges'[b] = edges[b]
  BY <1>10 DEF GraphInv, EdgesInv
<1>13. Len(edges) = Len(dataBlocks)
  BY DEF GraphInv, EdgesInv
<1>14. ASSUME NEW b \in 1 .. Len(edges')
       PROVE  /\ {dataBlocks'[b].link.reader, dataBlocks'[b].link.writer}
                   \subseteq NodesOf(nodeIndex')
              /\ edges'[b] = <<nodeIndex'[dataBlocks'[b].link.reader],
                               nodeIndex'[dataBlocks'[b].link.writer]>>
  <2>1. CASE b \in 1 .. Len(edges)
    <3>1. /\ {dataBlocks[b].link.reader, dataBlocks[b].link.writer}
               \subseteq NodesOf(nodeIndex)
          /\ edges[b] = <<nodeIndex[dataBlocks[b].link.reader],
                          nodeIndex[dataBlocks[b].link.writer]>>
      BY <2>1 DEF GraphInv, EdgesInv
    <3>2. dataBlocks'[b] = dataBlocks[b] /\ edges'[b] = edges[b]
      BY <1>11, <1>12, <1>13, <2>1
    <3> QED
      BY <1>10, <3>1, <3>2
  <2>2. CASE b = Len(edges) + 1
    BY <1>7, <1>9, <1>10, <1>11, <1>12, <1>13, <2>2
  <2> QED
    BY <1>11, <1>12, <1>13, <2>1, <2>2, SMTT(30)
<1>15. EdgesInv'
  BY <1>11, <1>12, <1>13, <1>14 DEF EdgesInv
<1>16. WarnedInv'
  BY <1>1, <1>8 DEF GraphInv, WarnedInv
<1> QED
  BY <1>10, <1>15, <1>16 DEF GraphInv

\* The edge is a loop if its two nodes have one number: they are one node.
LEMMA DetectCyclesGraph ==
  ASSUME IInv, GraphInv, DetectCycles
  PROVE  GraphInv'
<1>1. /\ pc' \in {"Loaded", "Crashed"}
      /\ UNCHANGED <<dataBlocks, nodeIndex, edges>>
      /\ warned' \in BOOLEAN
      /\ edges # <<>> /\ warned' => edges[1][1] = edges[1][2]
  BY DEF DetectCycles, Enter, systemVars
<1>2. Numbered(nodeIndex)' /\ EdgesInv'
  BY <1>1 DEF GraphInv, EdgesInv
<1>3. ASSUME edges # <<>>, warned'
      PROVE  dataBlocks[1].link.reader = dataBlocks[1].link.writer
  <2>1. 1 \in 1 .. Len(edges)
    BY <1>3 DEF GraphInv, EdgesInv
  <2>2. /\ {dataBlocks[1].link.reader, dataBlocks[1].link.writer}
             \subseteq NodesOf(nodeIndex)
        /\ edges[1] = <<nodeIndex[dataBlocks[1].link.reader],
                        nodeIndex[dataBlocks[1].link.writer]>>
    BY <2>1 DEF GraphInv, EdgesInv
  <2>3. nodeIndex[dataBlocks[1].link.reader]
          = nodeIndex[dataBlocks[1].link.writer]
    BY <1>1, <1>3, <2>2
  <2> QED
    BY <2>2, <2>3 DEF GraphInv, Numbered
<1>4. WarnedInv'
  BY <1>1, <1>3 DEF WarnedInv
<1> QED
  BY <1>2, <1>4 DEF GraphInv

\* The blocks get their threads; what they link stays.
LEMMA SetLinkGraph ==
  ASSUME IInv, GraphInv, SetLink
  PROVE  GraphInv'
<1> DEFINE writer == FindNamed(dataBlocks[i].link.writer)
           reader == FindNamed(dataBlocks[i].link.reader)
           new    == [dataBlocks EXCEPT ![i].writerThread = writer,
                                        ![i].readerThread = reader]
           block  == [dataBlocks[i] EXCEPT !.writerThread = writer,
                                           !.readerThread = reader]
<1>1. /\ pc = "SetLinks" /\ i \in 1 .. Len(dataBlocks)
      /\ dataBlocks \in Seq(DataBlock) /\ dataBlocks[i] \in DataBlock
  BY DEF IInv, LoopInv, SystemInv, SetLink
<1>2. /\ pc' \in {"SetLinks", "NoWriter", "NoReader"}
      /\ dataBlocks' = dataBlocks \/ dataBlocks' = new
      /\ UNCHANGED <<nodeIndex, edges, warned>>
  BY <1>1 DEF SetLink, graphVars
<1> HIDE DEF writer, reader
<1>3. block.link = dataBlocks[i].link
  BY <1>1 DEF DataBlock
<1>4. new = [dataBlocks EXCEPT ![i] = block]
  BY <1>1
<1> HIDE DEF block, new
<1>5. /\ Len(dataBlocks') = Len(dataBlocks)
      /\ \A b \in 1 .. Len(dataBlocks) : dataBlocks'[b].link = dataBlocks[b].link
  BY <1>1, <1>2, <1>3, <1>4
<1>6. Numbered(nodeIndex)' /\ EdgesInv'
  BY <1>2, <1>5 DEF GraphInv, EdgesInv
<1>7. WarnedInv'
  <2>1. edges # <<>> => 1 \in 1 .. Len(dataBlocks)
    BY <1>1 DEF GraphInv, EdgesInv
  <2> QED
    BY <1>1, <1>2, <1>5, <2>1 DEF GraphInv, WarnedInv
<1> QED
  BY <1>6, <1>7 DEF GraphInv

\* Nodes are numbered without gaps, edges are those of the blocks, and the
\* one that is looked at decides.
THEOREM GraphInvariance == Spec => []GraphInv
<1>1. Init => GraphInv
  <2> SUFFICES ASSUME Init PROVE GraphInv
    OBVIOUS
  <2>1. /\ pc = "Parse" /\ warned = FALSE
        /\ dataBlocks = <<>> /\ edges = <<>>
        /\ nodeIndex = [n \in Names |-> None]
    BY DEF Init
  <2>2. NodesOf(nodeIndex) = {}
    BY <2>1 DEF NodesOf
  <2>3. Numbered(nodeIndex)
    BY <2>1, <2>2, FS_EmptySet DEF Numbered
  <2>4. EdgesInv
    BY <2>1 DEF EdgesInv
  <2>5. WarnedInv
    BY <2>1 DEF WarnedInv
  <2> QED
    BY <2>3, <2>4, <2>5 DEF GraphInv
<1>2. IInv /\ GraphInv /\ [Next]_vars => GraphInv'
  <2> SUFFICES ASSUME IInv, GraphInv, [Next]_vars
               PROVE  GraphInv'
    OBVIOUS
  <2>1. CASE \/ UNCHANGED vars
             \/ Parse \/ ParseObject \/ ParseLink \/ ParseNext \/ LoadObject
             \/ AddProcess \/ Start \/ StartThreads
    <3>1. UNCHANGED <<dataBlocks, graphVars>>
      BY <2>1 DEF vars, systemVars, Parse, ParseObject, ParseLink, ParseNext,
                  LoadObject, AddProcess, Start, StartThreads
    <3>2. \/ ~ warned
          \/ pc' \notin {"Parse", "ParseObjects", "ParseLinks", "LoadObjects",
                         "LoadLinks"}
      BY <2>1 DEF GraphInv, WarnedInv, vars, Parse, ParseObject, ParseLink,
                  ParseNext, LoadObject, AddProcess, Start, StartThreads, Enter
    <3> QED
      BY <3>1, <3>2 DEF GraphInv, EdgesInv, WarnedInv, graphVars
  <2> QED
    BY <2>1, LoadLinkGraph, DetectCyclesGraph, SetLinkGraph DEF Next
<1> QED
  BY <1>1, <1>2, Invariance, PTL DEF Spec

\* A warning about a cycle is true of any application that has a link: it is
\* given for a block that its own writer reads (GRILoader.cpp:132-168).
THEOREM WarningHolds == Spec => []WarningIsTrue
<1>1. IInv /\ GraphInv => WarningIsTrue
  <2> SUFFICES ASSUME IInv, GraphInv, warned, edges # <<>>
               PROVE  CycleExists
    BY DEF WarningIsTrue
  <2> DEFINE n == dataBlocks[1].link.writer
  <2>1. 1 \in 1 .. Len(dataBlocks) /\ dataBlocks[1] \in ToSet(dataBlocks)
    BY DEF IInv, SystemInv, GraphInv, EdgesInv, ToSet
  <2>2. n \in Names
    <3>1. dataBlocks[1] \in DataBlock
      BY <2>1 DEF IInv, SystemInv
    <3>2. dataBlocks[1].link \in Link
      BY <3>1 DEF DataBlock
    <3> QED
      BY <3>2 DEF Link
  <2>3. dataBlocks[1].link.reader = n
    BY DEF GraphInv, WarnedInv
  <2>4. {n} \in (SUBSET Names) \ {{}}
    BY <2>2
  <2> QED
    BY <2>1, <2>3, <2>4 DEF CycleExists
<1> QED
  BY <1>1, Invariance, GraphInvariance, PTL

\* A process in the making is one, or there is none.
LoadingInv == loading \in Process \union {None}

\* Type correctness: among others, the nodes of the graph are numbered from 0
\* without gaps, and the edges lead from node to node (GRILoader.cpp:170-196).
THEOREM TypeCorrect == Spec => []TypeOK
<1>1. Init => LoadingInv
  BY DEF Init, LoadingInv
<1>2. IInv /\ LoadingInv /\ [Next]_vars => LoadingInv'
  <2> SUFFICES ASSUME IInv, LoadingInv, [Next]_vars
               PROVE  LoadingInv'
    OBVIOUS
  <2>1. CASE LoadObject \/ LoadLink
    <3>1. IInv'
      BY <2>1, LoadObjectPreserves, LoadLinkPreserves
    <3>2. UNCHANGED loading \/ pc' = "LoadLinks"
      BY <2>1 DEF LoadObject, LoadLink
    <3> QED
      BY <3>1, <3>2 DEF IInv, LoopInv, LoadingInv
  <2>2. CASE AddProcess
    BY <2>2 DEF AddProcess, LoadingInv
  <2>3. CASE \/ Parse \/ ParseObject \/ ParseLink \/ ParseNext \/ DetectCycles
             \/ Start \/ SetLink \/ StartThreads \/ UNCHANGED vars
    <3>1. UNCHANGED loading
      BY <2>3 DEF Parse, ParseObject, ParseLink, ParseNext, DetectCycles, Start,
                  SetLink, StartThreads, vars
    <3> QED
      BY <3>1 DEF LoadingInv
  <2> QED
    BY <2>1, <2>2, <2>3 DEF Next
<1>3. IInv /\ StartInv /\ GraphInv /\ LoadingInv => TypeOK
  <2> SUFFICES ASSUME IInv, StartInv, GraphInv, LoadingInv PROVE TypeOK
    OBVIOUS
  <2>1. Nodes = NodesOf(nodeIndex)
    BY DEF Nodes, NodesOf
  <2>2. {nodeIndex[n] : n \in Nodes} = 0 .. (Cardinality(Nodes) - 1)
    BY <2>1 DEF GraphInv, Numbered
  <2>3. ASSUME NEW e \in ToSet(edges)
        PROVE  \E r, w \in Nodes : e = <<nodeIndex[r], nodeIndex[w]>>
    <3>1. PICK b \in 1 .. Len(edges) : e = edges[b]
      BY DEF GraphInv, EdgesInv, ToSet
    <3> QED
      BY <2>1, <3>1, SMTT(30) DEF GraphInv, EdgesInv
  <2>4. /\ pc \in PCs /\ {i, at} \subseteq Nat \ {0}
        /\ objects \in Seq(Object)
        /\ objectHash \in [Names -> 0 .. Len(objects)]
        /\ processes \in Seq(Process) /\ dataBlocks \in Seq(DataBlock)
    BY DEF IInv, LoopInv, ObjectsInv, SystemInv
  <2>5. /\ warned \in BOOLEAN /\ buffers \in Seq(Names \X Data)
        /\ loading \in Process \union {None}
    BY DEF GraphInv, WarnedInv, StartInv, BuffersInv, LoadingInv
  <2> QED
    BY <2>2, <2>3, <2>4, <2>5 DEF TypeOK
<1> QED
  BY <1>1, <1>2, <1>3, Invariance, StartInvariance, GraphInvariance, PTL
     DEF Spec

-----------------------------------------------------------------------------
(* The links of the file and the data blocks.                              *)

\* One object of a name answers to it, the last one.
HashInv ==
  \A o \in 1 .. Len(objects) : /\ objectHash[objects[o].name] # 0
                               /\ o <= objectHash[objects[o].name]

\* Object o has its links of a list, if it answers to its name.
HasItsOf(objs, hash, o, links) ==
  objs[o].links = IF o = hash[objs[o].name]
                  THEN WrittenBy(links, objs[o].name) ELSE <<>>

LinksInv ==
  /\ pc \in {"Parse", "ParseObjects"} =>
       \A o \in 1 .. Len(objects) : objects[o].links = <<>>
  /\ pc = "ParseLinks" =>
       /\ at <= Len(file.links) + 1
       /\ \A k \in 1 .. at - 1 : Whole(file.links[k])
       /\ at < i => at <= Len(file.links) /\ ~ Whole(file.links[at])
       /\ \A o \in 1 .. Len(objects) :
            HasItsOf(objects, objectHash, o, SubSeq(file.links, 1, at - 1))
  /\ pc \notin {"Parse", "ParseObjects", "ParseLinks", "Exited"} =>
       \A o \in 1 .. Len(objects) :
         HasItsOf(objects, objectHash, o, Readable(file.links))
  /\ pc = "LoadLinks" => /\ at <= Len(objects[i].links) + 1
                         /\ objects[i].class \in Loadable

\* The links of object o that have become data blocks, when the loop p of the
\* loader is at object k and link a.
BlocksFrom(p, k, a, objs, o) ==
  IF \/ o = 0
     \/ p \in {"Parse", "ParseObjects", "ParseLinks", "Exited"}
     \/ objs[o].class \notin Loadable
     \/ p = "LoadObjects" /\ o >= k
     \/ p = "LoadLinks" /\ o > k
  THEN <<>>
  ELSE IF p = "LoadLinks" /\ o = k THEN SubSeq(objs[o].links, 1, a - 1)
  ELSE objs[o].links

BlocksInv ==
  \A n \in Names :
    WrittenBy(BlockLinks, n) = BlocksFrom(pc, i, at, objects, objectHash[n])

FileBlocksInv == HashInv /\ LinksInv /\ BlocksInv

\* One more link.
LEMMA WrittenByAppend ==
  ASSUME NEW S, NEW s \in Seq(S), NEW x \in S, NEW n
  PROVE  WrittenBy(Append(s, x), n) =
           IF x.writer = n THEN Append(WrittenBy(s, n), x)
           ELSE WrittenBy(s, n)
<1>1. PICK t \in Seq(S) : t = Append(s, x)
  BY AppendProperties
<1>2. /\ Len(t) = Len(s) + 1 /\ Len(s) \in Nat
      /\ t[Len(s) + 1] = x
      /\ \A k \in 1 .. Len(s) : t[k] = s[k]
  BY <1>1
<1>3. PICK P : P = {k \in DOMAIN t : t[k].writer = n}
  OBVIOUS
<1>4. PICK Q : Q = {k \in DOMAIN s : s[k].writer = n}
  OBVIOUS
<1>5. ElementsAt(Append(s, x), P) =
        IF Len(s) + 1 \in P THEN Append(ElementsAt(s, P), x)
        ELSE ElementsAt(s, P)
  BY ElementsAtAppend
<1>6. Len(s) + 1 \in P <=> x.writer = n
  BY <1>1, <1>2, <1>3
<1>7. ElementsAt(s, P) = ElementsAt(s, Q)
  <2>1. \A k \in 1 .. Len(s) : k \in P <=> k \in Q
    BY <1>1, <1>2, <1>3, <1>4
  <2>2. Len(s) \in Nat
    OBVIOUS
  <2> QED
    BY <2>1, <2>2, ElementsAtSame
<1>8. WrittenBy(t, n) = ElementsAt(t, P) /\ WrittenBy(s, n) = ElementsAt(s, Q)
  BY <1>3, <1>4 DEF WrittenBy
<1> QED
  BY <1>1, <1>5, <1>6, <1>7, <1>8

LEMMA WrittenByEmpty == \A n : WrittenBy(<<>>, n) = <<>>
  BY ElementsAtEmpty DEF WrittenBy

\* A name is loaded when the object that answers to it has a class that
\* Load() knows.
LEMMA LoadedIs ==
  ASSUME IInv, ReadInv, HashInv, StopsAfter(Len(objects)), NEW n \in Names
  PROVE  IsLoaded(Readable(file.objects), n)
           <=> /\ objectHash[n] # 0
               /\ objects[objectHash[n]].class \in Loadable
<1>1. PICK m \in Nat : m = Len(objects)
  BY DEF IInv, ObjectsInv
<1>2. PICK f \in Seq(ObjectElement) : f = file.objects
  BY DEF IInv, FileInv
<1>3. m <= Len(f) /\ \A k \in 1 .. m : IsElement(k)
  BY <1>1, <1>2 DEF ReadInv
<1>4. AreRead(f, m)
  BY <1>1, <1>2, <1>3 DEF AreRead, IsElement, StopsAfter
<1>5. Readable(f) = SubSeq(f, 1, m)
  BY <1>4, ReadableIs
<1>6. PICK D \in Seq(ObjectElement) : D = SubSeq(f, 1, m)
  <2>1. m \in 0 .. Len(f)
    BY <1>3
  <2> QED
    BY <2>1, PrefixIs
<1>7. Len(D) = m /\ \A k \in 1 .. m : D[k] = f[k]
  <2>1. m \in 0 .. Len(f)
    BY <1>3
  <2> QED
    BY <1>6, <2>1, PrefixIs
<1>8. PICK h \in 0 .. m : h = objectHash[n]
  BY <1>1 DEF IInv, ObjectsInv
<1> DEFINE J == {k \in 1 .. Len(D) : D[k].name = n}
           last == SelectLastInSeq(D, LAMBDA e : e.name = n)
<1>9. last = IF J # {} THEN Max(J) ELSE 0
  BY DEF SelectLastInSeq
<1>10. \A k \in 1 .. m : D[k].name = objects[k].name
                         /\ D[k].class = objects[k].class
  BY <1>2, <1>3, <1>7 DEF IsElement
<1>11. last = h
  <2>1. CASE h = 0
    <3>1. \A k \in 1 .. m : objects[k].name # n
      BY <1>1, <1>8, <2>1 DEF HashInv
    <3>2. J = {}
      BY <1>7, <1>10, <3>1
    <3> QED
      BY <1>9, <2>1, <3>2
  <2>2. CASE h # 0
    <3>1. h \in 1 .. m /\ objects[h].name = n
      BY <1>8, <2>2 DEF IInv, ObjectsInv
    <3>2. h \in J
      BY <1>7, <1>10, <3>1
    <3>3. J \subseteq Int /\ \A k \in J : k <= h
      BY <1>1, <1>7, <1>8, <1>10 DEF HashInv
    <3>4. Max(J) = h
      <4> HIDE DEF J
      <4> QED
        BY <3>2, <3>3, MaxIs
    <3> QED
      BY <1>9, <3>2, <3>4
  <2> QED
    BY <2>1, <2>2
<1>12. IsLoaded(D, n) <=> last # 0 /\ D[last].class \in Loadable
  BY DEF IsLoaded
<1>14. IsLoaded(Readable(file.objects), n) <=> IsLoaded(D, n)
  BY <1>2, <1>5, <1>6
<1> HIDE DEF last, J
<1>13. h # 0 => h \in 1 .. m
  OBVIOUS
<1> QED
  BY <1>8, <1>10, <1>11, <1>12, <1>13, <1>14

\* The last of a name keeps answering to it.
LEMMA HashPreserves ==
  ASSUME IInv, HashInv, [Next]_vars
  PROVE  HashInv'
<1>1. CASE ParseObject
  <2> DEFINE e == file.objects[at]
  <2>1. CASE ~ Whole(e)
    BY <1>1, <2>1 DEF HashInv, ParseObject, parserVars
  <2>2. CASE Whole(e)
    <3> DEFINE o == [name |-> e.name, class |-> e.class, links |-> <<>>]
    <3>1. at \in 1 .. Len(file.objects) /\ e \in ObjectElement
      BY <1>1 DEF IInv, LoopInv, FileInv, ParseObject
    <3>2. e.name \in Names /\ e.class \in Classes
      BY <2>2, <3>1, WholeElements
    <3>3. /\ objects' = Append(objects, o)
          /\ objectHash' = [objectHash EXCEPT ![e.name] = Len(objects) + 1]
      BY <1>1, <2>2 DEF ParseObject
    <3>4. o \in Object
      BY <3>2 DEF Object
    <3>5. o.name = e.name
      OBVIOUS
    <3> HIDE DEF e, o
    <3>6. /\ Len(objects') = Len(objects) + 1 /\ Len(objects) \in Nat
          /\ objects'[Len(objects) + 1] = o
          /\ \A k \in 1 .. Len(objects) : objects'[k] = objects[k]
      BY <3>3, <3>4 DEF IInv, ObjectsInv
    <3>7. objectHash \in [Names -> 0 .. Len(objects)]
      BY DEF IInv, ObjectsInv
    <3>8. ASSUME NEW k \in 1 .. Len(objects')
          PROVE  /\ objectHash'[objects'[k].name] # 0
                 /\ k <= objectHash'[objects'[k].name]
      <4>1. CASE objects'[k].name = e.name
        <5>1. objectHash'[objects'[k].name] = Len(objects) + 1
          BY <3>2, <3>3, <3>7, <4>1
        <5> QED
          BY <3>6, <5>1
      <4>2. CASE objects'[k].name # e.name
        <5>1. k \in 1 .. Len(objects) /\ objects'[k] = objects[k]
          BY <3>5, <3>6, <4>2
        <5>2. objectHash'[objects[k].name] = objectHash[objects[k].name]
          <6>1. objects[k] \in Object
            BY <5>1 DEF IInv, ObjectsInv
          <6>2. objects[k].name \in Names
            BY <6>1 DEF Object
          <6> QED
            BY <3>3, <3>7, <4>2, <5>1, <6>2
        <5> QED
          BY <5>1, <5>2 DEF HashInv
      <4> QED
        BY <4>1, <4>2
    <3> QED
      BY <3>8 DEF HashInv
  <2> QED
    BY <2>1, <2>2
<1>2. CASE ParseLink
  <2>1. UNCHANGED objectHash
    BY <1>2 DEF ParseLink
  <2> QED
    BY <1>2, <2>1, ParseLinkKeeps DEF HashInv
<1>3. CASE UNCHANGED <<objects, objectHash>>
  BY <1>3 DEF HashInv
<1>4. CASE \/ Parse \/ ParseNext \/ LoadObject \/ LoadLink \/ AddProcess
           \/ DetectCycles \/ Start \/ SetLink \/ StartThreads
           \/ UNCHANGED vars
  <2>1. UNCHANGED <<objects, objectHash>>
    BY <1>4 DEF Parse, ParseNext, LoadObject, LoadLink, AddProcess,
       DetectCycles, Start, SetLink, StartThreads, parserVars, vars
  <2> QED
    BY <1>3, <2>1
<1> QED
  BY <1>1, <1>2, <1>4 DEF Next

\* A link goes to the object that answers to the name of its writer.
LEMMA ParseLinkGives ==
  ASSUME IInv, HashInv, LinksInv, ParseLink, NEW o \in 1 .. Len(objects)
  PROVE  /\ objects'[o].name = objects[o].name
         /\ HasItsOf(objects', objectHash', o, SubSeq(file.links, 1, at' - 1))
<1> DEFINE e == file.links[at]
<1>1. /\ pc = "ParseLinks" /\ at \in 1 .. Len(file.links)
      /\ UNCHANGED <<file, objectHash>>
  BY DEF IInv, LoopInv, FileInv, ParseLink
<1>2. PICK f \in Seq(LinkElement) : f = file.links
  BY DEF IInv, FileInv
<1>3. HasItsOf(objects, objectHash, o, SubSeq(f, 1, at - 1))
  BY <1>1, <1>2 DEF LinksInv
<1>4. CASE ~ Whole(e)
  BY <1>1, <1>2, <1>3, <1>4 DEF ParseLink, HasItsOf
<1>5. CASE Whole(e)
  <2>1. at' = at + 1
    BY <1>5 DEF ParseLink
  <2>2. PICK n \in 0 .. Len(f) : n = at - 1 /\ n < Len(f)
    BY <1>1, <1>2
  <2>3. PICK s \in Seq(LinkElement) : s = SubSeq(f, 1, n)
    BY <2>2, PrefixIs
  <2>4. e \in LinkElement /\ e = f[n + 1]
    BY <1>1, <1>2, <2>2
  <2>5. SubSeq(f, 1, n + 1) = Append(s, e)
    BY <2>2, <2>3, <2>4, PrefixStep
  <2>6. SubSeq(f, 1, at' - 1) = Append(s, e)
    <3>1. at' - 1 = n + 1
      BY <1>1, <2>1, <2>2
    <3> QED
      BY <2>5, <3>1
  <2>7. HasItsOf(objects, objectHash, o, s)
    BY <1>3, <2>2, <2>3
  <2>8. objects[o] \in Object
    BY DEF IInv, ObjectsInv
  <2>9. objects[o].links \in Seq(Link) /\ objects[o].name \in Names
    BY <2>8 DEF Object
  <2> DEFINE New == IF o = objectHash[e.writer]
                    THEN [objects[o] EXCEPT !.links = Append(@, e)]
                    ELSE objects[o]
  <2>10. objects'[o] = New
    <3>1. DOMAIN objects = 1 .. Len(objects)
      BY DEF IInv, ObjectsInv
    <3>2. objects' = [k \in DOMAIN objects |->
                        IF k = objectHash[e.writer]
                        THEN [objects[k] EXCEPT !.links = Append(@, e)]
                        ELSE objects[k]]
      BY <1>5 DEF ParseLink
    <3> HIDE DEF e
    <3> QED
      BY <3>1, <3>2
  <2>11. /\ New.name = objects[o].name
         /\ New.links = IF o = objectHash[e.writer]
                        THEN Append(objects[o].links, e) ELSE objects[o].links
    <3> HIDE DEF e
    <3> QED
      BY <2>8 DEF Object
  <2> HIDE DEF New
  <2>12. PICK n1, old, new :
           /\ n1 = objects[o].name /\ n1 \in Names
           /\ old = WrittenBy(s, n1) /\ new = WrittenBy(Append(s, e), n1)
    BY <2>9
  <2>13. new = IF e.writer = n1 THEN Append(old, e) ELSE old
    <3>1. PICK x \in LinkElement : x = e
      BY <2>4
    <3>2. WrittenBy(Append(s, x), n1) =
            IF x.writer = n1 THEN Append(WrittenBy(s, n1), x)
            ELSE WrittenBy(s, n1)
      BY WrittenByAppend
    <3> HIDE DEF e
    <3> QED
      BY <2>12, <3>1, <3>2
  <2>14. objects[o].links = IF o = objectHash[n1] THEN old ELSE <<>>
    BY <2>7, <2>12 DEF HasItsOf
  <2>15. o = objectHash[e.writer] => e.writer = n1
    <3>1. PICK w \in Names : w = e.writer
      BY <1>5, <2>4, WholeElements DEF Link
    <3> HIDE DEF e
    <3>2. objectHash[w] # 0 => objects[objectHash[w]].name = w
      BY DEF IInv, ObjectsInv
    <3>3. o # 0
      OBVIOUS
    <3> QED
      BY <2>12, <3>1, <3>2, <3>3
  <2>16. New.links = IF o = objectHash[n1] THEN new ELSE <<>>
    <3> HIDE DEF e
    <3>1. CASE o = objectHash[e.writer]
      BY <2>11, <2>13, <2>14, <2>15, <3>1
    <3>2. CASE o # objectHash[e.writer]
      BY <2>11, <2>13, <2>14, <3>2
    <3> QED
      BY <3>1, <3>2
  <2>17. HasItsOf(objects', objectHash', o, SubSeq(f, 1, at' - 1))
    BY <1>1, <2>6, <2>10, <2>11, <2>12, <2>16 DEF HasItsOf
  <2> QED
    BY <1>2, <2>10, <2>11, <2>17
<1> QED
  BY <1>4, <1>5

\* The links of the objects are those that were read.
LEMMA LinksPreserves ==
  ASSUME IInv, HashInv, LinksInv, [Next]_vars
  PROVE  LinksInv'
<1>1. CASE Parse
  <2>1. /\ pc = "Parse" /\ pc' \in {"ParseObjects", "Exited"}
        /\ UNCHANGED objects
    BY <1>1 DEF Parse, Enter, parserVars
  <2> QED
    BY <2>1 DEF LinksInv
<1>2. CASE ParseObject
  <2> DEFINE e == file.objects[at]
             o == [name |-> e.name, class |-> e.class, links |-> <<>>]
  <2>1. pc = "ParseObjects" /\ pc' = "ParseObjects"
    BY <1>2 DEF ParseObject
  <2>2. CASE ~ Whole(e)
    <3>1. UNCHANGED objects
      BY <1>2, <2>2 DEF ParseObject, parserVars
    <3> QED
      BY <2>1, <3>1 DEF LinksInv
  <2>3. CASE Whole(e)
    <3>1. objects' = Append(objects, o) /\ o.links = <<>>
      BY <1>2, <2>3 DEF ParseObject
    <3> HIDE DEF o
    <3>2. /\ Len(objects') = Len(objects) + 1 /\ Len(objects) \in Nat
          /\ objects'[Len(objects) + 1] = o
          /\ \A k \in 1 .. Len(objects) : objects'[k] = objects[k]
      BY <3>1 DEF IInv, ObjectsInv
    <3>3. ASSUME NEW k \in 1 .. Len(objects')
          PROVE  objects'[k].links = <<>>
      <4>1. CASE k \in 1 .. Len(objects)
        BY <2>1, <3>2, <4>1 DEF LinksInv
      <4>2. CASE k = Len(objects) + 1
        BY <3>1, <3>2, <4>2
      <4> QED
        BY <3>2, <4>1, <4>2
    <3> QED
      BY <2>1, <3>3 DEF LinksInv
  <2> QED
    BY <2>2, <2>3
<1>3. CASE ParseLink
  <2>1. /\ pc = "ParseLinks" /\ pc' = "ParseLinks"
        /\ at \in Nat \ {0} /\ i \in Nat /\ i' = i + 1 /\ at <= i
        /\ at <= Len(file.links) /\ Len(file.links) \in Nat
        /\ UNCHANGED <<file, objectHash>>
    BY <1>3 DEF IInv, LoopInv, FileInv, ParseLink
  <2>2. Len(objects') = Len(objects)
    BY <1>3, ParseLinkKeeps
  <2>3. \A o \in 1 .. Len(objects') :
          HasItsOf(objects', objectHash', o, SubSeq(file'.links, 1, at' - 1))
    BY <1>3, <2>1, <2>2, ParseLinkGives
  <2>4. /\ at' <= Len(file'.links) + 1
        /\ \A k \in 1 .. at' - 1 : Whole(file'.links[k])
        /\ at' < i' => at' <= Len(file'.links) /\ ~ Whole(file'.links[at'])
    <3>1. CASE Whole(file.links[at])
      <4>1. at' = at + 1 /\ at = i
        BY <1>3, <2>1, <3>1 DEF LinksInv, ParseLink
      <4> QED
        BY <2>1, <3>1, <4>1 DEF LinksInv
    <3>2. CASE ~ Whole(file.links[at])
      <4>1. at' = at
        BY <1>3, <3>2 DEF ParseLink
      <4> QED
        BY <2>1, <3>2, <4>1 DEF LinksInv
    <3> QED
      BY <3>1, <3>2
  <2> QED
    BY <2>1, <2>3, <2>4 DEF LinksInv
<1>4. CASE ParseNext /\ pc = "ParseObjects"
  <2>1. /\ pc' = "ParseLinks" /\ i' = 1 /\ at' = 1
        /\ UNCHANGED <<file, objects, objectHash>>
        /\ Len(file.links) \in Nat
    BY <1>4 DEF ParseNext, Enter, parserVars, IInv, FileInv
  <2>2. SubSeq(file.links, 1, 0) = <<>>
    BY SubSeqEmpty
  <2>3. ASSUME NEW o \in 1 .. Len(objects)
        PROVE  HasItsOf(objects, objectHash, o, <<>>)
    BY <1>4, WrittenByEmpty DEF HasItsOf, LinksInv
  <2>4. at' - 1 = 0 /\ \A k \in 1 .. at' - 1 : Whole(file'.links[k])
    BY <2>1
  <2>5. \A o \in 1 .. Len(objects') :
          HasItsOf(objects', objectHash', o, SubSeq(file'.links, 1, at' - 1))
    BY <2>1, <2>2, <2>3, <2>4
  <2> QED
    BY <2>1, <2>4, <2>5 DEF LinksInv
<1>5. CASE ParseNext /\ pc # "ParseObjects"
  <2>1. /\ pc = "ParseLinks" /\ pc' = "LoadObjects" /\ i > Len(file.links)
        /\ UNCHANGED <<file, objects, objectHash>>
        /\ at \in Nat \ {0} /\ i \in Nat /\ at <= i /\ Len(file.links) \in Nat
        /\ file.links \in Seq(LinkElement)
    BY <1>5 DEF ParseNext, Enter, parserVars, IInv, LoopInv, FileInv
  <2>2. AreRead(file.links, at - 1)
    BY <2>1 DEF LinksInv, AreRead
  <2>3. Readable(file.links) = SubSeq(file.links, 1, at - 1)
    <3>1. at - 1 \in Nat
      BY <2>1
    <3> QED
      BY <2>1, <2>2, <3>1, ReadableIs
  <2> QED
    BY <2>1, <2>3 DEF LinksInv
<1>6. CASE LoadObject
  <2>1. /\ pc = "LoadObjects" /\ pc' \in {"LoadObjects", "LoadLinks"}
        /\ pc' = "LoadLinks" => objects[i].class \in Loadable /\ i' = i
        /\ i \in 1 .. Len(objects) /\ at' = 1
        /\ UNCHANGED <<file, objects, objectHash>>
    BY <1>6 DEF LoadObject, parserVars, IInv, LoopInv, ObjectsInv
  <2>2. Len(objects[i].links) \in Nat
    <3>1. objects[i] \in Object
      BY <2>1 DEF IInv, ObjectsInv
    <3> QED
      BY <3>1 DEF Object
  <2> QED
    BY <2>1, <2>2 DEF LinksInv
<1>7. CASE LoadLink
  <2>1. /\ pc = "LoadLinks" /\ at <= Len(objects[i].links) /\ at' = at + 1
        /\ at \in Nat
        /\ UNCHANGED <<file, pc, i, objects, objectHash>>
    BY <1>7 DEF LoadLink, parserVars, IInv, LoopInv
  <2>2. Len(objects[i].links) \in Nat
    <3>1. objects[i] \in Object
      BY <2>1 DEF IInv, LoopInv, ObjectsInv
    <3> QED
      BY <3>1 DEF Object
  <2> QED
    BY <2>1, <2>2 DEF LinksInv
<1>8. CASE AddProcess \/ DetectCycles \/ Start \/ SetLink \/ StartThreads
  <2>1. /\ pc \in {"LoadObjects", "LoadLinks", "Loaded", "Started", "SetLinks"}
        /\ pc' \in {"LoadObjects", "Loaded", "Started", "SetLinks", "Crashed",
                    "NoWriter", "NoReader"}
        /\ UNCHANGED <<file, objects, objectHash>>
    BY <1>8 DEF AddProcess, DetectCycles, Start, SetLink, StartThreads, Enter,
                parserVars
  <2> QED
    BY <2>1 DEF LinksInv
<1>9. CASE UNCHANGED vars
  BY <1>9 DEF vars, parserVars, LinksInv
<1> QED
  BY <1>1, <1>2, <1>3, <1>4, <1>5, <1>6, <1>7, <1>8, <1>9 DEF Next

\* The blocks stay, and the place of the loops changes nothing that counts.
LEMMA BlocksStay ==
  ASSUME IInv, BlocksInv, UNCHANGED objectHash, BlockLinks' = BlockLinks,
         \A o \in 0 .. Len(objects) :
           BlocksFrom(pc', i', at', objects', o)
             = BlocksFrom(pc, i, at, objects, o)
  PROVE  BlocksInv'
<1> SUFFICES ASSUME NEW n \in Names
             PROVE  WrittenBy(BlockLinks', n)
                      = BlocksFrom(pc', i', at', objects', objectHash'[n])
  BY DEF BlocksInv
<1>1. objectHash[n] \in 0 .. Len(objects)
  BY DEF IInv, ObjectsInv
<1> QED
  BY <1>1 DEF BlocksInv

\* One link becomes a block.
LEMMA LoadLinkBlocks ==
  ASSUME IInv, LinksInv, BlocksInv, LoadLink
  PROVE  BlocksInv'
<1> DEFINE link == objects[i].links[at]
<1>1. i \in 1 .. Len(objects) /\ objects[i] \in Object
  BY DEF IInv, LoopInv, ObjectsInv, LoadLink
<1>2. PICK ls \in Seq(Link) : ls = objects[i].links
  BY <1>1 DEF Object
<1>3. PICK a \in 0 .. Len(ls) : a = at - 1 /\ a < Len(ls)
  BY <1>2 DEF IInv, LoopInv, LoadLink
<1>4. at = a + 1 /\ at' = at + 1 /\ at' - 1 = a + 1
  BY <1>3 DEF IInv, LoopInv, LoadLink
<1>5. PICK x \in Link : x = link /\ x = ls[a + 1]
  BY <1>2, <1>3, <1>4
<1>6. x.writer = objects[i].name
  <2>1. at \in 1 .. Len(objects[i].links)
    BY <1>2, <1>3, <1>4
  <2> QED
    BY <1>1, <1>5, <2>1 DEF IInv, ObjectsInv
<1>7. NewDataBlock(x) \in DataBlock /\ NewDataBlock(x).link = x
  BY DEF NewDataBlock, DataBlock
<1>8. /\ dataBlocks' = Append(dataBlocks, NewDataBlock(x))
      /\ pc = "LoadLinks"
      /\ UNCHANGED <<pc, i, objects, objectHash>>
  BY <1>5 DEF LoadLink, parserVars
<1> HIDE DEF link
<1>9. BlockLinks \in Seq(Link)
  <2>1. PICK bs \in Seq(DataBlock) : bs = dataBlocks
    BY DEF IInv, SystemInv
  <2>2. ASSUME NEW b \in 1 .. Len(bs) PROVE bs[b].link \in Link
    <3>1. bs[b] \in DataBlock
      OBVIOUS
    <3> QED
      BY <3>1 DEF DataBlock
  <2>3. Len(bs) \in Nat /\ DOMAIN bs = 1 .. Len(bs)
    OBVIOUS
  <2>4. [b \in 1 .. Len(bs) |-> bs[b].link] \in Seq(Link)
    BY <2>2, <2>3
  <2> QED
    BY <2>1, <2>3, <2>4 DEF BlockLinks
<1>10. BlockLinks' = Append(BlockLinks, x)
  BY <1>7, <1>8 DEF BlockLinks, IInv, SystemInv
<1>11. i = objectHash[objects[i].name]
  <2>1. HasItsOf(objects, objectHash, i, Readable(file.links))
    BY <1>1, <1>8 DEF LinksInv
  <2>2. objects[i].links # <<>>
    BY <1>2, <1>3
  <2> QED
    BY <2>1, <2>2 DEF HasItsOf
<1>12. objects[i].class \in Loadable
  BY <1>8 DEF LinksInv
<1>13. SubSeq(ls, 1, a + 1) = Append(SubSeq(ls, 1, a), x)
  BY <1>3, <1>5, PrefixStep
<1> SUFFICES ASSUME NEW n \in Names
             PROVE  WrittenBy(BlockLinks', n)
                      = BlocksFrom(pc', i', at', objects', objectHash'[n])
  BY DEF BlocksInv
<1>14. WrittenBy(BlockLinks', n) = IF x.writer = n
                                   THEN Append(WrittenBy(BlockLinks, n), x)
                                   ELSE WrittenBy(BlockLinks, n)
  BY <1>9, <1>10, WrittenByAppend
<1>15. PICK o \in 0 .. Len(objects) :
         o = objectHash[n] /\ (o # 0 => objects[o].name = n)
  BY DEF IInv, ObjectsInv
<1>16. WrittenBy(BlockLinks, n) = BlocksFrom(pc, i, at, objects, o)
  BY <1>15 DEF BlocksInv
<1>17. x.writer = n <=> o = i
  BY <1>1, <1>6, <1>11, <1>15
<1>18. CASE o = i
  <2>1. BlocksFrom(pc, i, at, objects, o) = SubSeq(ls, 1, a)
    BY <1>1, <1>2, <1>3, <1>8, <1>12, <1>18 DEF BlocksFrom
  <2>2. BlocksFrom(pc', i', at', objects', o) = SubSeq(ls, 1, a + 1)
    BY <1>1, <1>2, <1>4, <1>8, <1>12, <1>18 DEF BlocksFrom
  <2> QED
    BY <1>8, <1>13, <1>14, <1>15, <1>16, <1>17, <1>18, <2>1, <2>2
<1>19. CASE o # i
  <2>1. BlocksFrom(pc', i', at', objects', o)
          = BlocksFrom(pc, i, at, objects, o)
    BY <1>8, <1>19 DEF BlocksFrom
  <2> QED
    BY <1>8, <1>14, <1>15, <1>16, <1>17, <1>19, <2>1
<1> QED
  BY <1>18, <1>19

\* SetLink() leaves the link of a block alone.
LEMMA SetLinkKeepsLinks ==
  ASSUME IInv, SetLink
  PROVE  BlockLinks' = BlockLinks
<1> DEFINE writer == FindNamed(dataBlocks[i].link.writer)
           reader == FindNamed(dataBlocks[i].link.reader)
           new    == [dataBlocks EXCEPT ![i].writerThread = writer,
                                        ![i].readerThread = reader]
           block  == [dataBlocks[i] EXCEPT !.writerThread = writer,
                                           !.readerThread = reader]
<1>1. /\ i \in 1 .. Len(dataBlocks)
      /\ dataBlocks \in Seq(DataBlock) /\ dataBlocks[i] \in DataBlock
  BY DEF IInv, LoopInv, SystemInv, SetLink
<1>2. dataBlocks' = dataBlocks \/ dataBlocks' = new
  BY <1>1 DEF SetLink
<1> HIDE DEF writer, reader
<1>3. block.link = dataBlocks[i].link
  BY <1>1 DEF DataBlock
<1>4. new = [dataBlocks EXCEPT ![i] = block]
  BY <1>1
<1> HIDE DEF block, new
<1>5. /\ DOMAIN dataBlocks' = DOMAIN dataBlocks
      /\ \A b \in DOMAIN dataBlocks : dataBlocks'[b].link = dataBlocks[b].link
  BY <1>1, <1>2, <1>3, <1>4
<1> QED
  BY <1>5 DEF BlockLinks

LEMMA BlocksPreserves ==
  ASSUME IInv, LinksInv, BlocksInv, [Next]_vars
  PROVE  BlocksInv'
<1> DEFINE Same == \A o \in 0 .. Len(objects) :
                     BlocksFrom(pc', i', at', objects', o)
                       = BlocksFrom(pc, i, at, objects, o)
<1>1. i \in Nat \ {0} /\ Len(objects) \in Nat
  BY DEF IInv, LoopInv, ObjectsInv
<1>2. CASE Parse \/ ParseObject \/ ParseLink
  <2>1. /\ pc \in {"Parse", "ParseObjects", "ParseLinks"}
        /\ pc' \in {"ParseObjects", "ParseLinks", "Exited"}
        /\ UNCHANGED dataBlocks
    BY <1>2 DEF Parse, ParseObject, ParseLink, Enter, systemVars
  <2>2. /\ \A n \in Names : WrittenBy(BlockLinks, n) = <<>>
        /\ BlockLinks' = BlockLinks
    BY <2>1 DEF BlocksInv, BlocksFrom, BlockLinks
  <2>3. \A o : BlocksFrom(pc', i', at', objects', o) = <<>>
    BY <2>1 DEF BlocksFrom
  <2> QED
    BY <2>2, <2>3 DEF BlocksInv
<1>3. CASE \/ ParseNext \/ LoadObject \/ AddProcess \/ DetectCycles \/ Start
           \/ SetLink \/ StartThreads \/ UNCHANGED vars
  <2>1. UNCHANGED <<objects, objectHash>>
    BY <1>3 DEF ParseNext, LoadObject, AddProcess, DetectCycles, Start,
                SetLink, StartThreads, parserVars, vars
  <2>2. BlockLinks' = BlockLinks
    <3>1. CASE ~ SetLink
      <4>1. UNCHANGED dataBlocks
        BY <1>3, <3>1 DEF ParseNext, LoadObject, AddProcess, DetectCycles,
                          Start, StartThreads, systemVars, vars
      <4> QED
        BY <4>1 DEF BlockLinks
    <3> QED
      BY <3>1, SetLinkKeepsLinks
  <2>3. CASE ParseNext
    <3>1. /\ pc \in {"ParseObjects", "ParseLinks"}
          /\ pc' \in {"ParseLinks", "LoadObjects"} /\ i' = 1
      BY <2>3 DEF ParseNext, Enter
    <3>2. Same
      BY <2>1, <3>1 DEF BlocksFrom
    <3> QED
      BY <2>1, <2>2, <3>2, BlocksStay
  <2>4. CASE LoadObject /\ objects[i].class \in Loadable
    <3>1. /\ pc = "LoadObjects" /\ pc' = "LoadLinks" /\ i' = i
          /\ at' - 1 = 0
      BY <2>4 DEF LoadObject
    <3>2. SubSeq(objects[i].links, 1, at' - 1) = <<>>
      BY <3>1, SubSeqEmpty
    <3>3. ASSUME NEW o \in 0 .. Len(objects)
          PROVE  BlocksFrom(pc', i', at', objects', o)
                   = BlocksFrom(pc, i, at, objects, o)
      <4>1. CASE o = i
        <5>1. BlocksFrom(pc', i', at', objects', o) = <<>>
          BY <1>1, <2>1, <2>4, <3>1, <3>2, <4>1 DEF BlocksFrom
        <5>2. BlocksFrom(pc, i, at, objects, o) = <<>>
          BY <1>1, <3>1, <4>1 DEF BlocksFrom
        <5> QED
          BY <5>1, <5>2
      <4>2. CASE o # i
        BY <1>1, <2>1, <3>1, <4>2 DEF BlocksFrom
      <4> QED
        BY <4>1, <4>2
    <3> QED
      BY <2>1, <2>2, <3>3, BlocksStay
  <2>5. CASE LoadObject /\ objects[i].class \notin Loadable
    <3>1. pc = "LoadObjects" /\ pc' = "LoadObjects" /\ i' = i + 1
      BY <2>5 DEF LoadObject
    <3>2. Same
      BY <1>1, <2>1, <2>5, <3>1 DEF BlocksFrom
    <3> QED
      BY <2>1, <2>2, <3>2, BlocksStay
  <2>6. CASE AddProcess
    <3>1. /\ pc = "LoadLinks" /\ pc' = "LoadObjects" /\ i' = i + 1
          /\ i \in 1 .. Len(objects)
          /\ at > Len(objects[i].links) /\ at \in Nat
      BY <2>6 DEF AddProcess, IInv, LoopInv
    <3>2. PICK ls \in Seq(Link) : ls = objects[i].links
      <4>1. objects[i] \in Object
        BY <3>1 DEF IInv, ObjectsInv
      <4> QED
        BY <4>1 DEF Object
    <3>3. at - 1 = Len(ls) /\ objects[i].class \in Loadable
      <4>1. at <= Len(ls) + 1 /\ Len(ls) \in Nat
        BY <3>1, <3>2 DEF LinksInv
      <4> QED
        BY <3>1, <3>2, <4>1 DEF LinksInv
    <3>4. SubSeq(ls, 1, Len(ls)) = ls
      OBVIOUS
    <3>5. SubSeq(objects[i].links, 1, at - 1) = objects[i].links
      BY <3>2, <3>3, <3>4
    <3>6. ASSUME NEW o \in 0 .. Len(objects)
          PROVE  BlocksFrom(pc', i', at', objects', o)
                   = BlocksFrom(pc, i, at, objects, o)
      <4>1. CASE o = i
        <5>1. BlocksFrom(pc, i, at, objects, o)
                = SubSeq(objects[i].links, 1, at - 1)
          BY <1>1, <3>1, <3>3, <4>1 DEF BlocksFrom
        <5>2. BlocksFrom(pc', i', at', objects', o) = objects[i].links
          BY <1>1, <2>1, <3>1, <3>3, <4>1 DEF BlocksFrom
        <5> QED
          BY <3>5, <5>1, <5>2
      <4>2. CASE o # i
        BY <1>1, <2>1, <3>1, <4>2 DEF BlocksFrom
      <4> QED
        BY <4>1, <4>2
    <3> QED
      BY <2>1, <2>2, <3>6, BlocksStay
  <2>7. CASE DetectCycles
    <3>1. /\ pc = "LoadObjects" /\ pc' \in {"Loaded", "Crashed"}
          /\ i > Len(objects)
      BY <2>7 DEF DetectCycles, Enter
    <3>2. Same
      BY <1>1, <2>1, <3>1 DEF BlocksFrom
    <3> QED
      BY <2>1, <2>2, <3>2, BlocksStay
  <2>8. CASE Start \/ SetLink \/ StartThreads
    <3>1. /\ pc \in {"Loaded", "SetLinks", "Started"}
          /\ pc' \in {"SetLinks", "Started", "NoWriter", "NoReader"}
      BY <2>8 DEF Start, SetLink, StartThreads, Enter
    <3>2. Same
      BY <1>1, <2>1, <3>1 DEF BlocksFrom
    <3> QED
      BY <2>1, <2>2, <3>2, BlocksStay
  <2>9. CASE UNCHANGED vars
    <3>1. Same
      BY <2>9 DEF vars, parserVars
    <3> QED
      BY <2>1, <2>2, <3>1, BlocksStay
  <2> QED
    BY <1>3, <2>3, <2>4, <2>5, <2>6, <2>7, <2>8, <2>9
<1> QED
  BY <1>2, <1>3, LoadLinkBlocks DEF Next

\* Each link of the file goes to the object that answers to its writer, and
\* from it to the blocks.
THEOREM FileBlocksInvariance == Spec => []FileBlocksInv
<1>1. Init => FileBlocksInv
  <2> SUFFICES ASSUME Init PROVE FileBlocksInv
    OBVIOUS
  <2>1. pc = "Parse" /\ objects = <<>> /\ dataBlocks = <<>>
    BY DEF Init
  <2>2. HashInv /\ LinksInv
    BY <2>1 DEF HashInv, LinksInv
  <2>3. BlockLinks = <<>>
    BY <2>1 DEF BlockLinks
  <2>4. BlocksInv
    BY <2>1, <2>3, WrittenByEmpty DEF BlocksInv, BlocksFrom
  <2> QED
    BY <2>2, <2>4 DEF FileBlocksInv
<1>2. IInv /\ FileBlocksInv /\ [Next]_vars => FileBlocksInv'
  BY HashPreserves, LinksPreserves, BlocksPreserves DEF FileBlocksInv
<1> QED
  BY <1>1, <1>2, Invariance, PTL DEF Spec

\* The parser reads a list up to some place.
LEMMA ReadsSome ==
  ASSUME NEW S, NEW s \in Seq(S)
  PROVE  \E m \in 0 .. Len(s) : AreRead(s, m)
<1> DEFINE I == {k \in 1 .. Len(s) : ~ Whole(s[k])}
<1>1. CASE I = {}
  <2>1. AreRead(s, Len(s))
    BY <1>1 DEF AreRead
  <2> QED
    BY <2>1
<1>2. CASE I # {}
  <2>1. I \subseteq Nat
    OBVIOUS
  <2>2. Min(I) \in I /\ \A k \in I : Min(I) <= k
    <3> HIDE DEF I
    <3> QED
      BY <1>2, <2>1, MinIsElement, MinIsLeast
  <2>3. PICK b : b = Min(I)
    OBVIOUS
  <2>4. /\ b \in 1 .. Len(s) /\ ~ Whole(s[b])
        /\ \A k \in 1 .. Len(s) : ~ Whole(s[k]) => b <= k
    BY <2>2, <2>3
  <2>5. b - 1 \in 0 .. Len(s) /\ (b - 1) + 1 = b
    BY <2>4
  <2>6. ASSUME NEW k \in 1 .. b - 1 PROVE Whole(s[k])
    <3>1. k \in 1 .. Len(s) /\ ~ (b <= k)
      BY <2>4
    <3> QED
      BY <2>4, <3>1
  <2>7. AreRead(s, b - 1)
    BY <2>4, <2>5, <2>6 DEF AreRead
  <2> QED
    BY <2>5, <2>7
<1> QED
  BY <1>1, <1>2

\* A list that lacks nothing is read to its end.
LEMMA AllIsReadable ==
  ASSUME NEW S, NEW s \in Seq(S), \A k \in 1 .. Len(s) : Whole(s[k])
  PROVE  Readable(s) = s
<1>1. AreRead(s, Len(s)) /\ Len(s) \in Nat /\ SubSeq(s, 1, Len(s)) = s
  BY DEF AreRead
<1> QED
  BY <1>1, ReadableIs

LEMMA PrefixOfConcat ==
  ASSUME NEW S, NEW u \in Seq(S), NEW v \in Seq(S)
  PROVE  IsPrefix(u, u \o v)
<1>1. PICK w \in Seq(S) : w = u \o v
  BY ConcatProperties
<1>2. /\ Len(w) = Len(u) + Len(v) /\ Len(u) \in Nat /\ Len(v) \in Nat
      /\ \A k \in 1 .. Len(u) : w[k] = u[k]
  BY <1>1
<1>3. SubSeq(w, 1, Len(u)) = u /\ SubSeq(u, 1, Len(u)) = u
  BY <1>2
<1> QED
  BY <1>1, <1>2, <1>3 DEF IsPrefix

\* What is read of the links comes first among those that lack nothing.
LEMMA ReadComesFirst ==
  ASSUME NEW S, NEW f \in Seq(S), NEW n
  PROVE  /\ IsPrefix(WrittenBy(Readable(f), n), WholeWrittenBy(f, n))
         /\ IsPrefix(<<>>, WholeWrittenBy(f, n))
<1>1. PICK m \in 0 .. Len(f) : AreRead(f, m)
  BY ReadsSome
<1> DEFINE s == SubSeq(f, 1, m)
           t == SubSeq(f, m + 1, Len(f))
           P == {k \in DOMAIN f : Whole(f[k]) /\ f[k].writer = n}
           Q == {k \in 1 .. Len(t) : m + k \in P}
           R == {k \in DOMAIN s : s[k].writer = n}
<1>2. Readable(f) = s
  BY <1>1, ReadableIs
<1>3. /\ s \in Seq(S) /\ Len(s) = m /\ DOMAIN s = 1 .. m
      /\ \A k \in 1 .. m : s[k] = f[k] /\ k \in DOMAIN f
      /\ t \in Seq(S) /\ Len(t) = Len(f) - m
      /\ s \o t = f
  <2>1. /\ s \in Seq(S) /\ Len(s) = m /\ DOMAIN s = 1 .. m
        /\ \A k \in 1 .. m : s[k] = f[k] /\ k \in DOMAIN f
    OBVIOUS
  <2>2. /\ t \in Seq(S) /\ Len(t) = Len(f) - m
        /\ \A k \in 1 .. Len(f) - m : t[k] = f[m + k]
    OBVIOUS
  <2>3. PICK w \in Seq(S) : w = s \o t
    BY <2>1, <2>2, ConcatProperties
  <2> HIDE DEF s, t
  <2>4. /\ Len(w) = Len(f)
        /\ \A k \in 1 .. Len(f) : w[k] = IF k <= m THEN s[k] ELSE t[k - m]
    <3>1. /\ Len(w) = Len(s) + Len(t)
          /\ \A k \in 1 .. Len(s) + Len(t) :
               w[k] = IF k <= Len(s) THEN s[k] ELSE t[k - Len(s)]
      BY <2>1, <2>2, <2>3, ConcatProperties
    <3>2. Len(s) + Len(t) = Len(f)
      BY <2>1, <2>2
    <3> QED
      BY <2>1, <3>1, <3>2
  <2>5. ASSUME NEW k \in 1 .. Len(f) PROVE w[k] = f[k]
    <3>1. CASE k <= m
      <4>1. k \in 1 .. m
        BY <3>1
      <4> QED
        BY <2>1, <2>4, <3>1, <4>1
    <3>2. CASE ~ (k <= m)
      <4>1. k - m \in 1 .. Len(f) - m /\ m + (k - m) = k
        BY <3>2
      <4> QED
        BY <2>2, <2>4, <3>2, <4>1
    <3> QED
      BY <3>1, <3>2
  <2>6. w = f
    BY <2>4, <2>5
  <2> QED
    BY <2>1, <2>2, <2>3, <2>6
<1>4. \A k \in 1 .. m : k \in P <=> k \in R
  BY <1>1, <1>3 DEF AreRead
<1>5. \A k \in 1 .. Len(t) : k \in Q <=> Len(s) + k \in P
  BY <1>3
<1>6. WrittenBy(s, n) = ElementsAt(s, R)
  BY DEF WrittenBy
<1>7. WholeWrittenBy(f, n) = ElementsAt(f, P)
  BY DEF WholeWrittenBy
<1> HIDE DEF s, t, P, Q, R
<1>8. ElementsAt(s, R) = ElementsAt(s, P)
  <2>1. \A k \in 1 .. Len(s) : k \in R <=> k \in P
    BY <1>3, <1>4
  <2>2. Len(s) \in Nat
    BY <1>3
  <2> QED
    BY <2>1, <2>2, ElementsAtSame
<1>9. ElementsAt(f, P) = ElementsAt(s, P) \o ElementsAt(t, Q)
  <2>1. s \in Seq(S) /\ t \in Seq(S) /\ f = s \o t
    BY <1>3
  <2>2. ElementsAt(s \o t, P) = ElementsAt(s, P) \o ElementsAt(t, Q)
    BY <1>5, <2>1, ElementsAtConcat
  <2> QED
    BY <2>1, <2>2, Zenon
<1>10. ElementsAt(s, P) \in Seq(S) /\ ElementsAt(t, Q) \in Seq(S)
  BY <1>3, ElementsAtType
<1>11. IsPrefix(ElementsAt(s, P), ElementsAt(f, P))
  BY <1>9, <1>10, PrefixOfConcat
<1>12. IsPrefix(<<>>, ElementsAt(f, P))
  <2>1. PICK w \in Seq(S) : w = ElementsAt(f, P)
    BY <1>9, <1>10, ConcatProperties
  <2>2. <<>> \in Seq(S) /\ <<>> \o w = w
    OBVIOUS
  <2> QED
    BY <2>1, <2>2, PrefixOfConcat
<1> QED
  BY <1>2, <1>6, <1>7, <1>8, <1>11, <1>12

\* The blocks of a writer are the links that could be read.
LEMMA BlocksAreTheReadable ==
  ASSUME IInv, ReaderInv, FileBlocksInv, IsLoadingDone, NEW n \in Names
  PROVE  WrittenBy(BlockLinks, n) =
           IF IsLoaded(Readable(file.objects), n)
           THEN WrittenBy(Readable(file.links), n) ELSE <<>>
<1>1. pc \in {"Loaded", "SetLinks", "Started"}
  BY DEF IsLoadingDone
<1>2. StopsAfter(Len(objects)) /\ ReadInv
  BY <1>1 DEF ReaderInv, ReadInv
<1>3. IsLoaded(Readable(file.objects), n)
        <=> /\ objectHash[n] # 0
            /\ objects[objectHash[n]].class \in Loadable
  BY <1>2, LoadedIs DEF FileBlocksInv
<1>4. PICK o \in 0 .. Len(objects) :
        o = objectHash[n] /\ (o # 0 => objects[o].name = n)
  BY DEF IInv, ObjectsInv
<1>5. WrittenBy(BlockLinks, n) = BlocksFrom(pc, i, at, objects, o)
  BY <1>4 DEF FileBlocksInv, BlocksInv
<1>6. CASE o = 0
  BY <1>3, <1>4, <1>5, <1>6 DEF BlocksFrom
<1>7. CASE o # 0
  <2>1. HasItsOf(objects, objectHash, o, Readable(file.links))
    BY <1>1, <1>7 DEF FileBlocksInv, LinksInv
  <2>2. objects[o].links = WrittenBy(Readable(file.links), n)
    BY <1>4, <1>7, <2>1 DEF HasItsOf
  <2> QED
    BY <1>1, <1>3, <1>4, <1>5, <1>7, <2>2 DEF BlocksFrom
<1> QED
  BY <1>6, <1>7

\* When the loader is done, the data blocks of a writer are links of the file,
\* in its order and none twice; and they are all those of a loaded writer, if
\* no element of the file lacks an attribute (GRIParser.cpp:100-131,
\* GRILoader.cpp:75-114).
THEOREM BlocksMatch == Spec => []BlocksAreTheLinks
<1>1. IInv /\ ReaderInv /\ FileBlocksInv => BlocksAreTheLinks
  <2> SUFFICES ASSUME IInv, ReaderInv, FileBlocksInv, IsLoadingDone,
                      NEW n \in Names
               PROVE
                 /\ IsPrefix(WrittenBy(BlockLinks, n),
                             WholeWrittenBy(file.links, n))
                 /\ NothingBroken =>
                      WrittenBy(BlockLinks, n) =
                        IF IsLoaded(file.objects, n)
                        THEN WrittenBy(file.links, n) ELSE <<>>
    BY DEF BlocksAreTheLinks
  <2>1. WrittenBy(BlockLinks, n) =
          IF IsLoaded(Readable(file.objects), n)
          THEN WrittenBy(Readable(file.links), n) ELSE <<>>
    BY BlocksAreTheReadable
  <2>2. PICK os \in Seq(ObjectElement), ls \in Seq(LinkElement) :
          os = file.objects /\ ls = file.links
    BY DEF IInv, FileInv
  <2>3. /\ IsPrefix(WrittenBy(Readable(ls), n), WholeWrittenBy(ls, n))
        /\ IsPrefix(<<>>, WholeWrittenBy(ls, n))
    BY ReadComesFirst
  <2>4. ASSUME NothingBroken
        PROVE  Readable(os) = os /\ Readable(ls) = ls
    <3>1. /\ \A k \in 1 .. Len(os) : os[k] \in ToSet(os)
          /\ \A k \in 1 .. Len(ls) : ls[k] \in ToSet(ls)
      BY DEF ToSet
    <3>2. \A e \in ToSet(os) \union ToSet(ls) : Whole(e)
      BY <2>2, <2>4 DEF NothingBroken
    <3>3. \A k \in 1 .. Len(os) : Whole(os[k])
      BY <3>1, <3>2
    <3>4. \A k \in 1 .. Len(ls) : Whole(ls[k])
      BY <3>1, <3>2
    <3> QED
      BY <3>3, <3>4, AllIsReadable
  <2> QED
    BY <2>1, <2>2, <2>3, <2>4
<1> QED
  BY <1>1, Invariance, ReaderInvariance, FileBlocksInvariance, PTL
=============================================================================
