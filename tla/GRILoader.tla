------------------------------ MODULE GRILoader ------------------------------
(***************************************************************************)
(* How an application comes up: GRIParser takes objects and links from the *)
(* XML file, GRILoader creates the processes and the data blocks and looks *)
(* for cycles, and GRIRegulator::Start() connects the two and creates the  *)
(* buffers.  One thread runs; an action is one pass of a loop.             *)
(*                                                                         *)
(* An element of the file is the record of its attributes, None for one    *)
(* that is missing.  A file without the tag Links is one without links.    *)
(* Load() knows the classes of the application, and knows no others.       *)
(***************************************************************************)
EXTENDS SequencesExt, Lists

CONSTANTS
  Names,           \* the names of objects in the file
  Classes,         \* the names of classes in the file
  Loadable,        \* the classes that Load() can create
  Data,            \* the names of data in the file
  ObjectElements,  \* the object elements that occur
  LinkElements,    \* the link elements that occur
  MaxObjects,      \* bound on the elements of a file
  MaxLinks,        \* bound on the elements of a file
  None             \* a missing attribute, a missing entry of a hash

ObjectElement == [name : Names \union {None}, class : Classes \union {None}]

LinkElement == [writer : Names \union {None}, reader : Names \union {None},
                data : Data \union {None}]

ASSUME ElementsAssumption ==
  /\ ObjectElements \subseteq ObjectElement
  /\ LinkElements \subseteq LinkElement
  /\ None \notin Names \union Classes \union Data \union Nat
  /\ {MaxObjects, MaxLinks} \subseteq Nat

VARIABLES
  file,        \* the object and link elements of the XML file
  pc,          \* which loop runs
  i,           \* its counter
  at,          \* the element it stands on; in "LoadLinks", the link
  objects,     \* objs_and_links_: each object with its links
  objectHash,  \* object_hash_: from a name to a place in objects, or 0
  loading,     \* the process in the making
  processes,   \* processes_ of the regulator, each with its data_out_: from
               \*   a name of data to a place in dataBlocks, 0 for NULL
  dataBlocks,  \* data_blocks_ of the regulator; writerThread and reader-
               \*   Thread are places in processes, 0 for NULL
  nodeIndex,   \* node_index_: from a name to the number of its node
  edges,       \* edges_: pairs of nodes, from reader to writer
  warned,      \* DetectCycles() found a cycle
  buffers      \* the buffers of the memory manager, in order of creation

parserVars == <<objects, objectHash>>
systemVars == <<processes, dataBlocks, buffers>>
graphVars  == <<nodeIndex, edges, warned>>
vars == <<file, pc, i, at, parserVars, loading, systemVars, graphVars>>

-----------------------------------------------------------------------------

PCs == {"Parse", "ParseObjects", "ParseLinks", "LoadObjects", "LoadLinks",
        "Loaded", "SetLinks", "Started", "Exited", "Crashed", "NoWriter",
        "NoReader"}

Link == [writer : Names, reader : Names, data : Data]

Object == [name : Names, class : Classes, links : Seq(Link)]

Process == [name : Names, out : [Data -> Nat \union {None}]]

DataBlock == [link : Link, writerThread : Nat, readerThread : Nat]

Nodes == {n \in Names : nodeIndex[n] # None}

\* The graph has one node for each name that occurs in a data block.
TypeOK ==
  /\ pc \in PCs
  /\ {i, at} \subseteq Nat \ {0}
  /\ objects \in Seq(Object)
  /\ objectHash \in [Names -> 0..Len(objects)]
  /\ loading \in Process \union {None}
  /\ processes \in Seq(Process)
  /\ dataBlocks \in Seq(DataBlock)
  /\ {nodeIndex[n] : n \in Nodes} = 0..(Cardinality(Nodes) - 1)
  /\ \A e \in ToSet(edges) :
       \E r, w \in Nodes : e = <<nodeIndex[r], nodeIndex[w]>>
  /\ warned \in BOOLEAN
  /\ buffers \in Seq(Names \X Data)

NewProcess(name) == [name |-> name, out |-> [d \in Data |-> None]]

NewDataBlock(link) == [link |-> link, writerThread |-> 0, readerThread |-> 0]

Init ==
  /\ file \in [objects : BoundedSeq(ObjectElements, MaxObjects),
               links   : BoundedSeq(LinkElements, MaxLinks)]
  /\ pc = "Parse"
  /\ i = 1
  /\ at = 1
  /\ objects = <<>>
  /\ objectHash = [n \in Names |-> 0]
  /\ loading = None
  /\ processes = <<>>
  /\ dataBlocks = <<>>
  /\ nodeIndex = [n \in Names |-> None]
  /\ edges = <<>>
  /\ warned = FALSE
  /\ buffers = <<>>

-----------------------------------------------------------------------------
(* GRIParser::Parse().                                                     *)

\* From the end of one loop to the beginning of the next.
Enter(from, to) ==
  /\ pc = from
  /\ pc' = to
  /\ i' = 1
  /\ at' = 1

\* The file is there, is XML and has the tag Objects; or it is not, and
\* InitRegulatorDetails() exits.
Parse ==
  /\ Enter("Parse", "ParseObjects") \/ Enter("Parse", "Exited")
  /\ UNCHANGED <<file, parserVars, loading, systemVars, graphVars>>

Whole(element) == \A a \in DOMAIN element : element[a] # None

\* Mutant: the first object of a name keeps its entry in the hash.
ParseObjectKeepingFirst ==
  LET e == file.objects[at] IN
  /\ pc = "ParseObjects"
  /\ i <= Len(file.objects)
  /\ i' = i + 1
  /\ IF Whole(e)
     THEN /\ at' = at + 1
          /\ objects' = Append(objects, [name  |-> e.name,
                                         class |-> e.class,
                                         links |-> <<>>])
          /\ objectHash' = [objectHash EXCEPT ![e.name] =
                              IF @ = 0 THEN Len(objects) + 1 ELSE @]
     ELSE UNCHANGED <<at, parserVars>>
  /\ UNCHANGED <<file, pc, loading, systemVars, graphVars>>

\* An element with a missing attribute takes a pass of the loop, and the loop
\* stays on it.
ParseObject ==
  LET e == file.objects[at] IN
  /\ pc = "ParseObjects"
  /\ i <= Len(file.objects)
  /\ i' = i + 1
  /\ IF Whole(e)
     THEN /\ at' = at + 1
          /\ objects' = Append(objects, [name  |-> e.name,
                                         class |-> e.class,
                                         links |-> <<>>])
          /\ objectHash' = [objectHash EXCEPT ![e.name] = Len(objects) + 1]
     ELSE UNCHANGED <<at, parserVars>>
  /\ UNCHANGED <<file, pc, loading, systemVars, graphVars>>

\* Mutant: a link goes to its reader.
ParseLinkAtReader ==
  LET e == file.links[at] IN
  /\ pc = "ParseLinks"
  /\ i <= Len(file.links)
  /\ i' = i + 1
  /\ IF Whole(e)
     THEN /\ at' = at + 1
          /\ objects' = [o \in DOMAIN objects |->
                           IF o = objectHash[e.reader]
                           THEN [objects[o] EXCEPT !.links = Append(@, e)]
                           ELSE objects[o]]
     ELSE UNCHANGED <<at, objects>>
  /\ UNCHANGED <<file, pc, objectHash, loading, systemVars, graphVars>>

\* A link goes to the object that object_hash_ has for its writer, whose list
\* of links is shared with the copy in objs_and_links_; without one it is
\* dropped.
ParseLink ==
  LET e == file.links[at] IN
  /\ pc = "ParseLinks"
  /\ i <= Len(file.links)
  /\ i' = i + 1
  /\ IF Whole(e)
     THEN /\ at' = at + 1
          /\ objects' = [o \in DOMAIN objects |->
                           IF o = objectHash[e.writer]
                           THEN [objects[o] EXCEPT !.links = Append(@, e)]
                           ELSE objects[o]]
     ELSE UNCHANGED <<at, objects>>
  /\ UNCHANGED <<file, pc, objectHash, loading, systemVars, graphVars>>

ParseNext ==
  /\ \/ Enter("ParseObjects", "ParseLinks") /\ i > Len(file.objects)
     \/ Enter("ParseLinks", "LoadObjects") /\ i > Len(file.links)
  /\ UNCHANGED <<file, parserVars, loading, systemVars, graphVars>>

-----------------------------------------------------------------------------
(* GRILoader::InitRegulatorDetails().                                      *)

\* An object whose class Load() does not know is passed over.
LoadObject ==
  /\ pc = "LoadObjects"
  /\ i <= Len(objects)
  /\ IF objects[i].class \in Loadable
     THEN /\ loading' = NewProcess(objects[i].name)
          /\ pc' = "LoadLinks"
          /\ UNCHANGED i
     ELSE i' = i + 1 /\ UNCHANGED <<pc, loading>>
  /\ at' = 1
  /\ UNCHANGED <<file, parserVars, systemVars, graphVars>>

\* The number of the node of a name, where index has the nodes so far.
NodeOf(index, name) ==
  IF index[name] # None THEN index[name]
  ELSE Cardinality({n \in Names : index[n] # None})

\* Mutant: both numbers are taken before a node is inserted.
UpdateGraphAtOnce(reader, writer) ==
  /\ nodeIndex' = [nodeIndex EXCEPT
                     ![reader] = NodeOf(nodeIndex, reader),
                     ![writer] = NodeOf(nodeIndex, writer)]
  /\ edges' = Append(edges, <<NodeOf(nodeIndex, reader),
                              NodeOf(nodeIndex, writer)>>)

UpdateGraph(reader, writer) ==
  LET withReader == [nodeIndex EXCEPT ![reader] = NodeOf(nodeIndex, reader)]
  IN  /\ nodeIndex' = [withReader EXCEPT ![writer] = NodeOf(withReader, writer)]
      /\ edges' = Append(edges, <<nodeIndex'[reader], nodeIndex'[writer]>>)

\* AddDataBlock(), on the process that writes the link: objects have the
\* links they write, so data_in_ stays empty.
LoadLink ==
  LET link == objects[i].links[at] IN
  /\ pc = "LoadLinks"
  /\ at <= Len(objects[i].links)
  /\ at' = at + 1
  /\ loading' = [loading EXCEPT !.out[link.data] = 0]
  /\ dataBlocks' = Append(dataBlocks, NewDataBlock(link))
  /\ UpdateGraph(link.reader, link.writer)
  /\ UNCHANGED <<file, pc, i, parserVars, processes, warned, buffers>>

AddProcess ==
  /\ pc = "LoadLinks"
  /\ at > Len(objects[i].links)
  /\ pc' = "LoadObjects"
  /\ i' = i + 1
  /\ processes' = Append(processes, loading)
  /\ loading' = None
  /\ UNCHANGED <<file, at, parserVars, dataBlocks, buffers, graphVars>>

\* sizeof(edges) / sizeof(Edge) is 1: the graph has the first edge only, in
\* which the search finds a back edge if it is a loop.  With no edges it has
\* what lies behind an array of length 0.
DetectCycles ==
  /\ i > Len(objects)
  /\ IF edges = <<>>
     THEN /\ Enter("LoadObjects", "Loaded") \/ Enter("LoadObjects", "Crashed")
          /\ warned' \in BOOLEAN
     ELSE /\ Enter("LoadObjects", "Loaded")
          /\ warned' = (edges[1][1] = edges[1][2])
  /\ UNCHANGED <<file, parserVars, loading, systemVars, nodeIndex, edges>>

-----------------------------------------------------------------------------
(* GRIRegulator::Start(), up to StartThreads().                            *)

\* Mutant: the search stops before the last process.
FindNamedButLast(name) ==
  SelectInSubSeq(processes, 1, Len(processes) - 1, LAMBDA p : p.name = name)

\* The first process of a name, or 0.
FindNamed(name) == SelectInSeq(processes, LAMBDA p : p.name = name)

\* The last data block of a writer and a name, or NULL.
LastBlock(name, d) ==
  SelectLastInSeq(dataBlocks,
                  LAMBDA b : b.link.writer = name /\ b.link.data = d)

\* InitConfig(), the processes: each finds the blocks it writes among those
\* that AddDataBlock() announced; the last one of a name stays.
Start ==
  /\ Enter("Loaded", "SetLinks") \/ Enter("Started", "SetLinks")
  /\ processes' = [p \in DOMAIN processes |->
                     [processes[p] EXCEPT !.out =
                        [d \in Data |-> IF @[d] = None THEN None
                                        ELSE LastBlock(processes[p].name, d)]]]
  /\ UNCHANGED <<file, parserVars, loading, dataBlocks, buffers, graphVars>>

\* Mutant: a buffer is created again for every link.
BufferCreateAgain(writer, d) == buffers' = Append(buffers, <<writer, d>>)

\* BufferCreate() refuses a second buffer of the same name.
BufferCreate(writer, d) ==
  buffers' = IF <<writer, d>> \in ToSet(buffers) THEN buffers
             ELSE Append(buffers, <<writer, d>>)

\* InitConfig(), one data block: it finds its writer and its reader, or an
\* assertion fails.
SetLink ==
  LET link   == dataBlocks[i].link
      writer == FindNamed(link.writer)
      reader == FindNamed(link.reader)
  IN
  /\ pc = "SetLinks"
  /\ i <= Len(dataBlocks)
  /\ IF writer = 0
     THEN pc' = "NoWriter" /\ UNCHANGED <<i, dataBlocks, buffers>>
     ELSE /\ BufferCreate(link.writer, link.data)
          /\ dataBlocks' = [dataBlocks EXCEPT ![i].writerThread = writer,
                                              ![i].readerThread = reader]
          /\ IF reader = 0 THEN pc' = "NoReader" /\ UNCHANGED i
                           ELSE i' = i + 1 /\ UNCHANGED pc
  /\ UNCHANGED <<file, at, parserVars, loading, processes, graphVars>>

\* StartThreads(): GRIDAQThread goes on from here.
StartThreads ==
  /\ i > Len(dataBlocks)
  /\ Enter("SetLinks", "Started")
  /\ UNCHANGED <<file, parserVars, loading, systemVars, graphVars>>

Next ==
  \/ Parse
  \/ ParseObject
  \/ ParseLink
  \/ ParseNext
  \/ LoadObject
  \/ LoadLink
  \/ AddProcess
  \/ DetectCycles
  \/ Start
  \/ SetLink
  \/ StartThreads

Spec == Init /\ [][Next]_vars

-----------------------------------------------------------------------------
(* What the file means, and what the program makes of it.                  *)

\* The elements up to the first one with a missing attribute.
Readable(elements) ==
  LET broken == SelectInSeq(elements, LAMBDA e : ~ Whole(e))
  IN  IF broken = 0 THEN elements ELSE SubSeq(elements, 1, broken - 1)

\* The object that answers to a name is the last one of the name.
IsLoaded(elements, name) ==
  LET last == SelectLastInSeq(elements, LAMBDA e : e.name = name)
  IN  last # 0 /\ elements[last].class \in Loadable

\* The links of a list that have the writer, and those of them with all their
\* attributes.
WrittenBy(links, name) ==
  ElementsAt(links, {k \in DOMAIN links : links[k].writer = name})

WholeWrittenBy(links, name) ==
  ElementsAt(links, {k \in DOMAIN links : /\ Whole(links[k])
                                          /\ links[k].writer = name})

BlockLinks == [b \in DOMAIN dataBlocks |-> dataBlocks[b].link]

NothingBroken == \A e \in ToSet(file.objects) \union ToSet(file.links) : Whole(e)

IsLoadingDone == pc \in {"Loaded", "SetLinks", "Started"}

\* The data blocks of a writer are links of the file, in its order, none of
\* them twice and none with a missing attribute; and when the file lacks no
\* attribute, each link whose writer is loaded has become one
\* (GRIParser.cpp:100-131, GRILoader.cpp:75-114).
BlocksAreTheLinks ==
  IsLoadingDone =>
    \A n \in Names :
      /\ IsPrefix(WrittenBy(BlockLinks, n), WholeWrittenBy(file.links, n))
      /\ NothingBroken =>
           WrittenBy(BlockLinks, n) =
             IF IsLoaded(file.objects, n) THEN WrittenBy(file.links, n)
             ELSE <<>>

\* "Skipping that object...", "Skipping that link..." (GRIParser.cpp:66, 72,
\* 103, 109, 115): an element with a missing attribute is passed over, and
\* those behind it are read.  It is not so: the loop stays on the element.
BrokenAreSkipped ==
  IsLoadingDone =>
    \A n \in Names :
      WrittenBy(BlockLinks, n) =
        IF IsLoaded(SelectSeq(file.objects, Whole), n)
        THEN WholeWrittenBy(file.links, n) ELSE <<>>

\* "Writer SHOULD exist" (GRIDataBlock.cpp:92): whatever the file says, the
\* assertion about the writer of a data block holds.
WriterShouldExist == pc # "NoWriter"

\* The assertion about the reader fails only for a link whose reader was not
\* loaded under any object of that name (GRIDataBlock.cpp:95-118).
OnlyMissingReadersAbort ==
  pc = "NoReader" =>
    \E n \in Names :
      /\ \E b \in ToSet(dataBlocks) : b.link.reader = n
      /\ \A e \in ToSet(Readable(file.objects)) :
           e.name = n => e.class \notin Loadable

\* When the threads start, every data block has its writer, its reader and
\* one buffer, and every name of data that a process writes leads to a block
\* of its own: what GRIRegulator takes for granted (GRIRegulator.cpp:40-56).
StartedIsLinked ==
  pc = "Started" =>
    /\ \A b \in ToSet(dataBlocks) :
         /\ b.writerThread # 0
         /\ processes[b.writerThread].name = b.link.writer
         /\ b.readerThread # 0
         /\ processes[b.readerThread].name = b.link.reader
    /\ ToSet(buffers) =
         {<<b.link.writer, b.link.data>> : b \in ToSet(dataBlocks)}
    /\ IsInjective(buffers)
    /\ \A p \in ToSet(processes), d \in Data :
         p.out[d] # None => /\ p.out[d] # 0
                            /\ dataBlocks[p.out[d]].link.writer = p.name
                            /\ dataBlocks[p.out[d]].link.data = d

\* A set of names of which each reads what another one of them writes.
CycleExists ==
  \E S \in (SUBSET Names) \ {{}} :
    \A n \in S : \E b \in ToSet(dataBlocks) :
      b.link.reader = n /\ b.link.writer \in S

\* A warning about a cycle is true, except in an application without links
\* (GRILoader.cpp:132-168).
WarningIsTrue == warned /\ edges # <<>> => CycleExists
=============================================================================
