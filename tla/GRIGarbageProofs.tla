-------------------------- MODULE GRIGarbageProofs --------------------------
(***************************************************************************)
(* Proofs about GRIGarbage, for any number of analysis threads, packets in *)
(* a round and addresses of the allocator.  The variables keep their       *)
(* types.  As long as no two threads were inside the critical section at   *)
(* once and no list was kept, every packet is freed once, none while a     *)
(* thread holds it, and all of a round when its collection ends: what can  *)
(* go wrong in the deletion goes wrong by the second unlock of gc_mutex_   *)
(* or by the list that ReadGarbageCollection() keeps after a refused read, *)
(* and by nothing else.  One thread alone never overlaps with itself.      *)
(*                                                                         *)
(* The invariant behind it: an allocated address is held by exactly one    *)
(* thread, and registered exactly once unless that thread has it in hand.  *)
(* So the search of GarbageCollection() finds nothing for an address that  *)
(* was just allocated and finds the next one of the list, and what it      *)
(* takes out is no other thread's.                                         *)
(***************************************************************************)
EXTENDS GRIGarbage, Lists

\* The loop of GarbageCollection(QList) starts at the first address.
TypeInv == TypeOK /\ \A t \in Readers : gc[t].next # 0

-----------------------------------------------------------------------------
(* The inductive invariant.                                                *)

\* One thread at a time is between the lock and the first unlock.
SerialInv ==
  \A t, u \in Readers : pc[t] \in InsidePCs /\ pc[u] \in InsidePCs => t = u

\* The call of GarbageCollection() that a thread is in.
CallInv(t) ==
  /\ pc[t] = "Analyze" => ~ gc[t].collecting
  /\ pc[t] \in {"Collect", "Take", "Delete", "Unlock"} => gc[t].collecting
  /\ gc[t].collecting /\ pc[t] = "Register" => gc[t].p = Null
  /\ gc[t].collecting /\ pc[t] # "Collect" =>
       gc[t].next <= Len(readPtrs[t]) /\ gc[t].p = readPtrs[t][gc[t].next]
  /\ ~ gc[t].collecting /\ pc[t] # "Analyze" => gc[t].p # Null
  /\ pc[t] = "Take" =>
       gc[t].at \in DOMAIN registry /\ registry[gc[t].at] = gc[t].p
  /\ pc[t] = "Delete" => gc[t].taken = gc[t].p

\* The count of ReadGarbageCollection(), when no read of the list was refused.
CountInv(t) ==
  gc[t].collecting /\ Null \notin ToSet(readPtrs[t]) =>
    /\ gc[t].freed + 1 = gc[t].next
    /\ pc[t] = "Collect" => gc[t].next <= Len(readPtrs[t]) + 1
    /\ pc[t] \in {"Delete", "Unlock", "Release"} => gc[t].result = 1

\* No packet is twice among those that a thread has still to free.
ListInv(t) ==
  /\ \A i, j \in First(t) .. Len(readPtrs[t]) :
       readPtrs[t][i] = readPtrs[t][j] => i = j \/ readPtrs[t][i] = Null
  /\ ~ gc[t].collecting /\ pc[t] # "Analyze" =>
       \A i \in 1 .. Len(readPtrs[t]) : readPtrs[t][i] # gc[t].p

\* What a thread holds and the registry does not: the copy that ReadMemory()
\* has made, the packet that is about to be deleted.
InHand(t) ==
  IF \/ ~ gc[t].collecting /\ pc[t] \in {"Lock", "Find", "Register"}
     \/ pc[t] = "Delete"
  THEN {gc[t].p} \ {Null} ELSE {}

\* Each allocated address is held by one thread and registered once.
HeapInv ==
  /\ \A a \in Addresses : a \in heap <=> \E t \in Readers : a \in Held(t)
  /\ \A t, u \in Readers, a \in Addresses :
       a \in Held(t) /\ a \in Held(u) => t = u
  /\ \A a \in Addresses :
       a \in ToSet(registry)
         <=> \E t \in Readers : a \in Held(t) /\ a \notin InHand(t)
  /\ \A i, j \in DOMAIN registry :
       registry[i] = registry[j] => i = j \/ registry[i] = Null

OrderlyInv ==
  /\ \A t \in Readers : CallInv(t) /\ CountInv(t) /\ ListInv(t)
  /\ HeapInv

IInv ==
  /\ TypeInv
  /\ ~ overlapped => SerialInv
  /\ Orderly => OrderlyInv

-----------------------------------------------------------------------------
(* Sequences.                                                              *)

LEMMA ElementsOfAppend ==
  ASSUME NEW S, NEW s \in Seq(S), NEW e \in S
  PROVE  /\ Len(Append(s, e)) = Len(s) + 1
         /\ \A i \in 1 .. Len(s) : Append(s, e)[i] = s[i]
         /\ Append(s, e)[Len(s) + 1] = e
         /\ ToSet(Append(s, e)) = ToSet(s) \union {e}
<1>1. /\ Append(s, e) \in Seq(S) /\ Len(Append(s, e)) = Len(s) + 1
      /\ \A i \in 1 .. Len(s) : Append(s, e)[i] = s[i]
      /\ Append(s, e)[Len(s) + 1] = e
      /\ Len(s) \in Nat
  BY AppendProperties, LenProperties
<1>2. DOMAIN Append(s, e) = 1 .. Len(s) + 1 /\ DOMAIN s = 1 .. Len(s)
  BY <1>1, LenProperties
<1>3. \A i \in 1 .. Len(s) + 1 : i \in 1 .. Len(s) \/ i = Len(s) + 1
  BY <1>1
<1>4. \A i \in 1 .. Len(s) : i \in 1 .. Len(s) + 1
  BY <1>1
<1>5. Len(s) + 1 \in 1 .. Len(s) + 1
  BY <1>1
<1> QED
  BY <1>1, <1>2, <1>3, <1>4, <1>5 DEF ToSet

\* takeAt() leaves a list of the same type, one shorter.
LEMMA RemoveAtType ==
  ASSUME NEW S, NEW s \in Seq(S), NEW i \in 1 .. Len(s)
  PROVE  RemoveAt(s, i) \in Seq(S)
<1>1. Len(s) \in Nat /\ \A j \in 1 .. Len(s) : s[j] \in S
  BY LenProperties, ElementOfSeq
<1>2. SubSeq(s, 1, i - 1) \in Seq(S) /\ SubSeq(s, i + 1, Len(s)) \in Seq(S)
  BY <1>1, SubSeqProperties
<1> QED
  BY <1>2, ConcatProperties DEF RemoveAt

\* The elements move up by one place behind the one that is taken.
LEMMA RemoveAtElements ==
  ASSUME NEW S, NEW s \in Seq(S), NEW i \in 1 .. Len(s)
  PROVE  /\ Len(RemoveAt(s, i)) = Len(s) - 1
         /\ \A j \in 1 .. Len(s) - 1 :
              RemoveAt(s, i)[j] = IF j < i THEN s[j] ELSE s[j + 1]
<1> DEFINE l == SubSeq(s, 1, i - 1)
           r == SubSeq(s, i + 1, Len(s))
<1>1. Len(s) \in Nat /\ i \in 1 .. Len(s) /\ \A j \in 1 .. Len(s) : s[j] \in S
  BY LenProperties, ElementOfSeq
<1>2. /\ l \in Seq(S) /\ Len(l) = i - 1
      /\ \A j \in 1 .. i - 1 : l[j] = s[j]
  BY <1>1, SubSeqProperties
<1>3. /\ r \in Seq(S) /\ Len(r) = Len(s) - i
      /\ \A j \in 1 .. Len(s) - i : r[j] = s[i + j]
  BY <1>1, SubSeqProperties
<1> HIDE DEF l, r
<1>4. /\ Len(l \o r) = Len(l) + Len(r)
      /\ \A j \in 1 .. Len(l) + Len(r) :
           (l \o r)[j] = IF j <= Len(l) THEN l[j] ELSE r[j - Len(l)]
  BY <1>2, <1>3, ConcatProperties
<1>5. RemoveAt(s, i) = l \o r
  BY DEF RemoveAt, l, r
<1>6. ASSUME NEW j \in 1 .. Len(s) - 1
      PROVE  (l \o r)[j] = IF j < i THEN s[j] ELSE s[j + 1]
  <2>1. CASE j < i
    <3>1. j <= Len(l) /\ j \in 1 .. i - 1 /\ j \in 1 .. Len(l) + Len(r)
      BY <1>1, <1>2, <1>3, <2>1
    <3> QED
      BY <1>2, <1>4, <2>1, <3>1
  <2>2. CASE ~ (j < i)
    <3>1. /\ ~ (j <= Len(l)) /\ j \in 1 .. Len(l) + Len(r)
          /\ j - Len(l) \in 1 .. Len(s) - i /\ i + (j - Len(l)) = j + 1
      BY <1>1, <1>2, <1>3, <2>2
    <3> QED
      BY <1>3, <1>4, <2>2, <3>1
  <2> QED
    BY <2>1, <2>2
<1> QED
  BY <1>1, <1>2, <1>3, <1>4, <1>5, <1>6

\* Of a list without repetitions, but for one value, it leaves such a list, and
\* all of its elements but the one that is taken.
LEMMA RemoveAtDistinct ==
  ASSUME NEW S, NEW s \in Seq(S), NEW i \in 1 .. Len(s), NEW z,
         \A j, k \in DOMAIN s : s[j] = s[k] => j = k \/ s[j] = z
  PROVE  /\ \A j, k \in DOMAIN RemoveAt(s, i) :
              RemoveAt(s, i)[j] = RemoveAt(s, i)[k]
                => j = k \/ RemoveAt(s, i)[j] = z
         /\ \A e : e # z =>
              (e \in ToSet(RemoveAt(s, i)) <=> e \in ToSet(s) /\ e # s[i])
<1> DEFINE q == RemoveAt(s, i)
           from(j) == IF j < i THEN j ELSE j + 1
<1>1. /\ q \in Seq(S) /\ Len(q) = Len(s) - 1
      /\ \A j \in 1 .. Len(s) - 1 : q[j] = IF j < i THEN s[j] ELSE s[j + 1]
  BY RemoveAtType, RemoveAtElements
<1>2. /\ DOMAIN q = 1 .. Len(s) - 1 /\ DOMAIN s = 1 .. Len(s)
      /\ Len(s) \in Nat /\ i \in 1 .. Len(s)
  BY <1>1, LenProperties
<1> HIDE DEF q
<1>3. \A j \in DOMAIN q : /\ from(j) \in DOMAIN s /\ from(j) # i
                          /\ q[j] = s[from(j)]
  BY <1>1, <1>2
<1>4. \A j, k \in DOMAIN q : from(j) = from(k) => j = k
  BY <1>2
<1>5. \A k \in DOMAIN s : k # i => \E j \in DOMAIN q : from(j) = k
  <2>1. ASSUME NEW k \in DOMAIN s, k < i
        PROVE  \E j \in DOMAIN q : from(j) = k
    <3>1. k \in DOMAIN q /\ from(k) = k
      BY <1>2, <2>1
    <3> QED
      BY <3>1
  <2>2. ASSUME NEW k \in DOMAIN s, k > i
        PROVE  \E j \in DOMAIN q : from(j) = k
    <3>1. k - 1 \in DOMAIN q /\ from(k - 1) = k
      BY <1>2, <2>2
    <3> QED
      BY <3>1
  <2>3. \A k \in DOMAIN s : k # i => k < i \/ k > i
    BY <1>2
  <2> QED
    BY <2>1, <2>2, <2>3
<1> HIDE DEF from
<1>6. \A j, k \in DOMAIN q : q[j] = q[k] => j = k \/ q[j] = z
  BY <1>3, <1>4
<1>7. ASSUME NEW e, e # z
      PROVE  e \in ToSet(q) <=> e \in ToSet(s) /\ e # s[i]
  <2>1. i \in DOMAIN s
    BY <1>2
  <2>2. ASSUME e \in ToSet(q)
        PROVE  e \in ToSet(s) /\ e # s[i]
    <3>1. PICK j \in DOMAIN q : e = q[j]
      BY <2>2 DEF ToSet
    <3>2. e = s[from(j)] /\ from(j) \in DOMAIN s /\ from(j) # i
      BY <1>3, <3>1
    <3> QED
      BY <1>7, <2>1, <3>2 DEF ToSet
  <2>3. ASSUME e \in ToSet(s), e # s[i]
        PROVE  e \in ToSet(q)
    <3>1. PICK k \in DOMAIN s : e = s[k]
      BY <2>3 DEF ToSet
    <3>2. PICK j \in DOMAIN q : from(j) = k
      BY <1>5, <2>3, <3>1
    <3> QED
      BY <1>3, <3>1, <3>2 DEF ToSet
  <2> QED
    BY <2>2, <2>3
<1> QED
  BY <1>6, <1>7 DEF q

-----------------------------------------------------------------------------
(* The types.                                                              *)

LEMMA LocalsOf ==
  ASSUME TypeInv, NEW t \in Readers
  PROVE  /\ gc[t] \in Locals /\ gc[t].next \in Nat \ {0}
         /\ readPtrs[t] \in Seq(Pointers) /\ Len(readPtrs[t]) \in Nat
  BY LenProperties DEF TypeInv, TypeOK, Locals

\* Where Find() says the address is.
LEMMA FirstPlace ==
  ASSUME TypeInv, NEW p \in Pointers,
         \E i \in DOMAIN registry : registry[i] = p
  PROVE  LET places == {i \in DOMAIN registry : registry[i] = p}
             at     == CHOOSE i \in places : \A j \in places : i <= j
         IN at \in places /\ \A j \in places : at <= j
<1> DEFINE places == {i \in DOMAIN registry : registry[i] = p}
<1>1. DOMAIN registry = 1 .. Len(registry) /\ Len(registry) \in Nat
  BY LenProperties DEF TypeInv, TypeOK
<1>2. places \subseteq Nat /\ places # {}
  BY <1>1
<1>3. \E i \in places : \A j \in places : i <= j
  <2> HIDE DEF places
  <2> QED
    BY <1>2, LeastElement
<1> QED
  BY <1>3, Zenon

LEMMA NoLocalsType ==
  /\ NoLocals \in Locals /\ NoLocals.next = 1
  /\ \A a \in Addresses : [NoLocals EXCEPT !.p = a] \in Locals
  /\ [NoLocals EXCEPT !.collecting = TRUE] \in Locals
  BY DEF NoLocals, Locals, Pointers

LEMMA InitTypes == Init => TypeInv
<1> SUFFICES ASSUME Init PROVE TypeInv
  OBVIOUS
<1>1. registry \in Seq(Pointers) /\ readPtrs \in [Readers -> Seq(Pointers)]
  BY DEF Init
<1>2. gc \in [Readers -> Locals] /\ \A t \in Readers : gc[t].next # 0
  BY NoLocalsType DEF Init
<1> QED
  BY <1>1, <1>2 DEF Init, TypeInv, TypeOK, GarbagePCs, InsidePCs

LEMMA NextTypes == TypeInv /\ [Next]_vars => TypeInv'
<1> SUFFICES ASSUME TypeInv, [Next]_vars PROVE TypeInv'
  OBVIOUS
<1> USE DEF TypeInv, TypeOK
<1>1. NoLocals \in Locals /\ NoLocals.next # 0
  BY NoLocalsType
<1>2. ASSUME NEW t \in Readers, NEW a \in Addresses, ReadPacket(t, a)
      PROVE  TypeInv'
  <2>1. /\ [NoLocals EXCEPT !.p = a] \in Locals
        /\ [NoLocals EXCEPT !.p = a].next # 0
    <3>1. [NoLocals EXCEPT !.p = a].next # 0
      BY DEF NoLocals
    <3>2. QED
      BY <3>1, NoLocalsType
  <2>2. QED
    BY <1>2, <2>1 DEF ReadPacket, Goto, GarbagePCs, InsidePCs, history
<1>3. ASSUME NEW t \in Readers, ReadRefused(t)
      PROVE  TypeInv'
  <2>1. Append(readPtrs[t], Null) \in Seq(Pointers)
    BY AppendProperties DEF Pointers
  <2>2. QED
    BY <1>3, <2>1 DEF ReadRefused, history
<1>4. ASSUME NEW t \in Readers, EndAnalyze(t)
      PROVE  TypeInv'
  <2>1. /\ [NoLocals EXCEPT !.collecting = TRUE] \in Locals
        /\ [NoLocals EXCEPT !.collecting = TRUE].next # 0
    BY NoLocalsType DEF NoLocals
  <2>2. QED
    BY <1>4, <2>1 DEF EndAnalyze, history, Goto, GarbagePCs, InsidePCs
<1>5. ASSUME NEW t \in Readers, CollectNext(t)
      PROVE  TypeInv'
  <2>1. readPtrs[t][gc[t].next] \in Pointers
    BY <1>5, LocalsOf, ElementOfSeq DEF CollectNext
  <2>2. LET c == [gc[t] EXCEPT !.p = readPtrs[t][gc[t].next]]
        IN c \in Locals /\ c.next # 0
    BY <2>1, LocalsOf DEF Locals
  <2>3. QED
    BY <1>5, <2>2 DEF CollectNext, history, Goto, GarbagePCs, InsidePCs
<1>6. ASSUME NEW t \in Readers, CollectDone(t)
      PROVE  TypeInv'
  <2>1. <<>> \in Seq(Pointers)
    BY EmptySeq
  <2>2. QED
    BY <1>1, <1>6, <2>1 DEF CollectDone, Goto, GarbagePCs, InsidePCs
<1>7. ASSUME NEW t \in Readers, Lock(t)
      PROVE  TypeInv'
  BY <1>7 DEF Lock, Goto, GarbagePCs, InsidePCs
<1>8. ASSUME NEW t \in Readers, Find(t)
      PROVE  TypeInv'
  <2> DEFINE places == {i \in DOMAIN registry : registry[i] = gc[t].p}
             at == CHOOSE i \in places : \A j \in places : i <= j
  <2>1. places # {} => at \in Nat
    <3>1. gc[t].p \in Pointers
      BY LocalsOf DEF Locals
    <3>2. DOMAIN registry = 1 .. Len(registry) /\ Len(registry) \in Nat
      BY LenProperties
    <3>3. places # {} => at \in places
      BY <3>1, FirstPlace
    <3>4. places \subseteq Nat
      BY <3>2
    <3> HIDE DEF places, at
    <3>5. QED
      BY <3>3, <3>4
  <2>2. gc' = IF places = {} THEN gc ELSE [gc EXCEPT ![t].at = at]
    BY <1>8 DEF Find
  <2>3. pc' \in [Readers -> GarbagePCs]
    BY <1>8 DEF Find, history, Goto, GarbagePCs, InsidePCs
  <2> HIDE DEF places, at
  <2>4. gc' \in [Readers -> Locals] /\ \A u \in Readers : gc'[u].next # 0
    <3>1. CASE places = {}
      BY <2>2, <3>1, LocalsOf
    <3>2. CASE places # {}
      <4>1. PICK c : c = [gc[t] EXCEPT !.at = at]
        OBVIOUS
      <4>2. c \in Locals /\ c.next # 0
        BY <2>1, <3>2, <4>1, LocalsOf DEF Locals
      <4>3. gc' = [gc EXCEPT ![t] = c]
        BY <2>2, <3>2, <4>1
      <4>4. QED
        BY <4>2, <4>3, LocalsOf
    <3>3. QED
      BY <3>1, <3>2
  <2>5. QED
    BY <1>8, <2>3, <2>4 DEF Find, history
<1>9. ASSUME NEW t \in Readers, Register(t)
      PROVE  TypeInv'
  <2>1. Append(registry, gc[t].p) \in Seq(Pointers)
    BY LocalsOf, AppendProperties DEF Locals
  <2>2. QED
    BY <1>9, <2>1 DEF Register, history, Goto, GarbagePCs, InsidePCs
<1>10. ASSUME NEW t \in Readers, Take(t)
       PROVE  TypeInv'
  <2>1. gc[t].at \in 1 .. Len(registry)
    BY <1>10, LenProperties DEF Take
  <2>2. /\ RemoveAt(registry, gc[t].at) \in Seq(Pointers)
        /\ registry[gc[t].at] \in Pointers
    BY <2>1, RemoveAtType, ElementOfSeq
  <2>3. gc' \in [Readers -> Locals] /\ \A u \in Readers : gc'[u].next # 0
    BY ZenonT(40), <1>10, <2>2, LocalsOf DEF Take, Locals
  <2>4. QED
    BY <1>10, <2>2, <2>3 DEF Take, history, Goto, GarbagePCs, InsidePCs
<1>11. ASSUME NEW t \in Readers, Delete(t)
       PROVE  TypeInv'
  BY <1>11 DEF Delete, history, Goto, GarbagePCs, InsidePCs
<1>12. ASSUME NEW t \in Readers, Unlock(t)
       PROVE  TypeInv'
  BY <1>12 DEF Unlock, history, Goto, GarbagePCs, InsidePCs
<1>13. ASSUME NEW t \in Readers, Release(t)
       PROVE  TypeInv'
  <2>1. pc' \in [Readers -> GarbagePCs]
    BY <1>13 DEF Release, history, Goto, GarbagePCs, InsidePCs
  <2>2. gc' \in [Readers -> Locals] /\ \A u \in Readers : gc'[u].next # 0
    <3>1. CASE gc[t].collecting
      <4> DEFINE c == [NoLocals EXCEPT !.collecting = TRUE,
                                       !.next = gc[t].next + 1,
                                       !.freed = gc[t].freed + gc[t].result]
      <4>1. gc' = [gc EXCEPT ![t] = c]
        BY <1>13, <3>1 DEF Release
      <4>2. gc[t].next + 1 \in Nat \ {0} /\ gc[t].freed + gc[t].result \in Nat
        <5>1. gc[t] \in Locals
          BY LocalsOf
        <5>2. /\ gc[t].next \in Nat /\ gc[t].freed \in Nat
              /\ gc[t].result \in {0, 1}
          BY <5>1 DEF Locals
        <5>3. QED
          BY <5>2
      <4>3. c \in Locals /\ c.next # 0
        BY <4>2 DEF Locals, NoLocals, Pointers
      <4> HIDE DEF c
      <4>4. QED
        BY <4>1, <4>3
    <3>2. CASE ~ gc[t].collecting
      BY <1>1, <1>13, <3>2 DEF Release
    <3>3. QED
      BY <3>1, <3>2
  <2>3. readPtrs' \in [Readers -> Seq(Pointers)]
    <3>1. Append(readPtrs[t], gc[t].p) \in Seq(Pointers)
      BY LocalsOf, AppendProperties DEF Locals
    <3>2. QED
      BY <1>13, <3>1 DEF Release
  <2>4. QED
    BY <1>13, <2>1, <2>2, <2>3 DEF Release, history
<1>14. CASE UNCHANGED vars
  BY <1>14 DEF vars, history
<1>15. QED
  BY <1>2, <1>3, <1>4, <1>5, <1>6, <1>7, <1>8, <1>9, <1>10, <1>11, <1>12,
     <1>13, <1>14 DEF Next, CollectionStep

-----------------------------------------------------------------------------
(* What a step leaves alone.                                               *)

\* What the step of thread t does not change.
Elsewhere(t) ==
  \A u \in Readers \ {t} :
    pc'[u] = pc[u] /\ gc'[u] = gc[u] /\ readPtrs'[u] = readPtrs[u]

StepOf(t) ==
  \/ \E a \in Addresses : ReadPacket(t, a)
  \/ ReadRefused(t)
  \/ EndAnalyze(t)
  \/ CollectionStep(t)

\* What the invariant says of a thread and of the registry.
LEMMA Facts ==
  ASSUME IInv, Orderly, NEW t \in Readers
  PROVE  /\ CallInv(t) /\ CountInv(t) /\ ListInv(t) /\ HeapInv /\ SerialInv
         /\ gc[t] \in Locals /\ gc[t].next \in Nat \ {0}
         /\ gc[t].p \in Pointers /\ gc[t].freed \in Nat
         /\ pc \in [Readers -> GarbagePCs] /\ gc \in [Readers -> Locals]
         /\ readPtrs \in [Readers -> Seq(Pointers)]
         /\ readPtrs[t] \in Seq(Pointers) /\ Len(readPtrs[t]) \in Nat
         /\ DOMAIN readPtrs[t] = 1 .. Len(readPtrs[t])
         /\ registry \in Seq(Pointers) /\ Len(registry) \in Nat
         /\ DOMAIN registry = 1 .. Len(registry)
         /\ heap \subseteq Addresses
<1>1. TypeInv /\ SerialInv /\ OrderlyInv
  BY DEF IInv, Orderly
<1>2. gc[t] \in Locals
  BY <1>1, LocalsOf
<1>3. gc[t].p \in Pointers /\ gc[t].freed \in Nat
  BY <1>2 DEF Locals
<1> QED
  BY <1>1, <1>2, <1>3, LocalsOf, LenProperties
     DEF OrderlyInv, TypeInv, TypeOK

LEMMA StepsAreLocal ==
  ASSUME TypeInv, NEW t \in Readers, StepOf(t)
  PROVE  Elsewhere(t)
<1> USE DEF TypeInv, TypeOK, Elsewhere, Goto
<1>1. ASSUME NEW a \in Addresses, ReadPacket(t, a) PROVE Elsewhere(t)
  BY <1>1 DEF ReadPacket
<1>2. CASE ReadRefused(t) \/ EndAnalyze(t)
  BY <1>2 DEF ReadRefused, EndAnalyze
<1>3. CASE CollectNext(t) \/ CollectDone(t) \/ Lock(t)
  BY <1>3 DEF CollectNext, CollectDone, Lock
<1>4. CASE Find(t)
  <2>1. /\ readPtrs' = readPtrs
        /\ \E to \in GarbagePCs : pc' = [pc EXCEPT ![t] = to]
        /\ \E c : gc' = gc \/ gc' = [gc EXCEPT ![t] = c]
    BY <1>4 DEF Find, GarbagePCs, InsidePCs
  <2> QED
    BY <2>1
<1>5. CASE Register(t) \/ Take(t) \/ Delete(t) \/ Unlock(t) \/ Release(t)
  BY <1>5 DEF Register, Take, Delete, Unlock, Release
<1> QED
  BY <1>1, <1>2, <1>3, <1>4, <1>5 DEF StepOf, CollectionStep

\* A step changes the registry only inside, where no other thread is.
LEMMA OthersKeep ==
  ASSUME IInv, Orderly, NEW t \in Readers, Elsewhere(t),
         registry' = registry \/ pc[t] \in InsidePCs,
         NEW u \in Readers \ {t}
  PROVE  /\ CallInv(u)' /\ CountInv(u)' /\ ListInv(u)'
         /\ Held(u)' = Held(u) /\ InHand(u)' = InHand(u)
<1>1. /\ pc'[u] = pc[u] /\ gc'[u] = gc[u] /\ readPtrs'[u] = readPtrs[u]
      /\ u \in Readers /\ u # t
  BY DEF Elsewhere
<1>2. First(u)' = First(u)
  BY <1>1 DEF First
<1>3. pc[u] = "Take" => registry' = registry
  BY <1>1, Facts DEF SerialInv, InsidePCs
<1>4. CallInv(u)'
  BY <1>1, <1>3, Facts DEF CallInv
<1>5. CountInv(u)' /\ ListInv(u)'
  <2>1. CountInv(u) /\ ListInv(u)
    BY Facts
  <2>2. CountInv(u)'
    BY <1>1, <2>1 DEF CountInv
  <2>3. ListInv(u)'
    BY <1>1, <1>2, <2>1 DEF ListInv
  <2> QED
    BY <2>2, <2>3
<1>6. Held(u)' = Held(u) /\ InHand(u)' = InHand(u)
  BY <1>1, <1>2 DEF Held, InHand
<1> QED
  BY <1>4, <1>5, <1>6

\* A step after which everyone holds what they held.
LEMMA QuietStep ==
  ASSUME IInv, Orderly, NEW t \in Readers, Elsewhere(t),
         registry' = registry, heap' = heap,
         Held(t)' = Held(t), InHand(t)' = InHand(t),
         CallInv(t)', CountInv(t)', ListInv(t)'
  PROVE  OrderlyInv'
<1>1. \A u \in Readers : /\ CallInv(u)' /\ CountInv(u)' /\ ListInv(u)'
                         /\ Held(u)' = Held(u) /\ InHand(u)' = InHand(u)
  BY OthersKeep
<1>2. HeapInv'
  BY <1>1, Facts DEF HeapInv
<1> QED
  BY <1>1, <1>2 DEF OrderlyInv

-----------------------------------------------------------------------------
(* The steps.                                                              *)

\* The copy is made: it is allocated and nobody has its address yet.
LEMMA ReadPacketStep ==
  ASSUME IInv, Orderly, NEW t \in Readers, NEW a \in Addresses,
         ReadPacket(t, a)
  PROVE  OrderlyInv'
<1>1. /\ pc[t] = "Analyze" /\ pc'[t] = "Lock"
      /\ a \notin heap /\ heap' = heap \union {a}
      /\ gc'[t] = [NoLocals EXCEPT !.p = a]
      /\ registry' = registry /\ readPtrs' = readPtrs
  BY Facts DEF ReadPacket, Goto
<1>2. /\ ~ gc'[t].collecting /\ gc'[t].p = a
      /\ ~ gc[t].collecting /\ a # Null
  BY <1>1, Facts, GarbageAssumption DEF NoLocals, CallInv
<1>3. CallInv(t)' /\ CountInv(t)'
  BY <1>1, <1>2 DEF CallInv, CountInv
<1>4. /\ First(t) = 1 /\ First(t)' = 1
      /\ InHand(t) = {} /\ InHand(t)' = {a}
      /\ Held(t)' = Held(t) \union {a}
  BY <1>1, <1>2 DEF First, InHand, Held
<1>5. \A i \in 1 .. Len(readPtrs[t]) :
        readPtrs[t][i] # Null => readPtrs[t][i] \in Held(t)
  BY <1>4 DEF Held
<1>6. Held(t) \subseteq heap
  <2>1. ASSUME NEW h \in Held(t) PROVE h \in Addresses
    BY <1>1, <1>2, <1>4, Facts, ElementOfSeq DEF Held, Pointers
  <2> QED
    BY <2>1, Facts DEF HeapInv
<1>7. ListInv(t)'
  BY <1>1, <1>2, <1>4, <1>5, <1>6, Facts DEF ListInv
<1>8. \A u \in Readers \ {t} :
        /\ CallInv(u)' /\ CountInv(u)' /\ ListInv(u)'
        /\ Held(u)' = Held(u) /\ InHand(u)' = InHand(u)
  BY <1>1, OthersKeep, StepsAreLocal DEF IInv, StepOf
<1>9. HeapInv'
  <2>1. \A u \in Readers : a \notin Held(u)
    BY <1>1, Facts DEF HeapInv
  <2>2. \A u \in Readers : u # t => /\ Held(u)' = Held(u)
                                    /\ InHand(u)' = InHand(u)
    BY <1>8
  <2>3. \A u \in Readers, b \in Addresses :
          /\ b \in Held(u)' <=> b \in Held(u) \/ (u = t /\ b = a)
          /\ b \in Held(u)' /\ b \notin InHand(u)'
               <=> b \in Held(u) /\ b \notin InHand(u)
    BY <1>4, <2>1, <2>2
  <2>4. \A b \in Addresses : b \in heap' <=> \E u \in Readers : b \in Held(u)'
    <3>1. \A b \in Addresses : b \in heap' <=> b \in heap \/ b = a
      BY <1>1
    <3> QED
      BY <2>3, <3>1, Facts DEF HeapInv
  <2>5. \A u, v \in Readers, b \in Addresses :
          b \in Held(u)' /\ b \in Held(v)' => u = v
    BY <2>1, <2>3, Facts DEF HeapInv
  <2>6. \A b \in Addresses :
          b \in ToSet(registry)
            <=> \E u \in Readers : b \in Held(u)' /\ b \notin InHand(u)'
    BY <2>3, Facts DEF HeapInv
  <2> QED
    BY <1>1, <2>4, <2>5, <2>6, Facts DEF HeapInv
<1> QED
  BY <1>3, <1>7, <1>8, <1>9 DEF OrderlyInv

LEMMA ReadRefusedStep ==
  ASSUME IInv, Orderly, NEW t \in Readers, ReadRefused(t)
  PROVE  OrderlyInv'
<1>1. /\ pc[t] = "Analyze" /\ pc' = pc /\ gc' = gc
      /\ readPtrs'[t] = Append(readPtrs[t], Null)
      /\ registry' = registry /\ heap' = heap
      /\ ~ gc[t].collecting
  BY Facts DEF ReadRefused, CallInv
<1>2. /\ Len(readPtrs'[t]) = Len(readPtrs[t]) + 1
      /\ \A i \in 1 .. Len(readPtrs[t]) : readPtrs'[t][i] = readPtrs[t][i]
      /\ readPtrs'[t][Len(readPtrs[t]) + 1] = Null
  BY <1>1, Facts, ElementsOfAppend DEF Pointers
<1>3. \A i \in 1 .. Len(readPtrs'[t]) :
        i \in 1 .. Len(readPtrs[t]) \/ i = Len(readPtrs[t]) + 1
  BY <1>2, Facts
<1>4. \A i \in 1 .. Len(readPtrs[t]) : i \in 1 .. Len(readPtrs'[t])
  BY <1>2, Facts
<1>5. CallInv(t)' /\ CountInv(t)'
  BY <1>1 DEF CallInv, CountInv
<1>6. First(t) = 1 /\ First(t)' = 1 /\ InHand(t)' = InHand(t)
  BY <1>1 DEF First, InHand
<1>7. ListInv(t)'
  BY <1>1, <1>2, <1>3, <1>6, Facts DEF ListInv
<1>8. Held(t)' = Held(t)
  BY <1>1, <1>2, <1>3, <1>4, <1>6 DEF Held
<1> QED
  BY <1>1, <1>5, <1>6, <1>7, <1>8, QuietStep, StepsAreLocal DEF IInv, StepOf

LEMMA EndAnalyzeStep ==
  ASSUME IInv, Orderly, NEW t \in Readers, EndAnalyze(t)
  PROVE  OrderlyInv'
<1>1. /\ pc[t] = "Analyze" /\ pc'[t] = "Collect"
      /\ gc'[t] = [NoLocals EXCEPT !.collecting = TRUE]
      /\ UNCHANGED <<registry, readPtrs, heap>>
      /\ ~ gc[t].collecting
  BY Facts DEF EndAnalyze, Goto, CallInv
<1>2. /\ gc'[t].collecting /\ gc'[t].next = 1 /\ gc'[t].freed = 0
  BY <1>1 DEF NoLocals
<1>3. CallInv(t)' /\ CountInv(t)'
  BY <1>1, <1>2, Facts DEF CallInv, CountInv
<1>4. First(t) = 1 /\ First(t)' = 1 /\ InHand(t)' = InHand(t)
  BY <1>1, <1>2 DEF First, InHand
<1>5. ListInv(t)' /\ Held(t)' = Held(t)
  BY <1>1, <1>2, <1>4, Facts DEF ListInv, Held
<1> QED
  BY <1>1, <1>3, <1>4, <1>5, QuietStep, StepsAreLocal DEF IInv, StepOf

LEMMA CollectNextStep ==
  ASSUME IInv, Orderly, NEW t \in Readers, CollectNext(t)
  PROVE  OrderlyInv'
<1>1. /\ pc[t] = "Collect" /\ pc'[t] = "Lock"
      /\ gc[t].next <= Len(readPtrs[t])
      /\ gc'[t] = [gc[t] EXCEPT !.p = readPtrs[t][gc[t].next]]
      /\ UNCHANGED <<registry, readPtrs, heap>>
      /\ gc[t].collecting
  BY Facts DEF CollectNext, Goto, CallInv
<1>2. /\ gc'[t].collecting /\ gc'[t].next = gc[t].next
      /\ gc'[t].freed = gc[t].freed
      /\ gc'[t].p = readPtrs[t][gc[t].next]
  BY <1>1, Facts DEF Locals
<1>3. CallInv(t)' /\ CountInv(t)'
  BY <1>1, <1>2, Facts DEF CallInv, CountInv
<1>4. First(t)' = First(t) /\ InHand(t)' = InHand(t)
  BY <1>1, <1>2 DEF First, InHand
<1>5. ListInv(t)' /\ Held(t)' = Held(t)
  BY <1>1, <1>2, <1>4, Facts DEF ListInv, Held
<1> QED
  BY <1>1, <1>3, <1>4, <1>5, QuietStep, StepsAreLocal
     DEF IInv, StepOf, CollectionStep

\* When the loop has come to the end of the list nothing in it is held.
LEMMA NothingIsLeft ==
  ASSUME IInv, Orderly, NEW t \in Readers,
         pc[t] = "Collect", gc[t].next > Len(readPtrs[t])
  PROVE  /\ Held(t) = {}
         /\ Null \notin ToSet(readPtrs[t]) => gc[t].freed = Len(readPtrs[t])
<1>1. gc[t].collecting /\ First(t) = gc[t].next
  BY Facts DEF CallInv, First
<1>2. Held(t) = {}
  BY <1>1, Facts DEF Held
<1>3. Null \notin ToSet(readPtrs[t]) => gc[t].freed = Len(readPtrs[t])
  BY <1>1, Facts DEF CountInv
<1> QED
  BY <1>2, <1>3

LEMMA CollectDoneStep ==
  ASSUME IInv, Orderly, ~ kept', NEW t \in Readers, CollectDone(t)
  PROVE  OrderlyInv'
<1>1. /\ pc[t] = "Collect" /\ pc'[t] = "Analyze"
      /\ gc'[t] = NoLocals
      /\ UNCHANGED <<registry, heap>>
      /\ readPtrs'[t] = <<>>
      /\ Held(t) = {}
  BY Facts, NothingIsLeft DEF CollectDone, Goto
<1>2. CallInv(t)' /\ CountInv(t)'
  BY <1>1 DEF CallInv, CountInv, NoLocals
<1>3. /\ First(t)' = 1 /\ InHand(t)' = {} /\ InHand(t) = {}
      /\ ListInv(t)' /\ Held(t)' = {}
  BY <1>1 DEF First, InHand, NoLocals, ListInv, Held
<1> QED
  BY <1>1, <1>2, <1>3, QuietStep, StepsAreLocal
     DEF IInv, StepOf, CollectionStep

LEMMA LockStep ==
  ASSUME IInv, Orderly, NEW t \in Readers, Lock(t) \/ Unlock(t)
  PROVE  OrderlyInv'
<1>1. /\ \/ pc[t] = "Lock" /\ pc'[t] = "Find"
         \/ pc[t] = "Unlock" /\ pc'[t] = "Release"
      /\ UNCHANGED <<registry, readPtrs, heap, gc>>
  BY Facts DEF Lock, Unlock, Goto
<1>2. CallInv(t)' /\ CountInv(t)'
  BY <1>1, Facts DEF CallInv, CountInv
<1>3. First(t)' = First(t) /\ InHand(t)' = InHand(t)
  BY <1>1, Facts DEF First, InHand, CallInv
<1>4. ListInv(t)' /\ Held(t)' = Held(t)
  BY <1>1, <1>3, Facts DEF ListInv, Held
<1> QED
  BY <1>1, <1>2, <1>3, <1>4, QuietStep, StepsAreLocal
     DEF IInv, StepOf, CollectionStep

\* The copy that ReadMemory() has in hand is not in the registry yet.
LEMMA FreshIsNotRegistered ==
  ASSUME IInv, Orderly, NEW t \in Readers,
         ~ gc[t].collecting, pc[t] \in {"Find", "Register"}
  PROVE  gc[t].p \in Addresses /\ gc[t].p \notin ToSet(registry)
<1> DEFINE p == gc[t].p
<1>1. p # Null /\ p \in Addresses
  BY Facts DEF CallInv, Pointers
<1>2. p \in Held(t) /\ p \in InHand(t)
  BY <1>1 DEF Held, InHand
<1> HIDE DEF p
<1>3. ~ \E u \in Readers : p \in Held(u) /\ p \notin InHand(u)
  BY <1>1, <1>2, Facts DEF HeapInv
<1>4. p \notin ToSet(registry)
  BY <1>1, <1>3, Facts DEF HeapInv
<1> QED
  BY <1>1, <1>4 DEF p

\* The next packet of a collection is in it.
LEMMA NextIsRegistered ==
  ASSUME IInv, Orderly, NEW t \in Readers, gc[t].collecting, pc[t] = "Find",
         gc[t].p # Null
  PROVE  gc[t].p \in ToSet(registry)
<1> DEFINE p == gc[t].p
<1>1. /\ p \in Addresses /\ First(t) = gc[t].next
      /\ gc[t].next <= Len(readPtrs[t]) /\ p = readPtrs[t][gc[t].next]
  BY Facts DEF CallInv, Pointers, First
<1>2. gc[t].next \in First(t) .. Len(readPtrs[t])
  BY <1>1, Facts
<1>3. p \in Held(t) /\ p \notin InHand(t)
  BY <1>1, <1>2 DEF Held, InHand
<1> HIDE DEF p
<1>4. p \in ToSet(registry)
  BY <1>1, <1>3, Facts DEF HeapInv
<1> QED
  BY <1>4 DEF p

\* The search finds nothing for an address that was just allocated, and the
\* place of one of the list.
LEMMA FindStep ==
  ASSUME IInv, Orderly, NEW t \in Readers, Find(t)
  PROVE  OrderlyInv'
<1> DEFINE places == {i \in DOMAIN registry : registry[i] = gc[t].p}
           at == CHOOSE i \in places : \A j \in places : i <= j
<1>1. /\ pc[t] = "Find"
      /\ pc'[t] = IF places = {} THEN "Register" ELSE "Take"
      /\ gc' = IF places = {} THEN gc ELSE [gc EXCEPT ![t].at = at]
      /\ UNCHANGED <<registry, readPtrs, heap>>
  BY Facts DEF Find, Goto
<1>2. gc[t].p \in ToSet(registry) <=> places # {}
  BY DEF ToSet
<1>3. places # {} => at \in places
  BY FirstPlace, Facts DEF IInv
<1> HIDE DEF at
<1>4. CASE places = {}
  <2>1. pc'[t] = "Register" /\ gc' = gc
    BY <1>1, <1>4
  <2>2. gc[t].collecting => gc[t].p = Null
    BY <1>1, <1>2, <1>4, NextIsRegistered
  <2> HIDE DEF places
  <2>3. CallInv(t)' /\ CountInv(t)'
    BY <1>1, <2>1, <2>2, Facts DEF CallInv, CountInv
  <2>4. First(t)' = First(t) /\ InHand(t)' = InHand(t)
    BY <1>1, <2>1 DEF First, InHand
  <2>5. ListInv(t)' /\ Held(t)' = Held(t)
    BY <1>1, <2>1, <2>4, Facts DEF ListInv, Held
  <2> QED
    BY <1>1, <2>3, <2>4, <2>5, QuietStep, StepsAreLocal
       DEF IInv, StepOf, CollectionStep
<1>5. CASE places # {}
  <2>1. at \in DOMAIN registry /\ registry[at] = gc[t].p
    BY <1>3, <1>5
  <2>2. gc[t].collecting
    BY <1>1, <1>2, <1>5, FreshIsNotRegistered
  <2>3. pc'[t] = "Take" /\ gc' = [gc EXCEPT ![t].at = at]
    BY <1>1, <1>5
  <2> HIDE DEF places
  <2>4. /\ gc'[t].at = at
        /\ gc'[t].collecting = gc[t].collecting /\ gc'[t].next = gc[t].next
        /\ gc'[t].freed = gc[t].freed /\ gc'[t].result = gc[t].result
        /\ gc'[t].p = gc[t].p
    BY <2>3, Facts DEF Locals
  <2>5. CallInv(t)' /\ CountInv(t)'
    BY <1>1, <2>1, <2>2, <2>3, <2>4, Facts DEF CallInv, CountInv
  <2>6. First(t)' = First(t) /\ InHand(t)' = InHand(t)
    BY <1>1, <2>2, <2>3, <2>4 DEF First, InHand
  <2>7. ListInv(t)' /\ Held(t)' = Held(t)
    BY <1>1, <2>2, <2>3, <2>4, <2>6, Facts DEF ListInv, Held
  <2> QED
    BY <1>1, <2>5, <2>6, <2>7, QuietStep, StepsAreLocal
       DEF IInv, StepOf, CollectionStep
<1> QED
  BY <1>4, <1>5

\* A step inside after which everyone holds what they held, and what is in the
\* registry changed with what the thread has in hand.
LEMMA RegistryStep ==
  ASSUME IInv, Orderly, NEW t \in Readers, Elsewhere(t), pc[t] \in InsidePCs,
         heap' = heap, Held(t)' = Held(t),
         \A a \in Addresses :
           (a \in ToSet(registry'))
             <=> IF a \in Held(t) THEN a \notin InHand(t)'
                 ELSE a \in ToSet(registry),
         \A i, j \in DOMAIN registry' :
           registry'[i] = registry'[j] => i = j \/ registry'[i] = Null,
         CallInv(t)', CountInv(t)', ListInv(t)'
  PROVE  OrderlyInv'
<1>1. \A u \in Readers \ {t} :
        /\ CallInv(u)' /\ CountInv(u)' /\ ListInv(u)'
        /\ Held(u)' = Held(u) /\ InHand(u)' = InHand(u)
  BY OthersKeep
<1>2. \A u \in Readers : Held(u)' = Held(u)
  BY <1>1
<1>3. ASSUME NEW a \in Addresses
      PROVE  a \in ToSet(registry')
               <=> \E u \in Readers : a \in Held(u)' /\ a \notin InHand(u)'
  <2>1. CASE a \in Held(t)
    <3>1. \A u \in Readers : a \in Held(u) => u = t
      BY <2>1, Facts DEF HeapInv
    <3> QED
      BY <1>2, <2>1, <3>1
  <2>2. CASE a \notin Held(t)
    <3>1. a \in ToSet(registry)
            <=> \E u \in Readers : a \in Held(u) /\ a \notin InHand(u)
      BY Facts DEF HeapInv
    <3>2. \A u \in Readers : a \in Held(u) => InHand(u)' = InHand(u)
      BY <1>1, <2>2
    <3> QED
      BY <1>2, <2>2, <3>1, <3>2
  <2> QED
    BY <2>1, <2>2
<1>4. HeapInv'
  BY <1>2, <1>3, Facts DEF HeapInv
<1> QED
  BY <1>1, <1>4 DEF OrderlyInv

\* What was in hand is registered.
LEMMA RegisterStep ==
  ASSUME IInv, Orderly, NEW t \in Readers, Register(t)
  PROVE  OrderlyInv'
<1> DEFINE p == gc[t].p
<1>1. /\ pc[t] = "Register" /\ pc'[t] = "Release"
      /\ registry' = Append(registry, p)
      /\ UNCHANGED <<readPtrs, heap, gc>>
  BY Facts DEF Register, Goto
<1>2. /\ gc[t].collecting => p = Null
      /\ ~ gc[t].collecting => p \in Addresses /\ p \notin ToSet(registry)
                               /\ p # Null
  BY <1>1, Facts, FreshIsNotRegistered DEF CallInv
<1>3. gc[t].collecting =>
        gc[t].next \in 1 .. Len(readPtrs[t]) /\ p = readPtrs[t][gc[t].next]
  <2>1. gc[t].next \in Nat \ {0} /\ Len(readPtrs[t]) \in Nat /\ CallInv(t)
    BY Facts
  <2> QED
    BY <1>1, <2>1 DEF CallInv
<1>4. CallInv(t)' /\ CountInv(t)'
  <2>1. CallInv(t)'
    BY <1>1, <1>2, Facts DEF CallInv
  <2>2. gc[t].collecting => Null \in ToSet(readPtrs[t])
    BY <1>2, <1>3, Facts DEF ToSet
  <2>3. CountInv(t)'
    BY <1>1, <2>2 DEF CountInv
  <2> QED
    BY <2>1, <2>3
<1>5. /\ ~ gc[t].collecting => First(t) = 1 /\ First(t)' = 1
      /\ gc[t].collecting => /\ First(t) = gc[t].next
                             /\ First(t)' = gc[t].next + 1
  BY <1>1 DEF First
<1>6. ListInv(t)'
  <2>1. ListInv(t) /\ gc[t].next \in Nat /\ Len(readPtrs[t]) \in Nat
    BY Facts
  <2>2. CASE gc[t].collecting
    BY <1>1, <1>5, <2>1, <2>2 DEF ListInv
  <2>3. CASE ~ gc[t].collecting
    BY <1>1, <1>5, <2>1, <2>3 DEF ListInv
  <2> QED
    BY <2>2, <2>3
<1>7. Held(t)' = Held(t)
  <2>1. CASE ~ gc[t].collecting
    BY <1>1, <1>5, <2>1 DEF Held
  <2>2. CASE gc[t].collecting
    <3>1. \A i \in First(t) .. Len(readPtrs[t]) :
            i \in First(t)' .. Len(readPtrs[t]) \/ readPtrs[t][i] = Null
      BY <1>2, <1>3, <1>5, <2>2, Facts
    <3>2. \A i \in First(t)' .. Len(readPtrs[t]) :
            i \in First(t) .. Len(readPtrs[t])
      BY <1>5, <2>2, Facts
    <3> QED
      BY <1>1, <2>2, <3>1, <3>2 DEF Held
  <2> QED
    BY <2>1, <2>2
<1>8. /\ InHand(t)' = {}
      /\ \A a \in Held(t) : a # p => a \notin InHand(t)
      /\ ~ gc[t].collecting => p \in Held(t)
  BY <1>1, <1>2 DEF InHand, Held
<1>9. /\ ToSet(registry') = ToSet(registry) \union {p}
      /\ Len(registry') = Len(registry) + 1
      /\ \A i \in 1 .. Len(registry) : registry'[i] = registry[i]
      /\ registry'[Len(registry) + 1] = p
      /\ DOMAIN registry' = 1 .. Len(registry) + 1
  <2>1. registry \in Seq(Pointers) /\ p \in Pointers
    BY Facts
  <2>2. registry' \in Seq(Pointers)
    BY <1>1, <2>1, AppendProperties
  <2> QED
    BY <1>1, <2>1, <2>2, ElementsOfAppend, LenProperties
<1>10. \A a \in Addresses :
         a \in ToSet(registry')
           <=> IF a \in Held(t) THEN a \notin InHand(t)'
               ELSE a \in ToSet(registry)
  <2>1. \A a \in Addresses : a \in Held(t) /\ a # p => a \in ToSet(registry)
    BY <1>8, Facts DEF HeapInv
  <2>2. Null \notin Addresses
    BY GarbageAssumption
  <2> QED
    BY <1>2, <1>8, <1>9, <2>1, <2>2
<1>11. \A i, j \in DOMAIN registry' :
         registry'[i] = registry'[j] => i = j \/ registry'[i] = Null
  <2>1. \A i \in DOMAIN registry' :
          i \in DOMAIN registry \/ i = Len(registry) + 1
    BY <1>9, Facts
  <2>2. \A i \in DOMAIN registry : registry[i] # p \/ p = Null
    BY <1>2 DEF ToSet
  <2>3. \A i \in DOMAIN registry : registry'[i] = registry[i]
    BY <1>9, Facts
  <2> QED
    BY <1>9, <2>1, <2>2, <2>3, Facts DEF HeapInv
<1> QED
  BY <1>1, <1>4, <1>6, <1>7, <1>10, <1>11, RegistryStep, StepsAreLocal
     DEF IInv, StepOf, CollectionStep, InsidePCs

\* The address is taken out of the registry into the hand.
LEMMA TakeStep ==
  ASSUME IInv, Orderly, NEW t \in Readers, Take(t)
  PROVE  OrderlyInv'
<1> DEFINE p == gc[t].p
           n == gc[t].next
<1>1. /\ pc[t] = "Take" /\ pc'[t] = "Delete"
      /\ gc[t].collecting /\ gc[t].at \in 1 .. Len(registry)
      /\ registry[gc[t].at] = p
      /\ registry' = RemoveAt(registry, gc[t].at)
      /\ gc' = [gc EXCEPT ![t].taken = registry[gc[t].at], ![t].result = 1]
      /\ UNCHANGED <<readPtrs, heap>>
  BY Facts DEF Take, Goto, CallInv
<1>2. /\ gc'[t].taken = p /\ gc'[t].result = 1
      /\ gc'[t].collecting /\ gc'[t].next = n
      /\ gc'[t].freed = gc[t].freed /\ gc'[t].p = p
  BY <1>1, Facts DEF Locals
<1>3. /\ n \in 1 .. Len(readPtrs[t]) /\ p = readPtrs[t][n]
      /\ First(t) = n /\ First(t)' = n
      /\ InHand(t) = {} /\ InHand(t)' = {p} \ {Null}
  BY <1>1, <1>2, Facts DEF CallInv, First, InHand
<1>4. CallInv(t)' /\ CountInv(t)'
  BY <1>1, <1>2, <1>3, Facts DEF CallInv, CountInv
<1>5. ListInv(t)' /\ Held(t)' = Held(t)
  BY <1>1, <1>2, <1>3, Facts DEF ListInv, Held
<1>6. p # Null => p \in Held(t)
  BY <1>3, Facts DEF Held
<1>7. /\ \A i, j \in DOMAIN registry' :
           registry'[i] = registry'[j] => i = j \/ registry'[i] = Null
      /\ \A a : a # Null =>
           (a \in ToSet(registry') <=> a \in ToSet(registry) /\ a # p)
  <2>1. /\ registry \in Seq(Pointers)
        /\ \A i, j \in DOMAIN registry :
             registry[i] = registry[j] => i = j \/ registry[i] = Null
    BY Facts DEF HeapInv
  <2>2. gc[t].at \in 1 .. Len(registry)
    BY <1>1
  <2>3. ASSUME NEW r \in Seq(Pointers), NEW i \in 1 .. Len(r),
               \A j, k \in DOMAIN r : r[j] = r[k] => j = k \/ r[j] = Null
        PROVE  /\ \A j, k \in DOMAIN RemoveAt(r, i) :
                    RemoveAt(r, i)[j] = RemoveAt(r, i)[k]
                      => j = k \/ RemoveAt(r, i)[j] = Null
               /\ \A a : a # Null =>
                    (a \in ToSet(RemoveAt(r, i)) <=> a \in ToSet(r) /\ a # r[i])
    BY <2>3, RemoveAtDistinct
  <2> QED
    BY <1>1, <2>1, <2>2, <2>3
<1>8. \A a \in Addresses :
        a \in ToSet(registry')
          <=> IF a \in Held(t) THEN a \notin InHand(t)'
              ELSE a \in ToSet(registry)
  <2>1. Null \notin Addresses
    BY GarbageAssumption
  <2>2. \A a \in Addresses : a \in Held(t) => a \in ToSet(registry)
    BY <1>3, Facts DEF HeapInv
  <2> QED
    BY <1>3, <1>6, <1>7, <2>1, <2>2
<1> QED
  BY <1>1, <1>4, <1>5, <1>7, <1>8, RegistryStep, StepsAreLocal
     DEF IInv, StepOf, CollectionStep, InsidePCs

LEMMA DeleteStep ==
  ASSUME IInv, Orderly, NEW t \in Readers, Delete(t)
  PROVE  OrderlyInv'
<1> DEFINE p == gc[t].p
           n == gc[t].next
<1>1. /\ pc[t] = "Delete" /\ pc'[t] = "Unlock" /\ gc[t].collecting
      /\ heap' = heap \ {p}
      /\ UNCHANGED <<registry, readPtrs, gc>>
  BY Facts DEF Delete, Goto, CallInv
<1>2. CallInv(t)' /\ CountInv(t)'
  BY <1>1, Facts DEF CallInv, CountInv
<1>3. /\ n \in 1 .. Len(readPtrs[t]) /\ p = readPtrs[t][n]
      /\ First(t) = n /\ First(t)' = n + 1
      /\ InHand(t) = {p} \ {Null} /\ InHand(t)' = {}
  BY <1>1, Facts DEF CallInv, First, InHand
<1>4. ListInv(t)'
  <2>1. /\ ListInv(t) /\ Len(readPtrs[t]) \in Nat
        /\ \A i \in n + 1 .. Len(readPtrs[t]) : i \in n .. Len(readPtrs[t])
    BY <1>3, Facts
  <2> QED
    BY <1>1, <1>3, <2>1 DEF ListInv
<1>5. Held(t)' = Held(t) \ {p}
  <2>1. \A i \in n + 1 .. Len(readPtrs[t]) :
          /\ i \in First(t) .. Len(readPtrs[t])
          /\ readPtrs[t][i] # p \/ p = Null
    <3>1. n \in First(t) .. Len(readPtrs[t])
      BY <1>3, Facts
    <3> QED
      BY <1>3, <3>1, Facts DEF ListInv
  <2>2. \A i \in First(t) .. Len(readPtrs[t]) :
          i \in n + 1 .. Len(readPtrs[t]) \/ readPtrs[t][i] = p
    BY <1>3, Facts
  <2>3. /\ Held(t) = {readPtrs[t][i] : i \in First(t) .. Len(readPtrs[t])}
                       \ {Null}
        /\ Held(t)' = {readPtrs[t][i] : i \in n + 1 .. Len(readPtrs[t])}
                       \ {Null}
    BY <1>1, <1>3 DEF Held
  <2> HIDE DEF p, n
  <2> QED
    BY <2>1, <2>2, <2>3
<1>6. p # Null => p \in Held(t)
  BY <1>3, Facts DEF Held
<1>7. \A u \in Readers \ {t} :
        /\ CallInv(u)' /\ CountInv(u)' /\ ListInv(u)'
        /\ Held(u)' = Held(u) /\ InHand(u)' = InHand(u)
  BY <1>1, OthersKeep, StepsAreLocal DEF IInv, StepOf, CollectionStep
<1>8. HeapInv'
  <2>1. ASSUME NEW u \in Readers, NEW a \in Addresses
        PROVE  /\ a \in Held(u)' <=> a \in Held(u) /\ a # p
               /\ a \in Held(u)' /\ a \notin InHand(u)'
                    <=> a \in Held(u) /\ a \notin InHand(u)
    <3>1. a # Null
      BY GarbageAssumption
    <3>2. CASE u = t
      BY <1>3, <1>5, <3>1, <3>2
    <3>3. CASE u # t
      <4>1. a \in Held(u) => a # p
        BY <1>6, <3>1, <3>3, Facts DEF HeapInv
      <4> QED
        BY <1>7, <3>3, <4>1
    <3> QED
      BY <3>2, <3>3
  <2> HIDE DEF p
  <2>2. \A a \in Addresses : a \in heap' <=> \E u \in Readers : a \in Held(u)'
    BY <1>1, <2>1, Facts DEF HeapInv
  <2>3. \A u, v \in Readers, a \in Addresses :
          a \in Held(u)' /\ a \in Held(v)' => u = v
    BY <2>1, Facts DEF HeapInv
  <2>4. \A a \in Addresses :
          a \in ToSet(registry)
            <=> \E u \in Readers : a \in Held(u)' /\ a \notin InHand(u)'
    BY <2>1, Facts DEF HeapInv
  <2> QED
    BY <1>1, <2>2, <2>3, <2>4, Facts DEF HeapInv
<1> QED
  BY <1>2, <1>4, <1>7, <1>8 DEF OrderlyInv

\* The call returns: to the loop, which counts, or to ReadData(), which
\* remembers the address.
LEMMA ReleaseStep ==
  ASSUME IInv, Orderly, NEW t \in Readers, Release(t)
  PROVE  OrderlyInv'
<1>1. CASE gc[t].collecting
  <2>1. /\ pc[t] = "Release" /\ pc'[t] = "Collect"
        /\ gc'[t] = [NoLocals EXCEPT !.collecting = TRUE,
                                     !.next = gc[t].next + 1,
                                     !.freed = gc[t].freed + gc[t].result]
        /\ UNCHANGED <<registry, readPtrs, heap>>
    BY <1>1, Facts DEF Release, Goto
  <2>2. /\ gc'[t].collecting /\ gc'[t].next = gc[t].next + 1
        /\ gc'[t].freed = gc[t].freed + gc[t].result
    BY <2>1 DEF NoLocals
  <2>3. CallInv(t)'
    BY <2>1, <2>2 DEF CallInv
  <2>4. CountInv(t)'
    BY <1>1, <2>1, <2>2, Facts DEF CallInv, CountInv
  <2>5. First(t)' = First(t) /\ InHand(t)' = InHand(t)
    BY <1>1, <2>1, <2>2 DEF First, InHand
  <2>6. ListInv(t)' /\ Held(t)' = Held(t)
    BY <1>1, <2>1, <2>2, <2>5, Facts DEF ListInv, Held
  <2> QED
    BY <2>1, <2>3, <2>4, <2>5, <2>6, QuietStep, StepsAreLocal
       DEF IInv, StepOf, CollectionStep
<1>2. CASE ~ gc[t].collecting
  <2>1. /\ pc[t] = "Release" /\ pc'[t] = "Analyze"
        /\ gc'[t] = NoLocals
        /\ readPtrs'[t] = Append(readPtrs[t], gc[t].p)
        /\ UNCHANGED <<registry, heap>>
    BY <1>2, Facts DEF Release, Goto
  <2>2. CallInv(t)' /\ CountInv(t)'
    BY <2>1 DEF CallInv, CountInv, NoLocals
  <2>3. First(t) = 1 /\ First(t)' = 1 /\ InHand(t)' = InHand(t)
    BY <1>2, <2>1 DEF First, InHand, NoLocals
  <2>4. /\ Len(readPtrs'[t]) = Len(readPtrs[t]) + 1
        /\ \A i \in 1 .. Len(readPtrs[t]) : readPtrs'[t][i] = readPtrs[t][i]
        /\ readPtrs'[t][Len(readPtrs[t]) + 1] = gc[t].p
    BY <2>1, Facts, ElementsOfAppend
  <2>5. \A i \in 1 .. Len(readPtrs'[t]) :
          i \in 1 .. Len(readPtrs[t]) \/ i = Len(readPtrs[t]) + 1
    BY <2>4, Facts
  <2>6. /\ \A i \in 1 .. Len(readPtrs[t]) : i \in 1 .. Len(readPtrs'[t])
        /\ Len(readPtrs[t]) + 1 \in 1 .. Len(readPtrs'[t])
    BY <2>4, Facts
  <2>7. /\ \A i, j \in 1 .. Len(readPtrs[t]) :
             readPtrs[t][i] = readPtrs[t][j] => i = j \/ readPtrs[t][i] = Null
        /\ \A i \in 1 .. Len(readPtrs[t]) : readPtrs[t][i] # gc[t].p
    BY <1>2, <2>1, <2>3, Facts DEF ListInv
  <2>8. ListInv(t)'
    BY <2>1, <2>3, <2>4, <2>5, <2>7 DEF ListInv, NoLocals
  <2>9. Held(t)' = Held(t)
    <3>1. Held(t) = ({readPtrs[t][i] : i \in 1 .. Len(readPtrs[t])}
                       \union {gc[t].p}) \ {Null}
      BY <1>2, <2>1, <2>3 DEF Held
    <3>2. Held(t)' = {readPtrs'[t][i] : i \in 1 .. Len(readPtrs'[t])} \ {Null}
      BY <2>1, <2>3 DEF Held, NoLocals
    <3> QED
      BY <2>4, <2>5, <2>6, <3>1, <3>2
  <2> QED
    BY <2>1, <2>2, <2>3, <2>8, <2>9, QuietStep, StepsAreLocal
       DEF IInv, StepOf, CollectionStep
<1> QED
  BY <1>1, <1>2

-----------------------------------------------------------------------------
(* The invariant.                                                          *)

LEMMA InitIInv == Init => IInv
<1> SUFFICES ASSUME Init PROVE IInv
  OBVIOUS
<1>1. TypeInv
  BY InitTypes
<1>2. /\ \A t \in Readers : /\ pc[t] = "Analyze" /\ gc[t] = NoLocals
                            /\ readPtrs[t] = <<>>
      /\ registry = <<>> /\ heap = {}
  BY DEF Init
<1>3. SerialInv
  BY <1>2 DEF SerialInv, InsidePCs
<1>4. ASSUME NEW t \in Readers
      PROVE  /\ CallInv(t) /\ CountInv(t) /\ ListInv(t)
             /\ Held(t) = {}
  <2>1. ~ gc[t].collecting /\ First(t) = 1
    BY <1>2 DEF NoLocals, First
  <2>2. CallInv(t) /\ CountInv(t) /\ ListInv(t)
    BY <1>2, <2>1 DEF CallInv, CountInv, ListInv
  <2>3. Held(t) = {}
    BY <1>2, <2>1 DEF Held
  <2> QED
    BY <2>2, <2>3
<1>5. HeapInv
  BY <1>2, <1>4 DEF HeapInv, ToSet
<1> QED
  BY <1>1, <1>3, <1>4, <1>5 DEF IInv, OrderlyInv

\* What a step records is never taken back.
LEMMA HistoryOnlyGrows ==
  ASSUME NEW t \in Readers, StepOf(t)
  PROVE  (overlapped => overlapped') /\ (kept => kept')
<1>1. CASE Lock(t)
  BY <1>1 DEF Lock
<1>2. CASE CollectDone(t)
  BY <1>2 DEF CollectDone
<1>3. CASE ~ Lock(t) /\ ~ CollectDone(t)
  <2>1. UNCHANGED history
    BY <1>3 DEF StepOf, CollectionStep, ReadPacket, ReadRefused, EndAnalyze,
                CollectNext, Find, Register, Take, Delete, Unlock, Release
  <2> QED
    BY <2>1 DEF history
<1> QED
  BY <1>1, <1>2, <1>3

\* Only Lock() leads inside, and it looks whether somebody is there.
LEMMA SerialStep ==
  ASSUME TypeInv, SerialInv, NEW t \in Readers, StepOf(t), ~ overlapped'
  PROVE  SerialInv'
<1>1. /\ \A u \in Readers \ {t} : pc'[u] = pc[u]
      /\ pc \in [Readers -> GarbagePCs]
  BY StepsAreLocal DEF Elsewhere, TypeInv, TypeOK
<1>2. CASE Lock(t)
  <2>1. \A u \in Readers : pc[u] \notin InsidePCs
    BY <1>2 DEF Lock
  <2> QED
    BY <1>1, <2>1 DEF SerialInv
<1>3. CASE ~ Lock(t)
  <2>1. pc'[t] \in InsidePCs => pc[t] \in InsidePCs
    BY <1>1, <1>3
       DEF StepOf, CollectionStep, ReadPacket, ReadRefused, EndAnalyze,
           CollectNext, CollectDone, Find, Register, Take, Delete, Unlock,
           Release, Goto, InsidePCs
  <2> QED
    BY <1>1, <2>1 DEF SerialInv
<1> QED
  BY <1>2, <1>3

LEMMA NextIInv == IInv /\ [Next]_vars => IInv'
<1> SUFFICES ASSUME IInv, [Next]_vars PROVE IInv'
  OBVIOUS
<1>1. TypeInv'
  BY NextTypes DEF IInv
<1>2. CASE UNCHANGED vars
  BY <1>1, <1>2
     DEF vars, history, IInv, Orderly, OrderlyInv, SerialInv, CallInv,
         CountInv, ListInv, HeapInv, Held, InHand, First
<1>3. CASE Next
  <2>1. PICK t \in Readers : StepOf(t)
    BY <1>3 DEF Next, StepOf
  <2>2. ~ overlapped' => SerialInv'
    BY <2>1, HistoryOnlyGrows, SerialStep DEF IInv
  <2>3. ASSUME Orderly' PROVE OrderlyInv'
    <3>1. Orderly /\ ~ kept'
      BY <2>1, <2>3, HistoryOnlyGrows DEF Orderly
    <3> QED
      BY <2>1, <3>1, ReadPacketStep, ReadRefusedStep, EndAnalyzeStep,
         CollectNextStep, CollectDoneStep, LockStep, FindStep, RegisterStep,
         TakeStep, DeleteStep, ReleaseStep DEF StepOf, CollectionStep
  <2> QED
    BY <1>1, <2>2, <2>3 DEF IInv
<1> QED
  BY <1>2, <1>3

-----------------------------------------------------------------------------

\* The variables keep their types, for any number of analysis threads.
THEOREM TypeCorrect == Spec => []TypeOK
<1>1. TypeInv => TypeOK
  BY DEF TypeInv
<1>2. QED
  BY <1>1, InitTypes, NextTypes, PTL DEF Spec

\* The inductive invariant holds, for any number of analysis threads.
THEOREM Invariance == Spec => []IInv
  BY InitIInv, NextIInv, PTL DEF Spec

\* As long as no two threads were inside at once and no list was kept,
\* GarbageCollection() deletes what its caller asked it to, and only what is
\* allocated and nobody else's: no packet is freed twice, whatever addresses
\* are used again and however the threads take turns.
THEOREM NothingDeletedTwice == Spec => []DeletesOnce
<1>1. ASSUME IInv, Orderly, NEW t \in Readers, pc[t] = "Delete"
      PROVE  /\ gc[t].taken = gc[t].p
             /\ gc[t].taken \in heap \union {Null}
             /\ \A u \in Readers \ {t} : gc[t].taken \notin Held(u)
  <2> DEFINE p == gc[t].p
  <2>1. /\ gc[t].taken = p /\ gc[t].collecting
        /\ gc[t].next \in First(t) .. Len(readPtrs[t])
        /\ p = readPtrs[t][gc[t].next]
    BY <1>1, Facts DEF CallInv, First
  <2>2. CASE p = Null
    BY <2>1, <2>2 DEF Held
  <2>3. CASE p # Null
    <3>1. p \in Held(t) /\ p \in Addresses
      BY <1>1, <2>1, <2>3, Facts DEF Held, Pointers
    <3>2. HeapInv
      BY <1>1, Facts
    <3> HIDE DEF p
    <3>3. p \in heap /\ \A u \in Readers \ {t} : p \notin Held(u)
      BY <3>1, <3>2 DEF HeapInv
    <3> QED
      BY <2>1, <3>3 DEF p
  <2> QED
    BY <2>2, <2>3
<1>2. IInv => DeletesOnce
  BY <1>1 DEF DeletesOnce
<1>3. QED
  BY <1>2, Invariance, PTL

\* Under the same condition what is allocated is what the threads hold, each
\* packet one of them, and between two calls what the regulator has registered.
THEOREM NothingFreedWhileHeld == Spec => []HeldIsAllocated
<1>1. ASSUME IInv, Orderly, NEW t \in Readers
      PROVE  Held(t) \subseteq Addresses
  <2>1. /\ gc[t].p \in Pointers /\ First(t) \in Nat \ {0}
        /\ \A i \in 1 .. Len(readPtrs[t]) : readPtrs[t][i] \in Pointers
        /\ Len(readPtrs[t]) \in Nat
    BY <1>1, Facts, ElementOfSeq DEF First
  <2> QED
    BY <2>1 DEF Held, Pointers
<1>2. ASSUME IInv, Orderly
      PROVE  /\ heap = UNION {Held(t) : t \in Readers}
             /\ \A t, u \in Readers : t # u => Held(t) \intersect Held(u) = {}
  <2>1. HeapInv /\ heap \subseteq Addresses
    BY <1>2 DEF IInv, OrderlyInv, TypeInv, TypeOK
  <2> QED
    BY <1>1, <1>2, <2>1 DEF HeapInv
<1>3. ASSUME IInv, Orderly,
             \A t \in Readers : pc[t] \in {"Analyze", "Collect"}
      PROVE  /\ ToSet(registry) \ {Null} = heap
             /\ \A i, j \in DOMAIN registry :
                  registry[i] = registry[j] => i = j \/ registry[i] = Null
  <2>1. /\ HeapInv /\ heap \subseteq Addresses
        /\ ToSet(registry) \subseteq Pointers
    <3>1. HeapInv /\ heap \subseteq Addresses /\ registry \in Seq(Pointers)
      BY <1>3 DEF IInv, OrderlyInv, TypeInv, TypeOK
    <3> QED
      BY <3>1, ElementOfSeq, LenProperties DEF ToSet
  <2>2. \A t \in Readers : InHand(t) = {}
    BY <1>3, Facts DEF InHand, CallInv
  <2>3. \A a \in Addresses : a \in ToSet(registry) <=> a \in heap
    BY <2>1, <2>2 DEF HeapInv
  <2>4. ToSet(registry) \ {Null} = heap
    BY <2>1, <2>3, GarbageAssumption DEF Pointers
  <2> QED
    BY <2>1, <2>4 DEF HeapInv
<1>4. IInv => HeldIsAllocated
  BY <1>2, <1>3 DEF HeldIsAllocated
<1>5. QED
  BY <1>4, Invariance, PTL

\* Under the same condition ReadGarbageCollection() returns with all that it
\* was given freed, and forgets the list if no read in it was refused.
THEOREM EverythingFreed == Spec => FreedAfterAnalyze
<1> DEFINE A ==
      \A t \in Readers :
        Orderly /\ pc[t] = "Collect" /\ pc'[t] = "Analyze" =>
          /\ \A a \in ToSet(readPtrs[t]) \intersect heap :
               \E u \in Readers \ {t} : a \in Held(u)
          /\ Null \notin ToSet(readPtrs[t]) => readPtrs'[t] = <<>>
<1>1. ASSUME IInv, Next, NEW t \in Readers,
             Orderly, pc[t] = "Collect", pc'[t] = "Analyze"
      PROVE  /\ \A a \in ToSet(readPtrs[t]) \intersect heap :
                  \E u \in Readers \ {t} : a \in Held(u)
             /\ Null \notin ToSet(readPtrs[t]) => readPtrs'[t] = <<>>
  <2>1. PICK u \in Readers : StepOf(u)
    BY <1>1 DEF Next, StepOf
  <2>2. u = t
    BY <1>1, <2>1, StepsAreLocal DEF Elsewhere, IInv
  <2>3. CollectDone(t)
    BY <1>1, <2>1, <2>2, Facts
       DEF StepOf, CollectionStep, ReadPacket, ReadRefused, EndAnalyze,
           CollectNext, Lock, Find, Register, Take, Delete, Unlock, Release,
           Goto
  <2>4. /\ Held(t) = {}
        /\ Null \notin ToSet(readPtrs[t]) => readPtrs'[t] = <<>>
    BY <1>1, <2>3, NothingIsLeft, Facts DEF CollectDone
  <2>5. ASSUME NEW a \in heap
        PROVE  \E v \in Readers \ {t} : a \in Held(v)
    <3>1. \E v \in Readers : a \in Held(v)
      BY <1>1, Facts DEF HeapInv
    <3> QED
      BY <2>4, <3>1
  <2> QED
    BY <2>4, <2>5
<1>2. IInv /\ [Next]_vars => [A]_vars
  BY <1>1
<1>3. QED
  BY <1>2, Invariance, PTL DEF Spec, FreedAfterAnalyze

\* One analysis thread is always alone inside, although gc_mutex_ is unlocked
\* twice: the second unlock can only harm another thread.
THEOREM AloneIsSerial ==
  ASSUME NEW r, Readers = {r} PROVE Spec => []~ overlapped
<1>1. Init => ~ overlapped
  BY DEF Init
<1>2. ~ overlapped /\ [Next]_vars => ~ overlapped'
  <2> SUFFICES ASSUME ~ overlapped, [Next]_vars PROVE ~ overlapped'
    OBVIOUS
  <2>1. CASE UNCHANGED vars
    BY <2>1 DEF vars, history
  <2>2. CASE Next
    <3>1. PICK t \in Readers : StepOf(t)
      BY <2>2 DEF Next, StepOf
    <3>2. CASE Lock(t)
      <4>1. \A u \in Readers : pc[u] = "Lock"
        BY <3>2 DEF Lock, Goto
      <4> QED
        BY <3>2, <4>1 DEF Lock, InsidePCs
    <3>3. CASE ~ Lock(t)
      BY <3>1, <3>3
         DEF StepOf, CollectionStep, ReadPacket, ReadRefused, EndAnalyze,
             CollectNext, CollectDone, Find, Register, Take, Delete, Unlock,
             Release, history
    <3> QED
      BY <3>2, <3>3
  <2> QED
    BY <2>1, <2>2
<1> QED
  BY <1>1, <1>2, PTL DEF Spec
=============================================================================
