------------------------------- MODULE GRIServer -------------------------------
(***************************************************************************)
(* The relay server of networking/GRIServer.h: what one socket sends, the  *)
(* slot readAndWriteData() reads into an array and writes to every socket  *)
(* that is connected.                                                      *)
(*                                                                         *)
(* The sockets are Qt's.  A notifier of a socket runs in the event loop,   *)
(* when no slot does, and inside waitForBytesWritten() of that socket: it  *)
(* takes what the network has brought and emits readyRead(), unless that   *)
(* signal of the socket is being handled.  So a call of readAndWriteData() *)
(* may begin inside another one, with an array of its own.  A read of a    *)
(* socket that has bytes returns some, also when its peer is gone: that it *)
(* fails, and that the socket then leaves the list, does not happen here.  *)
(***************************************************************************)
EXTENDS Naturals, Sequences

CONSTANTS
  Sockets,      \* the sockets that clients may open
  Capacity,     \* the size of the array writing, 100
  Arrivals,     \* how many bytes a notifier may find
  MaxBytes      \* bound on the bytes a client sends

ASSUME ServerAssumption ==
  /\ Capacity \in Nat
  /\ Arrivals \subseteq Nat
  /\ MaxBytes \in Nat

VARIABLES
  connected,    \* the list connected
  closed,       \* the sockets whose peer is known to be gone
  arrived,      \* how many bytes each socket has received
  taken,        \* how many of them read() has returned
  calls,        \* the calls of readAndWriteData() in progress, innermost last
  received,     \* history: what was written to each socket
  joined        \* history: taken, when each socket was connected

serverVars == <<connected, closed, arrived, taken, calls, received, joined>>

-----------------------------------------------------------------------------

\* The n-th byte that a client sends.
Byte == [from : Sockets, n : Nat \ {0}]

\* at is the place of the iterator in connected, of the sender() of the signal.
ServerCall == [of      : Sockets,
               place   : {"Read", "Write", "Wait"},
               at      : Nat,
               writing : Seq(Byte)]

NewServerCall(s) == [of |-> s, place |-> "Read", at |-> 1, writing |-> <<>>]

ServerTypeOK ==
  /\ connected \in Seq(Sockets)
  /\ closed \subseteq Sockets
  /\ arrived \in [Sockets -> Nat]
  /\ taken \in [Sockets -> Nat]
  /\ \A s \in Sockets : taken[s] <= arrived[s]
  /\ calls \in Seq(ServerCall)
  /\ \A i \in DOMAIN calls : Len(calls[i].writing) <= Capacity
  /\ received \in [Sockets -> Seq(Byte)]
  /\ joined \in [Sockets -> [Sockets -> Nat]]

ServerInit ==
  /\ connected = <<>>
  /\ closed = {}
  /\ arrived = [s \in Sockets |-> 0]
  /\ taken = [s \in Sockets |-> 0]
  /\ calls = <<>>
  /\ received = [s \in Sockets |-> <<>>]
  /\ joined = [s \in Sockets |-> [c \in Sockets |-> 0]]

Elements(list) == {list[i] : i \in DOMAIN list}

-----------------------------------------------------------------------------
(* What the event loop and the network do.                                 *)

Running == calls # <<>>

\* The innermost call, and the socket its iterator is at.
depth == Len(calls)
top == calls[depth]
socket == connected[top.at]

\* The notifiers of s run.
Listening(s) ==
  /\ s \in Elements(connected) \ closed
  /\ Running => top.place = "Wait" /\ socket = s

\* onNewConnection(), in the event loop only.
OnNewConnection(s) ==
  /\ ~Running
  /\ s \notin Elements(connected)
  /\ connected' = Append(connected, s)
  /\ joined' = [joined EXCEPT ![s] = taken]
  /\ UNCHANGED <<closed, arrived, taken, calls, received>>

\* n bytes have come for s, and readAndWriteData() is called.
ReadyRead(s, n) ==
  /\ Listening(s)
  /\ arrived[s] + n <= MaxBytes
  /\ arrived' = [arrived EXCEPT ![s] = @ + n]
  /\ calls' = IF \E i \in DOMAIN calls : calls[i].of = s THEN calls
              ELSE Append(calls, NewServerCall(s))
  /\ UNCHANGED <<connected, closed, taken, received, joined>>

\* The peer has closed the connection; the socket stays in the list.
Disconnected(s) ==
  /\ Listening(s)
  /\ closed' = closed \union {s}
  /\ UNCHANGED <<connected, arrived, taken, calls, received, joined>>

-----------------------------------------------------------------------------
(* readAndWriteData().                                                     *)

bytesAvailable == arrived[socket] - taken[socket]

\* There are more sockets for the loop at this place.
Looping(place) ==
  Running /\ top.place = place /\ top.at <= Len(connected)

LoopEnded(place) ==
  Running /\ top.place = place /\ top.at > Len(connected)

\* One read() of a socket with more than one byte.  When the array is full
\* it asks for none and gets none, and the loop goes on for ever: see Spins.
ReadBytes ==
  LET n == IF bytesAvailable < Capacity - Len(top.writing)
           THEN bytesAvailable ELSE Capacity - Len(top.writing)
  IN  /\ Looping("Read")
      /\ bytesAvailable > 1
      /\ n > 0
      /\ taken' = [taken EXCEPT ![socket] = @ + n]
      /\ calls' = [calls EXCEPT ![depth].writing =
                     @ \o [i \in 1 .. n |->
                             [from |-> socket, n |-> taken[socket] + i]]]
      /\ UNCHANGED <<connected, closed, arrived, received, joined>>

\* Mutant: one byte left keeps the loop at the socket.
NextSocketWhenEmpty ==
  /\ Looping("Read")
  /\ bytesAvailable = 0
  /\ calls' = [calls EXCEPT ![depth].at = @ + 1]
  /\ UNCHANGED <<connected, closed, arrived, taken, received, joined>>

\* itr++ in the first loop.
NextSocket ==
  /\ Looping("Read")
  /\ bytesAvailable <= 1
  /\ calls' = [calls EXCEPT ![depth].at = @ + 1]
  /\ UNCHANGED <<connected, closed, arrived, taken, received, joined>>

\* The iterator goes back to the first socket.
AllRead ==
  /\ LoopEnded("Read")
  /\ calls' = [calls EXCEPT ![depth].place = "Write", ![depth].at = 1]
  /\ UNCHANGED <<connected, closed, arrived, taken, received, joined>>

\* Mutant: what was read is not sent back to where the signal came from.
WriteSocketButSender ==
  /\ Looping("Write")
  /\ IF top.writing = <<>> \/ socket \in closed \/ socket = top.of
     THEN /\ calls' = [calls EXCEPT ![depth].at = @ + 1]
          /\ UNCHANGED received
     ELSE /\ calls' = [calls EXCEPT ![depth].place = "Wait"]
          /\ received' = [received EXCEPT ![socket] = @ \o top.writing]
  /\ UNCHANGED <<connected, closed, arrived, taken, joined>>

\* write() of the array, and waitForBytesWritten(), which returns at once if
\* there is nothing to write or the socket is closed.
WriteSocket ==
  /\ Looping("Write")
  /\ IF top.writing = <<>> \/ socket \in closed
     THEN /\ calls' = [calls EXCEPT ![depth].at = @ + 1]
          /\ UNCHANGED received
     ELSE /\ calls' = [calls EXCEPT ![depth].place = "Wait"]
          /\ received' = [received EXCEPT ![socket] = @ \o top.writing]
  /\ UNCHANGED <<connected, closed, arrived, taken, joined>>

\* Mutant: the wait ends and the socket is written to again.
BytesWrittenAgain ==
  /\ Looping("Wait")
  /\ calls' = [calls EXCEPT ![depth].place = "Write"]
  /\ UNCHANGED <<connected, closed, arrived, taken, received, joined>>

\* waitForBytesWritten() returns: the bytes are gone, or the peer is.
BytesWritten ==
  /\ Looping("Wait")
  /\ calls' = [calls EXCEPT ![depth].place = "Write", ![depth].at = @ + 1]
  /\ UNCHANGED <<connected, closed, arrived, taken, received, joined>>

\* The call returns, to the one that it interrupted or to the event loop.
AllWritten ==
  /\ LoopEnded("Write")
  /\ calls' = SubSeq(calls, 1, depth - 1)
  /\ UNCHANGED <<connected, closed, arrived, taken, received, joined>>

ServerStep ==
  \/ ReadBytes \/ NextSocket \/ AllRead
  \/ WriteSocket \/ BytesWritten \/ AllWritten

ServerNext ==
  \/ \E s \in Sockets :
       \/ OnNewConnection(s) \/ Disconnected(s)
       \/ \E n \in Arrivals : ReadyRead(s, n)
  \/ ServerStep

ServerSpec == ServerInit /\ [][ServerNext]_serverVars

\* The thread of the server runs, and waitForBytesWritten() looks at the socket
\* for writing each time that it was called for reading.  That the peer reads
\* what it is sent, or goes away, is taken for granted: it is waited for
\* without a limit.
FairServerSpec ==
  ServerSpec /\ WF_serverVars(ServerStep) /\ SF_serverVars(BytesWritten)

-----------------------------------------------------------------------------
(* Properties.                                                             *)

\* No byte is written to a socket twice, nor one that was read before the
\* socket was connected, although a call that begins while another one waits
\* walks the same list with an array of its own (GRIServer.h:105-111).
ReceivedOnce ==
  \A s \in Sockets : \A i \in DOMAIN received[s] :
    /\ received[s][i].n > joined[s][received[s][i].from]
    /\ \A j \in DOMAIN received[s] : received[s][j] = received[s][i] => j = i

\* When the server is back in the event loop, every byte that it took out of a
\* socket was written to every socket that was connected then and is open
\* (GRIServer.h:35-36).
TakenIsRelayed ==
  ~Running =>
    \A s \in Elements(connected) \ closed, c \in Sockets :
      \A n \in joined[s][c] + 1 .. taken[c] :
        [from |-> c, n |-> n] \in Elements(received[s])

\* The array is full, and there is more to read: the loop has no way out.
Spins ==
  /\ Looping("Read")
  /\ bytesAvailable > 1
  /\ Len(top.writing) = Capacity

\* A call of readAndWriteData() returns, however many begin inside it, unless
\* its array is too small.
CallsReturn == Running ~> ~Running \/ Spins

-----------------------------------------------------------------------------
(* What the documentation says and the code does not do: see README 3.  *)

\* What a client sends is relayed.
SentIsRelayed ==
  \A c \in Sockets : \A n \in 1 .. MaxBytes : arrived[c] >= n ~> taken[c] >= n

\* What two clients both received they received in one order.
OneOrder ==
  \A s, t \in Sockets :
    \A i, j \in DOMAIN received[s], k, l \in DOMAIN received[t] :
      received[s][i] = received[t][k] /\ received[s][j] = received[t][l]
        => (i < j <=> k < l)
=============================================================================
