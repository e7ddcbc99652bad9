----------------------------- MODULE WebSocket -----------------------------
(***************************************************************************)
(* A WebSocket connection (core/http/websocket.go): Upgrade, the opening   *)
(* handshake of DialWebSocket under a context that may end, ReadMessage in *)
(* one goroutine, WriteMessage, Close and Abort in others, and the network *)
(* between it and a peer that sends whatever it likes and reads when it    *)
(* likes.                                                                  *)
(*                                                                         *)
(* A frame goes out in two writes, header and payload; the network buffers *)
(* Capacity of them.  A frame that comes in is one of Frames, a record     *)
(*   [op, fin, size, data]                                                 *)
(* with op "broken" for one that readFrame refuses before its payload, and *)
(* data for what the payload says.  ReadMessage may fail inside a frame;   *)
(* called again, it takes the bytes that follow for frames, and peerSent   *)
(* has from there on what it takes them for, which can be anything.        *)
(***************************************************************************)
EXTENDS Naturals, Sequences, FiniteSets, SequencesExt, Folds

CONSTANTS
  Goroutines, Reader, Nobody,   \* Reader is the one that reads
  Frames,
  Utf8,                         \* sequences of data that are valid UTF-8 together
  maxMessageSize,
  Capacity,
  MaxIn, MaxOut, MaxFaults   \* bounds: frames of the peer, of this end, deadlines

ASSUME WebSocketAssumption ==
  /\ Reader \in Goroutines /\ Nobody \notin Goroutines
  /\ maxMessageSize \in Nat /\ Capacity \in Nat \ {0}
  /\ MaxIn \in Nat /\ MaxOut \in Nat /\ MaxFaults \in Nat

ASSUME FramesAssumption ==
  \A f \in Frames :
    /\ f.op \in {"text", "binary", "continuation", "ping", "pong", "close",
                 "bad close", "unknown", "unknown control", "broken"}
    /\ f.fin \in BOOLEAN /\ f.size \in Nat

VARIABLES
  dial,          \* "connect", "handshake", "check", "open" or "failed"
  cancelled, watched,   \* the context is done; stopCancel has not been called
  closed,        \* the network connection, by this end
  peerSent, consumed,   \* frames of the peer, how many were read
  inFlight,      \* writes on the network that the peer has not read
  closeSent, writeMu,
  job,           \* per goroutine: the frame it is writing
  message,       \* of ReadMessage: the frames gathered so far
  faults,
  delivered,     \* history: the messages returned, as sequences of frames
  readFailed,    \* history: ReadMessage has failed
  desync,        \* history: the first frame it failed inside, or 0
  out, writeFailed,   \* history: the writes, and whether one failed
  calls          \* bound: how often WriteMessage was called

opening == <<dial, cancelled, watched>>
incoming == <<peerSent, consumed, message, delivered, readFailed, desync>>
outgoing == <<inFlight, closeSent, writeMu, out, writeFailed, calls>>
vars == <<opening, closed, incoming, outgoing, job, faults>>

Idle == [at |-> "idle", op |-> "none", then |-> "none"]
Reading == [Idle EXCEPT !.at = "read"]
Closing(then) == [Idle EXCEPT !.at = "close network", !.then = then]

Init ==
  /\ dial = "connect" /\ cancelled = FALSE /\ watched = FALSE /\ closed = FALSE
  /\ peerSent = <<>> /\ consumed = 0
  /\ inFlight = 0 /\ out = <<>> /\ calls = 0
  /\ closeSent = FALSE /\ writeMu = Nobody
  /\ job = [g \in Goroutines |-> Idle]
  /\ message = <<>> /\ faults = 0
  /\ delivered = <<>> /\ readFailed = FALSE /\ desync = 0
  /\ writeFailed = FALSE

-----------------------------------------------------------------------------
(* Upgrade and DialWebSocket.                                              *)

Established == UNCHANGED <<incoming, outgoing, job, faults>>

\* The request is refused, the answer cannot be written, or the connection is
\* the caller's.
Upgrade ==
  /\ dial = "connect"
  /\ \/ dial' = "failed" /\ closed' \in BOOLEAN
     \/ dial' = "open" /\ UNCHANGED closed
  /\ UNCHANGED <<cancelled, watched>> /\ Established

\* From here on the context's end closes the connection.
Connect ==
  /\ dial = "connect"
  /\ \/ ~cancelled /\ dial' = "handshake" /\ watched' = TRUE
     \/ dial' = "failed" /\ UNCHANGED watched
  /\ UNCHANGED <<cancelled, closed>> /\ Established

Cancel ==
  /\ ~cancelled /\ cancelled' = TRUE
  /\ closed' = (closed \/ watched)
  /\ UNCHANGED <<dial, watched>> /\ Established

\* FAULT: the watch is left running.
HandshakeWatched ==
  /\ dial = "handshake"
  /\ \/ dial' = "check" /\ UNCHANGED closed
     \/ dial' = "failed" /\ closed' = TRUE
  /\ UNCHANGED <<cancelled, watched>> /\ Established

\* A valid response, maybe read before the watch closed the connection; or the
\* deferred Close.  Either way the watch ends.
Handshake ==
  /\ dial = "handshake" /\ watched' = FALSE
  /\ \/ dial' = "check" /\ UNCHANGED closed
     \/ dial' = "failed" /\ closed' = TRUE
  /\ UNCHANGED cancelled /\ Established

\* FAULT: the watch is thought to tell.
CheckDropped ==
  /\ dial = "check" /\ dial' = "open"
  /\ UNCHANGED <<closed, cancelled, watched>> /\ Established

Check ==
  /\ dial = "check"
  /\ dial' = (IF cancelled THEN "failed" ELSE "open") /\ closed' = cancelled
  /\ UNCHANGED <<cancelled, watched>> /\ Established

-----------------------------------------------------------------------------
(* The peer.                                                               *)

\* Nobody can tell a frame on its way from one that is not sent yet, so one at a
\* time is enough.  Of a frame that was left half read there is more to read.
PeerSends(f) ==
  /\ dial = "open" /\ (~closed \/ desync # 0)
  /\ Len(peerSent) < MaxIn /\ consumed = Len(peerSent)
  /\ peerSent' = Append(peerSent, f)
  /\ UNCHANGED <<opening, closed, consumed, message, delivered, readFailed, desync,
                 outgoing, job, faults>>

PeerReads ==
  /\ inFlight > 0 /\ inFlight' = inFlight - 1
  /\ UNCHANGED <<opening, closed, incoming, closeSent, writeMu, out, writeFailed, calls, job, faults>>

-----------------------------------------------------------------------------
(* Writing.  What a goroutine does after its frame is in job[g].then.      *)

Starts(g, op, then) ==
  job' = [job EXCEPT ![g] = [at |-> "lock", op |-> op, then |-> then]]

WriteMessage(g) ==
  /\ dial = "open" /\ job[g] = Idle /\ Starts(g, "data", "return")
  /\ calls < MaxOut /\ calls' = calls + 1
  /\ UNCHANGED <<opening, closed, incoming, inFlight, closeSent, writeMu, out, writeFailed, faults>>

Close(g) ==
  /\ dial = "open" /\ job[g] = Idle /\ ~closed /\ Starts(g, "close", "close")
  /\ UNCHANGED <<opening, closed, incoming, outgoing, faults>>

\* FAULT: Abort says goodbye.
AbortWithFrame(g) ==
  /\ dial = "open" /\ job[g] = Idle /\ ~closed /\ Starts(g, "close", "abort")
  /\ UNCHANGED <<opening, closed, incoming, outgoing, faults>>

\* No lock is taken: a frame that is being written is cut short.
Abort(g) ==
  /\ dial = "open" /\ job[g] = Idle /\ ~closed
  /\ job' = [job EXCEPT ![g] = Closing("abort")]
  /\ UNCHANGED <<opening, closed, incoming, outgoing, faults>>

\* After the frame was written or refused.  A failed pong ends ReadMessage.
After(g, ok) ==
  LET then == job[g].then IN
  /\ job' = [job EXCEPT ![g] =
       IF then \in {"close", "closed by peer", "abort"} THEN Closing(then)
       ELSE IF then = "read on" /\ ok THEN Reading ELSE Idle]
  /\ readFailed' = (readFailed \/ then = "fail" \/ (then = "read on" /\ ~ok))
  /\ message' = IF then = "read on" /\ ~ok THEN <<>> ELSE message
  /\ UNCHANGED <<peerSent, consumed, delivered, desync>>

\* FAULT: the lock is not taken.
writeFrameUnlocked(g) ==
  /\ job[g].at = "lock"
  /\ ~(closeSent /\ job[g].op \in {"data", "close"})
  /\ closeSent' = (closeSent \/ job[g].op = "close")
  /\ writeMu' = g /\ job' = [job EXCEPT ![g].at = "header"]
  /\ UNCHANGED <<opening, closed, incoming, inFlight, out, writeFailed, calls, faults>>

\* FAULT: only another close frame is refused.
writeFrameData(g) ==
  /\ job[g].at = "lock" /\ writeMu = Nobody
  /\ ~(closeSent /\ job[g].op = "close")
  /\ closeSent' = (closeSent \/ job[g].op = "close")
  /\ writeMu' = g /\ job' = [job EXCEPT ![g].at = "header"]
  /\ UNCHANGED <<opening, closed, incoming, inFlight, out, writeFailed, calls, faults>>

\* closeSent is set before anything is written.
writeFrame(g) ==
  /\ job[g].at = "lock" /\ writeMu = Nobody
  /\ ~(closeSent /\ job[g].op \in {"data", "close"})
  /\ closeSent' = (closeSent \/ job[g].op = "close")
  /\ writeMu' = g /\ job' = [job EXCEPT ![g].at = "header"]
  /\ UNCHANGED <<opening, closed, incoming, inFlight, out, writeFailed, calls, faults>>

\* Data is refused with an error, a second close frame without one.
RefuseFrame(g) ==
  /\ job[g].at = "lock" /\ writeMu = Nobody
  /\ closeSent /\ job[g].op \in {"data", "close"}
  /\ After(g, job[g].op = "close")
  /\ UNCHANGED <<opening, closed, outgoing, faults>>

Unit(g) == [op |-> job[g].op, part |-> job[g].at]

writeAll(g) ==
  /\ job[g].at \in {"header", "payload"} /\ ~closed /\ inFlight < Capacity
  /\ inFlight' = inFlight + 1
  /\ out' = (IF writeFailed THEN out ELSE Append(out, Unit(g)))
  /\ IF job[g].at = "header"
     THEN job' = [job EXCEPT ![g].at = "payload"] /\ UNCHANGED <<writeMu, incoming>>
     ELSE writeMu' = Nobody /\ After(g, TRUE)
  /\ UNCHANGED <<opening, closed, closeSent, writeFailed, calls, faults>>

\* The connection is closed, or it breaks or the write deadline passes; the lock is
\* dropped and the connection stays as it is, maybe with a part of a frame on it.
WriteFails(g) ==
  /\ job[g].at \in {"header", "payload"}
  /\ \/ closed /\ UNCHANGED faults
     \/ faults < MaxFaults /\ faults' = faults + 1
  /\ writeFailed' = TRUE /\ out' = <<>>
  /\ writeMu' = Nobody /\ After(g, FALSE)
  /\ UNCHANGED <<opening, closed, inFlight, closeSent, calls>>

\* The end of Close, and of a ReadMessage that met a close frame.
closeNetwork(g) ==
  /\ job[g].at = "close network" /\ closed' = TRUE
  /\ job' = [job EXCEPT ![g] = Idle]
  /\ readFailed' = (readFailed \/ job[g].then = "closed by peer")
  /\ UNCHANGED <<opening, peerSent, consumed, message, delivered, desync, outgoing, faults>>

-----------------------------------------------------------------------------
(* ReadMessage.                                                            *)

ReadMessage ==
  /\ dial = "open" /\ job[Reader] = Idle
  /\ job' = [job EXCEPT ![Reader] = Reading] /\ message' = <<>>
  /\ UNCHANGED <<opening, closed, peerSent, consumed, delivered, readFailed, desync,
                 outgoing, faults>>

Total(sizes) == FoldLeft(LAMBDA n, size : n + size, 0, sizes)
Size(frames) == Total([i \in DOMAIN frames |-> peerSent[frames[i]].size])
Valid(frames) ==
  peerSent[frames[1]].op = "text" => [i \in DOMAIN frames |-> peerSent[frames[i]].data] \in Utf8

fragmented == message # <<>>
isControl(f) == f.op \in {"ping", "pong", "close", "bad close", "unknown control"}
Control(f) == f.op \in {"ping", "pong"}

\* What readFrame refuses before it reads the payload.
RefusedHeader(f) ==
  \/ f.op = "broken" \/ f.size > maxMessageSize
  \/ isControl(f) /\ ~f.fin

\* What ReadMessage refuses once it has the frame.
OutOfPlace(f) ==
  \/ f.op \in {"text", "binary"} /\ fragmented
  \/ f.op = "continuation" /\ ~fragmented
  \/ f.op \in {"bad close", "unknown", "unknown control"}

\* The frame that is read now is left half read.
LeftInside == desync' = IF desync = 0 THEN consumed + 1 ELSE desync

\* What arrived before the connection was closed may still be in the buffer.
Read(f) ==
  /\ job[Reader].at = "read" /\ consumed < Len(peerSent)
  /\ f = peerSent[consumed + 1] /\ consumed' = consumed + 1
  /\ UNCHANGED <<opening, closed, peerSent, outgoing, faults>>

\* Protocol errors, invalid text and messages over the limit: a close frame is
\* tried, and ReadMessage returns.
ReadRefused(f) ==
  /\ Read(f)
  /\ LET gathered == Append(message, consumed + 1) IN
     \/ RefusedHeader(f) /\ LeftInside
     \/ /\ ~RefusedHeader(f) /\ UNCHANGED desync
        /\ \/ OutOfPlace(f)
           \/ /\ ~Control(f) /\ f.op # "close"
              /\ \/ Size(gathered) > maxMessageSize
                 \/ f.fin /\ ~OutOfPlace(f) /\ ~Valid(gathered)
  /\ message' = <<>> /\ Starts(Reader, "close", "fail")
  /\ UNCHANGED <<delivered, readFailed>>

Acceptable(f) == ~RefusedHeader(f) /\ ~OutOfPlace(f)

ReadControl(f) ==
  /\ Read(f) /\ Acceptable(f)
  /\ \/ f.op = "ping" /\ Starts(Reader, "pong", "read on")
     \/ f.op = "pong" /\ UNCHANGED job
     \/ f.op = "close" /\ Starts(Reader, "close", "closed by peer")
  /\ message' = IF f.op = "close" THEN <<>> ELSE message
  /\ UNCHANGED <<delivered, readFailed, desync>>

\* FAULT: the limit and the end of a message are those of its last frame.
ReadDataFrame(f) ==
  LET gathered == Append(message, consumed + 1) IN
  /\ Read(f) /\ ~RefusedHeader(f) /\ ~OutOfPlace(f) /\ ~Control(f) /\ f.op # "close"
  /\ f.size <= maxMessageSize
  /\ IF f.fin
     THEN /\ Valid(gathered) /\ delivered' = Append(delivered, gathered)
          /\ message' = <<>> /\ job' = [job EXCEPT ![Reader] = Idle]
     ELSE message' = gathered /\ UNCHANGED <<delivered, job>>
  /\ UNCHANGED <<readFailed, desync>>

ReadData(f) ==
  LET gathered == Append(message, consumed + 1) IN
  /\ Read(f) /\ Acceptable(f) /\ ~Control(f) /\ f.op # "close"
  /\ Size(gathered) <= maxMessageSize
  /\ IF f.fin
     THEN /\ Valid(gathered) /\ delivered' = Append(delivered, gathered)
          /\ message' = <<>> /\ job' = [job EXCEPT ![Reader] = Idle]
     ELSE message' = gathered /\ UNCHANGED <<delivered, job>>
  /\ UNCHANGED <<readFailed, desync>>

\* The connection is closed, or it breaks or the read deadline passes, maybe
\* inside a frame: what was gathered is lost.
ReadFails ==
  /\ job[Reader].at = "read"
  /\ \/ closed /\ UNCHANGED <<faults, desync, consumed>>
     \/ /\ faults < MaxFaults /\ faults' = faults + 1
        /\ \/ UNCHANGED <<desync, consumed>>
           \/ consumed < Len(peerSent) /\ consumed' = consumed + 1 /\ LeftInside
  /\ job' = [job EXCEPT ![Reader] = Idle] /\ message' = <<>> /\ readFailed' = TRUE
  /\ UNCHANGED <<opening, closed, peerSent, delivered, outgoing>>

-----------------------------------------------------------------------------

Writing(g) == writeFrame(g) \/ RefuseFrame(g) \/ writeAll(g) \/ WriteFails(g) \/ closeNetwork(g)

Next ==
  \/ Upgrade \/ Connect \/ Cancel \/ Handshake \/ Check
  \/ \E f \in Frames : PeerSends(f)
  \/ PeerReads
  \/ \E g \in Goroutines : WriteMessage(g) \/ Close(g) \/ Abort(g)
  \/ \E g \in Goroutines : Writing(g)
  \/ ReadMessage \/ ReadFails
  \/ \E f \in Frames : ReadRefused(f) \/ ReadControl(f) \/ ReadData(f)

\* Goroutines run; the peer need not do anything, and no deadline need be set.
Fairness ==
  /\ \A g \in Goroutines : WF_vars(Writing(g))
  /\ WF_vars(ReadFails)

Spec == Init /\ [][Next]_vars
FairSpec == Spec /\ Fairness

-----------------------------------------------------------------------------
(* Properties.                                                             *)

TypeOK ==
  /\ dial \in {"connect", "handshake", "check", "open", "failed"}
  /\ consumed \in 0..Len(peerSent) /\ Len(peerSent) <= MaxIn
  /\ inFlight \in 0..Capacity /\ calls \in 0..MaxOut
  /\ writeMu \in Goroutines \cup {Nobody}
  /\ \A g \in Goroutines : job[g].at \in {"header", "payload"} <=> writeMu = g
  /\ ToSet(message) \subseteq 1..consumed /\ desync \in 0..consumed
  /\ faults \in 0..MaxFaults

CloseFrames == {i \in DOMAIN out : out[i].op = "close" /\ out[i].part = "header"}

\* What goes out is a sequence of whole frames, whatever the writers, the
\* reader's pongs and its close frame do to each other: no frame begins inside
\* another, at most one close frame is sent, and no data follows it.  What goes
\* out after a failed write is left out, because the connection stays open after
\* it (websocket.go:514-558).
FramesAreWhole ==
  /\ \A i \in DOMAIN out :
       IF i % 2 = 1 THEN out[i].part = "header"
       ELSE out[i] = [out[i - 1] EXCEPT !.part = "payload"]
  /\ Cardinality(CloseFrames) <= 1
  /\ \A i \in CloseFrames : \A j \in DOMAIN out : j > i => out[j].op # "data"

\* d is exactly one message the peer sent: a first frame, its continuations up
\* to the one with fin, and only control frames between them.
IsMessage(d) ==
  LET n == Len(d) IN
  /\ peerSent[d[1]].op \in {"text", "binary"}
  /\ \A i \in 2..n : peerSent[d[i]].op = "continuation" /\ d[i - 1] < d[i]
  /\ \A i \in 1..n : peerSent[d[i]].fin = (i = n)
  /\ \A k \in d[1]..d[n] : k \in ToSet(d) \/ Control(peerSent[k])
  /\ Size(d) <= maxMessageSize /\ Valid(d)

\* The frames before the one that ReadMessage failed inside are the peer's.
InStep(d) == desync = 0 \/ Last(d) < desync

\* ReadMessage returns whole messages of the peer within the limit, in order, also
\* when it is called again after an error, unless that error left it inside a
\* frame: of what it returns from there on nothing is said.  It leaves no message
\* out until it has failed (websocket.go:320-378).
MessagesAreThePeers ==
  /\ \A i \in DOMAIN delivered :
       /\ InStep(delivered[i]) => IsMessage(delivered[i])
       /\ i > 1 => Last(delivered[i - 1]) < delivered[i][1]
  /\ ~readFailed /\ job[Reader].at \in {"idle", "read"} =>
       \A k \in 1..consumed :
         \/ Control(peerSent[k]) \/ k \in ToSet(message)
         \/ \E i \in DOMAIN delivered : k \in ToSet(delivered[i])

\* DialWebSocket returns an open connection, and its context does not close it any
\* more: only Close, Abort and the reader do (websocket.go:168-242).
DialedStaysOpen ==
  [][/\ dial # "open" /\ dial' = "open" => ~closed'
     /\ dial = "open" /\ closed' /\ ~closed => cancelled' = cancelled]_vars

\* Abort closes the connection and ends the write that another goroutine may be
\* blocked in, also when the peer reads nothing any more (websocket.go:593-603,
\* websocket_test.go:224).
AbortInterrupts ==
  (\E g \in Goroutines : job[g].then = "abort") ~> (closed /\ writeMu = Nobody)
=============================================================================
