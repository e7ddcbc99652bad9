-------------------------- MODULE WebSocketProofs --------------------------
(***************************************************************************)
(* What a WebSocket connection writes and reads, and how it is opened, for *)
(* any number of writers, messages and faults and any network.             *)
(***************************************************************************)
EXTENDS WebSocket, FiniteSetTheorems, TLAPS

-----------------------------------------------------------------------------
(* The inductive invariant.                                                *)

Places == {"idle", "read", "lock", "header", "payload", "close network"}
Jobs == [at : Places, op : {"none", "data", "close", "pong"},
         then : {"none", "return", "close", "closed by peer", "abort", "read on", "fail"}]
Units == [op : {"none", "data", "close", "pong"}, part : {"header", "payload"}]

Typed ==
  /\ dial \in {"connect", "handshake", "check", "open", "failed"}
  /\ cancelled \in BOOLEAN /\ watched \in BOOLEAN /\ closed \in BOOLEAN
  /\ closeSent \in BOOLEAN /\ writeFailed \in BOOLEAN
  /\ job \in [Goroutines -> Jobs] /\ out \in Seq(Units)
  /\ writeMu \in Goroutines \cup {Nobody}

\* Nothing happens on a connection that is not open yet, and the context
\* watches only while the handshake runs.
Opening ==
  /\ dial # "open" => \A g \in Goroutines : job[g] = Idle
  /\ dial = "connect" => ~closed
  /\ watched => dial = "handshake"

\* The lock is held exactly while a frame is written.
Holder == \A g \in Goroutines : job[g].at \in {"header", "payload"} <=> writeMu = g

\* Between two frames, every header has its payload; the holder has written the
\* header of its own frame, and nobody else anything since.
Framed ==
  /\ \A i \in DOMAIN out :
       IF i % 2 = 1 THEN out[i].part = "header"
       ELSE out[i] = [out[i - 1] EXCEPT !.part = "payload"]
  /\ writeFailed => out = <<>>
  /\ ~writeFailed =>
       /\ writeMu = Nobody => Len(out) % 2 = 0
       /\ \A g \in Goroutines :
            /\ job[g].at = "header" => Len(out) % 2 = 0
            /\ job[g].at = "payload" =>
                 Len(out) % 2 = 1 /\ out[Len(out)] = [op |-> job[g].op, part |-> "header"]

\* closeSent tells of the close frame before it is written, and no data frame
\* is being written once it is set.
Goodbye ==
  /\ ~closeSent => CloseFrames = {}
  /\ \A g \in Goroutines : job[g].at \in {"header", "payload"} =>
       /\ job[g].op = "data" => ~closeSent
       /\ job[g].op = "close" => closeSent
       /\ job[g].op = "close" /\ job[g].at = "header" => CloseFrames = {}
  /\ \A i, j \in CloseFrames : i = j
  /\ \A i \in CloseFrames : \A j \in DOMAIN out : j > i => out[j].op # "data"

IInv == Typed /\ Opening /\ Holder /\ Framed /\ Goodbye

USE WebSocketAssumption

-----------------------------------------------------------------------------
(* Lemmas.                                                                 *)

LEMMA SomeJobs ==
  /\ Idle \in Jobs /\ Idle.at = "idle" /\ Reading \in Jobs /\ Reading.at = "read"
  /\ \A then \in {"close", "closed by peer", "abort"} :
       Closing(then) \in Jobs /\ Closing(then).at = "close network"
BY DEF Idle, Reading, Closing, Jobs, Places

LEMMA AfterFrame ==
  ASSUME Typed, NEW g \in Goroutines, NEW ok \in BOOLEAN, After(g, ok)
  PROVE  \E x \in Jobs : job' = [job EXCEPT ![g] = x] /\ x.at \in {"idle", "read", "close network"}
BY SomeJobs DEF After

LEMMA Appended ==
  ASSUME NEW s \in Seq(Units), NEW u \in Units
  PROVE  /\ Append(s, u) \in Seq(Units) /\ Len(s) \in Nat /\ Len(Append(s, u)) = Len(s) + 1
         /\ DOMAIN s = 1..Len(s) /\ DOMAIN Append(s, u) = 1..(Len(s) + 1)
         /\ Append(s, u)[Len(s) + 1] = u /\ \A i \in DOMAIN s : Append(s, u)[i] = s[i]
         /\ \A i \in DOMAIN s : s[i] \in Units
OBVIOUS

Writes == Holder /\ Framed /\ Goodbye

\* A step outside the frames.
LEMMA Outside ==
  ASSUME IInv, UNCHANGED <<out, writeMu, closeSent, writeFailed>>,
         \A g \in Goroutines :
           \/ job'[g] = job[g]
           \/ job[g].at \notin {"header", "payload"} /\ job'[g].at \notin {"header", "payload"}
  PROVE  Writes'
<1>1. CloseFrames' = CloseFrames
  BY DEF CloseFrames
<1>2. Holder'
  BY DEF IInv, Holder
<1>3. Framed'
  BY DEF IInv, Framed
<1>4. Goodbye'
  BY <1>1 DEF IInv, Goodbye
<1> QED BY <1>2, <1>3, <1>4 DEF Writes

-----------------------------------------------------------------------------
(* Steps.                                                                  *)

LEMMA OpeningSteps ==
  ASSUME IInv,
         \/ Upgrade \/ Connect \/ Cancel \/ Handshake \/ Check \/ PeerReads \/ UNCHANGED vars
         \/ \E f \in Frames : PeerSends(f)
  PROVE  IInv'
<1> USE DEF opening, incoming, outgoing
<1>1. UNCHANGED <<out, writeMu, closeSent, writeFailed, job>>
  BY DEF Upgrade, Connect, Cancel, Handshake, Check, Established, PeerReads, PeerSends, vars
<1>2. Typed'
  BY <1>1 DEF IInv, Typed, Upgrade, Connect, Cancel, Handshake, Check, Established, PeerReads,
    PeerSends, vars
<1>3. Opening'
  BY <1>1 DEF IInv, Typed, Opening, Upgrade, Connect, Cancel, Handshake, Check, PeerReads,
    PeerSends, vars
<1>4. Writes'
  BY <1>1, Outside
<1> QED BY <1>2, <1>3, <1>4 DEF IInv, Writes

\* Steps of one goroutine that neither take the lock nor write.
LEMMA CallSteps ==
  ASSUME IInv, NEW g \in Goroutines,
         WriteMessage(g) \/ Close(g) \/ Abort(g) \/ RefuseFrame(g) \/ closeNetwork(g)
  PROVE  IInv'
<1> USE DEF opening, incoming, outgoing
<1>1. /\ UNCHANGED <<dial, cancelled, watched, out, writeMu, closeSent, writeFailed>>
      /\ closed' = closed \/ (closed' = TRUE /\ job[g].at = "close network")
      /\ job[g] # Idle \/ dial = "open"
  BY SomeJobs DEF WriteMessage, Close, Abort, RefuseFrame, closeNetwork
<1>2. PICK x \in Jobs : /\ job' = [job EXCEPT ![g] = x]
                        /\ x.at \notin {"header", "payload"} /\ job[g].at \notin {"header", "payload"}
  <2>1. CASE RefuseFrame(g)
    <3>1. After(g, job[g].op = "close") /\ job[g].at = "lock"
      BY <2>1 DEF RefuseFrame
    <3>2. CASE job[g].op = "close"
      BY <3>1, <3>2, AfterFrame DEF IInv
    <3>3. CASE job[g].op # "close"
      BY <3>1, <3>3, AfterFrame DEF IInv
    <3> QED BY <3>2, <3>3
  <2>2. CASE WriteMessage(g) \/ Close(g)
    BY <2>2, SomeJobs DEF WriteMessage, Close, Starts, Jobs, Places
  <2>3. CASE Abort(g) \/ closeNetwork(g)
    BY <2>3, SomeJobs DEF Abort, closeNetwork
  <2> QED BY <2>1, <2>2, <2>3
<1>3. Typed'
  BY <1>1, <1>2 DEF IInv, Typed
<1>4. Opening'
  <2>1. dial = "open"
    BY <1>1 DEF IInv, Opening
  <2> QED BY <1>1, <2>1 DEF IInv, Opening
<1>5. Writes'
  BY <1>1, <1>2, Outside DEF IInv, Typed
<1> QED BY <1>3, <1>4, <1>5 DEF IInv, Writes

LEMMA ReadSteps ==
  ASSUME IInv, \/ ReadMessage \/ ReadFails
               \/ \E f \in Frames : ReadRefused(f) \/ ReadControl(f) \/ ReadData(f)
  PROVE  IInv'
<1> USE DEF opening, incoming, outgoing, Read
<1>1. /\ UNCHANGED <<dial, cancelled, watched, closed, out, writeMu, closeSent, writeFailed>>
      /\ job[Reader].at \in {"idle", "read"} /\ (job[Reader] # Idle \/ dial = "open")
  BY SomeJobs DEF ReadMessage, ReadFails, ReadRefused, ReadControl, ReadData
<1>2. PICK x \in Jobs : /\ job' = [job EXCEPT ![Reader] = x] /\ x.at \notin {"header", "payload"}
  <2>1. job[Reader] \in Jobs /\ job = [job EXCEPT ![Reader] = job[Reader]]
    BY DEF IInv, Typed
  <2>2. CASE ReadMessage \/ ReadFails
    BY <2>2, SomeJobs DEF ReadMessage, ReadFails
  <2>3. CASE \E f \in Frames : ReadRefused(f)
    BY <2>3 DEF ReadRefused, Starts, Jobs, Places
  <2>4. ASSUME NEW f \in Frames, ReadControl(f)
        PROVE  \E x \in Jobs : /\ job' = [job EXCEPT ![Reader] = x]
                               /\ x.at \notin {"header", "payload"}
    <3>1. CASE job' = job
      BY <1>1, <2>1, <3>1
    <3>2. CASE Starts(Reader, "pong", "read on") \/ Starts(Reader, "close", "closed by peer")
      <4> DEFINE x == [at |-> "lock", op |-> "pong", then |-> "read on"]
                 y == [at |-> "lock", op |-> "close", then |-> "closed by peer"]
      <4>1. x \in Jobs /\ y \in Jobs /\ x.at = "lock" /\ y.at = "lock"
        BY DEF Jobs, Places
      <4>2. job' = [job EXCEPT ![Reader] = x] \/ job' = [job EXCEPT ![Reader] = y]
        BY <3>2 DEF Starts
      <4> HIDE DEF x, y
      <4> QED BY <4>1, <4>2
    <3> QED BY <2>4, <3>1, <3>2 DEF ReadControl
  <2>5. CASE \E f \in Frames : ReadData(f)
    BY <1>1, <2>1, <2>5, SomeJobs DEF ReadData
  <2> QED BY <2>2, <2>3, <2>4, <2>5
<1>3. Typed'
  BY <1>1, <1>2 DEF IInv, Typed
<1>4. Opening'
  <2>1. dial = "open"
    BY <1>1 DEF IInv, Opening
  <2> QED BY <1>1, <2>1 DEF IInv, Opening
<1>5. Writes'
  BY <1>1, <1>2, Outside DEF IInv, Typed
<1> QED BY <1>3, <1>4, <1>5 DEF IInv, Writes

LEMMA LockStep ==
  ASSUME IInv, NEW g \in Goroutines, writeFrame(g)
  PROVE  IInv'
<1> USE DEF opening, incoming
<1>1. /\ UNCHANGED <<dial, cancelled, watched, closed, out, writeFailed>>
      /\ writeMu = Nobody /\ writeMu' = g /\ job[g].at = "lock"
      /\ ~(closeSent /\ job[g].op \in {"data", "close"})
      /\ closeSent' = (closeSent \/ job[g].op = "close")
      /\ job' = [job EXCEPT ![g].at = "header"]
  BY DEF writeFrame
<1>2. Typed /\ Opening /\ Holder /\ Framed /\ Goodbye
  BY DEF IInv
<1>3. /\ job' \in [Goroutines -> Jobs] /\ job'[g].at = "header" /\ job'[g].op = job[g].op
      /\ \A h \in Goroutines \ {g} : job'[h] = job[h]
      /\ \A h \in Goroutines : job[h].at \notin {"header", "payload"}
  BY <1>1, <1>2 DEF Typed, Jobs, Places, Holder
<1>4. Typed'
  BY <1>1, <1>2, <1>3 DEF Typed
<1>5. Opening'
  <2>1. dial = "open"
    BY <1>1, <1>2, SomeJobs DEF Opening
  <2> QED BY <1>1, <1>2, <2>1 DEF Opening
<1>6. Holder'
  BY <1>1, <1>3 DEF Holder
<1>7. Framed'
  BY <1>1, <1>2, <1>3 DEF Framed
<1>8. Goodbye'
  <2>1. CloseFrames' = CloseFrames
    BY <1>1 DEF CloseFrames
  <2> QED BY <1>1, <1>2, <1>3, <2>1 DEF Goodbye
<1> QED BY <1>4, <1>5, <1>6, <1>7, <1>8 DEF IInv

\* A unit goes to the network: a header, or a payload and with it the frame.
LEMMA UnitStep ==
  ASSUME IInv, NEW g \in Goroutines, writeAll(g)
  PROVE  IInv'
<1> USE DEF opening, incoming
<1> DEFINE u == Unit(g)
<1>1. /\ UNCHANGED <<dial, cancelled, watched, closed, closeSent, writeFailed>> /\ ~closed
      /\ job[g].at \in {"header", "payload"}
      /\ out' = IF writeFailed THEN out ELSE Append(out, u)
      /\ job[g].at = "header" => job' = [job EXCEPT ![g].at = "payload"] /\ writeMu' = writeMu
      /\ job[g].at = "payload" => writeMu' = Nobody /\ After(g, TRUE)
  BY DEF writeAll
<1>2. Typed /\ Opening /\ Holder /\ Framed /\ Goodbye
  BY DEF IInv
<1>3. /\ u \in Units /\ u.op = job[g].op /\ u.part = job[g].at
      /\ u = [op |-> job[g].op, part |-> job[g].at] /\ job[g] \in Jobs
  BY <1>1, <1>2 DEF Unit, Units, Typed, Jobs
<1>4. PICK x \in Jobs :
        /\ job' = [job EXCEPT ![g] = x]
        /\ job[g].at = "header" => x.at = "payload" /\ x.op = job[g].op
        /\ job[g].at = "payload" => x.at \notin {"header", "payload"}
  <2>1. CASE job[g].at = "header"
    <3>1. [job[g] EXCEPT !.at = "payload"] \in Jobs
          /\ [job[g] EXCEPT !.at = "payload"].at = "payload"
          /\ [job[g] EXCEPT !.at = "payload"].op = job[g].op
      BY <1>3 DEF Jobs, Places
    <3> QED BY <1>1, <2>1, <3>1
  <2>2. CASE job[g].at = "payload"
    BY <1>1, <1>2, <2>2, AfterFrame
  <2> QED BY <1>1, <2>1, <2>2
<1>5. job'[g] = x /\ \A h \in Goroutines \ {g} : job'[h] = job[h]
  BY <1>2, <1>4 DEF Typed
<1>6. writeMu = g /\ \A h \in Goroutines \ {g} : job[h].at \notin {"header", "payload"}
  BY <1>1, <1>2 DEF Holder
<1>7. Typed'
  BY <1>1, <1>2, <1>3, <1>4, Appended DEF Typed
<1>8. Opening'
  <2>1. dial = "open"
    BY <1>1, <1>2, SomeJobs DEF Opening
  <2> QED BY <1>1, <1>2, <2>1 DEF Opening
<1>9. Holder'
  BY <1>1, <1>4, <1>5, <1>6 DEF Holder
<1> HIDE DEF u
<1>10. CASE writeFailed
  <2>1. out = <<>> /\ out' = <<>> /\ CloseFrames = {} /\ CloseFrames' = {}
    BY <1>1, <1>2, <1>10 DEF Framed, CloseFrames
  <2>2. Framed'
    BY <1>1, <1>10, <2>1 DEF Framed
  <2>3. Goodbye'
    BY <1>1, <1>2, <1>4, <1>5, <1>6, <2>1 DEF Goodbye
  <2> QED BY <1>7, <1>8, <1>9, <2>2, <2>3 DEF IInv
<1>11. CASE ~writeFailed
  <2> DEFINE n == Len(out)
  <2>1. /\ out' = Append(out, u) /\ n \in Nat /\ Len(out') = n + 1
        /\ DOMAIN out = 1..n /\ DOMAIN out' = 1..(n + 1)
        /\ out'[n + 1] = u /\ \A i \in 1..n : out'[i] = out[i]
    BY <1>1, <1>2, <1>3, <1>11, Appended DEF Typed
  <2>2. /\ job[g].at = "header" => n % 2 = 0
        /\ job[g].at = "payload" => n % 2 = 1 /\ out[n] = [op |-> job[g].op, part |-> "header"]
    BY <1>2, <1>11 DEF Framed
  <2>3. /\ n % 2 = 0 => (n + 1) % 2 = 1
        /\ n % 2 = 1 => (n + 1) % 2 = 0 /\ n >= 1
    BY <2>1
  <2> HIDE DEF n
  <2>4. Framed'
    <3>1. ASSUME NEW i \in DOMAIN out'
          PROVE  IF i % 2 = 1 THEN out'[i].part = "header"
                 ELSE out'[i] = [out'[i - 1] EXCEPT !.part = "payload"]
      <4>1. CASE i \in 1..n
        <5>1. i % 2 = 1 \/ i - 1 \in 1..n
          BY <2>1, <4>1
        <5>2. IF i % 2 = 1 THEN out[i].part = "header"
              ELSE out[i] = [out[i - 1] EXCEPT !.part = "payload"]
          BY <1>2, <2>1, <4>1 DEF Framed
        <5> QED BY <2>1, <4>1, <5>1, <5>2
      <4>2. CASE i = n + 1 /\ job[g].at = "header"
        BY <1>3, <2>1, <2>2, <2>3, <4>2
      <4>3. CASE i = n + 1 /\ job[g].at = "payload"
        <5>1. i % 2 = 0 /\ i - 1 = n /\ n \in 1..n
          BY <2>1, <2>2, <2>3, <4>3
        <5>2. out'[i - 1] = [op |-> job[g].op, part |-> "header"] /\ out'[i] = u
          BY <2>1, <2>2, <4>3, <5>1
        <5>3. [out'[i - 1] EXCEPT !.part = "payload"] = [op |-> job[g].op, part |-> "payload"]
          BY <5>2
        <5> QED BY <1>3, <4>3, <5>1, <5>2, <5>3
      <4>4. i \in 1..n \/ i = n + 1
        BY <2>1, <3>1
      <4> QED BY <1>1, <4>1, <4>2, <4>3, <4>4
    <3>2. /\ writeMu' = Nobody => Len(out') % 2 = 0
          /\ \A h \in Goroutines :
               /\ job'[h].at = "header" => Len(out') % 2 = 0
               /\ job'[h].at = "payload" =>
                    /\ Len(out') % 2 = 1
                    /\ out'[Len(out')] = [op |-> job'[h].op, part |-> "header"]
      <4>1. CASE job[g].at = "header"
        <5>1. writeMu' = g /\ g # Nobody /\ job'[g].at = "payload" /\ job'[g].op = job[g].op
          BY <1>1, <1>4, <1>5, <1>6, <4>1
        <5>2. Len(out') % 2 = 1 /\ out'[Len(out')] = [op |-> job'[g].op, part |-> "header"]
          BY <1>3, <2>1, <2>2, <2>3, <4>1, <5>1
        <5> QED BY <1>5, <1>6, <5>1, <5>2
      <4>2. CASE job[g].at = "payload"
        <5>1. Len(out') % 2 = 0 /\ \A h \in Goroutines : job'[h].at # "payload"
          BY <1>4, <1>5, <1>6, <2>1, <2>2, <2>3, <4>2
        <5> QED BY <5>1
      <4> QED BY <1>1, <4>1, <4>2
    <3> QED BY <1>1, <1>11, <3>1, <3>2 DEF Framed
  <2>5. CloseFrames' = IF u.op = "close" /\ u.part = "header"
                       THEN CloseFrames \cup {n + 1} ELSE CloseFrames
    BY <2>1 DEF CloseFrames
  <2>6. CloseFrames \subseteq 1..n
    BY <2>1 DEF CloseFrames
  <2>7. u.op = "close" /\ u.part = "header" => CloseFrames = {} /\ closeSent
    BY <1>2, <1>3 DEF Goodbye
  <2>8. u.op = "data" => CloseFrames = {}
    BY <1>1, <1>2, <1>3 DEF Goodbye
  <2>9. Goodbye'
    <3>1. ~closeSent' => CloseFrames' = {}
      BY <1>1, <1>2, <2>5, <2>7 DEF Goodbye
    <3>2. \A h \in Goroutines : job'[h].at \in {"header", "payload"} =>
            /\ job'[h].op = "data" => ~closeSent'
            /\ job'[h].op = "close" => closeSent'
            /\ job'[h].op = "close" /\ job'[h].at = "header" => CloseFrames' = {}
      BY <1>1, <1>2, <1>4, <1>5, <1>6 DEF Goodbye
    <3>3. \A i, j \in CloseFrames' : i = j
      BY <1>2, <2>5, <2>7 DEF Goodbye
    <3>4. ASSUME NEW i \in CloseFrames', NEW j \in DOMAIN out', j > i PROVE out'[j].op # "data"
      <4>1. CASE i = n + 1
        BY <2>1, <3>4, <4>1
      <4>2. CASE i \in CloseFrames /\ j \in 1..n
        BY <1>2, <2>1, <3>4, <4>2 DEF Goodbye
      <4>3. CASE i \in CloseFrames /\ j = n + 1
        BY <2>1, <2>8, <4>3
      <4> QED BY <2>1, <2>5, <4>1, <4>2, <4>3
    <3> QED BY <3>1, <3>2, <3>3, <3>4 DEF Goodbye
  <2> QED BY <1>7, <1>8, <1>9, <2>4, <2>9 DEF IInv
<1> QED BY <1>10, <1>11

LEMMA FailStep ==
  ASSUME IInv, NEW g \in Goroutines, WriteFails(g)
  PROVE  IInv'
<1> USE DEF opening, incoming
<1>1. /\ UNCHANGED <<dial, cancelled, watched, closed, closeSent>>
      /\ job[g].at \in {"header", "payload"} /\ writeFailed' = TRUE /\ out' = <<>>
      /\ writeMu' = Nobody /\ After(g, FALSE)
  BY DEF WriteFails
<1>2. Typed /\ Opening /\ Holder
  BY DEF IInv
<1>3. PICK x \in Jobs : job' = [job EXCEPT ![g] = x] /\ x.at \notin {"header", "payload"}
  BY <1>1, <1>2, AfterFrame
<1>4. \A h \in Goroutines : job'[h].at \notin {"header", "payload"}
  BY <1>1, <1>2, <1>3 DEF Typed, Holder
<1>5. Typed'
  BY <1>1, <1>2, <1>3 DEF Typed
<1>6. Opening'
  <2>1. dial = "open"
    BY <1>1, <1>2, SomeJobs DEF Opening
  <2> QED BY <1>1, <1>2, <2>1 DEF Opening
<1>7. Holder' /\ Framed' /\ Goodbye'
  <2>1. CloseFrames' = {} /\ DOMAIN out' = {}
    BY <1>1 DEF CloseFrames
  <2> QED BY <1>1, <1>4, <2>1 DEF Holder, Framed, Goodbye
<1> QED BY <1>5, <1>6, <1>7 DEF IInv

LEMMA Initial == Init => IInv
<1> SUFFICES ASSUME Init PROVE IInv
  OBVIOUS
<1>1. CloseFrames = {} /\ DOMAIN out = {} /\ out \in Seq(Units) /\ Len(out) = 0
  BY DEF Init, CloseFrames
<1>2. Typed /\ Opening
  BY <1>1, SomeJobs DEF Init, Typed, Opening
<1>3. \A g \in Goroutines : job[g].at = "idle"
  BY SomeJobs DEF Init
<1>4. Holder /\ Framed /\ Goodbye
  BY <1>1, <1>3 DEF Init, Holder, Framed, Goodbye
<1> QED BY <1>2, <1>4 DEF IInv

LEMMA Inductive == IInv /\ [Next]_vars => IInv'
BY OpeningSteps, CallSteps, ReadSteps, LockStep, UnitStep, FailStep DEF Next, Writing

-----------------------------------------------------------------------------
(* What ReadMessage gathers and returns.  The definitions say of any p,    *)
(* n, m and D what the invariant says of peerSent, consumed, message and   *)
(* delivered, so that the lemmas on reading a frame are about sequences.   *)

\* d is one message in p: IsMessage.
MessageIn(p, d) ==
  /\ p[d[1]].op \in {"text", "binary"}
  /\ \A i \in 2..Len(d) : p[d[i]].op = "continuation" /\ d[i - 1] < d[i]
  /\ \A i \in 1..Len(d) : p[d[i]].fin = (i = Len(d))
  /\ \A k \in d[1]..d[Len(d)] : k \in ToSet(d) \/ Control(p[k])
  /\ Total([i \in DOMAIN d |-> p[d[i]].size]) <= maxMessageSize
  /\ p[d[1]].op = "text" => [i \in DOMAIN d |-> p[d[i]].data] \in Utf8

\* m is a message that has begun and has no end among the first n of p.
PartIn(p, n, m) ==
  /\ p[m[1]].op \in {"text", "binary"}
  /\ \A i \in 2..Len(m) : p[m[i]].op = "continuation" /\ m[i - 1] < m[i]
  /\ \A i \in 1..Len(m) : ~p[m[i]].fin
  /\ \A k \in m[1]..n : k \in ToSet(m) \/ Control(p[k])

Received(p, n, m, D) ==
  /\ p \in Seq(Frames) /\ n \in 0..Len(p)
  /\ m \in Seq(1..n) /\ D \in Seq(Seq(1..n) \ {<<>>})
  /\ m # <<>> => PartIn(p, n, m)
  /\ \A i \in DOMAIN D : MessageIn(p, D[i]) /\ (i > 1 => Last(D[i - 1]) < D[i][1])
  /\ m # <<>> /\ D # <<>> => Last(D[Len(D)]) < m[1]

\* Nothing but control frames is left out.
Covered(p, n, m, D) ==
  \A k \in 1..n : \/ Control(p[k]) \/ k \in ToSet(m)
                  \/ \E i \in DOMAIN D : k \in ToSet(D[i])

\* Only the reader reads and answers, and it keeps what it gathered only while
\* it reads on or sends a pong; who closes the network has said goodbye.
Turns ==
  /\ \A g \in Goroutines : job[g].at = "close network" =>
       job[g].then \in {"close", "closed by peer", "abort"}
  /\ message # <<>> => job[Reader].at = "read" \/ job[Reader].then = "read on"
  /\ job[Reader].at \in {"idle", "read"} => job[Reader].then = "none"
  /\ \A g \in Goroutines \ {Reader} :
       job[g].at # "read" /\ job[g].then \notin {"read on", "fail", "closed by peer"}

\* Until ReadMessage has failed or is about to.
Told ==
  ~readFailed /\ job[Reader].then \notin {"fail", "closed by peer"} =>
    Covered(peerSent, consumed, message, delivered)

MInv == Received(peerSent, consumed, message, delivered) /\ Turns /\ Told

LEMMA OneMessage == \A d : IsMessage(d) = MessageIn(peerSent, d)
BY DEF IsMessage, MessageIn, Size, Valid

\* The frames that were read are those the peer sent, whatever it sends next.
LEMMA MoreSent ==
  ASSUME NEW p, NEW n, NEW m, NEW D, NEW f \in Frames, Received(p, n, m, D)
  PROVE  /\ Received(Append(p, f), n, m, D)
         /\ Covered(p, n, m, D) => Covered(Append(p, f), n, m, D)
<1> DEFINE q == Append(p, f)
<1>1. /\ p \in Seq(Frames) /\ n \in 0..Len(p) /\ Len(p) \in Nat
      /\ m \in Seq(1..n) /\ D \in Seq(Seq(1..n) \ {<<>>})
  BY DEF Received
<1>2. q \in Seq(Frames) /\ Len(q) = Len(p) + 1 /\ \A k \in 1..n : q[k] = p[k]
  BY <1>1
<1> HIDE DEF q
<1>3. ASSUME NEW d \in Seq(1..n) \ {<<>>}
      PROVE  /\ d[1] \in 1..n /\ d[Len(d)] \in 1..n /\ Len(d) \in Nat /\ DOMAIN d = 1..Len(d)
             /\ ToSet(d) \subseteq 1..n /\ \A i \in 1..Len(d) : d[i] \in 1..n
  BY <1>1, <1>3 DEF ToSet
<1>4. ASSUME NEW d \in Seq(1..n) \ {<<>>}, MessageIn(p, d)
      PROVE  MessageIn(q, d)
  <2>1. [i \in DOMAIN d |-> q[d[i]].size] = [i \in DOMAIN d |-> p[d[i]].size]
    BY <1>2, <1>3
  <2>2. \A k \in d[1]..d[Len(d)] : k \in 1..n
    BY <1>1, <1>3
  <2>3. /\ q[d[1]] = p[d[1]] /\ \A i \in 1..Len(d) : q[d[i]] = p[d[i]]
        /\ \A i \in 2..Len(d) : i \in 1..Len(d)
        /\ \A k \in ToSet(d) : q[k] = p[k]
    BY <1>2, <1>3
  <2>4. \A k \in d[1]..d[Len(d)] : k \in ToSet(d) \/ Control(q[k])
    BY <1>2, <1>4, <2>2 DEF MessageIn
  <2>5. Total([i \in DOMAIN d |-> q[d[i]].size]) <= maxMessageSize
    <3>1. Total([i \in DOMAIN d |-> p[d[i]].size]) <= maxMessageSize
      BY <1>4 DEF MessageIn
    <3> QED BY <2>1, <3>1
  <2>6. /\ p[d[1]].op \in {"text", "binary"}
        /\ \A i \in 2..Len(d) : p[d[i]].op = "continuation" /\ d[i - 1] < d[i]
        /\ \A i \in 1..Len(d) : p[d[i]].fin = (i = Len(d))
        /\ p[d[1]].op = "text" => [i \in DOMAIN d |-> p[d[i]].data] \in Utf8
    BY <1>4 DEF MessageIn
  <2>7. /\ q[d[1]].op \in {"text", "binary"}
        /\ \A i \in 2..Len(d) : q[d[i]].op = "continuation" /\ d[i - 1] < d[i]
        /\ \A i \in 1..Len(d) : q[d[i]].fin = (i = Len(d))
    <3>1. ASSUME NEW i \in 1..Len(d) PROVE q[d[i]].fin = (i = Len(d))
      <4>1. q[d[i]] = p[d[i]]
        BY <2>3
      <4>2. p[d[i]].fin = (i = Len(d))
        BY <2>6
      <4> QED BY <4>1, <4>2
    <3> QED BY <2>3, <2>6, <3>1
  <2>8. q[d[1]].op = "text" => [i \in DOMAIN d |-> q[d[i]].data] \in Utf8
    <3>1. [i \in DOMAIN d |-> q[d[i]].data] = [i \in DOMAIN d |-> p[d[i]].data]
      BY <1>2, <1>3
    <3> QED BY <2>3, <2>6, <3>1
  <2> QED BY <2>4, <2>5, <2>7, <2>8 DEF MessageIn
<1>5. m # <<>> => PartIn(q, n, m)
  <2> SUFFICES ASSUME m # <<>> PROVE PartIn(q, n, m)
    OBVIOUS
  <2>1. PartIn(p, n, m)
    BY DEF Received
  <2>2. \A k \in m[1]..n : k \in 1..n
    BY <1>1, <1>3
  <2>3. /\ q[m[1]] = p[m[1]] /\ \A i \in 1..Len(m) : q[m[i]] = p[m[i]]
        /\ \A i \in 2..Len(m) : i \in 1..Len(m)
    BY <1>1, <1>2, <1>3
  <2>4. \A k \in m[1]..n : k \in ToSet(m) \/ Control(q[k])
    BY <1>2, <2>1, <2>2 DEF PartIn
  <2> QED BY <2>1, <2>3, <2>4 DEF PartIn
<1>6. \A i \in DOMAIN D : D[i] \in Seq(1..n) \ {<<>>}
  BY <1>1
<1>7. Received(q, n, m, D)
  <2>1. n \in 0..Len(q)
    BY <1>1, <1>2
  <2>2. \A i \in DOMAIN D : MessageIn(q, D[i]) /\ (i > 1 => Last(D[i - 1]) < D[i][1])
    BY <1>4, <1>6 DEF Received
  <2>3. m # <<>> /\ D # <<>> => Last(D[Len(D)]) < m[1]
    BY DEF Received
  <2> QED BY <1>1, <1>2, <1>5, <2>1, <2>2, <2>3 DEF Received
<1>8. Covered(p, n, m, D) => Covered(q, n, m, D)
  BY <1>2 DEF Covered
<1> QED BY <1>7, <1>8 DEF q

\* What was gathered is dropped, after one more frame or without it.
LEMMA Dropped ==
  ASSUME NEW p, NEW n, NEW m, NEW D, Received(p, n, m, D)
  PROVE  /\ Received(p, n, <<>>, D)
         /\ n < Len(p) => Received(p, n + 1, <<>>, D)
<1>1. /\ p \in Seq(Frames) /\ n \in 0..Len(p) /\ Len(p) \in Nat
      /\ <<>> \in Seq(1..n) /\ <<>> \in Seq(1..(n + 1)) /\ D \in Seq(Seq(1..n) \ {<<>>})
  BY DEF Received
<1>2. D \in Seq(Seq(1..(n + 1)) \ {<<>>})
  <2>1. \A d \in Seq(1..n) : d \in Seq(1..(n + 1))
    BY <1>1
  <2> QED BY <1>1, <2>1
<1> QED BY <1>1, <1>2 DEF Received

\* A control frame between the others.
LEMMA ControlRead ==
  ASSUME NEW p, NEW n, NEW m, NEW D, Received(p, n, m, D), n < Len(p), Control(p[n + 1])
  PROVE  /\ Received(p, n + 1, m, D)
         /\ Covered(p, n, m, D) => Covered(p, n + 1, m, D)
<1>1. /\ p \in Seq(Frames) /\ n \in 0..Len(p) /\ Len(p) \in Nat /\ m \in Seq(1..n)
      /\ D \in Seq(Seq(1..(n + 1)) \ {<<>>})
  <2>1. p \in Seq(Frames) /\ n \in 0..Len(p) /\ m \in Seq(1..n)
    BY DEF Received
  <2>2. Received(p, n + 1, <<>>, D)
    BY Dropped
  <2>3. D \in Seq(Seq(1..(n + 1)) \ {<<>>})
    BY <2>2 DEF Received
  <2> QED BY <2>1, <2>3
<1>2. m \in Seq(1..(n + 1)) /\ n + 1 \in 0..Len(p)
  BY <1>1
<1>3. m # <<>> => PartIn(p, n + 1, m)
  <2> SUFFICES ASSUME m # <<>> PROVE PartIn(p, n + 1, m)
    OBVIOUS
  <2>1. PartIn(p, n, m) /\ m[1] \in 1..n
    BY <1>1 DEF Received
  <2>2. \A k \in m[1]..(n + 1) : k \in m[1]..n \/ k = n + 1
    BY <1>1, <2>1
  <2> QED BY <2>1, <2>2 DEF PartIn
<1>4. Received(p, n + 1, m, D)
  <2>1. /\ \A i \in DOMAIN D : MessageIn(p, D[i]) /\ (i > 1 => Last(D[i - 1]) < D[i][1])
        /\ m # <<>> /\ D # <<>> => Last(D[Len(D)]) < m[1]
    BY DEF Received
  <2> QED BY <1>1, <1>2, <1>3, <2>1 DEF Received
<1>5. \A k \in 1..(n + 1) : k \in 1..n \/ k = n + 1
  BY <1>1
<1> QED BY <1>4, <1>5 DEF Covered

LEMMA Gathered ==
  ASSUME NEW n \in Nat, NEW m \in Seq(1..n)
  PROVE  LET d == Append(m, n + 1) IN
         /\ d \in Seq(1..(n + 1)) \ {<<>>} /\ Len(d) = Len(m) + 1 /\ d[Len(d)] = n + 1
         /\ DOMAIN d = 1..Len(d) /\ \A i \in 1..Len(m) : d[i] = m[i] /\ m[i] \in 1..n
         /\ m = <<>> <=> Len(m) = 0
         /\ \A k \in 1..(n + 1) : k \in ToSet(d) <=> k \in ToSet(m) \/ k = n + 1
<1> DEFINE d == Append(m, n + 1)
<1>1. /\ m \in Seq(1..(n + 1)) /\ n + 1 \in 1..(n + 1) /\ Len(m) \in Nat
      /\ DOMAIN m = 1..Len(m) /\ \A i \in 1..Len(m) : m[i] \in 1..n
      /\ m = <<>> <=> Len(m) = 0
  OBVIOUS
<1>2. /\ d \in Seq(1..(n + 1)) /\ Len(d) = Len(m) + 1 /\ d[Len(m) + 1] = n + 1
      /\ DOMAIN d = 1..(Len(m) + 1) /\ \A i \in 1..Len(m) : d[i] = m[i]
  BY <1>1
<1>3. d # <<>>
  BY <1>1, <1>2
<1> HIDE DEF d
<1>4. \A k \in 1..(n + 1) : k \in ToSet(d) <=> k \in ToSet(m) \/ k = n + 1
  <2>1. \A i \in 1..(Len(m) + 1) : i \in 1..Len(m) \/ i = Len(m) + 1
    BY <1>1
  <2>2. 1..Len(m) \subseteq 1..(Len(m) + 1) /\ Len(m) + 1 \in 1..(Len(m) + 1)
    BY <1>1
  <2> QED BY <1>1, <1>2, <2>1, <2>2 DEF ToSet
<1> QED BY <1>1, <1>2, <1>3, <1>4 DEF d

\* One more frame of the message: gathered, or returned with what was gathered.
LEMMA DataRead ==
  ASSUME NEW p, NEW n, NEW m, NEW D, Received(p, n, m, D), n < Len(p),
         m = <<>> => p[n + 1].op \in {"text", "binary"},
         m # <<>> => p[n + 1].op = "continuation"
  PROVE  LET d == Append(m, n + 1) IN
         /\ ~p[n + 1].fin =>
              /\ Received(p, n + 1, d, D)
              /\ Covered(p, n, m, D) => Covered(p, n + 1, d, D)
         /\ /\ p[n + 1].fin
            /\ Total([i \in DOMAIN d |-> p[d[i]].size]) <= maxMessageSize
            /\ p[d[1]].op = "text" => [i \in DOMAIN d |-> p[d[i]].data] \in Utf8
            => /\ Received(p, n + 1, <<>>, Append(D, d))
               /\ Covered(p, n, m, D) => Covered(p, n + 1, <<>>, Append(D, d))
<1> DEFINE d == Append(m, n + 1)
<1>1. /\ p \in Seq(Frames) /\ n \in 0..Len(p) /\ Len(p) \in Nat /\ n \in Nat /\ n + 1 \in 1..Len(p)
      /\ m \in Seq(1..n) /\ Len(m) \in Nat /\ p[n + 1] \in Frames
  <2>1. p \in Seq(Frames) /\ n \in 0..Len(p) /\ m \in Seq(1..n)
    BY DEF Received
  <2> QED BY <2>1
<1>2. Received(p, n + 1, <<>>, D)
  BY Dropped
<1>3. D \in Seq(Seq(1..(n + 1)) \ {<<>>}) /\ D \in Seq(Seq(1..n) \ {<<>>})
  BY <1>2 DEF Received
<1>4. m # <<>> => PartIn(p, n, m) /\ (D # <<>> => Last(D[Len(D)]) < m[1])
  BY DEF Received
<1>5. \A i \in DOMAIN D : MessageIn(p, D[i]) /\ (i > 1 => Last(D[i - 1]) < D[i][1])
  BY DEF Received
<1>6. /\ d \in Seq(1..(n + 1)) \ {<<>>} /\ Len(d) = Len(m) + 1 /\ d[Len(d)] = n + 1
      /\ DOMAIN d = 1..Len(d) /\ \A i \in 1..Len(m) : d[i] = m[i] /\ m[i] \in 1..n
      /\ m = <<>> <=> Len(m) = 0
  BY <1>1, Gathered
<1>7. \A k \in 1..(n + 1) : k \in ToSet(d) <=> k \in ToSet(m) \/ k = n + 1
  BY <1>1, Gathered
<1> HIDE DEF d
<1>8. /\ d[1] \in 1..(n + 1) /\ p[d[1]].op \in {"text", "binary"}
      /\ \A i \in 2..Len(d) : p[d[i]].op = "continuation" /\ d[i - 1] < d[i]
      /\ \A k \in d[1]..(n + 1) : k \in ToSet(d) \/ Control(p[k])
  <2>1. CASE m = <<>>
    <3>1. Len(d) = 1 /\ d[1] = n + 1
      BY <1>6, <2>1
    <3>2. \A k \in d[1]..(n + 1) : k \in ToSet(d)
      BY <1>1, <1>7, <3>1
    <3> QED BY <1>1, <2>1, <3>1, <3>2
  <2>2. CASE m # <<>>
    <3>1. Len(m) >= 1 /\ d[1] = m[1] /\ m[1] \in 1..n
      <4>1. Len(m) >= 1 /\ 1 \in 1..Len(m)
        BY <1>1, <1>6, <2>2
      <4> QED BY <1>6, <4>1
    <3>2. PartIn(p, n, m)
      BY <1>4, <2>2
    <3>3. ASSUME NEW i \in 2..Len(d)
          PROVE  p[d[i]].op = "continuation" /\ d[i - 1] < d[i]
      <4>1. CASE i \in 2..Len(m)
        <5>1. d[i] = m[i] /\ d[i - 1] = m[i - 1]
          <6>1. i \in 1..Len(m) /\ i - 1 \in 1..Len(m)
            BY <1>1, <4>1
          <6> QED BY <1>6, <6>1
        <5> QED BY <3>2, <4>1, <5>1 DEF PartIn
      <4>2. CASE i = Len(d)
        <5>1. d[i] = n + 1 /\ d[i - 1] \in 1..n
          <6>1. i - 1 \in 1..Len(m)
            BY <1>1, <1>6, <3>1, <4>2
          <6> QED BY <1>6, <4>2, <6>1
        <5> QED BY <1>1, <2>2, <5>1
      <4> QED BY <1>1, <1>6, <4>1, <4>2
    <3>4. ASSUME NEW k \in d[1]..(n + 1) PROVE k \in ToSet(d) \/ Control(p[k])
      <4>1. k \in 1..(n + 1) /\ (k = n + 1 \/ k \in m[1]..n)
        BY <1>1, <3>1
      <4> QED BY <1>7, <3>2, <4>1 DEF PartIn
    <3>5. d[1] \in 1..(n + 1) /\ p[d[1]].op \in {"text", "binary"}
      BY <1>1, <3>1, <3>2 DEF PartIn
    <3> QED BY <3>3, <3>4, <3>5
  <2> QED BY <2>1, <2>2
<1>9. \A i \in 1..Len(d) : i # Len(d) => ~p[d[i]].fin
  <2> SUFFICES ASSUME NEW i \in 1..Len(d), i # Len(d) PROVE ~p[d[i]].fin
    OBVIOUS
  <2>1. i \in 1..Len(m) /\ m # <<>> /\ d[i] = m[i]
    BY <1>1, <1>6
  <2> QED BY <1>4, <2>1 DEF PartIn
<1>10. D # <<>> => Last(D[Len(D)]) < d[1]
  <2> SUFFICES ASSUME D # <<>> PROVE Last(D[Len(D)]) < d[1]
    OBVIOUS
  <2>1. CASE m # <<>>
    <3>1. d[1] = m[1]
      BY <1>1, <1>6, <2>1
    <3> QED BY <1>4, <2>1, <3>1
  <2>2. CASE m = <<>>
    <3>1. D[Len(D)] \in Seq(1..n) \ {<<>>}
      BY <1>3
    <3>2. Last(D[Len(D)]) \in 1..n
      BY <1>1, <3>1 DEF Last
    <3>3. d[1] = n + 1
      BY <1>6, <2>2
    <3> QED BY <1>1, <3>2, <3>3
  <2> QED BY <2>1, <2>2
<1>11. ASSUME ~p[n + 1].fin PROVE Received(p, n + 1, d, D)
  <2>1. \A i \in 1..Len(d) : ~p[d[i]].fin
    BY <1>6, <1>9, <1>11
  <2>2. PartIn(p, n + 1, d)
    BY <1>8, <2>1 DEF PartIn
  <2> QED BY <1>1, <1>3, <1>5, <1>6, <1>10, <2>2 DEF Received
<1>12. ASSUME p[n + 1].fin, Total([i \in DOMAIN d |-> p[d[i]].size]) <= maxMessageSize,
              p[d[1]].op = "text" => [i \in DOMAIN d |-> p[d[i]].data] \in Utf8
       PROVE  Received(p, n + 1, <<>>, Append(D, d))
  <2> DEFINE E == Append(D, d)
  <2>1. /\ E \in Seq(Seq(1..(n + 1)) \ {<<>>}) /\ Len(D) \in Nat /\ DOMAIN D = 1..Len(D)
        /\ DOMAIN E = 1..(Len(D) + 1) /\ E[Len(D) + 1] = d /\ \A i \in 1..Len(D) : E[i] = D[i]
    BY <1>3, <1>6
  <2>2. MessageIn(p, d)
    <3>1. \A i \in 1..Len(d) : p[d[i]].fin = (i = Len(d))
      <4>1. \A i \in 1..Len(d) : p[d[i]] \in Frames
        BY <1>1, <1>6
      <4>2. \A i \in 1..Len(d) : p[d[i]].fin \in BOOLEAN
        BY <4>1, FramesAssumption
      <4> QED BY <1>6, <1>9, <1>12, <4>2
    <3> QED BY <1>6, <1>8, <1>12, <3>1 DEF MessageIn
  <2> HIDE DEF E
  <2>3. ASSUME NEW i \in DOMAIN E
        PROVE  MessageIn(p, E[i]) /\ (i > 1 => Last(E[i - 1]) < E[i][1])
    <3>1. CASE i \in 1..Len(D)
      <4>1. E[i] = D[i] /\ (i > 1 => E[i - 1] = D[i - 1])
        <5>1. i > 1 => i - 1 \in 1..Len(D)
          BY <2>1, <3>1
        <5> QED BY <2>1, <3>1, <5>1
      <4> QED BY <1>5, <2>1, <3>1, <4>1
    <3>2. CASE i = Len(D) + 1
      <4>1. E[i] = d /\ (i > 1 => D # <<>> /\ E[i - 1] = D[Len(D)])
        BY <1>3, <2>1, <3>2
      <4> QED BY <1>10, <2>2, <4>1
    <3> QED BY <2>1, <3>1, <3>2
  <2>4. <<>> \in Seq(1..(n + 1)) /\ n + 1 \in 0..Len(p)
    BY <1>1
  <2> QED BY <1>1, <2>1, <2>3, <2>4 DEF Received, E
<1>13. \A k \in 1..(n + 1) : k \in 1..n \/ k = n + 1
  BY <1>1
<1>14. Covered(p, n, m, D) => Covered(p, n + 1, d, D)
  BY <1>1, <1>7, <1>13 DEF Covered
<1>15. Covered(p, n, m, D) => Covered(p, n + 1, <<>>, Append(D, d))
  <2> SUFFICES ASSUME Covered(p, n, m, D), NEW k \in 1..(n + 1), ~Control(p[k])
               PROVE  \E i \in DOMAIN Append(D, d) : k \in ToSet(Append(D, d)[i])
    BY DEF Covered
  <2>1. /\ Len(D) \in Nat /\ DOMAIN D = 1..Len(D) /\ DOMAIN Append(D, d) = 1..(Len(D) + 1)
        /\ Append(D, d)[Len(D) + 1] = d /\ \A i \in 1..Len(D) : Append(D, d)[i] = D[i]
    BY <1>3, <1>6
  <2>2. CASE k \in ToSet(d)
    BY <2>1, <2>2
  <2>3. CASE k \notin ToSet(d)
    <3>1. k \in 1..n /\ k \notin ToSet(m)
      BY <1>7, <1>13, <2>3
    <3>2. PICK i \in DOMAIN D : k \in ToSet(D[i])
      BY <3>1 DEF Covered
    <3> QED BY <2>1, <3>2
  <2> QED BY <2>2, <2>3
<1> QED BY <1>11, <1>12, <1>14, <1>15 DEF d

\* A goroutine moves on with job x.
LEMMA TurnStep ==
  ASSUME Typed, Turns, NEW g \in Goroutines, NEW x, job' = [job EXCEPT ![g] = x],
         x.at = "close network" => x.then \in {"close", "closed by peer", "abort"},
         g # Reader =>
           /\ message' = message
           /\ x.at # "read" /\ x.then \notin {"read on", "fail", "closed by peer"},
         g = Reader =>
           /\ message' # <<>> => x.at = "read" \/ x.then = "read on"
           /\ x.at \in {"idle", "read"} => x.then = "none"
  PROVE  Turns'
<1>1. \A h \in Goroutines : job'[h] = IF h = g THEN x ELSE job[h]
  BY DEF Typed
<1>9. \A h \in Goroutines : job'[h].at = "close network" =>
        job'[h].then \in {"close", "closed by peer", "abort"}
  BY <1>1 DEF Turns
<1>2. CASE g = Reader
  <2>1. job'[Reader] = x /\ \A h \in Goroutines \ {Reader} : job'[h] = job[h]
    BY <1>1, <1>2
  <2> QED BY <1>2, <1>9, <2>1 DEF Turns
<1>3. CASE g # Reader
  <2>1. job'[Reader] = job[Reader] /\ message' = message
    BY <1>1, <1>3
  <2>2. \A h \in Goroutines \ {Reader} :
          job'[h].at # "read" /\ job'[h].then \notin {"read on", "fail", "closed by peer"}
    BY <1>1, <1>3 DEF Turns
  <2> QED BY <1>9, <2>1, <2>2 DEF Turns
<1> QED BY <1>2, <1>3

\* Frames and messages stay, and the reader tells of a failure or goes on.
LEMMA ToldStep ==
  ASSUME Told, UNCHANGED <<peerSent, consumed, delivered>>,
         \/ readFailed'
         \/ job'[Reader].then \in {"fail", "closed by peer"}
         \/ /\ message' = message /\ ~readFailed
            /\ job[Reader].then \notin {"fail", "closed by peer"}
  PROVE  Told'
BY DEF Told

\* What a frame's end, sent or refused, does to the reader.
LEMMA AfterReads ==
  ASSUME Typed, MInv, NEW g \in Goroutines, NEW ok \in BOOLEAN, After(g, ok),
         job[g].at # "read"
  PROVE  MInv'
<1> DEFINE then == job[g].then
           x == IF then \in {"close", "closed by peer", "abort"} THEN Closing(then)
                ELSE IF then = "read on" /\ ok THEN Reading ELSE Idle
<1>1. /\ UNCHANGED <<peerSent, consumed, delivered>>
      /\ message' = IF then = "read on" /\ ~ok THEN <<>> ELSE message
      /\ readFailed' = (readFailed \/ then = "fail" \/ (then = "read on" /\ ~ok))
      /\ job' = [job EXCEPT ![g] = x]
  BY DEF After
<1>2. Received(peerSent, consumed, message, delivered) /\ Turns /\ Told
  BY DEF MInv
<1>3. Received(peerSent', consumed', message', delivered')
  BY <1>1, <1>2, Dropped
<1>4. /\ Idle.at = "idle" /\ Idle.then = "none" /\ Reading.at = "read" /\ Reading.then = "none"
      /\ \A t : Closing(t).at = "close network" /\ Closing(t).then = t
  BY DEF Idle, Reading, Closing
<1>5. /\ then \in {"close", "closed by peer", "abort"} => x.at = "close network" /\ x.then = then
      /\ then = "read on" /\ ok => x.at = "read" /\ x.then = "none"
      /\ then \notin {"close", "closed by peer", "abort"} /\ ~(then = "read on" /\ ok) =>
           x.at = "idle" /\ x.then = "none"
  BY <1>4
<1>6. job'[g] = x /\ \A h \in Goroutines \ {g} : job'[h] = job[h]
  BY <1>1 DEF Typed
<1> HIDE DEF x
<1>7. g # Reader => then \notin {"read on", "fail", "closed by peer"}
  BY <1>2 DEF Turns
<1>8. g = Reader /\ message # <<>> => then = "read on"
  BY <1>2 DEF Turns
<1>9. Turns'
  <2>1. g # Reader => /\ message' = message
                      /\ x.at # "read" /\ x.then \notin {"read on", "fail", "closed by peer"}
    BY <1>1, <1>5, <1>7
  <2>2. g = Reader => /\ message' # <<>> => x.at = "read" \/ x.then = "read on"
                      /\ x.at \in {"idle", "read"} => x.then = "none"
    BY <1>1, <1>5, <1>8
  <2>3. x.at = "close network" => x.then \in {"close", "closed by peer", "abort"}
    BY <1>5
  <2> QED BY <1>1, <1>2, <2>1, <2>2, <2>3, TurnStep
<1>10. Told'
  <2>1. CASE readFailed \/ then = "fail" \/ (then = "read on" /\ ~ok)
    BY <1>1, <1>2, <2>1, ToldStep
  <2>2. CASE g = Reader /\ then = "closed by peer"
    <3>1. job'[Reader].then = "closed by peer"
      BY <1>5, <1>6, <2>2
    <3> QED BY <1>1, <1>2, <3>1, ToldStep
  <2>3. CASE /\ ~readFailed /\ then # "fail" /\ ~(then = "read on" /\ ~ok)
             /\ job[Reader].then \notin {"fail", "closed by peer"}
    BY <1>1, <1>2, <2>3, ToldStep
  <2>4. CASE g # Reader /\ job[Reader].then \in {"fail", "closed by peer"}
    BY <1>1, <1>2, <1>6, <2>4, ToldStep
  <2> QED BY <2>1, <2>2, <2>3, <2>4
<1> QED BY <1>3, <1>9, <1>10 DEF MInv

\* Steps of the handshake, of the peer and of the goroutines' frames.
LEMMA OtherMessages ==
  ASSUME IInv, MInv,
         \/ Upgrade \/ Connect \/ Cancel \/ Handshake \/ Check \/ PeerReads \/ UNCHANGED vars
         \/ \E f \in Frames : PeerSends(f)
         \/ \E g \in Goroutines : WriteMessage(g) \/ Close(g) \/ Abort(g) \/ Writing(g)
  PROVE  MInv'
<1> USE DEF opening, incoming, outgoing
<1>1. Typed /\ Received(peerSent, consumed, message, delivered) /\ Turns /\ Told
  BY DEF IInv, MInv
<1>2. CASE Upgrade \/ Connect \/ Cancel \/ Handshake \/ Check \/ PeerReads \/ UNCHANGED vars
  <2>1. UNCHANGED <<peerSent, consumed, message, delivered, readFailed, job>>
    BY <1>2 DEF Upgrade, Connect, Cancel, Handshake, Check, Established, PeerReads, vars
  <2> QED BY <1>1, <2>1 DEF MInv, Turns, Told
<1>3. CASE \E f \in Frames : PeerSends(f)
  <2>1. PICK f \in Frames : peerSent' = Append(peerSent, f)
    BY <1>3 DEF PeerSends
  <2>2. UNCHANGED <<consumed, message, delivered, readFailed, job>>
    BY <1>3 DEF PeerSends
  <2> QED BY <1>1, <2>1, <2>2, MoreSent DEF MInv, Turns, Told
<1>4. ASSUME NEW g \in Goroutines, WriteMessage(g) \/ Close(g) \/ Abort(g) \/ Writing(g)
      PROVE  MInv'
  <2>1. CASE RefuseFrame(g)
    <3>1. job[g].at = "lock" /\ After(g, job[g].op = "close")
      BY <2>1 DEF RefuseFrame
    <3>2. CASE job[g].op = "close"
      BY <1>1, <3>1, <3>2, AfterReads
    <3>3. CASE job[g].op # "close"
      BY <1>1, <3>1, <3>3, AfterReads
    <3> QED BY <3>2, <3>3
  <2>2. CASE WriteFails(g)
    BY <1>1, <2>2, AfterReads DEF WriteFails
  <2>3. CASE writeAll(g) /\ job[g].at = "payload"
    BY <1>1, <2>3, AfterReads DEF writeAll
  <2>4. CASE closeNetwork(g)
    <3>1. /\ UNCHANGED <<peerSent, consumed, message, delivered>> /\ job[g].at = "close network"
          /\ job' = [job EXCEPT ![g] = Idle]
          /\ readFailed' = (readFailed \/ job[g].then = "closed by peer")
      BY <2>4 DEF closeNetwork
    <3>2. \A h \in Goroutines : job'[h] = IF h = g THEN Idle ELSE job[h]
      BY <1>1, <3>1 DEF Typed
    <3>3. Idle.at = "idle" /\ Idle.then = "none"
      BY DEF Idle
    <3>4. Turns'
      <4>1. g = Reader => message = <<>> \/ job[Reader].then = "read on"
        BY <1>1, <3>1 DEF Turns
      <4>2. g = Reader => job[Reader].then # "read on"
        BY <1>1, <2>4, <3>1 DEF Turns
      <4> QED BY <1>1, <3>1, <3>3, <4>1, <4>2, TurnStep
    <3>5. Told'
      <4>1. CASE readFailed' \/ g # Reader \/ job[Reader].then \notin {"fail", "closed by peer"}
        BY <1>1, <3>1, <3>2, <3>3, <4>1, ToldStep
      <4>2. CASE g = Reader /\ job[Reader].then = "fail"
        BY <1>1, <3>1, <4>2 DEF Turns
      <4> QED BY <3>1, <4>1, <4>2
    <3> QED BY <1>1, <3>1, <3>4, <3>5 DEF MInv
  <2>5. CASE \/ WriteMessage(g) \/ Close(g) \/ writeFrame(g)
             \/ writeAll(g) /\ job[g].at = "header"
    <3>1. PICK x : /\ job' = [job EXCEPT ![g] = x] /\ x.at \notin {"idle", "read", "close network"}
                   /\ \/ x.then = job[g].then /\ job[g].at # "read"
                      \/ x.then \in {"return", "close"} /\ job[g] = Idle
      <4>1. CASE WriteMessage(g)
        <5> DEFINE y == [at |-> "lock", op |-> "data", then |-> "return"]
        <5>1. job[g] = Idle /\ job' = [job EXCEPT ![g] = y]
          BY <4>1 DEF WriteMessage, Starts
        <5>2. y.at = "lock" /\ y.then = "return"
          OBVIOUS
        <5> HIDE DEF y
        <5> QED BY <5>1, <5>2
      <4>2. CASE Close(g)
        <5> DEFINE y == [at |-> "lock", op |-> "close", then |-> "close"]
        <5>1. job[g] = Idle /\ job' = [job EXCEPT ![g] = y]
          BY <4>2 DEF Close, Starts
        <5>2. y.at = "lock" /\ y.then = "close"
          OBVIOUS
        <5> HIDE DEF y
        <5> QED BY <5>1, <5>2
      <4>3. CASE writeFrame(g) \/ (writeAll(g) /\ job[g].at = "header")
        <5> DEFINE y(at) == [job[g] EXCEPT !.at = at]
        <5>1. /\ y("header").at = "header" /\ y("header").then = job[g].then
              /\ y("payload").at = "payload" /\ y("payload").then = job[g].then
          BY <1>1 DEF Typed, Jobs
        <5>2. /\ job[g].at # "read"
              /\ \/ job' = [job EXCEPT ![g] = y("header")]
                 \/ job' = [job EXCEPT ![g] = y("payload")]
          BY <4>3 DEF writeFrame, writeAll
        <5> HIDE DEF y
        <5> QED BY <5>1, <5>2
      <4> QED BY <2>5, <4>1, <4>2, <4>3
    <3>2. UNCHANGED <<peerSent, consumed, message, delivered, readFailed>>
      BY <2>5 DEF WriteMessage, Close, writeFrame, writeAll
    <3>3. /\ Idle.at = "idle" /\ Idle.then = "none"
          /\ \A h \in Goroutines : job'[h] = IF h = g THEN x ELSE job[h]
      BY <1>1, <3>1 DEF Typed, Idle
    <3>4. Turns'
      <4>1. g # Reader => x.then \notin {"read on", "fail", "closed by peer"}
        BY <1>1, <3>1 DEF Turns
      <4>2. g = Reader /\ message # <<>> => x.then = "read on"
        BY <1>1, <3>1, <3>3 DEF Turns
      <4> QED BY <1>1, <3>1, <3>2, <4>1, <4>2, TurnStep
    <3>5. Told'
      <4>1. CASE readFailed \/ job'[Reader].then \in {"fail", "closed by peer"}
        BY <1>1, <3>2, <4>1, ToldStep
      <4>2. CASE job[Reader].then \notin {"fail", "closed by peer"} /\ ~readFailed
        BY <1>1, <3>2, <4>2, ToldStep
      <4>3. job'[Reader].then = job[Reader].then \/ job[Reader] = Idle
        BY <3>1, <3>3
      <4> QED BY <3>3, <4>1, <4>2, <4>3
    <3> QED BY <1>1, <3>2, <3>4, <3>5 DEF MInv
  <2>6. CASE Abort(g)
    <3>1. /\ UNCHANGED <<peerSent, consumed, message, delivered, readFailed>> /\ job[g] = Idle
          /\ job' = [job EXCEPT ![g] = Closing("abort")]
      BY <2>6 DEF Abort
    <3>2. /\ Idle.at = "idle" /\ Idle.then = "none"
          /\ Closing("abort").at = "close network" /\ Closing("abort").then = "abort"
          /\ \A h \in Goroutines : job'[h] = IF h = g THEN Closing("abort") ELSE job[h]
      BY <1>1, <3>1 DEF Typed, Idle, Closing
    <3>3. g = Reader => message = <<>>
      BY <1>1, <3>1, <3>2 DEF Turns
    <3>4. Turns'
      BY <1>1, <3>1, <3>2, <3>3, TurnStep
    <3>5. Told'
      <4>1. CASE readFailed \/ job[Reader].then \in {"fail", "closed by peer"}
        <5>1. job'[Reader] = job[Reader] \/ job[Reader].then = "none"
          BY <3>1, <3>2
        <5> QED BY <1>1, <3>1, <4>1, <5>1, ToldStep
      <4>2. CASE ~readFailed /\ job[Reader].then \notin {"fail", "closed by peer"}
        BY <1>1, <3>1, <4>2, ToldStep
      <4> QED BY <4>1, <4>2
    <3> QED BY <1>1, <3>1, <3>4, <3>5 DEF MInv
  <2> QED BY <1>4, <2>1, <2>2, <2>3, <2>4, <2>5, <2>6 DEF Writing, writeAll
<1> QED BY <1>2, <1>3, <1>4

\* ReadMessage begins, fails, and meets each kind of frame.
LEMMA ReadMessages ==
  ASSUME IInv, MInv, \/ ReadMessage \/ ReadFails
                     \/ \E f \in Frames : ReadRefused(f) \/ ReadControl(f) \/ ReadData(f)
  PROVE  MInv'
<1> USE DEF opening, incoming, outgoing
<1>1. /\ Typed /\ Received(peerSent, consumed, message, delivered) /\ Turns /\ Told
      /\ Idle.at = "idle" /\ Idle.then = "none" /\ Reading.at = "read" /\ Reading.then = "none"
  BY DEF IInv, MInv, Idle, Reading
<1>2. CASE ReadMessage
  <2>1. /\ UNCHANGED <<peerSent, consumed, delivered, readFailed>> /\ message' = <<>>
        /\ job[Reader] = Idle /\ job' = [job EXCEPT ![Reader] = Reading]
    BY <1>2 DEF ReadMessage
  <2>2. message = <<>>
    BY <1>1, <2>1 DEF Turns
  <2>3. Turns'
    BY <1>1, <2>1, TurnStep
  <2>4. Told'
    BY <1>1, <2>1, <2>2 DEF Told
  <2> QED BY <1>1, <2>1, <2>2, <2>3, <2>4 DEF MInv
<1>3. CASE ReadFails
  <2>1. /\ UNCHANGED <<peerSent, delivered>> /\ message' = <<>> /\ readFailed' = TRUE
        /\ consumed' = consumed \/ (consumed < Len(peerSent) /\ consumed' = consumed + 1)
        /\ job' = [job EXCEPT ![Reader] = Idle]
    BY <1>3 DEF ReadFails
  <2>2. Turns'
    BY <1>1, <2>1, TurnStep
  <2>3. Received(peerSent', consumed', message', delivered')
    BY <1>1, <2>1, Dropped
  <2> QED BY <2>1, <2>2, <2>3 DEF MInv, Told
<1>4. ASSUME NEW f \in Frames, ReadRefused(f) PROVE MInv'
  <2> DEFINE y == [at |-> "lock", op |-> "close", then |-> "fail"]
  <2>1. /\ UNCHANGED <<peerSent, delivered>> /\ message' = <<>>
        /\ consumed < Len(peerSent) /\ consumed' = consumed + 1
        /\ job' = [job EXCEPT ![Reader] = y]
    BY <1>4 DEF ReadRefused, Read, Starts
  <2>2. y.at = "lock" /\ y.then = "fail"
    OBVIOUS
  <2> HIDE DEF y
  <2>3. Turns'
    BY <1>1, <2>1, <2>2, TurnStep
  <2>4. Received(peerSent', consumed', message', delivered')
    BY <1>1, <2>1, Dropped
  <2>5. job'[Reader].then = "fail"
    BY <1>1, <2>1, <2>2 DEF Typed
  <2> QED BY <2>3, <2>4, <2>5 DEF MInv, Told
<1>5. ASSUME NEW f \in Frames, ReadControl(f) PROVE MInv'
  <2>1. /\ UNCHANGED <<peerSent, delivered, readFailed>> /\ job[Reader].at = "read"
        /\ consumed < Len(peerSent) /\ consumed' = consumed + 1 /\ f = peerSent[consumed + 1]
        /\ message' = IF f.op = "close" THEN <<>> ELSE message
    BY <1>5 DEF ReadControl, Read
  <2>2. CASE f.op = "close"
    <3> DEFINE y == [at |-> "lock", op |-> "close", then |-> "closed by peer"]
    <3>1. job' = [job EXCEPT ![Reader] = y]
      BY <1>5, <2>2 DEF ReadControl, Starts
    <3>2. y.at = "lock" /\ y.then = "closed by peer"
      OBVIOUS
    <3> HIDE DEF y
    <3>3. Turns'
      BY <1>1, <2>1, <2>2, <3>1, <3>2, TurnStep
    <3>4. Received(peerSent', consumed', message', delivered')
      BY <1>1, <2>1, <2>2, Dropped
    <3>5. job'[Reader].then = "closed by peer"
      BY <1>1, <3>1, <3>2 DEF Typed
    <3> QED BY <3>3, <3>4, <3>5 DEF MInv, Told
  <2>3. CASE f.op # "close"
    <3> DEFINE y == [at |-> "lock", op |-> "pong", then |-> "read on"]
    <3>1. f.op \in {"ping", "pong"} /\ (job' = [job EXCEPT ![Reader] = y] \/ job' = job)
      BY <1>5, <2>3 DEF ReadControl, Starts
    <3>2. y.at = "lock" /\ y.then = "read on"
      OBVIOUS
    <3> HIDE DEF y
    <3>3. Control(peerSent[consumed + 1])
      BY <2>1, <3>1 DEF Control
    <3>4. Received(peerSent', consumed', message', delivered')
      BY <1>1, <2>1, <2>3, <3>3, ControlRead
    <3>5. Turns'
      <4>1. CASE job' = [job EXCEPT ![Reader] = y]
        BY <1>1, <3>2, <4>1, TurnStep
      <4>2. CASE job' = job
        BY <1>1, <2>1, <2>3, <4>2 DEF Turns
      <4> QED BY <3>1, <4>1, <4>2
    <3>6. Told'
      <4>1. job[Reader].then = "none"
        BY <1>1, <2>1 DEF Turns
      <4>2. ~readFailed => Covered(peerSent, consumed, message, delivered)
        BY <1>1, <4>1 DEF Told
      <4>3. ~readFailed => Covered(peerSent', consumed', message', delivered')
        BY <1>1, <2>1, <2>3, <3>3, <4>2, ControlRead
      <4> QED BY <2>1, <4>3 DEF Told
    <3> QED BY <3>4, <3>5, <3>6 DEF MInv
  <2> QED BY <2>2, <2>3
<1>6. ASSUME NEW f \in Frames, ReadData(f) PROVE MInv'
  <2> DEFINE d == Append(message, consumed + 1)
  <2>1. /\ UNCHANGED <<peerSent, readFailed>> /\ job[Reader].at = "read"
        /\ consumed < Len(peerSent) /\ consumed' = consumed + 1 /\ f = peerSent[consumed + 1]
        /\ Acceptable(f) /\ ~Control(f) /\ f.op # "close" /\ Size(d) <= maxMessageSize
    BY <1>6 DEF ReadData, Read
  <2>2. /\ message = <<>> => f.op \in {"text", "binary"}
        /\ message # <<>> => f.op = "continuation"
    <3>1. f.op \in {"text", "binary", "continuation", "ping", "pong", "close",
                    "bad close", "unknown", "unknown control", "broken"}
      BY FramesAssumption
    <3> QED BY <2>1, <3>1
         DEF Acceptable, RefusedHeader, OutOfPlace, isControl, Control, fragmented
  <2>3. job[Reader].then = "none"
    BY <1>1, <2>1 DEF Turns
  <2>4. ~readFailed => Covered(peerSent, consumed, message, delivered)
    BY <1>1, <2>3 DEF Told
  <2>5. CASE f.fin
    <3>1. /\ Valid(d) /\ delivered' = Append(delivered, d) /\ message' = <<>>
          /\ job' = [job EXCEPT ![Reader] = Idle]
      BY <1>6, <2>5 DEF ReadData
    <3>2. /\ Total([i \in DOMAIN d |-> peerSent[d[i]].size]) <= maxMessageSize
          /\ peerSent[d[1]].op = "text" => [i \in DOMAIN d |-> peerSent[d[i]].data] \in Utf8
      BY <2>1, <3>1 DEF Size, Valid
    <3> HIDE DEF d
    <3>3. /\ Received(peerSent, consumed + 1, <<>>, Append(delivered, d))
          /\ ~readFailed => Covered(peerSent, consumed + 1, <<>>, Append(delivered, d))
      BY <1>1, <2>1, <2>2, <2>4, <2>5, <3>2, DataRead DEF d
    <3>4. Turns'
      BY <1>1, <3>1, TurnStep
    <3> QED BY <2>1, <3>1, <3>3, <3>4 DEF MInv, Told
  <2>6. CASE ~f.fin
    <3>1. message' = d /\ delivered' = delivered /\ job' = job
      BY <1>6, <2>6 DEF ReadData
    <3> HIDE DEF d
    <3>2. /\ Received(peerSent, consumed + 1, d, delivered)
          /\ ~readFailed => Covered(peerSent, consumed + 1, d, delivered)
      BY <1>1, <2>1, <2>2, <2>4, <2>6, DataRead DEF d
    <3>3. Turns'
      BY <1>1, <2>1, <3>1 DEF Turns
    <3> QED BY <2>1, <3>1, <3>2, <3>3 DEF MInv, Told
  <2> QED BY <2>5, <2>6
<1> QED BY <1>2, <1>3, <1>4, <1>5, <1>6

-----------------------------------------------------------------------------
(* Theorems.                                                               *)

\* The inductive invariant of the opening and of the frames on their way out.
THEOREM Invariance == Spec => []IInv
<1>1. Init => IInv
  BY Initial
<1>2. IInv /\ [Next]_vars => IInv'
  BY Inductive
<1> QED BY <1>1, <1>2, PTL DEF Spec

\* Any number of writers and the reader put whole frames on the network, one
\* close frame at most, and no data after it (websocket.go:514-558).
THEOREM WholeFrames == Spec => []FramesAreWhole
<1>1. IInv => FramesAreWhole
  <2> SUFFICES ASSUME IInv PROVE FramesAreWhole
    OBVIOUS
  <2>1. Cardinality(CloseFrames) <= 1
    <3>1. CASE CloseFrames = {}
      BY <3>1, FS_EmptySet
    <3>2. CASE CloseFrames # {}
      <4>1. PICK i \in CloseFrames : TRUE
        BY <3>2
      <4>2. CloseFrames = {i}
        BY <4>1 DEF IInv, Goodbye
      <4>3. Cardinality({i}) = 1
        BY FS_Singleton
      <4> QED BY <4>2, <4>3
    <3> QED BY <3>1, <3>2
  <2> QED BY <2>1 DEF IInv, Framed, Goodbye, FramesAreWhole
<1> QED BY <1>1, Invariance, PTL

\* Whatever the context does, DialWebSocket returns an open connection and the
\* context has no hold on it any more (websocket.go:168-242).
THEOREM DialedIsOpen == Spec => DialedStaysOpen
<1>1. IInv /\ [Next]_vars =>
        /\ dial # "open" /\ dial' = "open" => ~closed'
        /\ dial = "open" /\ closed' /\ ~closed => cancelled' = cancelled
  <2> SUFFICES ASSUME IInv, [Next]_vars
               PROVE  /\ dial # "open" /\ dial' = "open" => ~closed'
                      /\ dial = "open" /\ closed' /\ ~closed => cancelled' = cancelled
    OBVIOUS
  <2> USE DEF opening, incoming, outgoing
  <2>1. CASE Upgrade \/ Connect \/ Cancel \/ Handshake \/ Check
    BY <2>1 DEF Upgrade, Connect, Cancel, Handshake, Check, Established, IInv, Typed, Opening
  <2>2. CASE ~(Upgrade \/ Connect \/ Cancel \/ Handshake \/ Check)
    <3>1. dial' = dial /\ cancelled' = cancelled
      BY <2>2 DEF Next, vars, PeerSends, PeerReads, WriteMessage, Close, Abort, Writing, writeFrame,
        RefuseFrame, writeAll, WriteFails, closeNetwork, ReadMessage, ReadFails, ReadRefused,
        ReadControl, ReadData, Read
    <3> QED BY <3>1
  <2> QED BY <2>1, <2>2
<1> QED BY <1>1, Invariance, PTL DEF Spec, DialedStaysOpen

\* ReadMessage returns whole messages of the peer within the limit, in order,
\* whatever the peer sends, whichever pongs and close frames go out in between
\* and whichever errors come before, until an error leaves it inside a frame;
\* and it leaves no message out until it has failed (websocket.go:320-378).
THEOREM ReadsMessages == Spec => []MessagesAreThePeers
<1>1. Init => MInv
  <2> SUFFICES ASSUME Init PROVE MInv
    OBVIOUS
  <2>1. /\ Idle.at = "idle" /\ Idle.then = "none" /\ \A g \in Goroutines : job[g] = Idle
        /\ peerSent = <<>> /\ consumed = 0 /\ message = <<>> /\ delivered = <<>>
    BY DEF Init, Idle
  <2>2. Turns
    BY <2>1 DEF Turns
  <2>3. Received(<<>>, 0, <<>>, <<>>) /\ Covered(<<>>, 0, <<>>, <<>>)
    BY DEF Received, Covered
  <2> QED BY <2>1, <2>2, <2>3 DEF MInv, Told
<1>2. IInv /\ MInv /\ [Next]_vars => MInv'
  BY OtherMessages, ReadMessages DEF Next
<1>3. MInv => MessagesAreThePeers
  <2> SUFFICES ASSUME MInv PROVE MessagesAreThePeers
    OBVIOUS
  <2>1. \A i \in DOMAIN delivered :
          /\ InStep(delivered[i]) => IsMessage(delivered[i])
          /\ i > 1 => Last(delivered[i - 1]) < delivered[i][1]
    BY OneMessage DEF MInv, Received
  <2>2. ASSUME ~readFailed, job[Reader].at \in {"idle", "read"}
        PROVE  Covered(peerSent, consumed, message, delivered)
    BY <2>2 DEF MInv, Told, Turns
  <2> QED BY <2>1, <2>2 DEF MessagesAreThePeers, Covered
<1> QED BY <1>1, <1>2, <1>3, Invariance, PTL DEF Spec
=============================================================================
