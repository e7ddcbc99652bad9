--------------------------- MODULE DiscordGateway ---------------------------
(***************************************************************************)
(* The Gateway connection of the Discord client                            *)
(* (channels/discord/gateway.go): Run's reconnect loop, one WebSocket      *)
(* session with its reader and its heartbeat goroutine, and the bounded    *)
(* queue between the reader and the dispatch worker.                       *)
(*                                                                         *)
(* Discord is the environment: it decides lazily what the reader reads     *)
(* next.  An event is <<session, n>>, the n-th of its session; events      *)
(* after a resume start behind the sequence number the client sent.  Up to *)
(* MaxJumps times Discord omits events of its own accord, or repeats some. *)
(* Durations (backoff, jitter, heartbeat interval, the write window) are   *)
(* left out: whatever waits may be woken at any time.                      *)
(***************************************************************************)
EXTENDS Integers, SequencesExt

CONSTANTS
  QueueSize,           \* dispatchQueueSize
  RecentInteractions,  \* capacity of the ring of claimed interaction ids
  Quota,               \* most session starts Discord grants at a time
  MaxSessions,         \* bound: sessions Discord opens in a run
  MaxEvents,           \* bound: events of one session
  MaxJumps             \* bound: times Discord omits or repeats events in a run

ASSUME GatewayAssumption ==
  /\ QueueSize \in Nat \ {0} /\ RecentInteractions \in Nat \ {0}
  /\ Quota \in Nat /\ MaxSessions \in Nat /\ MaxEvents \in Nat \ {0} /\ MaxJumps \in Nat

VARIABLES
  phase,        \* where Run's goroutine stands
  cancelled,    \* ctx is done
  remaining,    \* info.SessionStartLimit.Remaining
  windowOver,   \* resetAt has passed
  resume,       \* Run's local of that name
  session,      \* the gatewaySession
  conn,         \* the WebSocket connection, and Discord's end of it
  acked, heartbeat, heartbeatErr,  \* the connection's heartbeat goroutine
  queue,        \* events between the reader and the worker
  recent,       \* client.interactionOrder
  delivered,    \* history: events handed to the handlers, in order
  started,      \* history: interactions whose goroutine was started
  jumps,        \* history: where Discord sent another event than the next one
  events,       \* what Discord emitted: the kinds of each session's events
  refused,      \* sessions Run was told not to resume
  granted, starts  \* history: the last limit received, identifies sent under it

run == <<remaining, windowOver, resume, granted, starts>>
beat == <<acked, heartbeat, heartbeatErr>>
client == <<queue, recent, delivered, started, jumps>>
vars == <<phase, cancelled, run, session, conn, beat, client, events, refused>>

-----------------------------------------------------------------------------

NoSession == 0
Sessions == 1..MaxSessions
Kinds == {"ready", "event", "interaction"}
Phases == {"new", "fetch", "loop", "refresh", "limit", "dial", "hello", "login",
           "check", "reading", "waiting", "stopped"}

\* id and resumeURL are set and cleared together: id stands for both.
newSession == [id |-> NoSession, hasSeq |-> FALSE, sequence |-> 0]

\* state: none, open, or broken by an Abort or a network error; dead: the peer
\* vanished and nothing more will come of it; session,
\* next: what Discord sends next once it has accepted an Identify or a Resume.
NoConn == [state |-> "none", dead |-> FALSE, session |-> NoSession, next |-> 1]
NewConn == [NoConn EXCEPT !.state = "open"]

Init ==
  /\ phase = "new" /\ cancelled = FALSE
  /\ remaining = 0 /\ windowOver = FALSE /\ resume = FALSE
  /\ granted = 0 /\ starts = 0
  /\ session = newSession /\ conn = NoConn
  /\ acked = TRUE /\ heartbeat = "off" /\ heartbeatErr = FALSE
  /\ queue = <<>> /\ recent = <<>> /\ delivered = <<>> /\ started = <<>>
  /\ events = <<>> /\ jumps = {} /\ refused = {}

-----------------------------------------------------------------------------
(* Run: the session start limit and the reconnect loop.                    *)

Goto(p) == phase' = p

Start ==
  /\ phase = "new" /\ Goto("fetch")
  /\ UNCHANGED <<cancelled, run, session, conn, beat, client, events, refused>>

\* GET /gateway/bot, first and again when resetAt has passed.  A refresh is
\* decoded into the old value, so a missing limit leaves the old one in force.
LimitReceived(n) ==
  /\ remaining' = n /\ granted' = n /\ starts' = 0

Fetch ==
  /\ phase = "fetch"
  /\ \/ /\ \E n \in 0..Quota : LimitReceived(n)
        /\ windowOver' = FALSE /\ Goto("loop")
     \/ Goto("stopped") /\ UNCHANGED <<remaining, granted, starts, windowOver>>
  /\ UNCHANGED <<cancelled, resume, session, conn, beat, client, events, refused>>

LoopTop ==
  /\ phase = "loop"
  /\ Goto(IF cancelled THEN "stopped" ELSE IF resume THEN "dial"
          ELSE IF windowOver THEN "refresh" ELSE "limit")
  /\ UNCHANGED <<cancelled, run, session, conn, beat, client, events, refused>>

Refresh ==
  /\ phase = "refresh"
  /\ \/ /\ \/ \E n \in 0..Quota : LimitReceived(n)
           \/ UNCHANGED <<remaining, granted, starts>>
        /\ windowOver' = FALSE /\ Goto("limit")
     \/ Goto("stopped") /\ UNCHANGED <<remaining, granted, starts, windowOver>>
  /\ UNCHANGED <<cancelled, resume, session, conn, beat, client, events, refused>>

CheckLimit ==
  /\ phase = "limit"
  /\ Goto(IF remaining <= 0 THEN "stopped" ELSE "dial")
  /\ UNCHANGED <<cancelled, run, session, conn, beat, client, events, refused>>

\* What Run does with a gatewayResult; s is the session as the reader left it.
SettledForgetful(result, s) ==   \* FAULT: the session is not forgotten
  /\ resume' = (result.resume /\ s.id # NoSession /\ s.hasSeq)
  /\ session' = s

Settled(result, s) ==
  /\ resume' = (result.resume /\ s.id # NoSession /\ s.hasSeq)
  /\ session' = IF resume' THEN s ELSE [s EXCEPT !.id = NoSession, !.hasSeq = FALSE]

Identified == ~resume /\ phase \in {"check", "reading"}

\* FAULT: a session that ends before it is ready is not counted.
CountedWhenReady == Identified /\ session.id # NoSession

Counted == Identified

\* runGatewaySession returns; stopSession ends the heartbeat goroutine, whose
\* last steps touch only what was this connection's own.
Returns(result, s) ==
  /\ remaining' = IF Counted THEN remaining - 1 ELSE remaining
  /\ \/ result.next = "stopped" /\ UNCHANGED resume /\ session' = s
     \/ result.next # "stopped" /\ Settled(result, s)
  /\ Goto(result.next)
  /\ conn' = NoConn
  /\ acked' = TRUE /\ heartbeat' = "off" /\ heartbeatErr' = FALSE
  /\ UNCHANGED <<cancelled, windowOver, granted, starts>>

Fatal == [resume |-> FALSE, next |-> "stopped"]
Again(canResume) == [resume |-> canResume, next |-> "waiting"]
AgainNow(canResume) == [resume |-> canResume, next |-> "loop"]

\* Backoff or the delay of an invalid session.
WaitEnds ==
  /\ phase = "waiting"
  /\ Goto("loop") \/ (cancelled /\ Goto("stopped"))
  /\ UNCHANGED <<cancelled, run, session, conn, beat, client, events, refused>>

-----------------------------------------------------------------------------
(* runGatewaySession: dial, Hello, Identify or Resume.                     *)

DialOK ==
  /\ phase = "dial"
  /\ conn' = NewConn /\ Goto("hello")
  /\ UNCHANGED <<cancelled, run, session, beat, client, events, refused>>

DialFails ==
  /\ phase = "dial"
  /\ Returns(IF cancelled THEN Fatal ELSE Again(resume), session)
  /\ UNCHANGED <<client, events, refused>>

Hello ==
  /\ phase = "hello" /\ ~conn.dead
  /\ acked' = TRUE /\ heartbeat' = "on" /\ Goto("login")
  /\ UNCHANGED <<cancelled, run, session, conn, heartbeatErr, client, events, refused>>

HelloReconnect ==
  /\ phase = "hello" /\ ~conn.dead
  /\ Returns(AgainNow(TRUE), session)
  /\ UNCHANGED <<client, events, refused>>

HelloInvalid ==
  /\ phase = "hello" /\ ~conn.dead
  /\ Returns(Fatal, session)
  /\ UNCHANGED <<client, events, refused>>

LoginFails ==
  /\ phase = "login"
  /\ Returns(Again(resume), session)
  /\ UNCHANGED <<client, events, refused>>

\* The write succeeded; Discord takes a Resume up behind the sent sequence,
\* unless it has given the session up.
LoginOK ==
  /\ phase = "login" /\ conn.state = "open"
  /\ \/ /\ resume
        /\ conn' = IF session.id \in refused THEN conn
                   ELSE [conn EXCEPT !.session = session.id,
                                     !.next = session.sequence + 1]
        /\ UNCHANGED starts
     \/ ~resume /\ starts' = starts + 1 /\ UNCHANGED conn
  /\ Goto("check")
  /\ UNCHANGED <<cancelled, remaining, windowOver, resume, granted, session, beat,
                 client, events, refused>>

-----------------------------------------------------------------------------
(* runGatewaySession: the read loop.                                       *)

HasSession == session.id # NoSession

CheckHeartbeat ==
  /\ phase = "check"
  /\ \/ /\ heartbeatErr
        /\ Returns(Again(HasSession), session)
     \/ /\ ~heartbeatErr /\ Goto("reading")
        /\ UNCHANGED <<cancelled, run, session, conn, beat>>
  /\ UNCHANGED <<client, events, refused>>

\* Something arrives.  Buffered data can still be read after an Abort.
Arrives == phase = "reading" /\ ~conn.dead

\* FAULT: a redelivered interaction is started again.
claimAlways(e) == /\ started' = Append(started, e)
                  /\ UNCHANGED recent

\* FAULT: the oldest claim is not evicted.
claimUnbounded(e) ==
  IF e \in Range(recent) THEN UNCHANGED <<recent, started>>
  ELSE recent' = Append(recent, e) /\ started' = Append(started, e)

claimInteraction(e) ==
  IF e \in Range(recent) THEN UNCHANGED <<recent, started>>
  ELSE /\ recent' = Append(IF Len(recent) = RecentInteractions
                             THEN Tail(recent) ELSE recent, e)
       /\ started' = Append(started, e)

Numbered(s, e) == [s EXCEPT !.hasSeq = TRUE, !.sequence = e[2]]

\* FAULT: the sequence number is stored although the event is not queued.
OverflowStored(e, kind, s) ==
  Returns(IF kind = "interaction" THEN AgainNow(TRUE) ELSE Again(TRUE), Numbered(s, e))

\* The queue is full: give the connection up, with the event's number unused.
Overflow(e, kind, s) ==
  Returns(IF kind = "interaction" THEN AgainNow(TRUE) ELSE Again(TRUE), s)

Enqueue(e, kind, s) ==
  \/ /\ Len(queue) < QueueSize
     /\ queue' = Append(queue, e)
     /\ session' = Numbered(s, e)
     /\ conn' = [conn EXCEPT !.session = e[1], !.next = e[2] + 1]
     /\ Goto("check") /\ UNCHANGED <<cancelled, run, beat>>
  \/ /\ Len(queue) >= QueueSize
     /\ Overflow(e, kind, s) /\ UNCHANGED queue

\* READY answers an Identify.  acceptReady takes the session over even when
\* the event then finds the queue full.
ReadReady ==
  /\ Arrives /\ ~resume /\ conn.session = NoSession
  /\ Len(events) < MaxSessions
  /\ events' = Append(events, <<"ready">>)
  /\ \/ Enqueue(<<Len(events) + 1, 1>>, "ready", [session EXCEPT !.id = Len(events) + 1])
     \/ Returns(Fatal, session) /\ UNCHANGED queue   \* acceptReady rejects it
  /\ UNCHANGED <<recent, started, delivered, jumps, refused>>

\* Discord sent event m of session s where the next one was n.
JumpOf(s, n, m) == [session |-> s, expected |-> n, sent |-> m]

\* Discord sends event n where n # conn.next: it left events out, or went back.
Jump(n) ==
  /\ n # conn.next /\ Cardinality(jumps) < MaxJumps
  /\ jumps' = jumps \cup {JumpOf(conn.session, conn.next, n)}

\* Any other dispatch: an event the session had before, or a new one, with all
\* that Discord emitted up to it.  The reader compares no numbers.
ReadDispatch ==
  /\ Arrives /\ conn.session # NoSession
  /\ LET s == conn.session
     IN  \E n \in 2..MaxEvents :
           \E new \in [1..(n - Len(events[s])) -> Kinds \ {"ready"}] :
             LET e    == <<s, n>>
                 kind == (events[s] \o new)[n]
             IN  /\ \/ n = conn.next /\ UNCHANGED jumps
                    \/ Jump(n)
                 /\ events' = [events EXCEPT ![s] = @ \o new]
                 /\ IF kind = "interaction" THEN claimInteraction(e)
                                            ELSE UNCHANGED <<recent, started>>
                 /\ Enqueue(e, kind, session)
  /\ UNCHANGED <<delivered, refused>>

\* Discord asks for a heartbeat: acked is cleared before the write.
ReadHeartbeat ==
  /\ Arrives
  /\ \/ /\ conn.state = "open" /\ acked' = FALSE /\ Goto("check")
        /\ UNCHANGED <<cancelled, run, session, conn, heartbeat, heartbeatErr>>
     \/ Returns(Again(HasSession), session)
  /\ UNCHANGED <<client, events, refused>>

ReadHeartbeatACK ==
  /\ Arrives
  /\ acked' = TRUE /\ Goto("check")
  /\ UNCHANGED <<cancelled, run, session, conn, heartbeat, heartbeatErr, client, events, refused>>

ReadReconnect ==
  /\ Arrives
  /\ Returns(AgainNow(TRUE), session)
  /\ UNCHANGED <<client, events, refused>>

\* Run acts on the end of the session.
Refuse == refused' = IF HasSession THEN refused \cup {session.id} ELSE refused

ReadInvalidSession ==
  /\ Arrives
  /\ \E canResume \in BOOLEAN :
       /\ canResume => session.id \notin refused
       /\ IF canResume THEN UNCHANGED refused ELSE Refuse
       /\ Returns(Again(canResume), session)
  /\ UNCHANGED <<client, events>>

\* gatewayReadResult: a read error while ctx is done is fatal.  Of the close
\* codes 4004, 4010-4014 are fatal; 4003, 4005, 4007, 4009 end the session; any
\* other error leaves it resumable, if there was one.
Resumable == IF phase = "hello" THEN resume ELSE HasSession

gatewayReadResult(code) ==
  CASE cancelled \/ code = "fatal" -> Fatal
    [] ~cancelled /\ code = "noresume" -> Again(FALSE)
    [] OTHER -> Again(Resumable)

\* A heartbeat failure found after the read error hides what the error says.
ReadError(code) ==
  /\ phase \in {"hello", "reading"}
  /\ \/ /\ heartbeatErr
        /\ Returns(Again(Resumable), session) /\ UNCHANGED refused
     \/ /\ ~heartbeatErr
        /\ Returns(gatewayReadResult(code), session)
        /\ IF code = "noresume" /\ ~cancelled THEN Refuse ELSE UNCHANGED refused
  /\ UNCHANGED <<client, events>>

ReadClose ==
  /\ conn.state # "none" /\ ~conn.dead
  /\ \E code \in {"fatal", "noresume", "other"} : ReadError(code)

\* The network broke, or a payload does not decode.
ReadBroken == conn.state = "open" /\ ~conn.dead /\ ReadError("none")

\* After an Abort every read fails, once the buffer is empty.
ReadAborted == conn.state = "broken" /\ ReadError("none")

-----------------------------------------------------------------------------
(* The other goroutines, and what happens to them.                         *)

\* The timer of the heartbeat goroutine fires.  A write that fails means that
\* the network connection is broken, for the reader too.
HeartbeatDueIgnoresACK ==   \* FAULT: a missing acknowledgement is not noticed
  /\ heartbeat = "on" /\ acked' = FALSE
  /\ \/ /\ conn.state # "open"
        /\ conn' = [conn EXCEPT !.state = "broken"] /\ heartbeat' = "failed"
     \/ /\ conn.state = "open"
        /\ UNCHANGED <<conn, heartbeat>>
  /\ UNCHANGED <<phase, cancelled, run, session, heartbeatErr, client, events, refused>>

HeartbeatDue ==
  /\ heartbeat = "on" /\ acked' = FALSE
  /\ \/ \* not acknowledged, or the write fails
        /\ conn' = [conn EXCEPT !.state = "broken"] /\ heartbeat' = "failed"
     \/ /\ acked /\ conn.state = "open"
        /\ UNCHANGED <<conn, heartbeat>>
  /\ UNCHANGED <<phase, cancelled, run, session, heartbeatErr, client, events, refused>>

HeartbeatReports ==
  /\ heartbeat = "failed"
  /\ heartbeatErr' = TRUE /\ heartbeat' = "off"
  /\ UNCHANGED <<phase, cancelled, run, session, conn, acked, client, events, refused>>

\* The one worker takes an event and runs its handlers to their end; it may
\* still do so after Run has returned, until it notices dispatchCtx.
Dispatch ==
  /\ queue # <<>>
  /\ delivered' = Append(delivered, Head(queue))
  /\ queue' = Tail(queue)
  /\ UNCHANGED <<phase, cancelled, run, session, conn, beat, recent, started, jumps,
                 events, refused>>

Cancel ==
  /\ ~cancelled /\ cancelled' = TRUE
  /\ UNCHANGED <<phase, run, session, conn, beat, client, events, refused>>

\* FAULT: AfterFunc is registered only once Hello has arrived.
ContextAbortsLate ==
  /\ cancelled /\ conn.state = "open" /\ phase # "hello"
  /\ conn' = [conn EXCEPT !.state = "broken"]
  /\ UNCHANGED <<phase, cancelled, run, session, beat, client, events, refused>>

\* context.AfterFunc aborts the connection.
ContextAborts ==
  /\ cancelled /\ conn.state = "open"
  /\ conn' = [conn EXCEPT !.state = "broken"]
  /\ UNCHANGED <<phase, cancelled, run, session, beat, client, events, refused>>

PeerVanishes ==
  /\ conn.state = "open" /\ ~conn.dead
  /\ conn' = [conn EXCEPT !.dead = TRUE]
  /\ UNCHANGED <<phase, cancelled, run, session, beat, client, events, refused>>

LimitWindowEnds ==
  /\ ~windowOver /\ windowOver' = TRUE
  /\ UNCHANGED <<phase, cancelled, remaining, resume, granted, starts, session, conn,
                 beat, client, events, refused>>

Next ==
  \/ Start \/ Fetch \/ LoopTop \/ Refresh \/ CheckLimit \/ WaitEnds
  \/ DialOK \/ DialFails \/ Hello \/ HelloReconnect \/ HelloInvalid
  \/ LoginOK \/ LoginFails \/ CheckHeartbeat
  \/ ReadReady \/ ReadDispatch \/ ReadHeartbeat \/ ReadHeartbeatACK
  \/ ReadReconnect \/ ReadInvalidSession \/ ReadClose \/ ReadAborted \/ ReadBroken
  \/ HeartbeatDue \/ HeartbeatReports \/ Dispatch
  \/ Cancel \/ ContextAborts \/ PeerVanishes \/ LimitWindowEnds

Spec == Init /\ [][Next]_vars

\* Goroutines that can run are run; timers fire; a request, dial or wait whose
\* context is done returns; the buffer of a broken connection is finite, so
\* reads that fail again and again do fail at last.  Nothing is asked of
\* Discord, of the network or of the handlers.
Fairness ==
  /\ WF_vars(LoopTop \/ CheckLimit \/ CheckHeartbeat \/ LoginOK \/ LoginFails)
  /\ WF_vars(cancelled /\ (Fetch \/ Refresh \/ DialFails \/ WaitEnds))
  /\ SF_vars(ReadAborted)
  /\ WF_vars(HeartbeatDue) /\ WF_vars(HeartbeatReports) /\ WF_vars(ContextAborts)

FairSpec == Spec /\ Fairness

-----------------------------------------------------------------------------
(* Properties.                                                             *)

Event == Sessions \X (1..MaxEvents)

TypeOK ==
  /\ phase \in Phases
  /\ {cancelled, windowOver, resume, acked, heartbeatErr} \subseteq BOOLEAN
  /\ heartbeat \in {"off", "on", "failed"}
  /\ remaining \in 0..Quota /\ granted \in 0..Quota /\ starts \in Nat
  /\ session \in [id : {NoSession} \cup Sessions, hasSeq : BOOLEAN, sequence : 0..MaxEvents]
  /\ conn \in [state : {"none", "open", "broken"}, dead : BOOLEAN,
               session : {NoSession} \cup Sessions, next : 1..(MaxEvents + 1)]
  /\ {queue, recent, delivered, started} \subseteq Seq(Event)
  /\ Len(queue) <= QueueSize /\ Len(recent) <= RecentInteractions
  /\ events \in Seq(Seq(Kinds)) /\ Len(events) <= MaxSessions
  /\ jumps \subseteq [session : Sessions, expected : 1..(MaxEvents + 1), sent : 1..MaxEvents]
  /\ refused \subseteq Sessions

\* What the reader accepted so far, in the order the handlers get it.
Accepted == delivered \o queue

\* Handlers get events in the order Discord sent them, and whatever is left out
\* or repeated Discord itself left out or repeated (docs/discord.md:68-69): over
\* any number of dropped connections, resumes and full queues the client adds no
\* gap and no repetition.  An event is the successor of the one before it, or
\* what Discord jumped to, or the first of a later session
\* (docs/discord.md:74-76, gateway.go lines 305-326).
AcceptedInOrder ==
  \A i \in 1..Len(Accepted) :
    LET e == Accepted[i]
    IN  \/ e[2] = 1 /\ (i > 1 => Accepted[i - 1][1] < e[1])
        \/ /\ i > 1 /\ Accepted[i - 1][1] = e[1]
           /\ LET next == Accepted[i - 1][2] + 1
              IN  e[2] = next
                  \/ JumpOf(e[1], next, e[2]) \in jumps

\* The number a Resume or a heartbeat sends is that of the last event queued:
\* a greater one would make Discord skip events for good.
SequenceIsAccepted ==
  session.hasSeq /\ HasSession =>
    /\ Accepted # <<>>
    /\ Accepted[Len(Accepted)] = <<session.id, session.sequence>>

\* A slash command is started once, however often Discord delivers it again
\* because the queue was full.  Where Discord repeats events of its own accord, a
\* second start needs as many other claims in between as the ring holds.  Every
\* interaction that was queued was started (lines 300-316, client.go 123-144).
InteractionStartedOnce ==
  /\ jumps = {} => IsInjective(started)
  /\ \A i, j \in 1..Len(started) :
       i < j /\ started[i] = started[j] => j - i > RecentInteractions
  /\ \A e \in Range(Accepted) : events[e[1]][e[2]] = "interaction" => e \in Range(started)

\* Once Run knows that a session is over it never resumes it again, also when
\* the next connection fails before its READY (lines 183-188).
EndedSessionNotResumed ==
  resume => /\ session.id # NoSession /\ session.hasSeq
            /\ session.id \notin refused

\* No more identifies are written than the last limit Discord sent allows, on
\* every way a session can end (lines 172-179).
IdentifiesWithinLimit == starts <= granted

\* A connection whose peer has vanished is given up: the heartbeat goroutine
\* breaks the read that would otherwise wait for ever (lines 347-368).
DeadPeerNoticed ==
  conn.dead /\ phase \in {"check", "reading"} ~> conn.state = "none"

\* Run returns once its context is done, wherever it stands.
CancelStopsRun == cancelled /\ phase # "new" ~> phase = "stopped"
=============================================================================
