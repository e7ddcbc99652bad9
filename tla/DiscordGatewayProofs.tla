------------------------ MODULE DiscordGatewayProofs ------------------------
(***************************************************************************)
(* Safety of the Gateway connection for any queue size, any number of      *)
(* remembered interactions, any quota and any number of sessions and       *)
(* events.  What IInv adds to the invariants the runs check: the start     *)
(* limit is accounted for between an Identify and the end of its session   *)
(* (Limits); the session, the connection and the resume flag agree         *)
(* (Resumption); Discord's events are there when they are accepted (Order);*)
(* the ring holds the last claims, and as long as Discord repeats nothing  *)
(* the one claim that a resume may meet again is among them (Claims).      *)
(***************************************************************************)
EXTENDS DiscordGateway, SequenceTheorems, TLAPS

Live == {"dial", "hello", "login", "check", "reading"}

Limits ==
  /\ starts + remaining = granted + (IF Identified THEN 1 ELSE 0)
  /\ ~resume /\ phase \in Live => remaining >= 1

Resumption ==
  /\ session.id <= Len(events)
  /\ session.hasSeq <=> HasSession
  /\ conn.session # NoSession =>
       /\ phase \in {"check", "reading"}
       /\ conn.session = session.id /\ conn.next = session.sequence + 1
  /\ resume => HasSession
  /\ ~resume /\ phase # "stopped" /\ conn.session = NoSession => ~HasSession
  /\ HasSession => session.id \notin refused
  /\ refused \subseteq 1..Len(events)

Emitted == \A s \in 1..Len(events) : Len(events[s]) \in 1..MaxEvents

Exists(e) == e[1] \in 1..Len(events) /\ e[2] \in 1..Len(events[e[1]])

Order ==
  /\ Emitted
  /\ \A i \in 1..Len(Accepted) : Exists(Accepted[i])
  /\ AcceptedInOrder /\ SequenceIsAccepted

IsRing(ring, all) ==
  /\ Len(ring) <= Len(all)
  /\ Len(ring) < RecentInteractions => Len(ring) = Len(all)
  /\ \A i \in 1..Len(ring) : ring[i] = all[Len(all) - Len(ring) + i]

Spaced(all) ==
  \A i, j \in 1..Len(all) : i < j /\ all[i] = all[j] => j - i > RecentInteractions

Claims ==
  /\ InteractionStartedOnce
  /\ \A e \in Range(started) : Exists(e)
  /\ Range(recent) \subseteq Range(started) /\ IsRing(recent, started)
  /\ jumps = {} =>
       \A e \in Range(started) : HasSession /\ e[1] = session.id =>
         \/ e[2] <= session.sequence
         \/ e[2] = session.sequence + 1 /\ e \in Range(recent)

IInv == TypeOK /\ Limits /\ Resumption /\ Order /\ Claims

USE GatewayAssumption
-----------------------------------------------------------------------------
(* Sequences.                                                              *)

LEMMA AppendFacts ==
  ASSUME NEW S, NEW q \in Seq(S), NEW e \in S
  PROVE  /\ Append(q, e) \in Seq(S) /\ Len(Append(q, e)) = Len(q) + 1
         /\ \A i \in 1..Len(q) : Append(q, e)[i] = q[i]
         /\ Append(q, e)[Len(q) + 1] = e
         /\ Range(Append(q, e)) = Range(q) \cup {e}
<1>1. /\ Append(q, e) \in Seq(S) /\ Len(Append(q, e)) = Len(q) + 1
      /\ \A i \in 1..Len(q) : Append(q, e)[i] = q[i]
      /\ Append(q, e)[Len(q) + 1] = e
  OBVIOUS
<1>2. DOMAIN q = 1..Len(q) /\ DOMAIN Append(q, e) = 1..(Len(q) + 1) /\ Len(q) \in Nat
  OBVIOUS
<1> QED BY <1>1, <1>2 DEF Range

LEMMA TailFacts ==
  ASSUME NEW S, NEW q \in Seq(S), q # <<>>
  PROVE  /\ Tail(q) \in Seq(S) /\ Len(Tail(q)) = Len(q) - 1 /\ Head(q) \in S
         /\ Range(Tail(q)) \subseteq Range(q)
<1>1. /\ Tail(q) \in Seq(S) /\ Len(Tail(q)) = Len(q) - 1 /\ Head(q) \in S
      /\ \A i \in 1..Len(Tail(q)) : Tail(q)[i] = q[i + 1]
  BY HeadTailProperties
<1>2. DOMAIN q = 1..Len(q) /\ DOMAIN Tail(q) = 1..Len(Tail(q)) /\ Len(q) \in Nat
  BY <1>1
<1> QED BY <1>1, <1>2 DEF Range

\* What is accepted does not change when the worker takes the head of the
\* queue, and grows at its end when the reader queues an event.
LEMMA DispatchKeeps ==
  ASSUME NEW S, NEW d \in Seq(S), NEW q \in Seq(S), q # <<>>
  PROVE  Append(d, Head(q)) \o Tail(q) = d \o q
<1>1. Head(q) \in S /\ Tail(q) \in Seq(S) /\ q = <<Head(q)>> \o Tail(q)
  BY HeadTailProperties
<1>2. Append(d, Head(q)) = d \o <<Head(q)>>
  BY <1>1, AppendIsConcat
<1>3. <<Head(q)>> \in Seq(S)
  BY <1>1
<1>4. (d \o <<Head(q)>>) \o Tail(q) = d \o (<<Head(q)>> \o Tail(q))
  BY <1>1, <1>3, ConcatAssociative
<1> QED BY <1>1, <1>2, <1>4

LEMMA EnqueueAppends ==
  ASSUME NEW S, NEW d \in Seq(S), NEW q \in Seq(S), NEW e \in S
  PROVE  d \o Append(q, e) = Append(d \o q, e)
<1>1. <<e>> \in Seq(S) /\ d \o q \in Seq(S)
  OBVIOUS
<1>2. Append(q, e) = q \o <<e>> /\ Append(d \o q, e) = (d \o q) \o <<e>>
  BY <1>1, AppendIsConcat
<1>3. (d \o q) \o <<e>> = d \o (q \o <<e>>)
  BY <1>1, ConcatAssociative
<1> QED BY <1>2, <1>3

\* A sequence continued up to its n-th element.
LEMMA Continuation ==
  ASSUME NEW S, NEW q \in Seq(S), NEW n \in Nat, NEW new \in [1..(n - Len(q)) -> S]
  PROVE  /\ new \in Seq(S) /\ q \o new \in Seq(S)
         /\ Len(q \o new) = IF n > Len(q) THEN n ELSE Len(q)
         /\ \A i \in 1..Len(q) : (q \o new)[i] = q[i]
<1> DEFINE k == IF n > Len(q) THEN n - Len(q) ELSE 0
<1>1. k \in Nat /\ 1..(n - Len(q)) = 1..k /\ Len(q) \in Nat
  OBVIOUS
<1>2. new \in Seq(S) /\ Len(new) = k
  <2>1. new \in [1..k -> S]
    BY <1>1
  <2> HIDE DEF k
  <2>2. new \in Seq(S)
    BY <1>1, <2>1
  <2>3. DOMAIN new = 1..k
    BY <2>1
  <2> QED BY <1>1, <2>2, <2>3
<1>3. /\ q \o new \in Seq(S) /\ Len(q \o new) = Len(q) + Len(new)
      /\ \A i \in 1..Len(q) : (q \o new)[i] = q[i]
  <2>1. q \in Seq(S)
    OBVIOUS
  <2> QED BY ONLY <1>2, <2>1, ConcatProperties
<1> QED BY ONLY <1>1, <1>2, <1>3

-----------------------------------------------------------------------------
(* Discord's events only grow.                                             *)

Grows ==
  \/ UNCHANGED events
  \/ events' = Append(events, <<"ready">>)
  \/ \E s \in 1..Len(events), new \in Seq(Kinds) : events' = [events EXCEPT ![s] = @ \o new]

LEMMA Growth ==
  ASSUME TypeOK, Grows
  PROVE  /\ events' \in Seq(Seq(Kinds)) /\ Len(events') >= Len(events)
         /\ \A s \in 1..Len(events) :
              /\ Len(events'[s]) >= Len(events[s])
              /\ \A n \in 1..Len(events[s]) : events'[s][n] = events[s][n]
<1>0. events \in Seq(Seq(Kinds)) /\ \A s \in 1..Len(events) : events[s] \in Seq(Kinds)
  BY DEF TypeOK
<1>1. CASE UNCHANGED events
  BY <1>0, <1>1
<1>2. CASE events' = Append(events, <<"ready">>)
  <2>1. <<"ready">> \in Seq(Kinds)
    BY DEF Kinds
  <2> QED BY <1>0, <1>2, <2>1, AppendFacts
<1>3. ASSUME NEW s \in 1..Len(events), NEW new \in Seq(Kinds),
             events' = [events EXCEPT ![s] = @ \o new]
      PROVE  /\ events' \in Seq(Seq(Kinds)) /\ Len(events') >= Len(events)
             /\ \A t \in 1..Len(events) :
                  /\ Len(events'[t]) >= Len(events[t])
                  /\ \A n \in 1..Len(events[t]) : events'[t][n] = events[t][n]
  <2>1. events[s] \o new \in Seq(Kinds)
        /\ Len(events[s] \o new) >= Len(events[s])
        /\ \A n \in 1..Len(events[s]) : (events[s] \o new)[n] = events[s][n]
    <3>1. events[s] \in Seq(Kinds) /\ Len(events[s]) \in Nat /\ Len(new) \in Nat
      BY <1>0
    <3>2. /\ events[s] \o new \in Seq(Kinds)
          /\ Len(events[s] \o new) = Len(events[s]) + Len(new)
          /\ \A n \in 1..Len(events[s]) : (events[s] \o new)[n] = events[s][n]
      BY <3>1, ConcatProperties
    <3> QED BY <3>1, <3>2
  <2>2. events' \in Seq(Seq(Kinds)) /\ Len(events') = Len(events)
    BY <1>0, <1>3, <2>1
  <2>3. \A t \in 1..Len(events) : events'[t] = IF t = s THEN events[s] \o new ELSE events[t]
    BY <1>0, <1>3
  <2>4. ASSUME NEW t \in 1..Len(events)
        PROVE  Len(events[t]) \in Nat /\ (t # s => events'[t] = events[t])
    <3>1. events[t] \in Seq(Kinds)
      BY <1>0
    <3>2. Len(events[t]) \in Nat
      BY <3>1
    <3>3. t # s => events'[t] = events[t]
      BY <2>3
    <3> QED BY <3>2, <3>3
  <2>5. events'[s] = events[s] \o new
    BY <2>3
  <2>6. ASSUME NEW t \in 1..Len(events)
        PROVE  /\ Len(events'[t]) >= Len(events[t])
               /\ \A n \in 1..Len(events[t]) : events'[t][n] = events[t][n]
    <3>1. CASE t = s
      BY <3>1, <2>1, <2>4, <2>5
    <3>2. CASE t # s
      BY <3>2, <2>4
    <3> QED BY <3>1, <3>2
  <2>7. Len(events) \in Nat
    BY <1>0
  <2> QED BY <2>2, <2>6, <2>7
<1>4. CASE \E s \in 1..Len(events), new \in Seq(Kinds) :
             events' = [events EXCEPT ![s] = @ \o new]
  <2>1. PICK s \in 1..Len(events), new \in Seq(Kinds) :
          events' = [events EXCEPT ![s] = @ \o new]
    BY <1>4
  <2> QED BY <2>1, <1>3
<1>5. Grows
  OBVIOUS
<1> QED BY ONLY <1>1, <1>2, <1>4, <1>5 DEF Grows

LEMMA ExistsForEver ==
  ASSUME TypeOK, Grows, NEW e, Exists(e)
  PROVE  Exists(e)' /\ events'[e[1]][e[2]] = events[e[1]][e[2]]
<1>1. events \in Seq(Seq(Kinds))
  BY DEF TypeOK
<1>2. Len(events) \in Nat /\ Len(events[e[1]]) \in Nat
  BY <1>1 DEF Exists
<1>3. events' \in Seq(Seq(Kinds)) /\ Len(events') >= Len(events)
      /\ Len(events'[e[1]]) >= Len(events[e[1]])
      /\ events'[e[1]][e[2]] = events[e[1]][e[2]]
  BY Growth DEF Exists
<1>4. Len(events') \in Nat /\ Len(events'[e[1]]) \in Nat
  BY <1>2, <1>3 DEF Exists
<1> QED BY <1>2, <1>3, <1>4 DEF Exists

-----------------------------------------------------------------------------
(* How a session ends.                                                     *)

Results == [resume : BOOLEAN, next : {"stopped", "waiting", "loop"}]

SessionType ==
  [id : {NoSession} \cup Sessions, hasSeq : BOOLEAN, sequence : 0..MaxEvents]

\* A session that identified is paid for when it ends, however it ends.
LEMMA ReturnsLimits ==
  ASSUME TypeOK, Limits, phase \in Live, NEW result \in Results, NEW s, Returns(result, s)
  PROVE  Limits' /\ remaining' \in 0..Quota /\ phase' \in {"stopped", "waiting", "loop"}
<1>1. remaining \in 0..Quota /\ granted \in 0..Quota /\ starts \in Nat
  BY DEF TypeOK
<1>2. phase' \in {"stopped", "waiting", "loop"}
  BY DEF Returns, Goto, Results
<1>3. ~Identified' /\ phase' \notin Live
  BY <1>2 DEF Identified, Live
<1>4. UNCHANGED <<granted, starts>> /\ remaining' = IF Identified THEN remaining - 1 ELSE remaining
  BY DEF Returns, Counted
<1>5. Identified => remaining >= 1
  BY DEF Limits, Identified, Live
<1>6. remaining' \in 0..Quota
  BY <1>1, <1>4, <1>5
<1>7. starts' + remaining' = granted'
  BY <1>1, <1>4 DEF Limits
<1> QED BY <1>2, <1>3, <1>6, <1>7, <1>1, <1>4 DEF Limits

\* Run keeps the session only if it is going to resume it, or to stop.
LEMMA ReturnsResumption ==
  ASSUME TypeOK, Resumption, phase \in Live, NEW result \in Results,
         Returns(result, session), Len(events') >= Len(events), Len(events') \in Nat,
         \/ refused' = refused
         \/ /\ HasSession /\ ~result.resume /\ result.next # "stopped"
            /\ refused' = refused \cup {session.id}
  PROVE  /\ Resumption' /\ session' \in SessionType /\ resume' \in BOOLEAN
         /\ session' = session \/ ~HasSession'
         /\ result.resume /\ HasSession /\ result.next # "stopped" => session' = session
<1>1. /\ session \in SessionType /\ resume \in BOOLEAN
      /\ session.id \in {NoSession} \cup Sessions /\ session.hasSeq \in BOOLEAN
      /\ session.sequence \in 0..MaxEvents
  BY DEF TypeOK, SessionType
<1>2. conn'.session = NoSession
  BY DEF Returns, NoConn
<1>3. Len(events) \in Nat
  BY DEF TypeOK
<1>4. CASE result.next = "stopped"
  <2>1. resume' = resume /\ session' = session /\ phase' = "stopped" /\ refused' = refused
    BY <1>4 DEF Returns, Goto
  <2>2. session.id <= Len(events')
    BY <1>1, <1>3 DEF Resumption, NoSession, Sessions
  <2>3. refused' \subseteq 1..Len(events')
    BY <1>3, <2>1 DEF Resumption
  <2> QED BY <1>1, <1>2, <2>1, <2>2, <2>3, <1>4 DEF Resumption, HasSession
<1>5. CASE result.next # "stopped" /\ resume'
  <2>1. session' = session /\ result.resume /\ HasSession /\ resume' \in BOOLEAN
    BY <1>5 DEF Returns, Settled, HasSession
  <2>2. refused' = refused
    BY <2>1
  <2>3. session.id <= Len(events')
    BY <1>1, <1>3 DEF Resumption, NoSession, Sessions
  <2>4. refused' \subseteq 1..Len(events')
    BY <1>3, <2>2 DEF Resumption
  <2> QED BY <1>1, <1>2, <1>5, <2>1, <2>2, <2>3, <2>4 DEF Resumption, HasSession
<1>6. CASE result.next # "stopped" /\ ~resume'
  <2>1. /\ ~(result.resume /\ HasSession /\ session.hasSeq) /\ resume' \in BOOLEAN
        /\ session' = [session EXCEPT !.id = NoSession, !.hasSeq = FALSE]
    BY <1>6 DEF Returns, Settled, HasSession
  <2>2. /\ session'.id = NoSession /\ session'.hasSeq = FALSE
        /\ session' \in SessionType
    BY <1>1, <2>1 DEF SessionType
  <2>3. refused' \subseteq 1..Len(events')
    <3>1. refused \subseteq 1..Len(events')
      BY <1>3 DEF Resumption
    <3>2. HasSession => session.id \in 1..Len(events')
      BY <1>1, <1>3 DEF Resumption, HasSession, Sessions, NoSession
    <3> QED BY <3>1, <3>2
  <2>4. ~HasSession' /\ ~(result.resume /\ HasSession)
    BY <2>1, <2>2 DEF HasSession, Resumption
  <2> QED BY <1>2, <1>6, <2>1, <2>2, <2>3, <2>4 DEF Resumption, HasSession, NoSession
<1> QED BY <1>4, <1>5, <1>6

-----------------------------------------------------------------------------
(* What the reader accepts.                                                *)

LEMMA AcceptedType ==
  ASSUME TypeOK
  PROVE  Accepted \in Seq(Event) /\ Len(Accepted) \in Nat
BY DEF TypeOK, Accepted

LEMMA OrderKept ==
  ASSUME TypeOK, Order, Grows, Emitted', UNCHANGED Accepted, jumps \subseteq jumps',
         session' = session \/ ~HasSession'
  PROVE  Order'
<1>1. ASSUME NEW i \in 1..Len(Accepted)
      PROVE  Exists(Accepted[i])'
  <2>1. Exists(Accepted[i])
    BY DEF Order
  <2> QED BY <2>1, ExistsForEver DEF Exists
<1>2. AcceptedInOrder'
  BY DEF Order, AcceptedInOrder
<1>3. SequenceIsAccepted'
  BY DEF Order, SequenceIsAccepted, HasSession
<1> QED BY <1>1, <1>2, <1>3 DEF Order, Exists

\* The event that is queued next is the successor of the last one accepted or
\* what Discord jumped to from there, or the READY of a new session.
LEMMA OrderGrows ==
  ASSUME TypeOK, Resumption, Order, Grows, Emitted', NEW e \in Event, Exists(e)',
         Accepted' = Append(Accepted, e), jumps \subseteq jumps',
         session'.id = e[1], session'.sequence = e[2],
         \/ /\ HasSession /\ e[1] = session.id
            /\ \/ e[2] = session.sequence + 1
               \/ JumpOf(session.id, session.sequence + 1, e[2]) \in jumps'
         \/ e = <<Len(events) + 1, 1>>
  PROVE  Order'
<1> DEFINE n == Len(Accepted)
<1>1. Accepted \in Seq(Event) /\ n \in Nat
  BY AcceptedType
<1>2. /\ Len(Accepted') = n + 1 /\ Accepted'[n + 1] = e
      /\ \A i \in 1..n : Accepted'[i] = Accepted[i]
  BY <1>1, AppendFacts
<1>3. (\A i \in 1..Len(Accepted) : Exists(Accepted[i]))'
  <2>1. \A x : Exists(x) => Exists(x)'
    BY ExistsForEver
  <2>2. \A i \in 1..n : Exists(Accepted[i])'
    BY <1>2, <2>1 DEF Order, Exists
  <2> QED BY <1>1, <1>2, <2>2 DEF Exists
<1>4. \/ e[2] = 1 /\ (n > 0 => Accepted[n][1] < e[1])
      \/ /\ n > 0 /\ Accepted[n][1] = e[1]
         /\ \/ e[2] = Accepted[n][2] + 1
            \/ JumpOf(e[1], Accepted[n][2] + 1, e[2]) \in jumps'
  <2>1. CASE /\ HasSession /\ e[1] = session.id
             /\ \/ e[2] = session.sequence + 1
                \/ JumpOf(session.id, session.sequence + 1, e[2]) \in jumps'
    <3>1. Accepted # <<>> /\ Accepted[n] = <<session.id, session.sequence>>
      BY <2>1 DEF Order, SequenceIsAccepted, Resumption
    <3> QED BY <1>1, <2>1, <3>1
  <2>2. CASE e = <<Len(events) + 1, 1>>
    <3>1. n > 0 => Accepted[n][1] \in 1..Len(events)
      BY <1>1 DEF Order, Exists
    <3>2. Len(events) \in Nat
      BY DEF TypeOK
    <3> QED BY <2>2, <3>1, <3>2
  <2> QED BY <2>1, <2>2
<1>5. AcceptedInOrder'
  <2>1. ASSUME NEW i \in 1..(n + 1)
        PROVE  \/ Accepted'[i][2] = 1 /\ (i > 1 => Accepted'[i - 1][1] < Accepted'[i][1])
               \/ /\ i > 1 /\ Accepted'[i - 1][1] = Accepted'[i][1]
                  /\ \/ Accepted'[i][2] = Accepted'[i - 1][2] + 1
                     \/ JumpOf(Accepted'[i][1], Accepted'[i - 1][2] + 1, Accepted'[i][2]) \in jumps'
    <3>1. CASE i \in 1..n
      <4>1. i > 1 => i - 1 \in 1..n
        BY <3>1, <1>1
      <4>2. Accepted'[i] = Accepted[i] /\ (i > 1 => Accepted'[i - 1] = Accepted[i - 1])
        BY <1>2, <3>1, <4>1
      <4>3. \/ Accepted[i][2] = 1 /\ (i > 1 => Accepted[i - 1][1] < Accepted[i][1])
            \/ /\ i > 1 /\ Accepted[i - 1][1] = Accepted[i][1]
               /\ \/ Accepted[i][2] = Accepted[i - 1][2] + 1
                  \/ JumpOf(Accepted[i][1], Accepted[i - 1][2] + 1, Accepted[i][2]) \in jumps
        BY <3>1 DEF Order, AcceptedInOrder
      <4> QED BY <4>2, <4>3
    <3>2. CASE i = n + 1
      <4>1. i > 1 <=> n > 0
        BY <3>2, <1>1
      <4>2. Accepted'[i] = e /\ (n > 0 => Accepted'[i - 1] = Accepted[n])
        BY <1>1, <1>2, <3>2
      <4> QED BY <1>4, <4>1, <4>2
    <3> QED BY <1>1, <3>1, <3>2
  <2> QED BY <1>2, <2>1 DEF AcceptedInOrder
<1>6. SequenceIsAccepted'
  <2>1. Accepted' # <<>>
    BY <1>1, <1>2
  <2>2. e = <<e[1], e[2]>>
    BY DEF Event
  <2>3. Accepted'[Len(Accepted')] = <<session'.id, session'.sequence>>
    BY <1>2, <2>2
  <2> QED BY <2>1, <2>3 DEF SequenceIsAccepted
<1> QED BY <1>3, <1>5, <1>6 DEF Order

-----------------------------------------------------------------------------
(* Interactions.                                                           *)

\* What is known of the accepted and the started events stays true of them.
LEMMA KindsStay ==
  ASSUME TypeOK, Order, Claims, Grows
  PROVE  /\ \A e \in Range(started) : Exists(e)'
         /\ \A e \in Range(Accepted) :
              events'[e[1]][e[2]] = "interaction" => e \in Range(started)
<1>1. \A x : Exists(x) => Exists(x)' /\ events'[x[1]][x[2]] = events[x[1]][x[2]]
  BY ExistsForEver
<1>2. \A e \in Range(Accepted) : Exists(e)
  <2>1. DOMAIN Accepted = 1..Len(Accepted)
    BY AcceptedType
  <2> QED BY <2>1 DEF Order, Range
<1> QED BY <1>1, <1>2 DEF Claims, InteractionStartedOnce

LEMMA ClaimsKept ==
  ASSUME TypeOK, Order, Claims, Grows, UNCHANGED <<recent, started>>, UNCHANGED Accepted,
         jumps \subseteq jumps', session' = session \/ ~HasSession'
  PROVE  Claims'
<1>1. InteractionStartedOnce'
  BY KindsStay DEF Claims, InteractionStartedOnce
<1>2. \A e \in Range(started) : Exists(e)'
  BY KindsStay
<1>3. jumps' = {} => \A e \in Range(started) : HasSession' /\ e[1] = session'.id =>
        \/ e[2] <= session'.sequence
        \/ e[2] = session'.sequence + 1 /\ e \in Range(recent)
  BY DEF Claims, HasSession
<1> QED BY <1>1, <1>2, <1>3 DEF Claims, Exists, IsRing

\* The oldest claim makes room for a new one; a claim is not made twice while
\* the ring remembers it.
LEMMA RingStep ==
  ASSUME NEW ring \in Seq(Event), NEW all \in Seq(Event), NEW e \in Event,
         Len(ring) <= RecentInteractions, IsRing(ring, all), Spaced(all), e \notin Range(ring),
         NEW next, next = Append(IF Len(ring) = RecentInteractions THEN Tail(ring) ELSE ring, e)
  PROVE  /\ next \in Seq(Event) /\ Len(next) <= RecentInteractions
         /\ e \in Range(next) /\ Range(next) \subseteq Range(ring) \cup {e}
         /\ IsRing(next, Append(all, e)) /\ Spaced(Append(all, e))
<1> DEFINE kept == IF Len(ring) = RecentInteractions THEN Tail(ring) ELSE ring
           grown == Append(all, e)
<1> HIDE DEF kept, grown
<1>1. ring \in Seq(Event) /\ all \in Seq(Event) /\ e \in Event
  OBVIOUS
<1>2. /\ Len(ring) \in Nat /\ Len(all) \in Nat /\ RecentInteractions \in Nat \ {0}
      /\ Len(ring) <= RecentInteractions /\ Len(ring) <= Len(all)
      /\ Len(ring) < RecentInteractions => Len(ring) = Len(all)
  <2>1. RecentInteractions \in Nat \ {0}
    BY ONLY GatewayAssumption DEF GatewayAssumption
  <2>2. Len(ring) \in Nat /\ Len(all) \in Nat
    BY ONLY <1>1
  <2>3. Len(ring) <= Len(all) /\ (Len(ring) < RecentInteractions => Len(ring) = Len(all))
    BY ONLY IsRing(ring, all) DEF IsRing
  <2>4. Len(ring) <= RecentInteractions
    OBVIOUS
  <2> QED BY ONLY <2>1, <2>2, <2>3, <2>4
<1>3. \A i \in 1..Len(ring) : ring[i] = all[Len(all) - Len(ring) + i]
  BY ONLY IsRing(ring, all) DEF IsRing
<1>4. /\ kept \in Seq(Event) /\ Range(kept) \subseteq Range(ring) /\ Len(kept) \in Nat
      /\ Len(kept) = IF Len(ring) = RecentInteractions THEN Len(ring) - 1 ELSE Len(ring)
  <2>1. CASE Len(ring) = RecentInteractions
    <3>1. ring # <<>> /\ kept = Tail(ring)
      BY ONLY <1>1, <1>2, <2>1 DEF kept
    <3> QED BY ONLY <1>1, <1>2, <2>1, <3>1, TailFacts
  <2>2. CASE Len(ring) # RecentInteractions
    BY ONLY <1>1, <1>2, <2>2 DEF kept
  <2> QED BY ONLY <2>1, <2>2
<1>5. ASSUME NEW i \in 1..Len(kept)
      PROVE  kept[i] = all[Len(all) - Len(kept) + i]
  <2>1. CASE Len(ring) = RecentInteractions
    <3>1. ring # <<>> /\ kept = Tail(ring)
      BY ONLY <1>1, <1>2, <2>1 DEF kept
    <3>2. kept[i] = ring[i + 1]
      BY ONLY <1>1, <3>1, i \in 1..Len(kept), HeadTailProperties
    <3>3. i + 1 \in 1..Len(ring)
          /\ Len(all) - Len(ring) + (i + 1) = Len(all) - Len(kept) + i
      BY ONLY <1>2, <1>4, <2>1, i \in 1..Len(kept)
    <3>4. ring[i + 1] = all[Len(all) - Len(ring) + (i + 1)]
      BY ONLY <1>3, <3>3
    <3> QED BY ONLY <3>2, <3>3, <3>4
  <2>2. CASE Len(ring) # RecentInteractions
    BY ONLY <1>3, <2>2, i \in 1..Len(kept) DEF kept
  <2> QED BY ONLY <2>1, <2>2
<1>6. next = Append(kept, e)
  BY DEF kept
<1>7. /\ next \in Seq(Event) /\ Len(next) = Len(kept) + 1
      /\ \A i \in 1..Len(kept) : next[i] = kept[i]
      /\ next[Len(kept) + 1] = e /\ Range(next) = Range(kept) \cup {e}
  BY ONLY <1>1, <1>4, <1>6, AppendFacts
<1>8. /\ Len(grown) = Len(all) + 1 /\ grown[Len(all) + 1] = e
      /\ \A i \in 1..Len(all) : grown[i] = all[i]
  BY ONLY <1>1, AppendFacts DEF grown
<1>9. /\ Len(next) = Len(kept) + 1 /\ Len(grown) = Len(all) + 1
      /\ Len(kept) \in Nat /\ Len(kept) < RecentInteractions /\ Len(kept) <= Len(all)
      /\ Len(next) < RecentInteractions => Len(kept) = Len(all)
  <2>1. Len(next) = Len(kept) + 1 /\ Len(grown) = Len(all) + 1
    BY ONLY <1>7, <1>8
  <2> QED BY ONLY <1>2, <1>4, <2>1
<1>10. IsRing(next, grown)
  <2>1. Len(next) <= Len(grown) /\ (Len(next) < RecentInteractions => Len(next) = Len(grown))
    BY ONLY <1>2, <1>9
  <2>2. ASSUME NEW i \in 1..Len(next)
        PROVE  next[i] = grown[Len(grown) - Len(next) + i]
    <3>1. Len(grown) - Len(next) + i = Len(all) - Len(kept) + i
      BY ONLY <1>2, <1>9, i \in 1..Len(next)
    <3>2. CASE i \in 1..Len(kept)
      <4>1. Len(all) - Len(kept) + i \in 1..Len(all)
        BY ONLY <1>2, <1>9, <3>2
      <4>2. next[i] = all[Len(all) - Len(kept) + i]
        BY ONLY <1>5, <1>7, <3>2
      <4> QED BY ONLY <1>8, <3>1, <4>1, <4>2
    <3>3. CASE i = Len(kept) + 1
      <4>1. Len(all) - Len(kept) + i = Len(all) + 1
        BY ONLY <1>2, <1>9, <3>3
      <4> QED BY ONLY <1>7, <1>8, <3>1, <3>3, <4>1
    <3>4. i \in 1..Len(kept) \/ i = Len(kept) + 1
      BY ONLY <1>9, i \in 1..Len(next)
    <3> QED BY ONLY <3>2, <3>3, <3>4
  <2> QED BY ONLY <2>1, <2>2 DEF IsRing
<1>11. Spaced(grown)
  <2>1. ASSUME NEW i \in 1..Len(all), all[i] = e
        PROVE  Len(all) + 1 - i > RecentInteractions
    <3> DEFINE k == i - (Len(all) - Len(ring))
    <3> HIDE DEF k
    <3>1. ASSUME Len(all) + 1 - i <= RecentInteractions
          PROVE  k \in 1..Len(ring) /\ Len(all) - Len(ring) + k = i
      BY ONLY <1>2, <3>1, i \in 1..Len(all) DEF k
    <3>2. DOMAIN ring = 1..Len(ring) /\ e \notin Range(ring)
      BY <1>1
    <3>3. ASSUME Len(all) + 1 - i <= RecentInteractions
          PROVE  FALSE
      <4>1. ring[k] = e /\ k \in DOMAIN ring
        BY ONLY <1>3, <2>1, <3>1, <3>2, <3>3
      <4> QED BY ONLY <3>2, <4>1 DEF Range
    <3> QED BY ONLY <1>2, <3>3, i \in 1..Len(all)
  <2>2. ASSUME NEW i \in 1..Len(grown), NEW j \in 1..Len(grown), i < j, grown[i] = grown[j]
        PROVE  j - i > RecentInteractions
    <3>1. i \in 1..Len(all) /\ (j \in 1..Len(all) \/ j = Len(all) + 1)
      BY ONLY <1>2, <1>9, <2>2, i \in 1..Len(grown), j \in 1..Len(grown)
    <3>2. CASE j \in 1..Len(all)
      <4>1. all[i] = all[j] /\ Spaced(all)
        BY <1>8, <2>2, <3>1, <3>2
      <4> QED BY ONLY <2>2, <3>1, <3>2, <4>1 DEF Spaced
    <3>3. CASE j = Len(all) + 1
      <4>1. all[i] = e
        BY ONLY <1>8, <2>2, <3>1, <3>3
      <4> QED BY ONLY <2>1, <3>1, <3>3, <4>1
    <3> QED BY ONLY <3>1, <3>2, <3>3
  <2> QED BY ONLY <2>2 DEF Spaced
<1>12. Len(next) <= RecentInteractions /\ e \in Range(next) /\ Range(next) \subseteq Range(ring) \cup {e}
  <2>1. Len(next) <= RecentInteractions
    BY ONLY <1>2, <1>9
  <2> QED BY ONLY <1>4, <1>7, <2>1
<1> QED BY ONLY <1>7, <1>10, <1>11, <1>12 DEF grown

\* An event that was claimed and not queued is the newest claim, so it is
\* still remembered when Discord delivers it again.
LEMMA ClaimStep ==
  ASSUME TypeOK, Resumption, Claims, HasSession, jumps \subseteq jumps',
         NEW e \in Event, jumps' = {} => e = <<session.id, session.sequence + 1>>,
         NEW kind \in Kinds,
         IF kind = "interaction" THEN claimInteraction(e) ELSE UNCHANGED <<recent, started>>
  PROVE  /\ recent' \in Seq(Event) /\ started' \in Seq(Event)
         /\ Len(recent') <= RecentInteractions
         /\ jumps' = {} => IsInjective(started')
         /\ IsRing(recent', started') /\ Spaced(started')
         /\ Range(started) \subseteq Range(started')
         /\ Range(started') \subseteq Range(started) \cup {e}
         /\ Range(recent') \subseteq Range(started')
         /\ kind = "interaction" => e \in Range(recent')
         /\ jumps' = {} /\ e \in Range(started') => e \in Range(recent')
<1>1. /\ recent \in Seq(Event) /\ started \in Seq(Event)
      /\ Len(recent) \in Nat /\ Len(recent) <= RecentInteractions
      /\ jumps' = {} => jumps = {} /\ IsInjective(started)
      /\ IsRing(recent, started) /\ Spaced(started)
      /\ Range(recent) \subseteq Range(started)
  <2>1. /\ recent \in Seq(Event) /\ started \in Seq(Event)
        /\ Len(recent) \in Nat /\ Len(recent) <= RecentInteractions
    BY DEF TypeOK
  <2>2. jumps' = {} => jumps = {}
    OBVIOUS
  <2>3. /\ jumps = {} => IsInjective(started)
        /\ IsRing(recent, started) /\ Range(recent) \subseteq Range(started)
    BY ONLY Claims DEF Claims, InteractionStartedOnce
  <2>4. Spaced(started)
    BY ONLY Claims DEF Claims, InteractionStartedOnce, Spaced
  <2> QED BY ONLY <2>1, <2>2, <2>3, <2>4
<1>2. jumps' = {} /\ e \in Range(started) => e \in Range(recent)
  <2>1. /\ session.sequence \in 0..MaxEvents
        /\ jumps' = {} => e[1] = session.id /\ e[2] = session.sequence + 1
    BY DEF TypeOK
  <2> QED BY <1>1, <2>1 DEF Claims
<1>3. CASE UNCHANGED <<recent, started>> /\ (kind = "interaction" => e \in Range(recent))
  BY <1>1, <1>2, <1>3 DEF IsRing, Spaced
<1>4. CASE /\ e \notin Range(recent)
           /\ recent' = Append(IF Len(recent) = RecentInteractions THEN Tail(recent) ELSE recent, e)
           /\ started' = Append(started, e)
  <2>1. /\ recent' \in Seq(Event) /\ Len(recent') <= RecentInteractions
        /\ e \in Range(recent') /\ Range(recent') \subseteq Range(recent) \cup {e}
        /\ IsRing(recent', started') /\ Spaced(started')
    BY <1>1, <1>4, RingStep
  <2>2. /\ started' \in Seq(Event) /\ Range(started') = Range(started) \cup {e}
        /\ Len(started') = Len(started) + 1 /\ started'[Len(started) + 1] = e
        /\ \A i \in 1..Len(started) : started'[i] = started[i]
    <3>1. started' = Append(started, e) /\ started \in Seq(Event)
      BY <1>1, <1>4
    <3> QED BY ONLY <3>1, e \in Event, AppendFacts
  <2>3. ASSUME jumps' = {} PROVE IsInjective(started')
    <3>1. DOMAIN started = 1..Len(started) /\ DOMAIN started' = 1..(Len(started) + 1)
          /\ Len(started) \in Nat
      BY <1>1, <2>2
    <3>2. \A i \in 1..Len(started) : started[i] # e
      BY <1>2, <1>4, <2>3, <3>1 DEF Range
    <3>3. \A i, j \in 1..Len(started) : started[i] = started[j] => i = j
      BY <1>1, <2>3, <3>1 DEF IsInjective
    <3>4. ASSUME NEW i \in 1..(Len(started) + 1), NEW j \in 1..(Len(started) + 1),
                 started'[i] = started'[j]
          PROVE  i = j
      <4>1. CASE i \in 1..Len(started) /\ j \in 1..Len(started)
        BY <2>2, <3>3, <3>4, <4>1
      <4>2. CASE i \in 1..Len(started) /\ j = Len(started) + 1
        BY <2>2, <3>2, <3>4, <4>2
      <4>3. CASE i = Len(started) + 1 /\ j \in 1..Len(started)
        BY <2>2, <3>2, <3>4, <4>3
      <4>4. CASE i = Len(started) + 1 /\ j = Len(started) + 1
        BY <4>4
      <4> QED BY <3>1, <4>1, <4>2, <4>3, <4>4
    <3> QED BY <3>1, <3>4 DEF IsInjective
  <2> QED BY <1>1, <2>1, <2>2, <2>3
<1> QED BY <1>3, <1>4 DEF claimInteraction

LEMMA ClaimsGrow ==
  ASSUME TypeOK, Resumption, Order, Claims, Grows, HasSession, jumps \subseteq jumps',
         NEW e \in Event, e[1] = session.id, Exists(e)',
         jumps' = {} => e = <<session.id, session.sequence + 1>>,
         NEW kind \in Kinds, events'[e[1]][e[2]] = kind,
         IF kind = "interaction" THEN claimInteraction(e) ELSE UNCHANGED <<recent, started>>,
         \/ /\ Accepted' = Append(Accepted, e)
            /\ session'.id = e[1] /\ session'.sequence = e[2]
         \/ UNCHANGED Accepted /\ session' = session
  PROVE  Claims'
<1>1. /\ jumps' = {} => jumps = {} /\ IsInjective(started')
      /\ IsRing(recent', started') /\ Spaced(started')
      /\ Range(started) \subseteq Range(started')
      /\ Range(started') \subseteq Range(started) \cup {e}
      /\ Range(recent') \subseteq Range(started')
      /\ kind = "interaction" => e \in Range(recent')
      /\ jumps' = {} /\ e \in Range(started') => e \in Range(recent')
  BY ClaimStep
<1>2. /\ session.sequence \in 0..MaxEvents
      /\ jumps' = {} => e[1] = session.id /\ e[2] = session.sequence + 1
  BY DEF TypeOK
<1>3. Range(Accepted') \subseteq Range(Accepted) \cup {e}
  <2>1. CASE Accepted' = Append(Accepted, e)
    <3>1. Range(Append(Accepted, e)) = Range(Accepted) \cup {e}
      BY AcceptedType, AppendFacts
    <3> QED BY <2>1, <3>1
  <2>2. CASE UNCHANGED Accepted
    BY <2>2
  <2> QED BY <2>1, <2>2
<1>4. InteractionStartedOnce'
  <2>1. \A x \in Range(Accepted) : events'[x[1]][x[2]] = "interaction" => x \in Range(started)
    BY KindsStay
  <2>2. \A x \in Range(Accepted') : events'[x[1]][x[2]] = "interaction" => x \in Range(started')
    BY <1>1, <1>3, <2>1
  <2> QED BY <1>1, <2>2 DEF InteractionStartedOnce, Spaced
<1>5. (\A x \in Range(started) : Exists(x))'
  <2>1. \A x \in Range(started') : Exists(x)'
    BY <1>1, KindsStay
  <2> QED BY <2>1
<1>6. \A x \in Range(started) : Exists(x) /\ x[2] \in Nat
  <2>1. \A s \in 1..Len(events) : Len(events[s]) \in Nat
    BY DEF Order, Emitted
  <2> QED BY <2>1 DEF Claims, Exists
<1>7. ASSUME jumps' = {}
      PROVE  \A x \in Range(started') : x[1] = session.id =>
               \/ x[2] <= session.sequence
               \/ x = e /\ e \in Range(recent')
  <2>1. ASSUME NEW x \in Range(started'), x # e, x[1] = session.id
        PROVE  x[2] <= session.sequence
    <3>1. x \in Range(started)
      BY <1>1, <2>1
    <3>2. x \in Event
      <4>1. started \in Seq(Event) /\ DOMAIN started = 1..Len(started)
        BY DEF TypeOK
      <4> QED BY <3>1, <4>1 DEF Range
    <3>3. x = <<x[1], x[2]>> /\ e = <<session.id, session.sequence + 1>>
      BY <1>7, <3>2 DEF Event
    <3>4. x[2] # session.sequence + 1
      BY <2>1, <3>3
    <3> QED BY <1>1, <1>7, <2>1, <3>1, <3>4 DEF Claims
  <2> QED BY <1>1, <1>7, <2>1
<1>8. ASSUME jumps' = {}
      PROVE  \A x \in Range(started') : x[1] = session'.id =>
               \/ x[2] <= session'.sequence
               \/ x[2] = session'.sequence + 1 /\ x \in Range(recent')
  <2>1. CASE session'.id = e[1] /\ session'.sequence = e[2]
    <3>1. \A x \in Range(started') : x[1] = session.id => x[2] <= session.sequence + 1
      BY <1>1, <1>2, <1>6, <1>7, <1>8
    <3> QED BY <1>2, <1>8, <2>1, <3>1
  <2>2. CASE session' = session
    BY <1>2, <1>7, <1>8, <2>2
  <2> QED BY <2>1, <2>2
<1> QED BY <1>1, <1>4, <1>5, <1>8 DEF Claims

LEMMA ClaimsReady ==
  ASSUME TypeOK, Resumption, Order, Claims,
         events' = Append(events, <<"ready">>), UNCHANGED <<recent, started, jumps>>,
         NEW e \in Event, e = <<Len(events) + 1, 1>>,
         Accepted' = Append(Accepted, e), session'.id = e[1]
  PROVE  Claims'
<1>1. Grows
  BY DEF Grows
<1>2. Range(Accepted') \subseteq Range(Accepted) \cup {e}
  BY AcceptedType, AppendFacts
<1>3. events'[e[1]][e[2]] = "ready"
  <2>1. events \in Seq(Seq(Kinds)) /\ <<"ready">> \in Seq(Kinds)
    BY DEF TypeOK, Kinds
  <2> QED BY <2>1, AppendFacts
<1>4. InteractionStartedOnce'
  BY <1>1, <1>2, <1>3, KindsStay DEF Claims, InteractionStartedOnce
<1>5. (\A x \in Range(started) : Exists(x))'
  <2>1. \A x \in Range(started) : Exists(x)'
    BY <1>1, KindsStay
  <2> QED BY <2>1
<1>6. \A x \in Range(started) : x[1] # session'.id
  <2>1. Len(events) \in Nat
    BY DEF TypeOK
  <2> QED BY <2>1 DEF Claims, Exists
<1> QED BY <1>4, <1>5, <1>6 DEF Claims, IsRing

-----------------------------------------------------------------------------
(* The steps.                                                              *)

LEMMA Initial == Init => IInv
<1> SUFFICES ASSUME Init PROVE IInv
  OBVIOUS
<1>1. /\ session = [id |-> 0, hasSeq |-> FALSE, sequence |-> 0]
      /\ conn = [state |-> "none", dead |-> FALSE, session |-> 0, next |-> 1]
      /\ started = <<>> /\ Accepted = <<>>
  BY DEF Init, newSession, NoSession, NoConn, Accepted
<1>2. Range(started) = {} /\ Range(Accepted) = {} /\ IsInjective(started)
  BY <1>1 DEF Range, IsInjective
<1>3. TypeOK
  <2>1. /\ session \in [id : {NoSession} \cup Sessions, hasSeq : BOOLEAN, sequence : 0..MaxEvents]
        /\ conn \in [state : {"none", "open", "broken"}, dead : BOOLEAN,
                     session : {NoSession} \cup Sessions, next : 1..(MaxEvents + 1)]
    BY <1>1 DEF NoSession
  <2>2. <<>> \in Seq(Event) /\ <<>> \in Seq(Seq(Kinds)) /\ Len(<<>>) = 0
    OBVIOUS
  <2>3. /\ {queue, recent, delivered, started} \subseteq Seq(Event)
        /\ Len(queue) <= QueueSize /\ Len(recent) <= RecentInteractions
    BY <2>2 DEF Init
  <2>4. events \in Seq(Seq(Kinds)) /\ Len(events) <= MaxSessions /\ refused \subseteq Sessions
    BY <2>2 DEF Init
  <2>5. remaining \in 0..Quota /\ granted \in 0..Quota /\ starts \in Nat
    BY DEF Init
  <2> QED BY <2>1, <2>3, <2>4, <2>5 DEF Init, TypeOK, Phases
<1>4. Limits
  BY DEF Init, Limits, Live, Identified
<1>5. Resumption
  BY <1>1 DEF Init, Resumption, HasSession, NoSession
<1>6. Order
  BY <1>1 DEF Init, Order, Emitted, AcceptedInOrder, SequenceIsAccepted, HasSession, NoSession
<1>7. Claims
  <2>1. recent = <<>> /\ Len(<<>>) = 0
    BY DEF Init
  <2>2. IsRing(recent, started)
    BY <1>1, <2>1 DEF IsRing
  <2>3. InteractionStartedOnce
    BY <1>1, <1>2, <2>1 DEF InteractionStartedOnce
  <2> QED BY <1>2, <2>1, <2>2, <2>3 DEF Claims, Range
<1> QED BY <1>3, <1>4, <1>5, <1>6, <1>7 DEF IInv

\* The steps of the loop and of the heartbeat that keep the session.
QuietRun ==
  \/ Start \/ Fetch \/ LoopTop \/ Refresh \/ CheckLimit \/ WaitEnds
  \/ DialOK \/ Hello \/ LoginOK

QuietConnection ==
  \/ CheckHeartbeat /\ phase' = "reading"
  \/ ReadHeartbeat /\ phase' = "check"
  \/ ReadHeartbeatACK \/ HeartbeatDue \/ HeartbeatReports
  \/ Cancel \/ ContextAborts \/ PeerVanishes \/ LimitWindowEnds

LEMMA QuietRunStep == ASSUME IInv, QuietRun PROVE IInv'
<1>1. TypeOK /\ Limits /\ Resumption /\ Order /\ Claims
  BY DEF IInv
<1>2. UNCHANGED <<session, client, events, refused>>
  BY DEF QuietRun, Start, Fetch, LoopTop, Refresh, CheckLimit, WaitEnds, DialOK, Hello, LoginOK
<1>3. TypeOK'
  <2>1. CASE Start
    BY <1>1, <2>1 DEF TypeOK, Start, Goto, run, beat, client, Phases
  <2>2. CASE Fetch
    <3>1. remaining' \in 0..Quota /\ granted' \in 0..Quota /\ starts' \in Nat
      <4>1. CASE \E n \in 0..Quota : LimitReceived(n)
        BY <4>1 DEF LimitReceived
      <4>2. CASE UNCHANGED <<remaining, granted, starts>>
        BY <1>1, <4>2 DEF TypeOK
      <4> QED BY <2>2, <4>1, <4>2 DEF Fetch
    <3>2. windowOver' \in BOOLEAN /\ phase' \in Phases
      BY <1>1, <2>2 DEF TypeOK, Fetch, Goto, Phases
    <3>3. UNCHANGED <<cancelled, resume, session, conn, beat, client, events, refused>>
      BY <2>2 DEF Fetch
    <3> QED BY <1>1, <3>1, <3>2, <3>3 DEF TypeOK, beat, client
  <2>3. CASE LoopTop
    BY <1>1, <2>3 DEF TypeOK, LoopTop, Goto, run, beat, client, Phases
  <2>4. CASE Refresh
    <3>1. remaining' \in 0..Quota /\ granted' \in 0..Quota /\ starts' \in Nat
      <4>1. CASE \E n \in 0..Quota : LimitReceived(n)
        BY <4>1 DEF LimitReceived
      <4>2. CASE UNCHANGED <<remaining, granted, starts>>
        BY <1>1, <4>2 DEF TypeOK
      <4> QED BY <2>4, <4>1, <4>2 DEF Refresh
    <3>2. windowOver' \in BOOLEAN /\ phase' \in Phases
      BY <1>1, <2>4 DEF TypeOK, Refresh, Goto, Phases
    <3>3. UNCHANGED <<cancelled, resume, session, conn, beat, client, events, refused>>
      BY <2>4 DEF Refresh
    <3> QED BY <1>1, <3>1, <3>2, <3>3 DEF TypeOK, beat, client
  <2>5. CASE CheckLimit
    BY <1>1, <2>5 DEF TypeOK, CheckLimit, Goto, run, beat, client, Phases
  <2>6. CASE WaitEnds
    BY <1>1, <2>6 DEF TypeOK, WaitEnds, Goto, run, beat, client, Phases
  <2>7. CASE DialOK
    <3>1. conn' = [state |-> "open", dead |-> FALSE, session |-> NoSession, next |-> 1]
      BY <2>7 DEF DialOK, NewConn, NoConn
    <3>2. phase' \in Phases /\ UNCHANGED <<cancelled, run, session, beat, client, events, refused>>
      BY <2>7 DEF DialOK, Goto, Phases
    <3>3. MaxEvents \in Nat \ {0}
      OBVIOUS
    <3> QED BY <1>1, <3>1, <3>2, <3>3 DEF TypeOK, run, beat, client
  <2>8. CASE Hello
    BY <1>1, <2>8 DEF TypeOK, Hello, Goto, run, beat, client, Phases
  <2>9. CASE LoginOK
    <3>1. /\ phase' \in Phases /\ starts' \in Nat
          /\ UNCHANGED <<cancelled, remaining, windowOver, resume, granted, session, beat,
                         client, events, refused>>
      BY <1>1, <2>9 DEF LoginOK, Goto, Phases, TypeOK
    <3>2. conn' \in [state : {"none", "open", "broken"}, dead : BOOLEAN,
                     session : {NoSession} \cup Sessions, next : 1..(MaxEvents + 1)]
      <4>1. session.id \in {NoSession} \cup Sessions /\ session.sequence + 1 \in 1..(MaxEvents + 1)
        BY <1>1 DEF TypeOK
      <4> QED BY <1>1, <2>9, <4>1 DEF LoginOK, TypeOK
    <3> QED BY <1>1, <3>1, <3>2 DEF TypeOK, beat, client
  <2> QED BY <2>1, <2>2, <2>3, <2>4, <2>5, <2>6, <2>7, <2>8, <2>9 DEF QuietRun
<1>4. Limits'
  <2>1. remaining \in 0..Quota /\ granted \in 0..Quota /\ starts \in Nat
    BY <1>1 DEF TypeOK
  <2>2. CASE Start \/ LoopTop \/ CheckLimit \/ WaitEnds \/ DialOK \/ Hello
    BY <1>1, <2>1, <2>2 DEF Limits, Identified, Live, Start, LoopTop, CheckLimit, WaitEnds,
       DialOK, Hello, Goto, run
  <2>3. CASE Fetch \/ Refresh
    BY <1>1, <2>1, <2>3 DEF Limits, Identified, Live, Fetch, Refresh, LimitReceived, Goto
  <2>4. CASE LoginOK
    BY <1>1, <2>1, <2>4 DEF Limits, Identified, Live, LoginOK, Goto
  <2> QED BY <2>2, <2>3, <2>4 DEF QuietRun
<1>5. Resumption'
  <2>1. CASE Start \/ LoopTop \/ CheckLimit \/ WaitEnds \/ Fetch \/ Refresh \/ Hello
    <3>1. UNCHANGED <<conn, resume>> /\ phase \notin {"check", "reading", "stopped"}
      BY <2>1 DEF Start, LoopTop, CheckLimit, WaitEnds, Fetch, Refresh, Hello, run
    <3> QED BY <1>1, <1>2, <3>1 DEF Resumption, HasSession
  <2>2. CASE DialOK
    <3>1. conn'.session = NoSession /\ UNCHANGED resume /\ phase = "dial" /\ phase' = "hello"
      BY <2>2 DEF DialOK, NewConn, NoConn, Goto, run
    <3> QED BY <1>1, <1>2, <3>1 DEF Resumption, HasSession
  <2>3. CASE LoginOK
    <3>1. UNCHANGED resume /\ phase = "login" /\ phase' = "check"
      BY <2>3 DEF LoginOK, Goto
    <3>2. CASE UNCHANGED conn
      BY <1>1, <1>2, <3>1, <3>2 DEF Resumption, HasSession
    <3>3. CASE /\ resume
               /\ conn' = [conn EXCEPT !.session = session.id, !.next = session.sequence + 1]
      <4>1. conn'.session = session.id /\ conn'.next = session.sequence + 1
        BY <1>1, <3>3 DEF TypeOK
      <4> QED BY <1>1, <1>2, <3>1, <3>3, <4>1 DEF Resumption, HasSession
    <3> QED BY <2>3, <3>2, <3>3 DEF LoginOK
  <2> QED BY <2>1, <2>2, <2>3 DEF QuietRun
<1>6. Order' /\ Claims'
  BY <1>1, <1>2, OrderKept, ClaimsKept DEF Grows, Order, Emitted, client, Accepted
<1> QED BY <1>3, <1>4, <1>5, <1>6 DEF IInv

LEMMA QuietConnectionStep == ASSUME IInv, QuietConnection PROVE IInv'
<1>1. TypeOK /\ Limits /\ Resumption /\ Order /\ Claims
  BY DEF IInv
<1>2. /\ UNCHANGED <<session, client, events, refused, resume, remaining, granted, starts>>
      /\ conn'.session = conn.session /\ conn'.next = conn.next
      /\ \/ UNCHANGED phase
         \/ phase \in {"check", "reading"} /\ phase' \in {"check", "reading"}
  <2>1. CASE CheckHeartbeat /\ phase' = "reading"
    BY <2>1 DEF CheckHeartbeat, Returns, Again, Goto, run, client, beat
  <2>2. CASE ReadHeartbeat /\ phase' = "check"
    BY <2>2 DEF ReadHeartbeat, Arrives, Returns, Again, Goto, run, client, beat
  <2>3. CASE ReadHeartbeatACK
    BY <2>3 DEF ReadHeartbeatACK, Arrives, Goto, run, client, beat
  <2>4. CASE HeartbeatDue \/ ContextAborts \/ PeerVanishes
    <3>1. UNCHANGED <<phase, session, client, events, refused, run>>
      BY <2>4 DEF HeartbeatDue, ContextAborts, PeerVanishes
    <3>2. \/ conn' = [conn EXCEPT !.state = "broken"]
          \/ conn' = [conn EXCEPT !.dead = TRUE] \/ UNCHANGED conn
      BY <2>4 DEF HeartbeatDue, ContextAborts, PeerVanishes
    <3>3. conn'.session = conn.session /\ conn'.next = conn.next
      BY <1>1, <3>2 DEF TypeOK
    <3> QED BY <3>1, <3>3 DEF run
  <2>5. CASE HeartbeatReports \/ Cancel \/ LimitWindowEnds
    BY <2>5 DEF HeartbeatReports, Cancel, LimitWindowEnds, run, client, beat
  <2> QED BY <2>1, <2>2, <2>3, <2>4, <2>5 DEF QuietConnection
<1>3. TypeOK'
  <2>1. CASE CheckHeartbeat /\ phase' = "reading"
    BY <1>1, <2>1 DEF TypeOK, CheckHeartbeat, Returns, Again, Goto, run, beat, client, Phases
  <2>2. CASE ReadHeartbeat /\ phase' = "check"
    BY <1>1, <2>2 DEF TypeOK, ReadHeartbeat, Returns, Again, Goto, run, beat, client, Phases
  <2>3. CASE ReadHeartbeatACK
    BY <1>1, <2>3 DEF TypeOK, ReadHeartbeatACK, Goto, run, beat, client, Phases
  <2>4. CASE HeartbeatDue
    BY <1>1, <2>4 DEF TypeOK, HeartbeatDue, run, beat, client
  <2>5. CASE HeartbeatReports
    BY <1>1, <2>5 DEF TypeOK, HeartbeatReports, run, beat, client
  <2>6. CASE Cancel
    BY <1>1, <2>6 DEF TypeOK, Cancel, run, beat, client
  <2>7. CASE ContextAborts
    BY <1>1, <2>7 DEF TypeOK, ContextAborts, run, beat, client
  <2>8. CASE PeerVanishes
    BY <1>1, <2>8 DEF TypeOK, PeerVanishes, run, beat, client
  <2>9. CASE LimitWindowEnds
    BY <1>1, <2>9 DEF TypeOK, LimitWindowEnds, run, beat, client
  <2> QED BY <2>1, <2>2, <2>3, <2>4, <2>5, <2>6, <2>7, <2>8, <2>9 DEF QuietConnection
<1>4. Limits'
  BY <1>1, <1>2 DEF Limits, Identified, Live
<1>5. Resumption'
  BY <1>1, <1>2 DEF Resumption, HasSession
<1>6. Order' /\ Claims'
  BY <1>1, <1>2, OrderKept, ClaimsKept DEF Grows, Order, Emitted, client, Accepted
<1> QED BY <1>3, <1>4, <1>5, <1>6 DEF IInv

\* The steps that end the session the reader is in, before or after Hello.
LEMMA EndStep ==
  ASSUME IInv, phase \in Live, NEW result \in Results, Returns(result, session),
         UNCHANGED <<client, events>>,
         \/ refused' = refused
         \/ /\ HasSession /\ ~result.resume /\ result.next # "stopped"
            /\ refused' = refused \cup {session.id}
  PROVE  IInv'
<1>1. TypeOK /\ Limits /\ Resumption /\ Order /\ Claims
  BY DEF IInv
<1>2. Limits' /\ remaining' \in 0..Quota /\ phase' \in {"stopped", "waiting", "loop"}
  BY <1>1, ReturnsLimits
<1>3. /\ Resumption' /\ session' \in SessionType /\ resume' \in BOOLEAN
      /\ session' = session \/ ~HasSession'
  <2>1. Len(events') >= Len(events) /\ Len(events') \in Nat
    BY <1>1 DEF TypeOK
  <2> QED BY <1>1, <2>1, ReturnsResumption
<1>4. TypeOK'
  <2>1. refused' \subseteq Sessions
    BY <1>1 DEF TypeOK, HasSession, NoSession, Sessions
  <2>2. /\ UNCHANGED <<cancelled, windowOver, granted, starts, queue, recent, delivered,
                       started, jumps, events>>
        /\ conn' = NoConn /\ acked' = TRUE /\ heartbeat' = "off" /\ heartbeatErr' = FALSE
    BY DEF Returns, client
  <2>3. conn' \in [state : {"none", "open", "broken"}, dead : BOOLEAN,
                   session : {NoSession} \cup Sessions, next : 1..(MaxEvents + 1)]
    BY <2>2 DEF NoConn
  <2>4. phase' \in Phases
    BY <1>2 DEF Phases
  <2> QED BY <1>1, <1>2, <1>3, <2>1, <2>2, <2>3, <2>4 DEF TypeOK, SessionType
<1>5. Order' /\ Claims'
  BY <1>1, <1>3, OrderKept, ClaimsKept DEF Grows, Order, Emitted, client, Accepted
<1> QED BY <1>2, <1>3, <1>4, <1>5 DEF IInv

Ending ==
  \/ DialFails \/ HelloReconnect \/ HelloInvalid \/ LoginFails
  \/ CheckHeartbeat /\ phase' # "reading"
  \/ ReadHeartbeat /\ phase' # "check"
  \/ ReadReconnect \/ ReadInvalidSession \/ ReadClose \/ ReadBroken \/ ReadAborted

LEMMA EndingStep == ASSUME IInv, Ending PROVE IInv'
<1>1. resume \in BOOLEAN /\ HasSession \in BOOLEAN /\ Resumable \in BOOLEAN /\ cancelled \in BOOLEAN
  BY DEF IInv, TypeOK, HasSession, Resumable
<1>2. /\ Fatal \in Results /\ \A b \in BOOLEAN : Again(b) \in Results /\ AgainNow(b) \in Results
      /\ \A b \in BOOLEAN : Again(b).next = "waiting" /\ Again(b).resume = b
  BY DEF Results, Fatal, Again, AgainNow
<1>3. CASE DialFails
  BY <1>1, <1>2, <1>3, EndStep DEF DialFails, Live
<1>4. CASE HelloReconnect \/ HelloInvalid \/ LoginFails \/ ReadReconnect
  BY <1>1, <1>2, <1>4, EndStep
     DEF HelloReconnect, HelloInvalid, LoginFails, ReadReconnect, Arrives, Live
<1>5. CASE CheckHeartbeat /\ phase' # "reading"
  BY <1>1, <1>2, <1>5, EndStep DEF CheckHeartbeat, Goto, Live
<1>6. CASE ReadHeartbeat /\ phase' # "check"
  BY <1>1, <1>2, <1>6, EndStep DEF ReadHeartbeat, Arrives, Goto, Live
<1>7. CASE ReadInvalidSession
  <2>1. phase \in Live /\ UNCHANGED <<client, events>>
    BY <1>7 DEF ReadInvalidSession, Arrives, Live
  <2>2. PICK canResume \in BOOLEAN :
          /\ IF canResume THEN UNCHANGED refused ELSE Refuse
          /\ Returns(Again(canResume), session)
    BY <1>7 DEF ReadInvalidSession
  <2> QED BY <1>2, <2>1, <2>2, EndStep DEF Refuse
<1>8. ASSUME NEW code, ReadError(code)
      PROVE  IInv'
  <2>1. phase \in Live /\ UNCHANGED <<client, events>>
    BY <1>8 DEF ReadError, Live
  <2>2. CASE heartbeatErr
    BY <1>1, <1>2, <1>8, <2>1, <2>2, EndStep DEF ReadError
  <2>3. CASE ~heartbeatErr
    <3>1. /\ Returns(gatewayReadResult(code), session)
          /\ IF code = "noresume" /\ ~cancelled THEN Refuse ELSE UNCHANGED refused
      BY <1>8, <2>3 DEF ReadError
    <3>2. gatewayReadResult(code) \in Results
      BY <1>1, <1>2 DEF gatewayReadResult
    <3>3. CASE code = "noresume" /\ ~cancelled
      <4>1. gatewayReadResult(code) = Again(FALSE)
        BY <3>3 DEF gatewayReadResult
      <4> QED BY <1>2, <2>1, <3>1, <3>2, <3>3, <4>1, EndStep DEF Refuse
    <3>4. CASE ~(code = "noresume" /\ ~cancelled)
      BY <2>1, <3>1, <3>2, <3>4, EndStep
    <3> QED BY <3>3, <3>4
  <2> QED BY <1>1, <2>2, <2>3
<1>9. CASE ReadClose \/ ReadBroken \/ ReadAborted
  BY <1>8, <1>9 DEF ReadClose, ReadBroken, ReadAborted
<1> QED BY <1>3, <1>4, <1>5, <1>6, <1>7, <1>9 DEF Ending

LEMMA DispatchStep == ASSUME IInv, Dispatch PROVE IInv'
<1>1. TypeOK /\ Limits /\ Resumption /\ Order /\ Claims
  BY DEF IInv
<1>2. /\ queue # <<>> /\ queue' = Tail(queue) /\ delivered' = Append(delivered, Head(queue))
      /\ UNCHANGED <<phase, cancelled, run, session, conn, beat, recent, started, jumps,
                  events, refused>>
  BY DEF Dispatch
<1>3. queue \in Seq(Event) /\ delivered \in Seq(Event) /\ Len(queue) <= QueueSize /\ Len(queue) \in Nat
  BY <1>1 DEF TypeOK
<1>4. queue' \in Seq(Event) /\ delivered' \in Seq(Event) /\ Len(queue') <= QueueSize
  <2>1. Tail(queue) \in Seq(Event) /\ Len(Tail(queue)) = Len(queue) - 1 /\ Head(queue) \in Event
    BY <1>2, <1>3, TailFacts
  <2> QED BY <1>2, <1>3, <2>1
<1>5. UNCHANGED Accepted
  BY <1>2, <1>3, DispatchKeeps DEF Accepted
<1>6. TypeOK'
  BY <1>1, <1>2, <1>4 DEF TypeOK, run, beat
<1>7. Limits' /\ Resumption'
  BY <1>1, <1>2 DEF Limits, Identified, Resumption, HasSession, run
<1>8. Order' /\ Claims'
  BY <1>1, <1>2, <1>5, OrderKept, ClaimsKept DEF Grows, Order, Emitted
<1> QED BY <1>6, <1>7, <1>8 DEF IInv

\* What both branches of Enqueue share: e is the next event of the session s
\* speaks of, which is the connection's session from now on.
LEMMA QueuedStep ==
  ASSUME IInv, NEW e \in Event, NEW s \in SessionType, phase = "reading",
         Len(queue) < QueueSize, queue' = Append(queue, e), session' = Numbered(s, e),
         conn' = [conn EXCEPT !.session = e[1], !.next = e[2] + 1],
         s.id = e[1], s.id # NoSession, s.id <= Len(events'), s.id \notin refused,
         Len(events') >= Len(events), Len(events') \in Nat,
         Goto("check"), UNCHANGED <<cancelled, run, beat, delivered, refused>>,
         events' \in Seq(Seq(Kinds)), Len(events') <= MaxSessions,
         recent' \in Seq(Event), started' \in Seq(Event), Len(recent') <= RecentInteractions,
         jumps' \subseteq [session : Sessions, expected : 1..(MaxEvents + 1), sent : 1..MaxEvents]
  PROVE  /\ TypeOK' /\ Limits' /\ Resumption'
         /\ Accepted' = Append(Accepted, e)
         /\ session'.id = e[1] /\ session'.sequence = e[2]
<1>1. TypeOK /\ Limits /\ Resumption
  BY DEF IInv
<1>2. e[1] \in Sessions /\ e[2] \in 1..MaxEvents
  BY DEF Event
<1>3. /\ session' \in SessionType /\ session'.id = e[1] /\ session'.hasSeq = TRUE
      /\ session'.sequence = e[2]
  <2>1. e[2] \in 0..MaxEvents /\ session' = [s EXCEPT !.hasSeq = TRUE, !.sequence = e[2]]
    BY <1>2 DEF Numbered
  <2>2. session' \in SessionType
    BY <2>1 DEF SessionType
  <2> QED BY <2>1, <2>2 DEF SessionType
<1>4. conn' \in [state : {"none", "open", "broken"}, dead : BOOLEAN,
                 session : {NoSession} \cup Sessions, next : 1..(MaxEvents + 1)]
      /\ conn'.session = e[1] /\ conn'.next = e[2] + 1
  <2>1. e[2] + 1 \in 1..(MaxEvents + 1)
    BY <1>2
  <2>2. conn \in [state : {"none", "open", "broken"}, dead : BOOLEAN,
                  session : {NoSession} \cup Sessions, next : 1..(MaxEvents + 1)]
    BY <1>1 DEF TypeOK
  <2> QED BY <1>2, <2>1, <2>2
<1>5. queue' \in Seq(Event) /\ Len(queue') <= QueueSize /\ Accepted' = Append(Accepted, e)
  <2>1. queue \in Seq(Event) /\ delivered \in Seq(Event) /\ Len(queue) \in Nat
    BY <1>1 DEF TypeOK
  <2>2. Append(queue, e) \in Seq(Event) /\ Len(Append(queue, e)) = Len(queue) + 1
    BY <2>1
  <2>3. delivered \o Append(queue, e) = Append(delivered \o queue, e)
    BY ONLY <2>1, e \in Event, EnqueueAppends
  <2> QED BY <2>1, <2>2, <2>3 DEF Accepted
<1>6. TypeOK'
  BY <1>1, <1>3, <1>4, <1>5 DEF TypeOK, SessionType, run, beat, Goto, Phases
<1>7. Limits'
  BY <1>1 DEF Limits, Identified, Live, run, Goto
<1>8. Resumption'
  <2>1. refused' \subseteq 1..Len(events')
    <3>1. refused \subseteq 1..Len(events) /\ Len(events) \in Nat
      BY ONLY <1>1 DEF Resumption, TypeOK
    <3> QED BY <3>1
  <2> QED BY <1>1, <1>3, <1>4, <2>1 DEF Resumption, HasSession, run, Goto
<1> QED BY <1>3, <1>5, <1>6, <1>7, <1>8

LEMMA Single == ASSUME NEW x PROVE Len(<<x>>) = 1 /\ <<x>>[1] = x
OBVIOUS

LEMMA ReadReadyStep == ASSUME IInv, ReadReady PROVE IInv'
<1> DEFINE s == [session EXCEPT !.id = Len(events) + 1]
<1>1. TypeOK /\ Limits /\ Resumption /\ Order /\ Claims
  BY DEF IInv
<1>2. PICK e : e = <<Len(events) + 1, 1>>
  OBVIOUS
<1>3. /\ phase = "reading" /\ ~resume /\ conn.session = NoSession /\ Len(events) < MaxSessions
      /\ events' = Append(events, <<"ready">>)
      /\ Enqueue(e, "ready", s) \/ (Returns(Fatal, session) /\ UNCHANGED queue)
      /\ UNCHANGED <<recent, started, delivered, jumps, refused>>
  BY <1>2 DEF ReadReady, Arrives
<1>4. /\ events \in Seq(Seq(Kinds)) /\ Len(events) \in Nat /\ session \in SessionType
  BY <1>1 DEF TypeOK, SessionType
<1>5. e[1] = Len(events) + 1 /\ e[2] = 1 /\ e \in Event
  BY <1>2, <1>3, <1>4 DEF Event, Sessions
<1>6. /\ events' \in Seq(Seq(Kinds)) /\ Len(events') = Len(events) + 1
      /\ events'[Len(events) + 1] = <<"ready">>
      /\ \A i \in 1..Len(events) : events'[i] = events[i]
  <2>1. <<"ready">> \in Seq(Kinds)
    BY DEF Kinds
  <2> QED BY <1>3, <1>4, <2>1, AppendFacts
<1>7. Emitted'
  <2>1. \A i \in 1..Len(events') : Len(events'[i]) \in 1..MaxEvents
    <3>1. ASSUME NEW i \in 1..Len(events')
          PROVE  Len(events'[i]) \in 1..MaxEvents
      <4>1. CASE i \in 1..Len(events)
        <5>1. events'[i] = events[i]
          BY <1>6, <4>1
        <5>2. Len(events[i]) \in 1..MaxEvents
          BY <1>1, <4>1 DEF Order, Emitted
        <5> QED BY <5>1, <5>2
      <4>2. CASE i = Len(events) + 1
        <5>1. events'[i] = <<"ready">>
          BY <1>6, <4>2
        <5> QED BY <5>1, Single
      <4> QED BY <1>4, <1>6, <4>1, <4>2
    <3> QED BY <3>1
  <2> QED BY <2>1 DEF Emitted
<1>8. Exists(e)'
  BY <1>4, <1>5, <1>6, Single DEF Exists
<1>9. Grows /\ Len(events') <= MaxSessions /\ Len(events') >= Len(events) /\ Len(events') \in Nat
  BY <1>3, <1>4, <1>6 DEF Grows
<1>10. ~HasSession /\ session.hasSeq = FALSE /\ session.id = NoSession
  BY <1>1, <1>3, <1>4 DEF Resumption, SessionType, HasSession
<1>11. /\ s \in SessionType /\ s.id = Len(events) + 1 /\ s.hasSeq = FALSE
       /\ s.sequence = session.sequence
  BY <1>3, <1>4, <1>5, <1>10 DEF SessionType, Event
<1>12. CASE /\ Len(queue) < QueueSize /\ queue' = Append(queue, e) /\ session' = Numbered(s, e)
            /\ conn' = [conn EXCEPT !.session = e[1], !.next = e[2] + 1]
            /\ Goto("check") /\ UNCHANGED <<cancelled, run, beat>>
  <2>1. s.id # NoSession /\ s.id \notin refused /\ s.id <= Len(events')
    BY <1>1, <1>4, <1>6, <1>11 DEF Resumption, NoSession
  <2>2. /\ recent' \in Seq(Event) /\ started' \in Seq(Event) /\ Len(recent') <= RecentInteractions
        /\ jumps' \subseteq [session : Sessions, expected : 1..(MaxEvents + 1), sent : 1..MaxEvents]
    BY <1>1, <1>3 DEF TypeOK
  <2>3. /\ TypeOK' /\ Limits' /\ Resumption' /\ Accepted' = Append(Accepted, e)
        /\ session'.id = e[1] /\ session'.sequence = e[2]
    <3> HIDE DEF s
    <3> QED BY <1>3, <1>5, <1>6, <1>9, <1>11, <1>12, <2>1, <2>2, QueuedStep
  <2>4. Order'
    BY <1>1, <1>2, <1>3, <1>5, <1>7, <1>8, <1>9, <2>3, OrderGrows
  <2>5. Claims'
    BY <1>1, <1>2, <1>3, <1>5, <2>3, ClaimsReady
  <2> QED BY <2>3, <2>4, <2>5 DEF IInv
<1>13. ASSUME NEW result \in Results, NEW t \in SessionType, Returns(result, t),
              t.hasSeq = FALSE, t.sequence = session.sequence,
              result.next = "stopped" => t = session, UNCHANGED queue
       PROVE  IInv'
  <2>1. Limits' /\ remaining' \in 0..Quota /\ phase' \in {"stopped", "waiting", "loop"}
    BY <1>1, <1>3, <1>13, ReturnsLimits DEF Live
  <2>2. session' = session /\ resume' = FALSE /\ conn' = NoConn
    <3>1. CASE result.next = "stopped"
      BY <1>1, <1>3, <1>13, <3>1 DEF Returns, TypeOK
    <3>2. CASE result.next # "stopped"
      <4>1. resume' = FALSE /\ session' = [t EXCEPT !.id = NoSession, !.hasSeq = FALSE] /\ conn' = NoConn
        BY <1>13, <3>2 DEF Returns, Settled
      <4>2. session = [id |-> NoSession, hasSeq |-> FALSE, sequence |-> session.sequence]
        BY <1>4, <1>10 DEF SessionType
      <4>3. session' = [id |-> NoSession, hasSeq |-> FALSE, sequence |-> session.sequence]
        BY <1>13, <4>1 DEF SessionType
      <4> QED BY <4>1, <4>2, <4>3
    <3> QED BY <3>1, <3>2
  <2>3. Resumption'
    <3>1. refused' \subseteq 1..Len(events') /\ session'.id <= Len(events')
      BY <1>1, <1>3, <1>4, <1>9, <1>10, <2>2 DEF Resumption, NoSession
    <3>2. conn'.session = NoSession /\ ~HasSession' /\ ~session'.hasSeq
      BY <1>10, <2>2 DEF NoConn, HasSession
    <3> QED BY <2>2, <3>1, <3>2 DEF Resumption, HasSession
  <2>4. TypeOK'
    <3>1. /\ UNCHANGED <<cancelled, windowOver, granted, starts, client, refused>>
          /\ conn' = NoConn /\ acked' = TRUE /\ heartbeat' = "off" /\ heartbeatErr' = FALSE
      BY <1>3, <1>13 DEF Returns, client
    <3>2. conn' \in [state : {"none", "open", "broken"}, dead : BOOLEAN,
                     session : {NoSession} \cup Sessions, next : 1..(MaxEvents + 1)]
      BY <3>1 DEF NoConn
    <3>3. phase' \in Phases
      BY <2>1 DEF Phases
    <3> QED BY <1>1, <1>6, <1>9, <2>1, <2>2, <3>1, <3>2, <3>3 DEF TypeOK, client
  <2>5. Order' /\ Claims'
    <3>1. UNCHANGED Accepted
      BY <1>3, <1>13 DEF Accepted
    <3> QED BY <1>1, <1>3, <1>7, <1>9, <2>2, <3>1, OrderKept, ClaimsKept
  <2> QED BY <2>1, <2>3, <2>4, <2>5 DEF IInv
<1>14. CASE Overflow(e, "ready", s) /\ UNCHANGED queue
  <2>1. Again(TRUE) \in Results /\ Again(TRUE).next = "waiting" /\ Returns(Again(TRUE), s)
    BY <1>14 DEF Again, Results, Overflow
  <2> HIDE DEF s
  <2> QED BY <1>11, <1>14, <2>1, <1>13
<1>15. CASE Returns(Fatal, session) /\ UNCHANGED queue
  <2>1. Fatal \in Results
    BY DEF Fatal, Results
  <2> QED BY <1>4, <1>10, <1>15, <2>1, <1>13
<1> QED BY <1>3, <1>12, <1>14, <1>15 DEF Enqueue

LEMMA ReadDispatchStep == ASSUME IInv, ReadDispatch PROVE IInv'
<1>1. TypeOK /\ Limits /\ Resumption /\ Order /\ Claims
  BY DEF IInv
<1>2. /\ HasSession /\ conn.session = session.id /\ conn.next = session.sequence + 1
      /\ session.hasSeq /\ phase = "reading"
  <2>1. conn.session # NoSession /\ phase = "reading"
    BY DEF ReadDispatch, Arrives
  <2>2. conn.session = session.id /\ conn.next = session.sequence + 1
    BY <1>1, <2>1 DEF Resumption
  <2>3. HasSession /\ session.hasSeq
    BY <1>1, <2>1, <2>2 DEF Resumption, HasSession
  <2> QED BY <2>1, <2>2, <2>3
<1>3. /\ session \in SessionType /\ session.id \in Sessions /\ session.id \in 1..Len(events)
      /\ session.sequence \in 0..MaxEvents /\ events \in Seq(Seq(Kinds))
      /\ Len(events) \in Nat /\ Len(events) <= MaxSessions
  BY <1>1, <1>2 DEF TypeOK, SessionType, Resumption, HasSession, NoSession, Sessions
<1>4. PICK n \in 2..MaxEvents :
        \E new \in [1..(n - Len(events[session.id])) -> Kinds \ {"ready"}] :
          /\ (n = conn.next /\ UNCHANGED jumps) \/ Jump(n)
          /\ events' = [events EXCEPT ![session.id] = @ \o new]
          /\ IF (events[session.id] \o new)[n] = "interaction"
               THEN claimInteraction(<<session.id, n>>) ELSE UNCHANGED <<recent, started>>
          /\ Enqueue(<<session.id, n>>, (events[session.id] \o new)[n], session)
  BY <1>2 DEF ReadDispatch
<1>5. PICK e : e = <<session.id, n>>
  OBVIOUS
<1>20. PICK new \in [1..(n - Len(events[e[1]])) -> Kinds \ {"ready"}] :
        /\ (n = conn.next /\ UNCHANGED jumps) \/ Jump(n)
        /\ events' = [events EXCEPT ![e[1]] = @ \o new]
        /\ IF (events[e[1]] \o new)[n] = "interaction"
             THEN claimInteraction(e) ELSE UNCHANGED <<recent, started>>
        /\ Enqueue(e, (events[e[1]] \o new)[n], session)
  BY <1>4, <1>5
<1>21. PICK kind : kind = (events[e[1]] \o new)[n]
  OBVIOUS
<1>16. /\ (n = conn.next /\ UNCHANGED jumps) \/ Jump(n)
       /\ events' = [events EXCEPT ![e[1]] = @ \o new]
       /\ IF kind = "interaction" THEN claimInteraction(e) ELSE UNCHANGED <<recent, started>>
       /\ Enqueue(e, kind, session)
  BY <1>20, <1>21
<1>6. e[1] = session.id /\ e[2] = n /\ n \in 1..MaxEvents /\ conn.next = session.sequence + 1
  BY <1>2, <1>5
<1>7. events[e[1]] \in Seq(Kinds) /\ Len(events[e[1]]) \in 1..MaxEvents
  BY <1>1, <1>3, <1>6 DEF Order, Emitted
<1>17. /\ new \in Seq(Kinds) /\ events[e[1]] \o new \in Seq(Kinds)
       /\ Len(events[e[1]] \o new) = IF n > Len(events[e[1]]) THEN n ELSE Len(events[e[1]])
  <2>1. new \in [1..(n - Len(events[e[1]])) -> Kinds]
    BY <1>20
  <2>2. n \in Nat
    BY <1>6
  <2> QED BY <1>7, <2>1, <2>2, Continuation
<1>8. Grows
  BY <1>3, <1>6, <1>16, <1>17 DEF Grows
<1>9. /\ e[2] \in 1..MaxEvents /\ e[2] \in 1..Len(events'[e[1]]) /\ kind \in Kinds
      /\ events'[e[1]][e[2]] = kind /\ Len(events') = Len(events)
      /\ \A i \in 1..Len(events) : Len(events'[i]) \in 1..MaxEvents
  <2>1. events'[e[1]] = events[e[1]] \o new /\ Len(events') = Len(events)
        /\ \A i \in 1..Len(events) : i # e[1] => events'[i] = events[i]
    <3>1. e[1] \in 1..Len(events) /\ events \in Seq(Seq(Kinds))
      BY <1>3, <1>6
    <3>2. events' = [events EXCEPT ![e[1]] = events[e[1]] \o new]
      BY <1>16
    <3>3. events[e[1]] \o new \in Seq(Kinds)
      BY <1>17
    <3> QED BY ONLY <3>1, <3>2, <3>3
  <2>2. n \in 1..Len(events[e[1]] \o new) /\ Len(events[e[1]] \o new) \in 1..MaxEvents
    BY <1>6, <1>7, <1>17
  <2>3. kind \in Kinds
    BY <1>21, <1>16, <1>17, <2>2
  <2> QED BY <1>1, <1>6, <1>16, <1>21, <2>1, <2>2, <2>3 DEF Order, Emitted
<1>10. e \in Event /\ Exists(e)' /\ Emitted'
  <2>1. e \in Event
    BY <1>3, <1>5, <1>6 DEF Event
  <2>2. Exists(e)'
    BY <1>3, <1>6, <1>9 DEF Exists
  <2>3. Emitted'
    BY <1>9 DEF Emitted
  <2> QED BY <2>1, <2>2, <2>3
<1>11. events' \in Seq(Seq(Kinds)) /\ Len(events') >= Len(events) /\ Len(events') \in Nat
  BY <1>1, <1>3, <1>8, <1>9, Growth
<1>18. /\ jumps \subseteq jumps'
       /\ \/ e[2] = session.sequence + 1
          \/ JumpOf(session.id, session.sequence + 1, e[2]) \in jumps'
       /\ jumps' = {} => e = <<session.id, session.sequence + 1>>
       /\ jumps' \subseteq [session : Sessions, expected : 1..(MaxEvents + 1), sent : 1..MaxEvents]
  <2>1. CASE n = conn.next /\ UNCHANGED jumps
    BY <1>1, <1>5, <1>6, <2>1 DEF TypeOK
  <2>2. CASE Jump(n)
    <3>1. jumps' = jumps \cup {JumpOf(session.id, session.sequence + 1, n)}
      BY <1>2, <2>2 DEF Jump
    <3>2. session.sequence + 1 \in 1..(MaxEvents + 1)
      BY <1>3
    <3>3. jumps \subseteq [session : Sessions, expected : 1..(MaxEvents + 1), sent : 1..MaxEvents]
      BY ONLY <1>1 DEF TypeOK
    <3>4. JumpOf(session.id, session.sequence + 1, n)
            \in [session : Sessions, expected : 1..(MaxEvents + 1), sent : 1..MaxEvents]
      BY ONLY <1>3, <1>6, <3>2 DEF JumpOf
    <3> QED BY ONLY <1>6, <3>1, <3>3, <3>4
  <2> QED BY <1>16, <2>1, <2>2
<1>12. /\ recent' \in Seq(Event) /\ started' \in Seq(Event) /\ Len(recent') <= RecentInteractions
  BY <1>1, <1>2, <1>9, <1>10, <1>16, <1>18, ClaimStep
<1>13. UNCHANGED <<delivered, refused>>
  BY DEF ReadDispatch
<1>14. CASE /\ Len(queue) < QueueSize /\ queue' = Append(queue, e) /\ session' = Numbered(session, e)
            /\ conn' = [conn EXCEPT !.session = e[1], !.next = e[2] + 1]
            /\ Goto("check") /\ UNCHANGED <<cancelled, run, beat>>
  <2>1. /\ session.id # NoSession /\ session.id \notin refused /\ session.id <= Len(events')
        /\ Len(events') <= MaxSessions
    BY <1>1, <1>2, <1>3, <1>9 DEF Resumption, HasSession
  <2>2. /\ TypeOK' /\ Limits' /\ Resumption' /\ Accepted' = Append(Accepted, e)
        /\ session'.id = e[1] /\ session'.sequence = e[2]
    BY <1>2, <1>3, <1>6, <1>10, <1>11, <1>12, <1>13, <1>14, <1>18, <2>1, QueuedStep
  <2>3. Order'
    BY <1>1, <1>2, <1>6, <1>8, <1>10, <1>18, <2>2, OrderGrows
  <2>4. Claims'
    BY <1>1, <1>2, <1>6, <1>8, <1>9, <1>10, <1>16, <1>18, <2>2, ClaimsGrow
  <2> QED BY <2>2, <2>3, <2>4 DEF IInv
<1>15. CASE Overflow(e, kind, session) /\ UNCHANGED queue
  <2>1. PICK result \in Results : /\ Returns(result, session) /\ result.resume
                                  /\ result.next # "stopped"
    <3>1. CASE kind = "interaction"
      <4>1. AgainNow(TRUE) \in Results /\ AgainNow(TRUE).resume /\ AgainNow(TRUE).next # "stopped"
        BY DEF AgainNow, Results
      <4>2. Returns(AgainNow(TRUE), session)
        BY <1>15, <3>1 DEF Overflow
      <4> QED BY <4>1, <4>2
    <3>2. CASE kind # "interaction"
      <4>1. Again(TRUE) \in Results /\ Again(TRUE).resume /\ Again(TRUE).next # "stopped"
        BY DEF Again, Results
      <4>2. Returns(Again(TRUE), session)
        BY <1>15, <3>2 DEF Overflow
      <4> QED BY <4>1, <4>2
    <3> QED BY <3>1, <3>2
  <2>2. Limits' /\ remaining' \in 0..Quota /\ phase' \in {"stopped", "waiting", "loop"}
    BY <1>1, <1>2, <2>1, ReturnsLimits DEF Live
  <2>3. Resumption' /\ session' = session /\ resume' \in BOOLEAN
    BY <1>1, <1>2, <1>11, <1>13, <2>1, ReturnsResumption DEF Live
  <2>4. TypeOK'
    <3>1. /\ UNCHANGED <<cancelled, windowOver, granted, starts, queue, delivered, refused>>
          /\ conn' = NoConn /\ acked' = TRUE /\ heartbeat' = "off" /\ heartbeatErr' = FALSE
      BY <1>13, <1>15, <2>1 DEF Returns
    <3>2. conn' \in [state : {"none", "open", "broken"}, dead : BOOLEAN,
                     session : {NoSession} \cup Sessions, next : 1..(MaxEvents + 1)]
      BY <3>1 DEF NoConn
    <3>3. phase' \in Phases /\ Len(events') <= MaxSessions
      BY <1>3, <1>9, <2>2 DEF Phases
    <3> QED BY <1>1, <1>11, <1>12, <1>18, <2>2, <2>3, <3>1, <3>2, <3>3 DEF TypeOK
  <2>5. UNCHANGED Accepted
    BY <1>13, <1>15 DEF Accepted
  <2>6. Order'
    BY <1>1, <1>8, <1>10, <1>18, <2>3, <2>5, OrderKept
  <2>7. Claims'
    BY <1>1, <1>2, <1>6, <1>8, <1>9, <1>10, <1>16, <1>18, <2>3, <2>5, ClaimsGrow
  <2> QED BY <2>2, <2>3, <2>4, <2>6, <2>7 DEF IInv
<1> QED BY <1>16, <1>14, <1>15 DEF Enqueue

-----------------------------------------------------------------------------
(* The theorems.                                                           *)

LEMMA Stutter == ASSUME IInv, UNCHANGED vars PROVE IInv'
<1>1. UNCHANGED <<phase, cancelled, remaining, windowOver, resume, session, conn, acked,
                  heartbeat, heartbeatErr, queue, recent, delivered, started, jumps, events,
                  refused, granted, starts>>
  BY DEF vars, run, beat, client
<1>2. TypeOK'
  BY <1>1 DEF IInv, TypeOK
<1>3. Limits' /\ Resumption'
  BY <1>1 DEF IInv, Limits, Resumption, Identified, HasSession
<1>4. Order' /\ Claims'
  <2>1. Grows /\ UNCHANGED Accepted
    BY <1>1 DEF Grows, Accepted
  <2>2. Emitted'
    BY <1>1 DEF IInv, Order, Emitted
  <2> QED BY <1>1, <2>1, <2>2, OrderKept, ClaimsKept DEF IInv
<1> QED BY <1>2, <1>3, <1>4 DEF IInv

LEMMA Inductive == ASSUME IInv, [Next]_vars PROVE IInv'
<1>1. CASE QuietRun
  BY <1>1, QuietRunStep
<1>2. CASE QuietConnection
  BY <1>2, QuietConnectionStep
<1>3. CASE Ending
  BY <1>3, EndingStep
<1>4. CASE ReadReady \/ ReadDispatch
  BY <1>4, ReadReadyStep, ReadDispatchStep
<1>5. CASE Dispatch
  BY <1>5, DispatchStep
<1>6. CASE UNCHANGED vars
  BY <1>6, Stutter
<1>7. CASE Next
  <2>1. QuietRun \/ QuietConnection \/ Ending \/ ReadReady \/ ReadDispatch \/ Dispatch
    BY ONLY <1>7 DEF Next, QuietRun, QuietConnection, Ending
  <2> QED BY <2>1, <1>1, <1>2, <1>3, <1>4, <1>5
<1> QED BY <1>6, <1>7

\* The accounting of the start limit, the agreement of session and connection,
\* the order of accepted events and the memory of claims hold together, in
\* every reachable state.
THEOREM Invariance == Spec => []IInv
<1>1. IInv /\ [Next]_vars => IInv'
  BY Inductive
<1> QED BY Initial, <1>1, PTL DEF Spec

\* Every variable keeps its type; the dispatch queue and the ring of claims
\* stay within their capacities (gateway.go lines 317-326, client.go 123-144).
THEOREM TypeCorrect == Spec => []TypeOK
<1>1. IInv => TypeOK
  BY DEF IInv
<1> QED BY <1>1, Invariance, PTL

\* Handlers get events in the order Discord sent them, and every gap and every
\* repetition among them is one Discord made, for any queue size and over any
\* number of resumes (gateway.go 305-326).
THEOREM OrderedDelivery == Spec => []AcceptedInOrder
<1>1. IInv => AcceptedInOrder
  BY DEF IInv, Order
<1> QED BY <1>1, Invariance, PTL

\* A Resume never claims an event that was not queued (gateway.go 305-326).
THEOREM SequenceFollows == Spec => []SequenceIsAccepted
<1>1. IInv => SequenceIsAccepted
  BY DEF IInv, Order
<1> QED BY <1>1, Invariance, PTL

\* However small the ring of claims, a full queue never starts an interaction a
\* second time; an event Discord repeats of its own accord starts it only after
\* as many other claims as the ring holds (client.go 123-144).
THEOREM InteractionsStartOnce == Spec => []InteractionStartedOnce
<1>1. IInv => InteractionStartedOnce
  BY DEF IInv, Claims
<1> QED BY <1>1, Invariance, PTL

\* A session Run knows to be over is never resumed (gateway.go 183-188).
THEOREM EndedSessionsStayEnded == Spec => []EndedSessionNotResumed
<1>1. IInv => EndedSessionNotResumed
  BY DEF IInv, Resumption, HasSession, EndedSessionNotResumed
<1> QED BY <1>1, Invariance, PTL

\* Identifies never exceed the limit Discord last sent (gateway.go 172-179).
THEOREM IdentifiesBounded == Spec => []IdentifiesWithinLimit
<1>1. ASSUME IInv PROVE IdentifiesWithinLimit
  <2>1. /\ remaining \in 0..Quota /\ granted \in 0..Quota /\ starts \in Nat
        /\ starts + remaining = granted + (IF Identified THEN 1 ELSE 0)
        /\ Identified => remaining >= 1
    BY <1>1 DEF IInv, TypeOK, Limits, Identified, Live
  <2> QED BY <2>1 DEF IdentifiesWithinLimit
<1> QED BY <1>1, Invariance, PTL
=============================================================================
