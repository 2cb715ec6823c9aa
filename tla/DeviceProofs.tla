---------------------------- MODULE DeviceProofs ----------------------------
(***************************************************************************)
(* Proofs about the devices of the applications, for every number of       *)
(* applications and devices, every network and every interval.  First      *)
(* lemmas about the functions of device.c and the actions of applications, *)
(* whatever network they are on: what they keep of the types, and of the   *)
(* heartbeats that devices keep.  Then the devices that face an arbitrary  *)
(* network and a listener.                                                 *)
(***************************************************************************)
EXTENDS DeviceAlone, SequenceLemmas
-----------------------------------------------------------------------------
(***************************************************************************)
(* The functions of device.c.  What they are given and what they return is *)
(* a progress: a device, the heartbeats sent, a return value.  A progress  *)
(* is sound when the heartbeat its device keeps is current.                *)
(***************************************************************************)
Progress == [r : DeviceState, out : Seq(HeartbeatMsg), ok : BOOLEAN]

Current(d, r) ==
  r.enabled /\ r.hbeat_msg # NoMsg =>
    /\ r.hbeat_msg.kind = "app"
    /\ r.hbeat_msg.id = r.id
    /\ r.hbeat_msg.class = HeartbeatClass(d, r)
    /\ r.hbeat_msg.addr = AppOf[d]

Sound(d, p) == p \in Progress /\ Current(d, p.r)

\* The minutes a heartbeat announces are a number.
LEMMA MinutesType ==
  ASSUME NEW i \in Nat
  PROVE  i \div Minute \in Nat
BY NetworkAssumption

\* No heartbeat is the absent one.
LEMMA HeartbeatIsSome ==
  NoMsg \notin HeartbeatMsg
BY DEF NoMsg, HeartbeatMsg

\* A heartbeat message says who the device is.
LEMMA NewHeartbeat ==
  ASSUME NEW d \in Dev, NEW r \in DeviceState, NEW kind \in {"app", "end"}
  PROVE  LET m == HeartbeatMessageNew(d, r, kind)
         IN  /\ m \in HeartbeatMsg
             /\ m.kind = kind /\ m.id = r.id /\ m.class = HeartbeatClass(d, r)
             /\ m.addr = AppOf[d]
<1>1. r.interval \div Minute \in Nat /\ r.id \in Id
  BY MinutesType DEF DeviceState
<1>2. AppOf[d] \in Addr
  BY DeviceAssumption, NetworkAssumption
<1>3. HeartbeatClass(d, r) \in {"hbeat", "config"}
  BY DEF HeartbeatClass
<1> QED  BY <1>1, <1>2, <1>3 DEF HeartbeatMessageNew, HeartbeatMsg

\* A device that has just begun an operation.
LEMMA BeginSound ==
  ASSUME NEW d \in Dev, NEW r \in DeviceState, Current(d, r)
  PROVE  Sound(d, Begin(r))
BY EmptySeq DEF Begin, Sound, Progress

\* A heartbeat that is sent is current, and so is the one that stays behind.
LEMMA SendHelloSound ==
  ASSUME NEW d \in Dev, NEW p, Sound(d, p), NEW sent \in BOOLEAN
  PROVE  LET q == SendHello(d, p, sent)
         IN  /\ Sound(d, q)
             /\ q.r.hbeat_msg # NoMsg
             /\ q.r.enabled = p.r.enabled /\ q.r.id = p.r.id
             /\ q.r.configured = p.r.configured
<1> DEFINE m == IF p.r.hbeat_msg = NoMsg THEN HeartbeatMessageNew(d, p.r, "app")
                                         ELSE p.r.hbeat_msg
           r == [p.r EXCEPT !.hbeat_msg = m, !.elapsed = IF sent THEN 0 ELSE @]
           out == IF sent THEN Append(p.out, m) ELSE p.out
<1>1. p.r \in DeviceState /\ p.out \in Seq(HeartbeatMsg)
  BY DEF Sound, Progress
<1>2. m \in HeartbeatMsg
  BY <1>1, NewHeartbeat DEF DeviceState
<1>3. p.r.enabled => /\ m.kind = "app" /\ m.id = p.r.id
                     /\ m.class = HeartbeatClass(d, p.r) /\ m.addr = AppOf[d]
  BY <1>1, NewHeartbeat DEF Sound, Current
<1> HIDE DEF m
<1>4. (IF sent THEN 0 ELSE p.r.elapsed) \in 0 .. MaxAge
  BY <1>1, NetworkAssumption DEF DeviceState
<1>5. r \in DeviceState
  BY <1>1, <1>2, <1>4 DEF DeviceState
<1>6. /\ r.hbeat_msg = m /\ r.id = p.r.id /\ r.enabled = p.r.enabled
      /\ r.configured = p.r.configured
  BY <1>1 DEF DeviceState
<1>7. out \in Seq(HeartbeatMsg)
  BY <1>1, <1>2, AppendProperties
<1>8. SendHello(d, p, sent) = [r |-> r, out |-> out, ok |-> sent]
  BY DEF SendHello, m
<1> HIDE DEF r, out
<1>9. Current(d, r)
  BY <1>3, <1>6 DEF Current, HeartbeatClass
<1>10. m # NoMsg
  BY <1>2, HeartbeatIsSome
<1> QED  BY <1>5, <1>6, <1>7, <1>8, <1>9, <1>10 DEF Sound, Progress

\* A goodbye that is sent drops the heartbeat, and one that fails changes nothing.
LEMMA SendGoodbyeResult ==
  ASSUME NEW d \in Dev, NEW p, Sound(d, p), NEW sent \in BOOLEAN
  PROVE  LET q == SendGoodbye(d, p, sent)
         IN  IF sent THEN q.ok /\ q.r = [p.r EXCEPT !.hbeat_msg = NoMsg]
                     ELSE ~q.ok /\ q.r = p.r
BY DEF SendGoodbye, Sound, Progress

\* Either way the heartbeat that is kept is current.
LEMMA SendGoodbyeSound ==
  ASSUME NEW d \in Dev, NEW p, Sound(d, p), NEW sent \in BOOLEAN
  PROVE  LET q == SendGoodbye(d, p, sent)
         IN  /\ Sound(d, q)
             /\ q.r.enabled = p.r.enabled /\ q.r.id = p.r.id
             /\ q.r.configured = p.r.configured
<1> DEFINE q == SendGoodbye(d, p, sent)
<1>1. p.r \in DeviceState /\ p.out \in Seq(HeartbeatMsg) /\ p \in Progress
  BY DEF Sound, Progress
<1>2. CASE sent
  <2> DEFINE m == HeartbeatMessageNew(d, p.r, "end")
             r == [p.r EXCEPT !.hbeat_msg = NoMsg]
  <2>1. m \in HeartbeatMsg
    BY <1>1, NewHeartbeat
  <2> HIDE DEF m
  <2>2. Append(p.out, m) \in Seq(HeartbeatMsg)
    BY <1>1, <2>1, AppendProperties
  <2>3. r \in DeviceState
    BY <1>1 DEF DeviceState
  <2>4. /\ r.hbeat_msg = NoMsg /\ r.enabled = p.r.enabled /\ r.id = p.r.id
        /\ r.configured = p.r.configured
    BY <1>1 DEF DeviceState
  <2>5. SendGoodbye(d, p, sent) = [r |-> r, out |-> Append(p.out, m), ok |-> TRUE]
    BY <1>2 DEF SendGoodbye, m
  <2> HIDE DEF r
  <2>6. [r |-> r, out |-> Append(p.out, m), ok |-> TRUE] \in Progress
    BY <2>2, <2>3 DEF Progress
  <2>7. Current(d, r)
    BY <2>4 DEF Current
  <2>8. q.r = r /\ q.ok /\ q \in Progress
    BY <2>5, <2>6
  <2> QED  BY <1>2, <2>4, <2>7, <2>8 DEF Sound
<1>3. CASE ~sent
  <2>1. SendGoodbye(d, p, sent) = [p EXCEPT !.ok = FALSE]
    BY <1>3 DEF SendGoodbye
  <2> QED  BY <1>1, <1>3, <2>1 DEF Sound, Progress
<1> QED  BY <1>2, <1>3

\* An assignment to fields of the device in the middle of an operation.
LEMMA AssignSound ==
  ASSUME NEW d \in Dev, NEW p \in Progress, NEW r \in DeviceState, Current(d, r)
  PROVE  LET q == [p EXCEPT !.r = r]
         IN  Sound(d, q) /\ q.r = r /\ q.out = p.out
BY DEF Sound, Progress

\* Enabling drops a heartbeat that a failed goodbye has left behind.
LEMMA EnableSound ==
  ASSUME NEW d \in Dev, NEW p, Sound(d, p), NEW on \in BOOLEAN, NEW sent \in BOOLEAN
  PROVE  LET q == Enable(d, p, on, sent)
         IN  /\ Sound(d, q)
             /\ IF on THEN q.r.enabled ELSE ~q.r.enabled
             /\ q.r.id = p.r.id /\ q.r.configured = p.r.configured
<1>1. p \in Progress /\ p.r \in DeviceState
  BY DEF Sound, Progress
<1>2. CASE p.r.enabled = on
  <2>1. Enable(d, p, on, sent) = [p EXCEPT !.ok = TRUE]
    BY <1>2 DEF Enable
  <2>2. [p EXCEPT !.ok = TRUE] \in Progress /\ [p EXCEPT !.ok = TRUE].r = p.r
    BY <1>1 DEF Progress
  <2> QED  BY <1>2, <2>1, <2>2 DEF Sound
<1>3. CASE p.r.enabled # on /\ on
  <2> DEFINE r == [p.r EXCEPT !.enabled = TRUE, !.hbeat_msg = NoMsg]
             b == [p EXCEPT !.r = r]
  <2>1. r \in DeviceState
    BY <1>1 DEF DeviceState
  <2>2. /\ r.enabled /\ r.hbeat_msg = NoMsg /\ r.id = p.r.id
        /\ r.configured = p.r.configured
    BY <1>1 DEF DeviceState
  <2>3. [p EXCEPT !.r.enabled = TRUE, !.r.hbeat_msg = NoMsg] = b
    BY <1>1 DEF Progress, DeviceState
  <2>4. Enable(d, p, on, sent) = SendHello(d, b, sent)
    BY <1>3, <2>3 DEF Enable
  <2> HIDE DEF r
  <2>5. Sound(d, b) /\ b.r = r
    BY <1>1, <2>1, <2>2, AssignSound DEF Current
  <2> HIDE DEF b
  <2>6. LET q == SendHello(d, b, sent)
        IN  /\ Sound(d, q)
            /\ q.r.enabled = r.enabled /\ q.r.id = r.id /\ q.r.configured = r.configured
    BY <2>5, SendHelloSound
  <2> QED  BY <1>3, <2>2, <2>4, <2>6
<1>4. CASE p.r.enabled # on /\ ~on
  <2> DEFINE r == [p.r EXCEPT !.enabled = FALSE]
             b == [p EXCEPT !.r = r]
  <2>1. r \in DeviceState
    BY <1>1 DEF DeviceState
  <2>2. ~r.enabled /\ r.id = p.r.id /\ r.configured = p.r.configured
    BY <1>1 DEF DeviceState
  <2>3. [p EXCEPT !.r.enabled = FALSE] = b
    BY <1>1 DEF Progress, DeviceState
  <2>4. Enable(d, p, on, sent) = SendGoodbye(d, b, sent)
    BY <1>4, <2>3 DEF Enable
  <2> HIDE DEF r
  <2>5. Sound(d, b) /\ b.r = r
    BY <1>1, <2>1, <2>2, AssignSound DEF Current
  <2> HIDE DEF b
  <2>6. LET q == SendGoodbye(d, b, sent)
        IN  /\ Sound(d, q)
            /\ q.r.enabled = r.enabled /\ q.r.id = r.id /\ q.r.configured = r.configured
    BY <2>5, SendGoodbyeSound
  <2> QED  BY <1>4, <2>2, <2>4, <2>6
<1> QED  BY <1>2, <1>3, <1>4

\* A new identifier is set between the goodbye and the hello: neither speaks for
\* the other, and a goodbye that fails leaves the device as it was.
LEMMA IdSetSound ==
  ASSUME NEW d \in Dev, NEW p, Sound(d, p), NEW id \in Id,
         NEW bye \in BOOLEAN, NEW hello \in BOOLEAN
  PROVE  LET q == IdSet(d, p, id, bye, hello)
         IN  Sound(d, q) /\ q.r.id \in {p.r.id, id}
<1> DEFINE gone == SendGoodbye(d, p, bye)
           named(q) == [q.r EXCEPT !.id = id]
<1>1. p \in Progress /\ p.r \in DeviceState
  BY DEF Sound, Progress
<1>2. CASE id = p.r.id
  <2>1. IdSet(d, p, id, bye, hello) = [p EXCEPT !.ok = TRUE]
    BY <1>2 DEF IdSet
  <2>2. [p EXCEPT !.ok = TRUE] \in Progress /\ [p EXCEPT !.ok = TRUE].r = p.r
    BY <1>1 DEF Progress
  <2> QED  BY <2>1, <2>2 DEF Sound
<1>3. CASE id # p.r.id /\ ~p.r.enabled
  <2>1. IdSet(d, p, id, bye, hello) = [p EXCEPT !.r.id = id, !.ok = TRUE]
    BY <1>3 DEF IdSet
  <2>2. /\ [p EXCEPT !.r.id = id, !.ok = TRUE] \in Progress
        /\ [p EXCEPT !.r.id = id, !.ok = TRUE].r.enabled = p.r.enabled
        /\ [p EXCEPT !.r.id = id, !.ok = TRUE].r.id = id
    BY <1>1 DEF Progress, DeviceState
  <2> QED  BY <1>3, <2>1, <2>2 DEF Sound, Current
<1>4. CASE id # p.r.id /\ p.r.enabled /\ ~gone.ok
  BY <1>4, SendGoodbyeSound DEF IdSet
<1>5. CASE id # p.r.id /\ p.r.enabled /\ gone.ok
  <2>1. /\ gone \in Progress /\ gone.r \in DeviceState
        /\ gone.r.hbeat_msg = NoMsg
    <3>1. gone \in Progress /\ gone.r \in DeviceState
      BY SendGoodbyeSound DEF Sound, Progress
    <3>2. gone.r = [p.r EXCEPT !.hbeat_msg = NoMsg]
      BY <1>5, SendGoodbyeResult
    <3> QED  BY <1>1, <3>1, <3>2 DEF DeviceState
  <2>2. IdSet(d, p, id, bye, hello) = SendHello(d, [gone EXCEPT !.r.id = id], hello)
    BY <1>5 DEF IdSet
  <2> HIDE DEF gone
  <2>3. [gone EXCEPT !.r.id = id] = [gone EXCEPT !.r = named(gone)]
    BY <2>1 DEF Progress, DeviceState
  <2>4. /\ named(gone) \in DeviceState /\ named(gone).hbeat_msg = NoMsg
        /\ named(gone).id = id
    BY <2>1 DEF DeviceState
  <2> HIDE DEF named
  <2> DEFINE b == [gone EXCEPT !.r = named(gone)]
  <2>5. Sound(d, b) /\ b.r = named(gone)
    BY <2>1, <2>4, AssignSound DEF Current
  <2> HIDE DEF b
  <2>6. IdSet(d, p, id, bye, hello) = SendHello(d, b, hello)
    BY <2>2, <2>3 DEF b
  <2> QED  BY <2>4, <2>5, <2>6, SendHelloSound
<1> QED  BY <1>2, <1>3, <1>4, <1>5

\* A heartbeat that is built again is current, whatever it was before.
LEMMA RebuildSound ==
  ASSUME NEW d \in Dev, NEW p \in Progress, NEW sent \in BOOLEAN
  PROVE  LET q == SendHello(d, [p EXCEPT !.r.hbeat_msg = NoMsg], sent)
         IN  Sound(d, q) /\ q.r.id = p.r.id
<1> DEFINE r == [p.r EXCEPT !.hbeat_msg = NoMsg]
           b == [p EXCEPT !.r = r]
<1>1. p.r \in DeviceState
  BY DEF Progress
<1>2. r \in DeviceState /\ r.hbeat_msg = NoMsg /\ r.id = p.r.id
  BY <1>1 DEF DeviceState
<1>3. [p EXCEPT !.r.hbeat_msg = NoMsg] = b
  BY <1>1 DEF Progress, DeviceState
<1> HIDE DEF r
<1>4. Sound(d, b) /\ b.r = r
  BY <1>2, AssignSound DEF Current
<1> HIDE DEF b
<1> QED  BY <1>2, <1>3, <1>4, SendHelloSound

\* The interval a config.response m asks for.
Ticks(m) == m.interval * Minute

\* A config.response stops a device whose identifier or interval changes, sets its
\* values, starts it again, and has the heartbeat built again when it is the first
\* configuration, which changes the class.
ConfigSteps(d, p, m, bye, hello, inform, stopped, set, started) ==
  /\ \/ stopped = Enable(d, p, FALSE, bye) /\ started = Enable(d, set, TRUE, hello)
     \/ /\ stopped = p /\ started = set
        /\ p.r.enabled => m.newconf = p.r.id /\ Ticks(m) = p.r.interval
  /\ Sound(d, stopped) /\ stopped.r.configured = p.r.configured
  /\ set \in Progress /\ set.r.id = m.newconf /\ set.r.configured
  /\ set.r.enabled = stopped.r.enabled
  /\ set.r.hbeat_msg = stopped.r.hbeat_msg /\ set.out = stopped.out
  /\ set.r.elapsed = stopped.r.elapsed
  /\ set.r.interval = IF Ticks(m) > 0 THEN Ticks(m) ELSE stopped.r.interval
  /\ ConfigSet(d, p, m, bye, hello, inform) =
       IF ~p.r.configured /\ started.r.hbeat_msg # NoMsg
         THEN SendHello(d, [started EXCEPT !.r.hbeat_msg = NoMsg], inform)
         ELSE started

\* A config.response takes these steps.
LEMMA ConfigSetShape ==
  ASSUME NEW d \in Dev, NEW p, Sound(d, p), NEW m \in ResponseMsg,
         NEW bye \in BOOLEAN, NEW hello \in BOOLEAN, NEW inform \in BOOLEAN
  PROVE  \E stopped, set, started :
           ConfigSteps(d, p, m, bye, hello, inform, stopped, set, started)
<1> DEFINE interval == m.interval * Minute
           restart  == p.r.enabled /\ (m.newconf # p.r.id \/ interval # p.r.interval)
           stopped  == IF restart THEN Enable(d, p, FALSE, bye) ELSE p
           s        == [stopped.r EXCEPT !.id = m.newconf, !.configured = TRUE,
                                         !.interval = IF interval > 0 THEN interval ELSE @]
           set      == [stopped EXCEPT !.r = s]
           raw      == [stopped EXCEPT !.r.id = m.newconf, !.r.configured = TRUE,
                                       !.r.interval = IF interval > 0 THEN interval ELSE @]
           started  == IF restart THEN Enable(d, raw, TRUE, hello) ELSE raw
<1>1. p \in Progress /\ p.r \in DeviceState
  BY DEF Sound, Progress
<1>2. m.interval \in Nat /\ m.newconf \in Id /\ interval \in Nat
  BY NetworkAssumption DEF ResponseMsg
<1>3. Sound(d, stopped) /\ stopped.r.configured = p.r.configured
  <2>1. LET q == Enable(d, p, FALSE, bye)
        IN  Sound(d, q) /\ q.r.configured = p.r.configured
    <3>1. \A on \in BOOLEAN :
            LET q == Enable(d, p, on, bye)
            IN  Sound(d, q) /\ q.r.configured = p.r.configured
      BY EnableSound
    <3> QED  BY <3>1
  <2>2. stopped = Enable(d, p, FALSE, bye) \/ stopped = p
    OBVIOUS
  <2> HIDE DEF stopped, restart
  <2> QED  BY <2>1, <2>2
<1>4. stopped \in Progress /\ stopped.r \in DeviceState
  BY <1>3 DEF Sound, Progress
<1>5. raw = set
  <2> HIDE DEF stopped, interval
  <2> QED  BY <1>4 DEF Progress, DeviceState
<1>6. ConfigSet(d, p, m, bye, hello, inform) =
        IF ~p.r.configured /\ started.r.hbeat_msg # NoMsg
          THEN SendHello(d, [started EXCEPT !.r.hbeat_msg = NoMsg], inform)
          ELSE started
  BY DEF ConfigSet
<1>7. restart <=> p.r.enabled /\ (m.newconf # p.r.id \/ interval # p.r.interval)
  OBVIOUS
<1>8. /\ restart => stopped = Enable(d, p, FALSE, bye) /\ started = Enable(d, set, TRUE, hello)
      /\ ~restart => stopped = p /\ started = set
  <2> HIDE DEF set, s
  <2> QED  BY <1>5
<1> HIDE DEF interval, restart, stopped
<1>9. /\ s \in DeviceState
      /\ s.id = m.newconf /\ s.configured /\ s.enabled = stopped.r.enabled
      /\ s.hbeat_msg = stopped.r.hbeat_msg /\ s.elapsed = stopped.r.elapsed
      /\ s.interval = IF interval > 0 THEN interval ELSE stopped.r.interval
  BY <1>2, <1>4 DEF DeviceState
<1> HIDE DEF s
<1>10. set \in Progress /\ set.r = s /\ set.out = stopped.out
  BY <1>4, <1>9 DEF Progress
<1> HIDE DEF set, started
<1>11. \/ stopped = Enable(d, p, FALSE, bye) /\ started = Enable(d, set, TRUE, hello)
       \/ /\ stopped = p /\ started = set
          /\ p.r.enabled => m.newconf = p.r.id /\ interval = p.r.interval
  BY <1>7, <1>8
<1>12. /\ set \in Progress /\ set.r.id = m.newconf /\ set.r.configured
       /\ set.r.enabled = stopped.r.enabled
       /\ set.r.hbeat_msg = stopped.r.hbeat_msg /\ set.out = stopped.out
       /\ set.r.elapsed = stopped.r.elapsed
       /\ set.r.interval = IF interval > 0 THEN interval ELSE stopped.r.interval
  BY <1>9, <1>10
<1> WITNESS stopped, set, started
<1> QED  BY <1>3, <1>6, <1>11, <1>12 DEF ConfigSteps, interval, Ticks

\* What a config.response makes of a device is sound.
LEMMA ConfigSetSound ==
  ASSUME NEW d \in Dev, NEW p, Sound(d, p), NEW m \in ResponseMsg,
         NEW bye \in BOOLEAN, NEW hello \in BOOLEAN, NEW inform \in BOOLEAN
  PROVE  LET q == ConfigSet(d, p, m, bye, hello, inform)
         IN  Sound(d, q) /\ q.r.id = m.newconf
<1>0. PICK stopped, set, started :
        ConfigSteps(d, p, m, bye, hello, inform, stopped, set, started)
  BY ConfigSetShape
<1>1. /\ \/ stopped = Enable(d, p, FALSE, bye) /\ started = Enable(d, set, TRUE, hello)
         \/ stopped = p /\ started = set /\ (p.r.enabled => m.newconf = p.r.id)
      /\ Sound(d, stopped) /\ stopped.r.configured = p.r.configured
      /\ set \in Progress /\ set.r.id = m.newconf /\ set.r.configured
      /\ set.r.enabled = stopped.r.enabled /\ set.r.hbeat_msg = stopped.r.hbeat_msg
      /\ ConfigSet(d, p, m, bye, hello, inform) =
           IF ~p.r.configured /\ started.r.hbeat_msg # NoMsg
             THEN SendHello(d, [started EXCEPT !.r.hbeat_msg = NoMsg], inform)
             ELSE started
  BY <1>0 DEF ConfigSteps
<1>2. CASE stopped = Enable(d, p, FALSE, bye) /\ started = Enable(d, set, TRUE, hello)
  <2>1. ~stopped.r.enabled
    <3>1. \A on \in BOOLEAN : ~on => ~Enable(d, p, on, bye).r.enabled
      BY EnableSound
    <3> QED  BY <1>2, <3>1
  <2>2. Sound(d, set)
    BY <1>1, <2>1 DEF Sound, Current
  <2>3. \A on \in BOOLEAN : LET q == Enable(d, set, on, hello)
                             IN  Sound(d, q) /\ q.r.id = set.r.id
    BY <2>2, EnableSound
  <2>4. Sound(d, started) /\ started.r.id = m.newconf
    BY <1>1, <1>2, <2>3
  <2>5. started \in Progress
    BY <2>4 DEF Sound
  <2> QED  BY <1>1, <2>4, <2>5, RebuildSound
<1>3. CASE stopped = p /\ started = set /\ (p.r.enabled => m.newconf = p.r.id)
  <2>1. ASSUME p.r.configured \/ set.r.hbeat_msg = NoMsg
        PROVE  Current(d, set.r)
    <3>1. p.r.configured => HeartbeatClass(d, set.r) = HeartbeatClass(d, p.r)
      BY <1>1 DEF HeartbeatClass
    <3>2. Current(d, p.r)
      BY DEF Sound
    <3> QED  BY <1>1, <1>3, <2>1, <3>1, <3>2 DEF Current
  <2>2. CASE ~p.r.configured /\ set.r.hbeat_msg # NoMsg
    BY <1>1, <1>3, <2>2, RebuildSound
  <2>3. CASE p.r.configured \/ set.r.hbeat_msg = NoMsg
    BY <1>1, <1>3, <2>1, <2>3 DEF Sound
  <2> QED  BY <2>2, <2>3
<1> QED  BY <1>1, <1>2, <1>3

-----------------------------------------------------------------------------
(***************************************************************************)
(* The actions keep the types and the soundness of every device.           *)
(***************************************************************************)
AllCurrent == \A d \in Dev : Current(d, dev[d])

DevicesSound ==
  /\ NetworkTypeOK
  /\ alive \in [App -> BOOLEAN]
  /\ dev \in [Dev -> DeviceState]
  /\ job \in [App -> Job]
  /\ refusing \in BOOLEAN
  /\ AllCurrent

\* What a socket does with a datagram is one of two things.
LEMMA SendResultType ==
  ASSUME NEW sent \in SendResult
  PROVE  sent \in BOOLEAN
BY DEF SendResult

\* Heartbeats are messages, and fit into the queue of their sender.
LEMMA BroadcastType ==
  ASSUME NetworkTypeOK, NEW a \in App, NEW out \in Seq(HeartbeatMsg), Broadcast(a, out)
  PROVE  toHub' \in [Sender -> Seq(Msg)]
<1>1. HeartbeatMsg \subseteq Msg
  BY DEF Msg
<1>2. out \in Seq(Msg)
  BY <1>1, SeqMonotonic
<1>3. toHub[a] \in Seq(Msg)
  BY DEF NetworkTypeOK, Sender
<1>4. Push(toHub[a], out) \in Seq(Msg)
  BY <1>2, <1>3, CutType, NetworkAssumption DEF Push
<1> QED  BY <1>4 DEF Broadcast, NetworkTypeOK

\* Storing a sound progress keeps all that is known of devices and queues.
LEMMA CommitSound ==
  ASSUME DevicesSound, NEW d \in Dev, NEW p, Sound(d, p), Commit(d, p)
  PROVE  /\ dev' \in [Dev -> DeviceState]
         /\ toHub' \in [Sender -> Seq(Msg)]
         /\ AllCurrent'
<1>1. p.r \in DeviceState /\ p.out \in Seq(HeartbeatMsg) /\ Current(d, p.r)
  BY DEF Sound, Progress
<1>2. dev' = [dev EXCEPT ![d] = p.r] /\ dev \in [Dev -> DeviceState]
  BY DEF Commit, DevicesSound
<1>3. toHub' \in [Sender -> Seq(Msg)]
  <2>1. AppOf[d] \in App
    BY DeviceAssumption
  <2> QED  BY <1>1, <2>1, BroadcastType DEF Commit, DevicesSound
<1>4. AllCurrent'
  <2> SUFFICES ASSUME NEW e \in Dev
               PROVE  Current(e, dev'[e])
    BY DEF AllCurrent, Current, HeartbeatClass
  <2>1. Current(e, dev[e])
    BY DEF DevicesSound, AllCurrent
  <2>2. CASE e = d
    BY <1>1, <1>2, <2>2
  <2>3. CASE e # d
    BY <1>2, <2>1, <2>3
  <2> QED  BY <2>2, <2>3
<1> QED  BY <1>1, <1>2, <1>3, <1>4

\* A loop begins with all devices of its application, or not at all.
LEMMA StartType ==
  ASSUME job \in [App -> Job], NEW a \in App, NEW m \in Msg \cup {NoMsg},
         NEW what \in {"message", "poll", "disable", "close"}, Start(a, what, m)
  PROVE  job' \in [App -> Job]
<1>1. PICK w \in Delay(m) :
        job' = [job EXCEPT ![a] = IF DevSeq[a] = << >> THEN NoJob
                  ELSE [what |-> what, msg |-> m, todo |-> DevSeq[a], wait |-> w]]
  BY DEF Start
<1>2. w \in 0 .. MaxDelay /\ 0 \in 0 .. MaxDelay
  BY DeviceAssumption DEF Delay
<1>3. DevSeq[a] \in Seq(Dev)
  BY DeviceAssumption
<1>4. [what |-> what, msg |-> m, todo |-> DevSeq[a], wait |-> w] \in Job
  BY <1>2, <1>3 DEF Job
<1>5. NoJob \in Job
  BY <1>2, EmptySeq DEF NoJob, Job
<1> QED  BY <1>1, <1>4, <1>5

\* A loop goes on with the devices that are left, or ends.
LEMMA AdvanceType ==
  ASSUME job \in [App -> Job], NEW a \in App, NEW goOn, Advance(a, goOn)
  PROVE  job' \in [App -> Job]
<1>1. PICK w \in Delay(job[a].msg) :
        job' = [job EXCEPT ![a] = IF goOn /\ Len(job[a].todo) > 1
                  THEN [job[a] EXCEPT !.todo = Tail(job[a].todo), !.wait = w] ELSE NoJob]
  BY DEF Advance
<1>2. w \in 0 .. MaxDelay /\ 0 \in 0 .. MaxDelay
  BY DeviceAssumption DEF Delay
<1>3. NoJob \in Job
  BY <1>2, EmptySeq DEF NoJob, Job
<1>4. job[a] \in Job /\ job[a].todo \in Seq(Dev)
  BY DEF Job
<1>5. CASE Len(job[a].todo) > 1
  <2>1. Tail(job[a].todo) \in Seq(Dev)
    BY <1>4, <1>5, EmptySeq, HeadTailProperties
  <2>2. [job[a] EXCEPT !.todo = Tail(@), !.wait = w] \in Job
    BY <1>2, <1>4, <2>1 DEF Job
  <2> QED  BY <1>1, <1>3, <2>2
<1>6. CASE ~(Len(job[a].todo) > 1)
  BY <1>1, <1>3, <1>6
<1> QED  BY <1>5, <1>6

\* The device whose turn it is exists.
LEMMA TurnType ==
  ASSUME dev \in [Dev -> DeviceState], job \in [App -> Job], NEW a \in App, NEW d \in Dev
  PROVE  /\ dev[d] \in DeviceState /\ job[a].msg \in Msg \cup {NoMsg}
         /\ \A m \in Msg \cup {NoMsg} : m.kind = "response" => m \in ResponseMsg
BY DEF Job, Msg, NoMsg, HeartbeatMsg, RequestMsg, OtherMsg

\* A new device keeps no heartbeat.
LEMMA NewDeviceSound ==
  ASSUME NEW d \in Dev
  PROVE  NewDevice(d) \in DeviceState /\ Current(d, NewDevice(d))
<1>1. /\ FirstId[d] \in Id /\ DefaultInterval \in Nat /\ MaxAge \in 0 .. MaxAge
  BY DeviceAssumption, NetworkAssumption
<1> QED  BY <1>1 DEF NewDevice, DeviceState, Current

\* The steps of an application that takes a datagram, or begins a loop.
LEMMA LoopBeginsKeeps ==
  ASSUME DevicesSound, NEW a \in App,
         AppPollMessage(a) \/ AppPollIdle(a) \/ DisableAll(a) \/ Close(a)
  PROVE  DevicesSound'
<1> USE DEF DevicesSound
<1>1. UNCHANGED <<alive, dev, toHub, refusing>>
  BY DEF AppPollMessage, AppPollIdle, DisableAll, Close
<1>2. AllCurrent'
  BY <1>1 DEF AllCurrent, Current, HeartbeatClass
<1>3. CASE AppPollMessage(a)
  <2>1. toApp[a] \in Seq(Msg) /\ toApp[a] # << >>
    BY <1>3 DEF AppPollMessage, NetworkTypeOK
  <2>2. Head(toApp[a]) \in Msg /\ Tail(toApp[a]) \in Seq(Msg)
    BY <2>1, HeadTailProperties
  <2>3. toApp' \in [App -> Seq(Msg)]
    BY <1>3, <2>2 DEF AppPollMessage, NetworkTypeOK
  <2>4. job' \in [App -> Job]
    BY <1>3, <2>2, StartType DEF AppPollMessage
  <2> QED  BY <1>1, <1>2, <2>3, <2>4 DEF NetworkTypeOK
<1>4. CASE AppPollIdle(a) \/ DisableAll(a) \/ Close(a)
  <2>1. job' \in [App -> Job]
    BY <1>4, StartType DEF AppPollIdle, DisableAll, Close
  <2>2. UNCHANGED toApp
    BY <1>4 DEF AppPollIdle, DisableAll, Close
  <2> QED  BY <1>1, <1>2, <2>1, <2>2 DEF NetworkTypeOK
<1> QED  BY <1>3, <1>4

\* The turns of the loops.
LEMMA HandleMessageKeeps ==
  ASSUME DevicesSound, NEW a \in App, NEW d \in Dev, HandleMessage(a, d)
  PROVE  DevicesSound'
<1> USE DEF DevicesSound
<1> DEFINE m == job[a].msg
           r == IF IsHubEcho(a, m) THEN [dev[d] EXCEPT !.confirmed = TRUE] ELSE dev[d]
<1>1. dev[d] \in DeviceState /\ (m.kind = "response" => m \in ResponseMsg)
  BY TurnType
<1>2. r \in DeviceState /\ Current(d, r)
  <2>1. [dev[d] EXCEPT !.confirmed = TRUE] \in DeviceState
    BY <1>1 DEF DeviceState
  <2>2. LET e == [dev[d] EXCEPT !.confirmed = TRUE]
        IN  /\ e.enabled = dev[d].enabled /\ e.hbeat_msg = dev[d].hbeat_msg
            /\ e.id = dev[d].id /\ e.configured = dev[d].configured
    BY <1>1 DEF DeviceState
  <2>3. Current(d, dev[d])
    BY DEF AllCurrent
  <2> QED  BY <1>1, <2>1, <2>2, <2>3 DEF Current, HeartbeatClass
<1>3. \/ \E sent \in SendResult : Commit(d, SendHello(d, Begin(r), sent))
      \/ m.kind = "response" /\ \E bye, hello, inform \in SendResult :
                                 Commit(d, ConfigSet(d, Begin(r), m, bye, hello, inform))
      \/ Commit(d, Begin(r))
  BY DEF HandleMessage
<1> HIDE DEF m, r
<1>4. Sound(d, Begin(r))
  BY <1>2, BeginSound
<1>5. PICK p : Sound(d, p) /\ Commit(d, p)
  BY <1>1, <1>3, <1>4, SendHelloSound, ConfigSetSound, SendResultType
<1>6. /\ dev' \in [Dev -> DeviceState] /\ toHub' \in [Sender -> Seq(Msg)]
      /\ AllCurrent'
  BY <1>5, CommitSound
<1>7. job' \in [App -> Job] /\ UNCHANGED <<alive, toApp, refusing>>
  BY AdvanceType DEF HandleMessage
<1> QED  BY <1>6, <1>7 DEF NetworkTypeOK

LEMMA PollHeartbeatKeeps ==
  ASSUME DevicesSound, NEW a \in App, NEW d \in Dev, PollHeartbeat(a, d)
  PROVE  DevicesSound'
<1> USE DEF DevicesSound
<1>1. Sound(d, Begin(dev[d]))
  BY TurnType, BeginSound DEF AllCurrent
<1>2. PICK p : Sound(d, p) /\ Commit(d, p)
  BY <1>1, SendHelloSound, SendResultType DEF PollHeartbeat
<1>3. /\ dev' \in [Dev -> DeviceState] /\ toHub' \in [Sender -> Seq(Msg)]
      /\ AllCurrent'
  BY <1>2, CommitSound
<1>4. job' \in [App -> Job] /\ UNCHANGED <<alive, toApp, refusing>>
  BY AdvanceType DEF PollHeartbeat
<1> QED  BY <1>3, <1>4 DEF NetworkTypeOK

LEMMA DisableNextKeeps ==
  ASSUME DevicesSound, NEW a \in App, NEW d \in Dev, DisableNext(a, d)
  PROVE  DevicesSound'
<1> USE DEF DevicesSound
<1>1. Sound(d, Begin(dev[d]))
  BY TurnType, BeginSound DEF AllCurrent
<1>2. PICK sent \in SendResult :
        LET p == Enable(d, Begin(dev[d]), FALSE, sent) IN Commit(d, p) /\ Advance(a, p.ok)
  BY DEF DisableNext
<1> DEFINE p == Enable(d, Begin(dev[d]), FALSE, sent)
<1>3. Sound(d, p)
  <2>1. \A on \in BOOLEAN : Sound(d, Enable(d, Begin(dev[d]), on, sent))
    BY <1>1, SendResultType, EnableSound
  <2> QED  BY <2>1
<1> HIDE DEF p
<1>4. /\ dev' \in [Dev -> DeviceState] /\ toHub' \in [Sender -> Seq(Msg)]
      /\ AllCurrent'
  BY <1>2, <1>3, CommitSound DEF p
<1>5. job' \in [App -> Job] /\ UNCHANGED <<alive, toApp, refusing>>
  BY <1>2, AdvanceType DEF DisableNext, p
<1> QED  BY <1>4, <1>5 DEF NetworkTypeOK

LEMMA CloseNextKeeps ==
  ASSUME DevicesSound, NEW a \in App, NEW d \in Dev, CloseNext(a, d)
  PROVE  DevicesSound'
<1> USE DEF DevicesSound
<1>1. Sound(d, Begin(dev[d]))
  BY TurnType, BeginSound DEF AllCurrent
<1>2. PICK sent \in SendResult :
        LET p == Enable(d, Begin(dev[d]), FALSE, sent) IN Broadcast(a, p.out)
  BY DEF CloseNext
<1> DEFINE p == Enable(d, Begin(dev[d]), FALSE, sent)
<1>3. Sound(d, p)
  <2>1. \A on \in BOOLEAN : Sound(d, Enable(d, Begin(dev[d]), on, sent))
    BY <1>1, SendResultType, EnableSound
  <2> QED  BY <2>1
<1>4. Broadcast(a, p.out)
  BY <1>2
<1> HIDE DEF p
<1>5. toHub' \in [Sender -> Seq(Msg)]
  BY <1>3, <1>4, BroadcastType DEF Sound, Progress
<1>6. dev' = [dev EXCEPT ![d] = NewDevice(d)]
  BY DEF CloseNext
<1>7. dev' \in [Dev -> DeviceState]
  BY <1>6, NewDeviceSound
<1>8. AllCurrent'
  <2> SUFFICES ASSUME NEW e \in Dev
               PROVE  Current(e, dev'[e])
    BY DEF AllCurrent, Current, HeartbeatClass
  <2>1. Current(e, dev[e]) /\ Current(d, NewDevice(d))
    BY NewDeviceSound DEF AllCurrent
  <2>2. CASE e = d
    BY <1>6, <2>1, <2>2
  <2>3. CASE e # d
    BY <1>6, <2>1, <2>3
  <2> QED  BY <2>2, <2>3
<1>9. job' \in [App -> Job]
  BY AdvanceType DEF CloseNext
<1>10. alive' \in [App -> BOOLEAN] /\ toApp' \in [App -> Seq(Msg)] /\ UNCHANGED refusing
  BY EmptySeq DEF CloseNext, NetworkTypeOK
<1> QED  BY <1>5, <1>7, <1>8, <1>9, <1>10 DEF NetworkTypeOK

\* What the program does with its devices.
LEMMA ProgramKeeps ==
  ASSUME DevicesSound, NEW d \in Dev,
         \/ \E on \in BOOLEAN : SetEnabled(d, on)
         \/ \E id \in Id : SetId(d, id)
         \/ \E i \in Interval : SetInterval(d, i)
  PROVE  DevicesSound'
<1> USE DEF DevicesSound
<1>0. Sound(d, Begin(dev[d]))
  BY BeginSound DEF AllCurrent
<1>1. ASSUME NEW p, Sound(d, p), Commit(d, p), UNCHANGED <<alive, job, toApp, refusing>>
      PROVE  DevicesSound'
  BY <1>1, CommitSound DEF NetworkTypeOK
<1>2. ASSUME NEW on \in BOOLEAN, SetEnabled(d, on)
      PROVE  DevicesSound'
  BY <1>0, <1>1, <1>2, EnableSound, SendResultType DEF SetEnabled
<1>3. ASSUME NEW id \in Id, SetId(d, id)
      PROVE  DevicesSound'
  BY <1>0, <1>1, <1>3, IdSetSound, SendResultType DEF SetId
<1>4. ASSUME NEW i \in Interval, SetInterval(d, i)
      PROVE  DevicesSound'
  <2> DEFINE r == [dev[d] EXCEPT !.interval = i]
  <2>1. dev' = [dev EXCEPT ![d] = r] /\ UNCHANGED <<alive, job, toHub, toApp, refusing>>
    BY <1>4 DEF SetInterval
  <2>2. dev[d] \in DeviceState /\ i \in Nat
    BY DeviceAssumption
  <2>3. /\ r \in DeviceState
        /\ r.enabled = dev[d].enabled /\ r.hbeat_msg = dev[d].hbeat_msg
        /\ r.id = dev[d].id /\ r.configured = dev[d].configured
    BY <2>2 DEF DeviceState
  <2> HIDE DEF r
  <2>4. Current(d, r)
    BY <2>3 DEF AllCurrent, Current, HeartbeatClass
  <2>5. AllCurrent'
    <3> SUFFICES ASSUME NEW e \in Dev
                 PROVE  Current(e, dev'[e])
      BY DEF AllCurrent, Current, HeartbeatClass
    <3>1. CASE e = d
      BY <2>1, <2>4, <3>1
    <3>2. CASE e # d
      BY <2>1, <3>2 DEF AllCurrent
    <3> QED  BY <3>1, <3>2
  <2>6. dev' \in [Dev -> DeviceState]
    BY <2>1, <2>3
  <2> QED  BY <2>1, <2>5, <2>6 DEF NetworkTypeOK
<1> QED  BY <1>2, <1>3, <1>4

\* Processes that die, and are started.
LEMMA ProcessKeeps ==
  ASSUME DevicesSound, NEW a \in App, Crash(a) \/ Open(a)
  PROVE  DevicesSound'
<1> USE DEF DevicesSound
<1>1. CASE Crash(a)
  <2>1. dev' \in [Dev -> DeviceState]
    BY <1>1, NewDeviceSound DEF Crash
  <2>2. AllCurrent'
    <3> SUFFICES ASSUME NEW e \in Dev
                 PROVE  Current(e, dev'[e])
      BY DEF AllCurrent, Current, HeartbeatClass
    <3>1. dev'[e] = NewDevice(e) \/ dev'[e] = dev[e]
      BY <1>1 DEF Crash
    <3> QED  BY <3>1, NewDeviceSound DEF AllCurrent
  <2>3. NoJob \in Job
    BY EmptySeq, DeviceAssumption DEF NoJob, Job
  <2>4. job' \in [App -> Job]
    BY <1>1, <2>3 DEF Crash
  <2>5. /\ alive' \in [App -> BOOLEAN] /\ toApp' \in [App -> Seq(Msg)]
        /\ UNCHANGED <<refusing, toHub>>
    BY <1>1, EmptySeq DEF Crash, NetworkTypeOK
  <2> QED  BY <2>1, <2>2, <2>4, <2>5 DEF NetworkTypeOK
<1>2. CASE Open(a)
  <2>1. AllCurrent'
    BY <1>2 DEF Open, AllCurrent, Current, HeartbeatClass
  <2>2. /\ alive' \in [App -> BOOLEAN] /\ toApp' \in [App -> Seq(Msg)]
        /\ UNCHANGED <<dev, job, refusing, toHub>>
    BY <1>2, EmptySeq DEF Open, NetworkTypeOK
  <2> QED  BY <2>1, <2>2 DEF NetworkTypeOK
<1> QED  BY <1>1, <1>2

\* The clock.
LEMMA TickKeeps ==
  ASSUME DevicesSound, DeviceTick, UNCHANGED <<toHub, toApp>>
  PROVE  DevicesSound'
<1> USE DEF DevicesSound
<1>1. /\ dev' = [d \in Dev |-> [dev[d] EXCEPT !.elapsed = Older(@)]]
      /\ job' = [a \in App |-> [job[a] EXCEPT !.wait = IF @ > 0 THEN @ - 1 ELSE @]]
      /\ UNCHANGED <<alive, refusing, toHub, toApp>>
  BY DEF DeviceTick
<1>2. ASSUME NEW d \in Dev
      PROVE  /\ dev'[d] \in DeviceState
             /\ dev'[d].enabled = dev[d].enabled /\ dev'[d].hbeat_msg = dev[d].hbeat_msg
             /\ dev'[d].id = dev[d].id /\ dev'[d].configured = dev[d].configured
  <2>1. dev[d] \in DeviceState
    OBVIOUS
  <2>2. Older(dev[d].elapsed) \in 0 .. MaxAge
    BY <2>1, NetworkAssumption DEF Older, DeviceState
  <2> QED  BY <1>1, <2>1, <2>2 DEF DeviceState
<1>3. dev' \in [Dev -> DeviceState]
  BY <1>1, <1>2
<1>4. AllCurrent'
  <2> SUFFICES ASSUME NEW e \in Dev
               PROVE  Current(e, dev'[e])
    BY DEF AllCurrent, Current, HeartbeatClass
  <2> QED  BY <1>2 DEF AllCurrent, Current, HeartbeatClass
<1>5. ASSUME NEW a \in App
      PROVE  [job[a] EXCEPT !.wait = IF @ > 0 THEN @ - 1 ELSE @] \in Job
  <2>1. job[a] \in Job
    OBVIOUS
  <2>2. (IF job[a].wait > 0 THEN job[a].wait - 1 ELSE job[a].wait) \in 0 .. MaxDelay
    BY <2>1, DeviceAssumption DEF Job
  <2> QED  BY <2>1, <2>2 DEF Job
<1>6. job' \in [App -> Job]
  BY <1>1, <1>5
<1> QED  BY <1>1, <1>3, <1>4, <1>6 DEF NetworkTypeOK

-----------------------------------------------------------------------------
(* The types, and the heartbeats that are kept.                            *)

IInv == DeviceTypeOK /\ AllCurrent

LEMMA SoundPart == IInv <=> DevicesSound /\ listed \in [App -> SUBSET Id]
BY DEF IInv, DeviceTypeOK, DevicesSound

LEMMA AllCurrentIsKept == AllCurrent <=> KeptHeartbeatIsCurrent
BY DEF AllCurrent, Current, KeptHeartbeatIsCurrent

\* The network, the listener and the beginning of trouble.
LEMMA WorldInductive ==
  ASSUME IInv, (\E a \in App : WorldSends(a) \/ Listen(a)) \/ TroubleBegins
  PROVE  IInv'
<1> USE DEF IInv
<1>1. UNCHANGED <<alive, dev, job>>
  BY DEF WorldSends, Listen, TroubleBegins, devVars
<1>2. AllCurrent'
  BY <1>1 DEF AllCurrent, Current, HeartbeatClass
<1>3. ASSUME NEW a \in App, WorldSends(a)
      PROVE  IInv'
  <2>1. PICK m \in Msg : toApp' = [toApp EXCEPT ![a] = <<m>>]
    BY <1>3, DeviceAloneAssumption DEF WorldSends
  <2>2. <<m>> \in Seq(Msg)
    OBVIOUS
  <2>3. toApp' \in [App -> Seq(Msg)]
    BY <2>1, <2>2 DEF DeviceTypeOK, NetworkTypeOK
  <2> QED  BY <1>1, <1>2, <1>3, <2>3 DEF WorldSends, devVars, DeviceTypeOK, NetworkTypeOK
<1>4. ASSUME NEW a \in App, Listen(a)
      PROVE  IInv'
  <2> DEFINE m == Head(toHub[a])
             known == IF m.kind = "app" THEN listed[a] \cup {m.id} ELSE listed[a] \ {m.id}
  <2>1. toHub[a] \in Seq(Msg) /\ toHub[a] # << >>
    BY <1>4 DEF Listen, DeviceTypeOK, NetworkTypeOK, Sender
  <2>2. m \in Msg /\ Tail(toHub[a]) \in Seq(Msg)
    BY <2>1, HeadTailProperties
  <2>3. toHub' \in [Sender -> Seq(Msg)]
    BY <1>4, <2>2 DEF Listen, DeviceTypeOK, NetworkTypeOK
  <2>4. known \in SUBSET Id
    BY <2>2 DEF DeviceTypeOK, Msg, HeartbeatMsg, RequestMsg, ResponseMsg, OtherMsg
  <2>5. listed' = [listed EXCEPT ![a] = known]
    BY <1>4 DEF Listen
  <2> HIDE DEF known
  <2>6. listed' \in [App -> SUBSET Id]
    BY <2>4, <2>5 DEF DeviceTypeOK
  <2> QED
    BY <1>1, <1>2, <1>4, <2>3, <2>6 DEF Listen, devVars, DeviceTypeOK, NetworkTypeOK
<1>5. CASE TroubleBegins
  BY <1>1, <1>2, <1>5 DEF TroubleBegins, DeviceTypeOK, NetworkTypeOK
<1> QED  BY <1>3, <1>4, <1>5

\* The types and the kept heartbeats survive every step.
LEMMA Invariance == ListenerSpec => []IInv
<1>1. ListenerInit => IInv
  <2> SUFFICES ASSUME ListenerInit
               PROVE  IInv
    OBVIOUS
  <2>1. \A d \in Dev : dev[d] = NewDevice(d)
    BY DEF ListenerInit, DeviceInit
  <2>2. dev \in [Dev -> DeviceState] /\ AllCurrent
    BY <2>1, NewDeviceSound DEF ListenerInit, DeviceInit, AllCurrent
  <2>3. NoJob \in Job /\ << >> \in Seq(Msg)
    BY EmptySeq, DeviceAssumption DEF NoJob, Job
  <2> QED
    BY <2>2, <2>3 DEF ListenerInit, DeviceInit, NetworkInit, IInv, DeviceTypeOK, NetworkTypeOK
<1>2. IInv /\ [ListenerNext]_listenerVars => IInv'
  <2> SUFFICES ASSUME IInv, [ListenerNext]_listenerVars
               PROVE  IInv'
    OBVIOUS
  <2>1. ASSUME NEW a \in App, LoopStep(a), UNCHANGED listed
        PROVE  IInv'
    <3>1. DevicesSound'
      BY <2>1, SoundPart, LoopBeginsKeeps, HandleMessageKeeps, PollHeartbeatKeeps,
         DisableNextKeeps, CloseNextKeeps DEF LoopStep
    <3>2. listed' \in [App -> SUBSET Id]
      BY <2>1, SoundPart
    <3> QED  BY <3>1, <3>2 DEF IInv, DeviceTypeOK, DevicesSound
  <2>2. ASSUME NEW a \in App, ProgramUses(a), UNCHANGED listed
        PROVE  IInv'
    <3>1. DevicesSound'
      BY <2>2, SoundPart, LoopBeginsKeeps, ProgramKeeps, ProcessKeeps,
         DeviceAloneAssumption DEF ProgramUses
    <3>2. listed' \in [App -> SUBSET Id]
      BY <2>2, SoundPart
    <3> QED  BY <3>1, <3>2 DEF IInv, DeviceTypeOK, DevicesSound
  <2>3. CASE UNCHANGED listenerVars
    BY <2>3 DEF listenerVars, IInv, AllCurrent, Current, HeartbeatClass, DeviceTypeOK, NetworkTypeOK
  <2>4. ASSUME ListenerTick PROVE IInv'
    <3>1. DevicesSound'
      BY <2>4, SoundPart, TickKeeps DEF ListenerTick
    <3>2. listed' \in [App -> SUBSET Id]
      BY <2>4, SoundPart DEF ListenerTick
    <3> QED  BY <3>1, <3>2 DEF IInv, DeviceTypeOK, DevicesSound
  <2> QED  BY <2>1, <2>2, <2>3, <2>4, WorldInductive DEF ListenerNext
<1> QED  BY <1>1, <1>2, PTL DEF ListenerSpec

\* Devices, loops and queues are well typed, forever.
THEOREM DeviceTypeCorrect == ListenerSpec => []DeviceTypeOK
BY Invariance, PTL DEF IInv

\* The heartbeat that an enabled device keeps and sends again says who it is now,
\* through every order of configurations, renamings, failed goodbyes, requests,
\* crashes and restarts.
THEOREM KeptHeartbeatHolds == ListenerSpec => []KeptHeartbeatIsCurrent
<1>1. IInv => KeptHeartbeatIsCurrent
  BY AllCurrentIsKept DEF IInv
<1> QED  BY <1>1, Invariance, PTL

-----------------------------------------------------------------------------
(***************************************************************************)
(* The listener.  Read(S, q) is what it lists when it has read the up to   *)
(* three heartbeats of q, having listed S before.                          *)
(***************************************************************************)
Hear(S, m) == IF m.kind = "app" THEN S \cup {m.id} ELSE S \ {m.id}

Read(S, q) ==
  IF Len(q) = 0 THEN S
  ELSE IF Len(q) = 1 THEN Hear(S, q[1])
  ELSE IF Len(q) = 2 THEN Hear(Hear(S, q[1]), q[2])
  ELSE Hear(Hear(Hear(S, q[1]), q[2]), q[3])

Owner == CHOOSE owner \in [Id -> Dev] : SharedOut(owner)

DevicesOf(a) == {d \in Dev : AppOf[d] = a}

EnabledIds(a) == {dev[d].id : d \in {e \in Dev : AppOf[e] = a /\ dev[e].enabled}}

Others(d) ==
  {dev[e].id : e \in {e \in Dev : AppOf[e] = AppOf[d] /\ e # d /\ dev[e].enabled}}

\* The messages that may reach an application now.
Coming == {m \in World : m.kind = "request" => refusing}

\* Devices keep to their own identifiers.
OwnIds == \A d \in Dev : Owner[dev[d].id] = d

\* Loops keep to the devices of their own application and to messages that come.
LoopsInOrder ==
  \A a \in App : /\ job[a].todo \in Seq(DevicesOf(a))
                 /\ job[a].msg \in Coming \cup {NoMsg}
                 /\ toApp[a] \in Seq(Coming)

\* Before trouble begins, the listener will list the enabled devices when it has
\* read what is on its way, and disabled devices keep no heartbeat.
HeardInOrder ==
  ~refusing =>
    /\ \A d \in Dev : ~dev[d].enabled => dev[d].hbeat_msg = NoMsg
    /\ \A a \in App : /\ toHub[a] \in Seq(HeartbeatMsg) /\ Len(toHub[a]) <= 3
                      /\ Read(listed[a], toHub[a]) = EnabledIds(a)

LInv == OwnIds /\ LoopsInOrder /\ HeardInOrder

\* The last heartbeat is heard after the others.
LEMMA ReadAppend ==
  ASSUME NEW q \in Seq(HeartbeatMsg), Len(q) <= 2, NEW m \in HeartbeatMsg, NEW S
  PROVE  /\ Read(S, Append(q, m)) = Hear(Read(S, q), m)
         /\ Len(Append(q, m)) = Len(q) + 1 /\ Append(q, m) \in Seq(HeartbeatMsg)
<1> DEFINE new == Append(q, m)
<1>1. /\ Len(q) \in Nat /\ new \in Seq(HeartbeatMsg) /\ Len(new) = Len(q) + 1
      /\ \A i \in 1 .. Len(q) : new[i] = q[i]
      /\ new[Len(q) + 1] = m
  BY AppendProperties, LenProperties
<1> HIDE DEF new
<1>2. Len(q) = 0 \/ Len(q) = 1 \/ Len(q) = 2
  <2>1. \A n \in Nat : n <= 2 => n = 0 \/ n = 1 \/ n = 2
    OBVIOUS
  <2> QED  BY <1>1, <2>1
<1>3. Len(q) = 0 => Read(S, new) = Hear(Read(S, q), m)
  BY <1>1 DEF Read
<1>4. Len(q) = 1 => Read(S, new) = Hear(Read(S, q), m)
  BY <1>1 DEF Read
<1>5. Len(q) = 2 => Read(S, new) = Hear(Read(S, q), m)
  BY <1>1 DEF Read
<1>6. Read(S, new) = Hear(Read(S, q), m)
  BY <1>2, <1>3, <1>4, <1>5
<1> QED  BY <1>1, <1>6 DEF new

\* The first heartbeat is heard before the others.
LEMMA ReadTail ==
  ASSUME NEW q \in Seq(HeartbeatMsg), q # << >>, Len(q) <= 3, NEW S
  PROVE  /\ Read(S, q) = Read(Hear(S, Head(q)), Tail(q))
         /\ Head(q) \in HeartbeatMsg
         /\ Tail(q) \in Seq(HeartbeatMsg) /\ Len(Tail(q)) <= 3
<1> DEFINE t == Tail(q)
<1>1. /\ Len(q) \in Nat \ {0} /\ Head(q) = q[1] /\ Head(q) \in HeartbeatMsg
      /\ t \in Seq(HeartbeatMsg) /\ Len(t) = Len(q) - 1
      /\ \A i \in 1 .. Len(t) : t[i] = q[i + 1]
  BY HeadTailProperties, EmptySeq
<1> HIDE DEF t
<1>2. Len(q) = 1 \/ Len(q) = 2 \/ Len(q) = 3
  BY <1>1
<1>3. ASSUME Len(q) = 1
      PROVE  Read(S, q) = Read(Hear(S, Head(q)), t)
  BY <1>1, <1>3 DEF Read
<1>4. ASSUME Len(q) = 2
      PROVE  Read(S, q) = Read(Hear(S, Head(q)), t)
  <2>1. Len(t) = 1 /\ t[1] = q[2]
    BY <1>1, <1>4
  <2> QED  BY <1>1, <1>4, <2>1 DEF Read
<1>5. ASSUME Len(q) = 3
      PROVE  Read(S, q) = Read(Hear(S, Head(q)), t)
  <2>1. Len(t) = 2 /\ t[1] = q[2] /\ t[2] = q[3]
    BY <1>1, <1>5
  <2> QED  BY <1>1, <1>5, <2>1 DEF Read
<1>6. Read(S, q) = Read(Hear(S, Head(q)), t)
  BY <1>2, <1>3, <1>4, <1>5
<1> QED  BY <1>1, <1>6 DEF t

\* What an operation has sent so far tells a listener that lists S whether the
\* device is enabled and what it is called, and nothing of the others, O.
ToldTo(S, O, p) ==
  /\ p.r.id \notin O
  /\ Read(S, p.out) = IF p.r.enabled THEN O \cup {p.r.id} ELSE O
  /\ ~p.r.enabled => p.r.hbeat_msg = NoMsg

\* A hello tells that the device is there, also when it is the one built before.
LEMMA HelloTold ==
  ASSUME NEW d \in Dev, NEW p, Sound(d, p), Len(p.out) <= 2, p.r.enabled,
         NEW sent \in {TRUE}, NEW S, NEW O, Read(S, p.out) \ {p.r.id} = O
  PROVE  LET q == SendHello(d, p, sent)
         IN  ToldTo(S, O, q) /\ Len(q.out) = Len(p.out) + 1
<1> DEFINE m == IF p.r.hbeat_msg = NoMsg THEN HeartbeatMessageNew(d, p.r, "app")
                                         ELSE p.r.hbeat_msg
           q == SendHello(d, p, sent)
<1>1. p.r \in DeviceState /\ p.out \in Seq(HeartbeatMsg)
  BY DEF Sound, Progress
<1>2. m \in HeartbeatMsg /\ m.kind = "app" /\ m.id = p.r.id
  BY <1>1, NewHeartbeat DEF DeviceState, Sound, Current
<1>3. q.out = Append(p.out, m)
  BY DEF SendHello
<1>4. q.r.enabled /\ q.r.id = p.r.id
  BY ZenonT(30), SendHelloSound
<1> HIDE DEF m, q
<1>5. Read(S, q.out) = O \cup {p.r.id}
  BY <1>1, <1>2, <1>3, ReadAppend DEF Hear
<1>6. Len(q.out) = Len(p.out) + 1
  BY <1>1, <1>2, <1>3, ReadAppend
<1>7. ToldTo(S, O, q)
  BY <1>4, <1>5 DEF ToldTo
<1> QED  BY <1>6, <1>7 DEF q

\* A goodbye tells that the device is gone.
LEMMA GoodbyeTold ==
  ASSUME NEW d \in Dev, NEW p, Sound(d, p), Len(p.out) <= 2,
         NEW sent \in {TRUE}, NEW S
  PROVE  LET q == SendGoodbye(d, p, sent)
         IN  /\ q.r.hbeat_msg = NoMsg
             /\ Read(S, q.out) = Read(S, p.out) \ {p.r.id}
             /\ Len(q.out) = Len(p.out) + 1
<1> DEFINE m == HeartbeatMessageNew(d, p.r, "end")
           q == SendGoodbye(d, p, sent)
<1>1. p.r \in DeviceState /\ p.out \in Seq(HeartbeatMsg)
  BY DEF Sound, Progress
<1>2. m \in HeartbeatMsg /\ m.kind = "end" /\ m.id = p.r.id
  BY <1>1, NewHeartbeat
<1>3. q.out = Append(p.out, m)
  BY DEF SendGoodbye
<1>4. q.r.hbeat_msg = NoMsg
  <2>1. q.r = [p.r EXCEPT !.hbeat_msg = NoMsg]
    BY DEF SendGoodbye
  <2> HIDE DEF q
  <2> QED  BY <1>1, <2>1 DEF DeviceState
<1> HIDE DEF m, q
<1>5. Read(S, q.out) = Read(S, p.out) \ {p.r.id}
  <2>1. Read(S, q.out) = Hear(Read(S, p.out), m)
    BY <1>1, <1>2, <1>3, ReadAppend
  <2>2. Hear(Read(S, p.out), m) = Read(S, p.out) \ {p.r.id}
    BY <1>2 DEF Hear
  <2> QED  BY <2>1, <2>2
<1>6. Len(q.out) = Len(p.out) + 1
  BY <1>1, <1>2, <1>3, ReadAppend
<1> QED  BY <1>4, <1>5, <1>6 DEF q

\* Enabling and disabling tell the listener of it.
LEMMA EnableTold ==
  ASSUME NEW d \in Dev, NEW p, Sound(d, p), Len(p.out) <= 2, NEW on \in BOOLEAN,
         NEW sent \in {TRUE}, NEW S, NEW O, ToldTo(S, O, p)
  PROVE  LET q == Enable(d, p, on, sent)
         IN  ToldTo(S, O, q) /\ Len(q.out) <= Len(p.out) + 1
<1> DEFINE q == Enable(d, p, on, sent)
<1>1. p \in Progress /\ p.r \in DeviceState /\ Len(p.out) \in Nat
  BY DEF Sound, Progress
<1>2. CASE p.r.enabled = on
  <2>1. q = [p EXCEPT !.ok = TRUE]
    BY <1>2 DEF Enable
  <2>2. q.r = p.r /\ q.out = p.out
    BY <1>1, <2>1 DEF Progress
  <2> HIDE DEF q
  <2>3. ToldTo(S, O, q)
    BY <2>2 DEF ToldTo
  <2>4. Len(q.out) <= Len(p.out) + 1
    BY <1>1, <2>2
  <2> QED  BY <2>3, <2>4 DEF q
<1>3. CASE p.r.enabled # on /\ on
  <2> DEFINE r == [p.r EXCEPT !.enabled = TRUE, !.hbeat_msg = NoMsg]
             b == [p EXCEPT !.r = r]
  <2>1. r \in DeviceState /\ r.enabled /\ r.hbeat_msg = NoMsg /\ r.id = p.r.id
    BY <1>1 DEF DeviceState
  <2>2. [p EXCEPT !.r.enabled = TRUE, !.r.hbeat_msg = NoMsg] = b
    BY <1>1 DEF Progress, DeviceState
  <2>3. q = SendHello(d, b, sent)
    BY <1>3, <2>2 DEF Enable
  <2> HIDE DEF r, q
  <2>4. Sound(d, b) /\ b.r = r /\ b.out = p.out
    BY <1>1, <2>1, AssignSound DEF Current
  <2> HIDE DEF b
  <2>5. Read(S, b.out) \ {b.r.id} = O
    BY <1>1, <1>3, <2>1, <2>4 DEF ToldTo, DeviceState
  <2>6. ToldTo(S, O, q) /\ Len(q.out) = Len(b.out) + 1
    BY <2>1, <2>3, <2>4, <2>5, HelloTold
  <2>7. Len(q.out) <= Len(p.out) + 1
    BY <1>1, <2>4, <2>6
  <2> QED  BY <2>6, <2>7 DEF q
<1>4. CASE p.r.enabled # on /\ ~on
  <2> DEFINE r == [p.r EXCEPT !.enabled = FALSE]
             b == [p EXCEPT !.r = r]
  <2>1. r \in DeviceState /\ ~r.enabled /\ r.id = p.r.id
    BY <1>1 DEF DeviceState
  <2>2. [p EXCEPT !.r.enabled = FALSE] = b
    BY <1>1 DEF Progress, DeviceState
  <2>3. q = SendGoodbye(d, b, sent)
    BY <1>4, <2>2 DEF Enable
  <2> HIDE DEF r, q
  <2>4. Sound(d, b) /\ b.r = r /\ b.out = p.out
    BY <1>1, <2>1, AssignSound DEF Current
  <2> HIDE DEF b
  <2>5. p.r.enabled
    BY <1>1, <1>4 DEF DeviceState
  <2>6. Read(S, b.out) \ {b.r.id} = O /\ b.r.id \notin O
    BY <2>1, <2>4, <2>5 DEF ToldTo
  <2>7. /\ q.r.hbeat_msg = NoMsg
        /\ Read(S, q.out) = Read(S, b.out) \ {b.r.id}
        /\ Len(q.out) = Len(b.out) + 1
    BY <2>3, <2>4, GoodbyeTold
  <2>8. ToldTo(S, O, q)
    <3>1. ~q.r.enabled /\ q.r.id = b.r.id
      BY ZenonT(30), <2>1, <2>3, <2>4, SendGoodbyeSound
    <3> QED  BY <2>6, <2>7, <3>1 DEF ToldTo
  <2>9. Len(q.out) <= Len(p.out) + 1
    BY <1>1, <2>4, <2>7
  <2> QED  BY <2>8, <2>9 DEF q
<1> QED  BY <1>2, <1>3, <1>4

\* A new identifier comes with the goodbye of the old one and a hello of its own.
LEMMA IdSetTold ==
  ASSUME NEW d \in Dev, NEW p, Sound(d, p), Len(p.out) = 0, NEW id \in Id,
         NEW bye \in {TRUE}, NEW hello \in {TRUE},
         NEW S, NEW O, ToldTo(S, O, p), id \notin O
  PROVE  LET q == IdSet(d, p, id, bye, hello)
         IN  ToldTo(S, O, q) /\ Len(q.out) <= 2
<1> DEFINE gone == SendGoodbye(d, p, bye)
           named(q) == [q.r EXCEPT !.id = id]
           q == IdSet(d, p, id, bye, hello)
<1>1. p \in Progress /\ p.r \in DeviceState
  BY DEF Sound, Progress
<1>2. CASE id = p.r.id
  <2>1. q = [p EXCEPT !.ok = TRUE]
    BY <1>2 DEF IdSet
  <2>2. q.r = p.r /\ q.out = p.out
    BY <1>1, <2>1 DEF Progress
  <2> HIDE DEF q
  <2>3. ToldTo(S, O, q) /\ Len(q.out) <= 2
    BY <2>2 DEF ToldTo
  <2> QED  BY <2>3 DEF q
<1>3. CASE id # p.r.id /\ ~p.r.enabled
  <2>1. q = [p EXCEPT !.r.id = id, !.ok = TRUE]
    BY <1>3 DEF IdSet
  <2>2. /\ q.r.id = id /\ q.out = p.out /\ q.r.hbeat_msg = p.r.hbeat_msg
        /\ ~q.r.enabled
    BY <1>1, <1>3, <2>1 DEF Progress, DeviceState
  <2> HIDE DEF q
  <2>3. ToldTo(S, O, q) /\ Len(q.out) <= 2
    BY <1>3, <2>2 DEF ToldTo
  <2> QED  BY <2>3 DEF q
<1>4. CASE id # p.r.id /\ p.r.enabled
  <2>1. Sound(d, gone) /\ gone.r.enabled
    BY <1>4, SendGoodbyeSound
  <2>2. /\ gone.r.hbeat_msg = NoMsg
        /\ Read(S, gone.out) = Read(S, p.out) \ {p.r.id} /\ Len(gone.out) = 1
    <3>1. Len(p.out) <= 2
      OBVIOUS
    <3>2. Len(gone.out) = Len(p.out) + 1
      BY <3>1, GoodbyeTold
    <3>3. Len(gone.out) = 1
      BY <3>2
    <3> QED  BY <3>1, <3>3, GoodbyeTold
  <2>3. Read(S, gone.out) = O
    BY <1>4, <2>2 DEF ToldTo
  <2>4. q = SendHello(d, [gone EXCEPT !.r.id = id], hello)
    BY <1>4, SendGoodbyeResult DEF IdSet
  <2> HIDE DEF gone, q
  <2>5. gone \in Progress /\ gone.r \in DeviceState
    BY <2>1 DEF Sound, Progress
  <2>6. [gone EXCEPT !.r.id = id] = [gone EXCEPT !.r = named(gone)]
    BY <2>5 DEF Progress, DeviceState
  <2>7. /\ named(gone) \in DeviceState /\ named(gone).hbeat_msg = NoMsg
        /\ named(gone).id = id /\ named(gone).enabled
    BY <2>1, <2>2, <2>5 DEF DeviceState
  <2> HIDE DEF named
  <2> DEFINE b == [gone EXCEPT !.r = named(gone)]
  <2>8. Sound(d, b) /\ b.r = named(gone) /\ b.out = gone.out
    BY <2>5, <2>7, AssignSound DEF Current
  <2>9. q = SendHello(d, b, hello)
    BY <2>4, <2>6
  <2> HIDE DEF b
  <2>10. b.r.enabled /\ Len(b.out) = 1 /\ Read(S, b.out) \ {b.r.id} = O
    BY <2>2, <2>3, <2>7, <2>8
  <2>11. ToldTo(S, O, q) /\ Len(q.out) = Len(b.out) + 1
    <3>1. Len(b.out) <= 2
      BY <2>10
    <3> QED  BY <2>8, <2>9, <2>10, <3>1, HelloTold
  <2>12. Len(q.out) <= 2
    BY <2>10, <2>11
  <2> QED  BY <2>11, <2>12 DEF q
<1> QED  BY <1>2, <1>3, <1>4

\* A heartbeat that is built again tells nothing new.
LEMMA RebuildTold ==
  ASSUME NEW d \in Dev, NEW p \in Progress, Len(p.out) <= 2, p.r.enabled,
         NEW sent \in {TRUE}, NEW S, NEW O, ToldTo(S, O, p)
  PROVE  LET q == SendHello(d, [p EXCEPT !.r.hbeat_msg = NoMsg], sent)
         IN  ToldTo(S, O, q) /\ Len(q.out) = Len(p.out) + 1
<1> DEFINE r == [p.r EXCEPT !.hbeat_msg = NoMsg]
           b == [p EXCEPT !.r = r]
<1>1. p.r \in DeviceState
  BY DEF Progress
<1>2. r \in DeviceState /\ r.hbeat_msg = NoMsg /\ r.id = p.r.id /\ r.enabled
  BY <1>1 DEF DeviceState
<1>3. [p EXCEPT !.r.hbeat_msg = NoMsg] = b
  BY <1>1 DEF Progress, DeviceState
<1> HIDE DEF r
<1>4. Sound(d, b) /\ b.r = r /\ b.out = p.out
  BY <1>2, AssignSound DEF Current
<1> HIDE DEF b
<1>5. Read(S, b.out) \ {b.r.id} = O
  BY <1>2, <1>4 DEF ToldTo
<1> QED  BY <1>2, <1>3, <1>4, <1>5, HelloTold

\* A configuration tells the listener of a new identifier, with one hello too many
\* when it is the first one.
LEMMA ConfigSetTold ==
  ASSUME NEW d \in Dev, NEW p, Sound(d, p), Len(p.out) = 0, NEW m \in ResponseMsg,
         NEW bye \in {TRUE}, NEW hello \in {TRUE},
         NEW inform \in {TRUE}, NEW S, NEW O, ToldTo(S, O, p), m.newconf \notin O
  PROVE  LET q == ConfigSet(d, p, m, bye, hello, inform)
         IN  ToldTo(S, O, q) /\ Len(q.out) <= 3
<1>1. PICK stopped, set, started :
        ConfigSteps(d, p, m, bye, hello, inform, stopped, set, started)
  BY ConfigSetShape
<1>2. ToldTo(S, O, started) /\ started \in Progress /\ Len(started.out) <= 2
  <2>1. CASE stopped = Enable(d, p, FALSE, bye) /\ started = Enable(d, set, TRUE, hello)
    <3>1. /\ \A on \in BOOLEAN : ToldTo(S, O, Enable(d, p, on, bye))
          /\ \A on \in BOOLEAN : Len(Enable(d, p, on, bye).out) <= Len(p.out) + 1
          /\ \A on \in BOOLEAN : ~on => ~Enable(d, p, on, bye).r.enabled
      <4>1. Len(p.out) <= 2
        OBVIOUS
      <4> QED  BY <4>1, EnableTold, EnableSound
    <3>2. ToldTo(S, O, stopped) /\ Len(stopped.out) <= 1 /\ ~stopped.r.enabled
      <4>1. ToldTo(S, O, stopped) /\ ~stopped.r.enabled
        BY <2>1, <3>1
      <4>2. Len(stopped.out) <= Len(p.out) + 1
        BY <2>1, <3>1
      <4> QED  BY <4>1, <4>2
    <3>3. Sound(d, set) /\ ToldTo(S, O, set)
      BY <1>1, <3>2 DEF ConfigSteps, ToldTo, Sound, Current
    <3>4. Len(set.out) <= 1 /\ Len(set.out) \in Nat
      BY <1>1, <3>2, <3>3 DEF ConfigSteps, Sound, Progress
    <3>5. /\ \A on \in BOOLEAN : ToldTo(S, O, Enable(d, set, on, hello))
          /\ \A on \in BOOLEAN : Len(Enable(d, set, on, hello).out) <= Len(set.out) + 1
          /\ \A on \in BOOLEAN : Sound(d, Enable(d, set, on, hello))
      <4>1. Len(set.out) <= 2
        BY <3>4
      <4> QED  BY <3>3, <4>1, EnableTold, EnableSound
    <3>6. /\ ToldTo(S, O, started) /\ Len(started.out) <= Len(set.out) + 1
          /\ Sound(d, started)
      BY <2>1, <3>5
    <3>7. Len(started.out) \in Nat
      BY <3>6 DEF Sound, Progress
    <3>8. Len(started.out) <= 2
      BY <3>4, <3>6, <3>7
    <3> QED  BY <3>6, <3>8 DEF Sound
  <2>2. CASE /\ stopped = p /\ started = set
             /\ p.r.enabled => m.newconf = p.r.id /\ Ticks(m) = p.r.interval
    <3>1. set \in Progress /\ set.out = p.out
      BY <1>1, <2>2 DEF ConfigSteps
    <3>2. ToldTo(S, O, set)
      BY <1>1, <2>2 DEF ConfigSteps, ToldTo
    <3> QED  BY <2>2, <3>1, <3>2
  <2> QED  BY <1>1, <2>1, <2>2 DEF ConfigSteps
<1> DEFINE q == ConfigSet(d, p, m, bye, hello, inform)
<1>3. q = IF ~p.r.configured /\ started.r.hbeat_msg # NoMsg
            THEN SendHello(d, [started EXCEPT !.r.hbeat_msg = NoMsg], inform)
            ELSE started
  BY <1>1 DEF ConfigSteps
<1> HIDE DEF q
<1>4. CASE ~p.r.configured /\ started.r.hbeat_msg # NoMsg
  <2>1. started.r.enabled
    BY <1>2, <1>4 DEF ToldTo
  <2>2. ToldTo(S, O, q) /\ Len(q.out) = Len(started.out) + 1
    BY <1>2, <1>3, <1>4, <2>1, RebuildTold
  <2>3. Len(started.out) \in Nat
    BY <1>2 DEF Progress
  <2>4. Len(q.out) <= 3
    BY <1>2, <2>2, <2>3
  <2> QED  BY <2>2, <2>4 DEF q
<1>5. CASE ~(~p.r.configured /\ started.r.hbeat_msg # NoMsg)
  <2>1. q = started
    BY <1>3, <1>5
  <2>2. Len(started.out) \in Nat
    BY <1>2 DEF Progress
  <2>3. ToldTo(S, O, q) /\ Len(q.out) <= 3
    BY <1>2, <2>1, <2>2
  <2> QED  BY <2>3 DEF q
<1> QED  BY <1>4, <1>5

-----------------------------------------------------------------------------
(***************************************************************************)
(* The listener hears of every step of the devices.  Fit(d, p) is what the *)
(* progress p of an operation on d has to be when it is stored.            *)
(***************************************************************************)
Fit(d, p) ==
  /\ Sound(d, p)
  /\ Owner[p.r.id] = d
  /\ ~refusing => ToldTo(listed[AppOf[d]], Others(d), p) /\ Len(p.out) <= 3

\* The identifiers can be shared out among the devices, so Owner does it.
LEMMA OwnerShares == Owner \in [Id -> Dev] /\ SharedOut(Owner)
BY ListenerAssumption DEF Owner

\* A new device has an identifier of its own, and is not enabled.
LEMMA NewDeviceOwn ==
  ASSUME NEW d \in Dev
  PROVE  /\ Owner[NewDevice(d).id] = d
         /\ ~NewDevice(d).enabled /\ NewDevice(d).hbeat_msg = NoMsg
<1>1. Owner[FirstId[d]] = d
  BY OwnerShares DEF SharedOut
<1>2. /\ NewDevice(d).id = FirstId[d] /\ ~NewDevice(d).enabled
      /\ NewDevice(d).hbeat_msg = NoMsg
  BY DEF NewDevice
<1> QED  BY <1>1, <1>2

\* An identifier of d is not one of another device.
LEMMA OthersApart ==
  ASSUME OwnIds, NEW d \in Dev, NEW id, Owner[id] = d
  PROVE  id \notin Others(d)
BY DEF OwnIds, Others

\* The enabled devices are d, if it is, and the others.
LEMMA EnabledSplit ==
  ASSUME NEW d \in Dev
  PROVE  EnabledIds(AppOf[d]) =
           IF dev[d].enabled THEN Others(d) \cup {dev[d].id} ELSE Others(d)
BY DEF EnabledIds, Others

\* Without trouble every datagram is sent.
LEMMA SendResultSent ==
  ASSUME ~refusing
  PROVE  SendResult = {TRUE}
BY DEF SendResult

\* An operation may begin when the listener has read everything.
LEMMA BeginFits ==
  ASSUME IInv, LInv, NEW d \in Dev, toHub[AppOf[d]] = << >>,
         NEW r \in DeviceState, Current(d, r),
         r.enabled <=> dev[d].enabled, r.id = dev[d].id, r.hbeat_msg = dev[d].hbeat_msg
  PROVE  Fit(d, Begin(r)) /\ Len(Begin(r).out) = 0
<1> DEFINE p == Begin(r)
           S == listed[AppOf[d]]
<1>1. Sound(d, p)
  BY BeginSound
<1>2. p.r = r /\ p.out = << >> /\ Len(p.out) = 0
  BY DEF Begin
<1> HIDE DEF p
<1>3. Owner[p.r.id] = d
  BY <1>2 DEF LInv, OwnIds
<1>4. ASSUME ~refusing
      PROVE  ToldTo(S, Others(d), p)
  <2>1. AppOf[d] \in App
    BY DeviceAssumption
  <2>2. Read(S, toHub[AppOf[d]]) = EnabledIds(AppOf[d])
    BY <1>4, <2>1 DEF LInv, HeardInOrder
  <2>3. Read(S, p.out) = EnabledIds(AppOf[d])
    BY <1>2, <2>2
  <2>4. Read(S, p.out) = IF p.r.enabled THEN Others(d) \cup {p.r.id} ELSE Others(d)
    BY <1>2, <2>3, EnabledSplit
  <2>5. p.r.id \notin Others(d)
    BY <1>3, OthersApart DEF LInv
  <2>6. ~p.r.enabled => p.r.hbeat_msg = NoMsg
    BY <1>2, <1>4 DEF LInv, HeardInOrder
  <2> QED  BY <2>4, <2>5, <2>6 DEF ToldTo
<1>5. Fit(d, p)
  BY <1>1, <1>2, <1>3, <1>4 DEF Fit
<1> QED  BY <1>2, <1>5 DEF p

\* A hello may follow, from an enabled device before the trouble.
LEMMA HelloFits ==
  ASSUME NEW d \in Dev, NEW p, Fit(d, p), Len(p.out) = 0, refusing \/ p.r.enabled,
         NEW sent \in SendResult
  PROVE  Fit(d, SendHello(d, p, sent))
<1> DEFINE S == listed[AppOf[d]]
           q == SendHello(d, p, sent)
<1>1. Sound(d, p) /\ Owner[p.r.id] = d /\ sent \in BOOLEAN
  BY SendResultType DEF Fit
<1>2. Sound(d, q) /\ q.r.id = p.r.id
  BY <1>1, SendHelloSound
<1>3. ASSUME ~refusing
      PROVE  ToldTo(S, Others(d), q) /\ Len(q.out) <= 3
  <2>1. sent \in {TRUE} /\ p.r.enabled /\ Len(p.out) <= 2
    <3>1. sent \in {TRUE}
      BY <1>3, SendResultSent
    <3>2. p.r.enabled
      BY <1>3
    <3>3. Len(p.out) <= 2
      OBVIOUS
    <3> QED  BY <3>1, <3>2, <3>3
  <2>2. ToldTo(S, Others(d), p)
    BY <1>3 DEF Fit
  <2>3. Read(S, p.out) \ {p.r.id} = Others(d)
    BY <2>1, <2>2 DEF ToldTo
  <2> HIDE DEF S
  <2>4. ToldTo(S, Others(d), q) /\ Len(q.out) = Len(p.out) + 1
    BY <1>1, <2>1, <2>3, HelloTold
  <2> HIDE DEF q
  <2>5. Len(q.out) <= 3
    BY <2>4
  <2> QED  BY <2>4, <2>5
<1> HIDE DEF q
<1>4. Fit(d, q)
  BY <1>1, <1>2, <1>3 DEF Fit
<1> QED  BY <1>4 DEF q

\* Enabling and disabling fit.
LEMMA EnableFits ==
  ASSUME NEW d \in Dev, NEW p, Fit(d, p), Len(p.out) = 0, NEW on \in BOOLEAN,
         NEW sent \in SendResult
  PROVE  Fit(d, Enable(d, p, on, sent))
<1> DEFINE S == listed[AppOf[d]]
           q == Enable(d, p, on, sent)
<1>1. Sound(d, p) /\ Owner[p.r.id] = d /\ sent \in BOOLEAN
  BY SendResultType DEF Fit
<1>2. Sound(d, q) /\ q.r.id = p.r.id
  BY <1>1, EnableSound
<1>3. ASSUME ~refusing
      PROVE  ToldTo(S, Others(d), q) /\ Len(q.out) <= 3
  <2>1. sent \in {TRUE} /\ Len(p.out) <= 2
    <3>1. sent \in {TRUE}
      BY <1>3, SendResultSent
    <3>2. Len(p.out) <= 2
      OBVIOUS
    <3> QED  BY <3>1, <3>2
  <2>2. ToldTo(S, Others(d), p)
    BY <1>3 DEF Fit
  <2> HIDE DEF S
  <2>3. ToldTo(S, Others(d), q) /\ Len(q.out) <= Len(p.out) + 1
    BY <1>1, <2>1, <2>2, EnableTold
  <2> HIDE DEF q
  <2>4. Len(q.out) \in Nat
    BY <1>2 DEF Sound, Progress
  <2>5. Len(q.out) <= 3
    BY <2>3, <2>4
  <2> QED  BY <2>3, <2>5
<1> HIDE DEF q
<1>4. Fit(d, q)
  BY <1>1, <1>2, <1>3 DEF Fit
<1> QED  BY <1>4 DEF q

\* A new identifier of the device fits.
LEMMA IdSetFits ==
  ASSUME OwnIds, NEW d \in Dev, NEW p, Fit(d, p), Len(p.out) = 0,
         NEW id \in Id, Owner[id] = d,
         NEW bye \in SendResult, NEW hello \in SendResult
  PROVE  Fit(d, IdSet(d, p, id, bye, hello))
<1> DEFINE S == listed[AppOf[d]]
           q == IdSet(d, p, id, bye, hello)
<1>1. Sound(d, p) /\ Owner[p.r.id] = d /\ bye \in BOOLEAN /\ hello \in BOOLEAN
  BY SendResultType DEF Fit
<1>2. Sound(d, q) /\ q.r.id \in {p.r.id, id}
  BY <1>1, IdSetSound
<1>3. ASSUME ~refusing
      PROVE  ToldTo(S, Others(d), q) /\ Len(q.out) <= 3
  <2>1. bye \in {TRUE} /\ hello \in {TRUE} /\ id \notin Others(d)
    BY <1>3, SendResultSent, OthersApart
  <2>2. ToldTo(S, Others(d), p)
    BY <1>3 DEF Fit
  <2> HIDE DEF S
  <2>3. ToldTo(S, Others(d), q) /\ Len(q.out) <= 2
    BY <1>1, <2>1, <2>2, IdSetTold
  <2> HIDE DEF q
  <2>4. Len(q.out) \in Nat
    BY <1>2 DEF Sound, Progress
  <2>5. Len(q.out) <= 3
    BY <2>3, <2>4
  <2> QED  BY <2>3, <2>5
<1> HIDE DEF q
<1>4. Fit(d, q)
  BY <1>1, <1>2, <1>3 DEF Fit
<1> QED  BY <1>4 DEF q

\* So does a configuration.
LEMMA ConfigSetFits ==
  ASSUME OwnIds, NEW d \in Dev, NEW p, Fit(d, p), Len(p.out) = 0,
         NEW m \in ResponseMsg, Owner[m.newconf] = d,
         NEW bye \in SendResult, NEW hello \in SendResult, NEW inform \in SendResult
  PROVE  Fit(d, ConfigSet(d, p, m, bye, hello, inform))
<1> DEFINE S == listed[AppOf[d]]
           q == ConfigSet(d, p, m, bye, hello, inform)
<1>1. /\ Sound(d, p) /\ Owner[p.r.id] = d
      /\ bye \in BOOLEAN /\ hello \in BOOLEAN /\ inform \in BOOLEAN
  BY SendResultType DEF Fit
<1>2. Sound(d, q) /\ q.r.id = m.newconf
  BY <1>1, ConfigSetSound
<1>3. ASSUME ~refusing
      PROVE  ToldTo(S, Others(d), q) /\ Len(q.out) <= 3
  <2>1. /\ bye \in {TRUE} /\ hello \in {TRUE} /\ inform \in {TRUE}
        /\ m.newconf \notin Others(d)
    BY <1>3, SendResultSent, OthersApart
  <2>2. ToldTo(S, Others(d), p)
    BY <1>3 DEF Fit
  <2> HIDE DEF S
  <2> QED  BY <1>1, <2>1, <2>2, ConfigSetTold
<1> HIDE DEF q
<1>4. Fit(d, q)
  BY <1>1, <1>2, <1>3 DEF Fit
<1> QED  BY <1>4 DEF q

\* A progress that fits is stored and sent: the listener will hear of it.
LEMMA CommitHeard ==
  ASSUME IInv, LInv, NEW d \in Dev, toHub[AppOf[d]] = << >>,
         NEW p, Fit(d, p), Commit(d, p), UNCHANGED <<listed, refusing>>
  PROVE  OwnIds' /\ HeardInOrder'
<1> DEFINE a == AppOf[d]
<1>1. dev' = [dev EXCEPT ![d] = p.r] /\ dev \in [Dev -> DeviceState]
  BY DEF Commit, IInv, DeviceTypeOK
<1>2. OwnIds'
  BY <1>1 DEF LInv, OwnIds, Fit
<1>3. ASSUME ~refusing
      PROVE  HeardInOrder'
  <2>1. a \in App /\ a \in Sender /\ toHub \in [Sender -> Seq(Msg)]
    BY DeviceAssumption DEF Sender, IInv, DeviceTypeOK, NetworkTypeOK
  <2>2. /\ p.out \in Seq(HeartbeatMsg) /\ Len(p.out) <= 3 /\ Len(p.out) \in Nat
        /\ ToldTo(listed[a], Others(d), p)
    BY <1>3 DEF Fit, Sound, Progress
  <2>3. toHub' = [toHub EXCEPT ![a] = p.out]
    <3>1. Push(<< >>, p.out) = p.out
      BY <2>2, ListenerAssumption, NetworkAssumption DEF Push
    <3>2. toHub' = [toHub EXCEPT ![a] = Push(toHub[a], p.out)]
      BY DEF Commit, Broadcast
    <3> QED  BY <3>1, <3>2
  <2>4. Others(d)' = Others(d)
    BY <1>1 DEF Others
  <2>5. EnabledIds(a)' = IF p.r.enabled THEN Others(d) \cup {p.r.id} ELSE Others(d)
    <3>1. EnabledIds(a)' = IF dev'[d].enabled THEN Others(d)' \cup {dev'[d].id} ELSE Others(d)'
      BY DEF EnabledIds, Others
    <3> QED  BY <1>1, <2>4, <3>1
  <2>6. ASSUME NEW b \in App
        PROVE  /\ toHub'[b] \in Seq(HeartbeatMsg) /\ Len(toHub'[b]) <= 3
               /\ Read(listed'[b], toHub'[b]) = EnabledIds(b)'
    <3>1. CASE b = a
      BY <2>1, <2>2, <2>3, <2>5, <3>1 DEF ToldTo
    <3>2. CASE b # a
      <4>1. EnabledIds(b)' = EnabledIds(b)
        BY <1>1, <3>2 DEF EnabledIds
      <4>2. toHub'[b] = toHub[b]
        BY <2>1, <2>3, <3>2 DEF Sender
      <4> QED  BY <1>3, <4>1, <4>2 DEF LInv, HeardInOrder
    <3> QED  BY <3>1, <3>2
  <2>7. ASSUME NEW e \in Dev, ~dev'[e].enabled
        PROVE  dev'[e].hbeat_msg = NoMsg
    <3>1. CASE e = d
      BY <1>1, <2>2, <2>7, <3>1 DEF ToldTo
    <3>2. CASE e # d
      BY <1>1, <1>3, <2>7, <3>2 DEF LInv, HeardInOrder
    <3> QED  BY <3>1, <3>2
  <2> QED  BY <2>6, <2>7 DEF HeardInOrder
<1>4. refusing => HeardInOrder'
  BY DEF HeardInOrder
<1> QED  BY <1>2, <1>3, <1>4

\* Where nothing is said of the devices and nothing read, what was heard still holds.
LEMMA HeardStays ==
  ASSUME LInv, UNCHANGED <<toHub, listed, refusing>>,
         \A d \in Dev : /\ dev'[d].enabled <=> dev[d].enabled
                        /\ dev'[d].id = dev[d].id
                        /\ dev'[d].hbeat_msg = dev[d].hbeat_msg
  PROVE  OwnIds' /\ HeardInOrder'
<1>1. OwnIds'
  BY DEF LInv, OwnIds
<1>2. \A a \in App : EnabledIds(a)' = EnabledIds(a)
  BY DEF EnabledIds
<1>3. HeardInOrder'
  BY <1>2 DEF LInv, HeardInOrder
<1> QED  BY <1>1, <1>3

\* The devices of an application belong to it.
LEMMA DevSeqType ==
  ASSUME NEW a \in App
  PROVE  DevSeq[a] \in Seq(DevicesOf(a))
<1>1. DevSeq[a] \in Seq(Dev) /\ \A i \in DOMAIN DevSeq[a] : AppOf[DevSeq[a][i]] = a
  BY DeviceAssumption
<1>2. /\ Len(DevSeq[a]) \in Nat /\ DOMAIN DevSeq[a] = 1 .. Len(DevSeq[a])
      /\ DevSeq[a] \in [1 .. Len(DevSeq[a]) -> Dev]
  BY <1>1, LenProperties
<1>3. DevSeq[a] \in [1 .. Len(DevSeq[a]) -> DevicesOf(a)]
  BY <1>1, <1>2 DEF DevicesOf
<1> QED  BY <1>2, <1>3, SeqDef

\* A loop that begins is in order.
LEMMA StartInOrder ==
  ASSUME IInv, LInv, NEW a \in App, NEW m \in Coming \cup {NoMsg}, NEW what,
         Start(a, what, m)
  PROVE  \A b \in App : job'[b].todo \in Seq(DevicesOf(b)) /\ job'[b].msg \in Coming \cup {NoMsg}
<1>1. PICK w \in Delay(m) :
        job' = [job EXCEPT ![a] = IF DevSeq[a] = << >> THEN NoJob
                  ELSE [what |-> what, msg |-> m, todo |-> DevSeq[a], wait |-> w]]
  BY DEF Start
<1>2. NoJob.todo \in Seq(DevicesOf(a)) /\ NoJob.msg \in Coming \cup {NoMsg}
  BY EmptySeq DEF NoJob
<1>3. job \in [App -> Job]
  BY DEF IInv, DeviceTypeOK
<1> QED  BY <1>1, <1>2, <1>3, DevSeqType DEF LInv, LoopsInOrder

\* A loop that goes on stays in order.
LEMMA AdvanceInOrder ==
  ASSUME IInv, LInv, NEW a \in App, NEW goOn, Advance(a, goOn)
  PROVE  \A b \in App : job'[b].todo \in Seq(DevicesOf(b)) /\ job'[b].msg \in Coming \cup {NoMsg}
<1>1. PICK w \in Delay(job[a].msg) :
        job' = [job EXCEPT ![a] = IF goOn /\ Len(job[a].todo) > 1
                  THEN [job[a] EXCEPT !.todo = Tail(job[a].todo), !.wait = w] ELSE NoJob]
  BY DEF Advance
<1>2. NoJob.todo \in Seq(DevicesOf(a)) /\ NoJob.msg \in Coming \cup {NoMsg}
  BY EmptySeq DEF NoJob
<1>3. job \in [App -> Job] /\ job[a].todo \in Seq(DevicesOf(a))
  BY DEF IInv, DeviceTypeOK, LInv, LoopsInOrder
<1>4. CASE Len(job[a].todo) > 1
  <2>1. Tail(job[a].todo) \in Seq(DevicesOf(a))
    BY <1>3, <1>4, EmptySeq, HeadTailProperties
  <2> DEFINE next == [job[a] EXCEPT !.todo = Tail(job[a].todo), !.wait = w]
  <2>2. next.todo \in Seq(DevicesOf(a)) /\ next.msg = job[a].msg
    BY <1>3, <2>1 DEF Job
  <2>3. job' = [job EXCEPT ![a] = IF goOn THEN next ELSE NoJob]
    BY <1>1, <1>4
  <2> HIDE DEF next
  <2> QED  BY <1>2, <1>3, <2>2, <2>3 DEF LInv, LoopsInOrder
<1>5. CASE ~(Len(job[a].todo) > 1)
  BY <1>1, <1>2, <1>3, <1>5 DEF LInv, LoopsInOrder
<1> QED  BY <1>4, <1>5

\* The device whose turn it is belongs to the application.
LEMMA TurnInOrder ==
  ASSUME LInv, NEW a \in App, NEW d \in Dev, NEW what, Turn(a, what, d)
  PROVE  AppOf[d] = a
<1>1. job[a].todo \in Seq(DevicesOf(a)) /\ job[a].todo # << >> /\ d = Head(job[a].todo)
  BY DEF Turn, LInv, LoopsInOrder
<1>2. d \in DevicesOf(a)
  BY <1>1, HeadTailProperties
<1> QED  BY <1>2 DEF DevicesOf

-----------------------------------------------------------------------------
\* An application that takes a datagram, or begins a loop, says nothing.
LEMMA LoopBeginsHeard ==
  ASSUME IInv, LInv, NEW a \in App, UNCHANGED listed,
         AppPollMessage(a) \/ AppPollIdle(a) \/ DisableAll(a) \/ Close(a)
  PROVE  LInv'
<1>1. UNCHANGED <<alive, dev, toHub, refusing>>
  BY DEF AppPollMessage, AppPollIdle, DisableAll, Close
<1>2. OwnIds' /\ HeardInOrder'
  BY <1>1, HeardStays
<1>3. Coming' = Coming
  BY <1>1 DEF Coming
<1>4. CASE AppPollMessage(a)
  <2>1. toApp[a] \in Seq(Coming) /\ toApp[a] # << >>
    BY <1>4 DEF AppPollMessage, LInv, LoopsInOrder
  <2>2. Head(toApp[a]) \in Coming /\ Tail(toApp[a]) \in Seq(Coming)
    BY <2>1, HeadTailProperties
  <2>3. toApp' = [toApp EXCEPT ![a] = Tail(toApp[a])] /\ toApp \in [App -> Seq(Msg)]
    BY <1>4 DEF AppPollMessage, IInv, DeviceTypeOK, NetworkTypeOK
  <2>4. \A b \in App : toApp'[b] \in Seq(Coming)
    BY <2>2, <2>3 DEF LInv, LoopsInOrder
  <2>5. Start(a, "message", Head(toApp[a]))
    BY <1>4 DEF AppPollMessage
  <2> QED  BY <1>2, <1>3, <2>2, <2>4, <2>5, StartInOrder DEF LInv, LoopsInOrder, DevicesOf
<1>5. CASE AppPollIdle(a) \/ DisableAll(a) \/ Close(a)
  <2>1. UNCHANGED toApp /\ \E what \in {"poll", "disable", "close"} : Start(a, what, NoMsg)
    BY <1>5 DEF AppPollIdle, DisableAll, Close
  <2> QED  BY <1>2, <1>3, <2>1, StartInOrder DEF LInv, LoopsInOrder, DevicesOf
<1> QED  BY <1>4, <1>5

\* A loop that goes on after a turn, with what the turn has done to the device.
LEMMA TurnHeard ==
  ASSUME IInv, LInv, NEW a \in App, NEW d \in Dev, AppOf[d] = a, toHub[a] = << >>,
         NEW p, Fit(d, p), Commit(d, p), NEW goOn, Advance(a, goOn),
         UNCHANGED <<listed, toApp, refusing>>
  PROVE  LInv'
<1>1. OwnIds' /\ HeardInOrder'
  BY CommitHeard
<1>2. Coming' = Coming
  BY DEF Coming
<1> QED  BY <1>1, <1>2, AdvanceInOrder DEF LInv, LoopsInOrder, DevicesOf

\* A device handles a message.
LEMMA HandleMessageHeard ==
  ASSUME IInv, LInv, NEW a \in App, NEW d \in Dev, UNCHANGED listed,
         toHub[a] = << >>, HandleMessage(a, d)
  PROVE  LInv'
<1> DEFINE m == job[a].msg
           r == IF IsHubEcho(a, m) THEN [dev[d] EXCEPT !.confirmed = TRUE] ELSE dev[d]
<1>1. /\ dev[d] \in DeviceState /\ (m.kind = "response" => m \in ResponseMsg)
      /\ m \in Coming \cup {NoMsg} /\ AppOf[d] = a
  BY TurnType, TurnInOrder DEF IInv, LInv, LoopsInOrder, HandleMessage, DeviceTypeOK
<1>2. /\ r \in DeviceState /\ Current(d, r)
      /\ r.enabled <=> dev[d].enabled
      /\ r.id = dev[d].id /\ r.hbeat_msg = dev[d].hbeat_msg
  <2>1. [dev[d] EXCEPT !.confirmed = TRUE] \in DeviceState
    BY <1>1 DEF DeviceState
  <2>2. LET e == [dev[d] EXCEPT !.confirmed = TRUE]
        IN  /\ e.enabled = dev[d].enabled /\ e.hbeat_msg = dev[d].hbeat_msg
            /\ e.id = dev[d].id /\ e.configured = dev[d].configured
    BY <1>1 DEF DeviceState
  <2>3. Current(d, dev[d])
    BY DEF IInv, AllCurrent
  <2> QED  BY <1>1, <2>1, <2>2, <2>3 DEF Current, HeartbeatClass
<1>3. \/ /\ m.kind = "request"
         /\ \E sent \in SendResult : Commit(d, SendHello(d, Begin(r), sent))
      \/ /\ m.kind = "response" /\ m.target = r.id
         /\ \E bye, hello, inform \in SendResult :
              Commit(d, ConfigSet(d, Begin(r), m, bye, hello, inform))
      \/ Commit(d, Begin(r))
  BY DEF HandleMessage
<1>4. m.kind = "request" => refusing
  BY <1>1 DEF Coming, NoMsg
<1>5. m.kind = "response" /\ m.target = r.id => Owner[m.newconf] = d
  <2> SUFFICES ASSUME m.kind = "response", m.target = r.id
               PROVE  Owner[m.newconf] = d
    OBVIOUS
  <2>1. m \in World
    BY <1>1 DEF Coming, NoMsg
  <2>2. Owner[m.newconf] = Owner[m.target]
    BY <2>1, OwnerShares DEF SharedOut
  <2>3. Owner[dev[d].id] = d
    BY DEF LInv, OwnIds
  <2> QED  BY <1>2, <2>2, <2>3
<1> HIDE DEF m, r
<1>6. Fit(d, Begin(r)) /\ Len(Begin(r).out) = 0
  BY <1>1, <1>2, BeginFits
<1>7. PICK p : Fit(d, p) /\ Commit(d, p)
  <2>1. ASSUME m.kind = "request", NEW sent \in SendResult
        PROVE  Fit(d, SendHello(d, Begin(r), sent))
    BY <1>4, <1>6, <2>1, HelloFits
  <2>2. ASSUME m.kind = "response", m.target = r.id, NEW bye \in SendResult,
               NEW hello \in SendResult, NEW inform \in SendResult
        PROVE  Fit(d, ConfigSet(d, Begin(r), m, bye, hello, inform))
    BY <1>1, <1>5, <1>6, <2>2, ConfigSetFits DEF LInv
  <2> QED  BY <1>3, <1>6, <2>1, <2>2
<1> QED  BY <1>1, <1>7, TurnHeard DEF HandleMessage

\* A loop sends the heartbeats that are due.
LEMMA PollHeartbeatHeard ==
  ASSUME IInv, LInv, NEW a \in App, NEW d \in Dev, UNCHANGED listed,
         toHub[a] = << >>, PollHeartbeat(a, d)
  PROVE  LInv'
<1> DEFINE p == Begin(dev[d])
<1>1. AppOf[d] = a /\ dev[d] \in DeviceState /\ Current(d, dev[d])
  BY TurnType, TurnInOrder DEF PollHeartbeat, IInv, AllCurrent, DeviceTypeOK
<1>2. Fit(d, p) /\ Len(p.out) = 0
  BY <1>1, BeginFits
<1>3. IsDue(d, dev[d]) => p.r.enabled
  BY DEF IsDue, Begin
<1>4. PICK q : Fit(d, q) /\ Commit(d, q)
  <2>1. \/ p.r.enabled /\ \E sent \in SendResult : Commit(d, SendHello(d, p, sent))
        \/ Commit(d, p)
    BY <1>3 DEF PollHeartbeat
  <2> HIDE DEF p
  <2> QED  BY <1>2, <2>1, HelloFits
<1> QED  BY <1>1, <1>4, TurnHeard DEF PollHeartbeat

\* A loop disables the devices of the application.
LEMMA DisableNextHeard ==
  ASSUME IInv, LInv, NEW a \in App, NEW d \in Dev, UNCHANGED listed,
         toHub[a] = << >>, DisableNext(a, d)
  PROVE  LInv'
<1>1. AppOf[d] = a /\ dev[d] \in DeviceState /\ Current(d, dev[d])
  BY TurnType, TurnInOrder DEF DisableNext, IInv, AllCurrent, DeviceTypeOK
<1>2. Fit(d, Begin(dev[d])) /\ Len(Begin(dev[d]).out) = 0
  BY <1>1, BeginFits
<1>3. PICK sent \in SendResult :
        LET p == Enable(d, Begin(dev[d]), FALSE, sent) IN Commit(d, p) /\ Advance(a, p.ok)
  BY DEF DisableNext
<1> DEFINE p == Enable(d, Begin(dev[d]), FALSE, sent)
<1>4. Fit(d, p)
  <2>1. \A on \in BOOLEAN : Fit(d, Enable(d, Begin(dev[d]), on, sent))
    BY <1>2, EnableFits
  <2> QED  BY <2>1
<1>5. Commit(d, p) /\ Advance(a, p.ok)
  BY <1>3
<1> HIDE DEF p
<1> QED  BY <1>1, <1>4, <1>5, TurnHeard DEF DisableNext

\* A loop closes the application: every device says goodbye and is gone.
LEMMA CloseNextHeard ==
  ASSUME IInv, LInv, NEW a \in App, NEW d \in Dev, UNCHANGED listed,
         toHub[a] = << >>, CloseNext(a, d)
  PROVE  LInv'
<1>1. AppOf[d] = a /\ dev[d] \in DeviceState /\ Current(d, dev[d])
  BY TurnType, TurnInOrder DEF CloseNext, IInv, AllCurrent, DeviceTypeOK
<1>2. Fit(d, Begin(dev[d])) /\ Len(Begin(dev[d]).out) = 0
  BY <1>1, BeginFits
<1>3. PICK sent \in SendResult :
        LET p == Enable(d, Begin(dev[d]), FALSE, sent) IN Broadcast(a, p.out)
  BY DEF CloseNext
<1> DEFINE p == Enable(d, Begin(dev[d]), FALSE, sent)
           q == [p EXCEPT !.r = NewDevice(d)]
<1>4. Fit(d, p) /\ ~p.r.enabled
  <2>1. \A on \in BOOLEAN : /\ Fit(d, Enable(d, Begin(dev[d]), on, sent))
                            /\ ~on => ~Enable(d, Begin(dev[d]), on, sent).r.enabled
    BY <1>2, EnableFits, EnableSound, SendResultType DEF Fit
  <2> QED  BY <2>1
<1>5. Broadcast(a, p.out)
  BY <1>3
<1> HIDE DEF p
<1>6. Sound(d, q) /\ q.r = NewDevice(d) /\ q.out = p.out
  BY <1>4, NewDeviceSound, AssignSound DEF Fit, Sound
<1> HIDE DEF q
<1>7. Fit(d, q)
  <2>1. ~q.r.enabled /\ q.r.hbeat_msg = NoMsg /\ Owner[q.r.id] = d
    BY <1>6, NewDeviceOwn
  <2>2. q.r.id \notin Others(d)
    BY <2>1, OthersApart DEF LInv
  <2>3. ASSUME ~refusing
        PROVE  ToldTo(listed[AppOf[d]], Others(d), q) /\ Len(q.out) <= 3
    BY <1>4, <1>6, <2>1, <2>2, <2>3 DEF Fit, ToldTo
  <2> QED  BY <1>6, <2>1, <2>3 DEF Fit
<1>8. Commit(d, q)
  BY <1>1, <1>5, <1>6 DEF CloseNext, Commit
<1>9. OwnIds' /\ HeardInOrder'
  BY <1>1, <1>7, <1>8, CommitHeard DEF CloseNext
<1>10. \A b \in App : toApp'[b] \in Seq(Coming)
  BY EmptySeq DEF CloseNext, LInv, LoopsInOrder, IInv, DeviceTypeOK, NetworkTypeOK
<1>11. Coming' = Coming
  BY DEF CloseNext, Coming
<1> QED  BY <1>9, <1>10, <1>11, AdvanceInOrder DEF CloseNext, LInv, LoopsInOrder, DevicesOf

\* What the program does with a device is heard, or says nothing.
LEMMA ProgramHeard ==
  ASSUME IInv, LInv, UNCHANGED listed, NEW d \in Dev, toHub[AppOf[d]] = << >>,
         \/ \E on \in BOOLEAN : SetEnabled(d, on)
         \/ \E id \in NewIdOf[d] : SetId(d, id)
         \/ \E i \in Interval : SetInterval(d, i)
  PROVE  LInv'
<1>1. UNCHANGED <<job, toApp, refusing>>
  BY DEF SetEnabled, SetId, SetInterval
<1>2. LoopsInOrder'
  BY <1>1 DEF LInv, LoopsInOrder, DevicesOf, Coming
<1>3. dev[d] \in DeviceState /\ Current(d, dev[d])
  BY DEF IInv, DeviceTypeOK, AllCurrent
<1>4. Fit(d, Begin(dev[d])) /\ Len(Begin(dev[d]).out) = 0
  BY <1>3, BeginFits
<1>5. ASSUME NEW p, Fit(d, p), Commit(d, p)
      PROVE  LInv'
  BY <1>1, <1>2, <1>5, CommitHeard DEF LInv
<1>6. ASSUME NEW on \in BOOLEAN, SetEnabled(d, on)
      PROVE  LInv'
  BY <1>4, <1>5, <1>6, EnableFits DEF SetEnabled
<1>7. ASSUME NEW id \in NewIdOf[d], SetId(d, id)
      PROVE  LInv'
  <2>1. id \in Id /\ Owner[id] = d
    BY DeviceAloneAssumption, OwnerShares DEF SharedOut
  <2>2. \A bye, hello \in SendResult : Fit(d, IdSet(d, Begin(dev[d]), id, bye, hello))
    BY <1>4, <2>1, IdSetFits DEF LInv
  <2> QED  BY <1>5, <1>7, <2>2 DEF SetId
<1>8. ASSUME NEW i \in Interval, SetInterval(d, i)
      PROVE  LInv'
  <2>1. dev' = [dev EXCEPT ![d] = [dev[d] EXCEPT !.interval = i]] /\ UNCHANGED toHub
    BY <1>8 DEF SetInterval
  <2> DEFINE r == [dev[d] EXCEPT !.interval = i]
  <2>2. r.enabled = dev[d].enabled /\ r.id = dev[d].id /\ r.hbeat_msg = dev[d].hbeat_msg
    BY <1>3 DEF DeviceState
  <2>3. dev' = [dev EXCEPT ![d] = r] /\ dev \in [Dev -> DeviceState]
    BY <2>1 DEF IInv, DeviceTypeOK
  <2> HIDE DEF r
  <2> QED  BY <1>1, <1>2, <2>1, <2>2, <2>3, HeardStays DEF LInv
<1> QED  BY <1>6, <1>7, <1>8

\* Only in trouble does a process die; one that is started has said nothing yet.
LEMMA ProcessHeard ==
  ASSUME IInv, LInv, UNCHANGED listed, NEW a \in App, (refusing /\ Crash(a)) \/ Open(a)
  PROVE  LInv'
<1>1. \A b \in App : toApp'[b] = toApp[b] \/ toApp'[b] = << >>
  BY DEF Crash, Open, IInv, DeviceTypeOK, NetworkTypeOK
<1>2. \A b \in App : toApp'[b] \in Seq(Coming)
  BY <1>1, EmptySeq DEF LInv, LoopsInOrder
<1>3. Coming' = Coming
  BY DEF Crash, Open, Coming
<1>4. CASE refusing /\ Crash(a)
  <2>1. \A d \in Dev : dev'[d] = NewDevice(d) \/ dev'[d] = dev[d]
    BY <1>4 DEF Crash
  <2>2. OwnIds'
    BY <2>1, NewDeviceOwn DEF LInv, OwnIds
  <2>3. job' = [job EXCEPT ![a] = NoJob] /\ job \in [App -> Job]
    BY <1>4 DEF Crash, IInv, DeviceTypeOK
  <2>4. NoJob.todo \in Seq(DevicesOf(a)) /\ NoJob.msg = NoMsg
    BY EmptySeq DEF NoJob
  <2>5. HeardInOrder'
    BY <1>4 DEF Crash, HeardInOrder
  <2> QED  BY <1>2, <1>3, <2>2, <2>3, <2>4, <2>5 DEF LInv, LoopsInOrder, DevicesOf
<1>5. CASE Open(a)
  <2>1. UNCHANGED <<dev, job, refusing, toHub>>
    BY <1>5 DEF Open
  <2> QED  BY <1>2, <1>3, <2>1, HeardStays DEF LInv, LoopsInOrder, DevicesOf
<1> QED  BY <1>4, <1>5

\* The network sends what comes, and the listener reads one heartbeat.
LEMMA WorldHeard ==
  ASSUME IInv, LInv, (\E a \in App : WorldSends(a) \/ Listen(a)) \/ TroubleBegins
  PROVE  LInv'
<1>1. UNCHANGED <<dev, job>>
  BY DEF WorldSends, Listen, TroubleBegins, devVars
<1>2. OwnIds'
  BY <1>1 DEF LInv, OwnIds
<1>3. ASSUME NEW a \in App, WorldSends(a)
      PROVE  LInv'
  <2>1. PICK m \in Coming : toApp' = [toApp EXCEPT ![a] = <<m>>]
    BY <1>3 DEF WorldSends, Coming
  <2>2. <<m>> \in Seq(Coming)
    OBVIOUS
  <2>3. UNCHANGED <<toHub, listed, refusing>>
    BY <1>3 DEF WorldSends, devVars
  <2>4. Coming' = Coming
    BY <2>3 DEF Coming
  <2>5. LoopsInOrder'
    BY <1>1, <2>1, <2>2, <2>4 DEF LInv, LoopsInOrder, DevicesOf, IInv, DeviceTypeOK, NetworkTypeOK
  <2> QED  BY <1>1, <2>3, <2>5, HeardStays DEF LInv
<1>4. ASSUME NEW a \in App, Listen(a)
      PROVE  LInv'
  <2> DEFINE m == Head(toHub[a])
  <2>1. UNCHANGED <<refusing, toApp>> /\ toHub[a] # << >>
    BY <1>4 DEF Listen, devVars
  <2>2. LoopsInOrder'
    BY <1>1, <2>1 DEF LInv, LoopsInOrder, DevicesOf, Coming
  <2>3. ASSUME ~refusing
        PROVE  HeardInOrder'
    <3>1. toHub' = [toHub EXCEPT ![a] = Tail(toHub[a])] /\ toHub \in [Sender -> Seq(Msg)]
      BY <1>4 DEF Listen, IInv, DeviceTypeOK, NetworkTypeOK
    <3>2. listed' = [listed EXCEPT ![a] = Hear(listed[a], m)] /\ listed \in [App -> SUBSET Id]
      BY <1>4 DEF Listen, Hear, IInv, DeviceTypeOK
    <3>3. toHub[a] \in Seq(HeartbeatMsg) /\ Len(toHub[a]) <= 3
      BY <2>3 DEF LInv, HeardInOrder
    <3>4. /\ Read(listed[a], toHub[a]) = Read(Hear(listed[a], m), Tail(toHub[a]))
          /\ Tail(toHub[a]) \in Seq(HeartbeatMsg) /\ Len(Tail(toHub[a])) <= 3
      BY <2>1, <3>3, ReadTail
    <3> HIDE DEF m
    <3>5. ASSUME NEW b \in App
          PROVE  /\ toHub'[b] \in Seq(HeartbeatMsg) /\ Len(toHub'[b]) <= 3
                 /\ Read(listed'[b], toHub'[b]) = EnabledIds(b)
      <4>1. Read(listed[b], toHub[b]) = EnabledIds(b)
        BY <2>3 DEF LInv, HeardInOrder
      <4>2. CASE b = a
        BY <3>1, <3>2, <3>4, <4>1, <4>2 DEF Sender
      <4>3. CASE b # a
        BY <2>3, <3>1, <3>2, <4>1, <4>3 DEF Sender, LInv, HeardInOrder
      <4> QED  BY <4>2, <4>3
    <3>6. \A b \in App : EnabledIds(b)' = EnabledIds(b)
      BY <1>1 DEF EnabledIds
    <3> QED  BY <1>1, <2>3, <3>5, <3>6 DEF LInv, HeardInOrder
  <2>4. refusing => HeardInOrder'
    BY <2>1 DEF HeardInOrder
  <2> QED  BY <1>2, <2>2, <2>3, <2>4 DEF LInv
<1>5. CASE TroubleBegins
  <2>1. refusing' /\ UNCHANGED toApp
    BY <1>5 DEF TroubleBegins
  <2>2. Coming \subseteq Coming'
    BY <2>1 DEF Coming
  <2>3. \A b \in App : toApp'[b] \in Seq(Coming')
    BY <2>1, <2>2, SeqMonotonic DEF LInv, LoopsInOrder
  <2>4. LoopsInOrder'
    BY <1>1, <2>2, <2>3 DEF LInv, LoopsInOrder, DevicesOf
  <2>5. HeardInOrder'
    BY <2>1 DEF HeardInOrder
  <2> QED  BY <1>2, <2>4, <2>5 DEF LInv
<1> QED  BY <1>3, <1>4, <1>5

\* The clock says nothing.
LEMMA TickHeard ==
  ASSUME IInv, LInv, ListenerTick
  PROVE  LInv'
<1>1. /\ dev' = [d \in Dev |-> [dev[d] EXCEPT !.elapsed = Older(@)]]
      /\ job' = [a \in App |-> [job[a] EXCEPT !.wait = IF @ > 0 THEN @ - 1 ELSE @]]
      /\ UNCHANGED <<alive, refusing, toHub, toApp, listed>>
  BY DEF ListenerTick, DeviceTick
<1>2. ASSUME NEW d \in Dev
      PROVE  /\ dev'[d].enabled = dev[d].enabled /\ dev'[d].hbeat_msg = dev[d].hbeat_msg
             /\ dev'[d].id = dev[d].id
  BY <1>1 DEF IInv, DeviceTypeOK, DeviceState
<1>3. ASSUME NEW a \in App
      PROVE  job'[a].todo = job[a].todo /\ job'[a].msg = job[a].msg
  BY <1>1 DEF IInv, DeviceTypeOK, Job
<1>4. OwnIds' /\ HeardInOrder'
  BY <1>1, <1>2, HeardStays
<1>5. LoopsInOrder'
  BY <1>1, <1>3 DEF LInv, LoopsInOrder, DevicesOf, Coming
<1> QED  BY <1>4, <1>5 DEF LInv

\* What the listener knows and will know survives every step.
LEMMA ListenerInvariance == ListenerSpec => []LInv
<1>1. ListenerInit => LInv
  <2> SUFFICES ASSUME ListenerInit
               PROVE  LInv
    OBVIOUS
  <2>1. \A d \in Dev : dev[d] = NewDevice(d)
    BY DEF ListenerInit, DeviceInit
  <2>2. OwnIds
    BY <2>1, NewDeviceOwn DEF OwnIds
  <2>3. LoopsInOrder
    BY EmptySeq DEF ListenerInit, DeviceInit, NetworkInit, NoJob, LoopsInOrder
  <2>4. \A a \in App : EnabledIds(a) = {}
    BY <2>1, NewDeviceOwn DEF EnabledIds
  <2>5. \A a \in App : listed[a] = {} /\ toHub[a] = << >>
    BY DEF ListenerInit, NetworkInit, Sender
  <2>6. Len(<< >>) = 0 /\ Read({}, << >>) = {}
    BY DEF Read
  <2>7. \A a \in App : /\ toHub[a] \in Seq(HeartbeatMsg) /\ Len(toHub[a]) <= 3
                       /\ Read(listed[a], toHub[a]) = EnabledIds(a)
    <3>1. << >> \in Seq(HeartbeatMsg) /\ Len(<< >>) <= 3
      BY EmptySeq
    <3> TAKE a \in App
    <3>2. Read(listed[a], toHub[a]) = Read({}, << >>)
      BY <2>5
    <3>3. Read(listed[a], toHub[a]) = EnabledIds(a)
      BY <2>4, <2>6, <3>2
    <3> QED  BY <2>5, <3>1, <3>3
  <2>8. \A d \in Dev : ~dev[d].enabled => dev[d].hbeat_msg = NoMsg
    BY <2>1, NewDeviceOwn
  <2>9. HeardInOrder
    BY <2>7, <2>8 DEF HeardInOrder
  <2> QED  BY <2>2, <2>3, <2>9 DEF LInv
<1>2. IInv /\ LInv /\ [ListenerNext]_listenerVars => LInv'
  <2> SUFFICES ASSUME IInv, LInv, [ListenerNext]_listenerVars
               PROVE  LInv'
    OBVIOUS
  <2>1. ASSUME NEW a \in App, toHub[a] = << >>, LoopStep(a), UNCHANGED listed
        PROVE  LInv'
    BY <2>1, LoopBeginsHeard, HandleMessageHeard, PollHeartbeatHeard,
       DisableNextHeard, CloseNextHeard DEF LoopStep
  <2>2. ASSUME NEW a \in App, toHub[a] = << >>, ProgramUses(a), UNCHANGED listed
        PROVE  LInv'
    BY <2>2, LoopBeginsHeard, ProgramHeard, ProcessHeard DEF ProgramUses
  <2>3. CASE UNCHANGED listenerVars
    BY <2>3, HeardStays DEF listenerVars, LInv, LoopsInOrder, DevicesOf, Coming
  <2> QED  BY <2>1, <2>2, <2>3, WorldHeard, TickHeard DEF ListenerNext
<1> QED  BY <1>1, <1>2, Invariance, PTL DEF ListenerSpec

\* As long as there is no trouble, a listener that has read everything lists the
\* enabled devices of every application and no other: hellos and goodbyes pair up
\* through renamings, configurations, loops and closings in every order.
THEOREM ListedHolds == ListenerSpec => []ListedAreEnabled
<1>1. LInv => ListedAreEnabled
  <2> SUFFICES ASSUME LInv, ~refusing, NEW a \in App, toHub[a] = << >>
               PROVE  listed[a] = EnabledIds(a)
    BY DEF ListedAreEnabled, EnabledIds
  <2>1. Read(listed[a], toHub[a]) = EnabledIds(a)
    BY DEF LInv, HeardInOrder
  <2> QED  BY <2>1 DEF Read
<1> QED  BY <1>1, ListenerInvariance, PTL
=============================================================================
