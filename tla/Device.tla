------------------------------- MODULE Device -------------------------------
(***************************************************************************)
(* The devices of the applications and their heartbeats: src/src/device.c, *)
(* the poll loop of src/src/gxpl.c and what a config.response changes in   *)
(* the life of a device (src/src/device_configurable.c).                   *)
(*                                                                         *)
(* An application is one thread.  It takes a datagram, or finds none and   *)
(* looks for heartbeats to send, and goes through its devices one after    *)
(* the other: that loop is a job, and each turn of it is an action.        *)
(***************************************************************************)
EXTENDS Network, FiniteSets

CONSTANTS
  Dev,                \* devices
  AppOf,              \* AppOf[d]: device->parent
  DevSeq,             \* DevSeq[a]: app->device, the devices of a in order
  Configurable,       \* the devices made by gxPLAppAddConfigurableDevice
  FirstId,            \* FirstId[d]: the identifier d is created with
  Interval,           \* heartbeat intervals the program asks for, in ticks
  ConfMinutes,        \* heartbeat intervals a config.response asks for, in minutes
  DefaultInterval,    \* DEFAULT_HEARTBEAT_INTERVAL
  ConfigInterval,     \* DEFAULT_CONFIG_HEARTBEAT_INTERVAL
  DiscoveryInterval,  \* DEFAULT_HUB_DISCOVERY_INTERVAL
  MaxDelay            \* longest delay before the answer to an hbeat.request

ASSUME DeviceAssumption ==
  /\ AppOf \in [Dev -> App]
  /\ DevSeq \in [App -> Seq(Dev)]
  /\ \A a \in App : \A i \in DOMAIN DevSeq[a] : AppOf[DevSeq[a][i]] = a
  /\ \A d \in Dev : \E i \in DOMAIN DevSeq[AppOf[d]] :
       \A j \in DOMAIN DevSeq[AppOf[d]] : DevSeq[AppOf[d]][j] = d <=> j = i
  /\ Configurable \subseteq Dev
  /\ FirstId \in [Dev -> Id]
  /\ Interval \subseteq Nat
  /\ ConfMinutes \subseteq Nat
  /\ DefaultInterval \in Nat
  /\ ConfigInterval \in Nat
  /\ DiscoveryInterval \in Nat
  /\ MaxDelay \in Nat

VARIABLES
  alive,   \* alive[a]: does the process of the application run?
  dev,     \* dev[d]: the gxPLDevice of d; elapsed stands for now - hbeat_last
  job,     \* job[a]: what the thread of a is going through
  refusing \* may the socket refuse a datagram now and then?

devVars == <<alive, dev, job, refusing>>

DeviceState ==
  [enabled : BOOLEAN, configured : BOOLEAN, confirmed : BOOLEAN, id : Id,
   interval : Nat, hbeat_msg : HeartbeatMsg \cup {NoMsg}, elapsed : 0 .. MaxAge]

Job == [what : {"none", "message", "poll", "disable", "close"},
        msg : Msg \cup {NoMsg}, todo : Seq(Dev), wait : 0 .. MaxDelay]
NoJob == [what |-> "none", msg |-> NoMsg, todo |-> << >>, wait |-> 0]

\* gxPLDeviceNew: hbeat_last is 0, so the time since then is beyond every interval.
NewDevice(d) ==
  [enabled |-> FALSE, configured |-> FALSE, confirmed |-> FALSE, id |-> FirstId[d],
   interval |-> DefaultInterval, hbeat_msg |-> NoMsg, elapsed |-> MaxAge]

DeviceInit ==
  /\ alive = [a \in App |-> TRUE]
  /\ dev = [d \in Dev |-> NewDevice(d)]
  /\ job = [a \in App |-> NoJob]
  /\ refusing = FALSE

-----------------------------------------------------------------------------
(***************************************************************************)
(* The functions of device.c.  Each takes a progress p -- the device r, the *)
(* datagrams out sent so far, the return value ok of the last call -- and  *)
(* whether its sends succeed.                                              *)
(***************************************************************************)
Begin(r) == [r |-> r, out |-> << >>, ok |-> TRUE]

SendResult == IF refusing THEN BOOLEAN ELSE {TRUE}

HeartbeatClass(d, r) ==
  IF d \in Configurable /\ ~r.configured THEN "config" ELSE "hbeat"

HeartbeatMessageNew(d, r, kind) ==
  [kind |-> kind, class |-> HeartbeatClass(d, r), id |-> r.id,
   addr |-> AppOf[d], interval |-> r.interval \div Minute]

\* The first hello builds the message, the others send it again as it was built.
SendHello(d, p, sent) ==
  LET m == IF p.r.hbeat_msg = NoMsg THEN HeartbeatMessageNew(d, p.r, "app")
                                    ELSE p.r.hbeat_msg
  IN  [r   |-> [p.r EXCEPT !.hbeat_msg = m, !.elapsed = IF sent THEN 0 ELSE @],
       out |-> IF sent THEN Append(p.out, m) ELSE p.out,
       ok  |-> sent]

SendGoodbye(d, p, sent) ==
  IF sent
    THEN [r   |-> [p.r EXCEPT !.hbeat_msg = NoMsg],
          out |-> Append(p.out, HeartbeatMessageNew(d, p.r, "end")),
          ok  |-> TRUE]
    ELSE [p EXCEPT !.ok = FALSE]

\* Mutant: a heartbeat left over by a failed goodbye is sent again.
EnableKeeping(d, p, on, sent) ==
  IF p.r.enabled = on THEN [p EXCEPT !.ok = TRUE]
  ELSE IF on THEN SendHello(d, [p EXCEPT !.r.enabled = TRUE], sent)
             ELSE SendGoodbye(d, [p EXCEPT !.r.enabled = FALSE], sent)

Enable(d, p, on, sent) ==
  IF p.r.enabled = on THEN [p EXCEPT !.ok = TRUE]
  ELSE IF on
    THEN SendHello(d, [p EXCEPT !.r.enabled = TRUE, !.r.hbeat_msg = NoMsg], sent)
    ELSE SendGoodbye(d, [p EXCEPT !.r.enabled = FALSE], sent)

\* Mutant: the identifier is copied before the goodbye.
IdSetFirst(d, p, id, bye, hello) ==
  LET gone == SendGoodbye(d, [p EXCEPT !.r.id = id], bye)
  IN  CASE id = p.r.id    -> [p EXCEPT !.ok = TRUE]
        [] id # p.r.id /\ ~p.r.enabled -> [p EXCEPT !.r.id = id, !.ok = TRUE]
        [] id # p.r.id /\ p.r.enabled /\ ~gone.ok -> gone
        [] OTHER -> SendHello(d, gone, hello)

IdSet(d, p, id, bye, hello) ==
  LET gone == SendGoodbye(d, p, bye)
  IN  CASE id = p.r.id    -> [p EXCEPT !.ok = TRUE]
        [] id # p.r.id /\ ~p.r.enabled -> [p EXCEPT !.r.id = id, !.ok = TRUE]
        [] id # p.r.id /\ p.r.enabled /\ ~gone.ok -> gone
        [] OTHER -> SendHello(d, [gone EXCEPT !.r.id = id], hello)

\* Mutant: the values are installed without a restart of the device.
ConfigSetInPlace(d, p, m, bye, hello, inform) ==
  LET interval == m.interval * Minute
      set == [p EXCEPT !.r.id = m.newconf, !.r.configured = TRUE,
                       !.r.interval = IF interval > 0 THEN interval ELSE @]
  IN  IF ~p.r.configured /\ set.r.hbeat_msg # NoMsg
        THEN SendHello(d, [set EXCEPT !.r.hbeat_msg = NoMsg], inform)
        ELSE set

\* prvConfigSet, with the instance and the interval of the config.response m.
\* The new instance is set while the device is disabled: it is only copied.
ConfigSet(d, p, m, bye, hello, inform) ==
  LET interval == m.interval * Minute
      restart  == p.r.enabled /\ (m.newconf # p.r.id \/ interval # p.r.interval)
      stopped  == IF restart THEN Enable(d, p, FALSE, bye) ELSE p
      set      == [stopped EXCEPT !.r.id = m.newconf, !.r.configured = TRUE,
                                  !.r.interval = IF interval > 0 THEN interval ELSE @]
      started  == IF restart THEN Enable(d, set, TRUE, hello) ELSE set
  IN  IF ~p.r.configured /\ started.r.hbeat_msg # NoMsg
        THEN SendHello(d, [started EXCEPT !.r.hbeat_msg = NoMsg], inform)
        ELSE started

\* gxPLAppIsHubEchoMessage: a heartbeat of this application came back to it.
IsHubEcho(a, m) == m.kind = "app" /\ m.addr = a

\* Mutants: no second hello before the hub is found; none after it is found.
IsDueConfirmed(d, r) ==
  /\ r.enabled /\ r.confirmed
  /\ HeartbeatClass(d, r) = "config" => r.elapsed >= ConfigInterval
  /\ r.elapsed >= r.interval

IsDueSearching(d, r) == r.enabled /\ ~r.confirmed /\ r.elapsed >= DiscoveryInterval

\* prvHeartbeatPoll: is it time for a heartbeat?
IsDue(d, r) ==
  /\ r.enabled
  /\ \/ /\ r.confirmed
        /\ HeartbeatClass(d, r) = "config" => r.elapsed >= ConfigInterval
        /\ r.elapsed >= r.interval
     \/ ~r.confirmed /\ r.elapsed >= DiscoveryInterval

-----------------------------------------------------------------------------
(* The loop of an application.                                             *)

Idle(a) == alive[a] /\ job[a].what = "none"

\* Mutant: the random delay is longer than its bound.
DelayBeyond(m) == IF m.kind = "request" THEN 0 .. MaxDelay + 1 ELSE {0}

Delay(m) == IF m.kind = "request" THEN 0 .. MaxDelay ELSE {0}

Start(a, what, m) ==
  \E w \in Delay(m) :
    job' = [job EXCEPT ![a] =
              IF DevSeq[a] = << >> THEN NoJob
              ELSE [what |-> what, msg |-> m, todo |-> DevSeq[a], wait |-> w]]

\* gxPLAppPoll finds a datagram.
AppPollMessage(a) ==
  /\ Idle(a) /\ toApp[a] # << >>
  /\ Start(a, "message", Head(toApp[a]))
  /\ toApp' = [toApp EXCEPT ![a] = Tail(@)]
  /\ UNCHANGED <<alive, dev, toHub, refusing>>

\* gxPLAppPoll finds none: heartbeats are looked at (a poll that finds nothing
\* due changes nothing and is left out).
AppPollIdle(a) ==
  /\ Idle(a) /\ toApp[a] = << >>
  /\ \E i \in DOMAIN DevSeq[a] : IsDue(DevSeq[a][i], dev[DevSeq[a][i]])
  /\ Start(a, "poll", NoMsg)
  /\ UNCHANGED <<alive, dev, toHub, toApp, refusing>>

\* gxPLAppDisableAllDevices, and gxPLAppClose.
DisableAll(a) ==
  /\ Idle(a) /\ Start(a, "disable", NoMsg)
  /\ UNCHANGED <<alive, dev, toHub, toApp, refusing>>

Close(a) ==
  /\ Idle(a) /\ DevSeq[a] # << >> /\ Start(a, "close", NoMsg)
  /\ UNCHANGED <<alive, dev, toHub, toApp, refusing>>

\* The device d has come to p: it is stored, and what it has sent is on its way.
Commit(d, p) ==
  /\ dev' = [dev EXCEPT ![d] = p.r]
  /\ Broadcast(AppOf[d], p.out)

\* The job of a goes on with the next device, or ends.
Advance(a, goOn) ==
  \E w \in Delay(job[a].msg) :
    job' = [job EXCEPT ![a] =
              IF goOn /\ Len(job[a].todo) > 1
                THEN [job[a] EXCEPT !.todo = Tail(job[a].todo), !.wait = w]
                ELSE NoJob]

Turn(a, what, d) ==
  /\ alive[a] /\ job[a].what = what /\ job[a].todo # << >>
  /\ d = Head(job[a].todo)

\* gxPLDeviceMessageHandler, for the messages that matter to heartbeats.
HandleMessage(a, d) ==
  /\ Turn(a, "message", d) /\ job[a].wait = 0
  /\ LET m == job[a].msg
         r == IF IsHubEcho(a, m) THEN [dev[d] EXCEPT !.confirmed = TRUE] ELSE dev[d]
     IN  \/ /\ m.kind = "request"
            /\ \E sent \in SendResult : Commit(d, SendHello(d, Begin(r), sent))
         \/ /\ m.kind = "response" /\ m.target = r.id /\ d \in Configurable
            /\ \E bye, hello, inform \in SendResult :
                 Commit(d, ConfigSet(d, Begin(r), m, bye, hello, inform))
         \/ /\ m.kind # "request"
            /\ ~(m.kind = "response" /\ m.target = r.id /\ d \in Configurable)
            /\ Commit(d, Begin(r))
  /\ Advance(a, TRUE)
  /\ UNCHANGED <<alive, toApp, refusing>>

PollHeartbeat(a, d) ==
  /\ Turn(a, "poll", d)
  /\ \/ /\ IsDue(d, dev[d])
        /\ \E sent \in SendResult : Commit(d, SendHello(d, Begin(dev[d]), sent))
     \/ ~IsDue(d, dev[d]) /\ Commit(d, Begin(dev[d]))
  /\ Advance(a, TRUE)
  /\ UNCHANGED <<alive, toApp, refusing>>

\* The first device that cannot say goodbye ends the loop.
DisableNext(a, d) ==
  /\ Turn(a, "disable", d)
  /\ \E sent \in SendResult :
       LET p == Enable(d, Begin(dev[d]), FALSE, sent)
       IN  Commit(d, p) /\ Advance(a, p.ok)
  /\ UNCHANGED <<alive, toApp, refusing>>

\* gxPLDeviceDelete on every device; the last one takes the application with it.
CloseNext(a, d) ==
  /\ Turn(a, "close", d)
  /\ \E sent \in SendResult :
       LET p == Enable(d, Begin(dev[d]), FALSE, sent)
       IN  Broadcast(a, p.out)
  /\ dev' = [dev EXCEPT ![d] = NewDevice(d)]
  /\ Advance(a, TRUE)
  /\ alive' = [alive EXCEPT ![a] = Len(job[a].todo) > 1]
  /\ toApp' = [toApp EXCEPT ![a] = IF Len(job[a].todo) > 1 THEN @ ELSE << >>]
  /\ UNCHANGED refusing

-----------------------------------------------------------------------------
(* What the program does with its devices between two polls.               *)

SetEnabled(d, on) ==
  /\ Idle(AppOf[d]) /\ dev[d].enabled # on
  /\ \E sent \in SendResult : Commit(d, Enable(d, Begin(dev[d]), on, sent))
  /\ UNCHANGED <<alive, job, toApp, refusing>>

SetId(d, id) ==
  /\ Idle(AppOf[d]) /\ dev[d].id # id
  /\ \E bye, hello \in SendResult : Commit(d, IdSet(d, Begin(dev[d]), id, bye, hello))
  /\ UNCHANGED <<alive, job, toApp, refusing>>

\* gxPLDeviceHeartbeatIntervalSet: a heartbeat already built is not touched.
SetInterval(d, i) ==
  /\ Idle(AppOf[d])
  /\ dev' = [dev EXCEPT ![d].interval = i]
  /\ UNCHANGED <<alive, job, toHub, toApp, refusing>>

\* The process dies without a word; another is started later on, and what was
\* sent to the dead one is gone.
Crash(a) ==
  /\ alive[a]
  /\ alive' = [alive EXCEPT ![a] = FALSE]
  /\ dev' = [d \in Dev |-> IF AppOf[d] = a THEN NewDevice(d) ELSE dev[d]]
  /\ job' = [job EXCEPT ![a] = NoJob]
  /\ toApp' = [toApp EXCEPT ![a] = << >>]
  /\ UNCHANGED <<refusing, toHub>>

Open(a) ==
  /\ ~alive[a]
  /\ alive' = [alive EXCEPT ![a] = TRUE]
  /\ toApp' = [toApp EXCEPT ![a] = << >>]
  /\ UNCHANGED <<dev, job, toHub, refusing>>

DeviceTick ==
  /\ dev' = [d \in Dev |-> [dev[d] EXCEPT !.elapsed = Older(@)]]
  /\ job' = [a \in App |-> [job[a] EXCEPT !.wait = IF @ > 0 THEN @ - 1 ELSE @]]
  /\ UNCHANGED <<alive, refusing>>
=============================================================================
