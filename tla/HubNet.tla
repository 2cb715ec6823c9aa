------------------------------- MODULE HubNet -------------------------------
(***************************************************************************)
(* The applications of a computer and its hub, joined by the network: the  *)
(* discovery of the hub, the heartbeats and the table of the hub as one    *)
(* system, in which messages are lost and overtaken, processes die, the    *)
(* program drives its devices and a manager elsewhere sends requests and   *)
(* configurations.                                                         *)
(***************************************************************************)
EXTENDS Device, Hub

CONSTANTS
  Traffic,     \* what the Manager broadcasts
  NewId,       \* NewId[d]: identifiers the program gives the device d
  RetuneLive,  \* does the program change the interval of an enabled device?
  HubDies,     \* does the hub crash?
  AppDies,     \* do applications crash?
  Prompt       \* do processes and network keep up with the clock?

ASSUME HubNetAssumption ==
  /\ App \subseteq Local
  /\ Traffic \subseteq Msg
  /\ NewId \in [Dev -> SUBSET Id]
  /\ {RetuneLive, HubDies, AppDies, Prompt} \subseteq BOOLEAN

vars == <<alive, dev, job, refusing, up, clients, polls, sweep, toHub, toApp>>

Init == DeviceInit /\ HubInit /\ NetworkInit

-----------------------------------------------------------------------------
\* With Prompt, the hub reads what an application has sent before that goes on.
Heard(a) == Prompt => toHub[a] = << >>

\* The thread of a: it polls, and takes each turn of what it has begun.
AppLoop(a) == Heard(a) /\ (AppPollMessage(a) \/ AppPollIdle(a))

AppTurn(a) ==
  \E d \in Dev : \/ HandleMessage(a, d) \/ PollHeartbeat(a, d)
                 \/ DisableNext(a, d) \/ CloseNext(a, d)

AppStep(a) == AppLoop(a) \/ AppTurn(a)

\* What the program decides to do with its devices.
Program ==
  \/ \E a \in App : Heard(a) /\ (DisableAll(a) \/ Close(a) \/ Open(a))
  \/ \E d \in Dev : Heard(AppOf[d]) /\
       \/ \E on \in BOOLEAN : SetEnabled(d, on)
       \/ \E id \in NewId[d] : SetId(d, id)
       \/ \E i \in Interval : (dev[d].enabled => RetuneLive) /\ SetInterval(d, i)

\* The manager lets the hub read one message before it sends the next.
ManagerSends ==
  /\ toHub[Manager] = << >>
  /\ \E m \in Traffic : Broadcast(Manager, <<m>>)
  /\ UNCHANGED <<devVars, toApp>>

Failure ==
  \/ Lossy /\ (\E a \in App : Idle(a) /\ LoseToApp(a)) /\ UNCHANGED <<devVars, hubState>>
  \/ HubDies /\ HubCrash /\ UNCHANGED devVars
  \/ AppDies /\ (\E a \in App : Crash(a)) /\ UNCHANGED hubState

\* Nothing is left to do before the clock ticks, but in applications that sleep
\* before they answer an hbeat.request: this is what Prompt asks for.
Asleep(a) == job[a].wait > 0
Waiting(a) == alive[a] =>
  /\ job[a].what = "none" /\ toApp[a] = << >>
  /\ \A d \in Dev : AppOf[d] = a => ~IsDue(d, dev[d])
Quiet ==
  /\ sweep = 0
  /\ \A s \in Sender : toHub[s] = << >>
  /\ \A a \in App : Asleep(a) \/ Waiting(a)

Tick ==
  /\ Prompt => Quiet
  /\ HubTick /\ DeviceTick
  /\ UNCHANGED <<toHub, toApp>>

Next ==
  \/ \E a \in App : AppStep(a) /\ UNCHANGED hubState
  \/ Program /\ UNCHANGED hubState
  \/ (HubStep \/ HubStart \/ HubLoss) /\ UNCHANGED devVars
  \/ ManagerSends /\ UNCHANGED hubState
  \/ Failure
  \/ Tick

Spec == Init /\ [][Next]_vars

(***************************************************************************)
(* Every process runs its endless poll loop (WF), a supervisor restarts    *)
(* the hub (WF), time passes whatever the others do (SF), and the network  *)
(* is lossy but fair: a heartbeat that gets to the hub again and again is  *)
(* read by it in the end, and so is its echo by the application (SF).      *)
(* With Prompt the program leaves the system time to come to rest.         *)
(***************************************************************************)
HubHears(a, id) == HubPollMessage(a) /\ Head(toHub[a]).kind = "app" /\ Head(toHub[a]).id = id
HearsEcho(a) == AppPollMessage(a) /\ IsHubEcho(a, Head(toApp[a]))

Fairness ==
  /\ \A a \in App :
       /\ WF_vars(AppStep(a) /\ UNCHANGED hubState)
       /\ SF_vars(HearsEcho(a) /\ UNCHANGED hubState)
       /\ \A id \in Id : SF_vars(HubHears(a, id) /\ UNCHANGED devVars)
  /\ WF_vars(HubStep /\ UNCHANGED devVars)
  /\ WF_vars(HubStart /\ UNCHANGED devVars)
  /\ SF_vars(Tick)
  /\ Prompt => []<>Quiet

FairSpec == Spec /\ Fairness
-----------------------------------------------------------------------------
\* Type correctness of the whole system.
NetTypeOK ==
  /\ NetworkTypeOK
  /\ alive \in [App -> BOOLEAN]
  /\ dev \in [Dev -> DeviceState]
  /\ job \in [App -> Job]
  /\ refusing \in BOOLEAN
  /\ up \in BOOLEAN
  /\ clients \in Seq(Client)
  /\ polls \in 0 .. SweepPolls - 1
  /\ sweep \in 0 .. Len(clients) + 2

\* The application a runs and has an enabled device.
Live(a) == \E d \in Dev : AppOf[d] = a /\ dev[d].enabled

HelloOnItsWay(a) == \E i \in DOMAIN toHub[a] : toHub[a][i].kind = "app"

\* The hub counts as dead (a silence longer than the period it derives from the
\* advertised minutes) no application that has an enabled device, unless a
\* heartbeat of that application is still to be read.  It relates the schedule
\* of prvHeartbeatPoll, the division in prvHeartbeatMessageNew and the period of
\* prvHandleMessage, through answers that make the application sleep.
OnlyTheDeadExpire ==
  \A c \in Clients : Expired(c) => ~Live(c.addr) \/ HelloOnItsWay(c.addr)

\* The interval i is announced in whole minutes.  A device is heard in time if what
\* the hub grants it for them outlasts each of the waits of prvHeartbeatPoll, with
\* the sleep before an answer on top of it.
Covered(i) ==
  \A t \in {i, ConfigInterval, DiscoveryInterval} : t + MaxDelay <= PeriodMax(i \div Minute)

\* What OnlyTheDeadExpire asks for: a system that keeps up with the clock and loses
\* nothing, one device per application, intervals that are covered and are not
\* changed under an enabled device, and nobody elsewhere who speaks for this
\* computer.
Timely ==
  /\ Prompt /\ ~Lossy /\ ~RetuneLive
  /\ QueueLen >= 3
  /\ \A a \in App : Len(DevSeq[a]) <= 1
  /\ \A i \in Interval \cup {DefaultInterval} : Covered(i)
  /\ \A m \in Traffic :
       /\ ~IsLocalHeartbeat(m)
       /\ m.kind = "response" /\ m.interval > 0 => Covered(m.interval * Minute)

\* A hub that stays up is found by every device that stays enabled, whatever is
\* lost: the first heartbeat, its echo, or the table of a hub that died.
HubIsFound ==
  <>[]up => \A d \in Dev : dev[d].enabled ~> dev[d].confirmed \/ ~dev[d].enabled

\* An application with an enabled device gets back into the table of the hub,
\* after a restart of the hub, a sweep, or the goodbye of another device of it,
\* although its devices believe the hub to know them (ishubconfirmed is never
\* taken back).
Reregistered ==
  <>[]up => \A d \in Dev : dev[d].enabled ~> AppOf[d] \in Members \/ ~dev[d].enabled

\* The hub forgets an application that has no enabled device any more, also when
\* its goodbye was lost or it died without one.
Forgotten ==
  \A a \in App : ~Live(a) ~> a \notin Members \/ Live(a)
=============================================================================
