# Verification of gxPL

gxPL is a C library for the xPL home automation protocol, with the programs
built on it: a hub, two bridges to radio networks, a logger and a sender. This
directory holds TLA+ models of the parts that carry the protocol, the TLC
configurations that check them on small instances, and proofs checked by TLAPS
for every instance. Paths below are relative to the root of the repository
(`src/...` is the repository itself).

Contents: [1 the system](#1-the-system), [2 the modules](#2-the-modules),
[3 the runs](#3-the-runs), [4 fairness](#4-fairness-and-promptness),
[5 disagreements](#5-where-code-and-documentation-disagree),
[6 the proofs](#6-the-proofs), [7 what is not modelled](#7-what-is-not-modelled),
[8 the plan](#8-the-plan).

## 1 The system

### How the parts interact

An xPL message is a UDP datagram. All xPL programs of a computer broadcast what
they have to say on port 3865. On that port listens one program per computer,
the **hub** (nothing enforces that it is only one: the socket is opened with
`SO_REUSEADDR`). Every other program listens on a port it got from the system, and
announces that port in its **heartbeats** (`hbeat.app`, or `config.app` while a
configurable device waits for its configuration). The hub reads the address
from the heartbeat, puts the program into a table, and from then on sends a
copy of every datagram it hears to every program in the table. A device knows
that the hub has found its program when it hears its own heartbeat come back;
until then it beats quickly, from then on slowly. The hub removes a program
that says goodbye (`hbeat.end`) or that stays silent for more than twice its
announced interval plus a minute.

    program            program            manager elsewhere
    devices            devices                  |
      |  ^               |  ^                   |
      |  | relayed       |  | relayed           |   broadcast
      v  |               v  |                   v
    ------------------ hub ------------------------- local network
                         |  ^
                         v  |
                       bridge  (an xPL program outside, a hub inside)
                         |  ^
                     radio modules

A **bridge** plays the hub for devices on a radio network and is an ordinary
program on the local network; a hop counter in each message limits how often it
may cross a bridge.

There are no threads. Every program is an endless loop around one poll function
(`gxPLAppPoll`, `gxPLHubPoll`, `gxPLBridgePoll`) that reads at most one
datagram, calls listeners, and looks at timers. Concurrency is between
processes and the network, and between the steps of one process and the clock:
a loop over devices or clients is not atomic for anybody else, an answer to an
`hbeat.request` sleeps up to a few seconds, a supervisor forks and restarts the
hub.

### Inventory

| component | source | state it keeps | operations |
|---|---|---|---|
| hub | `src/src/hub.c` | vector of clients (address, longest silence, last heartbeat), time to the next sweep | poll: table update, relay, sweep |
| device | `src/src/device.c` | enabled, configured, confirmed by the hub, identifier, interval, the heartbeat message it keeps, time of the last one | enable, set identifier, set interval, hello, goodbye, handle a message, delete |
| application | `src/src/gxpl.c` | vector of devices and listeners, the message under construction | open, poll, heartbeat schedule, dispatch, hub echo, disable all, close |
| configurable device | `src/src/device_configurable.c`, `src/src/sys/unix/device_configurable.c` | configuration items and values, a file | answer `config.list`/`config.current`, apply a `config.response`, save, load |
| groups, filters | `src/src/device_group.c`, `src/src/device_filter.c` | patterns of a device | match a message |
| message | `src/src/message.c` | a parser state in the message itself | parse (resumable, piece by piece), encode |
| bridge | `src/src/bridge.c` | vector of clients, filter, hop limit, two applications | poll both sides, cross, echo, configure, sweep |
| UDP layer | `src/src/sys/unix/io_udp.c` | two sockets, the local addresses | search for a network, open, send, receive, close |
| radio layer | `src/src/sys/unix/io_xbeezb.c` | serial port, frame identifier, last modem status, one receive slot | open (a dozen AT commands, reset, join), poll, send, receive, close |
| layer registry | `src/src/io.c` | a table of names and functions | register, look up |
| hub program | `src/tools/hub/gxpl-hub.c` | the pid of its child, a count of restarts | fork, restart, stop on a signal |
| radio bridge program | `src/tools/bridge/xbee` | setting, configuration, a count of restarts | fork, restart, stop on a signal, apply a configuration, change the network |
| generic bridge program | `src/tools/bridge/generic` | options | endless poll |
| logger, sender | `src/tools/logger`, `src/tools/sender` | none to speak of | print, send one message |
| AVR twins | `src/src/sys/avr` | as the Unix files | the same protocol |
| identifiers, utilities | `src/src/util.c`, `src/src/sys/unix/util.c`, `src/util` | none | identifiers and their text, checked copies of strings, time |

### What is hard in each component, and what makes it correct

* **Hub.** The table is a vector that is searched, appended to and shortened by
  heartbeats, goodbyes and the sweep, and lost when the process dies. Correct:
  one slot per program; a program enters, is refreshed and leaves only for the
  documented reasons; no dead program stays forever. The sweep removes by index
  while it counts the index up, which makes the last point interesting.
* **Device and application.** A device keeps the heartbeat it built and sends it
  again and again while identifier, class and interval may change. Goodbyes and
  hellos must pair up over renames, configurations and failures to send.
  Correct: the kept message always tells the truth about an enabled device; a
  listener that follows hellos and goodbyes knows exactly the enabled devices;
  a disabled device is silent.
* **Applications and hub as a system.** The hub derives its patience from the
  minutes a heartbeat announces (an integer division), the application its
  schedule from seconds; both sides crash, datagrams vanish, the confirmation
  flag is never taken back. Correct: the hub never gives up a living program in
  a system that keeps up with the clock; everything lost is found again; what
  is dead is forgotten.
* **Bridge.** Two networks polled in turn; clients have an identifier and
  possibly an address; what the bridge sends outside comes back to it. Correct:
  one slot per device and place; nothing echoes back inside; a device that was
  moved, swept or forgotten with the process is found again; ghosts go away.
* **Message parser and dispatch.** The parser can stop between some lines of a
  message, and keeps it in one static variable for all applications of a process;
  listeners change the vectors they are called from. Correct: what comes out is
  what went in; a broken message does not take others with it; each listener that
  is meant is called once.
* **Hub program and UDP layer.** A supervisor whose signal handler never returns,
  and reads a variable the interrupted code is about to write; a fork that fails;
  hubs that anybody may send a signal, and that may hang in their handler; hubs that
  search for a network before they serve. Correct: one hub at a time, replaced when
  it dies, none left when the supervisor is gone; a search that ends, and not before
  the time it was given unless the system refuses it; a supervisor that need not
  know about any of it.
* **Radio layer and its bridge program.** An opening is a conversation over a
  serial line: answers come late, to a command of an earlier program, without their
  value, or never;
  the module joins, resets and loses its power when it likes; packets arrive
  while nobody wants them. The network is kept in four places. Correct: after the
  opening the module is where it was told to be; nothing from the network before
  comes out; every opening ends; a bridge that died is replaced.
* **Identifiers.** Three parts of letters, digits and hyphens, joined by a hyphen
  and a dot and taken apart again at the first of each.
* **Configuration.** Answers of a manager applied pair by pair over the old
  values, looked up by names that messages carry in small letters; a file rewritten in place by every configuration and by every start,
  with a death, a full disk or a refused open anywhere. Correct: what was saved
  to the end is what comes back, and never a mixture of two configurations.

Every hazard, with its line and the properties that watch it, is in
`PROJECT.json` under `hazards`.

## 2 The modules

    Network ── Membership                     what a hub promises
       │
       ├── Hub ── HubAlone ── MCHub            the hub facing any traffic
       ├── Device ── DeviceAlone ── MCDevice   devices facing any network
       │                 └─────── DeviceProofs  first what the operations of Device keep true
       └── Device + Hub ── HubNet ── MCHubNet  the whole computer
                              └───── HubProofs   about HubAlone and HubNet, on DeviceProofs

    Bridge ── BridgeNet ── MCBridge            the bridge between its networks
                  └─────── BridgeProofs

    XBeeIo ── XBeeBridge ── MCXBee             the radio layer, and the program on it
                  └──────── XBeeProofs

    Configuration ── MCConfiguration           configuration and its file
           └──────── ConfigurationProofs

    Identifier ── Message ── Reception ── Dispatch ── MCDispatch
                                             └─────── DispatchProofs
                                               from the pieces of a message to the listeners

    Supervisor ── HubProgram ── MCSupervisor   the hub program; UdpIo is an INSTANCE in it
                      └──────── HubProgramProofs   about the supervisor, and that the
                                                   program implements it

`SequenceLemmas` holds what all the proofs say of sequences: removals, ends, indexes,
beginnings, and what `FlattenSeq` of the community modules gathers.

Time is counted in ticks. Time stamps (`hbeat_last`) are replaced by ages, `now
- hbeat_last`, that grow with each tick and saturate at `MaxAge`; `MaxAge` is
larger than every interval an age is compared with, so saturation cannot be told
from an age that goes on growing. `Minute` is the number of ticks of 60 seconds:
it stays in the formulas where the code multiplies or divides by 60.

### Network
The datagram layer as the UDP layer uses it (`io_udp.c`; the sockets themselves
are external). `toHub[s]` is a FIFO per sender, so that datagrams of two senders
overtake each other, `toApp[a]` the socket buffer of an application. `Push`
drops what does not fit. A message is cut down to the fields the components
read: kind, class, identifier, address and minutes.

### Membership
The abstract hub: a partial function `reg` from addresses to the silence granted
and the silence so far. `Announce`, `Leave`, `Expire`, `Pass` (time) and `Stop`
are the only ways it changes. It knows nothing of vectors, indices or sweeps.

### Hub, HubAlone
| action | code |
|---|---|
| `HubPollMessage` | `gxPLHubPoll` with a datagram: `prvHandleMessage` (search, then `AddClient`, `RefreshClient`, `RemoveClient` or `KeepClients`), then `Relay` to the clients of the **new** table, then the countdown to the sweep |
| `HubPollIdle` | the same poll without a datagram |
| `SweepStep`, `SweepEnd` | one iteration of the loop in `gxPLHubPoll`, including the index that moves on after a removal |
| `HubCrash`, `HubStart` | death and restart of the process; the table is gone |
| `HubTick`, `HubLoss` | clock, network |

`hub->timeout` counts milliseconds of polls; here it counts polls, `SweepPolls`
of them. The clock stands still within a sweep, because the code reads it once
before the loop. `HubAlone` lets any sender send any message of `Broadcasts` at any
time. It also defines `Table`, the vector seen as a function: the refinement
mapping to `Membership`.

### Device, DeviceAlone
| action or operator | code |
|---|---|
| `SendHello`, `SendGoodbye`, `HeartbeatMessageNew`, `HeartbeatClass` | `prvHeartbeatMessageSendHello` and its neighbours, `device.c` |
| `Enable`, `SetEnabled` | `gxPLDeviceEnable` |
| `IdSet`, `SetId` | `gxPLDeviceIdSet` (goodbye, copy, hello, with its early returns) |
| `SetInterval` | `gxPLDeviceHeartbeatIntervalSet` |
| `ConfigSet` | what `prvConfigSet` (`device_configurable.c`) does to the life of the device, in the order of the code |
| `HandleMessage` | `gxPLDeviceMessageHandler` |
| `IsDue`, `AppPollIdle`, `PollHeartbeat` | `prvHeartbeatPoll`, `gxPLAppPoll` |
| `AppPollMessage` | `gxPLAppPoll` with a datagram |
| `DisableAll`/`DisableNext`, `Close`/`CloseNext` | `gxPLAppDisableAllDevices`, `gxPLAppClose` with `gxPLDeviceDelete` |
| `Crash`, `Open`, `DeviceTick` | the process dies and is started again; clock |

A loop over the devices of an application is a `job`: one action per device, so
that the network and the clock move between two of them; within it an answer to
an `hbeat.request` may sleep `MaxDelay`. The operators of `device.c` take and
return a *progress* record (device, datagrams sent so far, result), so that one
action makes a whole call with all the sends in it and every early return. While
`refusing` holds, each send may fail.

`DeviceAlone` adds a world that sends anything, and a listener that keeps a list
of devices the way managers do. Once trouble has begun sends fail, applications
crash, and requests arrive: a request belongs to the trouble because a *disabled*
device answers it, and is on the list from then on. `ListenerAssumption` says what
such a list takes for granted: an identifier belongs to one device (it is the
address of a device on an xPL network, and a list of identifiers cannot tell two
devices of one name apart), and a socket buffer holds what one operation on a
device sends.

### HubNet
`Device` and `Hub` joined by the network: what the hub reads is what the
applications sent, what it relays reaches the applications, a `Manager` sends
requests and configurations, both sides may die. `Prompt` (section 4) chooses
between the system that keeps up with the clock and any other.

### Bridge, BridgeNet
| action or operator | code (`bridge.c`) |
|---|---|
| `Matches`, `FirstMatch` | `prvClientMatch` and the search of the vector |
| `UpdateClients`, `EchoInside`, `CrossOut`, `PollInMessage` | `prvHandleInnerMessage`: table, echo inside, hop limit, send outside |
| `CrossIn`, `PollOutMessage` | `prvHandleOuterMessage`: hop limit, broadcast or the clients that want it |
| `RadioSend` | `gxPLXBeeZbSend`, which is given an address, or broadcasts |
| `Configure`, `NewNetwork` | the listener of the configurable device; `gxPLBridgeSetNewInSetting` closes and reopens the inner application and keeps the table |
| `PollInIdle`, `PollOutIdle`, `SweepStep`, `SweepEnd` | the rest of `gxPLBridgePoll` |
| `BridgeCrash`, `BridgeStart`, `BridgeTick` | the process, the clock |

`toIn` is the serial port, one FIFO for all radio modules; `toOut` the socket,
on which the hub also sends back what the bridge itself has sent; `toNode[p]`
the packets the last poll delivered to module `p`. `BridgeNet` starts, stops,
kills and moves devices, loses packets, and sends from outside. Copies for
several clients of one module are one packet; a client without an address is
sent to the null address, where nobody is. A device tells its address in all of
its hellos or in none.

### XBeeIo, XBeeBridge
| action or operator | code (`io_xbeezb.c`, `gxpl-xbee-bridge.c`) |
|---|---|
| `OpenPort`, `GoOn`, `Request`, `Following`, `Identify`, `Noted`, `AfterRead`, `ToReset` | `gxPLXBeeZbOpen`: which command follows which; a value that is missing is not looked at (`param`, `Unread`) |
| `PollAnswer`, `IsAnswer`, `Timeout` | `prvSendLocalAt` and the callback of its answers, which keeps the first frame and drops the others |
| `PollStatus`, `Wanted` | `prvWaitStatusModem`, which looks at the last status after each poll; a coordinator (`Noted`) does not wait to join |
| `Frames`, `Seen`, `TakesPackets` | the three callbacks, for one frame or several at once |
| `IoPoll`, `IoRecv`, `ClosePort` | `prvIoPoll`, `gxPLXBeeZbRecv`, `gxPLXBeeZbClose` |
| `Execute`, `Restart`, `Associate`, `PowerCycle`, `PacketArrives` | the module (external) |
| `StartBridge`, `StartInForeground`, `StartApplication` | `main` with `-p`, `-D`; another program with `-r` |
| `Check`, `Fork`, `Assign`, `FailFork`, `GiveUp`, `Wait` | `prvSuperviseBridge`; `fork ()` and the assignment of its result are two steps |
| `TerminateSupervisor` | `prvSupervisorSignalHandler` up to its `waitpid ()`, at each of these statements |
| `TerminateBridge` | a signal for the bridge from anybody, `prvBridgeSignalHandler`, which may hang |
| `OpenIo`, `OpenFails`, `StartDevice`, `Startup`, `StartupCrashes` | `prvRunBridge`, `gxPLBridgeDeviceSet`, `prvSetConfig` at the start |
| `Configure`, `Reopened` | `prvConfigChanged`, `prvSetConfig`, `gxPLBridgeSetNewInSetting` |

The module executes commands at its own pace, in their order, fails any of them,
and its answer may be lost or lack the value it was asked for; what it was asked for
outlives the driver that asked. `setting` is that of the process that has the module, and
the modem status is kept only while somebody will look at it (`StatusMatters`).

The driver counts its frame identifiers from one in each opening, so that it may take the
answer to an earlier program's command for its own. `doubt` is a history variable, which no
guard reads: it says that the opening under way could have been misled, because more than
`Backlog` (four) commands of earlier openings waited in the module when it began,
because the module did not say in which network it is, or because the module has lost its
power since. Four is what the code can take; section 5 says what happens with five.

After its first signal a supervisor only waits for its bridge and replaces it no more:
this bridge is `last`, as is one that was started with `-D` or that a signal between `fork ()` and
the assignment has left alone. A bridge that hangs in its handler is `hung`, until something
kills it.

A number too large for the setting, or none, is `Malformed` or `Absent`. The
bridge is not started with a router: its usage text asks for a coordinator
(`gxpl-xbee-bridge.c:335`); the firmware is a constant, so that other programs open routers as
well. A driver that a program leaves open dies with it: `Crash` stands in for
every end of a process.

### Configuration
| action or operator | code |
|---|---|
| `Response`, `ConfigSet`, `Cleared` | a `config.response`: `prvConfigHandler`, `prvConfigSet` (`device_configurable.c`) |
| `Filled`, `Given`, `IsGroup`, `IsFilter` | `gxPLDeviceConfigValueAdd`, `gxPLDeviceGroupAddFromString`, `gxPLDeviceFilterAddFromStr`: what fits and is well formed is appended |
| `ConfigList`, `Defined` | `prvSendConfigList`, whose pairs are also the first part of the file |
| `Current` | `prvDeviceConfigSendCurrent`, whose pairs are also the last part of the file |
| `FileOf`, `OpenFile`, `WriteLines`, `Save` | `gxPLDeviceConfigSave` (`sys/unix/device_configurable.c`): truncate, then write |
| `Start`, `Restored`, `ConfigLoad`, `ConfigNew` | `gxPLDeviceConfigNew`, `gxPLDeviceConfigLoad`, `prvConfigNew`; a load ends in a save of what was loaded |
| `Prime`, `ItemAdd`, `ItemRemove`, `ItemClearAll`, `ValueClearAll`, `ValueAdd`, `ValueSet`, `ValueSetAt`, `SetInterval` | what the program does |
| `Crash` | the process, or the computer, stops |

The file is a sequence of lines, a line a name and a value. A cut in the middle of
a line is a cut before it: `gxPLPairFromLine` gives up on a line without its end.
A group or filter that is malformed is as good as empty, and both are `Blank`. A
device without a configuration gets a new instance identifier from the clock at
each start: one of `Generated`. Names of items keep their capitals in memory and
in the file, and lose them in messages (`Lower`). What the configuration does to
the heartbeats is in `Device`.

### Identifier, Message
Operators without state.

| operator | code |
|---|---|
| `StrCpy`, `Suits`, `PartSet` | `gxPLStrCpy`, `gxPLIdVendorIdSet` and its like (`util.c`): small letters, or a refusal |
| `IdCopy`, `IdText`, `IdFromString` | `gxPLIdSet` and `gxPLIdCopy`, the text of an identifier, `gxPLIdFromString` with its cut at the first hyphen |
| `New`, `TypeSet`, `SourceIdSet`, `TargetPartSet`, ... | the setters of `message.c`, with their refusals |
| `PairAdd`, `PairSet`, `PairGet`, `PairExist`, `PairValuesSet` | the functions with these names, with their comparison of names and their results |
| `Text` | `gxPLMessageToString`: the lines of a message |

A part of an identifier is a sequence of words with hyphens between them, its
text a run of words: which hyphen was which is lost, as in the code. `Illegal` is
what a setter refuses, too long or with other characters.

### Reception, Dispatch
| action or operator | code |
|---|---|
| `Take`, `Noted`, `Meaning`, `AtEnd`, `FromString` | `gxPLMessageFromString` (`message.c`): one line, the end of a piece, a piece |
| `Poll`, `Release` | `gxPLAppPoll` (`gxpl.c`) before and after the listeners, with the static `msg` |
| `Ends`, `Piece`, `Coming` | the I/O layers, which may cut a text between lines, and the senders, which may fall silent after a piece |
| `NextListener`, `NextDevice`, `NextDeviceListener`, `Return` | the loops of `gxPLAppPoll`, `prvDeviceMessageDispatcher` and `prvDeviceDispatchEvent`; `Return` is the end of a function of the program |
| `Accepts`, `Matches`, `FilterMatch` | `gxPLDeviceMessageHandler`, the comparisons of a listener, `gxPLMessageFilterMatch` |
| `ListenerAdd`, `ListenerRemove`, `MessageListenerAdd`, `MessageListenerRemove` | the functions with these names; `FindFirst` is the search of a vector with `prvListenerMatch` |
| `AddDevice`, `AddConfigurableDevice`, `RemoveDevice`, `IdSet`, `PartIdSet`, `GroupAdd`, `FilterAdd`, ... | the calls a program may make |

A message is a record of its fields, filled in by the setters and turned into
lines by `Text`; the parser fills a second record in, line by line. Texts are cut
between lines only, as the layers of the repository do not cut at all. The program calls the library between two messages or from a function
of its own, and a step of the loops never lasts over such a call. `heard` and
`new` (in a listener), `quiet`, `whole` and `missed` are history: no guard reads
them. A device that is listening is not removed, nor is `gxPLAppPoll` called from
a listener. What `gxPLDeviceMessageHandler` does about heartbeats before it
decides is in `Device`.

### Supervisor
| action | code (`src/tools/hub/gxpl-hub.c`) |
|---|---|
| `Check`, `Fork`, `Assign`, `FailFork`, `WaitHub`, `Delay` | the loop of `prvSuperviseHub`; `fork ()`, which may fail, the assignment of its result and the `exit` after a failure are steps of their own |
| `Signal`, `Kill`, `Reap` | `prvSupervisorSignalHandler`, which may interrupt the loop before each of these steps, and itself once (SIGINT within SIGTERM) |
| `KillHub`, `KillAll` | its `kill (hub_pid)`: of a hub, or, when the fork has just failed and `hub_pid` is -1, of every process of the computer |
| `HubOpens`, `HubDies`, `HubTerminates` | `prvRunHub` and `prvHubSignalHandler` in the child |
| `SignalHub` | a signal for the hub from anybody, whatever its supervisor does |
| `Launch` | `main`, detached |

A process is `none`, `forked`, `serving`, `hung`, `zombie` or `reaped`. The
handler of a serving hub frees memory, whatever the hub was doing, and may hang
in the allocator it has interrupted: `hung`. Process ids are the numbers of the
forks: an id is not used again while the supervisor runs.

### UdpIo, HubProgram
| action or operator | code |
|---|---|
| `OpenBroadcast`, `FindDefaultIface`, `Connect` | `gxPLUdpOpen` (`io_udp.c`): the socket, one look of `prvFindDefaultIface`, the rest |
| `Looked`, `Refused` | the outcomes of that look: an interface, none (`ENONET`: a second of sleep, and once more if time is left), or another error, which ends the search at once |
| `MakeBindConnection`, `BuildLocalIpList` | the functions with these names; what each of their failures leaves open |
| `CloseUdp` | `gxPLUdpClose`, or the end of the process |
| `IfaceChanges` | the network comes, goes, and comes back with another address |
| `HubOpening`, `HubOpened`, `HubPollFails`, `HubStopped` | `prvRunHub`: `gxPLHubOpen` down to its layer, the end of a hub |

`UdpIo` is instantiated with one layer per process, `HubProgram` is `Supervisor` with
that layer in each hub: the abstract step `HubOpens` is its last step, those before
are stutters. `refused` and `met` are histories: has the system refused the list of
interfaces to this layer, has the computer ever been on the network?

### MC modules and mutants
The `MC*` modules only name model values and small sets. Definitions preceded by
a comment "Mutant" (`PeriodOfOneBeat`, `AddClientBlindly`, ...) are wrong
versions of the definition after them and are used by no specification. For
every checked property there is at least one (`PROJECT.json`, `mutants`) under
which TLC finds the property violated in the same run: the run can tell the code
from a plausible mistake in it.

## 3 The runs

Passing runs:

| run | checks | shows |
|---|---|---|
| `hub` (`MCHub.cfg`) | `HubTypeOK`, `OneSlotPerClient`, `KeepsPromise`, `EventuallyExpired` | through every order of heartbeats, goodbyes, sweeps and restarts, the hub implements `Membership`, holds nobody twice, and loses every silent client in the end although its sweep skips some |
| `device` (`MCDevice.cfg`) | `DeviceTypeOK`, `KeptHeartbeatIsCurrent`, `ListedAreEnabled` | the kept heartbeat is true even when sends fail; without failures the list of a listener is exactly the enabled devices |
| `net_safety` (`MCNetSafety.cfg`) | `NetTypeOK`, `OnlyTheDeadExpire` | the hub counts no program as dead that has an enabled device, unless its heartbeat is still unread |
| `net_live` (`MCNetLive.cfg`) | `HubIsFound`, `Reregistered`, `Forgotten` | the hub is found, takes programs back, forgets dead ones, under losses and crashes of both sides |
| `supervisor` (`MCSupervisor.cfg`) | `SupervisorTypeOK`, `OneHubEach`, `NoKnownHubLeft`, `BreakerCountsDeaths`, `HubServesAgain`; `UdpTypeOK`, `SearchedToTheEnd`, `ImplementsSupervisor` | the hub program with the layer in its hubs: whenever a signal comes, the hub the supervisor knows of is stopped and waited for; the limit of restarts counts deaths; hubs serve again and again, unless one hangs; a search for the network lasts as long as it was told to, unless it is refused, and the supervisor cannot tell it from an opening in one step (the fairness of `Supervisor` included) |
| `configuration` (`MCConfiguration.cfg`) | `ConfigurationTypeOK`, `Restorable`, `NothingMixed`, `EchoChangesNothing`, `ListIsHonest` | what was saved to the end comes back; an interrupted save leaves the beginning of the new configuration and nothing of the old; sending back `config.current` to a device whose items have no capitals changes nothing but the seconds of the interval; who keeps to `config.list` is obeyed |
| `dispatch` (`MCDispatch.cfg`) | `DispatchTypeOK`, `AsSent`, `WholeIsHeard`, `HeardOnce`, `NobodyMissed` | no message is put together from two, and each arrives as it was sent, hyphens of a vendor excepted; a broken one takes one more with it at most; listeners that change the vectors they are called from are called once, and nobody else is forgotten or called in error |
| `bridge` (`MCBridge.cfg`) | `BridgeTypeOK`, `OneSlotPerPlace`, `NoReflection`, `KnownWhereItIs`, `GhostsGo` | the table of the bridge and its two directions, through moves, deaths, losses, reconfiguration and restarts |
| `xbee` (`MCXBee.cfg`) | `XBeeTypeOK`, `ForcedPanInUse`, `NothingFromOldNetwork`, `OpeningEnds`, `BridgeRestarts` | a module that answers late, without a value or not at all, and remembers what earlier programs asked of it: unless its opening could be misled (`doubt`), a bridge that was given a network is on it and nothing from the one before comes out of the driver; every opening ends; and a bridge that died is replaced, unless it hangs |

Why the bounds are enough:

* `hub`: three local addresses are what the skipping index needs: one that is
  removed, one that is passed over, one that is reached; and a remote address,
  which must not enter. `SweepPolls = 1` sweeps after each poll. `MaxAge = 2`
  is one more than the period (1) of the interval 0, the only one here, so an
  age is below, at, and above it. Queues of one datagram: the order of
  datagrams of *different* senders is still arbitrary.
* `device`: two devices of one application, one configurable, which may be
  renamed and configured with or without a change of instance and interval; two
  devices make `gxPLAppDisableAllDevices` stop in the middle when the first
  goodbye fails. The program sets the interval to 0, a configuration to 1. `QueueLen = 3` holds the most datagrams one call sends
  (goodbye, hello, hello), so nothing is dropped here; loss is a matter of
  `net_live`.
* `net_safety`: `Minute = 2` and an interval of 3 ticks, which is *not* a whole
  number of minutes: the announced minute is rounded down, the period the hub
  computes (6) must still be long enough, with a sleep of a tick in the way.
  `MCHubNet` has TLC evaluate that these constants are `Timely` (`TimelyRun`), as the
  theorem about `OnlyTheDeadExpire` assumes.
  The other intervals are 8 ticks (a configuration of 4 minutes) and the 2 of
  configuration mode; `MaxAge = 19` is one more than the longest period.
* `net_live`: two devices of one application, which share one slot in the hub;
  the goodbye of one takes the slot from the other. Intervals of one tick and a
  queue of two: smaller numbers make the liveness graph finite in seconds and
  leave every order possible.
* `bridge`: one device, two places, `MaxHop = 1` (the default of both programs).
  One device has up to two slots, enough for the order of slots to matter to a
  goodbye and to the sweep. The bound on `toOut` drops nothing the hub would
  not drop.

* `supervisor`: one start of the program (starts share nothing but the port, and
  the proofs are for any number of them); three restarts (10000 in the code) have a
  first, a middle and a last one; three seconds of search have one too; one
  address, which comes and goes (nothing looks at which one it is, and the proofs are
  for any).

* `configuration`: an item with two values, and one with one value and a capital
  in its name, which the program also removes and defines again; room for two
  groups and one filter; answers that fill everything, overflow everything, or
  say very little; three identifiers (generated, and two configured); intervals
  of half a minute, of a minute, of two, and a default of two and a half, so that
  minutes cut something off. Saves are cut after any line.

* `dispatch`: two devices and two functions, one registered on both devices. Four
  messages: a request to the configurable device; a broadcast of its own, whose
  pairs are set more than once and under names with capitals; an order to its
  group, without a body, from a vendor with a hyphen; one with an illegal target.
  Two calls of the library (`CallMax`) anywhere, which is what it takes to
  register a function and let it change a vector from within. As in a bridge, the
  layer outside delivers whole datagrams and the one inside may cut: where the
  parser can go on, where it cannot, and twice. Parts of identifiers have at most
  two words, one more than without hyphens.

* `xbee`: two networks; a coordinator or a router (any other firmware ends an opening
  at its first answer); two frames on the line and two commands in the module, so that
  there is a late one beside the one that is waited for; two restarts (10000 in the
  code). When the queue of the module is full, a command is lost, when the line is full
  the module waits. A queue of two never has more than `Backlog` commands, so that in
  this run doubt comes from a missing value or a loss of power alone: what a longer queue does
  is a matter of the proofs, which are for queues and lines of any length.

The three longest runs are `xbee` (1.07 million states), `configuration` (397 thousand)
and `supervisor` (347 thousand): one to two minutes each on two cores.

The deadlock check is on in all runs but those of the hub program, where everything
may have come to its end.

Violation runs are explained in section 5.

## 4 Fairness and promptness

Fairness follows the loops of the programs:

* `WF` of the hub, of each application and of the bridge: `gxPLHubPoll`,
  `gxPLAppPoll` and `gxPLBridgePoll` are called in endless loops.
* `WF` of `HubStart` and `BridgeStart`: a supervisor restarts what died. The
  hub's own supervisor gives up after a number of restarts
  (`src/tools/hub/gxpl-hub.c`); the properties that need the hub say `<>[]up`,
  so a hub that dies forever is outside of them.
* `SF` of the clock: time passes, whatever the others do.
* `SF` of "the hub reads a heartbeat of this identifier", "the application reads
  its echo" and "the bridge reads a hello of this device": the network loses
  datagrams, but not always the same one. Without it no retransmission could
  ever succeed.
* `WF` of each supervisor's statements, of each hub's start with all the steps of
  its layer, and of its reaction to SIGTERM: they are ordinary processes. Nothing
  makes a hub die or a signal come, nothing ends a handler that hangs, and nothing
  brings the network back.
* `WF` of the bridge program, of the loop that polls for a modem status
  (`PollStatus`) and of the count of its waits (`Timeout`): the loops of an opening
  sleep and count whatever the module does. The module owes nothing: no answer is
  ever promised.
* `Settled` (bridge): nobody reconfigures the radio network forever; each such
  configuration throws away what is on the air.

Programs make no promise: enabling, renaming, closing, crashing carry no
fairness.

`Prompt` says that processes and network are fast compared with the clock: a
tick needs `Quiet` (nothing to read, nothing due, except in applications that
sleep on purpose), and a sender's datagram is read before the sender goes on.
Timeliness (`OnlyTheDeadExpire`) makes no sense without such an assumption: an
unread heartbeat is as good as a lost one. Liveness uses it too, together with
`[]<>Quiet`, because `gxPLAppPoll` looks at its heartbeats only when no datagram
waits (`gxpl.c:401`): under traffic that never pauses a program sends no
heartbeat at all. That starvation is in the code and is listed as a hazard.

## 5 Where code and documentation disagree

Each of the first three is a run that TLC finishes with a counterexample, and a
`findings` entry with the quoted lines.

| run | property | what happens |
|---|---|---|
| `supervisor_orphan` | `NoHubLeft` | a signal comes after `fork ()` and before `hub_pid` has its result: the handler stops nobody, and the new hub keeps the port without a supervisor |
| `dispatch_remove` | `RemovesThatOne` | the program removes a listener; `prvListenerMatch` says 1 for equal functions where the search of a vector wants 0, so the first listener with *another* function goes: `prvConfigHandler` of a configurable device, or the dispatcher of all devices. The listeners of a configuration are compared in the same way (`device_configurable.c:38`) |
| `xbee_pan` | `RemoteReachesModule` | a bridge is started without `-p` on a module of another network; a manager sets the network which the *setting* holds by default, or from the file: the comparison finds no change, nothing is written to the module, and the manager is told it is configured |

The vector is part of a library that is not in the repository. That its search
takes 0 for a match follows from all other comparisons given to it (`gxPLIdCmp`,
`strcmp`, `prvClientMatch` in hub and bridge), which work.

Four more are disagreements of the same kind, which no run shows as a counterexample: the
properties that a passing run checks are stated with an exception for each of them, and the
exception is where the code goes wrong.

* **Items with capitals lose their values** (`EchoChangesNothing`).
  `src/doc/doc02-configurable-services.md` defines items "debugMode" and
  "allowedUserName" (lines 92 to 97, 113), and has a manager read the current values
  and send them back for the program to install (292 to 306). Names of items
  are put into messages in small letters (`gxPLStrCpy`, `src/src/message.c:612`) and
  looked up as the program wrote them (`src/src/device_configurable.c:294`), after all
  values were cleared: `debugMode` has no value after its own current value was sent
  back. A text in the code (`device_configurable.c:159`) says that names have small
  letters only, but nothing refuses others. The property is about devices whose
  items have such names; without that condition TLC finds the loss at once.
* **A late answer is taken for another** (`ForcedPanInUse`,
  `NothingFromOldNetwork`). "The response matches the request" (`src/src/sys/unix/io_xbeezb.c:295`)
  when two letters and a number do, and the numbers start over with each opening. With
  five commands of earlier openings in the module (`Backlog`, `TodoLen` 5, `LineLen` 1) TLC
  finds `ForcedPanInUse` violated in some sixty steps: openings that time out leave one
  command each, until `VR`, `SH`, `SL` and the reading of the network are all answered
  by answers to earlier commands; the last of them says that the module is where it
  should be, so that nothing is written, and then an old command moves it away. With four
  it cannot happen (section 6).
* **A module that does not say where it is** (the same two). A good answer to `ID` without a
  number in it skips the comparison and the writing (`io_xbeezb.c:473`), and the opening
  goes on and succeeds with whatever network the module has. `doubt` covers this as well.
* **A process that hangs is not replaced** (`HubServesAgain`, `BridgeRestarts`). "If it
  stops for any reason, restart it" (`src/tools/hub/gxpl-hub.c:146`,
  `src/tools/bridge/xbee/gxpl-xbee-bridge.c:473`). Both handlers free memory whatever they
  have interrupted, and anybody may send the signal; a hub or bridge that hangs in there has
  stopped for its clients, and its supervisor waits in `waitpid ()` for ever.

Met on the way, and not turned into runs:

* The sweeps of hub and bridge go on with the next index after a removal has
  shifted the vector (`src/src/hub.c:222`, `src/src/bridge.c:405`): the next client
  is not examined, and stays for another minute. `EventuallyExpired` and
  `GhostsGo` show that it goes in the end.
* `gxPLDeviceMessageHandler` does not look whether the device is enabled: an
  `hbeat.request` makes a disabled device say hello (`src/src/device.c:230`).
* `prvHeartbeatPoll` wants *both* 60 s and the device's interval to be over
  (`src/src/gxpl.c:119`), so that a device in configuration mode beats at its own
  interval, where the comment says "we send out once a minute".
* With an interval below a minute, a device in configuration mode beats every 60 s and
  announces 0 minutes, which grants it just these 60 s: any delay, and the hub gives it
  up. `Covered` leaves such intervals out of `net_safety`.
* A fork that fails leaves -1 in `hub_pid` (`src/tools/hub/gxpl-hub.c:175`) until the
  program exits: a signal in that window makes the handler send SIGTERM to every
  process of the computer (`kill (-1)`), which `KillAll` models.
* If both applications of a process read their messages in pieces, the static
  `msg` does mix two messages: a piece of one side kills the beginning on the other
  side, and its own end then fits the next beginning. `AsSent` is stated for one
  layer that cuts, as in a bridge to a radio; the layers of the repository
  deliver whole messages.
* `gxPLAppPoll` returns the size of a piece that does not end a message, where
  `src/include/gxPL.h:105` promises 0 or -1; the loops of hub and bridge programs
  end on that.
* `gxPLAppRemoveDevice` removes the first device with the *identifier* of the one
  it is given, and a rename may give two devices one identifier.
* `gxPLDeviceHeartbeatIntervalSet` on an enabled device leaves the kept heartbeat
  with the old interval in it (`src/src/device.c:618`). A program that lengthens
  the interval is given up by the hub while it lives; `net_safety` has programs
  that do not (`RetuneLive = FALSE`), and `device` those that do.
* In configuration and file: a save that is cut leaves a header and some lines; the
  next start declares the device configured, saves what it found, and a program
  that follows the documentation never adds the items that are missing.
  `NothingMixed` says what is left.
* An item whose name begins like `group` or `filter` (`group-name`) is written to
  the file and not read back (`src/src/device_configurable.c:204`). The constant
  `Reserved` of `Configuration` is the set of these items; the runs have none, so
  that `Restorable` speaks of all the others.
* The answer of a disabled device has a consequence when two devices share an application: a
  disabled device of a short interval answers a request, the hub computes the
  period of the *shared* slot from that answer, and gives the application up
  while the other device, of a long interval, is alive. `net_safety` therefore
  has one device; slots shared by devices are in `net_live`.
* A first configuration that changes neither instance nor interval restarts
  nothing and sends no `config.end` (`src/src/device_configurable.c:300`), while
  `src/doc/doc02-configurable-services.md:305` describes one. Listeners that
  follow identifiers, as in `DeviceAlone`, do not notice.
* With a limit of two hops or more, what a bridge sends outside passes its own
  hop check when the hub gives it back, and is sent inside again. `NoReflection`
  is stated for the default limit of 1.
* `gxPLMessagePairSet` returns -1 when the value is what it was, and
  `gxPLMessagePairValuesSet` takes that for a failure and stops
  (`src/src/message.c:694`, `:750`). It looks for a name as written, and stores it in
  lower case: a name with a capital is added each time. `PairSet` does the same, and
  `AsSent` compares with the message that it leaves: it does not watch this loss.
* A vendor may have a hyphen, and the text of an identifier is cut at the first one
  (`src/src/util.c:270`): its messages are heard as those of another
  device, and the header of its configuration file, cut the same way, never
  matches. What `AsSent` expects (`Received`) is derived from the text as it is read
  back, so that it takes this as the code has it. Names of groups are kept as written, so that a group with a capital in
  its name is never addressed.
* A source that is changed after a message was built stays in a message that a
  program keeps (`src/test/template/unix/src/sensor.c:149`).
* In the layers: an error other than `ENONET` ends the search for a network at once
  (`SearchedToTheEnd` excepts it); after the last second of its sleep the search for a network does
  not look again; a failure to read the local addresses leaves both sockets open;
  the local addresses are those of the opening, whatever the interface gets later;
  with `-i` nobody waits for a network.
* In the bridge program: `-W` is documented and not parsed, so that its outer layer
  does not wait for a network; a configuration without a value for the network
  crashes it (`strtoll` of a null pointer); there is no delay between two
  restarts; when a new network cannot be opened the bridge is closed within a
  callback of its own device (`src/src/bridge.c:354`).
* An interval of less than a minute is saved as 0, and comes back as the default
  interval. `Restorable` says so (`InMinutes`).
* The documentation has changes of items and values ignored while the device is
  enabled (`src/doc/doc02-configurable-services.md:256`);
  `gxPLDeviceConfigItemAdd` and `gxPLDeviceConfigValueAdd` do not look.
* A device whose first hello reaches the bridge without an address matches every
  later hello with its identifier, and its slot never learns the address.

## 6 The proofs

`HubProofs` proves about `HubAlone`, for every set of addresses, senders,
identifiers and messages, every queue length, age bound, and number of polls:

| theorem | statement | argument |
|---|---|---|
| `HubTypeCorrect` | `AloneSpec => []HubTypeOK` | from `AloneInv` |
| `OneSlotHolds` | `AloneSpec => []OneSlotPerClient` | from `AloneInv` |
| `HubImplementsMembership` | `AloneSpec => KeepsPromise` | refinement, using both |

*Assumptions*: `NetworkAssumption`, `HubAssumption` and `BroadcastsAssumption`,
which say what kind of value each constant is (queues hold at least one
datagram, a minute is positive, broadcasts are messages) and nothing else.

*Inductive invariant.* `HubSound` is what the steps of the hub keep, whoever sends to
it: `HubAlone` and `HubNet` share the lemmas about it. It has the types, one slot per
client, and an empty table while no hub runs. It bounds `sweep` by `Len(clients) + 2`:
a sweep that has just removed the last client stands one place further behind the end
of the vector than the loop alone would bring it. Removal is the only step that
makes the vector shorter; `RemoveAtShifts` states what it does to length and
elements, and `RemoveSlot`, `RemoveTable` build on it.

*One slot.* `OneSlotPerClient` survives an `Append` of an address that is not in the
table (`TableAfterMessage`: the code searches first), a change of a slot that keeps the
address, a removal anywhere (`RemoveSlot`) and a tick (`TableAfterTick`). `Distinct(cs)`
says the same of any sequence.

*Refinement.* `TableOf(cs)` is the function a vector stands for. It is well
defined (the slot a `CHOOSE` returns is *the* slot) only because of `Distinct`,
which is why the refinement needs `OneSlotPerClient`. `AppendTable`,
`ExceptTable`, `RemoveTable` and `TickTable` say what each operation on the
vector does to the function; `MessagePromised` and `SweepPromised` map a poll to
`Announce`, `Leave` or a stutter, and an iteration of the sweep to `Expire` or a
stutter. `StepPromised` joins them with crash (`Stop`) and tick (`Pass`).

`HubProgramProofs` proves about `Supervisor`, for any number of supervisors and
any limit of restarts (`SupervisorAssumption`: the limit is a positive number):

| theorem | statement |
|---|---|
| `SupervisorTypeCorrect` | `Spec => []SupervisorTypeOK` |
| `OneHubEachHolds` | `Spec => []OneHubEach` |
| `NoKnownHubLeftHolds` | `Spec => []NoKnownHubLeft` |
| `BreakerCountsDeathsHolds` | `Spec => []BreakerCountsDeaths` |

None of the three is inductive: each depends on where the supervisor stands.
`IInv` adds to the types a `Ledger` (the hubs before the last one forked are
reaped, those after it do not exist, and `hub_pid` is at most one fork behind, or
-1 when that fork has failed and there is no such hub)
and a `Position` (what each statement, and each place in the handler, knows of
the last one). `SupervisorKeeps` goes through the statements of one supervisor,
`HubKeeps` shows that a hub that moves is the last one forked, `OthersRest` that
supervisors disturb each other in nothing but signals (`kill (-1)`).

It proves about `HubProgram`, for any number of supervisors, any
limit, any set of addresses and any patience of the layer:

| theorem | statement |
|---|---|
| `ProgramIsSupervisor` | `ProgramSpec => Spec`: the program implements its supervisor, fairness aside |
| `ProgramKeepsPromises` | `ProgramSpec => [](OneHubEach /\ NoKnownHubLeft /\ BreakerCountsDeaths)` |
| `UdpTypeCorrect` | `ProgramSpec => []UdpTypeOK` |
| `SearchedToTheEndHolds` | `ProgramSpec => []SearchedToTheEnd`, which excepts a search that the system has refused |

The variables of `Supervisor` are variables of the program, so the mapping is the
identity; `ProgramStep` goes through the actions of the program: each is one of
the supervisor, or changes nothing it knows of. That the fairness of `Supervisor`
is implemented as well (`ImplementsSupervisor`) is left to TLC.

`UdpTypeOK` becomes inductive when a layer that still looks for a network has time
left (`SearchingUdp`). `SearchedToTheEnd` needs more: what the layer of each hub has
counted at each place of its opening (`Searched`), that on a computer that never was
on the network no layer opens and no hub serves, and from the proofs about the
supervisor (`IInv`) that a process id it forks is a new one, with a new layer.

`DeviceProofs` proves about `DeviceAlone`, for any applications and devices, any
identifiers and intervals, and any messages from the world:

| theorem | statement | argument |
|---|---|---|
| `DeviceTypeCorrect` | `ListenerSpec => []DeviceTypeOK` | from `IInv` |
| `KeptHeartbeatHolds` | `ListenerSpec => []KeptHeartbeatIsCurrent` | from `IInv` |
| `ListedHolds` | `ListenerSpec => []ListedAreEnabled` | from `LInv` |

*Assumptions*: `NetworkAssumption`, `DeviceAssumption`, `DeviceAloneAssumption`
(kinds of values), and `ListenerAssumption` for `ListedHolds` alone.

*Kept heartbeats.* `IInv` is `DeviceTypeOK` and `AllCurrent`, which is the property, device by
device: no strengthening is needed, but an action makes a whole call, and within it
the kept message may be that of an earlier identifier or class. So `Sound` says it of the progress
records, after each statement at which a send may fail and the call return.
`DeviceProofs` has a lemma for each operator of `Device`, in the order of
the calls: `SendHelloSound` and `SendGoodbyeSound`, then `EnableSound`,
`IdSetSound`, `RebuildSound`, `ConfigSetSound`, with every early return; then the
loops. `ProcessKeeps` joins them, for `DeviceAlone` and `HubNet` alike.

*The listener's list.* `ListedAreEnabled` speaks of the moment when everything has been
read. `HeardInOrder` says it of every moment: the list as it will be when what is on its
way has been read (`Read`) is the set of enabled devices, and disabled devices keep
no heartbeat. It holds only because a device never bears an identifier of
another's (`OwnIds`), and because loops keep to the devices of their application and to
messages that may have come (`LoopsInOrder`). A queue has at most three datagrams when a
call ends, since the listener reads before the next one: `Read` is written out for
queues of that length, and needs no induction.

`BridgeProofs` proves about `BridgeNet`, for any devices, places, schemas, messages
from outside, limits of hops and queue lengths:

| theorem | statement | argument |
|---|---|---|
| `BridgeTypeCorrect` | `Spec => []BridgeTypeOK` | from `IInv` |
| `NoReflectionHolds` | `Spec => []NoReflection` | from `IInv` |
| `OneSlotPerPlaceHolds` | `Spec => []OneSlotPerPlace` | inductive together with `IInv` |

*Assumptions*: `BridgeAssumption` (kinds of values) and `BridgeNetAssumption`: nobody
outside uses an identifier of a device inside, so that what comes in under such an
identifier has been there before. Without it there is no telling a reflection from a
namesake.

*No reflection.* What reaches a radio module in one poll says nothing about the poll
that put it on the way; `LinksOK` does, link by link: what devices inside send
has one hop (`Spoken`); what lies on the socket outside in the name of one of them has
crossed, and counts two at least (`Crossed`), which is what the check of the limit in
`prvHandleOuterMessage` stops when the limit is one; so what the modules hear in their
names is the echo inside (`Heard`). A configuration may change the network, and a
restart the table, under all of it.

*One slot per place.* `Matches` is symmetric (`MatchIsSymmetric`) and not transitive: a slot
without an address matches all the places of its device. So it is `Apart` that has to be kept,
no two slots that match, and not merely no two that are equal; an append after a search
that found nothing keeps it (`AppendApart`), a refresh changes neither identifier nor
address (`SameKeysApart`), and `RemoveApart` is the sweep and the goodbye.

`DispatchProofs` proves about `Dispatch`, for any finite set of devices, any functions,
patterns, groups, calls and messages:

| theorem | statement | argument |
|---|---|---|
| `DispatchTypeCorrect` | `ASSUME OneCutter PROVE Spec => []DispatchTypeOK` | from `IInv` and `ReceptionInv` |
| `AsSentHolds` | `ASSUME OneCutter PROVE Spec => []AsSent` | from `ReceptionInv` |
| `WholeIsHeardHolds` | `Spec => []WholeIsHeard` | from `WholeInv` |
| `VectorsCorrect` | `Spec => []VectorsOK` | from `IInv` |
| `HeardOnceHolds` | `Spec => []HeardOnce` | from `IInv` |
| `NobodyMissedHolds` | `Spec => []NobodyMissed` | from `IInv` and `Behind` |

*Assumptions*: `DispatchAssumption`: kinds of values, and that no program registers the
dispatcher of devices itself (`prvDeviceMessageDispatcher` is `static`).

*Called once.* Three loops with their indexes are under way at a time, over vectors
that the functions they call may lengthen, shorten and search. `Ahead` says that what
lies ahead of the loops has not been called; `Place` says which loops can be at
work together, and that the dispatcher is the first of the message listeners if it is there at all: a
second dispatcher would go through all devices again. A removal draws uncalled listeners
below the index, never called ones above it: that is why listeners may be missed and
none is called twice.

*Nobody missed.* While nothing has been taken away (`at.quiet`), what lies behind the
loops has been decided: called if and only if its device accepts the message and the
pattern matches (`Behind`). An acceptance must not change while the message is under
way; the calls that could change it end the quiet.

*As it was sent.* The parser is a fold over the lines of a piece, the text of a message
is written by a fold over its pairs. `Parsed(m, k)` says what the parser has put together
after `k` lines of the text of `m`, and `ReadByLines` that it has: were there a first
line after which it had not, the step to it would be wrong (`LeastElement`, below; `TakesLine`,
`HeaderParsed`). `ReceptionInv` says that the text an application is reading is
one that was sent, and that the static message is what that text says so far
(`MsgFollowsAir`). That is where `OneCutter` is needed, that one layer of the process at
most cuts texts: TLC finds two that do mixing their messages, and the message that the
listeners get is neither's. No program of the repository opens two such layers: a
bridge has one of each kind, and the run assumes the same (`OneRadio`). `WholeIsHeard`
needs no such assumption: after a whole text nothing is left over (`WholeInv`), whoever
reads next.

`HubProofs` also proves about `HubNet`, for any applications, devices, intervals, sleeps,
minutes, periods of sweeps and managers, with hub and applications that die at any time:

| theorem | statement | argument |
|---|---|---|
| `NetTypeCorrect` | `Spec => []NetTypeOK` | from `NInv` |
| `SlotsAndHeartbeats` | `Spec => [](OneSlotPerClient /\ AllCurrent)` | from `NInv` |
| `OnlyTheDeadExpireHolds` | `ASSUME Timely PROVE Spec => []OnlyTheDeadExpire` | from `NInv` and `TInv` |

*Assumptions*: kinds of values for all three; for the last one `Timely`. It names all
that has to be true of a system in which the hub gives up nobody alive:

* it is prompt (section 4) and loses no datagram, and its buffers hold three;
* an interval is covered (`Covered`): the period the hub computes from its whole
  minutes is no shorter than any gap the program makes between two heartbeats, with the
  longest sleep in it. The division that rounds the minutes down and the constants of
  `hub.c` are in there, so that this is a condition on numbers, checked for the run
  by `TimelyRun`;
* one device to an application, whose interval no program changes while it is enabled
  (section 5 has what happens otherwise, for both);
* nobody elsewhere sends heartbeats with addresses of this computer.

Nothing is assumed about deaths: `HubDies` and `AppDies` may be true or false.

*Inductive invariant.* `NInv` joins what was proved of devices and hub alone. `TInv` is
about time, and TLC has checked it on `net_safety`, also with `HubDies` and
`AppDies`, before it was proved. For an enabled device it relates four clocks and
a queue: what has gone by since its last heartbeat, with the rest of a sleep that may still come
before the next, is within the hub's patience (`OnTime`); the silence the hub has
counted is no more than that, and the patience in its slot is that of the
announced minutes, or else the last datagram on its way is the heartbeat the device keeps, and
will make it so (`Granted`). `Orderly` says where a sleep can occur, `Steady` that
intervals are covered ones, `Origin` that applications put only their own
heartbeats on their queue.

`XBeeProofs` proves about `XBeeBridge`, for any networks and firmwares, any length of the
line, any number of commands in the module, and any limit of restarts:

| theorem | statement | argument |
|---|---|---|
| `XBeeTypeCorrect` | `Spec => []XBeeTypeOK` | from `TypeInv` |
| `ForcedPanHolds` | `Spec => []ForcedPanInUse` | from `FullInv` |
| `NothingFromOldHolds` | `Spec => []NothingFromOldNetwork` | from `FullInv` |

*Assumptions*: kinds of values (`XBeeIoAssumption`, `XBeeBridgeAssumption`), and nothing
about the capacity of the module. `FullInv` is `TypeInv /\ (~doubt => HighInv)`: what the
properties say of an opening that could not be misled. How much could mislead it is counted when it
begins, in the module as it is (`Backlog`), and not assumed of all openings.

*Types.* An opening takes the same way each time, and the setting alone says which: so
the identifier of a command says at which step it was sent, whichever program has sent it
(`NumbersOf`). With that an opening ends before its identifiers run over, and `TypeInv`
bounds them by ten.

*A late answer.* The driver counts its identifiers from one in every opening, and takes any
answer that has the right one. An answer to a command of an earlier opening is therefore
taken for the answer to a new one, and what it says may be out of date. This is what the
invariant has to live with. `HighInv` counts, over the commands that wait and the
answers on the line, how many could be taken for others: with at most four commands
waiting when it began, an opening that has taken `fid` answers leaves fewer old ones than steps (`FewOld`,
`FewAhead`), so that the fourth answer, which tells the network, was given by
the module as it is now (`FourthIsOurs`), and so is every one after it (`AllOurs`, `LastIsLast`).
Then the network of the module is that of the setting when it should be (`Moved`), and
no packet from before is left where the driver takes packets (`AtHome`).

*The bound is tight.* With `Backlog == 5` the properties are false: that is the second
disagreement of section 5. A module that is silent for so long and comes back with
everything it was asked is a lot to ask for, but the code does nothing against it.

*Without induction over data.* Where an argument wants the first index with a
property, `LeastElement` gives it: strict inclusion of finite sets is well-founded by
the library's theorems, which need no operator for a parameter there.

`ConfigurationProofs` proves about `Configuration`, for any items with any maxima, any
responses, and saves that fail, or die after any line:

| theorem | statement | argument |
|---|---|---|
| `ConfigurationTypeCorrect` | `Spec => []ConfigurationTypeOK` | from `IInv` |
| `SavedIsRestored` | `ASSUME Reserved = {} PROVE Spec => []Restorable` | from `IInv` and `RestoredWhole` |
| `InterruptedIsNotMixed` | `ASSUME Reserved = {} PROVE Spec => []NothingMixed` | from `IInv` and `NotMixed` |
| `EchoIsHarmless` | `Spec => []EchoChangesNothing` | from `IInv` and `EchoOfOne` |
| `ListIsKept` | `Spec => []ListIsHonest` | from `IInv` and `HonestToOne` |

*Assumptions*: `ConfigurationAssumption`. Besides kinds of values it says that no two
items have one name, that no item is called like a list, a reserved pair or one of the
words that mark the other lines of the file here (`Taken`: `type`, `header`), and that
`Blank` is no value. The one hypothesis is where the code loses something:

* `Reserved = {}`: an item whose name begins with `group` or `filter` is saved and not
  restored (section 5), so that the file says less than the device, and a beginning of the
  file may have an item behind one that is passed over.

`EchoIsHarmless` needs no hypothesis, because `EchoChangesNothing` itself is about devices
whose items have small letters only (section 5 has the others); then what
`config.current` says is what the file says (`SmallNames`). The others need none either, and types are kept also of what such a file restores.

*Inductive invariant.* `IInv` says that the device, and the configuration last saved, are
`Orderly`: no item twice, the maximum of each name the one the program defined,
and no more values than that. Of the file it says (`FileSound`) that it is the beginning
of `FileOf(last)`; that while a save is going on, what is pending is the rest; and that
after a whole save it is all of it. `Restorable` and `NothingMixed` are
about what a start would read; they are not inductive, and are consequences of `IInv`
alone: everything about reading is in lemmas about sequences of lines, without any state.

*What a body says.* `Given(body, n)`, the values a body has for a name, is the
`FlattenSeq` of one or no value for each line, so that two bodies one after the other give
what each gives (`GivenConcat`), a beginning gives a beginning (`GivenPrefix`), and a
body put together of the lines of each item gives each item its own (`GivenFlatten`,
`ValuesGiven`). The items of a file are the definitions at its beginning
(`DefinitionsAre`, `DefinedSound`), and the place of each line is known
(`ListByIndex`, `FileByIndex`). `RestoredWhole` puts these together for the whole
file, `NotMixed` for any beginning of it, `EchoOfOne` for `config.current`.
`FlattenSeq` is a recursive function; what is needed of it climbs along its indexes
(`Climb` in `SequenceLemmas`), from what holds at 0 to all of them.

*Out of the prover's reach, and left to TLC*: liveness under fairness
(`HubServesAgain`, `OpeningEnds`, `BridgeRestarts`, `EventuallyExpired`, `HubIsFound`, `Reregistered`, `Forgotten`,
`KnownWhereItIs`, `GhostsGo`) and the fairness in `ImplementsSupervisor`.

## 7 What is not modelled

* **The characters within a line of a message or file**: a line has a kind and a
  value. Long lines of the file (over 255 characters) and empty names are outside.
* **Radio layer**: the status of a transmission, which the code only logs; the
  conversion of addresses and the numbers above the size of a network's name.
* **UDP layer**: `select` and the socket calls (external), the conversion of
  addresses. Several network interfaces are one.
* **The listeners a program registers for its configuration, the change of the
  file's name, `gxPLDeviceConfigItemRemoveAll`**: they read, or repeat what is there.
* **Versions, statistics, dates**: no effect on the protocol state above.
* **`gxPLGenerateUniqueId`**: an identifier from the clock, one of a set here; that two
  programs get different ones is a matter of the clock.
* **I/O layer registry** (`src/src/io.c`): a table of function pointers filled
  before `main`.
* **Death of a supervisor by SIGKILL, reuse of process ids**: the first leaves the
  hub behind by nature, the second needs as many processes as there are ids.
* **Generic bridge, command lines, logger, sender**: options and an endless loop,
  or pure output.
* **AVR twins**: the same protocol over another system layer; the Unix files are
  the reference.
* **Memory exhaustion**: allocations are taken to succeed.

## 8 The plan

1. *Done*: the hub, devices and their composition; the bridge; configuration and
   file; reception and dispatch; the hub program; the runs above.
2. *Done*: the radio layer and its bridge program (`XBeeIo`, `XBeeBridge`); the UDP
   layer in the hub program (`UdpIo`, `HubProgram`, and its refinement of
   `Supervisor`); identifiers and messages as they are
   (`Identifier`, `Message`) under reception, dispatch and the edits of a program;
   `config.list` and the maxima of items.
3. *Done*: proofs about the hub, the supervisor and its program, devices, the bridge,
   reception and dispatch, the radio layer and its program, configuration and file, and
   applications and hub as one system. Every safety invariant the runs check is a theorem.
4. Next: the listeners a program registers for its configuration, and
   `gxPLDeviceConfigItemRemoveAll`; a second radio program on one layer; a proof that the
   computer of `HubNet` keeps the promise of `Membership` for each application.
