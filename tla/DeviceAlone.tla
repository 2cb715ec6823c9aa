---------------------------- MODULE DeviceAlone ----------------------------
(***************************************************************************)
(* The devices facing an arbitrary network: any message of World reaches   *)
(* an application at any time.  Someone listens to the heartbeats and      *)
(* keeps a list of the devices: an identifier enters with a hello and goes *)
(* with a goodbye.  Such listeners are the managers of xPL and the bridge  *)
(* of this library; this one keeps up with what the applications send.     *)
(***************************************************************************)
EXTENDS Device, SequencesExt

CONSTANTS
  World,      \* the messages that reach the applications
  NewIdOf,      \* NewIdOf[d]: identifiers the program gives the device d
  Trouble     \* do sockets fail and applications crash?

ASSUME DeviceAloneAssumption ==
  /\ World \subseteq Msg
  /\ NewIdOf \in [Dev -> SUBSET Id]
  /\ Trouble \in BOOLEAN

\* How the identifiers may be shared out among the devices: each belongs to one.
SharedOut(owner) ==
  /\ \A d \in Dev : owner[FirstId[d]] = d /\ \A id \in NewIdOf[d] : owner[id] = d
  /\ \A m \in World : m.kind = "response" => owner[m.newconf] = owner[m.target]

\* No two devices are ever given the same identifier; a socket buffer holds what
\* one operation on a device sends.
ASSUME ListenerAssumption ==
  /\ \E owner \in [Id -> Dev] : SharedOut(owner)
  /\ QueueLen >= 3

VARIABLE listed    \* listed[a]: the identifiers the listener knows of a

listenerVars == <<alive, dev, job, refusing, toHub, toApp, listed>>

ListenerInit ==
  /\ DeviceInit /\ NetworkInit
  /\ listed = [a \in App |-> {}]

ProgramUses(a) ==
  \/ DisableAll(a) \/ Close(a) \/ Open(a)
  \/ refusing /\ Crash(a)
  \/ \E d \in Dev : AppOf[d] = a /\
       \/ \E on \in BOOLEAN : SetEnabled(d, on)
       \/ \E id \in NewIdOf[d] : SetId(d, id)
       \/ \E i \in Interval : SetInterval(d, i)

LoopStep(a) ==
  \/ AppPollMessage(a) \/ AppPollIdle(a)
  \/ \E d \in Dev : \/ HandleMessage(a, d) \/ PollHeartbeat(a, d)
                    \/ DisableNext(a, d) \/ CloseNext(a, d)

\* A hbeat.request is part of the trouble: a disabled device answers it, and gets
\* on the list by that.
WorldSends(a) ==
  /\ toApp[a] = << >>
  /\ \E m \in World :
       /\ m.kind = "request" => refusing
       /\ toApp' = [toApp EXCEPT ![a] = <<m>>]
  /\ UNCHANGED <<devVars, toHub, listed>>

Listen(a) ==
  /\ toHub[a] # << >>
  /\ toHub' = [toHub EXCEPT ![a] = Tail(@)]
  /\ LET m == Head(toHub[a]) IN
       listed' = [listed EXCEPT ![a] = IF m.kind = "app" THEN @ \cup {m.id}
                                                         ELSE @ \ {m.id}]
  /\ UNCHANGED <<devVars, toApp>>

\* From now on sockets may refuse to send and applications may crash.
TroubleBegins ==
  /\ Trouble /\ ~refusing
  /\ refusing' = TRUE
  /\ UNCHANGED <<alive, dev, job, toHub, toApp, listed>>

ListenerTick == DeviceTick /\ UNCHANGED <<toHub, toApp, listed>>

ListenerNext ==
  \/ \E a \in App : \/ /\ toHub[a] = << >>
                       /\ LoopStep(a) \/ ProgramUses(a)
                       /\ UNCHANGED listed
                    \/ WorldSends(a)
                    \/ Listen(a)
  \/ TroubleBegins
  \/ ListenerTick

ListenerSpec == ListenerInit /\ [][ListenerNext]_listenerVars

-----------------------------------------------------------------------------
\* Type correctness of the devices, of the jobs of the applications and of the
\* queues.
DeviceTypeOK ==
  /\ NetworkTypeOK
  /\ alive \in [App -> BOOLEAN]
  /\ dev \in [Dev -> DeviceState]
  /\ job \in [App -> Job]
  /\ refusing \in BOOLEAN
  /\ listed \in [App -> SUBSET Id]

\* The heartbeat a device keeps and sends again and again (hbeat_msg) says who
\* the device is now -- its identifier, its class, its address -- as long as the
\* device is enabled: whatever changes one of them drops or rebuilds the message
\* (gxPLDeviceEnable, gxPLDeviceIdSet, prvConfigSet), also when a goodbye or a
\* hello on the way could not be sent.
KeptHeartbeatIsCurrent ==
  \A d \in Dev : LET r == dev[d] IN
    r.enabled /\ r.hbeat_msg # NoMsg =>
      /\ r.hbeat_msg.kind = "app"
      /\ r.hbeat_msg.id = r.id
      /\ r.hbeat_msg.class = HeartbeatClass(d, r)
      /\ r.hbeat_msg.addr = AppOf[d]

\* Once the listener has read everything, it lists the identifiers of the enabled
\* devices and no other: every change of identifier, every configuration, every
\* disabling and closing pairs the hellos and goodbyes it sends, as long as there
\* is no trouble.
ListedAreEnabled ==
  ~refusing => \A a \in App : toHub[a] = << >> =>
    listed[a] = {dev[d].id : d \in {e \in Dev : AppOf[e] = a /\ dev[e].enabled}}
=============================================================================
