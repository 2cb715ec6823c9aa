-------------------------- MODULE HubProgramProofs --------------------------
(***************************************************************************)
(* Proofs about the hub program.  First about its supervisor (Supervisor), *)
(* for any number of supervisors and any limit of restarts: everything     *)
(* follows from one inductive invariant, in which the hubs before the last *)
(* one forked are all reaped, and what became of the last one is known     *)
(* from the statement the supervisor is at.  Then: the program with its    *)
(* UDP layer implements the supervisor, whatever the patience of the       *)
(* layer, so that all of this holds of the program; and what its layers do *)
(* before a hub serves, or ends.                                           *)
(***************************************************************************)
EXTENDS HubProgram, TLAPS

-----------------------------------------------------------------------------
(* The supervisor.                                                         *)

Reaped(s, p) == p \in Pid => hub[s][p] = "reaped"

\* The processes of s: those before the last one forked, and those to come.  A fork
\* that has failed leaves its place empty.
Ledger(s) ==
  /\ hub_pid[s] # NoFork => hub_pid[s] <= count[s] /\ count[s] <= hub_pid[s] + 1
  /\ hub_pid[s] = NoFork => count[s] \in Pid /\ hub[s][count[s]] = "none"
  /\ \A p \in Pid : p < count[s] => hub[s][p] = "reaped"
  /\ \A p \in Pid : p > count[s] => hub[s][p] = "none"

\* What the statement that s is at tells of the last one.
Position(s) ==
  /\ at[s] \in {"none", "check", "delay", "gaveup"} =>
       hub_pid[s] = count[s] /\ Reaped(s, count[s])
  /\ at[s] \in {"fork", "assign"} => hub_pid[s] + 1 = count[s] /\ count[s] \in Pid
  /\ at[s] = "fork" => hub[s][count[s]] = "none"
  /\ at[s] \in {"failing", "failed"} => hub_pid[s] = NoFork
  /\ at[s] \in {"wait", "reap"} => hub_pid[s] = count[s] /\ count[s] \in Pid
  /\ at[s] = "reap" => hub[s][count[s]] # "reaped"
  /\ at[s] = "stopped" /\ hub_pid[s] # NoFork => Reaped(s, hub_pid[s])
  /\ at[s] = "gaveup" => count[s] = MAX_HUB_RESTARTS
  /\ at[s] \in Running \cup {"none"} => caught[s] = 0
  /\ at[s] \in Handling => caught[s] \in 1 .. 2

IInv == SupervisorTypeOK /\ \A s \in Sup : Ledger(s) /\ Position(s)

LEMMA PidIsNat == Pid \subseteq Nat /\ MAX_HUB_RESTARTS \in Pid /\ 0 \notin Pid
BY SupervisorAssumption DEF Pid

LEMMA InitHolds == Init => IInv
<1> SUFFICES ASSUME Init PROVE IInv
  OBVIOUS
<1>1. SupervisorTypeOK
  BY SupervisorAssumption DEF Init, SupervisorTypeOK, HubState
<1>2. ASSUME NEW s \in Sup PROVE Ledger(s) /\ Position(s)
  BY PidIsNat DEF Init, Ledger, Position, Reaped, Running, Handling, NoHub, NoFork
<1> QED  BY <1>1, <1>2 DEF IInv

\* The counters are numbers that fit the limit.
LEMMA Counters ==
  ASSUME SupervisorTypeOK, NEW s \in Sup
  PROVE  /\ count[s] \in Nat /\ count[s] <= MAX_HUB_RESTARTS
         /\ hub_pid[s] \in Int
         /\ hub_pid[s] # NoFork => hub_pid[s] \in Nat
         /\ hub_pid[s] \notin {NoFork, NoHub} => hub_pid[s] \in Pid
         /\ NoFork = -1 /\ NoHub = 0
<1>1. count[s] \in 0 .. MAX_HUB_RESTARTS /\ hub_pid[s] \in {NoFork, NoHub} \cup Pid
  BY DEF SupervisorTypeOK
<1> QED  BY <1>1, SupervisorAssumption DEF NoFork, NoHub, Pid

\* How numbers lie to each other.
LEMMA Order ==
  ASSUME NEW a \in Nat, NEW b \in Nat
  PROVE  /\ a < b \/ a = b \/ a > b
         /\ a < b + 1 => a < b \/ a = b
         /\ a <= b => a < b \/ a = b
         /\ a <= b => ~(a > b)
OBVIOUS

\* What a type of the counters needs of them.
LEMMA InPid ==
  ASSUME NEW n \in Nat, n <= MAX_HUB_RESTARTS
  PROVE  /\ n # 0 => n \in Pid
         /\ n # MAX_HUB_RESTARTS => n + 1 \in 0 .. MAX_HUB_RESTARTS /\ n + 1 \in Pid
BY SupervisorAssumption DEF Pid

\* A process that becomes something leaves the table of processes well typed.
LEMMA HubTyped ==
  ASSUME hub \in [Sup -> [Pid -> HubState]], NEW s \in Sup, NEW p \in Pid,
         NEW state \in HubState
  PROVE  [hub EXCEPT ![s][p] = state] \in [Sup -> [Pid -> HubState]]
OBVIOUS

\* The types survive every step.
LEMMA TypeStep == IInv /\ [Next]_vars => SupervisorTypeOK'
<1> SUFFICES ASSUME IInv, [Next]_vars PROVE SupervisorTypeOK'
  OBVIOUS
<1> USE DEF IInv, SupervisorTypeOK, Goto, Becomes
<1>1. CASE UNCHANGED vars
  BY <1>1 DEF vars
<1>2. ASSUME NEW s \in Sup, Launch(s) PROVE SupervisorTypeOK'
  BY <1>2 DEF Launch, Running
<1>3. ASSUME NEW s \in Sup, Signal(s) PROVE SupervisorTypeOK'
  <2>1. caught[s] + 1 \in 0 .. 2
    BY <1>3 DEF Signal, Position
  <2> QED  BY <2>1, <1>3 DEF Signal, Handling
<1>4. ASSUME NEW s \in Sup, Check(s) PROVE SupervisorTypeOK'
  <2>1. count[s] # MAX_HUB_RESTARTS => count[s] + 1 \in 0 .. MAX_HUB_RESTARTS
    BY Counters, InPid
  <2>2. count' \in [Sup -> 0 .. MAX_HUB_RESTARTS]
    BY <2>1, <1>4 DEF Check
  <2> QED  BY <2>2, <1>4 DEF Check, Running, Over
<1>5. ASSUME NEW s \in Sup, Fork(s) PROVE SupervisorTypeOK'
  <2>1. at' \in [Sup -> {"none"} \cup Running \cup Handling \cup Over]
    BY <1>5 DEF Fork, Running
  <2>2. hub' \in [Sup -> [Pid -> HubState]]
    <3>1. hub' = hub \/ hub' = [hub EXCEPT ![s][count[s]] = "forked"]
      BY <1>5 DEF Fork
    <3>2. count[s] \in Pid
      BY <1>5 DEF Fork, Position
    <3>3. [hub EXCEPT ![s][count[s]] = "forked"] \in [Sup -> [Pid -> HubState]]
      BY <3>2, HubTyped DEF HubState
    <3> QED  BY <3>1, <3>3
  <2> QED  BY <2>1, <2>2, <1>5 DEF Fork
<1>6. ASSUME NEW s \in Sup, Assign(s) PROVE SupervisorTypeOK'
  <2>1. count[s] \in Pid
    BY <1>6 DEF Assign, Position
  <2>2. hub_pid' \in [Sup -> {NoFork, NoHub} \cup Pid]
    BY <2>1, <1>6 DEF Assign
  <2>3. at' \in [Sup -> {"none"} \cup Running \cup Handling \cup Over]
    BY <1>6 DEF Assign, Running
  <2> QED  BY <2>2, <2>3, <1>6 DEF Assign
<1>12. ASSUME NEW s \in Sup, FailFork(s) PROVE SupervisorTypeOK'
  BY <1>12 DEF FailFork, Over
<1>7. ASSUME NEW s \in Sup, WaitHub(s) PROVE SupervisorTypeOK'
  BY <1>7 DEF WaitHub, Running, HubState
<1>8. ASSUME NEW s \in Sup, Delay(s) PROVE SupervisorTypeOK'
  BY <1>8 DEF Delay, Running
<1>9. ASSUME NEW s \in Sup, Kill(s) PROVE SupervisorTypeOK'
  <2>1. hub_pid[s] \notin {NoFork, NoHub} => hub_pid[s] \in Pid
    BY Counters
  <2>2. at' \in [Sup -> {"none"} \cup Running \cup Handling \cup Over]
    BY <1>9 DEF Kill, KillHub, KillAll, Handling, Over
  <2>3. term' \in [Sup -> SUBSET Pid]
    <3>1. CASE hub_pid[s] = NoFork
      BY <3>1, <1>9 DEF Kill, KillAll
    <3>2. CASE hub_pid[s] # NoFork
      BY <3>2, <2>1, <1>9 DEF Kill, KillHub
    <3> QED  BY <3>1, <3>2
  <2> QED  BY <2>2, <2>3, <1>9 DEF Kill
<1>10. ASSUME NEW s \in Sup, Reap(s) PROVE SupervisorTypeOK'
  BY <1>10 DEF Reap, Over, HubState
<1>11. ASSUME NEW s \in Sup, NEW p \in Pid, HubStep(s, p) \/ HubDies(s, p)
       PROVE  SupervisorTypeOK'
  <2>1. \E state \in {"serving", "hung", "zombie"} : hub' = [hub EXCEPT ![s][p] = state]
    BY <1>11 DEF HubStep, HubOpens, HubTerminates, HubDies
  <2>2. UNCHANGED <<at, count, hub_pid, term, caught>>
    BY <1>11 DEF HubStep, HubOpens, HubTerminates, HubDies
  <2>3. hub' \in [Sup -> [Pid -> HubState]]
    BY <2>1 DEF HubState
  <2> QED  BY <2>2, <2>3
<1>13. ASSUME NEW s \in Sup, NEW p \in Pid, SignalHub(s, p) PROVE SupervisorTypeOK'
  BY <1>13 DEF SignalHub
<1> QED
  BY <1>1, <1>2, <1>3, <1>4, <1>5, <1>6, <1>7, <1>8, <1>9, <1>10, <1>11, <1>12, <1>13
  DEF Next, SupervisorStep

\* A step of one supervisor, or of a hub of it, is none of the others.
LEMMA OthersRest ==
  ASSUME IInv, NEW s \in Sup, NEW t \in Sup, t # s,
         \/ Launch(s) \/ Signal(s) \/ SupervisorStep(s)
         \/ \E p \in Pid : HubStep(s, p) \/ HubDies(s, p) \/ SignalHub(s, p)
  PROVE  Ledger(t)' /\ Position(t)'
<1>1. /\ at'[t] = at[t] /\ count'[t] = count[t] /\ hub_pid'[t] = hub_pid[t]
      /\ hub'[t] = hub[t] /\ caught'[t] = caught[t]
  BY DEF IInv, SupervisorTypeOK, Launch, Signal, SupervisorStep, Check, Fork, Assign,
         FailFork, WaitHub, Delay, Kill, KillHub, KillAll, Reap, HubStep, HubOpens,
         HubTerminates, HubDies, SignalHub, Goto, Becomes
<1> QED  BY <1>1 DEF IInv, Ledger, Position, Reaped

\* The statements of the supervisor keep its ledger and its position.
LEMMA SupervisorKeeps ==
  ASSUME IInv, NEW s \in Sup, Launch(s) \/ Signal(s) \/ SupervisorStep(s)
  PROVE  Ledger(s)' /\ Position(s)'
<1> USE PidIsNat DEF IInv, SupervisorTypeOK, Ledger, Position, Reaped, Goto, Becomes,
                     Running, Handling, Over
<1>0. /\ count[s] \in Nat /\ count[s] <= MAX_HUB_RESTARTS /\ hub_pid[s] \in Int
      /\ hub_pid[s] # NoFork => hub_pid[s] \in Nat
      /\ NoFork \notin Nat
  BY Counters
<1>1. CASE Launch(s)
  BY <1>0, <1>1 DEF Launch
<1>2. CASE Signal(s)
  <2>1. caught[s] \in {0, 1} /\ caught'[s] = caught[s] + 1
    BY <1>2 DEF Signal
  <2> QED  BY <1>0, <1>2, <2>1 DEF Signal
<1>3. CASE Check(s)
  <2>1. CASE count[s] = MAX_HUB_RESTARTS
    BY <1>0, <1>3, <2>1 DEF Check
  <2>2. CASE count[s] # MAX_HUB_RESTARTS
    <3>1. count'[s] = count[s] + 1 /\ count[s] + 1 \in Pid /\ at'[s] = "fork"
      BY <1>0, <1>3, <2>2, InPid DEF Check
    <3>2. hub' = hub /\ hub_pid' = hub_pid /\ caught' = caught
      BY <1>3 DEF Check
    <3>3. hub_pid[s] = count[s] /\ (count[s] \in Pid => hub[s][count[s]] = "reaped")
      BY <1>3 DEF Check
    <3>4. \A p \in Pid : p < count[s] + 1 => p < count[s] \/ p = count[s]
      BY <1>0, PidIsNat, Order
    <3>5. Ledger(s)'
      BY <1>0, <3>1, <3>2, <3>3, <3>4
    <3> QED  BY <1>0, <1>3, <3>1, <3>2, <3>3, <3>5 DEF Check
  <2> QED  BY <2>1, <2>2
<1>4. CASE Fork(s)
  <2>1. count[s] \in Pid /\ count[s] # 0 /\ hub_pid[s] + 1 = count[s]
    BY <1>4 DEF Fork
  <2>2. hub_pid[s] # NoFork
    BY <1>0, <2>1, Counters
  <2> QED  BY <1>0, <1>4, <2>1, <2>2 DEF Fork
<1>5. CASE Assign(s)
  <2>1. count[s] \in Pid
    BY <1>5 DEF Assign
  <2>2. count[s] # NoFork
    BY <1>0
  <2> QED  BY <1>0, <1>5, <2>1, <2>2 DEF Assign
<1>10. CASE FailFork(s)
  BY <1>0, <1>10 DEF FailFork
<1>6. CASE WaitHub(s)
  BY <1>0, <1>6 DEF WaitHub
<1>7. CASE Delay(s)
  BY <1>0, <1>7 DEF Delay
<1>8. CASE Kill(s)
  <2>1. /\ hub_pid[s] \notin {NoFork, NoHub} => hub_pid[s] \in Pid
        /\ NoHub \notin Pid /\ NoFork \notin Pid
    BY Counters
  <2>2. CASE hub_pid[s] = NoFork
    BY <1>0, <1>8, <2>1, <2>2 DEF Kill, KillAll
  <2>3. CASE hub_pid[s] \notin {NoFork, NoHub} /\ hub[s][hub_pid[s]] # "reaped"
    <3>1. hub_pid[s] = count[s]
      BY <1>0, <2>1, <2>3, Order
    <3> QED  BY <1>0, <1>8, <2>1, <2>3, <3>1 DEF Kill, KillHub
  <2>4. CASE /\ hub_pid[s] # NoFork
             /\ ~(hub_pid[s] # NoHub /\ hub[s][hub_pid[s]] # "reaped")
    BY <1>0, <1>8, <2>1, <2>4 DEF Kill, KillHub
  <2> QED  BY <2>2, <2>3, <2>4
<1>9. CASE Reap(s)
  BY <1>0, <1>9 DEF Reap
<1> QED
  BY <1>1, <1>2, <1>3, <1>4, <1>5, <1>6, <1>7, <1>8, <1>9, <1>10 DEF SupervisorStep

\* A hub that does something is the last one forked, and is not reaped by that.
LEMMA HubKeeps ==
  ASSUME IInv, NEW s \in Sup, NEW p \in Pid, HubStep(s, p) \/ HubDies(s, p)
  PROVE  Ledger(s)' /\ Position(s)'
<1> USE PidIsNat DEF IInv, SupervisorTypeOK, Ledger, Position, Reaped, Becomes
<1>0. count[s] \in Nat /\ hub_pid[s] \in Int
  BY Counters
<1>1. /\ hub[s][p] \in {"forked", "serving"}
      /\ \E state \in {"serving", "hung", "zombie"} : hub' = [hub EXCEPT ![s][p] = state]
      /\ UNCHANGED <<at, count, hub_pid, caught>>
  BY DEF HubStep, HubOpens, HubTerminates, HubDies
<1>2. p = count[s]
  BY <1>0, <1>1, Order
<1>3. /\ \A q \in Pid \ {p} : hub'[s][q] = hub[s][q]
      /\ hub'[s][p] \in {"serving", "hung", "zombie"}
  BY <1>1
<1> QED  BY <1>0, <1>1, <1>2, <1>3

\* A signal for a hub is nothing to the ledger yet.
LEMMA SignalKeeps ==
  ASSUME IInv, NEW s \in Sup, NEW p \in Pid, SignalHub(s, p)
  PROVE  Ledger(s)' /\ Position(s)'
BY DEF IInv, SignalHub, Ledger, Position, Reaped

LEMMA StepHolds == IInv /\ [Next]_vars => IInv'
<1> SUFFICES ASSUME IInv, [Next]_vars PROVE IInv'
  OBVIOUS
<1>1. SupervisorTypeOK'
  BY TypeStep
<1>2. CASE UNCHANGED vars
  BY <1>1, <1>2 DEF vars, IInv, Ledger, Position, Reaped
<1>3. ASSUME NEW s \in Sup,
             \/ Launch(s) \/ Signal(s) \/ SupervisorStep(s)
             \/ \E p \in Pid : HubStep(s, p) \/ HubDies(s, p) \/ SignalHub(s, p)
      PROVE  IInv'
  <2>1. Ledger(s)' /\ Position(s)'
    BY <1>3, SupervisorKeeps, HubKeeps, SignalKeeps
  <2>2. \A t \in Sup : t # s => Ledger(t)' /\ Position(t)'
    BY <1>3, OthersRest
  <2> QED  BY <1>1, <2>1, <2>2 DEF IInv
<1> QED  BY <1>2, <1>3 DEF Next

LEMMA InvariantHolds == Spec => []IInv
BY InitHolds, StepHolds, PTL DEF Spec

-----------------------------------------------------------------------------
\* Supervisors, counters and hubs stay well typed.
THEOREM SupervisorTypeCorrect == Spec => []SupervisorTypeOK
<1>1. IInv => SupervisorTypeOK
  BY DEF IInv
<1> QED  BY <1>1, InvariantHolds, PTL

\* No supervisor ever has two hubs that were not waited for.
THEOREM OneHubEachHolds == Spec => []OneHubEach
<1>1. IInv => OneHubEach
  <2> SUFFICES ASSUME IInv, NEW s \in Sup, NEW p \in Pid, NEW q \in Pid,
                      Alive(s, p), Alive(s, q)
               PROVE  p = q
    BY DEF OneHubEach
  <2>1. count[s] \in Nat
    BY Counters DEF IInv
  <2>2. p = count[s] /\ q = count[s]
    BY <2>1, PidIsNat DEF IInv, Ledger, Alive
  <2> QED  BY <2>2
<1> QED  BY <1>1, InvariantHolds, PTL

\* A supervisor that is over has waited for every hub it knew of.
THEOREM NoKnownHubLeftHolds == Spec => []NoKnownHubLeft
<1>1. IInv => NoKnownHubLeft
  <2> SUFFICES ASSUME IInv, NEW s \in Sup, at[s] \in Over, NEW p \in Pid,
                      p <= hub_pid[s] \/ hub_pid[s] = NoFork
               PROVE  hub[s][p] \in {"none", "reaped"}
    BY DEF NoKnownHubLeft, Alive
  <2>1. /\ count[s] \in Nat /\ hub_pid[s] \in Int /\ p \in Nat
        /\ p <= hub_pid[s] => hub_pid[s] # NoFork
    BY Counters, PidIsNat DEF IInv
  <2>2. CASE p < count[s]
    BY <2>2 DEF IInv, Ledger
  <2>3. CASE p = count[s] /\ hub_pid[s] = NoFork
    BY <2>3 DEF IInv, Ledger
  <2>4. CASE p > count[s]
    BY <2>4 DEF IInv, Ledger
  <2>5. CASE p = count[s] /\ p <= hub_pid[s]
    <3>1. hub_pid[s] <= count[s] /\ hub_pid[s] # NoFork
      BY <2>1, <2>5 DEF IInv, Ledger
    <3>2. p = hub_pid[s] /\ at[s] # "failed"
      BY <2>1, <2>5, <3>1 DEF IInv, Position
    <3>3. Position(s) /\ at[s] \in {"stopped", "gaveup"}
      BY <3>2 DEF Over, IInv
    <3> QED  BY <2>5, <3>1, <3>2, <3>3 DEF Position, Reaped
  <2> QED  BY <2>1, <2>2, <2>3, <2>4, <2>5, Order
<1> QED  BY <1>1, InvariantHolds, PTL

\* A supervisor that gives up has seen as many hubs die as it says.
THEOREM BreakerCountsDeathsHolds == Spec => []BreakerCountsDeaths
<1>1. IInv => BreakerCountsDeaths
  <2> SUFFICES ASSUME IInv, NEW s \in Sup, at[s] = "gaveup", NEW p \in Pid
               PROVE  hub[s][p] = "reaped"
    BY DEF BreakerCountsDeaths
  <2>1. count[s] = MAX_HUB_RESTARTS /\ Reaped(s, count[s])
    BY DEF IInv, Position
  <2>2. p < MAX_HUB_RESTARTS \/ p = MAX_HUB_RESTARTS
    BY SupervisorAssumption DEF Pid
  <2> QED  BY <2>1, <2>2 DEF IInv, Ledger, Reaped
<1> QED  BY <1>1, InvariantHolds, PTL

-----------------------------------------------------------------------------
(* The program implements its supervisor.                                  *)

LEMMA ProgramStep == [ProgramNext]_programVars => [Next]_vars
<1> SUFFICES ASSUME [ProgramNext]_programVars PROVE [Next]_vars
  OBVIOUS
<1>1. CASE UNCHANGED programVars
  BY <1>1 DEF programVars
<1>2. CASE IfaceChanges /\ met' = TRUE /\ UNCHANGED <<vars, named>>
  BY <1>2
<1>3. ASSUME NEW s \in Sup, Launch(s) \/ Signal(s) \/ SupervisorStep(s) PROVE Next
  BY <1>3 DEF Next
<1>5. ASSUME NEW s \in Sup, NEW p \in Pid, SignalHub(s, p) PROVE Next
  BY <1>5 DEF Next
<1>4. ASSUME NEW s \in Sup, NEW p \in Pid, HubGoesOn(s, p) \/ HubPollFails(s, p)
      PROVE  [Next]_vars
  <2>1. CASE HubOpening(s, p)
    BY <2>1 DEF HubOpening
  <2>2. CASE HubOpened(s, p) \/ HubStopped(s, p) \/ HubPollFails(s, p)
    <3>1. HubStep(s, p) \/ HubDies(s, p)
      BY <2>2 DEF HubOpened, HubStopped, HubPollFails, HubStep
    <3> QED  BY <3>1 DEF Next
  <2> QED  BY <1>4, <2>1, <2>2 DEF HubGoesOn
<1> QED  BY <1>1, <1>2, <1>3, <1>4, <1>5 DEF ProgramNext

\* Every behaviour of the program is one of the supervisor, fairness aside: for the
\* supervisor a hub opens in one step, whatever its layer goes through.
THEOREM ProgramIsSupervisor == ProgramSpec => Spec
<1>1. ProgramInit => Init
  BY DEF ProgramInit
<1> QED  BY <1>1, ProgramStep, PTL DEF ProgramSpec, Spec

\* The program keeps what the supervisor promises.
THEOREM ProgramKeepsPromises ==
  ProgramSpec => [](OneHubEach /\ NoKnownHubLeft /\ BreakerCountsDeaths)
BY ProgramIsSupervisor, OneHubEachHolds, NoKnownHubLeftHolds, BreakerCountsDeathsHolds, PTL

-----------------------------------------------------------------------------
(* The layers.  A layer that looks for a network has time left: otherwise  *)
(* one more second would be too long.                                      *)

SearchingUdp == {u \in Udp : u.at = "find" => u.timeout < IO_TIMEOUT}

UdpInv ==
  /\ udp \in [Sup \X Pid -> SearchingUdp] /\ iface \in Ip \cup {NoIp}
  /\ named \in [Sup -> BOOLEAN] /\ met \in BOOLEAN

LEMMA NewLayer ==
  /\ NoUdp \in SearchingUdp
  /\ \A step \in {"find", "connect"} :
       [NoUdp EXCEPT !.at = step, !.sockets = {"ofd"}] \in SearchingUdp
  /\ \A t \in 0 .. IO_TIMEOUT, r \in BOOLEAN :
       [NoUdp EXCEPT !.timeout = t, !.refused = r] \in SearchingUdp
<1>1. \A u \in Udp : u.at # "find" \/ u.timeout = 0 => u \in SearchingUdp
  BY UdpAssumption DEF SearchingUdp
<1>2. 0 \in 0 .. IO_TIMEOUT
  BY UdpAssumption
<1>3. NoUdp \in Udp
  BY <1>2 DEF NoUdp, Udp
<1>4. ASSUME NEW step \in {"find", "connect"}
      PROVE  [NoUdp EXCEPT !.at = step, !.sockets = {"ofd"}] \in SearchingUdp
  <2>1. [NoUdp EXCEPT !.at = step, !.sockets = {"ofd"}] \in Udp
    BY <1>3 DEF Udp
  <2>2. [NoUdp EXCEPT !.at = step, !.sockets = {"ofd"}].timeout = 0
    BY DEF NoUdp
  <2> QED  BY <1>1, <2>1, <2>2
<1>5. ASSUME NEW t \in 0 .. IO_TIMEOUT, NEW r \in BOOLEAN
      PROVE  [NoUdp EXCEPT !.timeout = t, !.refused = r] \in SearchingUdp
  <2>1. [NoUdp EXCEPT !.timeout = t, !.refused = r] \in Udp
    BY <1>3 DEF Udp
  <2>2. [NoUdp EXCEPT !.timeout = t, !.refused = r].at # "find"
    BY DEF NoUdp
  <2> QED  BY <1>1, <2>1, <2>2
<1>6. NoUdp.at # "find"
  BY DEF NoUdp
<1> QED  BY <1>1, <1>3, <1>4, <1>5, <1>6

LEMMA FailedLayer ==
  ASSUME NEW u \in Udp, NEW left \in SUBSET {"ofd", "ifd"}
  PROVE  Failed(u, left) \in SearchingUdp
BY DEF Failed, SearchingUdp, Udp

LEMMA RefusedLayer ==
  ASSUME NEW u \in Udp
  PROVE  /\ Refused(u) \in SearchingUdp
         /\ Refused(u).at = "failed" /\ Refused(u).refused
<1> DEFINE v == Failed(u, {})
<1>1. v \in Udp /\ v.at = "failed"
  BY DEF Failed, Udp
<1>2. [v EXCEPT !.refused = TRUE] \in Udp /\ [v EXCEPT !.refused = TRUE].at = "failed"
  <2> HIDE DEF v
  <2> QED  BY <1>1 DEF Udp
<1>3. [v EXCEPT !.refused = TRUE].refused
  <2> HIDE DEF v
  <2> QED  BY <1>1 DEF Udp
<1> QED  BY <1>2, <1>3 DEF Refused, SearchingUdp

\* One layer changes, the others do not.
LEMMA GetsTyped ==
  ASSUME UdpInv, NEW q \in Sup \X Pid, NEW u \in SearchingUdp, Gets(q, u)
  PROVE  udp' \in [Sup \X Pid -> SearchingUdp]
BY DEF UdpInv, Gets

LEMMA CloseTyped ==
  ASSUME UdpInv, NEW q \in Sup \X Pid, CloseUdp(q)
  PROVE  udp' \in [Sup \X Pid -> SearchingUdp]
<1>1. udp[q].timeout \in 0 .. IO_TIMEOUT /\ udp[q].refused \in BOOLEAN
  BY DEF UdpInv, SearchingUdp, Udp
<1> QED  BY <1>1, NewLayer, GetsTyped DEF CloseUdp

\* The end of an opening.
LEMMA ConnectedLayers ==
  ASSUME iface \in Ip, NEW u \in Udp
  PROVE  /\ MakeBindConnection(u) \subseteq Udp
         /\ \A v \in MakeBindConnection(u) :
              u.at = "connect" =>
                 (IF v.at = "failed" THEN {v} ELSE BuildLocalIpList(v)) \subseteq SearchingUdp
<1>1. [u EXCEPT !.sockets = {"ofd", "ifd"}] \in Udp
  BY DEF Udp
<1>2. MakeBindConnection(u) \subseteq Udp
  BY <1>1, FailedLayer DEF MakeBindConnection, SearchingUdp
<1>3. ASSUME NEW v \in Udp, v.at # "find" PROVE BuildLocalIpList(v) \subseteq SearchingUdp
  <2>1. [v EXCEPT !.at = "open", !.addr_list = {iface}] \in SearchingUdp
    BY DEF Udp, SearchingUdp
  <2>2. v.sockets \in SUBSET {"ofd", "ifd"}
    BY DEF Udp
  <2> QED  BY <2>1, <2>2, FailedLayer DEF BuildLocalIpList
<1>4. ASSUME NEW v \in MakeBindConnection(u), u.at = "connect" PROVE v.at # "find"
  BY <1>4 DEF MakeBindConnection, Failed, Udp
<1>5. ASSUME NEW v \in Udp, v.at = "failed" PROVE v \in SearchingUdp
  BY <1>5 DEF SearchingUdp
<1> QED  BY <1>2, <1>3, <1>4, <1>5

\* What one step of an opening makes of a layer is a layer.
LEMMA OpeningTyped ==
  ASSUME UdpInv, NEW q \in Sup \X Pid, NEW n \in BOOLEAN, UdpOpening(q, n)
  PROVE  udp' \in [Sup \X Pid -> SearchingUdp] /\ iface' = iface
<1>1. udp[q] \in SearchingUdp /\ udp[q] \in Udp
  BY DEF UdpInv, SearchingUdp
<1>2. CASE OpenBroadcast(q, n)
  BY <1>2, NewLayer, FailedLayer, GetsTyped DEF OpenBroadcast, SearchingUdp
<1>3. CASE FindDefaultIface(q)
  <2> DEFINE slept == [udp[q] EXCEPT !.timeout = @ + 1]
  <2>1. [udp[q] EXCEPT !.at = "connect"] \in SearchingUdp
    BY <1>1 DEF SearchingUdp, Udp
  <2>2. slept \in Udp /\ slept.at = "find"
    BY <1>1, <1>3, UdpAssumption DEF FindDefaultIface, SearchingUdp, Udp
  <2>3. slept.timeout < IO_TIMEOUT => slept \in SearchingUdp
    BY <2>2 DEF SearchingUdp
  <2>4. Failed(slept, {}) \in SearchingUdp
    BY <2>2, FailedLayer
  <2>5. Looked(udp[q], IO_TIMEOUT) \in SearchingUdp
    BY <2>1, <2>3, <2>4 DEF Looked
  <2>6. Refused(udp[q]) \in SearchingUdp
    BY <1>1, RefusedLayer
  <2>7. \E u \in SearchingUdp : Gets(q, u)
    BY <1>3, <2>5, <2>6 DEF FindDefaultIface
  <2> QED  BY <1>3, <2>7, GetsTyped DEF FindDefaultIface
<1>4. CASE Connect(q)
  <2>1. Failed(udp[q], {}) \in SearchingUdp
    BY <1>1, FailedLayer
  <2>2. ASSUME HasAddress PROVE iface \in Ip
    BY <2>2 DEF HasAddress, UdpInv
  <2>3. \E u \in SearchingUdp : Gets(q, u)
    BY <1>1, <1>4, <2>1, <2>2, ConnectedLayers DEF Connect
  <2> QED  BY <1>4, <2>3, GetsTyped DEF Connect
<1> QED  BY <1>2, <1>3, <1>4 DEF UdpOpening

LEMMA UdpInitHolds == ProgramInit => UdpInv
BY NewLayer DEF ProgramInit, UdpInit, UdpInv

LEMMA UdpStep == UdpInv /\ [ProgramNext]_programVars => UdpInv'
<1> SUFFICES ASSUME UdpInv, [ProgramNext]_programVars PROVE UdpInv'
  OBVIOUS
<1>1. ASSUME UNCHANGED udpVars, UNCHANGED <<named, met>> PROVE UdpInv'
  BY <1>1 DEF udpVars, UdpInv
<1>2. CASE UNCHANGED programVars
  BY <1>1, <1>2 DEF programVars
<1>3. CASE IfaceChanges /\ met' = TRUE /\ UNCHANGED <<vars, named>>
  BY <1>3 DEF IfaceChanges, UdpInv
<1>4. ASSUME NEW s \in Sup, NEW p \in Pid, HubGoesOn(s, p) \/ HubPollFails(s, p),
             UNCHANGED <<named, met>>
      PROVE  UdpInv'
  <2>1. <<s, p>> \in Sup \X Pid /\ named[s] \in BOOLEAN
    BY DEF UdpInv
  <2>2. CASE HubOpening(s, p)
    BY <1>4, <2>1, <2>2, OpeningTyped DEF HubOpening, UdpInv
  <2>3. CASE WithLayer(s, p)
    BY <1>4, <2>1, <2>3, <1>1, CloseTyped DEF WithLayer, UdpInv
  <2> QED
    BY <1>4, <2>2, <2>3 DEF HubGoesOn, HubOpened, HubStopped, HubPollFails
<1> QED  BY <1>1, <1>2, <1>3, <1>4 DEF ProgramNext

LEMMA UdpHolds == ProgramSpec => []UdpInv
BY UdpInitHolds, UdpStep, PTL DEF ProgramSpec

\* Layers, network and history have their types: above all the time searched is
\* never more than what the layer was told (gxPLUdpOpen).
THEOREM UdpTypeCorrect == ProgramSpec => []UdpTypeOK
<1>1. UdpInv => UdpTypeOK
  BY DEF UdpInv, UdpTypeOK, SearchingUdp
<1> QED  BY <1>1, UdpHolds, PTL

-----------------------------------------------------------------------------
(* The search ends when its time is over.  On a computer that never was on *)
(* the network no layer opens; one that has failed, or whose hub ended by  *)
(* itself, has not looked at all (another step of the opening failed), has *)
(* looked to the end, or was refused the list of the interfaces.           *)

Searched(s, p) ==
  LET u == udp[<<s, p>>] IN
    /\ hub[s][p] \in {"none", "forked", "zombie", "reaped"}
    /\ hub[s][p] = "none" => u.at = "closed" /\ u.timeout = 0
    /\ hub[s][p] = "forked" =>
         /\ u.at # "open"
         /\ u.at \in {"closed", "connect"} => u.timeout = 0
         /\ u.at = "failed" => u.timeout \in {0, IO_TIMEOUT} \/ u.refused
    /\ hub[s][p] \in {"zombie", "reaped"} /\ p \notin term[s] =>
         u.timeout \in {0, IO_TIMEOUT} \/ u.refused

SearchInv == ~met => iface = NoIp /\ \A s \in Sup, p \in Pid : Searched(s, p)

LEMMA SearchInit == ProgramInit => SearchInv
<1> SUFFICES ASSUME ProgramInit, ~met PROVE SearchInv
  BY DEF SearchInv
<1>1. iface = NoIp
  BY DEF ProgramInit
<1>2. ASSUME NEW s \in Sup, NEW p \in Pid PROVE Searched(s, p)
  <2>1. hub[s][p] = "none"
    BY DEF ProgramInit, Init
  <2>2. udp[<<s, p>>] = NoUdp
    BY DEF ProgramInit, UdpInit
  <2> QED  BY <2>1, <2>2 DEF Searched, NoUdp
<1> QED  BY <1>1, <1>2 DEF SearchInv

\* The layer of another process, or of a process that stays what it is.
LEMMA SearchedKept ==
  ASSUME NEW s \in Sup, NEW p \in Pid, Searched(s, p),
         udp'[<<s, p>>] = udp[<<s, p>>], hub'[s][p] = hub[s][p], term[s] \subseteq term'[s]
  PROVE  Searched(s, p)'
BY DEF Searched

\* What the statements of a supervisor do to a process: it is forked, or waited for.
LEMMA SupervisorStepOnHub ==
  ASSUME IInv, NEW s \in Sup, Launch(s) \/ Signal(s) \/ SupervisorStep(s),
         NEW t \in Sup, NEW p \in Pid
  PROVE  /\ term[t] \subseteq term'[t]
         /\ \/ hub'[t][p] = hub[t][p]
            \/ hub[t][p] = "none" /\ hub'[t][p] = "forked"
            \/ hub[t][p] = "zombie" /\ hub'[t][p] = "reaped"
<1> USE DEF IInv, SupervisorTypeOK
<1>1. CASE Fork(s)
  <2>1. hub[s][count[s]] = "none"
    BY <1>1 DEF Fork, Position
  <2> QED  BY <1>1, <2>1 DEF Fork, Becomes
<1>2. CASE WaitHub(s)
  BY <1>2 DEF WaitHub, Becomes
<1>3. CASE Reap(s)
  BY <1>3 DEF Reap, Becomes
<1>4. CASE Kill(s)
  BY <1>4 DEF Kill, KillHub, KillAll
<1>5. CASE Launch(s) \/ Signal(s) \/ Check(s) \/ Assign(s) \/ FailFork(s) \/ Delay(s)
  BY <1>5 DEF Launch, Signal, Check, Assign, FailFork, Delay
<1> QED  BY <1>1, <1>2, <1>3, <1>4, <1>5 DEF SupervisorStep

\* An opening without a network.
LEMMA OpeningSearched ==
  ASSUME UdpInv, NEW s \in Sup, NEW p \in Pid, iface = NoIp,
         Searched(s, p), HubOpening(s, p)
  PROVE  Searched(s, p)'
<1> DEFINE u == udp[<<s, p>>]
<1> DEFINE v == udp'[<<s, p>>]
<1>1. /\ hub'[s][p] = "forked"
      /\ u \in SearchingUdp /\ <<s, p>> \in DOMAIN udp
  BY DEF HubOpening, vars, UdpInv
<1> SUFFICES /\ v.at # "open"
             /\ v.at \in {"closed", "connect"} => v.timeout = 0
             /\ v.at = "failed" => v.timeout \in {0, IO_TIMEOUT} \/ v.refused
  BY <1>1 DEF Searched
<1>2. CASE OpenBroadcast(<<s, p>>, named[s])
  <2>1. CASE v = Failed(NoUdp, {})
    BY <2>1 DEF NoUdp, Failed
  <2>2. CASE v = [NoUdp EXCEPT !.at = IF named[s] THEN "connect" ELSE "find", !.sockets = {"ofd"}]
    <3>1. v.at \in {"connect", "find"} /\ v.timeout = 0
      BY <2>2 DEF NoUdp
    <3> QED  BY <3>1
  <2> QED  BY <1>1, <1>2, <2>1, <2>2 DEF OpenBroadcast, Gets
<1>3. CASE FindDefaultIface(<<s, p>>)
  <2> DEFINE slept == [u EXCEPT !.timeout = @ + 1]
  <2>1. u.at = "find" /\ u.timeout \in Nat /\ u.timeout < IO_TIMEOUT
    BY <1>1, <1>3 DEF FindDefaultIface, SearchingUdp, Udp
  <2>2. slept.at = "find" /\ slept.timeout = u.timeout + 1
    BY <1>1, <2>1 DEF SearchingUdp, Udp
  <2>3. \/ v = IF slept.timeout < IO_TIMEOUT THEN slept ELSE Failed(slept, {})
        \/ v = Refused(u)
    BY <1>1, <1>3 DEF FindDefaultIface, Looked, Gets
  <2>4. ~(slept.timeout < IO_TIMEOUT) => slept.timeout = IO_TIMEOUT
    BY <2>1, <2>2, UdpAssumption
  <2>5. Failed(slept, {}).timeout = slept.timeout /\ Failed(slept, {}).at = "failed"
    BY <1>1 DEF Failed, SearchingUdp, Udp
  <2>6. Refused(u).at = "failed" /\ Refused(u).refused
    BY <1>1, RefusedLayer DEF SearchingUdp
  <2> QED  BY <2>2, <2>3, <2>4, <2>5, <2>6
<1>4. CASE Connect(<<s, p>>)
  <2>1. u.timeout = 0
    BY <1>1, <1>4 DEF Connect, Searched, HubOpening
  <2>2. v = Failed(u, {})
    BY <1>1, <1>4 DEF Connect, HasAddress, Gets
  <2> QED  BY <1>1, <2>1, <2>2 DEF Failed, SearchingUdp, Udp
<1> QED  BY <1>2, <1>3, <1>4 DEF HubOpening, UdpOpening

\* The end of a hub, which takes its layer with it.
LEMMA EndSearched ==
  ASSUME UdpInv, IInv, NEW s \in Sup, NEW p \in Pid, Searched(s, p),
         HubOpened(s, p) \/ HubStopped(s, p) \/ HubPollFails(s, p)
  PROVE  Searched(s, p)'
<1>1. hub[s][p] # "serving" /\ (hub[s][p] = "forked" => udp[<<s, p>>].at # "open")
  BY DEF Searched
<1>2. hub'[s][p] = "zombie" /\ term' = term
  <2> USE DEF IInv, SupervisorTypeOK
  <2>1. ~HubPollFails(s, p)
    BY <1>1 DEF HubPollFails, HubDies
  <2>2. ASSUME HubOpened(s, p) PROVE hub'[s][p] = "zombie" /\ term' = term
    BY <1>1, <2>2 DEF HubOpened, HubOpens, Ends
  <2>3. ASSUME HubStopped(s, p) PROVE hub'[s][p] = "zombie" /\ term' = term
    BY <1>1, <2>3 DEF HubStopped, HubTerminates, Becomes
  <2> QED  BY <2>1, <2>2, <2>3
<1>3. CloseUdp(<<s, p>>)
  BY <1>2 DEF HubOpened, HubStopped, HubPollFails, WithLayer, Ends
<1>4. /\ udp'[<<s, p>>].timeout = udp[<<s, p>>].timeout
      /\ udp'[<<s, p>>].refused = udp[<<s, p>>].refused
  BY <1>3 DEF CloseUdp, Gets, UdpInv, NoUdp
<1>5. p \notin term[s] => udp[<<s, p>>].timeout \in {0, IO_TIMEOUT} \/ udp[<<s, p>>].refused
  <2>1. ASSUME HubOpened(s, p) PROVE hub[s][p] = "forked" /\ udp[<<s, p>>].at = "failed"
    BY <1>1, <2>1 DEF HubOpened, HubOpens
  <2>2. ASSUME HubStopped(s, p) PROVE p \in term[s]
    BY <2>2 DEF HubStopped, HubTerminates
  <2>3. ~HubPollFails(s, p)
    BY <1>1 DEF HubPollFails, HubDies
  <2> QED  BY <2>1, <2>2, <2>3 DEF Searched
<1> QED  BY <1>2, <1>4, <1>5 DEF Searched

\* A hub that goes on touches no other process.
LEMMA HubAloneMoves ==
  ASSUME UdpInv, IInv, NEW s \in Sup, NEW p \in Pid,
         HubGoesOn(s, p) \/ HubPollFails(s, p),
         NEW t \in Sup, NEW r \in Pid, <<t, r>> # <<s, p>>
  PROVE  /\ udp'[<<t, r>>] = udp[<<t, r>>] /\ hub'[t][r] = hub[t][r]
         /\ term' = term /\ iface' = iface
<1>1. ASSUME NEW u, Gets(<<s, p>>, u) PROVE udp'[<<t, r>>] = udp[<<t, r>>]
  BY <1>1 DEF Gets, UdpInv
<1>2. ASSUME NEW x, Becomes(s, p, x) PROVE hub'[t][r] = hub[t][r]
  BY <1>2 DEF Becomes, IInv, SupervisorTypeOK
<1>3. CASE HubOpening(s, p)
  <2>1. hub' = hub /\ term' = term
    BY <1>3 DEF HubOpening, vars
  <2>2. iface' = iface /\ \E u : Gets(<<s, p>>, u)
    <3>1. UdpOpening(<<s, p>>, named[s])
      BY <1>3 DEF HubOpening
    <3>2. CASE OpenBroadcast(<<s, p>>, named[s])
      BY <3>2 DEF OpenBroadcast
    <3>3. CASE FindDefaultIface(<<s, p>>)
      BY <3>3 DEF FindDefaultIface
    <3>4. CASE Connect(<<s, p>>)
      BY <3>4 DEF Connect
    <3> QED  BY <3>1, <3>2, <3>3, <3>4 DEF UdpOpening
  <2> QED  BY <2>1, <2>2, <1>1
<1>4. CASE HubOpened(s, p) \/ HubStopped(s, p) \/ HubPollFails(s, p)
  <2>1. WithLayer(s, p)
    BY <1>4 DEF HubOpened, HubStopped, HubPollFails
  <2>2. iface' = iface /\ udp'[<<t, r>>] = udp[<<t, r>>]
    BY <2>1, <1>1 DEF WithLayer, CloseUdp, udpVars
  <2>3. HubOpens(s, p) \/ HubTerminates(s, p) \/ HubDies(s, p)
    BY <1>4 DEF HubOpened, HubStopped, HubPollFails
  <2>4. term' = term /\ hub'[t][r] = hub[t][r]
    BY <2>3, <1>2 DEF HubOpens, HubTerminates, HubDies
  <2> QED  BY <2>2, <2>4
<1> QED  BY <1>3, <1>4 DEF HubGoesOn

LEMMA SearchStep ==
  SearchInv /\ UdpInv /\ IInv /\ [ProgramNext]_programVars => SearchInv'
<1> SUFFICES ASSUME SearchInv, UdpInv, IInv, [ProgramNext]_programVars, ~met'
             PROVE  iface' = NoIp /\ \A t \in Sup, r \in Pid : Searched(t, r)'
  BY DEF SearchInv
<1>1. met' = met
  BY DEF ProgramNext, programVars
<1>2. iface = NoIp /\ \A t \in Sup, r \in Pid : Searched(t, r)
  BY <1>1 DEF SearchInv
<1>3. CASE UNCHANGED programVars
  BY <1>2, <1>3, SearchedKept DEF programVars, vars, udpVars
<1>4. ASSUME NEW s \in Sup, Launch(s) \/ Signal(s) \/ SupervisorStep(s), UNCHANGED udpVars
      PROVE  iface' = NoIp /\ \A t \in Sup, r \in Pid : Searched(t, r)'
  <2>1. ASSUME NEW t \in Sup, NEW r \in Pid PROVE Searched(t, r)'
    <3>1. Searched(t, r) /\ udp' = udp
      BY <1>2, <1>4 DEF udpVars
    <3>2. /\ term[t] \subseteq term'[t]
          /\ \/ hub'[t][r] = hub[t][r]
             \/ hub[t][r] = "none" /\ hub'[t][r] = "forked"
             \/ hub[t][r] = "zombie" /\ hub'[t][r] = "reaped"
      BY <1>4, SupervisorStepOnHub
    <3> QED  BY <3>1, <3>2 DEF Searched
  <2> QED  BY <1>2, <1>4, <2>1 DEF udpVars
<1>5. ASSUME NEW s \in Sup, NEW p \in Pid, HubGoesOn(s, p) \/ HubPollFails(s, p)
      PROVE  iface' = NoIp /\ \A t \in Sup, r \in Pid : Searched(t, r)'
  <2>1. Searched(s, p)'
    BY <1>2, <1>5, OpeningSearched, EndSearched DEF HubGoesOn
  <2>2. ASSUME NEW t \in Sup, NEW r \in Pid, <<t, r>> # <<s, p>> PROVE Searched(t, r)'
    <3>1. /\ udp'[<<t, r>>] = udp[<<t, r>>] /\ hub'[t][r] = hub[t][r]
          /\ term' = term
      BY <1>5, <2>2, HubAloneMoves
    <3>2. Searched(t, r) /\ term[t] \subseteq term'[t]
      BY <1>2, <3>1
    <3> QED  BY <3>1, <3>2, SearchedKept
  <2>3. iface' = iface
    <3>1. CASE HubOpening(s, p)
      <4>1. <<s, p>> \in Sup \X Pid /\ named[s] \in BOOLEAN
        BY DEF UdpInv
      <4> QED  BY <3>1, <4>1, OpeningTyped DEF HubOpening
    <3>2. CASE WithLayer(s, p)
      BY <3>2 DEF WithLayer, udpVars
    <3> QED  BY <1>5, <3>1, <3>2 DEF HubGoesOn, HubOpened, HubStopped, HubPollFails
  <2> QED  BY <1>2, <2>1, <2>2, <2>3
<1>6. ASSUME NEW s \in Sup, NEW p \in Pid, SignalHub(s, p), UNCHANGED udpVars
      PROVE  iface' = NoIp /\ \A t \in Sup, r \in Pid : Searched(t, r)'
  <2>1. udp' = udp /\ iface' = iface /\ hub' = hub
    BY <1>6 DEF SignalHub, udpVars
  <2>2. \A t \in Sup : term[t] \subseteq term'[t]
    BY <1>6 DEF SignalHub, IInv, SupervisorTypeOK
  <2> QED  BY <1>2, <2>1, <2>2, SearchedKept
<1> QED  BY <1>1, <1>3, <1>4, <1>5, <1>6 DEF ProgramNext

\* On a computer that never was on the network, a hub that ended by itself has
\* searched for as long as it was told (prvMakeBroadcastConnection), or not at all,
\* or its computer did not list its interfaces.
THEOREM SearchedToTheEndHolds == ProgramSpec => []SearchedToTheEnd
<1>1. SearchInv => SearchedToTheEnd
  BY DEF SearchInv, Searched, SearchedToTheEnd
<1>2. Spec => []IInv
  BY InvariantHolds
<1> QED
  BY <1>1, <1>2, ProgramIsSupervisor, UdpHolds, SearchInit, SearchStep, PTL DEF ProgramSpec
=============================================================================
