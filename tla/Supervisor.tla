----------------------------- MODULE Supervisor -----------------------------
(***************************************************************************)
(* The hub program (src/tools/hub/gxpl-hub.c): a supervisor forks a hub,   *)
(* waits for its death and forks the next one, until it has done so too    *)
(* often or a signal ends it.  The program may be started more than once:  *)
(* hubs share the xPL port (SO_REUSEADDR).  A signal interrupts a process  *)
(* between any two of its statements, and the handlers never return.       *)
(***************************************************************************)
EXTENDS Integers

CONSTANTS
  Sup,              \* supervisors: one per start of the program
  MAX_HUB_RESTARTS

ASSUME SupervisorAssumption == MAX_HUB_RESTARTS \in Nat \ {0}

\* The process ids of the hubs of one supervisor, in the order of the forks.
Pid == 1 .. MAX_HUB_RESTARTS

\* hub_pid before the first fork, and after one that has failed.
NoHub == 0
NoFork == -1

VARIABLES
  at,        \* at[s]: the statement the supervisor s is about to execute
  count,     \* count[s]: hub_restart_count
  hub_pid,   \* hub_pid[s]: the global variable of the supervisor
  hub,       \* hub[s][p]: what has become of the process p
  term,      \* term[s]: the hubs of s that were sent SIGTERM or SIGINT
  caught     \* caught[s]: signals whose handler s is in

vars == <<at, count, hub_pid, hub, term, caught>>

Running == {"check", "fork", "assign", "failing", "wait", "delay"}
Handling == {"kill", "reap"}
Over == {"stopped", "gaveup", "failed"}

\* A zombie is a hub that has ended and was not waited for yet; a hub hangs when its
\* handler has interrupted the allocation of memory.  There is no process "none",
\* not yet or because its fork failed.
HubState == {"none", "forked", "serving", "hung", "zombie", "reaped"}

Init ==
  /\ at = [s \in Sup |-> "none"]
  /\ count = [s \in Sup |-> 0]
  /\ hub_pid = [s \in Sup |-> NoHub]
  /\ hub = [s \in Sup |-> [p \in Pid |-> "none"]]
  /\ term = [s \in Sup |-> {}]
  /\ caught = [s \in Sup |-> 0]

Goto(s, label) == at' = [at EXCEPT ![s] = label]
Becomes(s, p, state) == hub' = [hub EXCEPT ![s][p] = state]

-----------------------------------------------------------------------------
(* prvSuperviseHub                                                         *)

Launch(s) ==
  /\ at[s] = "none" /\ Goto(s, "check")
  /\ UNCHANGED <<count, hub_pid, hub, term, caught>>

\* Mutants: the breaker trips one restart too late, or too early.
CheckLate(s) ==
  /\ at[s] = "check"
  /\ IF count[s] > MAX_HUB_RESTARTS
       THEN Goto(s, "gaveup") /\ UNCHANGED count
       ELSE Goto(s, "fork") /\ count' = [count EXCEPT ![s] = @ + 1]
  /\ UNCHANGED <<hub_pid, hub, term, caught>>

CheckEarly(s) ==
  /\ at[s] = "check"
  /\ IF count[s] + 1 = MAX_HUB_RESTARTS
       THEN Goto(s, "gaveup") /\ UNCHANGED count
       ELSE Goto(s, "fork") /\ count' = [count EXCEPT ![s] = @ + 1]
  /\ UNCHANGED <<hub_pid, hub, term, caught>>

\* The circuit breaker.
Check(s) ==
  /\ at[s] = "check"
  /\ IF count[s] = MAX_HUB_RESTARTS
       THEN Goto(s, "gaveup") /\ UNCHANGED count
       ELSE Goto(s, "fork") /\ count' = [count EXCEPT ![s] = @ + 1]
  /\ UNCHANGED <<hub_pid, hub, term, caught>>

\* fork () has returned, with a child or without, its result is not in hub_pid yet.
Fork(s) ==
  /\ at[s] = "fork" /\ Goto(s, "assign")
  /\ Becomes(s, count[s], "forked") \/ UNCHANGED hub
  /\ UNCHANGED <<count, hub_pid, term, caught>>

Assign(s) ==
  /\ at[s] = "assign"
  /\ IF hub[s][count[s]] = "none"
       THEN Goto(s, "failing") /\ hub_pid' = [hub_pid EXCEPT ![s] = NoFork]
       ELSE Goto(s, "wait") /\ hub_pid' = [hub_pid EXCEPT ![s] = count[s]]
  /\ UNCHANGED <<count, hub, term, caught>>

\* "unable to spawn gxpl-hub supervisor"
FailFork(s) ==
  /\ at[s] = "failing" /\ Goto(s, "failed")
  /\ UNCHANGED <<count, hub_pid, hub, term, caught>>

\* Mutant: the supervisor does not wait for the death of the hub.
WaitNoHang(s) ==
  /\ at[s] = "wait" /\ Goto(s, "delay")
  /\ UNCHANGED <<count, hub_pid, hub, term, caught>>

WaitHub(s) ==
  /\ at[s] = "wait" /\ hub[s][hub_pid[s]] = "zombie"
  /\ Becomes(s, hub_pid[s], "reaped") /\ Goto(s, "delay")
  /\ UNCHANGED <<count, hub_pid, term, caught>>

\* Mutant: after the delay the dead hub is waited for again.
DelayToWait(s) ==
  /\ at[s] = "delay" /\ Goto(s, "wait")
  /\ UNCHANGED <<count, hub_pid, hub, term, caught>>

\* One second later; hub_pid still is that of the dead hub.
Delay(s) ==
  /\ at[s] = "delay" /\ Goto(s, "check")
  /\ UNCHANGED <<count, hub_pid, hub, term, caught>>

-----------------------------------------------------------------------------
(* prvSupervisorSignalHandler.                                             *)

\* SIGINT and SIGTERM may interrupt the handler of the other, but not their own.
Signal(s) ==
  /\ \/ at[s] \in Running
     \/ at[s] \in Handling /\ caught[s] = 1
  /\ Goto(s, "kill")
  /\ caught' = [caught EXCEPT ![s] = @ + 1]
  /\ UNCHANGED <<count, hub_pid, hub, term>>

\* kill () succeeds for a zombie, too, and fails for a process that was reaped.
KillHub(s) ==
  IF hub_pid[s] # NoHub /\ hub[s][hub_pid[s]] # "reaped"
    THEN Goto(s, "reap") /\ term' = [term EXCEPT ![s] = @ \cup {hub_pid[s]}]
    ELSE Goto(s, "stopped") /\ UNCHANGED term

\* kill (-1): every process of the computer gets the signal, also the hubs of other
\* supervisors (these themselves: Signal).  No child is left to be waited for.
KillAll(s) ==
  /\ Goto(s, "stopped")
  /\ term' = [t \in Sup |-> term[t] \cup {p \in Pid : hub[t][p] \in {"forked", "serving"}}]

Kill(s) ==
  /\ at[s] = "kill"
  /\ IF hub_pid[s] = NoFork THEN KillAll(s) ELSE KillHub(s)
  /\ UNCHANGED <<count, hub_pid, hub, caught>>

\* Mutant: the handler does not wait for the hub.
ReapNoWait(s) ==
  /\ at[s] = "reap" /\ Goto(s, "stopped")
  /\ UNCHANGED <<count, hub_pid, hub, term, caught>>

Reap(s) ==
  /\ at[s] = "reap" /\ hub[s][hub_pid[s]] = "zombie"
  /\ Becomes(s, hub_pid[s], "reaped") /\ Goto(s, "stopped")
  /\ UNCHANGED <<count, hub_pid, term, caught>>

-----------------------------------------------------------------------------
(* prvRunHub and prvHubSignalHandler, in the child.                        *)

\* gxPLHubOpen, which may fail.
HubOpens(s, p) ==
  /\ hub[s][p] = "forked"
  /\ Becomes(s, p, "serving") \/ Becomes(s, p, "zombie")
  /\ UNCHANGED <<at, count, hub_pid, term, caught>>

\* Anybody may send the signal to a hub, not only its supervisor.
SignalHub(s, p) ==
  /\ hub[s][p] \in {"forked", "serving"} /\ p \notin term[s]
  /\ term' = [term EXCEPT ![s] = @ \cup {p}]
  /\ UNCHANGED <<at, count, hub_pid, hub, caught>>

\* gxPLHubPoll fails, or the process dies.
HubDies(s, p) ==
  /\ hub[s][p] = "serving" /\ Becomes(s, p, "zombie")
  /\ UNCHANGED <<at, count, hub_pid, term, caught>>

\* A hub that still opens has the handler it inherited, which ends it as well.  The
\* handler of a serving hub frees everything, whatever the hub was just doing.
HubTerminates(s, p) ==
  /\ p \in term[s]
  /\ \/ hub[s][p] \in {"forked", "serving"} /\ Becomes(s, p, "zombie")
     \/ hub[s][p] = "serving" /\ Becomes(s, p, "hung")
  /\ UNCHANGED <<at, count, hub_pid, term, caught>>

SupervisorStep(s) ==
  \/ Check(s) \/ Fork(s) \/ Assign(s) \/ FailFork(s) \/ WaitHub(s) \/ Delay(s)
  \/ Kill(s) \/ Reap(s)

HubStep(s, p) == HubOpens(s, p) \/ HubTerminates(s, p)

Next ==
  \E s \in Sup :
    \/ Launch(s) \/ Signal(s)
    \/ SupervisorStep(s)
    \/ \E p \in Pid : HubStep(s, p) \/ HubDies(s, p) \/ SignalHub(s, p)

\* Every process goes on; nobody has to send signals, and no hub has to die.
Fairness ==
  \A s \in Sup :
    /\ WF_vars(SupervisorStep(s))
    /\ \A p \in Pid : WF_vars(HubStep(s, p))

Spec == Init /\ [][Next]_vars
FairSpec == Spec /\ Fairness

-----------------------------------------------------------------------------
\* Type correctness of the supervisors and their hubs.
SupervisorTypeOK ==
  /\ at \in [Sup -> {"none"} \cup Running \cup Handling \cup Over]
  /\ count \in [Sup -> 0 .. MAX_HUB_RESTARTS]
  /\ hub_pid \in [Sup -> {NoFork, NoHub} \cup Pid]
  /\ hub \in [Sup -> [Pid -> HubState]]
  /\ term \in [Sup -> SUBSET Pid]
  /\ caught \in [Sup -> 0 .. 2]

Alive(s, p) == hub[s][p] \notin {"none", "reaped"}

\* A supervisor never has two hubs: it forks the next one (prvSuperviseHub) after
\* it has waited for the last one.
OneHubEach == \A s \in Sup, p, q \in Pid : Alive(s, p) /\ Alive(s, q) => p = q

\* A supervisor that is over leaves no hub behind that it knew of: whenever the
\* signal came, it has waited for the hub in hub_pid (prvSupervisorSignalHandler);
\* and when it ends because a fork failed, none at all is left.
NoKnownHubLeft ==
  \A s \in Sup : at[s] \in Over =>
    \A p \in Pid : p <= hub_pid[s] \/ hub_pid[s] = NoFork => ~Alive(s, p)

\* "gxpl-hub has died %d times": the supervisor gives up after that many deaths,
\* not earlier, and without a hub that still lives.
BreakerCountsDeaths ==
  \A s \in Sup : at[s] = "gaveup" => \A p \in Pid : hub[s][p] = "reaped"

\* "Stop the child and wait for it" (prvSupervisorSignalHandler): a supervisor that
\* was stopped leaves no hub behind.
NoHubLeft == \A s \in Sup : at[s] = "stopped" => \A p \in Pid : ~Alive(s, p)

\* "If it stops for any reason, restart it" (prvSuperviseHub): as long as a
\* supervisor runs its loop, its hub serves again and again, whoever sends signals to
\* whom -- unless a hub hangs in its handler, which nobody replaces: its supervisor
\* waits for it for ever (waitpid), although it serves no more.
HubServesAgain ==
  \A s \in Sup :
    []<>(at[s] \notin Running \/ \E p \in Pid : hub[s][p] \in {"serving", "hung"})
=============================================================================
