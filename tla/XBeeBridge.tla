----------------------------- MODULE XBeeBridge -----------------------------
(***************************************************************************)
(* The bridge program for a radio module                                   *)
(* (src/tools/bridge/xbee/gxpl-xbee-bridge.c): the network it shall use    *)
(* comes from the command line, from the configuration file or from a      *)
(* configuration manager, and is kept in four places: the setting of the   *)
(* supervisor, the setting of the inner application, the configuration and *)
(* its file, and the module.  Other programs use the same module, with a   *)
(* reset of it if they were told so.                                       *)
(***************************************************************************)
EXTENDS XBeeIo

CONSTANTS
  DefaultPan,    \* 0, the network of a setting that nobody filled
  Absent,        \* a configuration without a PAN ID
  Malformed,     \* one with a PAN ID that is no number
  NoFile,
  MAX_RESTARTS   \* BRIDGE_MAX_RESTARTS

Value == Pan \cup {Absent, Malformed}

ASSUME XBeeBridgeAssumption ==
  /\ DefaultPan \in Pan
  /\ {Absent, Malformed, NoFile} \cap Pan = {} /\ NoFile \notin {Absent, Malformed}
  /\ MAX_RESTARTS \in Nat \ {0}

VARIABLES
  sup,     \* the supervisor: its next statement, its count and its setting
  proc,    \* what the process that has the module does
  conf,    \* the value of the item "panid" of its device
  file     \* and that in the configuration file

programVars == <<sup, proc, conf, file>>
vars == <<ioVars, programVars>>

\* sup.at is Idle when no program runs, and "last" for a bridge that nobody replaces:
\* it was started with -D, or its supervisor has left it or waits for its end only.
Idle == "idle"
NoSetting == [panid |-> DefaultPan, new_panid |-> FALSE, reset_sw |-> FALSE]
NewSup(at, given) == [at |-> at, count |-> 0, setting |-> given]

Init ==
  /\ XBeeInit
  /\ setting = NoSetting
  /\ sup = NewSup(Idle, NoSetting) /\ proc = "none"
  /\ conf = Absent /\ file = NoFile

-----------------------------------------------------------------------------
(* Programs start.                                                         *)

\* The process opens the inner application: gxPLAppOpen and gxPLIoOpen.
Begins(given) ==
  /\ setting' = given /\ proc' = "opening"
  /\ conf' = Absent

\* "The XBee module (Series 2) must be configured as coordinator": the bridge is not
\* started with a router.
Suitable == radio.firmware # "router"

\* main: the option -p, or the number in the configuration file.
BridgeSetting(p) ==
  [panid |-> IF p # NoPan THEN p ELSE IF file \in Pan THEN file ELSE DefaultPan,
   new_panid |-> p # NoPan, reset_sw |-> FALSE]

StartBridge(p) ==
  /\ sup.at = Idle /\ proc = "none" /\ Suitable
  /\ sup' = NewSup("check", BridgeSetting(p))
  /\ UNCHANGED <<ioVars, proc, conf, file>>

\* With the option -D the bridge runs without a supervisor.
StartInForeground(p) ==
  /\ sup.at = Idle /\ proc = "none" /\ Suitable
  /\ sup' = NewSup("last", NoSetting)
  /\ Begins(BridgeSetting(p))
  /\ UNCHANGED <<radio, todo, line, io, doubt, file>>

\* A sender, a logger: gxPLSettingFromCommandArgs, where -r asks for a reset.
StartApplication(reset) ==
  /\ sup.at = Idle /\ proc = "none"
  /\ sup' = NewSup("application", NoSetting)
  /\ Begins([NoSetting EXCEPT !.reset_sw = reset])
  /\ UNCHANGED <<radio, todo, line, io, doubt, file>>

\* fork () has returned, with a child or without, its result is not in bridge_pid yet.
Fork ==
  /\ sup' = [sup EXCEPT !.count = @ + 1, !.at = "assign"]
  /\ Begins(sup.setting) \/ UNCHANGED <<setting, proc, conf>>
  /\ UNCHANGED <<radio, todo, line, io, doubt, file>>

\* Mutant: nobody looks at the count.
CheckNever == sup.at = "check" /\ Fork

\* prvSuperviseBridge: no delay between two bridges, each gets the first setting.
Check == sup.at = "check" /\ sup.count # MAX_RESTARTS /\ Fork

Assign ==
  /\ sup.at = "assign"
  /\ sup' = [sup EXCEPT !.at = IF proc = "none" THEN "failing" ELSE "wait"]
  /\ UNCHANGED <<ioVars, proc, conf, file>>

\* "unable to spawn gxpl-bridge supervisor"
FailFork ==
  /\ sup.at = "failing"
  /\ sup' = NewSup(Idle, NoSetting)
  /\ UNCHANGED <<ioVars, proc, conf, file>>

GiveUp ==
  /\ sup.at = "check" /\ sup.count = MAX_RESTARTS
  /\ sup' = NewSup(Idle, NoSetting)
  /\ UNCHANGED <<ioVars, proc, conf, file>>

\* Mutant: a bridge that ends is not replaced.
WaitForEver ==
  /\ sup.at = "last" /\ proc = "dead"
  /\ proc' = "none" /\ sup' = NewSup(Idle, NoSetting)
  /\ UNCHANGED <<ioVars, conf, file>>

\* waitpid (), or the shell for a program without a supervisor.
Wait ==
  /\ sup.at \in {"wait", "last", "application"} /\ proc = "dead"
  /\ proc' = "none"
  /\ sup' = IF sup.at = "wait" THEN [sup EXCEPT !.at = "check"] ELSE NewSup(Idle, NoSetting)
  /\ UNCHANGED <<ioVars, conf, file>>

-----------------------------------------------------------------------------
(* The process ends.                                                       *)

Becomes(p) ==
  /\ ClosePort("closed") /\ proc' = p
  /\ setting' = NoSetting /\ conf' = Absent
  /\ UNCHANGED <<radio, todo, doubt, sup>>

Dies == Becomes("dead")

Alive == proc \in {"opening", "polling", "reopening"}

\* A poll that fails, of the radio or of the outer network, or a crash.  A bridge that
\* hangs may be killed.
Crash == (Alive \/ proc = "hung") /\ Dies /\ UNCHANGED file

\* prvSupervisorSignalHandler, up to waitpid (): it looks for the bridge in bridge_pid.
\* Before the assignment it does not find it, and the bridge goes on without a
\* supervisor; after a fork that has failed kill (-1) finds no bridge.
TerminateSupervisor ==
  /\ \/ sup.at \in {"check", "failing"} /\ sup' = NewSup(Idle, NoSetting)
     \/ /\ sup.at = "assign"
        /\ sup' = NewSup(IF proc = "none" THEN Idle ELSE "last", NoSetting)
     \/ sup.at = "wait" /\ sup' = NewSup("last", NoSetting)
  /\ UNCHANGED <<ioVars, proc, conf, file>>

\* A signal for the bridge, from anybody.  While it opens it has the handler of its
\* supervisor, or none, and ends.  prvBridgeSignalHandler frees everything, whatever
\* the bridge was just doing, and may hang; the port counts as closed then, nobody
\* reads from it.
TerminateBridge ==
  /\ sup.at # "application"
  /\ \/ Alive /\ Becomes("dead")
     \/ proc \in {"polling", "reopening"} /\ Becomes("hung")
  /\ UNCHANGED file

\* gxPLAppOpen returns NULL: gxPLBridgeOpen, or an application, gives up, and
\* gxPLBridgeSetNewInSetting closes the bridge whose device it is called from: at
\* the latest the next poll of that bridge ends the process.
OpenFails ==
  /\ Alive /\ io.at = "failed"
  /\ Dies /\ UNCHANGED file

-----------------------------------------------------------------------------
(* prvRunBridge                                                            *)

Save(v) == file' \in {file, v}

OpenIo ==
  /\ proc \in {"opening", "reopening"} /\ io.at = "closed"
  /\ OpenPort
  /\ UNCHANGED <<radio, line, setting, programVars>>

\* prvSetConfig with isremote false: a network from the command line is saved.
Startup(v) ==
  LET save == v \in Pan /\ setting.panid # v /\ setting.new_panid
  IN  IF save THEN conf' = setting.panid /\ Save(setting.panid)
              ELSE conf' = v /\ UNCHANGED file

\* gxPLBridgeDeviceSet reads the file; without one the item gets the setting.
StartDevice ==
  /\ proc = "opening" /\ io.at = "open" /\ sup.at # "application"
  /\ file # Absent
  /\ proc' = "polling"
  /\ Startup(IF file = NoFile THEN setting.panid ELSE file)
  /\ UNCHANGED <<ioVars, sup>>

\* Without a value strtoll () gets a null pointer.
StartupCrashes ==
  /\ proc = "opening" /\ io.at = "open" /\ sup.at # "application"
  /\ file = Absent
  /\ Dies /\ UNCHANGED file

ApplicationReady ==
  /\ proc = "opening" /\ io.at = "open" /\ sup.at = "application"
  /\ proc' = "polling"
  /\ UNCHANGED <<ioVars, sup, conf, file>>

Steered(v) == [setting EXCEPT !.panid = v, !.new_panid = TRUE]

\* A config.response with the value v: it is saved before prvConfigChanged is called.
\* For a new network the inner application is closed (gxPLBridgeSetNewInSetting).
Configure(v) ==
  /\ proc = "polling" /\ sup.at # "application"
  /\ Save(v)
  /\ \/ v = Absent /\ Dies
     \/ /\ v # Absent
        /\ conf' = v
        /\ IF v \in Pan /\ setting.panid # v
             THEN ClosePort("closed") /\ setting' = Steered(v) /\ proc' = "reopening"
             ELSE UNCHANGED <<line, io, setting, proc>>
        /\ UNCHANGED <<radio, todo, doubt, sup>>

Reopened ==
  /\ proc = "reopening" /\ io.at = "open"
  /\ proc' = "polling"
  /\ UNCHANGED <<ioVars, sup, conf, file>>

Poll == proc = "polling" /\ (IoPoll \/ IoRecv) /\ UNCHANGED programVars

\* What the programs do when nobody interferes.
ProgramStep ==
  \/ Check \/ Assign \/ FailFork \/ GiveUp \/ Wait
  \/ OpenIo \/ OpenFails \/ StartDevice \/ StartupCrashes \/ ApplicationReady \/ Reopened

Opening == OpenStep /\ UNCHANGED programVars
Module  == ModuleStep /\ UNCHANGED programVars
Mishap  == (PowerCycle \/ PacketArrives) /\ UNCHANGED programVars

Next ==
  \/ \E p \in Pan \cup {NoPan} : StartBridge(p) \/ StartInForeground(p)
  \/ \E r \in BOOLEAN : StartApplication(r)
  \/ \E v \in Value : Configure(v)
  \/ ProgramStep \/ Opening \/ Poll \/ Module \/ Mishap
  \/ Crash \/ TerminateSupervisor \/ TerminateBridge

Spec == Init /\ [][Next]_vars

\* The processes go on; the loops of an opening poll, and count their time down.  The
\* module owes nothing.
Fairness ==
  /\ WF_vars(ProgramStep)
  /\ WF_vars(PollStatus /\ UNCHANGED programVars)
  /\ WF_vars(Timeout /\ UNCHANGED programVars)
FairSpec == Spec /\ Fairness

-----------------------------------------------------------------------------
\* Type correctness of the programs, the driver, the line and the module.
XBeeTypeOK ==
  /\ radio \in [firmware : Firmware, panid : Pan, stored : Pan, joined : BOOLEAN]
  /\ todo \in Seq(Command) /\ Len(todo) <= TodoLen
  /\ Len(line) <= LineLen /\ line # << >> => PortOpen
  /\ io.at \in Asking \cup Waiting \cup Closed \cup {"open"}
  /\ io.fid \in 0 .. 10 /\ io.modem_status \in 0 .. 6 /\ io.rxpkt \in Pan \cup {NoPan}
  /\ setting \in Setting /\ doubt \in BOOLEAN
  /\ sup \in [at : {Idle, "check", "assign", "failing", "wait", "last", "application"},
              count : 0 .. MAX_RESTARTS, setting : Setting]
  /\ proc \in {"none", "opening", "polling", "reopening", "hung", "dead"}
  /\ conf \in Value /\ file \in Value \cup {NoFile}

\* A bridge that was given a network, by the command line or by a manager, uses it:
\* after the opening (gxPLXBeeZbOpen) the module is there, and the configuration
\* says so (prvSetConfig), whichever answers were lost or late -- as long as the
\* opening found at most Backlog commands of earlier ones in the module, the module
\* said where it was, and has not lost its power since.
ForcedPanInUse ==
  proc = "polling" /\ setting.new_panid =>
    /\ conf \in Pan => conf = setting.panid
    /\ ~doubt => radio.panid = setting.panid

\* No packet of the former network comes out of the driver after it has moved to
\* another (prvZbDataCB is set late in gxPLXBeeZbOpen), even if the packet was on
\* the line all the time -- under the conditions of ForcedPanInUse, above all with no
\* more than Backlog old commands in the module.
NothingFromOldNetwork == io.rxpkt # NoPan /\ ~doubt => io.rxpkt = radio.panid

\* "remote configuration, panid must be write to the module" (prvSetConfig): a
\* network that a manager sets is the network of the module, if not after another
\* opening then at once.
RemoteReachesModule ==
  [][\A v \in Pan : Configure(v) /\ proc' = "polling" /\ ~doubt => radio.panid = v]_vars

\* Every opening comes to an end, whatever the module says, or does not say.
OpeningEnds == []<>(io.at \in Closed \cup {"open"})

\* "If it stops for any reason, restart it" (prvSuperviseBridge): as long as the
\* supervisor runs, a bridge polls again and again, whoever sends signals to whom --
\* unless a bridge hangs in its handler, which nobody replaces: its supervisor waits
\* for it for ever (waitpid).
BridgeRestarts ==
  []<>(proc \in {"polling", "hung"} \/ sup.at \notin {"assign", "wait"})
=============================================================================
