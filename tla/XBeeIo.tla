------------------------------- MODULE XBeeIo -------------------------------
(***************************************************************************)
(* The layer "xbeezb" (src/src/sys/unix/io_xbeezb.c): a driver that opens  *)
(* a radio module with a sequence of AT commands on a serial line, and     *)
(* then reads packets from it.  The module, the line and the library that  *)
(* cuts the bytes into frames are external: the module works at its own    *)
(* pace, keeps what it was asked for when the driver has given up, loses   *)
(* answers, answers without the value it was asked for, and may lose its   *)
(* power.                                                                  *)
(***************************************************************************)
EXTENDS Naturals, Sequences, SequencesExt

CONSTANTS
  Pan,        \* PAN IDs, the names of radio networks
  NoPan,      \* an empty slot
  Firmware,   \* the firmwares of the modules that may be plugged in
  LineLen,    \* bound: frames on the line from the module
  TodoLen     \* bound: commands waiting in the module

ASSUME XBeeIoAssumption ==
  /\ NoPan \notin Pan /\ Pan # {}
  /\ Firmware \subseteq {"coordinator", "router", "other"}
  /\ LineLen \in Nat \ {0} /\ TodoLen \in Nat \ {0}

VARIABLES
  radio,     \* the module: its network, the one it has stored, is it joined?
  todo,      \* commands the module has not executed yet
  line,      \* frames on their way from the module to the driver
  io,        \* the driver, its gxPLIo
  setting,   \* io->setting->xbee
  doubt      \* a history, see Backlog

moduleVars == <<radio, todo, line, doubt>>
ioVars == <<radio, todo, line, io, setting, doubt>>

\* The steps of an opening: those that send a command and wait for its answer, and
\* those that wait for a modem status.
Asking  == {"VR", "SH", "SL", "ID", "setID", "WR", "FR", "AI", "OP", "NP"}
Waiting == {"reset", "join"}
Closed  == {"closed", "failed"}

HardwareReset == 0
WatchdogReset == 1
Joined        == 2
Started       == 6   \* of a coordinator; nobody waits for it

\* The driver tells the answers to its commands from late ones by two letters and a
\* number that starts over with each opening.  doubt says that this opening could be
\* misled: more than Backlog commands of earlier openings were waiting in the module
\* when it began, the module did not say in which network it is, or has lost its
\* power since.
Backlog == 4

Setting == [panid : Pan, new_panid : BOOLEAN, reset_sw : BOOLEAN]
Command == [step : Asking \cup {"restart"}, fid : Nat, panid : Pan \cup {NoPan}]

\* param: does the answer carry the value that it was asked for?
Answer(c, ok, param, r) ==
  [type |-> "at", cmd |-> IF c.step = "setID" THEN "ID" ELSE c.step, fid |-> c.fid,
   ok |-> ok, param |-> param, firmware |-> r.firmware,
   panid |-> IF c.step = "ID" /\ param THEN r.panid ELSE NoPan,
   joined |-> c.step = "AI" /\ param /\ r.joined]

\* The driver looks at three of the values.
Params(c, ok) == IF ok /\ c.step \in {"VR", "ID", "AI"} THEN BOOLEAN ELSE {FALSE}
Status(s) == [type |-> "modem", status |-> s]
Packet(p) == [type |-> "data", panid |-> p]

NoAnswer == [type |-> "none"]

\* The driver's data after calloc ().
NoIo(step) ==
  [at |-> step, fid |-> 0, modem_status |-> 0, rxpkt |-> NoPan, coordinator |-> FALSE]

XBeeInit ==
  /\ radio \in [firmware : Firmware, panid : Pan, stored : Pan, joined : {TRUE}]
  /\ radio.panid = radio.stored
  /\ todo = << >> /\ line = << >> /\ doubt = FALSE
  /\ io = NoIo("closed")

PortOpen == io.at \notin Closed

-----------------------------------------------------------------------------
(* The module.                                                             *)

Room == Len(line) < LineLen
Emit(f) == line' = IF PortOpen THEN Append(line, f) ELSE line

\* What a command does to the module; FR is answered before the module restarts.
Executed(c) ==
  CASE c.step = "setID" ->
         [radio EXCEPT !.panid = c.panid, !.joined = @ /\ radio.panid = c.panid]
    [] c.step = "WR" -> [radio EXCEPT !.stored = radio.panid]
    [] OTHER -> radio

Execute ==
  /\ todo # << >> /\ Head(todo).step # "restart" /\ Room
  /\ LET c == Head(todo) IN
       \E done \in BOOLEAN, heard \in BOOLEAN : \E param \in Params(c, done) :
         /\ radio' = IF done THEN Executed(c) ELSE radio
         /\ todo' = IF done /\ c.step = "FR" THEN <<[c EXCEPT !.step = "restart"]>> \o Tail(todo)
                                             ELSE Tail(todo)
         /\ IF heard THEN Emit(Answer(c, done, param, radio)) ELSE UNCHANGED line
  /\ UNCHANGED <<io, setting, doubt>>

Restarted == [radio EXCEPT !.panid = radio.stored, !.joined = FALSE]

Restart ==
  /\ todo # << >> /\ Head(todo).step = "restart" /\ Room
  /\ radio' = Restarted /\ todo' = Tail(todo)
  /\ Emit(Status(WatchdogReset))
  /\ UNCHANGED <<io, setting, doubt>>

Associate ==
  /\ ~radio.joined /\ Room
  /\ radio' = [radio EXCEPT !.joined = TRUE]
  /\ Emit(Status(IF radio.firmware = "coordinator" THEN Started ELSE Joined))
  /\ UNCHANGED <<todo, io, setting, doubt>>

PowerCycle ==
  /\ Room
  /\ radio' = Restarted /\ todo' = << >> /\ doubt' = TRUE
  /\ Emit(Status(HardwareReset))
  /\ UNCHANGED <<io, setting>>

\* A message arrives by radio.
PacketArrives ==
  /\ radio.joined /\ PortOpen /\ Room
  /\ line' = Append(line, Packet(radio.panid))
  /\ UNCHANGED <<radio, todo, io, setting, doubt>>

ModuleStep == Execute \/ Restart \/ Associate

-----------------------------------------------------------------------------
(* Frames from the line: iXBeePoll calls the callbacks, for one frame or   *)
(* for several at once.                                                    *)

\* Mutant: packets are taken from the first command on.
TakesPacketsEarly(step) == step \in Asking \cup Waiting \cup {"open"}

\* The callback for data is set before the operating PAN ID is read.
TakesPackets(step) == step \in {"OP", "NP", "open"}

Frames(type, n) == {i \in 1 .. n : line[i].type = type}

\* Only an opening with a reset looks at the modem status, until it is at AI.
StatusMatters == setting.reset_sw /\ io.at \notin {"AI", "OP", "NP", "open"}

\* prvZbLocalAtCB and prvZbDataCB keep the first of their frames and drop the others,
\* prvZbModemStatusCB keeps the last.
Seen(n) ==
  [answer |-> IF Frames("at", n) = {} THEN NoAnswer ELSE line[Min(Frames("at", n))],
   modem_status |-> IF ~StatusMatters THEN 0
                    ELSE IF Frames("modem", n) = {} THEN io.modem_status
                    ELSE line[Max(Frames("modem", n))].status,
   rxpkt |-> IF io.rxpkt # NoPan \/ ~TakesPackets(io.at) \/ Frames("data", n) = {} THEN io.rxpkt
             ELSE line[Min(Frames("data", n))].panid]

Consume(n) == line' = SubSeq(line, n + 1, Len(line))

Store(seen) == [io EXCEPT !.modem_status = seen.modem_status, !.rxpkt = seen.rxpkt]

-----------------------------------------------------------------------------
(* gxPLXBeeZbOpen                                                          *)

\* Firmware and address of the module are read; without a value any firmware will do.
Identify(s, answer) ==
  CASE s = "VR" -> IF answer.param /\ answer.firmware = "other" THEN "failed" ELSE "SH"
    [] s = "SH" -> "SL"
    [] s = "SL" -> "ID"

\* A reset when it was asked for.
ToReset == IF setting.reset_sw THEN "FR" ELSE "AI"

\* Mutant: the module stays where it is.
AfterReadStay(answer) == ToReset

\* The module already may be where it shall go; then nothing is written.  Nor is it
\* when the module did not say where it is.
Unread(answer) == io.at = "ID" /\ ~answer.param
AfterRead(answer) ==
  IF ~Unread(answer) /\ answer.panid # setting.panid THEN "setID" ELSE ToReset

\* The step that follows the step s when its answer was a good one; without a new
\* network its step is passed over.
Following(s, answer) ==
  CASE s \in {"VR", "SH"} -> Identify(s, answer)
    [] s = "SL" -> IF setting.new_panid THEN Identify(s, answer) ELSE ToReset
    [] s = "ID" -> AfterRead(answer)
    [] s = "setID" -> "WR"
    [] s = "WR" -> ToReset
    [] s = "FR" -> "reset"
    [] s = "AI" -> IF answer.param => answer.joined THEN "OP" ELSE "failed"
    [] s = "OP" -> "NP"
    [] s = "NP" -> "open"

Fail == io' = NoIo("failed") /\ line' = << >>

\* One of the commands has a value.
Request(s, fid) ==
  [step |-> s, fid |-> fid, panid |-> IF s = "setID" THEN setting.panid ELSE NoPan]

\* The next step, and its command (prvSendLocalAt); d is the driver's data.
GoOn(s, d) ==
  IF s \in Asking
    THEN /\ io' = [d EXCEPT !.at = s, !.fid = @ + 1]
         /\ todo' = IF Len(todo) < TodoLen
                      THEN Append(todo, Request(s, d.fid + 1))
                      ELSE todo
    ELSE io' = [d EXCEPT !.at = s] /\ UNCHANGED todo

\* The serial port is opened, or not.  The frame identifiers start over.
OpenPort ==
  \/ GoOn("VR", NoIo("VR")) /\ doubt' = (Len(todo) > Backlog)
  \/ io' = NoIo("failed") /\ UNCHANGED <<todo, doubt>>

\* prvSendLocalAt, with XBEE_PKT_STATUS_OK.
IsAnswer(answer, s) ==
  /\ answer.fid = io.fid /\ answer.ok
  /\ answer.cmd = IF s = "setID" THEN "ID" ELSE s

\* setting->xbee.coordinator, for an opening that will look at it.
Noted(d, answer) ==
  IF io.at = "VR" /\ setting.reset_sw /\ answer.param /\ answer.firmware = "coordinator"
    THEN [d EXCEPT !.coordinator = TRUE]
    ELSE d

\* The loop of prvSendLocalAt: one poll of it, that the answer ends.
PollAnswer ==
  /\ io.at \in Asking
  /\ \E n \in 1 .. Len(line) :
       LET seen == Seen(n)
           step == Following(io.at, seen.answer)
       IN  \/ /\ seen.answer = NoAnswer
              /\ io' = Store(seen) /\ Consume(n) /\ UNCHANGED <<todo, doubt>>
           \/ /\ seen.answer # NoAnswer
              /\ IF IsAnswer(seen.answer, io.at) /\ step # "failed"
                   THEN /\ GoOn(step, Noted(Store(seen), seen.answer)) /\ Consume(n)
                        /\ doubt' = (doubt \/ Unread(seen.answer))
                   ELSE Fail /\ UNCHANGED <<todo, doubt>>
  /\ UNCHANGED <<radio, setting>>

Wanted == IF io.at = "reset" THEN WatchdogReset ELSE Joined

\* prvWaitStatusModem looks at the status after each poll, not at each frame.
PollStatus ==
  /\ io.at \in Waiting
  /\ \E n \in 0 .. Len(line) :
       LET seen == Seen(n) IN
         /\ Consume(n)
         /\ IF seen.modem_status # Wanted
              THEN n # 0 /\ io' = Store(seen) /\ UNCHANGED todo
              ELSE GoOn(IF io.at = "reset" /\ ~io.coordinator THEN "join" ELSE "AI", Store(seen))
  /\ UNCHANGED <<radio, setting, doubt>>

\* Mutant: a status is waited for without end.
TimeoutOfAnswers ==
  /\ io.at \in Asking
  /\ Fail
  /\ UNCHANGED <<radio, todo, setting, doubt>>

\* No answer and no status in time, or the line is broken.
Timeout ==
  /\ io.at \in Asking \cup Waiting
  /\ io.at \in Waiting => io.modem_status # Wanted
  /\ Fail
  /\ UNCHANGED <<radio, todo, setting, doubt>>

OpenStep == PollAnswer \/ PollStatus \/ Timeout

-----------------------------------------------------------------------------
(* An open driver.                                                         *)

\* prvIoPoll: with a packet in the slot the line is not read.
IoPoll ==
  /\ io.at = "open" /\ io.rxpkt = NoPan
  /\ \E n \in 1 .. Len(line) : io' = Store(Seen(n)) /\ Consume(n)
  /\ UNCHANGED <<radio, todo, setting, doubt>>

\* gxPLXBeeZbRecv; gxPLAppPoll asks for all of the packet.
IoRecv ==
  /\ io.at = "open" /\ io.rxpkt # NoPan
  /\ io' = [io EXCEPT !.rxpkt = NoPan]
  /\ UNCHANGED <<radio, todo, line, setting, doubt>>

\* gxPLXBeeZbClose, or the end of the process: packets in the slot and on the line are gone.
ClosePort(s) == io' = NoIo(s) /\ line' = << >>
=============================================================================
