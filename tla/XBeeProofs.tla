----------------------------- MODULE XBeeProofs -----------------------------
(***************************************************************************)
(* Proofs about the driver of a radio module and the program that bridges  *)
(* to it, for any networks, modules, bounds and restarts: types first, and *)
(* then, for an opening without doubt, that a bridge that was given a      *)
(* network uses it, and that no packet of the former one comes out of the  *)
(* driver.                                                                 *)
(***************************************************************************)
EXTENDS XBeeBridge, SequenceLemmas

-----------------------------------------------------------------------------
(* Sequences and sets of positions in them *)

\* The rest of a sequence.
LEMMA RestShifts ==
  ASSUME NEW S, NEW s \in Seq(S), NEW n \in 0 .. Len(s)
  PROVE  /\ SubSeq(s, n + 1, Len(s)) \in Seq(S)
         /\ Len(SubSeq(s, n + 1, Len(s))) = Len(s) - n
         /\ \A i \in 1 .. Len(s) - n : SubSeq(s, n + 1, Len(s))[i] = s[n + i]
<1>1. Len(s) \in Nat /\ (\A i \in 1 .. Len(s) : s[i] \in S)
  BY LenProperties, ElementOfSeq
<1>2. \A i \in n + 1 .. Len(s) : s[i] \in S
  BY <1>1
<1>3. n + 1 \in Int /\ Len(s) \in Int
  BY <1>1
<1>4. /\ SubSeq(s, n + 1, Len(s)) \in Seq(S)
      /\ Len(SubSeq(s, n + 1, Len(s))) = IF n + 1 <= Len(s) THEN Len(s) - (n + 1) + 1 ELSE 0
      /\ \A i \in 1 .. Len(s) - (n + 1) + 1 : SubSeq(s, n + 1, Len(s))[i] = s[n + 1 + i - 1]
  BY <1>2, <1>3, SubSeqProperties
<1>5. Len(s) - (n + 1) + 1 = Len(s) - n /\ \A i \in 1 .. Len(s) - n : n + 1 + i - 1 = n + i
  BY <1>1
<1>6. Len(SubSeq(s, n + 1, Len(s))) = Len(s) - n
  <2>1. CASE n + 1 <= Len(s)
    BY <1>1, <1>4, <2>1
  <2>2. CASE ~(n + 1 <= Len(s))
    <3>1. n = Len(s) /\ Len(s) - n = 0
      BY <1>1, <2>2
    <3> QED  BY <1>4, <2>2, <3>1
  <2> QED  BY <2>1, <2>2
<1> QED  BY <1>4, <1>5, <1>6

\* The first element of a sequence, and the others.
LEMMA FirstAndRest ==
  ASSUME NEW S, NEW s \in Seq(S), s # << >>
  PROVE  /\ Len(s) \in Nat \ {0} /\ Head(s) = s[1] /\ s[1] \in S
         /\ Tail(s) \in Seq(S) /\ Len(Tail(s)) = Len(s) - 1
         /\ \A i \in 1 .. Len(s) - 1 : Tail(s)[i] = s[i + 1]
<1>1. Len(s) \in Nat \ {0}
  BY EmptySeq, LenProperties
<1>2. 1 \in 1 .. Len(s)
  BY <1>1
<1>3. s[1] \in S
  BY <1>2, ElementOfSeq
<1> QED  BY <1>1, <1>3, HeadTailProperties

\* A new first element.
LEMMA NewFirst ==
  ASSUME NEW S, NEW s \in Seq(S), s # << >>, NEW e \in S
  PROVE  /\ <<e>> \o Tail(s) \in Seq(S) /\ Len(<<e>> \o Tail(s)) = Len(s)
         /\ (<<e>> \o Tail(s))[1] = e
         /\ \A i \in 2 .. Len(s) : (<<e>> \o Tail(s))[i] = s[i]
<1>1. /\ Len(s) \in Nat \ {0} /\ Tail(s) \in Seq(S) /\ Len(Tail(s)) = Len(s) - 1
      /\ \A i \in 1 .. Len(s) - 1 : Tail(s)[i] = s[i + 1]
  BY FirstAndRest
<1>2. <<e>> \in Seq(S) /\ Len(<<e>>) = 1 /\ <<e>>[1] = e
  OBVIOUS
<1>3. /\ <<e>> \o Tail(s) \in Seq(S)
      /\ Len(<<e>> \o Tail(s)) = 1 + Len(Tail(s))
      /\ \A i \in 1 .. 1 + Len(Tail(s)) :
           (<<e>> \o Tail(s))[i] = IF i <= 1 THEN <<e>>[i] ELSE Tail(s)[i - 1]
  BY <1>1, <1>2, ConcatProperties
<1>4. 1 + Len(Tail(s)) = Len(s)
  BY <1>1
<1>5. (<<e>> \o Tail(s))[1] = e
  <2>1. 1 \in 1 .. 1 + Len(Tail(s))
    BY <1>1
  <2> QED  BY <1>2, <1>3, <2>1
<1>6. \A i \in 2 .. Len(s) : (<<e>> \o Tail(s))[i] = s[i]
  <2> SUFFICES ASSUME NEW i \in 2 .. Len(s)
               PROVE  (<<e>> \o Tail(s))[i] = s[i]
    OBVIOUS
  <2>1. /\ i \in 1 .. 1 + Len(Tail(s)) /\ ~(i <= 1)
        /\ i - 1 \in 1 .. Len(s) - 1 /\ (i - 1) + 1 = i
    BY <1>1
  <2> QED  BY <1>1, <1>3, <2>1
<1> QED  BY <1>3, <1>4, <1>5, <1>6

\* Positions are finitely many.
LEMMA CountType ==
  ASSUME NEW n \in Nat, NEW I \in SUBSET (1 .. n)
  PROVE  /\ IsFiniteSet(I) /\ Cardinality(I) \in Nat
         /\ \A i \in I : Cardinality(I) >= 1
         /\ \A i, j \in I : i # j => Cardinality(I) >= 2
<1>1. IsFiniteSet(I)
  <2>1. I \in SUBSET Nat /\ \A i \in I : i <= n
    OBVIOUS
  <2> QED  BY <2>1, FS_BoundedSetOfNaturals
<1>2. Cardinality(I) \in Nat
  BY <1>1, FS_CardinalityType
<1>3. ASSUME NEW i \in I
      PROVE  /\ IsFiniteSet(I \ {i}) /\ Cardinality(I \ {i}) = Cardinality(I) - 1
             /\ Cardinality(I \ {i}) \in Nat
  BY <1>1, FS_RemoveElement, FS_CardinalityType
<1>4. ASSUME NEW i \in I
      PROVE  Cardinality(I) >= 1
  <2>1. Cardinality(I \ {i}) = Cardinality(I) - 1 /\ Cardinality(I \ {i}) \in Nat
    BY <1>3
  <2> QED  BY <1>2, <2>1
<1>5. ASSUME NEW i \in I, NEW j \in I, i # j
      PROVE  Cardinality(I) >= 2
  <2>1. /\ IsFiniteSet(I \ {i}) /\ Cardinality(I \ {i}) = Cardinality(I) - 1
    BY <1>3
  <2>2. Cardinality((I \ {i}) \ {j}) = Cardinality(I \ {i}) - 1
        /\ Cardinality((I \ {i}) \ {j}) \in Nat
    BY <1>5, <2>1, FS_RemoveElement, FS_CardinalityType
  <2> QED  BY <1>2, <2>1, <2>2
<1> QED  BY <1>1, <1>2, <1>4, <1>5

\* More positions, and one more.
LEMMA CountMore ==
  ASSUME NEW n \in Nat, NEW I \in SUBSET (1 .. n), NEW J \in SUBSET I, NEW i
  PROVE  /\ Cardinality(J) <= Cardinality(I)
         /\ i \notin I => Cardinality(I \cup {i}) = Cardinality(I) + 1
<1>1. IsFiniteSet(I)
  BY CountType
<1> QED  BY <1>1, FS_Subset, FS_AddElement

\* Positions in a sequence and in the rest of it.
LEMMA CountRest ==
  ASSUME NEW m \in Nat, NEW I \in SUBSET (1 .. m), NEW p \in Nat, NEW J \in SUBSET (1 .. p),
         NEW n \in Nat, \A j \in J : n + j \in I
  PROVE  /\ Cardinality(J) <= Cardinality(I)
         /\ \A i \in I : i <= n => Cardinality(J) + 1 <= Cardinality(I)
<1> DEFINE f == [j \in J |-> n + j]
<1>1. IsFiniteSet(I) /\ IsFiniteSet(J) /\ Cardinality(I) \in Nat /\ Cardinality(J) \in Nat
  BY CountType
<1>2. ASSUME NEW K \in SUBSET I, \A j \in J : n + j \in K
      PROVE  Cardinality(J) <= Cardinality(K)
  <2>1. \A x, y \in J : f[x] = f[y] => x = y
    <3>1. \A x, y \in J : n + x = n + y => x = y
      OBVIOUS
    <3> QED  BY <3>1
  <2>2. f \in [J -> K]
    BY <1>2
  <2>3. f \in Injection(J, K)
    BY <2>1, <2>2 DEF Injection, IsInjective
  <2>4. IsFiniteSet(K)
    BY <1>1, FS_Subset
  <2> HIDE DEF f
  <2> QED  BY <2>3, <2>4, FS_Injection
<1>3. ASSUME NEW i \in I, i <= n
      PROVE  Cardinality(J) + 1 <= Cardinality(I)
  <2>1. \A j \in J : n + j \in I \ {i}
    BY <1>3
  <2>2. Cardinality(J) <= Cardinality(I \ {i})
    BY <1>2, <2>1
  <2>3. Cardinality(I \ {i}) = Cardinality(I) - 1
    BY <1>1, FS_RemoveElement
  <2> QED  BY <1>1, <2>2, <2>3
<1> QED  BY <1>2, <1>3

\* A set of positions that is not empty has a last one.
LEMMA MaxIsGreatest ==
  ASSUME NEW n \in Nat, NEW I \in SUBSET (1 .. n), I # {}
  PROVE  Max(I) \in I
<1> DEFINE below == {n - i : i \in I}
<1>1. below \in SUBSET Nat /\ below # {}
  <2>1. \A i \in I : n - i \in Nat
    OBVIOUS
  <2>2. PICK i \in I : TRUE
    OBVIOUS
  <2>3. n - i \in below
    OBVIOUS
  <2> QED  BY <2>1, <2>3
<1>2. PICK m \in below : \A k \in below : m <= k
  BY <1>1, LeastElement
<1>3. PICK i \in I : m = n - i
  OBVIOUS
<1>4. \A j \in I : j <= i
  <2> SUFFICES ASSUME NEW j \in I
               PROVE  j <= i
    OBVIOUS
  <2>1. m <= n - j
    BY <1>2
  <2> QED  BY <1>3, <2>1
<1>5. \E x \in I : \A y \in I : x >= y
  BY <1>4
<1> QED  BY <1>5 DEF Max

-----------------------------------------------------------------------------
(* What is invariant of programs, driver, module and line                  *)

AnswerFrame ==
  [type : {"at"}, cmd : Asking, fid : Nat, ok : BOOLEAN,
   param : BOOLEAN, firmware : Firmware, panid : Pan \cup {NoPan}, joined : BOOLEAN]
StatusFrame == [type : {"modem"}, status : 0 .. 6]
PacketFrame == [type : {"data"}, panid : Pan]
Frame == AnswerFrame \cup StatusFrame \cup PacketFrame

Steps == Asking \cup Waiting \cup Closed \cup {"open"}

DriverData ==
  [at : Steps, fid : Nat, modem_status : 0 .. 6, rxpkt : Pan \cup {NoPan},
   coordinator : BOOLEAN]

ModuleSound ==
  /\ radio \in [firmware : Firmware, panid : Pan, stored : Pan, joined : BOOLEAN]
  /\ todo \in Seq(Command) /\ Len(todo) <= TodoLen
  /\ line \in Seq(Frame) /\ Len(line) <= LineLen
  /\ doubt \in BOOLEAN

DriverSound ==
  /\ io \in DriverData
  /\ setting \in Setting /\ (setting.new_panid => ~setting.reset_sw)

\* The identifiers of the commands of an opening: it takes the same way each time,
\* and which way depends on the setting alone.
NumbersOf(given, s) ==
  CASE s = "VR" -> {1}
    [] s = "SH" -> {2}
    [] s = "SL" -> {3}
    [] s = "ID" -> IF given.new_panid THEN {4} ELSE {}
    [] s = "setID" -> IF given.new_panid THEN {5} ELSE {}
    [] s = "WR" -> IF given.new_panid THEN {6} ELSE {}
    [] s \in {"FR", "restart", "reset", "join"} -> IF given.reset_sw THEN {4} ELSE {}
    [] s = "AI" -> IF given.new_panid THEN {5, 7} ELSE IF given.reset_sw THEN {5} ELSE {4}
    [] s = "OP" -> IF given.new_panid THEN {6, 8} ELSE IF given.reset_sw THEN {6} ELSE {5}
    [] s \in {"NP", "open"} ->
         IF given.new_panid THEN {7, 9} ELSE IF given.reset_sw THEN {7} ELSE {6}
    [] OTHER -> {0}

\* The numbers a command carries, whoever has sent it, that one has a network, and where
\* a restart may wait.
TodoOK ==
  /\ \A i \in 2 .. Len(todo) : todo[i].step # "restart"
  /\ \A i \in 1 .. Len(todo) :
       /\ todo[i].step = "setID" => todo[i].fid = 5 /\ todo[i].panid \in Pan
       /\ todo[i].step \in {"FR", "restart"} => todo[i].fid = 4

DriverOK ==
  /\ ~PortOpen => line = << >> /\ io.rxpkt = NoPan
  /\ io.fid \in NumbersOf(setting, io.at)
  /\ io.rxpkt # NoPan => TakesPackets(io.at)

LowInv == ModuleSound /\ DriverSound /\ TodoOK /\ DriverOK

SupervisorData ==
  [at : {Idle, "check", "assign", "failing", "wait", "last", "application"},
   count : 0 .. MAX_RESTARTS, setting : Setting]

ProgramOK ==
  /\ sup \in SupervisorData /\ ~sup.setting.reset_sw
  /\ proc \in {"none", "opening", "polling", "reopening", "hung", "dead"}
  /\ conf \in Value /\ file \in Value \cup {NoFile}
  /\ sup.at \in {Idle, "check", "failing"} => proc = "none"
  /\ proc \in {"none", "hung", "dead"} => io.at = "closed" /\ ~setting.reset_sw
  /\ proc = "polling" => io.at = "open"
  /\ sup.at = "application" => ~setting.new_panid
  /\ sup.at # "application" => ~setting.reset_sw
  /\ proc \in {"polling", "reopening"} /\ setting.new_panid /\ conf \in Pan
       => conf = setting.panid

TypeInv == LowInv /\ ProgramOK

-----------------------------------------------------------------------------
(* The steps of the module and of the driver keep LowInv                   *)

\* What a frame is made of.
LEMMA FrameFields ==
  ASSUME NEW f \in Frame
  PROVE  /\ f.type \in {"at", "modem", "data"}
         /\ f.type = "at" => /\ f \in AnswerFrame /\ f.cmd \in Asking /\ f.fid \in Nat
                             /\ f.ok \in BOOLEAN /\ f.param \in BOOLEAN
         /\ f.type = "modem" => f.status \in 0 .. 6
         /\ f.type = "data" => f.panid \in Pan
<1>1. CASE f \in AnswerFrame
  BY <1>1 DEF AnswerFrame
<1>2. CASE f \in StatusFrame
  BY <1>2 DEF StatusFrame
<1>3. CASE f \in PacketFrame
  BY <1>3 DEF PacketFrame
<1> QED  BY <1>1, <1>2, <1>3 DEF Frame

\* The frames that the module makes.
LEMMA MadeAnswers ==
  ASSUME NEW c \in Command, c.step # "restart", NEW ok \in BOOLEAN, NEW param \in Params(c, ok),
         NEW r \in [firmware : Firmware, panid : Pan, stored : Pan, joined : BOOLEAN]
  PROVE  LET a == Answer(c, ok, param, r) IN
         /\ a \in Frame /\ a.type = "at" /\ a.fid = c.fid /\ a.ok = ok
         /\ a.cmd = (IF c.step = "setID" THEN "ID" ELSE c.step)
         /\ a.cmd = "ID" /\ a.param => a.panid = r.panid
<1> DEFINE cmd == IF c.step = "setID" THEN "ID" ELSE c.step
           p == IF c.step = "ID" /\ param THEN r.panid ELSE NoPan
           j == c.step = "AI" /\ param /\ r.joined
           a == Answer(c, ok, param, r)
<1>1. c.fid \in Nat /\ cmd \in Asking
  BY DEF Command, Asking
<1>2. param \in BOOLEAN /\ (param => c.step \in {"VR", "ID", "AI"})
  BY DEF Params
<1>3. p \in Pan \cup {NoPan} /\ r.firmware \in Firmware /\ j \in BOOLEAN
  OBVIOUS
<1>4. cmd = "ID" /\ param => p = r.panid
  BY <1>2
<1>5. a = [type |-> "at", cmd |-> cmd, fid |-> c.fid, ok |-> ok, param |-> param,
           firmware |-> r.firmware, panid |-> p, joined |-> j]
  BY DEF Answer
<1>6. cmd = IF c.step = "setID" THEN "ID" ELSE c.step
  OBVIOUS
<1> HIDE DEF cmd, p, j, a
<1>7. /\ a \in AnswerFrame /\ a.type = "at" /\ a.fid = c.fid /\ a.ok = ok /\ a.cmd = cmd
      /\ a.param = param /\ a.panid = p
  BY <1>1, <1>2, <1>3, <1>5 DEF AnswerFrame
<1>8. /\ a \in Frame /\ a.type = "at" /\ a.fid = c.fid /\ a.ok = ok
      /\ a.cmd = (IF c.step = "setID" THEN "ID" ELSE c.step)
      /\ a.cmd = "ID" /\ a.param => a.panid = r.panid
  BY <1>4, <1>6, <1>7 DEF Frame
<1> QED  BY <1>8 DEF a

LEMMA MadeFrames ==
  /\ \A s \in 0 .. 6 : Status(s) \in Frame /\ Status(s).type = "modem"
  /\ \A p \in Pan : Packet(p) \in Frame /\ Packet(p).type = "data" /\ Packet(p).panid = p
<1>1. \A s \in 0 .. 6 : Status(s) \in Frame /\ Status(s).type = "modem"
  BY DEF Status, StatusFrame, Frame
<1>2. \A p \in Pan : Packet(p) \in Frame /\ Packet(p).type = "data" /\ Packet(p).panid = p
  BY DEF Packet, PacketFrame, Frame
<1> QED  BY <1>1, <1>2

\* What a command is made of, and the step it becomes by a restart.
LEMMA CommandFields ==
  ASSUME NEW c \in Command
  PROVE  /\ c.step \in Asking \cup {"restart"} /\ c.fid \in Nat /\ c.panid \in Pan \cup {NoPan}
         /\ [c EXCEPT !.step = "restart"] \in Command
         /\ [c EXCEPT !.step = "restart"].step = "restart"
         /\ [c EXCEPT !.step = "restart"].fid = c.fid
         /\ [c EXCEPT !.step = "restart"].panid = c.panid
BY DEF Command

\* The commands that the driver makes.
LEMMA Requests ==
  ASSUME DriverSound, NEW s \in Asking, NEW fid \in Nat
  PROVE  /\ Request(s, fid) \in Command /\ Request(s, fid).step = s
         /\ Request(s, fid).fid = fid
         /\ s = "setID" => Request(s, fid).panid = setting.panid
<1> DEFINE p == IF s = "setID" THEN setting.panid ELSE NoPan
<1>1. setting.panid \in Pan
  BY DEF DriverSound, Setting
<1>2. p \in Pan \cup {NoPan} /\ (s = "setID" => p = setting.panid)
  BY <1>1
<1>3. Request(s, fid) = [step |-> s, fid |-> fid, panid |-> p]
  BY DEF Request
<1> HIDE DEF p
<1> QED  BY <1>2, <1>3 DEF Command

\* What several frames at once leave in the driver.
LEMMA SeenFrames ==
  ASSUME ModuleSound, DriverSound, NEW n \in 0 .. Len(line)
  PROVE  /\ \/ Seen(n).answer = NoAnswer
            \/ \E i \in 1 .. n : line[i].type = "at" /\ Seen(n).answer = line[i]
         /\ Seen(n).modem_status \in 0 .. 6
         /\ \/ Seen(n).rxpkt = io.rxpkt
            \/ /\ TakesPackets(io.at)
               /\ \E i \in 1 .. n : line[i].type = "data" /\ Seen(n).rxpkt = line[i].panid
<1>1. /\ Len(line) \in Nat /\ n \in Nat
      /\ \A i \in 1 .. n : i \in 1 .. Len(line) /\ line[i] \in Frame
  BY LenProperties, ElementOfSeq DEF ModuleSound
<1>2. io.modem_status \in 0 .. 6
  BY DEF DriverSound, DriverData
<1>3. ASSUME NEW type
      PROVE  /\ Frames(type, n) \in SUBSET (1 .. n) /\ Frames(type, n) \in SUBSET Nat
             /\ \A i \in Frames(type, n) : line[i].type = type
  BY <1>1 DEF Frames
<1>4. ASSUME Frames("at", n) # {}
      PROVE  \E i \in 1 .. n : line[i].type = "at" /\ Seen(n).answer = line[i]
  <2>1. Min(Frames("at", n)) \in Frames("at", n)
    BY <1>3, <1>4, MinIsLeast
  <2> QED  BY <1>3, <1>4, <2>1 DEF Seen
<1>5. Seen(n).modem_status \in 0 .. 6
  <2>1. CASE Frames("modem", n) = {} \/ ~StatusMatters
    BY <1>2, <2>1 DEF Seen
  <2>2. CASE Frames("modem", n) # {} /\ StatusMatters
    <3>1. Max(Frames("modem", n)) \in Frames("modem", n)
      BY <1>1, <1>3, <2>2, MaxIsGreatest
    <3>2. Seen(n).modem_status = line[Max(Frames("modem", n))].status
      BY <2>2 DEF Seen
    <3> QED  BY <1>1, <1>3, <3>1, <3>2, FrameFields
  <2> QED  BY <2>1, <2>2
<1>6. ASSUME TakesPackets(io.at), Frames("data", n) # {}
       PROVE  \E i \in 1 .. n : /\ line[i].type = "data"
                               /\ line[Min(Frames("data", n))].panid = line[i].panid
  <2>1. Min(Frames("data", n)) \in Frames("data", n)
    BY <1>3, <1>6, MinIsLeast
  <2> QED  BY <1>3, <2>1
<1> QED  BY <1>4, <1>5, <1>6 DEF Seen

\* The numbers, step by step.
LEMMA Numbers ==
  /\ NumbersOf(setting, "VR") = {1} /\ NumbersOf(setting, "SH") = {2}
  /\ NumbersOf(setting, "SL") = {3}
  /\ NumbersOf(setting, "ID") = IF setting.new_panid THEN {4} ELSE {}
  /\ NumbersOf(setting, "setID") = IF setting.new_panid THEN {5} ELSE {}
  /\ NumbersOf(setting, "WR") = IF setting.new_panid THEN {6} ELSE {}
  /\ \A s \in {"FR", "restart", "reset", "join"} :
       NumbersOf(setting, s) = IF setting.reset_sw THEN {4} ELSE {}
  /\ NumbersOf(setting, "AI") = IF setting.new_panid THEN {5, 7}
                                ELSE IF setting.reset_sw THEN {5} ELSE {4}
  /\ NumbersOf(setting, "OP") = IF setting.new_panid THEN {6, 8}
                                ELSE IF setting.reset_sw THEN {6} ELSE {5}
  /\ \A s \in {"NP", "open"} :
       NumbersOf(setting, s) = IF setting.new_panid THEN {7, 9}
                               ELSE IF setting.reset_sw THEN {7} ELSE {6}
  /\ \A s \in Closed : NumbersOf(setting, s) = {0}
<1>1. /\ NumbersOf(setting, "VR") = {1} /\ NumbersOf(setting, "SH") = {2}
      /\ NumbersOf(setting, "SL") = {3}
  BY DEF NumbersOf
<1>2. /\ NumbersOf(setting, "ID") = IF setting.new_panid THEN {4} ELSE {}
      /\ NumbersOf(setting, "setID") = IF setting.new_panid THEN {5} ELSE {}
      /\ NumbersOf(setting, "WR") = IF setting.new_panid THEN {6} ELSE {}
  BY DEF NumbersOf
<1>3. \A s \in {"FR", "restart", "reset", "join"} :
        NumbersOf(setting, s) = IF setting.reset_sw THEN {4} ELSE {}
  BY DEF NumbersOf
<1>4. /\ NumbersOf(setting, "AI") = IF setting.new_panid THEN {5, 7}
                                    ELSE IF setting.reset_sw THEN {5} ELSE {4}
      /\ NumbersOf(setting, "OP") = IF setting.new_panid THEN {6, 8}
                                    ELSE IF setting.reset_sw THEN {6} ELSE {5}
  BY DEF NumbersOf
<1>5. \A s \in {"NP", "open"} :
        NumbersOf(setting, s) = IF setting.new_panid THEN {7, 9}
                                ELSE IF setting.reset_sw THEN {7} ELSE {6}
  BY DEF NumbersOf
<1>6. \A s \in Closed : NumbersOf(setting, s) = {0}
  BY DEF NumbersOf, Closed
<1> QED  BY <1>1, <1>2, <1>3, <1>4, <1>5, <1>6

\* The step after a good answer, step by step.
LEMMA Follows ==
  ASSUME NEW answer
  PROVE  /\ Following("VR", answer) \in {"SH", "failed"} /\ Following("SH", answer) = "SL"
         /\ Following("SL", answer) = IF setting.new_panid THEN "ID" ELSE ToReset
         /\ Following("ID", answer) = AfterRead(answer)
         /\ Following("setID", answer) = "WR" /\ Following("WR", answer) = ToReset
         /\ Following("FR", answer) = "reset"
         /\ Following("AI", answer) \in {"OP", "failed"}
         /\ Following("OP", answer) = "NP" /\ Following("NP", answer) = "open"
<1>1. Following("VR", answer) \in {"SH", "failed"} /\ Following("SH", answer) = "SL"
  BY DEF Following, Identify
<1>2. Following("SL", answer) = IF setting.new_panid THEN "ID" ELSE ToReset
  BY DEF Following, Identify
<1>3. Following("ID", answer) = AfterRead(answer)
  BY DEF Following
<1>4. Following("setID", answer) = "WR" /\ Following("WR", answer) = ToReset
  BY DEF Following
<1>5. Following("FR", answer) = "reset" /\ Following("AI", answer) \in {"OP", "failed"}
  BY DEF Following
<1>6. Following("OP", answer) = "NP" /\ Following("NP", answer) = "open"
  BY DEF Following
<1> QED  BY <1>1, <1>2, <1>3, <1>4, <1>5, <1>6

\* The step after a good answer, and the number of its command.
LEMMA NextStep ==
  ASSUME DriverSound, DriverOK, io.at \in Asking, NEW answer, NEW s, s = Following(io.at, answer)
  PROVE  \/ s = "failed"
         \/ s \in Asking \ {"VR"} /\ io.fid + 1 \in NumbersOf(setting, s)
         \/ s \in {"reset", "open"} /\ io.fid \in NumbersOf(setting, s)
<1> DEFINE new == setting.new_panid
           reset == setting.reset_sw
           at == io.at
           fid == io.fid
<1>1. fid \in NumbersOf(setting, at) /\ at \in Asking /\ s = Following(at, answer)
  BY DEF DriverOK
<1>2. new \in BOOLEAN /\ reset \in BOOLEAN /\ (new => ~reset)
  BY DEF DriverSound, Setting
<1>3. ToReset = (IF reset THEN "FR" ELSE "AI")
  BY DEF ToReset
<1>4. AfterRead(answer) \in {"setID", ToReset}
  BY DEF AfterRead
<1>5. io.fid + 1 = fid + 1 /\ io.fid = fid
  OBVIOUS
<1> HIDE DEF new, reset, at, fid
<1>6. CASE at = "VR"
  BY <1>1, <1>5, <1>6, Numbers, Follows DEF Asking
<1>7. CASE at = "SH"
  BY <1>1, <1>5, <1>7, Numbers, Follows DEF Asking
<1>8. CASE at = "SL"
  BY <1>1, <1>2, <1>3, <1>5, <1>8, Numbers, Follows DEF Asking, new, reset
<1>9. CASE at = "ID"
  BY <1>1, <1>2, <1>3, <1>4, <1>5, <1>9, Numbers, Follows DEF Asking, new, reset
<1>10. CASE at = "setID"
  BY <1>1, <1>2, <1>5, <1>10, Numbers, Follows DEF Asking, new, reset
<1>11. CASE at = "WR"
  BY <1>1, <1>2, <1>3, <1>5, <1>11, Numbers, Follows DEF Asking, new, reset
<1>12. CASE at = "FR"
  BY <1>1, <1>2, <1>5, <1>12, Numbers, Follows DEF Asking, new, reset
<1>13. CASE at = "AI"
  BY <1>1, <1>2, <1>5, <1>13, Numbers, Follows DEF Asking, new, reset
<1>14. CASE at = "OP"
  BY <1>1, <1>2, <1>5, <1>14, Numbers, Follows DEF Asking, new, reset
<1>15. CASE at = "NP"
  BY <1>1, <1>2, <1>5, <1>15, Numbers, Follows DEF Asking, new, reset
<1> QED  BY <1>1, <1>6, <1>7, <1>8, <1>9, <1>10, <1>11, <1>12, <1>13, <1>14, <1>15 DEF Asking

\* A frame on the line.
LEMMA LineGrows ==
  ASSUME LowInv, NEW f \in Frame, Room, Emit(f) \/ line' = line
  PROVE  /\ line' \in Seq(Frame) /\ Len(line') <= LineLen
         /\ line' = line \/ (PortOpen /\ line' = Append(line, f))
<1>1. line \in Seq(Frame) /\ Len(line) \in Nat /\ LineLen \in Nat /\ Len(line) <= LineLen
  BY LenProperties, XBeeIoAssumption DEF LowInv, ModuleSound
<1>2. Append(line, f) \in Seq(Frame) /\ Len(Append(line, f)) = Len(line) + 1
  BY <1>1, AppendType
<1>3. line' = line \/ (PortOpen /\ line' = Append(line, f))
  BY DEF Emit
<1>4. Len(line) + 1 <= LineLen
  BY <1>1 DEF Room
<1> QED  BY <1>1, <1>2, <1>3, <1>4

\* The driver does not notice what the module does.
LEMMA DriverSame ==
  ASSUME DriverSound, DriverOK, io' = io, setting' = setting, line' = line \/ PortOpen
  PROVE  DriverSound' /\ DriverOK'
<1>1. NumbersOf(setting, io.at)' = NumbersOf(setting, io.at)
  BY DEF NumbersOf
<1>2. DriverSound'
  BY DEF DriverSound
<1>3. PortOpen' = PortOpen
  BY DEF PortOpen
<1>4. DriverOK'
  BY <1>1, <1>3 DEF DriverOK
<1> QED  BY <1>2, <1>4

\* The first command is done.
LEMMA TodoTail ==
  ASSUME ModuleSound, TodoOK, todo # << >>, todo' = Tail(todo)
  PROVE  /\ todo' \in Seq(Command) /\ Len(todo') <= TodoLen /\ TodoOK'
         /\ Len(todo') = Len(todo) - 1
         /\ \A i \in 1 .. Len(todo') : i + 1 \in 2 .. Len(todo) /\ todo'[i] = todo[i + 1]
<1>1. /\ Len(todo) \in Nat \ {0} /\ Tail(todo) \in Seq(Command)
      /\ Len(Tail(todo)) = Len(todo) - 1
      /\ \A i \in 1 .. Len(todo) - 1 : Tail(todo)[i] = todo[i + 1]
  BY FirstAndRest DEF ModuleSound
<1>2. TodoLen \in Nat /\ Len(todo) <= TodoLen
  BY XBeeIoAssumption DEF ModuleSound
<1>3. \A i \in 1 .. Len(todo') : i + 1 \in 2 .. Len(todo) /\ todo'[i] = todo[i + 1]
  BY <1>1
<1>4. \A i \in 1 .. Len(todo') : todo'[i].step # "restart"
  BY <1>3 DEF TodoOK
<1>5. \A i \in 1 .. Len(todo') : i + 1 \in 1 .. Len(todo)
  BY <1>1
<1>6. TodoOK'
  BY <1>1, <1>3, <1>4, <1>5 DEF TodoOK
<1> QED  BY <1>1, <1>2, <1>3, <1>6

\* The first command has become a restart.
LEMMA TodoRestart ==
  ASSUME ModuleSound, TodoOK, todo # << >>, NEW c, c = Head(todo), c.step = "FR",
         todo' = <<[c EXCEPT !.step = "restart"]>> \o Tail(todo)
  PROVE  /\ todo' \in Seq(Command) /\ Len(todo') <= TodoLen /\ TodoOK'
         /\ Len(todo') = Len(todo)
         /\ todo'[1].step = "restart" /\ todo'[1].fid = c.fid /\ todo'[1].panid = c.panid
         /\ \A i \in 2 .. Len(todo') : todo'[i] = todo[i]
<1>1. Len(todo) \in Nat \ {0} /\ c = todo[1] /\ c \in Command
  BY FirstAndRest DEF ModuleSound
<1> DEFINE r == [c EXCEPT !.step = "restart"]
<1>2. r \in Command /\ r.step = "restart" /\ r.fid = c.fid /\ r.panid = c.panid
  BY <1>1, CommandFields
<1> HIDE DEF r
<1>3. /\ <<r>> \o Tail(todo) \in Seq(Command) /\ Len(<<r>> \o Tail(todo)) = Len(todo)
      /\ (<<r>> \o Tail(todo))[1] = r
      /\ \A i \in 2 .. Len(todo) : (<<r>> \o Tail(todo))[i] = todo[i]
  BY <1>2, NewFirst DEF ModuleSound
<1>4. todo' = <<r>> \o Tail(todo)
  BY DEF r
<1>5. c.fid = 4
  BY <1>1 DEF TodoOK
<1>6. TodoOK'
  <2>1. \A i \in 2 .. Len(todo') : todo'[i].step # "restart"
    BY <1>3, <1>4 DEF TodoOK
  <2>2. ASSUME NEW i \in 1 .. Len(todo')
        PROVE  /\ todo'[i].step = "setID" => todo'[i].fid = 5 /\ todo'[i].panid \in Pan
               /\ todo'[i].step \in {"FR", "restart"} => todo'[i].fid = 4
    <3>1. CASE i = 1
      BY <1>2, <1>3, <1>4, <1>5, <3>1
    <3>2. CASE i # 1
      <4>1. i \in 2 .. Len(todo)
        BY <1>1, <1>3, <1>4, <3>2
      <4> QED  BY <1>3, <1>4, <4>1 DEF TodoOK
    <3> QED  BY <3>1, <3>2
  <2> QED  BY <2>1, <2>2 DEF TodoOK
<1> QED  BY <1>2, <1>3, <1>4, <1>6 DEF ModuleSound

\* Execute, in parts.
LEMMA Executes ==
  ASSUME LowInv, Execute
  PROVE  \E c \in Command, done \in BOOLEAN, a \in Frame :
           /\ todo # << >> /\ c = Head(todo) /\ c = todo[1] /\ c.step \in Asking
           /\ c.step = "setID" => c.panid \in Pan
           /\ radio' = (IF done THEN Executed(c) ELSE radio)
           /\ \/ done /\ c.step = "FR" /\ todo' = <<[c EXCEPT !.step = "restart"]>> \o Tail(todo)
              \/ ~(done /\ c.step = "FR") /\ todo' = Tail(todo)
           /\ line' = line \/ (PortOpen /\ line' = Append(line, a))
           /\ a.type = "at" /\ a.fid = c.fid /\ a.ok = done
           /\ a.cmd = "ID" /\ a.param => a.panid = radio.panid
           /\ a.cmd = (IF c.step = "setID" THEN "ID" ELSE c.step)
           /\ line' \in Seq(Frame) /\ Len(line') <= LineLen
<1> DEFINE c == Head(todo)
<1>1. todo # << >> /\ c.step # "restart" /\ Room
  BY DEF Execute
<1>2. c = todo[1] /\ c \in Command /\ (c.step = "setID" => c.panid \in Pan)
  <2>1. c = todo[1] /\ c \in Command /\ Len(todo) \in Nat \ {0}
    BY <1>1, FirstAndRest DEF LowInv, ModuleSound
  <2> QED  BY <2>1 DEF LowInv, TodoOK
<1>3. c.step \in Asking
  BY <1>1, <1>2, CommandFields
<1>4. PICK done \in BOOLEAN, heard \in BOOLEAN : \E param \in Params(c, done) :
        /\ radio' = IF done THEN Executed(c) ELSE radio
        /\ todo' = IF done /\ c.step = "FR" THEN <<[c EXCEPT !.step = "restart"]>> \o Tail(todo)
                                            ELSE Tail(todo)
        /\ IF heard THEN Emit(Answer(c, done, param, radio)) ELSE UNCHANGED line
  BY DEF Execute
<1>9. PICK param \in Params(c, done) :
        /\ radio' = IF done THEN Executed(c) ELSE radio
        /\ todo' = IF done /\ c.step = "FR" THEN <<[c EXCEPT !.step = "restart"]>> \o Tail(todo)
                                            ELSE Tail(todo)
        /\ IF heard THEN Emit(Answer(c, done, param, radio)) ELSE UNCHANGED line
  BY <1>4
<1> HIDE DEF c
<1> DEFINE a == Answer(c, done, param, radio)
<1>5. /\ a \in Frame /\ a.type = "at" /\ a.fid = c.fid /\ a.ok = done
      /\ a.cmd = "ID" /\ a.param => a.panid = radio.panid
      /\ a.cmd = (IF c.step = "setID" THEN "ID" ELSE c.step)
  BY <1>1, <1>2, MadeAnswers DEF LowInv, ModuleSound
<1>6. Emit(a) \/ line' = line
  BY <1>9
<1> HIDE DEF a
<1>7. /\ line' \in Seq(Frame) /\ Len(line') <= LineLen
      /\ line' = line \/ (PortOpen /\ line' = Append(line, a))
  BY <1>1, <1>5, <1>6, LineGrows
<1>8. \/ done /\ c.step = "FR" /\ todo' = <<[c EXCEPT !.step = "restart"]>> \o Tail(todo)
      \/ ~(done /\ c.step = "FR") /\ todo' = Tail(todo)
  BY <1>4
<1> QED  BY <1>1, <1>2, <1>3, <1>4, <1>5, <1>7, <1>8 DEF c

\* What the commands do to the network of the module.
LEMMA Moves ==
  ASSUME ModuleSound, NEW c \in Command, c.step = "setID" => c.panid \in Pan
  PROVE  /\ Executed(c) \in [firmware : Firmware, panid : Pan, stored : Pan, joined : BOOLEAN]
         /\ Executed(c).panid = (IF c.step = "setID" THEN c.panid ELSE radio.panid)
         /\ Restarted \in [firmware : Firmware, panid : Pan, stored : Pan, joined : BOOLEAN]
<1>1. radio \in [firmware : Firmware, panid : Pan, stored : Pan, joined : BOOLEAN]
  BY DEF ModuleSound
<1>0. Restarted \in [firmware : Firmware, panid : Pan, stored : Pan, joined : BOOLEAN]
  BY <1>1 DEF Restarted
<1>3. CASE c.step = "setID"
  <2> DEFINE j == radio.joined /\ radio.panid = c.panid
             p == c.panid
  <2>1. Executed(c) = [radio EXCEPT !.panid = p, !.joined = j]
    BY <1>3 DEF Executed
  <2>2. p \in Pan /\ j \in BOOLEAN /\ p = c.panid
    BY <1>3
  <2> HIDE DEF j, p
  <2> QED  BY <1>0, <1>1, <1>3, <2>1, <2>2
<1>4. CASE c.step = "WR"
  <2>1. Executed(c) = [radio EXCEPT !.stored = radio.panid]
    BY <1>4 DEF Executed
  <2> QED  BY <1>0, <1>1, <1>4, <2>1
<1>5. CASE c.step \notin {"setID", "WR"}
  <2>1. Executed(c) = radio
    BY <1>5 DEF Executed
  <2> QED  BY <1>0, <1>1, <1>5, <2>1
<1> QED  BY <1>3, <1>4, <1>5

LEMMA ExecuteLow ==
  ASSUME LowInv, Execute
  PROVE  LowInv'
<1>1. PICK c \in Command, done \in BOOLEAN, a \in Frame :
        /\ todo # << >> /\ c = Head(todo) /\ (c.step = "setID" => c.panid \in Pan)
        /\ radio' = (IF done THEN Executed(c) ELSE radio)
        /\ \/ c.step = "FR" /\ todo' = <<[c EXCEPT !.step = "restart"]>> \o Tail(todo)
           \/ todo' = Tail(todo)
        /\ line' = line \/ PortOpen
        /\ line' \in Seq(Frame) /\ Len(line') <= LineLen
  BY Executes
<1>2. io' = io /\ setting' = setting /\ doubt' = doubt
  BY DEF Execute
<1>3. DriverSound' /\ DriverOK'
  BY <1>1, <1>2, DriverSame DEF LowInv
<1>4. todo' \in Seq(Command) /\ Len(todo') <= TodoLen /\ TodoOK'
  BY <1>1, TodoTail, TodoRestart DEF LowInv
<1>5. radio' \in [firmware : Firmware, panid : Pan, stored : Pan, joined : BOOLEAN]
  BY <1>1, Moves DEF LowInv, ModuleSound
<1> QED  BY <1>1, <1>2, <1>3, <1>4, <1>5 DEF LowInv, ModuleSound

\* Restart, Associate, PowerCycle and PacketArrives put one frame on the line.
LEMMA RestartLow ==
  ASSUME LowInv, Restart
  PROVE  /\ LowInv'
         /\ \E f \in Frame : f.type = "modem" /\ (line' = line \/ line' = Append(line, f))
<1>1. /\ todo # << >> /\ Head(todo).step = "restart" /\ Room /\ radio' = Restarted
      /\ todo' = Tail(todo) /\ Emit(Status(WatchdogReset))
      /\ io' = io /\ setting' = setting /\ doubt' = doubt
  BY DEF Restart
<1>2. Status(WatchdogReset) \in Frame /\ Status(WatchdogReset).type = "modem"
  BY MadeFrames DEF WatchdogReset
<1>3. /\ line' \in Seq(Frame) /\ Len(line') <= LineLen
      /\ line' = line \/ (PortOpen /\ line' = Append(line, Status(WatchdogReset)))
  BY <1>1, <1>2, LineGrows
<1>5. radio' \in [firmware : Firmware, panid : Pan, stored : Pan, joined : BOOLEAN]
  BY <1>1 DEF LowInv, ModuleSound, Restarted
<1>6. todo' \in Seq(Command) /\ Len(todo') <= TodoLen /\ TodoOK'
  BY <1>1, TodoTail DEF LowInv
<1>7. DriverSound' /\ DriverOK'
  BY <1>1, <1>3, DriverSame DEF LowInv
<1> QED  BY <1>1, <1>2, <1>3, <1>5, <1>6, <1>7 DEF LowInv, ModuleSound

LEMMA AssociateLow ==
  ASSUME LowInv, Associate
  PROVE  /\ LowInv' /\ radio'.panid = radio.panid
         /\ \E f \in Frame : f.type = "modem" /\ (line' = line \/ line' = Append(line, f))
<1> DEFINE s == IF radio.firmware = "coordinator" THEN Started ELSE Joined
<1>1. /\ Room /\ radio' = [radio EXCEPT !.joined = TRUE] /\ Emit(Status(s))
      /\ todo' = todo /\ io' = io /\ setting' = setting /\ doubt' = doubt
  BY DEF Associate
<1>2. s \in 0 .. 6
  BY DEF Started, Joined
<1> HIDE DEF s
<1>3. Status(s) \in Frame /\ Status(s).type = "modem"
  BY <1>2, MadeFrames
<1>4. /\ line' \in Seq(Frame) /\ Len(line') <= LineLen
      /\ line' = line \/ (PortOpen /\ line' = Append(line, Status(s)))
  BY <1>1, <1>3, LineGrows
<1>5. /\ radio' \in [firmware : Firmware, panid : Pan, stored : Pan, joined : BOOLEAN]
      /\ radio'.panid = radio.panid
  BY <1>1 DEF LowInv, ModuleSound
<1>6. DriverSound' /\ DriverOK'
  BY <1>1, <1>4, DriverSame DEF LowInv
<1>7. TodoOK'
  BY <1>1 DEF LowInv, TodoOK
<1> QED  BY <1>1, <1>3, <1>4, <1>5, <1>6, <1>7 DEF LowInv, ModuleSound

LEMMA PowerCycleLow ==
  ASSUME LowInv, PowerCycle
  PROVE  /\ LowInv' /\ todo' = << >> /\ doubt'
         /\ \E f \in Frame : f.type = "modem" /\ (line' = line \/ line' = Append(line, f))
<1>1. /\ Room /\ radio' = Restarted /\ Emit(Status(HardwareReset))
      /\ todo' = << >> /\ io' = io /\ setting' = setting /\ doubt' = TRUE
  BY DEF PowerCycle
<1>2. Status(HardwareReset) \in Frame /\ Status(HardwareReset).type = "modem"
  BY MadeFrames DEF HardwareReset
<1>3. /\ line' \in Seq(Frame) /\ Len(line') <= LineLen
      /\ line' = line \/ (PortOpen /\ line' = Append(line, Status(HardwareReset)))
  BY <1>1, <1>2, LineGrows
<1>4. Restarted \in [firmware : Firmware, panid : Pan, stored : Pan, joined : BOOLEAN]
  BY DEF LowInv, ModuleSound, Restarted
<1>5. todo' \in Seq(Command) /\ Len(todo') = 0
  BY <1>1, EmptySeq
<1>6. TodoOK'
  BY <1>5 DEF TodoOK
<1>7. DriverSound' /\ DriverOK'
  BY <1>1, <1>3, DriverSame DEF LowInv
<1>8. TodoLen \in Nat
  BY XBeeIoAssumption
<1> QED  BY <1>1, <1>2, <1>3, <1>4, <1>5, <1>6, <1>7, <1>8 DEF LowInv, ModuleSound

LEMMA PacketLow ==
  ASSUME LowInv, PacketArrives
  PROVE  /\ LowInv'
         /\ \E f \in Frame : /\ f.type = "data" /\ f.panid = radio.panid
                             /\ line' = Append(line, f)
<1>1. /\ PortOpen /\ Room /\ line' = Append(line, Packet(radio.panid)) /\ radio' = radio
      /\ todo' = todo /\ io' = io /\ setting' = setting /\ doubt' = doubt
  BY DEF PacketArrives
<1>2. /\ Packet(radio.panid) \in Frame /\ Packet(radio.panid).type = "data"
      /\ Packet(radio.panid).panid = radio.panid
  <2>1. radio.panid \in Pan
    BY DEF LowInv, ModuleSound
  <2> QED  BY <2>1, MadeFrames
<1>3. Emit(Packet(radio.panid))
  BY <1>1 DEF Emit
<1>4. line' \in Seq(Frame) /\ Len(line') <= LineLen
  BY <1>1, <1>2, <1>3, LineGrows
<1>5. DriverSound' /\ DriverOK'
  BY <1>1, DriverSame DEF LowInv
<1>6. TodoOK'
  BY <1>1 DEF LowInv, TodoOK
<1> QED  BY <1>1, <1>2, <1>4, <1>5, <1>6 DEF LowInv, ModuleSound

\* The rest of the line.
LEMMA LineRest ==
  ASSUME ModuleSound, NEW n \in 0 .. Len(line), Consume(n)
  PROVE  /\ line' \in Seq(Frame) /\ Len(line') = Len(line) - n /\ Len(line') <= LineLen
         /\ \A i \in 1 .. Len(line') : n + i \in 1 .. Len(line) /\ line'[i] = line[n + i]
<1>1. /\ line \in Seq(Frame) /\ Len(line) \in Nat
      /\ LineLen \in Nat /\ Len(line) <= LineLen /\ n \in Nat
  BY LenProperties, XBeeIoAssumption DEF ModuleSound
<1>2. /\ line' \in Seq(Frame) /\ Len(line') = Len(line) - n
      /\ \A i \in 1 .. Len(line) - n : line'[i] = line[n + i]
  BY <1>1, RestShifts DEF Consume
<1>3. \A i \in 1 .. Len(line) - n : n + i \in 1 .. Len(line)
  BY <1>1
<1>4. Len(line) - n <= LineLen
  BY <1>1
<1> QED  BY <1>2, <1>3, <1>4

\* What is stored of frames.
LEMMA StoreFields ==
  ASSUME ModuleSound, DriverSound, NEW n \in 0 .. Len(line), NEW d, d = Store(Seen(n))
  PROVE  /\ d \in DriverData
         /\ d.at = io.at /\ d.fid = io.fid /\ d.modem_status = Seen(n).modem_status
         /\ \/ d.rxpkt = io.rxpkt
            \/ /\ TakesPackets(io.at)
               /\ \E i \in 1 .. n : line[i].type = "data" /\ d.rxpkt = line[i].panid
<1> DEFINE status == Seen(n).modem_status
           packet == Seen(n).rxpkt
<1>1. status \in 0 .. 6
  BY SeenFrames
<1>2. \/ packet = io.rxpkt
      \/ /\ TakesPackets(io.at)
         /\ \E i \in 1 .. n : line[i].type = "data" /\ packet = line[i].panid
  BY SeenFrames
<1>3. packet \in Pan \cup {NoPan}
  <2>1. io.rxpkt \in Pan \cup {NoPan}
    BY DEF DriverSound, DriverData
  <2>2. \A i \in 1 .. n : line[i] \in Frame
    <3>1. \A i \in 1 .. n : i \in 1 .. Len(line)
      BY LenProperties DEF ModuleSound
    <3> QED  BY <3>1, ElementOfSeq DEF ModuleSound
  <2>3. \A i \in 1 .. n : line[i].type = "data" => line[i].panid \in Pan
    BY <2>2, FrameFields
  <2> QED  BY <1>2, <2>1, <2>3
<1>4. d = [io EXCEPT !.modem_status = status, !.rxpkt = packet]
  BY DEF Store
<1>5. status = Seen(n).modem_status
  OBVIOUS
<1> HIDE DEF status, packet
<1>6. io \in DriverData
  BY DEF DriverSound
<1>7. /\ d \in DriverData
      /\ d.at = io.at /\ d.fid = io.fid /\ d.modem_status = status /\ d.rxpkt = packet
  BY <1>1, <1>3, <1>4, <1>6 DEF DriverData
<1> QED  BY <1>2, <1>5, <1>7

\* Frames are read, and no step ends.
LEMMA ReadLow ==
  ASSUME LowInv, PortOpen, NEW n \in 0 .. Len(line), Consume(n), io' = Store(Seen(n)),
         radio' = radio, todo' = todo, setting' = setting, doubt' = doubt
  PROVE  LowInv'
<1>1. line' \in Seq(Frame) /\ Len(line') <= LineLen
  BY LineRest DEF LowInv
<1>2. /\ io' \in DriverData
      /\ io'.at = io.at /\ io'.fid = io.fid
      /\ io'.rxpkt = io.rxpkt \/ TakesPackets(io.at)
  BY StoreFields DEF LowInv
<1>3. /\ NumbersOf(setting, io.at)' = NumbersOf(setting, io'.at)
      /\ NumbersOf(setting, io'.at) = NumbersOf(setting, io.at)
  BY <1>2 DEF NumbersOf
<1>4. PortOpen'
  BY <1>2 DEF PortOpen
<1>5. DriverOK'
  BY <1>2, <1>3, <1>4 DEF DriverOK, LowInv
<1>6. TodoOK'
  BY DEF LowInv, TodoOK
<1> QED  BY <1>1, <1>2, <1>5, <1>6 DEF LowInv, ModuleSound, DriverSound

\* The driver's data with frames in them, and perhaps the note that its module is a
\* coordinator.
Keeps(d, n) == d \in {Store(Seen(n)), [Store(Seen(n)) EXCEPT !.coordinator = TRUE]}

LEMMA KeepsFields ==
  ASSUME ModuleSound, DriverSound, NEW n \in 0 .. Len(line), NEW d, Keeps(d, n)
  PROVE  /\ d \in DriverData /\ d.at = io.at /\ d.fid = io.fid
         /\ \/ d.rxpkt = io.rxpkt
            \/ /\ TakesPackets(io.at)
               /\ \E i \in 1 .. n : line[i].type = "data" /\ d.rxpkt = line[i].panid
<1> DEFINE e == Store(Seen(n))
<1>1. /\ e \in DriverData /\ e.at = io.at /\ e.fid = io.fid
      /\ \/ e.rxpkt = io.rxpkt
         \/ /\ TakesPackets(io.at)
            /\ \E i \in 1 .. n : line[i].type = "data" /\ e.rxpkt = line[i].panid
  BY StoreFields
<1>2. d = e \/ d = [e EXCEPT !.coordinator = TRUE]
  BY DEF Keeps
<1> HIDE DEF e
<1>3. d \in DriverData /\ d.at = e.at /\ d.fid = e.fid /\ d.rxpkt = e.rxpkt
  BY <1>1, <1>2 DEF DriverData
<1> QED  BY <1>1, <1>3

\* The next step and its command.
LEMMA GoesOn ==
  ASSUME LowInv, NEW n \in 0 .. Len(line), PortOpen, Consume(n), NEW s,
         NEW d, Keeps(d, n), GoOn(s, d),
         \/ s \in Asking /\ io.fid + 1 \in NumbersOf(setting, s)
         \/ s \in {"reset", "join", "open"} /\ io.fid \in NumbersOf(setting, s),
         TakesPackets(io.at) => TakesPackets(s),
         radio' = radio, setting' = setting, doubt' \in BOOLEAN
  PROVE  /\ LowInv'
         /\ io'.at = s /\ io'.fid = (IF s \in Asking THEN io.fid + 1 ELSE io.fid)
         /\ \/ io'.rxpkt = io.rxpkt
            \/ /\ TakesPackets(io.at)
               /\ \E i \in 1 .. n : line[i].type = "data" /\ io'.rxpkt = line[i].panid
         /\ \/ todo' = todo
            \/ \E c \in Command :
                 /\ s \in Asking /\ todo' = Append(todo, c)
                 /\ c.step = s /\ c.fid = io.fid + 1
                 /\ s = "setID" => c.panid = setting.panid
<1> DEFINE f == IF s \in Asking THEN io.fid + 1 ELSE io.fid
<1>1. /\ d \in DriverData
      /\ d.at = io.at /\ d.fid = io.fid
      /\ \/ d.rxpkt = io.rxpkt
         \/ /\ TakesPackets(io.at)
            /\ \E i \in 1 .. n : line[i].type = "data" /\ d.rxpkt = line[i].panid
  BY KeepsFields DEF LowInv
<1>2. GoOn(s, d)
  OBVIOUS
<1>3. s \in Steps /\ s \notin Closed /\ f \in NumbersOf(setting, s)
  BY DEF Steps, Asking, Waiting, Closed
<1>4. f \in Nat /\ io.fid + 1 \in Nat
  BY DEF LowInv, DriverSound, DriverData
<1>5. io' = IF s \in Asking THEN [d EXCEPT !.at = s, !.fid = @ + 1] ELSE [d EXCEPT !.at = s]
  BY <1>2 DEF GoOn
<1>6. /\ io' \in DriverData
      /\ io'.at = s /\ io'.fid = f /\ io'.rxpkt = d.rxpkt
  <2>1. CASE s \in Asking
    BY <1>1, <1>3, <1>4, <1>5, <2>1 DEF DriverData
  <2>2. CASE s \notin Asking
    BY <1>1, <1>3, <1>4, <1>5, <2>2 DEF DriverData
  <2> QED  BY <2>1, <2>2
<1>7. \/ todo' = todo
      \/ \E c \in Command :
           /\ s \in Asking /\ todo' = Append(todo, c) /\ Len(todo) < TodoLen
           /\ c.step = s /\ c.fid = io.fid + 1
           /\ s = "setID" => c.panid = setting.panid
  <2>1. CASE s \in Asking
    <3> DEFINE c == Request(s, d.fid + 1)
    <3>1. d.fid + 1 \in Nat
      BY <1>1, <1>4
    <3>2. /\ c \in Command /\ c.step = s /\ c.fid = io.fid + 1
          /\ s = "setID" => c.panid = setting.panid
      BY <1>1, <2>1, <3>1, Requests DEF LowInv
    <3>3. todo' = IF Len(todo) < TodoLen THEN Append(todo, c) ELSE todo
      BY <1>2, <2>1 DEF GoOn
    <3> HIDE DEF c
    <3> QED  BY <2>1, <3>2, <3>3
  <2>2. CASE s \notin Asking
    BY <1>2, <2>2 DEF GoOn
  <2> QED  BY <2>1, <2>2
<1>8. line' \in Seq(Frame) /\ Len(line') <= LineLen
  BY LineRest DEF LowInv
<1>9. DriverSound'
  BY <1>6 DEF LowInv, DriverSound
<1>10. NumbersOf(setting, io.at)' = NumbersOf(setting, s)
  BY <1>6 DEF NumbersOf
<1>11. PortOpen'
  BY <1>3, <1>6 DEF PortOpen
<1>12. io'.rxpkt # NoPan => TakesPackets(s)
  BY <1>1, <1>6 DEF LowInv, DriverOK
<1>13. DriverOK'
  BY <1>3, <1>6, <1>10, <1>11, <1>12 DEF DriverOK
<1>14. todo' \in Seq(Command) /\ Len(todo') <= TodoLen /\ TodoOK'
  <2>1. CASE todo' = todo
    BY <2>1 DEF LowInv, ModuleSound, TodoOK
  <2>2. CASE todo' # todo
    <3>1. PICK c \in Command :
            /\ s \in Asking /\ todo' = Append(todo, c) /\ Len(todo) < TodoLen
            /\ c.step = s /\ c.fid = io.fid + 1
            /\ s = "setID" => c.panid = setting.panid
      BY <1>7, <2>2
    <3>2. /\ todo' \in Seq(Command) /\ Len(todo') = Len(todo) + 1
          /\ \A i \in 1 .. Len(todo) : todo'[i] = todo[i]
          /\ todo'[Len(todo) + 1] = c
      BY <3>1, AppendType DEF LowInv, ModuleSound
    <3>3. Len(todo) \in Nat /\ TodoLen \in Nat
      BY LenProperties, XBeeIoAssumption DEF LowInv, ModuleSound
    <3>4. c.fid \in NumbersOf(setting, c.step)
      BY <1>3, <3>1
    <3>5. /\ c.step # "restart"
          /\ c.step = "setID" => c.fid = 5 /\ c.panid \in Pan
          /\ c.step \in {"FR", "restart"} => c.fid = 4
      <4>1. setting.panid \in Pan
        BY DEF LowInv, DriverSound, Setting
      <4> QED  BY <3>1, <3>4, <4>1, Numbers DEF Asking
    <3>6. ASSUME NEW i \in 1 .. Len(todo')
          PROVE  /\ i # 1 => todo'[i].step # "restart"
                 /\ todo'[i].step = "setID" => todo'[i].fid = 5 /\ todo'[i].panid \in Pan
                 /\ todo'[i].step \in {"FR", "restart"} => todo'[i].fid = 4
      <4>1. CASE i = Len(todo) + 1
        BY <3>1, <3>2, <3>5, <4>1 DEF Asking
      <4>2. CASE i # Len(todo) + 1
        <5>1. i \in 1 .. Len(todo) /\ (i # 1 => i \in 2 .. Len(todo))
          BY <3>2, <3>3, <4>2
        <5> QED  BY <3>2, <5>1 DEF LowInv, TodoOK
      <4> QED  BY <4>1, <4>2
    <3>7. \A i \in 2 .. Len(todo') : i # 1 /\ i \in 1 .. Len(todo')
      BY <3>2, <3>3
    <3> QED  BY <3>1, <3>2, <3>3, <3>6, <3>7 DEF TodoOK
  <2> QED  BY <2>1, <2>2
<1>15. LowInv'
  BY <1>8, <1>9, <1>13, <1>14 DEF LowInv, ModuleSound
<1> QED  BY <1>1, <1>6, <1>7, <1>15

\* The port is closed, and the driver's data are new.
LEMMA CloseLow ==
  ASSUME LowInv, NEW s \in Closed, io' = NoIo(s), line' = << >>,
         radio' = radio, todo' = todo, doubt' = doubt,
         setting' \in Setting, setting'.new_panid => ~setting'.reset_sw
  PROVE  LowInv'
<1>1. /\ io' \in DriverData
      /\ io'.at = s /\ io'.fid = 0 /\ io'.rxpkt = NoPan
  BY DEF NoIo, Steps, Closed, DriverData
<1>2. line' \in Seq(Frame) /\ Len(line') = 0
  BY EmptySeq
<1>3. NumbersOf(setting, io.at)' = {0}
  BY <1>1 DEF NumbersOf, Closed
<1>4. DriverOK'
  BY <1>1, <1>3 DEF DriverOK
<1>5. TodoOK'
  BY DEF LowInv, TodoOK
<1>6. LineLen \in Nat
  BY XBeeIoAssumption
<1> QED  BY <1>1, <1>2, <1>4, <1>5, <1>6 DEF LowInv, ModuleSound, DriverSound

\* The next step never wants packets that the step before has taken.
LEMMA StillTakes ==
  ASSUME NEW answer, TakesPackets(io.at), io.at \in Asking
  PROVE  TakesPackets(Following(io.at, answer))
<1>1. io.at \in {"OP", "NP"}
  BY DEF TakesPackets, Asking
<1>2. Following("OP", answer) = "NP" /\ Following("NP", answer) = "open"
  BY Follows
<1> QED  BY <1>1, <1>2 DEF TakesPackets

\* PollAnswer, in parts.
Reads(n) ==
  /\ PortOpen /\ Consume(n) /\ io' = Store(Seen(n))
  /\ radio' = radio /\ todo' = todo /\ setting' = setting /\ doubt' = doubt
Accepts(n, i) ==
  /\ io.at \in Asking /\ line[i].type = "at" /\ IsAnswer(line[i], io.at)
  /\ Following(io.at, line[i]) # "failed"
  /\ Consume(n) /\ GoOn(Following(io.at, line[i]), Noted(Store(Seen(n)), line[i]))
  /\ radio' = radio /\ setting' = setting /\ doubt' = (doubt \/ Unread(line[i]))
Fails ==
  /\ io' = NoIo("failed") /\ line' = << >>
  /\ radio' = radio /\ todo' = todo /\ setting' = setting /\ doubt' = doubt

LEMMA Polls ==
  ASSUME LowInv, PollAnswer
  PROVE  \/ \E n \in 0 .. Len(line) : Reads(n)
         \/ \E n \in 0 .. Len(line) : \E i \in 1 .. n : Accepts(n, i)
         \/ Fails
<1>1. io.at \in Asking /\ radio' = radio /\ setting' = setting
  BY DEF PollAnswer
<1>2. PICK n \in 1 .. Len(line) :
        \/ /\ Seen(n).answer = NoAnswer
           /\ io' = Store(Seen(n)) /\ Consume(n) /\ UNCHANGED <<todo, doubt>>
        \/ /\ Seen(n).answer # NoAnswer
           /\ IF IsAnswer(Seen(n).answer, io.at) /\ Following(io.at, Seen(n).answer) # "failed"
                THEN /\ GoOn(Following(io.at, Seen(n).answer),
                             Noted(Store(Seen(n)), Seen(n).answer))
                     /\ Consume(n) /\ doubt' = (doubt \/ Unread(Seen(n).answer))
                ELSE Fail /\ UNCHANGED <<todo, doubt>>
  BY DEF PollAnswer
<1>3. n \in 0 .. Len(line)
  BY LenProperties DEF LowInv, ModuleSound
<1>4. PortOpen
  BY <1>1 DEF PortOpen, Asking, Closed
<1>5. CASE Seen(n).answer = NoAnswer
  BY <1>1, <1>2, <1>3, <1>4, <1>5 DEF Reads
<1>6. CASE Seen(n).answer # NoAnswer
  <2>1. PICK i \in 1 .. n : line[i].type = "at" /\ Seen(n).answer = line[i]
    BY <1>3, <1>6, SeenFrames DEF LowInv
  <2>2. \/ /\ IsAnswer(line[i], io.at) /\ Following(io.at, line[i]) # "failed"
           /\ GoOn(Following(io.at, line[i]), Noted(Store(Seen(n)), line[i])) /\ Consume(n)
           /\ doubt' = (doubt \/ Unread(line[i]))
        \/ Fail /\ todo' = todo /\ doubt' = doubt
    BY <1>2, <1>6, <2>1
  <2>3. CASE Fail /\ todo' = todo /\ doubt' = doubt
    BY <1>1, <2>3 DEF Fail, Fails
  <2>4. CASE /\ IsAnswer(line[i], io.at) /\ Following(io.at, line[i]) # "failed"
             /\ GoOn(Following(io.at, line[i]), Noted(Store(Seen(n)), line[i])) /\ Consume(n)
             /\ doubt' = (doubt \/ Unread(line[i]))
    BY <1>1, <1>3, <2>1, <2>4 DEF Accepts
  <2> QED  BY <2>2, <2>3, <2>4
<1> QED  BY <1>5, <1>6

\* A good answer: the opening goes on, with the next number.
LEMMA AcceptGoesOn ==
  ASSUME LowInv, NEW n \in 0 .. Len(line), NEW i \in 1 .. n, Accepts(n, i),
         NEW s, s = Following(io.at, line[i])
  PROVE  /\ LowInv'
         /\ i \in 1 .. Len(line) /\ line[i] \in Frame
         /\ s \in Asking \/ s \in {"reset", "open"}
         /\ io'.at = s /\ io'.fid = (IF s \in Asking THEN io.fid + 1 ELSE io.fid)
         /\ \/ io'.rxpkt = io.rxpkt
            \/ /\ TakesPackets(io.at)
               /\ \E k \in 1 .. n : line[k].type = "data" /\ io'.rxpkt = line[k].panid
         /\ \/ todo' = todo
            \/ \E c \in Command :
                 /\ s \in Asking /\ todo' = Append(todo, c)
                 /\ c.step = s /\ c.fid = io.fid + 1
                 /\ s = "setID" => c.panid = setting.panid
<1> DEFINE d == Noted(Store(Seen(n)), line[i])
<1>1. /\ io.at \in Asking /\ s # "failed" /\ Consume(n) /\ GoOn(s, d)
      /\ radio' = radio /\ setting' = setting /\ doubt' = (doubt \/ Unread(line[i]))
      /\ line[i].type = "at"
  BY DEF Accepts
<1>9. Keeps(d, n)
  BY DEF Noted, Keeps
<1>10. doubt' \in BOOLEAN
  <2> DEFINE unsure == doubt \/ Unread(line[i])
  <2>1. unsure \in BOOLEAN /\ doubt' = unsure
    BY <1>1
  <2> HIDE DEF unsure
  <2> QED  BY <2>1
<1> HIDE DEF d
<1>2. i \in 1 .. Len(line)
  BY LenProperties DEF LowInv, ModuleSound
<1>3. line[i] \in Frame
  BY <1>2, ElementOfSeq DEF LowInv, ModuleSound
<1>5. \/ s \in Asking \ {"VR"} /\ io.fid + 1 \in NumbersOf(setting, s)
      \/ s \in {"reset", "open"} /\ io.fid \in NumbersOf(setting, s)
  BY <1>1, NextStep DEF LowInv
<1>6. TakesPackets(io.at) => TakesPackets(s)
  BY <1>1, StillTakes
<1>7. PortOpen
  BY <1>1 DEF PortOpen, Asking, Closed
<1>8. \/ s \in Asking /\ io.fid + 1 \in NumbersOf(setting, s)
      \/ s \in {"reset", "join", "open"} /\ io.fid \in NumbersOf(setting, s)
  BY <1>5
<1> QED  BY <1>1, <1>2, <1>3, <1>5, <1>6, <1>7, <1>8, <1>9, <1>10, GoesOn

LEMMA FailsLow ==
  ASSUME LowInv, Fails
  PROVE  LowInv'
<1>1. "failed" \in Closed
  BY DEF Closed
<1>2. setting \in Setting /\ (setting.new_panid => ~setting.reset_sw)
  BY DEF LowInv, DriverSound
<1> QED  BY <1>1, <1>2, CloseLow DEF Fails

LEMMA TimesOut ==
  ASSUME Timeout
  PROVE  Fails
BY DEF Timeout, Fail, Fails

\* PollStatus: the status is not there yet, or the opening goes on.
Awaits(n, s) ==
  /\ io.at \in Waiting /\ s \in {"join", "AI"}
  /\ Consume(n) /\ GoOn(s, Store(Seen(n)))
  /\ radio' = radio /\ setting' = setting /\ doubt' = doubt

LEMMA PollsStatus ==
  ASSUME LowInv, PollStatus
  PROVE  \/ \E n \in 0 .. Len(line) : Reads(n)
         \/ \E n \in 0 .. Len(line), s \in {"join", "AI"} : Awaits(n, s)
<1>1. io.at \in Waiting /\ radio' = radio /\ setting' = setting /\ doubt' = doubt
  BY DEF PollStatus
<1>2. PortOpen
  BY <1>1 DEF PortOpen, Waiting, Closed
<1> DEFINE s == IF io.at = "reset" /\ ~io.coordinator THEN "join" ELSE "AI"
<1>3. PICK n \in 0 .. Len(line) :
        /\ Consume(n)
        /\ IF Seen(n).modem_status # Wanted
             THEN n # 0 /\ io' = Store(Seen(n)) /\ UNCHANGED todo
             ELSE GoOn(s, Store(Seen(n)))
  BY DEF PollStatus
<1>4. s \in {"join", "AI"}
  OBVIOUS
<1> HIDE DEF s
<1>5. CASE Seen(n).modem_status # Wanted
  BY <1>1, <1>2, <1>3, <1>5 DEF Reads
<1>6. CASE Seen(n).modem_status = Wanted
  BY <1>1, <1>3, <1>4, <1>6 DEF Awaits
<1> QED  BY <1>5, <1>6

LEMMA AwaitGoesOn ==
  ASSUME LowInv, NEW n \in 0 .. Len(line), NEW s, Awaits(n, s)
  PROVE  /\ LowInv' /\ io.fid = 4 /\ setting.reset_sw
         /\ io'.at = s /\ io'.fid = (IF s = "AI" THEN 5 ELSE 4) /\ io'.rxpkt = io.rxpkt
         /\ \/ todo' = todo
            \/ \E c \in Command :
                 /\ s = "AI" /\ todo' = Append(todo, c)
                 /\ c.step = s /\ c.fid = 5
<1>1. /\ io.at \in Waiting /\ s \in {"join", "AI"} /\ Consume(n) /\ GoOn(s, Store(Seen(n)))
      /\ radio' = radio /\ setting' = setting /\ doubt' = doubt
  BY DEF Awaits
<1>8. Keeps(Store(Seen(n)), n) /\ doubt' \in BOOLEAN
  BY <1>1 DEF Keeps, LowInv, ModuleSound
<1>2. ~TakesPackets(io.at)
  BY <1>1 DEF Waiting, TakesPackets
<1>3. PortOpen
  BY <1>1 DEF Waiting, PortOpen, Closed
<1>4. io.fid = 4 /\ setting.reset_sw /\ setting.reset_sw \in BOOLEAN /\ ~setting.new_panid
  <2>1. /\ io.fid \in NumbersOf(setting, io.at)
        /\ setting \in Setting /\ (setting.new_panid => ~setting.reset_sw)
    BY DEF LowInv, DriverOK, DriverSound
  <2>2. NumbersOf(setting, io.at) = IF setting.reset_sw THEN {4} ELSE {}
    BY <1>1, Numbers DEF Waiting
  <2> QED  BY <2>1, <2>2 DEF Setting
<1>5. "AI" \in Asking /\ "join" \notin Asking
  BY DEF Asking
<1>6. \/ s \in Asking /\ io.fid + 1 \in NumbersOf(setting, s)
      \/ s \in {"reset", "join", "open"} /\ io.fid \in NumbersOf(setting, s)
  BY <1>1, <1>4, <1>5, Numbers
<1>7. /\ LowInv'
      /\ io'.at = s /\ io'.fid = (IF s \in Asking THEN io.fid + 1 ELSE io.fid)
      /\ io'.rxpkt = io.rxpkt
      /\ \/ todo' = todo
         \/ \E c \in Command :
              /\ s \in Asking /\ todo' = Append(todo, c)
              /\ c.step = s /\ c.fid = io.fid + 1
  <2> DEFINE d == Store(Seen(n))
  <2>1. Keeps(d, n) /\ GoOn(s, d)
    BY <1>1, <1>8
  <2> HIDE DEF d
  <2> QED  BY <1>1, <1>2, <1>3, <1>6, <1>8, <2>1, GoesOn
<1> QED  BY <1>1, <1>4, <1>5, <1>7

\* The serial port is opened.
Opens ==
  /\ ~PortOpen /\ GoOn("VR", NoIo("VR")) /\ doubt' = (Len(todo) > Backlog)
  /\ radio' = radio /\ line' = line /\ setting' = setting

LEMMA OpenGoesOn ==
  ASSUME LowInv, Opens
  PROVE  /\ LowInv' /\ line' = << >> /\ Len(line') = 0
         /\ io'.at = "VR" /\ io'.fid = 1
         /\ \/ todo' = todo
            \/ \E c \in Command :
                 /\ todo' = Append(todo, c)
                 /\ c.step = "VR" /\ c.fid = 1
<1> DEFINE d == NoIo("VR")
<1>1. /\ GoOn("VR", d) /\ doubt' = (Len(todo) > Backlog)
      /\ radio' = radio /\ line' = << >> /\ setting' = setting
  BY DEF Opens, LowInv, DriverOK
<1>2. /\ d \in DriverData
      /\ d.fid = 0 /\ d.rxpkt = NoPan
  BY DEF NoIo, Steps, Asking, DriverData
<1> HIDE DEF d
<1>3. "VR" \in Asking /\ "VR" \in Steps /\ "VR" \notin Closed /\ 0 + 1 = 1
  BY DEF Asking, Steps, Closed
<1>4. io' = [d EXCEPT !.at = "VR", !.fid = @ + 1]
  BY <1>1, <1>3 DEF GoOn
<1>5. /\ io' \in DriverData
      /\ io'.at = "VR" /\ io'.fid = 1 /\ io'.rxpkt = NoPan
  <2> DEFINE f == d.fid + 1
  <2>1. f = 1 /\ f \in Nat
    BY <1>2
  <2>2. io' = [d EXCEPT !.at = "VR", !.fid = f]
    BY <1>4
  <2> HIDE DEF f
  <2> QED  BY <1>2, <1>3, <2>1, <2>2 DEF DriverData
<1>6. NumbersOf(setting, io.at)' = {1}
  BY <1>5 DEF NumbersOf
<1>7. DriverOK'
  BY <1>1, <1>3, <1>5, <1>6 DEF DriverOK, PortOpen
<1>8. line' \in Seq(Frame) /\ Len(line') = 0 /\ LineLen \in Nat
  BY <1>1, EmptySeq, XBeeIoAssumption
<1> DEFINE c == Request("VR", d.fid + 1)
<1>9. c \in Command /\ c.step = "VR" /\ c.fid = 1
  <2>1. d.fid + 1 = 1 /\ 1 \in Nat
    BY <1>2
  <2> QED  BY <1>3, <2>1, Requests DEF LowInv
<1>10. todo' = IF Len(todo) < TodoLen THEN Append(todo, c) ELSE todo
  BY <1>1, <1>3 DEF GoOn
<1> HIDE DEF c
<1>11. todo' \in Seq(Command) /\ Len(todo') <= TodoLen /\ TodoOK'
  <2>1. CASE todo' = todo
    BY <2>1 DEF LowInv, ModuleSound, TodoOK
  <2>2. CASE todo' # todo
    <3>1. todo' = Append(todo, c) /\ Len(todo) < TodoLen
      BY <1>10, <2>2
    <3>2. /\ todo' \in Seq(Command) /\ Len(todo') = Len(todo) + 1
          /\ \A i \in 1 .. Len(todo) : todo'[i] = todo[i]
          /\ todo'[Len(todo) + 1] = c
      BY <1>9, <3>1, AppendType DEF LowInv, ModuleSound
    <3>3. Len(todo) \in Nat /\ TodoLen \in Nat
      BY LenProperties, XBeeIoAssumption DEF LowInv, ModuleSound
    <3>4. ASSUME NEW i \in 1 .. Len(todo')
          PROVE  /\ i # 1 => todo'[i].step # "restart"
                 /\ todo'[i].step = "setID" => todo'[i].fid = 5 /\ todo'[i].panid \in Pan
                 /\ todo'[i].step \in {"FR", "restart"} => todo'[i].fid = 4
      <4>1. CASE i = Len(todo) + 1
        BY <1>9, <3>2, <4>1
      <4>2. CASE i # Len(todo) + 1
        <5>1. i \in 1 .. Len(todo) /\ (i # 1 => i \in 2 .. Len(todo))
          BY <3>2, <3>3, <4>2
        <5> QED  BY <3>2, <5>1 DEF LowInv, TodoOK
      <4> QED  BY <4>1, <4>2
    <3>5. \A i \in 2 .. Len(todo') : i # 1 /\ i \in 1 .. Len(todo')
      BY <3>2, <3>3
    <3> QED  BY <3>1, <3>2, <3>3, <3>4, <3>5 DEF TodoOK
  <2> QED  BY <2>1, <2>2
<1>12. DriverSound'
  BY <1>1, <1>5 DEF LowInv, DriverSound
<1>13. LowInv'
  <2>1. doubt' \in BOOLEAN
    <3> DEFINE long == Len(todo) > Backlog
    <3>1. long \in BOOLEAN /\ doubt' = long
      BY <1>1
    <3> HIDE DEF long
    <3> QED  BY <3>1
  <2>2. Len(line') <= LineLen
    BY <1>8
  <2>3. ModuleSound'
    BY <1>1, <1>8, <1>11, <2>1, <2>2 DEF LowInv, ModuleSound
  <2> QED  BY <1>7, <1>11, <1>12, <2>3 DEF LowInv
<1> QED  BY <1>1, <1>5, <1>8, <1>9, <1>10, <1>13

\* The packet in the slot is taken.
LEMMA RecvLow ==
  ASSUME LowInv, IoRecv
  PROVE  LowInv' /\ io'.at = "open" /\ io'.fid = io.fid /\ io'.rxpkt = NoPan
<1>1. /\ io.at = "open" /\ io' = [io EXCEPT !.rxpkt = NoPan]
      /\ radio' = radio /\ todo' = todo /\ line' = line
      /\ setting' = setting /\ doubt' = doubt
  BY DEF IoRecv
<1>2. /\ io' \in DriverData
      /\ io'.at = "open" /\ io'.fid = io.fid /\ io'.rxpkt = NoPan
  BY <1>1 DEF LowInv, DriverSound, DriverData
<1>3. NumbersOf(setting, io.at)' = NumbersOf(setting, io.at)
  BY <1>1, <1>2 DEF NumbersOf
<1>4. PortOpen' /\ PortOpen
  BY <1>1, <1>2 DEF PortOpen, Closed
<1>5. DriverOK'
  BY <1>2, <1>3, <1>4 DEF LowInv, DriverOK
<1>6. TodoOK'
  BY <1>1 DEF LowInv, TodoOK
<1> QED  BY <1>1, <1>2, <1>5, <1>6 DEF LowInv, ModuleSound, DriverSound

-----------------------------------------------------------------------------
(* The steps of the programs                                               *)

LEMMA LowSame ==
  ASSUME LowInv, UNCHANGED ioVars
  PROVE  LowInv'
<1>1. /\ radio' = radio /\ todo' = todo /\ line' = line /\ io' = io
      /\ setting' = setting /\ doubt' = doubt
  BY DEF ioVars
<1>2. ModuleSound'
  BY <1>1 DEF LowInv, ModuleSound
<1>3. DriverSound' /\ DriverOK'
  BY <1>1, DriverSame DEF LowInv
<1>4. TodoOK'
  BY <1>1 DEF LowInv, TodoOK
<1> QED  BY <1>2, <1>3, <1>4 DEF LowInv

\* A process begins with another setting.
LEMMA BeginLow ==
  ASSUME LowInv, io.at \in Closed, UNCHANGED <<radio, todo, line, io, doubt>>,
         setting' \in Setting, setting'.new_panid => ~setting'.reset_sw
  PROVE  LowInv'
<1>1. radio' = radio /\ todo' = todo /\ line' = line /\ io' = io /\ doubt' = doubt
  OBVIOUS
<1>2. ModuleSound' /\ TodoOK'
  BY <1>1 DEF LowInv, ModuleSound, TodoOK
<1>3. DriverSound'
  BY <1>1 DEF LowInv, DriverSound
<1>4. io.fid = 0
  BY Numbers DEF LowInv, DriverOK
<1>5. NumbersOf(setting, io.at)' = {0}
  BY <1>1 DEF NumbersOf, Closed
<1>6. DriverOK'
  BY <1>1, <1>4, <1>5 DEF LowInv, DriverOK, PortOpen
<1> QED  BY <1>2, <1>3, <1>6 DEF LowInv

\* The settings that programs begin with.
LEMMA Settings ==
  /\ NoSetting \in Setting /\ ~NoSetting.new_panid /\ ~NoSetting.reset_sw
  /\ \A r \in BOOLEAN : LET s == [NoSetting EXCEPT !.reset_sw = r] IN
       s \in Setting /\ ~s.new_panid /\ s.reset_sw = r
  /\ \A p \in Pan \cup {NoPan} : BridgeSetting(p) \in Setting /\ ~BridgeSetting(p).reset_sw
<1>1. DefaultPan \in Pan
  BY XBeeBridgeAssumption
<1>2. NoSetting \in Setting /\ ~NoSetting.new_panid /\ ~NoSetting.reset_sw
  BY <1>1 DEF NoSetting, Setting
<1>3. ASSUME NEW r \in BOOLEAN, NEW s, s = [NoSetting EXCEPT !.reset_sw = r]
      PROVE  s \in Setting /\ ~s.new_panid /\ s.reset_sw = r
  BY <1>2, <1>3 DEF Setting
<1>4. ASSUME NEW p \in Pan \cup {NoPan}
      PROVE  BridgeSetting(p) \in Setting /\ ~BridgeSetting(p).reset_sw
  <2> DEFINE q == IF p # NoPan THEN p ELSE IF file \in Pan THEN file ELSE DefaultPan
             b == p # NoPan
  <2>1. q \in Pan /\ b \in BOOLEAN
    BY <1>1
  <2>2. BridgeSetting(p) = [panid |-> q, new_panid |-> b, reset_sw |-> FALSE]
    BY DEF BridgeSetting
  <2> HIDE DEF q, b
  <2> QED  BY <2>1, <2>2 DEF Setting
<1> QED  BY <1>2, <1>3, <1>4

\* The values of the item "panid".
LEMMA Values ==
  /\ Absent \in Value /\ Absent \notin Pan /\ Pan \subseteq Value /\ NoFile \notin Value
BY XBeeBridgeAssumption DEF Value

LEMMA Supervisors ==
  ASSUME NEW at \in {Idle, "check", "assign", "failing", "wait", "last", "application"},
         NEW given \in Setting, ~given.reset_sw
  PROVE  /\ NewSup(at, given) \in SupervisorData /\ NewSup(at, given).at = at
         /\ ~NewSup(at, given).setting.reset_sw
<1>1. 0 \in 0 .. MAX_RESTARTS
  BY XBeeBridgeAssumption
<1> QED  BY <1>1 DEF NewSup, SupervisorData

\* Only the supervisor does something, or the shell for a program without one.
LEMMA SupervisorKeeps ==
  ASSUME TypeInv, UNCHANGED <<ioVars, conf, file>>,
         proc' = proc \/ (proc = "dead" /\ proc' = "none"),
         sup' \in SupervisorData, ~sup'.setting.reset_sw, sup'.at # "application",
         sup.at = "application" => proc = "dead",
         sup'.at \in {Idle, "check", "failing"} => proc' = "none"
  PROVE  TypeInv'
<1>1. /\ io' = io /\ setting' = setting /\ conf' = conf /\ file' = file /\ LowInv /\ ProgramOK
      /\ UNCHANGED ioVars
  BY DEF ioVars, TypeInv
<1>2. LowInv'
  BY <1>1, LowSame
<1>3. ProgramOK'
  BY <1>1 DEF ProgramOK
<1> QED  BY <1>2, <1>3 DEF TypeInv

\* A process begins.
LEMMA BeginKeeps ==
  ASSUME TypeInv, proc = "none", NEW given \in Setting, Begins(given),
         UNCHANGED <<radio, todo, line, io, doubt, file>>,
         sup' \in SupervisorData, ~sup'.setting.reset_sw,
         \/ sup'.at = "application" /\ ~given.new_panid
         \/ sup'.at \in {"assign", "last"} /\ ~given.reset_sw
  PROVE  TypeInv'
<1>1. LowInv /\ ProgramOK /\ io.at = "closed"
  BY DEF TypeInv, ProgramOK
<1>2. /\ setting' = given /\ proc' = "opening" /\ conf' = Absent /\ file' = file /\ io' = io
  BY DEF Begins
<1>3. LowInv'
  BY <1>1, <1>2, BeginLow DEF Closed
<1>4. "application" \notin {Idle, "check", "failing"} /\ "assign" \notin {Idle, "check", "failing"}
      /\ "last" \notin {Idle, "check", "failing"}
  BY DEF Idle
<1>5. ProgramOK'
  BY <1>1, <1>2, <1>4, Values DEF ProgramOK
<1> QED  BY <1>3, <1>5 DEF TypeInv

\* Programs start.
LEMMA StartsKeep ==
  ASSUME TypeInv,
         \/ \E p \in Pan \cup {NoPan} : StartBridge(p) \/ StartInForeground(p)
         \/ \E r \in BOOLEAN : StartApplication(r)
  PROVE  TypeInv'
<1>1. ASSUME NEW p \in Pan \cup {NoPan}, StartBridge(p)
      PROVE  TypeInv'
  <2> DEFINE s == BridgeSetting(p)
  <2>1. s \in Setting /\ ~s.reset_sw
    BY Settings
  <2>2. /\ sup.at = Idle /\ proc = "none" /\ proc' = proc /\ UNCHANGED <<ioVars, conf, file>>
        /\ sup' = NewSup("check", s)
    BY <1>1 DEF StartBridge
  <2> HIDE DEF s
  <2>3. sup' \in SupervisorData /\ sup'.at = "check" /\ ~sup'.setting.reset_sw
    BY <2>1, <2>2, Supervisors
  <2>4. sup.at # "application"
    BY <2>2 DEF Idle
  <2> QED  BY <2>2, <2>3, <2>4, SupervisorKeeps
<1>2. ASSUME NEW p \in Pan \cup {NoPan}, StartInForeground(p)
      PROVE  TypeInv'
  <2> DEFINE s == BridgeSetting(p)
  <2>1. s \in Setting /\ ~s.reset_sw
    BY Settings
  <2>2. /\ proc = "none" /\ sup' = NewSup("last", NoSetting)
        /\ Begins(s) /\ UNCHANGED <<radio, todo, line, io, doubt, file>>
    BY <1>2 DEF StartInForeground
  <2> HIDE DEF s
  <2>3. sup' \in SupervisorData /\ sup'.at = "last" /\ ~sup'.setting.reset_sw
    BY <2>2, Settings, Supervisors
  <2> QED  BY <2>1, <2>2, <2>3, BeginKeeps
<1>3. ASSUME NEW r \in BOOLEAN, StartApplication(r)
      PROVE  TypeInv'
  <2> DEFINE s == [NoSetting EXCEPT !.reset_sw = r]
  <2>1. s \in Setting /\ ~s.new_panid
    BY Settings
  <2>2. /\ proc = "none" /\ sup' = NewSup("application", NoSetting)
        /\ Begins(s) /\ UNCHANGED <<radio, todo, line, io, doubt, file>>
    BY <1>3 DEF StartApplication
  <2> HIDE DEF s
  <2>3. sup' \in SupervisorData /\ sup'.at = "application" /\ ~sup'.setting.reset_sw
    BY <2>2, Settings, Supervisors
  <2> QED  BY <2>1, <2>2, <2>3, BeginKeeps
<1> QED  BY <1>1, <1>2, <1>3

\* prvSuperviseBridge and its handler.
LEMMA SupervisionKeeps ==
  ASSUME TypeInv, Check \/ Assign \/ FailFork \/ GiveUp \/ Wait \/ TerminateSupervisor
  PROVE  TypeInv'
<1>1. /\ ProgramOK /\ MAX_RESTARTS \in Nat \ {0} /\ sup \in SupervisorData
      /\ sup.setting \in Setting /\ sup.count \in 0 .. MAX_RESTARTS /\ ~sup.setting.reset_sw
  BY XBeeBridgeAssumption DEF TypeInv, ProgramOK, SupervisorData
<1>2. /\ "wait" # "application" /\ "application" # Idle /\ Idle # "wait" /\ Idle # "assign"
      /\ Idle # "last" /\ "last" \notin {Idle, "check", "failing"}
  BY DEF Idle
\* The supervisor that has nothing to wait for ends.
<1>3. ASSUME NEW at \in {Idle, "last"}, sup' = NewSup(at, NoSetting),
             UNCHANGED <<ioVars, conf, file>>,
             proc' = proc \/ (proc = "dead" /\ proc' = "none"),
             at = Idle => proc' = "none", sup.at = "application" => proc = "dead"
      PROVE  TypeInv'
  <2>1. sup' \in SupervisorData /\ sup'.at = at /\ ~sup'.setting.reset_sw
    BY <1>3, Settings, Supervisors
  <2> QED  BY <1>2, <1>3, <2>1, SupervisorKeeps
<1>4. CASE Check
  <2> DEFINE n == sup.count + 1
  <2>1. /\ sup.at = "check" /\ sup.count # MAX_RESTARTS
        /\ sup' = [sup EXCEPT !.count = n, !.at = "assign"]
        /\ Begins(sup.setting) \/ UNCHANGED <<setting, proc, conf>>
        /\ UNCHANGED <<radio, todo, line, io, doubt, file>>
    BY <1>4 DEF Check, Fork
  <2>2. proc = "none" /\ n \in 0 .. MAX_RESTARTS
    BY <1>1, <2>1 DEF ProgramOK
  <2> HIDE DEF n
  <2>3. sup' \in SupervisorData /\ sup'.at = "assign" /\ ~sup'.setting.reset_sw
    BY <1>1, <2>1, <2>2 DEF SupervisorData
  <2>4. CASE Begins(sup.setting)
    BY <1>1, <2>1, <2>2, <2>3, <2>4, BeginKeeps
  <2>5. CASE UNCHANGED <<setting, proc, conf>>
    <3>1. UNCHANGED <<ioVars, conf, file>> /\ proc' = proc
      BY <2>1, <2>5 DEF ioVars
    <3>2. sup'.at # "application" /\ sup.at # "application" /\ sup'.at \notin {Idle, "check", "failing"}
      BY <1>2, <2>1, <2>3
    <3> QED  BY <2>3, <3>1, <3>2, SupervisorKeeps
  <2> QED  BY <2>1, <2>4, <2>5
<1>5. CASE Assign
  <2> DEFINE at == IF proc = "none" THEN "failing" ELSE "wait"
  <2>1. /\ sup.at = "assign" /\ sup' = [sup EXCEPT !.at = at]
        /\ UNCHANGED <<ioVars, conf, file>> /\ proc' = proc
    BY <1>5 DEF Assign
  <2>2. at \in {"failing", "wait"} /\ (at = "failing" => proc = "none")
    OBVIOUS
  <2> HIDE DEF at
  <2>3. sup' \in SupervisorData /\ sup'.at = at /\ ~sup'.setting.reset_sw
    BY <1>1, <2>1, <2>2 DEF SupervisorData
  <2>4. /\ sup'.at # "application" /\ sup.at # "application"
        /\ sup'.at \in {Idle, "check", "failing"} => proc' = "none"
    BY <1>2, <2>1, <2>2, <2>3
  <2> QED  BY <2>1, <2>3, <2>4, SupervisorKeeps
<1>6. CASE FailFork \/ GiveUp
  <2>1. /\ sup.at \in {"check", "failing"} /\ sup' = NewSup(Idle, NoSetting)
        /\ UNCHANGED <<ioVars, conf, file>> /\ proc' = proc
    BY <1>6 DEF FailFork, GiveUp
  <2>2. proc' = "none" /\ sup.at # "application"
    BY <1>1, <2>1 DEF ProgramOK
  <2> QED  BY <1>3, <2>1, <2>2
<1>7. CASE Wait
  <2>1. /\ proc = "dead" /\ proc' = "none" /\ UNCHANGED <<ioVars, conf, file>>
        /\ sup' = IF sup.at = "wait" THEN [sup EXCEPT !.at = "check"] ELSE NewSup(Idle, NoSetting)
    BY <1>7 DEF Wait
  <2>2. CASE sup.at = "wait"
    <3>1. sup' \in SupervisorData /\ sup'.at = "check" /\ ~sup'.setting.reset_sw
      BY <1>1, <2>1, <2>2 DEF SupervisorData
    <3> QED  BY <2>1, <2>2, <3>1, SupervisorKeeps
  <2>3. CASE sup.at # "wait"
    BY <1>3, <2>1, <2>3
  <2> QED  BY <2>2, <2>3
<1>8. CASE TerminateSupervisor
  <2>1. /\ UNCHANGED <<ioVars, conf, file>> /\ proc' = proc
        /\ \/ sup.at \in {"check", "failing"} /\ sup' = NewSup(Idle, NoSetting)
           \/ sup.at = "assign" /\ proc = "none" /\ sup' = NewSup(Idle, NoSetting)
           \/ sup.at \in {"assign", "wait"} /\ sup' = NewSup("last", NoSetting)
    BY <1>8 DEF TerminateSupervisor
  <2>2. sup.at # "application" /\ (sup.at \in {"check", "failing"} => proc = "none")
    BY <1>1, <2>1 DEF ProgramOK
  <2> QED  BY <1>2, <1>3, <2>1, <2>2
<1> QED  BY <1>4, <1>5, <1>6, <1>7, <1>8

\* A process ends, or hangs.
LEMMA EndsKeep ==
  ASSUME TypeInv, Crash \/ TerminateBridge \/ OpenFails \/ StartupCrashes
  PROVE  TypeInv'
<1>1. PICK p \in {"dead", "hung"} : Becomes(p)
  BY DEF Crash, TerminateBridge, OpenFails, StartupCrashes, Dies
<1>2. proc # "none" /\ file' = file
  BY DEF Crash, TerminateBridge, OpenFails, StartupCrashes, Alive
<1>3. /\ io' = NoIo("closed") /\ line' = << >> /\ proc' = p /\ setting' = NoSetting
      /\ conf' = Absent /\ sup' = sup
      /\ radio' = radio /\ todo' = todo /\ doubt' = doubt
  BY <1>1 DEF Becomes, ClosePort
<1>4. LowInv'
  BY <1>3, Settings, CloseLow DEF TypeInv, Closed
<1>5. io'.at = "closed"
  BY <1>3 DEF NoIo
<1>6. sup.at \notin {Idle, "check", "failing"}
  BY <1>2 DEF TypeInv, ProgramOK
<1>7. ProgramOK'
  BY <1>2, <1>3, <1>5, <1>6, Settings, Values DEF TypeInv, ProgramOK
<1> QED  BY <1>4, <1>7 DEF TypeInv

\* The port is opened, or not.
LEMMA OpensOrNot ==
  ASSUME TypeInv, OpenIo
  PROVE  /\ Opens \/ (Fails /\ line = << >>)
         /\ sup' = sup /\ proc' = proc /\ conf' = conf /\ file' = file /\ setting' = setting
         /\ proc \in {"opening", "reopening"} /\ io.at = "closed"
<1>1. /\ proc \in {"opening", "reopening"} /\ io.at = "closed" /\ OpenPort
      /\ radio' = radio /\ line' = line /\ setting' = setting
      /\ sup' = sup /\ proc' = proc /\ conf' = conf /\ file' = file
  BY DEF OpenIo, programVars
<1>2. ~PortOpen /\ line = << >>
  BY <1>1 DEF PortOpen, Closed, TypeInv, LowInv, DriverOK
<1>3. Opens \/ Fails
  BY <1>1, <1>2 DEF OpenPort, Opens, Fails
<1> QED  BY <1>1, <1>2, <1>3

LEMMA OpenIoKeeps ==
  ASSUME TypeInv, OpenIo
  PROVE  TypeInv'
<1>1. /\ Opens \/ Fails
      /\ sup' = sup /\ proc' = proc /\ conf' = conf /\ file' = file /\ setting' = setting
      /\ proc \in {"opening", "reopening"}
  BY OpensOrNot
<1>2. LowInv'
  BY <1>1, OpenGoesOn, FailsLow DEF TypeInv
<1>3. ProgramOK'
  BY <1>1 DEF TypeInv, ProgramOK
<1> QED  BY <1>2, <1>3 DEF TypeInv

\* The device of a bridge is made, or the opening of an application was good.
LEMMA ReadyKeeps ==
  ASSUME TypeInv, StartDevice \/ ApplicationReady \/ Reopened
  PROVE  TypeInv'
<1>1. CASE StartDevice
  <2> DEFINE v == IF file = NoFile THEN setting.panid ELSE file
             save == v \in Pan /\ setting.panid # v /\ setting.new_panid
  <2>1. /\ io.at = "open" /\ sup.at # "application" /\ proc' = "polling"
        /\ IF save THEN conf' = setting.panid /\ file' \in {file, setting.panid}
                   ELSE conf' = v /\ file' = file
        /\ UNCHANGED ioVars /\ sup' = sup
    BY <1>1 DEF StartDevice, Startup, Save
  <2>2. LowInv' /\ io' = io /\ setting' = setting
    BY <2>1, LowSame DEF TypeInv, ioVars
  <2>3. setting.panid \in Pan /\ Pan \subseteq Value /\ v \in Value
    BY Values DEF TypeInv, LowInv, DriverSound, Setting, ProgramOK
  <2>4. /\ conf' \in Value /\ file' \in Value \cup {NoFile}
        /\ (setting.new_panid /\ conf' \in Pan => conf' = setting.panid)
    BY <2>1, <2>3 DEF TypeInv, ProgramOK
  <2>5. sup.at \notin {Idle, "check", "failing"}
    BY <1>1 DEF StartDevice, TypeInv, ProgramOK
  <2> HIDE DEF v, save
  <2>6. ProgramOK'
    BY <2>1, <2>2, <2>4, <2>5 DEF TypeInv, ProgramOK
  <2> QED  BY <2>2, <2>6 DEF TypeInv
<1>2. CASE ApplicationReady \/ Reopened
  <2>1. /\ io.at = "open" /\ proc' = "polling" /\ sup' = sup /\ conf' = conf /\ file' = file
        /\ proc = "reopening" \/ (proc = "opening" /\ sup.at = "application")
        /\ UNCHANGED ioVars
    BY <1>2 DEF ApplicationReady, Reopened
  <2>2. LowInv' /\ io' = io /\ setting' = setting
    BY <2>1, LowSame DEF TypeInv, ioVars
  <2>3. ProgramOK'
    BY <2>1, <2>2 DEF TypeInv, ProgramOK
  <2> QED  BY <2>2, <2>3 DEF TypeInv
<1> QED  BY <1>1, <1>2

\* A manager configures the device.
LEMMA ConfigureKeeps ==
  ASSUME TypeInv, NEW v \in Value, Configure(v)
  PROVE  TypeInv'
<1>1. /\ proc = "polling" /\ sup.at # "application" /\ file' \in {file, v}
      /\ \/ v = Absent /\ Dies
         \/ /\ v # Absent /\ conf' = v
            /\ IF v \in Pan /\ setting.panid # v
                 THEN ClosePort("closed") /\ setting' = Steered(v) /\ proc' = "reopening"
                 ELSE UNCHANGED <<line, io, setting, proc>>
            /\ radio' = radio /\ todo' = todo /\ doubt' = doubt /\ sup' = sup
  BY DEF Configure, Save
<1>2. LowInv /\ ProgramOK
  BY DEF TypeInv
<1>3. /\ sup.at \notin {Idle, "check", "failing"} /\ ~setting.reset_sw /\ setting \in Setting
      /\ file' \in Value \cup {NoFile}
  BY <1>1, <1>2 DEF ProgramOK, LowInv, DriverSound
<1>4. CASE v = Absent /\ Dies
  <2>1. /\ io' = NoIo("closed") /\ line' = << >> /\ proc' = "dead" /\ setting' = NoSetting
        /\ conf' = Absent /\ sup' = sup
        /\ radio' = radio /\ todo' = todo /\ doubt' = doubt
    BY <1>4 DEF Dies, Becomes, ClosePort
  <2>2. LowInv'
    BY <1>2, <2>1, Settings, CloseLow DEF Closed
  <2>3. io'.at = "closed"
    BY <2>1 DEF NoIo
  <2>4. ProgramOK'
    BY <1>2, <1>3, <2>1, <2>3, Settings, Values DEF ProgramOK
  <2> QED  BY <2>2, <2>4 DEF TypeInv
<1>5. CASE /\ v \in Pan /\ setting.panid # v
           /\ ClosePort("closed") /\ setting' = Steered(v) /\ proc' = "reopening" /\ conf' = v
           /\ radio' = radio /\ todo' = todo /\ doubt' = doubt /\ sup' = sup
  <2>1. /\ setting' \in Setting /\ setting'.panid = v /\ ~setting'.reset_sw
    <3>1. setting' = [setting EXCEPT !.panid = v, !.new_panid = TRUE]
      BY <1>5 DEF Steered
    <3> QED  BY <1>3, <1>5, <3>1 DEF Setting
  <2>2. LowInv'
    BY <1>2, <1>5, <2>1, CloseLow DEF Closed, ClosePort
  <2>3. ProgramOK'
    BY <1>1, <1>2, <1>3, <1>5, <2>1, Values DEF ProgramOK
  <2> QED  BY <2>2, <2>3 DEF TypeInv
<1>6. CASE /\ ~(v \in Pan /\ setting.panid # v) /\ conf' = v
           /\ UNCHANGED <<line, io, setting, proc>>
           /\ radio' = radio /\ todo' = todo /\ doubt' = doubt /\ sup' = sup
  <2>1. LowInv'
    BY <1>2, <1>6, LowSame DEF ioVars
  <2>2. io' = io /\ setting' = setting /\ proc' = proc
    BY <1>6
  <2>3. ProgramOK'
    BY <1>1, <1>2, <1>3, <1>6, <2>2, Values DEF ProgramOK
  <2> QED  BY <2>1, <2>3 DEF TypeInv
<1> QED  BY <1>1, <1>4, <1>5, <1>6

\* Module, driver and mishaps, while the programs do nothing.
LEMMA LowKeeps ==
  ASSUME TypeInv, Opening \/ Poll \/ Module \/ Mishap
  PROVE  TypeInv'
<1>1. /\ LowInv /\ ProgramOK
      /\ sup' = sup /\ proc' = proc /\ conf' = conf /\ file' = file
  BY DEF TypeInv, Opening, Poll, Module, Mishap, programVars
<1>2. SUFFICES LowInv' /\ setting' = setting /\ (io'.at = io.at \/ io.at \in Asking \cup Waiting)
  <2>1. ASSUME LowInv', setting' = setting, io'.at = io.at \/ io.at \in Asking \cup Waiting
        PROVE  ProgramOK'
    <3>1. io.at \in {"closed", "open"} => io'.at = io.at
      BY <2>1 DEF Asking, Waiting
    <3> QED  BY <1>1, <2>1, <3>1 DEF ProgramOK
  <2> QED  BY <2>1 DEF TypeInv
<1>3. CASE Module
  <2>1. Execute \/ Restart \/ Associate
    BY <1>3 DEF Module, ModuleStep
  <2>2. io' = io /\ setting' = setting
    BY <2>1 DEF Execute, Restart, Associate
  <2> QED  BY <1>1, <2>1, <2>2, ExecuteLow, RestartLow, AssociateLow
<1>4. CASE Mishap
  <2>1. PowerCycle \/ PacketArrives
    BY <1>4 DEF Mishap
  <2>2. io' = io /\ setting' = setting
    BY <2>1 DEF PowerCycle, PacketArrives
  <2> QED  BY <1>1, <2>1, <2>2, PowerCycleLow, PacketLow
<1>5. ASSUME NEW n \in 0 .. Len(line), Reads(n)
      PROVE  LowInv' /\ setting' = setting /\ io'.at = io.at
  <2>1. /\ PortOpen /\ Consume(n) /\ io' = Store(Seen(n))
        /\ radio' = radio /\ todo' = todo /\ setting' = setting /\ doubt' = doubt
    BY <1>5 DEF Reads
  <2>2. LowInv'
    BY <1>1, <2>1, ReadLow
  <2>3. io'.at = io.at
    BY <1>1, <2>1, StoreFields DEF LowInv
  <2> QED  BY <2>1, <2>2, <2>3
<1>6. CASE Poll
  <2>1. CASE IoPoll
    <3>1. PICK n \in 1 .. Len(line) : io' = Store(Seen(n)) /\ Consume(n)
      BY <2>1 DEF IoPoll
    <3>2. n \in 0 .. Len(line)
      BY LenProperties DEF TypeInv, LowInv, ModuleSound
    <3>3. Reads(n)
      BY <2>1, <3>1 DEF IoPoll, Reads, PortOpen, Closed
    <3> QED  BY <1>5, <3>2, <3>3
  <2>2. CASE IoRecv
    <3>1. io.at = "open" /\ setting' = setting
      BY <2>2 DEF IoRecv
    <3> QED  BY <1>1, <2>2, <3>1, RecvLow
  <2> QED  BY <1>6, <2>1, <2>2 DEF Poll
<1>7. CASE Opening
  <2>1. CASE PollAnswer
    <3>1. io.at \in Asking /\ setting' = setting
      BY <2>1 DEF PollAnswer
    <3>2. ASSUME NEW n \in 0 .. Len(line), NEW i \in 1 .. n, Accepts(n, i)
          PROVE  LowInv'
      BY <1>1, <3>2, AcceptGoesOn
    <3>3. LowInv'
      BY <1>1, <1>5, <2>1, <3>2, Polls, FailsLow
    <3> QED  BY <3>1, <3>3
  <2>2. CASE PollStatus
    <3>1. io.at \in Waiting /\ setting' = setting
      BY <2>2 DEF PollStatus
    <3>2. ASSUME NEW n \in 0 .. Len(line), NEW s, Awaits(n, s)
          PROVE  LowInv'
      BY <1>1, <3>2, AwaitGoesOn
    <3>3. LowInv'
      BY <1>1, <1>5, <2>2, <3>2, PollsStatus
    <3> QED  BY <3>1, <3>3
  <2>3. CASE Timeout
    <3>1. io.at \in Asking \cup Waiting /\ setting' = setting
      BY <2>3 DEF Timeout
    <3> QED  BY <1>1, <2>3, <3>1, TimesOut, FailsLow
  <2> QED  BY <1>7, <2>1, <2>2, <2>3 DEF Opening, OpenStep
<1> QED  BY <1>3, <1>4, <1>6, <1>7

LEMMA TypeInit ==
  ASSUME Init
  PROVE  TypeInv
<1>1. /\ radio \in [firmware : Firmware, panid : Pan, stored : Pan, joined : {TRUE}]
      /\ todo = << >> /\ line = << >> /\ doubt = FALSE /\ io = NoIo("closed")
      /\ setting = NoSetting /\ sup = NewSup(Idle, NoSetting) /\ proc = "none"
      /\ conf = Absent /\ file = NoFile
  BY DEF Init, XBeeInit
<1>2. LineLen \in Nat /\ TodoLen \in Nat /\ MAX_RESTARTS \in Nat \ {0}
  BY XBeeIoAssumption, XBeeBridgeAssumption
<1>3. ModuleSound
  <2>1. radio \in [firmware : Firmware, panid : Pan, stored : Pan, joined : BOOLEAN]
    BY <1>1
  <2>2. /\ todo \in Seq(Command) /\ Len(todo) <= TodoLen
        /\ line \in Seq(Frame) /\ Len(line) <= LineLen
    BY <1>1, <1>2, EmptySeq
  <2>3. doubt \in BOOLEAN
    BY <1>1
  <2> QED  BY <2>1, <2>2, <2>3 DEF ModuleSound
<1>4. /\ io \in DriverData
      /\ io.at = "closed" /\ io.fid = 0 /\ io.rxpkt = NoPan
  BY <1>1 DEF NoIo, Steps, Closed, DriverData
<1>5. DriverSound
  BY <1>1, <1>4, Settings DEF DriverSound
<1>6. TodoOK
  <2>1. Len(todo) = 0
    BY <1>1, EmptySeq
  <2> QED  BY <2>1 DEF TodoOK
<1>7. NumbersOf(setting, io.at) = {0}
  BY <1>4, Numbers DEF Closed
<1>8. DriverOK
  BY <1>1, <1>4, <1>7 DEF DriverOK
<1>9. sup \in SupervisorData /\ sup.at = Idle /\ ~sup.setting.reset_sw
  BY <1>1, Settings, Supervisors
<1>10. ProgramOK
  BY <1>1, <1>4, <1>9, Settings, Values DEF ProgramOK, Idle
<1> QED  BY <1>3, <1>5, <1>6, <1>8, <1>10 DEF TypeInv, LowInv

LEMMA TypeStep ==
  ASSUME TypeInv, [Next]_vars
  PROVE  TypeInv'
<1>1. CASE UNCHANGED vars
  <2>1. /\ UNCHANGED ioVars
        /\ sup' = sup /\ proc' = proc /\ conf' = conf /\ file' = file
        /\ io' = io /\ setting' = setting
    BY <1>1 DEF vars, programVars, ioVars
  <2>2. LowInv'
    BY <2>1, LowSame DEF TypeInv
  <2>3. ProgramOK'
    BY <2>1 DEF TypeInv, ProgramOK
  <2> QED  BY <2>2, <2>3 DEF TypeInv
<1>2. CASE Next
  <2>1. CASE \/ \E p \in Pan \cup {NoPan} : StartBridge(p) \/ StartInForeground(p)
             \/ \E r \in BOOLEAN : StartApplication(r)
    BY <2>1, StartsKeep
  <2>2. CASE \E v \in Value : Configure(v)
    BY <2>2, ConfigureKeeps
  <2>3. CASE ProgramStep
    BY <2>3, SupervisionKeeps, EndsKeep, OpenIoKeeps, ReadyKeeps DEF ProgramStep
  <2>4. CASE Opening \/ Poll \/ Module \/ Mishap
    BY <2>4, LowKeeps
  <2>5. CASE Crash \/ TerminateSupervisor \/ TerminateBridge
    BY <2>5, SupervisionKeeps, EndsKeep
  <2> QED  BY <1>2, <2>1, <2>2, <2>3, <2>4, <2>5 DEF Next
<1> QED  BY <1>1, <1>2

\* The invariant says that the numbers of commands stay small.
LEMMA TypeGives ==
  ASSUME TypeInv
  PROVE  XBeeTypeOK
<1>1. LowInv /\ ProgramOK
  BY DEF TypeInv
<1>2. io.fid \in 0 .. 10
  <2>1. io.fid \in NumbersOf(setting, io.at) /\ io.at \in Steps
    BY <1>1 DEF LowInv, DriverOK, DriverSound, DriverData
  <2>2. /\ \A s \in Asking \cup Waiting \cup {"open"} : NumbersOf(setting, s) \subseteq 0 .. 10
        /\ \A s \in Closed : NumbersOf(setting, s) \subseteq 0 .. 10
    BY Numbers DEF Asking, Waiting
  <2> QED  BY <2>1, <2>2 DEF Steps
<1>3. line # << >> => PortOpen
  BY <1>1 DEF LowInv, DriverOK
<1> QED  BY <1>1, <1>2, <1>3 DEF XBeeTypeOK, LowInv, ModuleSound, DriverSound, ProgramOK, Steps,
            DriverData, SupervisorData

\* Types and bounds of the programs, the driver, the line and the module, for any
\* networks, modules, backlog and restarts: above all an opening (gxPLXBeeZbOpen) never
\* sends more than ten commands, and the line of a closed port is empty.
THEOREM XBeeTypeCorrect == Spec => []XBeeTypeOK
<1>1. Init => TypeInv
  BY TypeInit
<1>2. TypeInv /\ [Next]_vars => TypeInv'
  BY TypeStep
<1>3. TypeInv => XBeeTypeOK
  BY TypeGives
<1> QED  BY <1>1, <1>2, <1>3, PTL DEF Spec

-----------------------------------------------------------------------------
(* Answers on the line                                                     *)

\* Which of the first n frames are answers, and which of these are not those of a reset.
AnswersAt(q, n) == {i \in 1 .. n : q[i].type = "at"}
OthersAt(q, n) == {i \in 1 .. n : q[i].type = "at" /\ q[i].cmd # "FR"}
Answers(q, n) == Cardinality(AnswersAt(q, n))
Others(q, n) == Cardinality(OthersAt(q, n))

LEMMA Counts ==
  ASSUME NEW q, NEW n \in Nat
  PROVE  /\ Answers(q, n) \in Nat /\ Others(q, n) \in Nat /\ Others(q, n) <= Answers(q, n)
         /\ \A m \in 0 .. n : Answers(q, m) <= Answers(q, n) /\ Others(q, m) <= Others(q, n)
         /\ \A i \in 1 .. n : q[i].type = "at" =>
              /\ Answers(q, n) >= 1
              /\ q[i].cmd # "FR" => Others(q, n) >= 1
<1>1. /\ AnswersAt(q, n) \in SUBSET (1 .. n) /\ OthersAt(q, n) \in SUBSET (1 .. n)
      /\ OthersAt(q, n) \in SUBSET AnswersAt(q, n)
  BY DEF AnswersAt, OthersAt
<1>2. Answers(q, n) \in Nat /\ Others(q, n) \in Nat /\ Others(q, n) <= Answers(q, n)
  BY <1>1, CountType, CountMore DEF Answers, Others
<1>3. ASSUME NEW m \in 0 .. n
      PROVE  Answers(q, m) <= Answers(q, n) /\ Others(q, m) <= Others(q, n)
  <2>1. /\ AnswersAt(q, m) \in SUBSET AnswersAt(q, n)
        /\ OthersAt(q, m) \in SUBSET OthersAt(q, n)
    BY DEF AnswersAt, OthersAt
  <2> QED  BY <1>1, <2>1, CountMore DEF Answers, Others
<1>4. ASSUME NEW i \in 1 .. n, q[i].type = "at"
      PROVE  Answers(q, n) >= 1 /\ (q[i].cmd # "FR" => Others(q, n) >= 1)
  <2>1. i \in AnswersAt(q, n) /\ (q[i].cmd # "FR" => i \in OthersAt(q, n))
    BY <1>4 DEF AnswersAt, OthersAt
  <2> QED  BY <1>1, <2>1, CountType DEF Answers, Others
<1> QED  BY <1>2, <1>3, <1>4

\* One more frame.
LEMMA CountsGrow ==
  ASSUME NEW q \in Seq(Frame), NEW f \in Frame
  PROVE  LET p == Append(q, f) IN
         /\ p \in Seq(Frame) /\ Len(p) = Len(q) + 1 /\ p[Len(q) + 1] = f
         /\ Len(q) \in Nat /\ \A i \in 1 .. Len(q) : p[i] = q[i]
         /\ \A n \in 0 .. Len(q) : Answers(p, n) = Answers(q, n) /\ Others(p, n) = Others(q, n)
         /\ Answers(p, Len(p)) <= Answers(q, Len(q)) + 1
         /\ Others(p, Len(p)) <= Others(q, Len(q)) + 1
         /\ f.type # "at" => Answers(p, Len(p)) = Answers(q, Len(q))
         /\ f.type # "at" \/ f.cmd = "FR" => Others(p, Len(p)) = Others(q, Len(q))
<1> DEFINE p == Append(q, f)
<1>1. /\ p \in Seq(Frame) /\ Len(p) = Len(q) + 1 /\ p[Len(q) + 1] = f
      /\ \A i \in 1 .. Len(q) : p[i] = q[i]
  BY AppendType
<1> HIDE DEF p
<1>2. Len(q) \in Nat
  BY LenProperties
<1>3. ASSUME NEW n \in 0 .. Len(q)
      PROVE  AnswersAt(p, n) = AnswersAt(q, n) /\ OthersAt(p, n) = OthersAt(q, n)
  <2>1. \A i \in 1 .. n : p[i] = q[i]
    BY <1>1, <1>2
  <2> QED  BY <2>1 DEF AnswersAt, OthersAt
<1> DEFINE m == Len(q)
<1>4. /\ AnswersAt(q, m) \in SUBSET (1 .. m) /\ OthersAt(q, m) \in SUBSET (1 .. m)
      /\ m + 1 \notin AnswersAt(q, m) /\ m + 1 \notin OthersAt(q, m)
  BY <1>2 DEF AnswersAt, OthersAt
<1>5. /\ AnswersAt(p, m + 1) = AnswersAt(q, m) \cup (IF f.type = "at" THEN {m + 1} ELSE {})
      /\ OthersAt(p, m + 1)
           = OthersAt(q, m) \cup (IF f.type = "at" /\ f.cmd # "FR" THEN {m + 1} ELSE {})
  <2>1. \A i : i \in 1 .. m + 1 <=> i \in 1 .. m \/ i = m + 1
    BY <1>2
  <2>2. p[m + 1] = f /\ \A i \in 1 .. m : p[i] = q[i]
    BY <1>1
  <2> HIDE DEF m
  <2> QED  BY <2>1, <2>2 DEF AnswersAt, OthersAt
<1>6. /\ Cardinality(AnswersAt(q, m) \cup {m + 1}) = Cardinality(AnswersAt(q, m)) + 1
      /\ Cardinality(OthersAt(q, m) \cup {m + 1}) = Cardinality(OthersAt(q, m)) + 1
      /\ Cardinality(AnswersAt(q, m)) \in Nat /\ Cardinality(OthersAt(q, m)) \in Nat
  BY <1>2, <1>4, CountMore, CountType
<1>7. AnswersAt(q, m) \cup {} = AnswersAt(q, m) /\ OthersAt(q, m) \cup {} = OthersAt(q, m)
  OBVIOUS
<1>8. Len(p) = m + 1 /\ m = Len(q)
  BY <1>1
<1> HIDE DEF m
<1>9. Answers(p, m + 1) = Answers(q, m) + (IF f.type = "at" THEN 1 ELSE 0)
  <2>1. CASE f.type = "at"
    BY <1>5, <1>6, <2>1 DEF Answers
  <2>2. CASE f.type # "at"
    <3>1. AnswersAt(p, m + 1) = AnswersAt(q, m)
      BY <1>5, <1>7, <2>2
    <3> QED  BY <1>6, <2>2, <3>1 DEF Answers
  <2> QED  BY <2>1, <2>2
<1>10. Others(p, m + 1) = Others(q, m) + (IF f.type = "at" /\ f.cmd # "FR" THEN 1 ELSE 0)
  <2>1. CASE f.type = "at" /\ f.cmd # "FR"
    BY <1>5, <1>6, <2>1 DEF Others
  <2>2. CASE ~(f.type = "at" /\ f.cmd # "FR")
    <3>1. OthersAt(p, m + 1) = OthersAt(q, m)
      BY <1>5, <1>7, <2>2
    <3> QED  BY <1>6, <2>2, <3>1 DEF Others
  <2> QED  BY <2>1, <2>2
<1>11. \A n \in 0 .. Len(q) : Answers(p, n) = Answers(q, n) /\ Others(p, n) = Others(q, n)
  BY <1>3 DEF Answers, Others
<1>12. Answers(q, m) \in Nat /\ Others(q, m) \in Nat
  BY <1>6 DEF Answers, Others
<1>13. /\ Answers(p, Len(p)) <= Answers(q, Len(q)) + 1
       /\ Others(p, Len(p)) <= Others(q, Len(q)) + 1
       /\ f.type # "at" => Answers(p, Len(p)) = Answers(q, Len(q))
       /\ f.type # "at" \/ f.cmd = "FR" => Others(p, Len(p)) = Others(q, Len(q))
  BY <1>8, <1>9, <1>10, <1>12
<1> QED  BY <1>1, <1>2, <1>11, <1>13 DEF p

\* The first frames are gone, and one of them may have been an answer.
LEMMA CountsRest ==
  ASSUME NEW q, NEW p, NEW n \in Nat, NEW m \in Nat,
         \A k \in 1 .. m : p[k] = q[n + k]
  PROVE  /\ Answers(p, m) <= Answers(q, n + m) /\ Others(p, m) <= Others(q, n + m)
         /\ \A i \in 1 .. n : q[i].type = "at" =>
              /\ Answers(p, m) + 1 <= Answers(q, n + m)
              /\ q[i].cmd # "FR" => Others(p, m) + 1 <= Others(q, n + m)
<1>1. /\ n + m \in Nat
      /\ AnswersAt(q, n + m) \in SUBSET (1 .. n + m) /\ OthersAt(q, n + m) \in SUBSET (1 .. n + m)
      /\ AnswersAt(p, m) \in SUBSET (1 .. m) /\ OthersAt(p, m) \in SUBSET (1 .. m)
  BY DEF AnswersAt, OthersAt
<1>2. \A k \in 1 .. m : n + k \in 1 .. n + m
  OBVIOUS
<1>3. /\ \A k \in AnswersAt(p, m) : n + k \in AnswersAt(q, n + m)
      /\ \A k \in OthersAt(p, m) : n + k \in OthersAt(q, n + m)
  BY <1>2 DEF AnswersAt, OthersAt
<1>4. /\ Cardinality(AnswersAt(p, m)) <= Cardinality(AnswersAt(q, n + m))
      /\ \A i \in AnswersAt(q, n + m) : i <= n =>
           Cardinality(AnswersAt(p, m)) + 1 <= Cardinality(AnswersAt(q, n + m))
  BY <1>1, <1>3, CountRest
<1>5. /\ Cardinality(OthersAt(p, m)) <= Cardinality(OthersAt(q, n + m))
      /\ \A i \in OthersAt(q, n + m) : i <= n =>
           Cardinality(OthersAt(p, m)) + 1 <= Cardinality(OthersAt(q, n + m))
  BY <1>1, <1>3, CountRest
<1>6. ASSUME NEW i \in 1 .. n, q[i].type = "at"
      PROVE  /\ i \in AnswersAt(q, n + m) /\ i <= n
             /\ q[i].cmd # "FR" => i \in OthersAt(q, n + m)
  <2>1. i \in 1 .. n + m /\ i <= n
    OBVIOUS
  <2> QED  BY <1>6, <2>1 DEF AnswersAt, OthersAt
<1> QED  BY <1>4, <1>5, <1>6 DEF Answers, Others

-----------------------------------------------------------------------------
(* What earlier openings can do to one: an opening that begins with at     *)
(* most Backlog commands of theirs in the module, that reads where the     *)
(* module is, and whose module keeps its power (doubt is FALSE).           *)

\* The command c may be one of the opening that has sent the commands up to fid.
Mine(c, given, fid) ==
  /\ c.fid \in NumbersOf(given, c.step) /\ c.fid <= fid
  /\ c.step = "setID" => c.panid = given.panid

\* f is the good answer that the driver d waits for.
Hit(f, d) ==
  /\ f.type = "at" /\ f.fid = d.fid /\ f.ok
  /\ f.cmd = IF d.at = "setID" THEN "ID" ELSE d.at

Restarting(q) == IF q # << >> /\ q[1].step = "restart" THEN 1 ELSE 0
Calm(q) == \A i \in 1 .. Len(q) : q[i].step \notin {"FR", "restart"}

\* The packets on the line behind the n-th frame come from the network p.
Current(q, n, p) == \A k \in 1 .. Len(q) : k > n /\ q[k].type = "data" => q[k].panid = p

\* The answer that names a network names the network p.
Truthful(f, p) == f.cmd = "ID" /\ f.param => f.panid = p

Early == io.at \in Asking /\ io.fid <= 4

\* A command that an opening before has left has a command of this one behind it for
\* each answer that is on the line or was taken: there is room for four in all.
FewOld ==
  Early => \A i \in 1 .. Len(todo) : ~Mine(todo[i], setting, io.fid) =>
    /\ i + Others(line, Len(line)) + io.fid <= 5
    /\ i - Restarting(todo) + Answers(line, Len(line)) + io.fid <= 5

\* So has an answer of such a command, if its number is still to come.
FewAhead ==
  Early => \A j \in 1 .. Len(line) :
    line[j].type = "at" /\ line[j].fid > io.fid => Answers(line, j) + io.fid <= 5

\* The answer that the fourth command may take for its own was made when nothing of
\* before was left.
FourthIsOurs ==
  Early /\ ~setting.reset_sw => \A j \in 1 .. Len(line) :
    /\ line[j].type = "at" /\ line[j].fid = 4 /\ line[j].cmd # "FR"
    /\ Others(line, j) + io.fid >= 5
    => Truthful(line[j], radio.panid) /\ Current(line, j, radio.panid)

\* From the fifth number on nothing is left of before.
AllOurs ==
  io.fid >= 5 \/ io.at \in Waiting =>
    /\ \A i \in 1 .. Len(todo) : Mine(todo[i], setting, io.fid)
    /\ \A j \in 1 .. Len(line) : line[j].type = "at" => line[j].fid <= io.fid

\* The command that was sent last is answered last.
LastIsLast ==
  io.fid >= 5 =>
    /\ \A i \in 1 .. Len(todo) - 1 : todo[i].fid < io.fid
    /\ \A j \in 1 .. Len(line) : line[j].type = "at" /\ line[j].fid = io.fid => todo = << >>

Moved ==
  setting.new_panid =>
    /\ io.at \in {"WR", "AI", "OP", "NP", "open"} => radio.panid = setting.panid
    /\ io.at = "setID" =>
         \A j \in 1 .. Len(line) : Hit(line[j], io) => radio.panid = setting.panid

AtHome ==
  /\ io.at \in {"OP", "NP", "open"} => Calm(todo)
  /\ io.at \in {"OP", "NP", "open"} =>
       /\ Current(line, 0, radio.panid)
       /\ io.rxpkt # NoPan => io.rxpkt = radio.panid
  /\ io.at = "AI" /\ io.fid >= 5 =>
       \A j \in 1 .. Len(line) : Hit(line[j], io) => Current(line, j, radio.panid)

HighInv ==
  FewOld /\ FewAhead /\ FourthIsOurs /\ AllOurs /\ LastIsLast /\ Moved /\ AtHome

\* What is known of a driver whose port is open.
LEMMA OpenDriver ==
  ASSUME LowInv
  PROVE  /\ io.fid \in Nat /\ io.fid \in NumbersOf(setting, io.at) /\ io.at \in Steps
         /\ io.at \in {"setID", "WR", "OP", "NP", "open"} => io.fid >= 5
         /\ io.at \in Waiting => io.fid = 4 /\ setting.reset_sw
         /\ io.at \notin Waiting /\ io.fid <= 4 => io.at \in Closed \/ Early
         /\ setting.new_panid \in BOOLEAN /\ setting.reset_sw \in BOOLEAN
         /\ (setting.new_panid => ~setting.reset_sw) /\ setting.panid \in Pan
         /\ Len(line) \in Nat /\ Len(todo) \in Nat
         /\ \A j \in 1 .. Len(line) : line[j] \in Frame
         /\ \A i \in 1 .. Len(todo) : todo[i] \in Command
         /\ doubt \in BOOLEAN
<1>1. /\ io.fid \in Nat /\ io.fid \in NumbersOf(setting, io.at) /\ io.at \in Steps
      /\ setting.new_panid \in BOOLEAN /\ setting.reset_sw \in BOOLEAN
      /\ (setting.new_panid => ~setting.reset_sw) /\ setting.panid \in Pan
      /\ doubt \in BOOLEAN
  BY DEF LowInv, DriverSound, DriverOK, ModuleSound, Setting, DriverData
<1>2. io.at \in {"setID", "WR", "OP", "NP", "open"} => io.fid >= 5
  BY <1>1, Numbers
<1>3. io.at \in Waiting => io.fid = 4 /\ setting.reset_sw
  BY <1>1, Numbers DEF Waiting
<1>4. io.at \notin Waiting /\ io.fid <= 4 => io.at \in Closed \/ Early
  BY <1>1, <1>2 DEF Steps, Early
<1>5. Len(line) \in Nat /\ \A j \in 1 .. Len(line) : line[j] \in Frame
  BY LenProperties, ElementOfSeq DEF LowInv, ModuleSound
<1>6. Len(todo) \in Nat /\ \A i \in 1 .. Len(todo) : todo[i] \in Command
  BY LenProperties, ElementOfSeq DEF LowInv, ModuleSound
<1> QED  BY <1>1, <1>2, <1>3, <1>4, <1>5, <1>6

LEMMA ClosedIsHigh ==
  ASSUME io'.at \in Closed, io'.fid = 0
  PROVE  HighInv'
<1>1. io'.at \notin Asking /\ io'.at \notin Waiting /\ ~(io'.fid >= 5)
  BY DEF Asking, Waiting, Closed
<1>2. io'.at \notin {"WR", "AI", "OP", "NP", "open", "setID"}
  BY DEF Closed
<1>3. FewOld' /\ FewAhead' /\ FourthIsOurs'
  BY <1>1 DEF FewOld, FewAhead, FourthIsOurs, Early
<1>4. AllOurs' /\ LastIsLast'
  BY <1>1 DEF AllOurs, LastIsLast
<1>5. Moved' /\ AtHome'
  BY <1>2 DEF Moved, AtHome
<1> QED  BY <1>3, <1>4, <1>5 DEF HighInv

LEMMA HighSame ==
  ASSUME HighInv, UNCHANGED ioVars
  PROVE  HighInv'
<1>1. /\ radio' = radio /\ todo' = todo /\ line' = line /\ io' = io
      /\ setting' = setting /\ doubt' = doubt
  BY DEF ioVars
<1>2. FewOld' /\ FewAhead' /\ FourthIsOurs'
  BY <1>1 DEF HighInv, FewOld, FewAhead, FourthIsOurs, Early
<1>3. AllOurs' /\ LastIsLast'
  BY <1>1 DEF HighInv, AllOurs, LastIsLast
<1>4. Moved' /\ AtHome'
  BY <1>1 DEF HighInv, Moved, AtHome
<1> QED  BY <1>2, <1>3, <1>4 DEF HighInv

\* A frame that is no answer comes on the line.
LEMMA ArrivalKeeps ==
  ASSUME LowInv, HighInv, io' = io, setting' = setting, todo' = todo,
         NEW f \in Frame, f.type # "at", line' = line \/ line' = Append(line, f),
         radio'.panid = radio.panid, f.type = "data" => f.panid = radio.panid
  PROVE  HighInv'
<1>1. /\ Len(line) \in Nat /\ Len(todo) \in Nat
      /\ \A j \in 1 .. Len(line) : line[j] \in Frame
  BY OpenDriver
<1>2. /\ \A j \in 1 .. Len(line') : line'[j].type = "at" \/ j # Len(line) + 1 =>
            j \in 1 .. Len(line) /\ line'[j] = line[j]
      /\ \A j \in 1 .. Len(line') : j = Len(line) + 1 => line'[j] = f
      /\ \A j \in 1 .. Len(line) :
           Answers(line', j) = Answers(line, j) /\ Others(line', j) = Others(line, j)
      /\ Answers(line', Len(line')) = Answers(line, Len(line))
      /\ Others(line', Len(line')) = Others(line, Len(line))
  <2>1. CASE line' = line
    BY <1>1, <2>1
  <2>2. CASE line' = Append(line, f)
    <3>1. /\ Len(line') = Len(line) + 1 /\ line'[Len(line) + 1] = f
          /\ \A i \in 1 .. Len(line) : line'[i] = line[i]
          /\ \A n \in 0 .. Len(line) :
               Answers(line', n) = Answers(line, n) /\ Others(line', n) = Others(line, n)
          /\ Answers(line', Len(line')) = Answers(line, Len(line))
          /\ Others(line', Len(line')) = Others(line, Len(line))
      <4>1. line \in Seq(Frame)
        BY DEF LowInv, ModuleSound
      <4>2. /\ f.type # "at" => Answers(line', Len(line')) = Answers(line, Len(line))
            /\ f.type # "at" \/ f.cmd = "FR"
                 => Others(line', Len(line')) = Others(line, Len(line))
        BY <2>2, <4>1, CountsGrow
      <4> QED  BY <2>2, <4>1, <4>2, CountsGrow
    <3> QED  BY <1>1, <3>1
  <2> QED  BY <2>1, <2>2
<1>3. todo' = todo
  OBVIOUS
<1>4. ASSUME NEW n, Current(line, n, radio.panid)
      PROVE  Current(line', n, radio'.panid)
  <2> SUFFICES ASSUME NEW k \in 1 .. Len(line'), k > n, line'[k].type = "data"
               PROVE  line'[k].panid = radio'.panid
    BY DEF Current
  <2> QED  BY <1>2, <1>4 DEF Current
<1>5. Early' => Early
  BY DEF Early
<1>6. FewOld'
  BY <1>2, <1>3, <1>5 DEF HighInv, FewOld
<1>7. FewAhead'
  BY <1>2, <1>5 DEF HighInv, FewAhead
<1>8. FourthIsOurs'
  <2> SUFFICES ASSUME Early, ~setting.reset_sw, NEW j \in 1 .. Len(line'),
                      line'[j].type = "at", line'[j].fid = 4, line'[j].cmd # "FR",
                      Others(line', j) + io.fid >= 5
               PROVE  Truthful(line'[j], radio'.panid) /\ Current(line', j, radio'.panid)
    BY <1>5 DEF FourthIsOurs
  <2>1. j \in 1 .. Len(line) /\ line'[j] = line[j] /\ Others(line', j) = Others(line, j)
    BY <1>2
  <2> QED  BY <1>4, <2>1 DEF HighInv, FourthIsOurs, Truthful
<1>9. AllOurs' /\ LastIsLast'
  BY <1>2, <1>3 DEF HighInv, AllOurs, LastIsLast
<1>10. Moved'
  <2>1. ASSUME NEW j \in 1 .. Len(line'), Hit(line'[j], io)
        PROVE  j \in 1 .. Len(line) /\ line'[j] = line[j]
    BY <1>2, <2>1 DEF Hit
  <2> QED  BY <2>1 DEF HighInv, Moved
<1>11. AtHome'
  <2>1. Calm(todo) => Calm(todo')
    BY <1>3 DEF Calm
  <2>2. ASSUME NEW j \in 1 .. Len(line'), Hit(line'[j], io)
        PROVE  j \in 1 .. Len(line) /\ line'[j] = line[j]
    BY <1>2, <2>2 DEF Hit
  <2> QED  BY <1>4, <2>1, <2>2 DEF HighInv, AtHome
<1> QED  BY <1>6, <1>7, <1>8, <1>9, <1>10, <1>11 DEF HighInv

\* The module restarts.
LEMMA RestartKeeps ==
  ASSUME LowInv, HighInv, Restart
  PROVE  HighInv'
<1>1. /\ todo # << >> /\ Head(todo).step = "restart" /\ todo' = Tail(todo)
      /\ io' = io /\ setting' = setting /\ doubt' = doubt
  BY DEF Restart
<1>2. PICK f \in Frame : f.type = "modem" /\ (line' = line \/ line' = Append(line, f))
  BY RestartLow
<1>3. /\ Len(line) \in Nat /\ Len(todo) \in Nat \ {0}
      /\ todo[1].step = "restart" /\ todo[1].fid = 4 /\ 1 \in 1 .. Len(todo)
  <2>1. Len(todo) \in Nat \ {0} /\ todo[1].step = "restart"
    BY <1>1, FirstAndRest DEF LowInv, ModuleSound
  <2> QED  BY <2>1, OpenDriver DEF LowInv, TodoOK
<1>4. Restarting(todo) = 1
  BY <1>1, <1>3 DEF Restarting
<1>5. /\ Len(todo') = Len(todo) - 1 /\ TodoOK'
      /\ \A i \in 1 .. Len(todo') : i + 1 \in 2 .. Len(todo) /\ todo'[i] = todo[i + 1]
  BY <1>1, TodoTail DEF LowInv
<1>6. Restarting(todo') = 0
  <2>1. ASSUME todo' # << >>
        PROVE  todo'[1].step # "restart"
    <3>1. Len(todo') # 0
      BY <1>1, <2>1, EmptySeq, FirstAndRest DEF LowInv, ModuleSound
    <3>2. 1 \in 1 .. Len(todo')
      BY <1>3, <1>5, <3>1
    <3>3. 1 + 1 \in 2 .. Len(todo) /\ todo'[1] = todo[1 + 1]
      BY <1>5, <3>2
    <3> QED  BY <3>3 DEF LowInv, TodoOK
  <2> QED  BY <2>1 DEF Restarting
<1>7. /\ \A j \in 1 .. Len(line') : line'[j].type = "at" =>
           j \in 1 .. Len(line) /\ line'[j] = line[j]
      /\ \A j \in 1 .. Len(line) :
           Answers(line', j) = Answers(line, j) /\ Others(line', j) = Others(line, j)
      /\ Answers(line', Len(line')) = Answers(line, Len(line))
      /\ Others(line', Len(line')) = Others(line, Len(line))
  <2>1. CASE line' = line
    BY <1>3, <2>1
  <2>2. CASE line' = Append(line, f)
    <3>1. line \in Seq(Frame)
      BY DEF LowInv, ModuleSound
    <3>2. /\ Len(line') = Len(line) + 1 /\ line'[Len(line) + 1] = f
          /\ \A i \in 1 .. Len(line) : line'[i] = line[i]
          /\ \A n \in 0 .. Len(line) :
               Answers(line', n) = Answers(line, n) /\ Others(line', n) = Others(line, n)
      BY <2>2, <3>1, CountsGrow
    <3>3. /\ f.type # "at" => Answers(line', Len(line')) = Answers(line, Len(line))
          /\ f.type # "at" \/ f.cmd = "FR"
               => Others(line', Len(line')) = Others(line, Len(line))
      BY <2>2, <3>1, CountsGrow
    <3> QED  BY <1>2, <1>3, <3>2, <3>3
  <2> QED  BY <1>2, <2>1, <2>2
<1>8. /\ io.fid \in Nat
      /\ Answers(line, Len(line)) \in Nat /\ Others(line, Len(line)) \in Nat
      /\ \A j \in 1 .. Len(line) :
           Others(line, j) \in Nat /\ Others(line, j) <= Others(line, Len(line))
  BY <1>3, OpenDriver, Counts
<1>9. Early' => Early
  BY <1>1 DEF Early
<1>10. FewOld'
  <2> SUFFICES ASSUME Early, NEW i \in 1 .. Len(todo'), ~Mine(todo'[i], setting, io.fid)
               PROVE  /\ i + Others(line', Len(line')) + io.fid <= 5
                      /\ i - Restarting(todo') + Answers(line', Len(line')) + io.fid <= 5
    BY <1>1, <1>9 DEF FewOld
  <2>1. i + 1 \in 1 .. Len(todo) /\ todo'[i] = todo[i + 1] /\ i \in Nat
    BY <1>3, <1>5
  <2>2. /\ (i + 1) + Others(line, Len(line)) + io.fid <= 5
        /\ (i + 1) - Restarting(todo) + Answers(line, Len(line)) + io.fid <= 5
    BY <2>1 DEF HighInv, FewOld
  <2>3. /\ Others(line', Len(line')) = Others(line, Len(line))
        /\ Answers(line', Len(line')) = Answers(line, Len(line))
    BY <1>7
  <2>4. /\ i + Others(line, Len(line)) + io.fid <= 5
        /\ i - 0 + Answers(line, Len(line)) + io.fid <= 5
    <3> DEFINE A == Answers(line, Len(line))
               O == Others(line, Len(line))
               r == Restarting(todo)
    <3>1. A \in Nat /\ O \in Nat /\ io.fid \in Nat /\ i \in Nat /\ r = 1
      BY <1>4, <1>8, <2>1
    <3>2. (i + 1) + O + io.fid <= 5 /\ (i + 1) - r + A + io.fid <= 5
      BY <2>2
    <3> HIDE DEF A, O, r
    <3>3. i + O + io.fid <= 5 /\ i - 0 + A + io.fid <= 5
      BY <3>1, <3>2
    <3> QED  BY <3>3 DEF A, O
  <2> QED  BY <1>6, <2>3, <2>4
<1>11. FewAhead'
  BY <1>1, <1>7, <1>9 DEF HighInv, FewAhead
<1>12. ~setting.reset_sw => ~Mine(todo[1], setting, io.fid)
  BY <1>3, Numbers DEF Mine
<1>13. FourthIsOurs'
  <2> SUFFICES ASSUME Early, ~setting.reset_sw, NEW j \in 1 .. Len(line'),
                      line'[j].type = "at", Others(line', j) + io.fid >= 5
               PROVE  FALSE
    BY <1>1, <1>9 DEF FourthIsOurs
  <2>1. j \in 1 .. Len(line) /\ Others(line', j) = Others(line, j)
    BY <1>7
  <2>2. 1 + Others(line, Len(line)) + io.fid <= 5
    BY <1>3, <1>12 DEF HighInv, FewOld
  <2> QED  BY <1>8, <2>1, <2>2
<1>14. AllOurs'
  <2>1. \A i \in 1 .. Len(todo') : i + 1 \in 1 .. Len(todo) /\ todo'[i] = todo[i + 1]
    BY <1>3, <1>5
  <2> QED  BY <1>1, <1>7, <2>1 DEF HighInv, AllOurs
<1>15. io.fid >= 5 => \A j \in 1 .. Len(line) : ~(line[j].type = "at" /\ line[j].fid = io.fid)
  BY <1>1 DEF HighInv, LastIsLast
<1>16. LastIsLast'
  <2>1. \A i \in 1 .. Len(todo') - 1 : i + 1 \in 1 .. Len(todo) - 1 /\ todo'[i] = todo[i + 1]
    BY <1>3, <1>5
  <2>2. io.fid >= 5 => \A i \in 1 .. Len(todo) - 1 : todo[i].fid < io.fid
    BY DEF HighInv, LastIsLast
  <2> QED  BY <1>1, <1>7, <1>15, <2>1, <2>2 DEF LastIsLast
<1>17. ~(setting.new_panid /\ io.at \in {"setID", "WR", "AI", "OP", "NP", "open"})
  <2> SUFFICES ASSUME setting.new_panid, io.at \in {"setID", "WR", "AI", "OP", "NP", "open"}
               PROVE  FALSE
    OBVIOUS
  <2>1. ~setting.reset_sw /\ io.fid \in NumbersOf(setting, io.at)
    BY OpenDriver
  <2>2. io.fid >= 5
    BY <2>1, Numbers
  <2> QED  BY <1>3, <1>12, <2>1, <2>2 DEF HighInv, AllOurs
<1>18. Moved'
  BY <1>1, <1>17 DEF Moved
<1>19. io.at \notin {"OP", "NP", "open"}
  BY <1>3 DEF HighInv, AtHome, Calm
<1>20. AtHome'
  <2>1. ASSUME io.at = "AI", io.fid >= 5, NEW j \in 1 .. Len(line'), Hit(line'[j], io)
        PROVE  FALSE
    BY <1>7, <1>15, <2>1 DEF Hit
  <2> QED  BY <1>1, <1>19, <2>1 DEF AtHome
<1> QED  BY <1>10, <1>11, <1>13, <1>14, <1>16, <1>18, <1>20 DEF HighInv

\* The module executes a command.
LEMMA ExecuteKeeps ==
  ASSUME LowInv, HighInv, Execute
  PROVE  HighInv'
<1> DEFINE A == Answers(line, Len(line))
           O == Others(line, Len(line))
           AA == Answers(line', Len(line'))
           OO == Others(line', Len(line'))
           fid == io.fid
<1>1. PICK c \in Command, done \in BOOLEAN, a \in Frame :
        /\ todo # << >> /\ c = Head(todo) /\ c = todo[1] /\ c.step \in Asking
        /\ c.step = "setID" => c.panid \in Pan
        /\ radio' = (IF done THEN Executed(c) ELSE radio)
        /\ \/ done /\ c.step = "FR" /\ todo' = <<[c EXCEPT !.step = "restart"]>> \o Tail(todo)
           \/ ~(done /\ c.step = "FR") /\ todo' = Tail(todo)
        /\ line' = line \/ line' = Append(line, a)
        /\ a.type = "at" /\ a.fid = c.fid /\ a.ok = done /\ Truthful(a, radio.panid)
        /\ a.cmd = (IF c.step = "setID" THEN "ID" ELSE c.step)
  BY Executes DEF Truthful
<1>2. io' = io /\ setting' = setting /\ doubt' = doubt
  BY DEF Execute
<1>3. /\ Len(line) \in Nat /\ Len(todo) \in Nat \ {0} /\ 1 \in 1 .. Len(todo) /\ fid \in Nat
      /\ \A j \in 1 .. Len(line) : line[j] \in Frame
  <2>1. Len(todo) \in Nat \ {0}
    BY <1>1, FirstAndRest DEF LowInv, ModuleSound
  <2> QED  BY <2>1, OpenDriver
<1>4. c.fid \in Nat /\ (c.step = "setID" => c.fid = 5) /\ (c.step = "FR" => c.fid = 4)
  BY <1>1, <1>3, CommandFields DEF LowInv, TodoOK
<1>5. \/ radio'.panid = radio.panid
      \/ done /\ c.step = "setID" /\ radio'.panid = c.panid
  BY <1>1, Moves DEF LowInv
<1>6. done /\ c.step = "setID" => radio'.panid = c.panid
  BY <1>1, Moves DEF LowInv
<1>7. /\ \A j \in 1 .. Len(line') :
           \/ j \in 1 .. Len(line) /\ line'[j] = line[j]
           \/ j = Len(line) + 1 /\ line'[j] = a /\ Len(line') = j
      /\ \A j \in 1 .. Len(line) :
           Answers(line', j) = Answers(line, j) /\ Others(line', j) = Others(line, j)
      /\ AA <= A + 1 /\ OO <= O + 1 /\ (c.step = "FR" => OO <= O)
      /\ A \in Nat /\ O \in Nat /\ AA \in Nat /\ OO \in Nat
  <2>1. A \in Nat /\ O \in Nat
    BY <1>3, Counts
  <2>2. CASE line' = line
    BY <1>3, <2>1, <2>2
  <2>3. CASE line' = Append(line, a)
    <3>1. line \in Seq(Frame)
      BY DEF LowInv, ModuleSound
    <3>2. /\ Len(line') = Len(line) + 1 /\ line'[Len(line) + 1] = a
          /\ \A i \in 1 .. Len(line) : line'[i] = line[i]
          /\ \A n \in 0 .. Len(line) :
               Answers(line', n) = Answers(line, n) /\ Others(line', n) = Others(line, n)
      BY <2>3, <3>1, CountsGrow
    <3>3. AA <= A + 1 /\ OO <= O + 1
      BY <2>3, <3>1, CountsGrow
    <3>4. a.type # "at" \/ a.cmd = "FR" => OO = O
      BY <2>3, <3>1, CountsGrow
    <3>5. c.step = "FR" => a.cmd = "FR"
      BY <1>1
    <3>6. AA \in Nat /\ OO \in Nat
      BY <1>3, <3>2, Counts
    <3> HIDE DEF A, O, AA, OO
    <3> QED  BY <1>3, <2>1, <3>2, <3>3, <3>4, <3>5, <3>6
  <2> QED  BY <1>1, <2>2, <2>3
<1>8. Restarting(todo) = 0
  BY <1>1 DEF Restarting, Asking
<1>9. \/ /\ ~(done /\ c.step = "FR")
         /\ Len(todo') = Len(todo) - 1 /\ Restarting(todo') = 0 /\ todo' = Tail(todo)
         /\ \A i \in 1 .. Len(todo') : i + 1 \in 2 .. Len(todo) /\ todo'[i] = todo[i + 1]
      \/ /\ done /\ c.step = "FR" /\ c.fid = 4
         /\ Len(todo') = Len(todo) /\ Restarting(todo') = 1
         /\ todo'[1].step = "restart" /\ todo'[1].fid = 4
         /\ \A i \in 2 .. Len(todo') : todo'[i] = todo[i]
  <2>1. CASE ~(done /\ c.step = "FR") /\ todo' = Tail(todo)
    <3>1. /\ Len(todo') = Len(todo) - 1 /\ TodoOK' /\ todo' \in Seq(Command)
          /\ \A i \in 1 .. Len(todo') : i + 1 \in 2 .. Len(todo) /\ todo'[i] = todo[i + 1]
      BY <1>1, <2>1, TodoTail DEF LowInv
    <3>2. ASSUME todo' # << >>
          PROVE  todo'[1].step # "restart"
      <4>1. Len(todo') # 0
        BY <3>1, <3>2, EmptySeq
      <4>2. 1 \in 1 .. Len(todo')
        BY <1>3, <3>1, <4>1
      <4>3. 1 + 1 \in 2 .. Len(todo) /\ todo'[1] = todo[1 + 1]
        BY <3>1, <4>2
      <4> QED  BY <4>3 DEF LowInv, TodoOK
    <3>3. Restarting(todo') = 0
      BY <3>2 DEF Restarting
    <3> QED  BY <2>1, <3>1, <3>3
  <2>2. CASE done /\ c.step = "FR" /\ todo' = <<[c EXCEPT !.step = "restart"]>> \o Tail(todo)
    <3>1. /\ Len(todo') = Len(todo) /\ todo' \in Seq(Command)
          /\ todo'[1].step = "restart" /\ todo'[1].fid = c.fid
          /\ \A i \in 2 .. Len(todo') : todo'[i] = todo[i]
      BY <1>1, <2>2, TodoRestart DEF LowInv
    <3>2. todo' # << >>
      BY <1>3, <3>1, EmptySeq
    <3>3. Restarting(todo') = 1
      BY <3>1, <3>2 DEF Restarting
    <3> QED  BY <1>4, <2>2, <3>1, <3>3
  <2> QED  BY <1>1, <2>1, <2>2
<1>10. Early' => Early
  BY <1>2 DEF Early
<1>11. Early /\ ~Mine(c, setting, fid) => 1 + O + fid <= 5 /\ 1 + A + fid <= 5
  <2>1. ASSUME Early, ~Mine(todo[1], setting, fid)
        PROVE  1 + O + fid <= 5 /\ 1 - Restarting(todo) + A + fid <= 5
    BY <1>3, <2>1 DEF HighInv, FewOld
  <2>2. 1 - Restarting(todo) + A + fid = 1 + A + fid
    BY <1>3, <1>7, <1>8
  <2> QED  BY <1>1, <2>1, <2>2
\* A command and the restart it becomes are of the same opening.
<1>12. c.step = "FR" /\ Mine(c, setting, fid) =>
         \A r : r.step = "restart" /\ r.fid = c.fid => Mine(r, setting, fid)
  BY Numbers DEF Mine
<1>13. FewOld'
  <2> SUFFICES ASSUME Early, NEW i \in 1 .. Len(todo'), ~Mine(todo'[i], setting, fid)
               PROVE  /\ i + OO + fid <= 5
                      /\ i - Restarting(todo') + AA + fid <= 5
    BY <1>2, <1>10 DEF FewOld
  <2>1. \A k \in 1 .. Len(todo) : ~Mine(todo[k], setting, fid) =>
          k + O + fid <= 5 /\ k + A + fid <= 5
    <3>1. ASSUME NEW k \in 1 .. Len(todo), ~Mine(todo[k], setting, fid)
          PROVE  k + O + fid <= 5 /\ k - Restarting(todo) + A + fid <= 5
      BY <3>1 DEF HighInv, FewOld
    <3>2. \A k \in 1 .. Len(todo) : k - Restarting(todo) + A + fid = k + A + fid
      BY <1>3, <1>7, <1>8
    <3> QED  BY <3>1, <3>2
  <2> HIDE DEF A, O, AA, OO, fid
  <2>2. CASE /\ Len(todo') = Len(todo) - 1 /\ Restarting(todo') = 0
             /\ \A k \in 1 .. Len(todo') : k + 1 \in 2 .. Len(todo) /\ todo'[k] = todo[k + 1]
    <3>1. i + 1 \in 1 .. Len(todo) /\ todo'[i] = todo[i + 1] /\ i \in Nat
      BY <1>3, <2>2
    <3>2. (i + 1) + O + fid <= 5 /\ (i + 1) + A + fid <= 5
      BY <2>1, <3>1
    <3> QED  BY <1>3, <1>7, <2>2, <3>1, <3>2
  <2>3. CASE /\ done /\ c.step = "FR" /\ c.fid = 4
             /\ Len(todo') = Len(todo) /\ Restarting(todo') = 1
             /\ todo'[1].step = "restart" /\ todo'[1].fid = 4
             /\ \A k \in 2 .. Len(todo') : todo'[k] = todo[k]
    <3>1. i + O + fid <= 5 /\ i + A + fid <= 5 /\ i \in Nat
      <4>1. CASE i = 1
        <5>1. ~Mine(c, setting, fid)
          BY <1>12, <2>3, <4>1
        <5> QED  BY <1>11, <4>1, <5>1
      <4>2. CASE i # 1
        <5>1. i \in 2 .. Len(todo') /\ i \in 1 .. Len(todo)
          BY <1>3, <2>3, <4>2
        <5> QED  BY <2>1, <2>3, <5>1
      <4> QED  BY <4>1, <4>2
    <3>2. OO <= O /\ AA <= A + 1 /\ A \in Nat /\ O \in Nat /\ AA \in Nat /\ OO \in Nat
      BY <1>7, <2>3
    <3>3. i + OO + fid <= 5 /\ i - 1 + AA + fid <= 5
      BY <1>3, <3>1, <3>2
    <3> QED  BY <2>3, <3>3
  <2> QED  BY <1>9, <2>2, <2>3
<1>14. FewAhead'
  <2> SUFFICES ASSUME Early, NEW j \in 1 .. Len(line'), line'[j].type = "at", line'[j].fid > fid
               PROVE  Answers(line', j) + fid <= 5
    BY <1>2, <1>10 DEF FewAhead
  <2>1. CASE j \in 1 .. Len(line) /\ line'[j] = line[j]
    BY <1>7, <2>1 DEF HighInv, FewAhead
  <2>2. CASE line'[j] = a /\ Len(line') = j
    <3>1. ~Mine(c, setting, fid)
      BY <1>1, <1>3, <1>4, <2>2 DEF Mine
    <3>2. Answers(line', j) = AA
      BY <2>2
    <3> HIDE DEF A, O, AA, OO, fid
    <3> QED  BY <1>3, <1>7, <1>11, <3>1, <3>2
  <2> QED  BY <1>7, <2>1, <2>2
\* Packets stay where they are.
<1>15. ASSUME NEW n, NEW p, Current(line, n, p)
       PROVE  Current(line', n, p)
  <2> SUFFICES ASSUME NEW k \in 1 .. Len(line'), k > n, line'[k].type = "data"
               PROVE  line'[k].panid = p
    BY DEF Current
  <2>1. k \in 1 .. Len(line) /\ line'[k] = line[k]
    BY <1>1, <1>7
  <2> QED  BY <1>15, <2>1 DEF Current
<1>16. \A j \in 1 .. Len(line') : \A p : Len(line') = j => Current(line', j, p)
  <2>1. \A j, k \in 1 .. Len(line') : Len(line') = j => ~(k > j)
    BY <1>3
  <2> QED  BY <2>1 DEF Current
<1>17. FourthIsOurs'
  <2> SUFFICES ASSUME Early, ~setting.reset_sw, NEW j \in 1 .. Len(line'),
                      line'[j].type = "at", line'[j].fid = 4, line'[j].cmd # "FR",
                      Others(line', j) + fid >= 5
               PROVE  Truthful(line'[j], radio'.panid) /\ Current(line', j, radio'.panid)
    BY <1>2, <1>10 DEF FourthIsOurs
  <2>1. CASE j \in 1 .. Len(line) /\ line'[j] = line[j]
    <3>1. Others(line', j) = Others(line, j) /\ Others(line, j) <= O /\ Others(line, j) \in Nat
      <4>1. j \in 0 .. Len(line) /\ j \in Nat
        BY <1>3, <2>1
      <4> QED  BY <1>3, <1>7, <2>1, <4>1, Counts
    <3>2. Truthful(line[j], radio.panid) /\ Current(line, j, radio.panid)
      BY <2>1, <3>1 DEF HighInv, FourthIsOurs
    <3>3. c.step # "setID"
      <4>1. fid <= 4
        BY DEF Early
      <4>2. 1 + O + fid > 5
        <5> HIDE DEF A, O, AA, OO, fid
        <5> QED  BY <1>3, <1>7, <3>1
      <4>3. Mine(c, setting, fid)
        <5> HIDE DEF A, O, AA, OO, fid
        <5> QED  BY <1>3, <1>7, <1>11, <4>2
      <4>4. c.fid <= 4
        <5>1. c.fid <= fid
          BY <4>3 DEF Mine
        <5> HIDE DEF fid
        <5> QED  BY <1>3, <1>4, <4>1, <5>1
      <4> QED  BY <1>4, <4>4
    <3> QED  BY <1>5, <1>15, <2>1, <3>2, <3>3
  <2>2. CASE line'[j] = a /\ Len(line') = j
    <3>1. c.step # "setID"
      BY <1>1, <1>4, <2>2
    <3> QED  BY <1>1, <1>5, <1>16, <2>2, <3>1
  <2> QED  BY <1>7, <2>1, <2>2
<1>18. io.fid >= 5 \/ io.at \in Waiting => Mine(c, setting, fid)
  BY <1>1, <1>3 DEF HighInv, AllOurs
<1>19. AllOurs'
  <2> SUFFICES ASSUME io.fid >= 5 \/ io.at \in Waiting
               PROVE  /\ \A i \in 1 .. Len(todo') : Mine(todo'[i], setting, fid)
                      /\ \A j \in 1 .. Len(line') : line'[j].type = "at" => line'[j].fid <= fid
    BY <1>2 DEF AllOurs
  <2>1. /\ \A i \in 1 .. Len(todo) : Mine(todo[i], setting, fid)
        /\ \A j \in 1 .. Len(line) : line[j].type = "at" => line[j].fid <= fid
    BY DEF HighInv, AllOurs
  <2>2. ASSUME NEW i \in 1 .. Len(todo')
        PROVE  Mine(todo'[i], setting, fid)
    <3>1. CASE \A k \in 1 .. Len(todo') : k + 1 \in 2 .. Len(todo) /\ todo'[k] = todo[k + 1]
      <4>1. i + 1 \in 1 .. Len(todo)
        BY <1>3, <3>1
      <4> QED  BY <2>1, <3>1, <4>1
    <3>2. CASE /\ c.step = "FR" /\ c.fid = 4 /\ Len(todo') = Len(todo)
               /\ todo'[1].step = "restart" /\ todo'[1].fid = 4
               /\ \A k \in 2 .. Len(todo') : todo'[k] = todo[k]
      <4>1. i = 1 \/ (i \in 2 .. Len(todo') /\ i \in 1 .. Len(todo))
        BY <1>3, <3>2
      <4> QED  BY <1>12, <1>18, <2>1, <3>2, <4>1
    <3> QED  BY <1>9, <3>1, <3>2
  <2>3. c.fid <= fid
    BY <1>18 DEF Mine
  <2> QED  BY <1>1, <1>7, <2>1, <2>2, <2>3
<1>20. io.fid >= 5 => \A j \in 1 .. Len(line) : ~(line[j].type = "at" /\ line[j].fid = io.fid)
  BY <1>1 DEF HighInv, LastIsLast
<1>21. LastIsLast'
  <2> SUFFICES ASSUME fid >= 5
               PROVE  /\ \A i \in 1 .. Len(todo') - 1 : todo'[i].fid < fid
                      /\ \A j \in 1 .. Len(line') :
                           line'[j].type = "at" /\ line'[j].fid = fid => todo' = << >>
    BY <1>2 DEF LastIsLast
  <2>1. \A i \in 1 .. Len(todo) - 1 : todo[i].fid < fid
    BY DEF HighInv, LastIsLast
  <2>2. CASE /\ Len(todo') = Len(todo) - 1 /\ todo' = Tail(todo)
             /\ \A k \in 1 .. Len(todo') : k + 1 \in 2 .. Len(todo) /\ todo'[k] = todo[k + 1]
    <3>1. \A i \in 1 .. Len(todo') - 1 :
            i + 1 \in 1 .. Len(todo) - 1 /\ todo'[i] = todo[i + 1]
      BY <1>3, <2>2
    <3>2. ASSUME NEW j \in 1 .. Len(line'), line'[j].type = "at", line'[j].fid = fid
          PROVE  todo' = << >>
      <4>1. c.fid = fid
        BY <1>1, <1>7, <1>20, <3>2
      <4>2. ~(1 \in 1 .. Len(todo) - 1)
        BY <1>1, <1>4, <2>1, <4>1
      <4>3. Len(todo') = 0
        BY <1>3, <2>2, <4>2
      <4>4. todo' \in Seq(Command)
        BY <1>1, <2>2, TodoTail DEF LowInv
      <4> QED  BY <4>3, <4>4, EmptySeq
    <3> QED  BY <2>1, <3>1, <3>2
  <2>3. CASE /\ c.fid = 4 /\ Len(todo') = Len(todo)
             /\ todo'[1].step = "restart" /\ todo'[1].fid = 4
             /\ \A k \in 2 .. Len(todo') : todo'[k] = todo[k]
    <3>1. ASSUME NEW i \in 1 .. Len(todo') - 1
          PROVE  todo'[i].fid < fid
      <4>1. CASE i = 1
        BY <1>3, <2>3, <4>1
      <4>2. CASE i # 1
        <5>1. i \in 2 .. Len(todo') /\ i \in 1 .. Len(todo) - 1
          BY <1>3, <2>3, <4>2
        <5> QED  BY <2>1, <2>3, <5>1
      <4> QED  BY <4>1, <4>2
    <3>2. ASSUME NEW j \in 1 .. Len(line'), line'[j].type = "at", line'[j].fid = fid
          PROVE  FALSE
      <4>1. c.fid = fid
        BY <1>1, <1>7, <1>20, <3>2
      <4> QED  BY <2>3, <4>1
    <3> QED  BY <3>1, <3>2
  <2> QED  BY <1>9, <2>2, <2>3
\* A command that moves the module moves it to where this opening wants it.
<1>22. io.fid >= 5 => \/ radio'.panid = radio.panid
                      \/ setting.new_panid /\ radio'.panid = setting.panid
  <2> SUFFICES ASSUME io.fid >= 5, radio'.panid # radio.panid
               PROVE  setting.new_panid /\ radio'.panid = setting.panid
    OBVIOUS
  <2>1. c.step = "setID" /\ radio'.panid = c.panid
    BY <1>5
  <2>2. c.fid \in NumbersOf(setting, "setID") /\ c.panid = setting.panid
    BY <1>18, <2>1 DEF Mine
  <2> QED  BY <2>1, <2>2, Numbers
<1>23. Moved'
  <2> SUFFICES ASSUME setting.new_panid
               PROVE  /\ io.at \in {"WR", "AI", "OP", "NP", "open"} => radio'.panid = setting.panid
                      /\ io.at = "setID" =>
                           \A j \in 1 .. Len(line') :
                              Hit(line'[j], io) => radio'.panid = setting.panid
    BY <1>2 DEF Moved
  <2>1. io.fid \in NumbersOf(setting, io.at)
    BY OpenDriver
  <2>2. io.at \in {"setID", "WR", "AI", "OP", "NP", "open"} => io.fid >= 5
    BY <2>1, Numbers
  <2>3. ASSUME io.at \in {"WR", "AI", "OP", "NP", "open"}
        PROVE  radio'.panid = setting.panid
    BY <1>22, <2>2, <2>3 DEF HighInv, Moved
  <2>4. ASSUME io.at = "setID", NEW j \in 1 .. Len(line'), Hit(line'[j], io)
        PROVE  radio'.panid = setting.panid
    <3>1. io.fid = 5
      BY <2>1, <2>4, Numbers
    <3>2. line'[j] = a
      BY <1>7, <1>20, <2>4, <3>1 DEF Hit
    <3>3. c.fid = 5 /\ a.cmd = "ID" /\ a.ok
      BY <1>1, <2>4, <3>1, <3>2 DEF Hit
    <3>4. done
      BY <1>1, <3>3
    <3>5. Mine(c, setting, fid)
      BY <1>18, <3>1
    <3>6. c.step \in {"setID", "ID"}
      BY <1>1, <3>3
    <3>7. c.step = "setID"
      BY <3>3, <3>5, <3>6, Numbers DEF Mine
    <3> QED  BY <1>6, <3>4, <3>5, <3>7 DEF Mine
  <2> QED  BY <2>3, <2>4
<1>24. AtHome'
  <2>1. ASSUME io.at \in {"OP", "NP", "open"}
        PROVE  Calm(todo')
    <3>1. Calm(todo)
      BY <2>1 DEF HighInv, AtHome
    <3>2. c.step # "FR"
      BY <1>1, <1>3, <3>1 DEF Calm
    <3>3. \A k \in 1 .. Len(todo') : k + 1 \in 1 .. Len(todo) /\ todo'[k] = todo[k + 1]
      BY <1>3, <1>9, <3>2
    <3> QED  BY <3>1, <3>3 DEF Calm
  <2>2. ASSUME io.at \in {"OP", "NP", "open"}
        PROVE  /\ Current(line', 0, radio'.panid)
               /\ io.rxpkt # NoPan => io.rxpkt = radio'.panid
    <3>1. io.fid >= 5
      BY <2>2, OpenDriver
    <3>2. radio'.panid = radio.panid
      BY <1>22, <2>2, <3>1 DEF HighInv, Moved
    <3> QED  BY <1>15, <2>2, <3>2 DEF HighInv, AtHome
  <2>3. ASSUME io.at = "AI", io.fid >= 5, NEW j \in 1 .. Len(line'), Hit(line'[j], io)
        PROVE  Current(line', j, radio'.panid)
    BY <1>7, <1>16, <1>20, <2>3 DEF Hit
  <2> QED  BY <1>2, <2>1, <2>2, <2>3 DEF AtHome
<1> QED  BY <1>13, <1>14, <1>17, <1>19, <1>21, <1>23, <1>24 DEF HighInv

\* What is left on the line when frames were read.
LEMMA RestFacts ==
  ASSUME LowInv, NEW n \in 0 .. Len(line), Consume(n)
  PROVE  /\ n \in Nat /\ Len(line') \in Nat
         /\ \A j \in 1 .. Len(line') :
              /\ n + j \in 1 .. Len(line) /\ line'[j] = line[n + j]
              /\ Answers(line', j) \in Nat /\ Others(line', j) \in Nat
              /\ Answers(line, n + j) \in Nat /\ Others(line, n + j) \in Nat
              /\ Answers(line', j) <= Answers(line, n + j)
              /\ Others(line', j) <= Others(line, n + j)
              /\ \A i \in 1 .. n : line[i].type = "at" =>
                   /\ Answers(line', j) + 1 <= Answers(line, n + j)
                   /\ line[i].cmd # "FR" => Others(line', j) + 1 <= Others(line, n + j)
         /\ Answers(line', Len(line')) \in Nat /\ Others(line', Len(line')) \in Nat
         /\ Answers(line, Len(line)) \in Nat /\ Others(line, Len(line)) \in Nat
         /\ Answers(line', Len(line')) <= Answers(line, Len(line))
         /\ Others(line', Len(line')) <= Others(line, Len(line))
         /\ \A i \in 1 .. n : line[i].type = "at" =>
              /\ Answers(line', Len(line')) + 1 <= Answers(line, Len(line))
              /\ line[i].cmd # "FR" => Others(line', Len(line')) + 1 <= Others(line, Len(line))
         /\ \A j \in 1 .. Len(line') : \A p : Current(line, n + j, p) => Current(line', j, p)
         /\ \A k \in 0 .. n, j \in 0 .. Len(line') : \A p :
              Current(line, k, p) => Current(line', j, p)
<1>1. /\ Len(line') = Len(line) - n
      /\ \A k \in 1 .. Len(line') : n + k \in 1 .. Len(line) /\ line'[k] = line[n + k]
  BY LineRest DEF LowInv
<1>2. n \in Nat /\ Len(line) \in Nat /\ Len(line') \in Nat /\ n + Len(line') = Len(line)
  BY <1>1, OpenDriver
<1>3. ASSUME NEW m \in 0 .. Len(line')
      PROVE  /\ Answers(line', m) \in Nat /\ Others(line', m) \in Nat
             /\ Answers(line, n + m) \in Nat /\ Others(line, n + m) \in Nat
             /\ Answers(line', m) <= Answers(line, n + m)
             /\ Others(line', m) <= Others(line, n + m)
             /\ \A i \in 1 .. n : line[i].type = "at" =>
                  /\ Answers(line', m) + 1 <= Answers(line, n + m)
                  /\ line[i].cmd # "FR" => Others(line', m) + 1 <= Others(line, n + m)
  <2>1. m \in Nat /\ n + m \in Nat /\ \A k \in 1 .. m : k \in 1 .. Len(line')
    BY <1>2
  <2>2. \A k \in 1 .. m : line'[k] = line[n + k]
    BY <1>1, <2>1
  <2>3. /\ Answers(line', m) \in Nat /\ Others(line', m) \in Nat
        /\ Answers(line, n + m) \in Nat /\ Others(line, n + m) \in Nat
    BY <2>1, Counts
  <2>4. \A q, p : (\A k \in 1 .. m : p[k] = q[n + k]) =>
          /\ Answers(p, m) <= Answers(q, n + m) /\ Others(p, m) <= Others(q, n + m)
          /\ \A i \in 1 .. n : q[i].type = "at" =>
               /\ Answers(p, m) + 1 <= Answers(q, n + m)
               /\ q[i].cmd # "FR" => Others(p, m) + 1 <= Others(q, n + m)
    BY <1>2, <2>1, CountsRest
  <2> QED  BY <2>2, <2>3, <2>4
<1>4. \A j \in 1 .. Len(line') : j \in 0 .. Len(line')
  BY <1>2
<1>5. ASSUME NEW j \in 1 .. Len(line'), NEW p, Current(line, n + j, p)
      PROVE  Current(line', j, p)
  <2> SUFFICES ASSUME NEW k \in 1 .. Len(line'), k > j, line'[k].type = "data"
               PROVE  line'[k].panid = p
    BY DEF Current
  <2>1. n + k \in 1 .. Len(line) /\ line'[k] = line[n + k] /\ n + k > n + j
    BY <1>1, <1>2
  <2> QED  BY <1>5, <2>1 DEF Current
<1>6. ASSUME NEW k \in 0 .. n, NEW j \in 0 .. Len(line'), NEW p, Current(line, k, p)
      PROVE  Current(line', j, p)
  <2> SUFFICES ASSUME NEW m \in 1 .. Len(line'), line'[m].type = "data"
               PROVE  line'[m].panid = p
    BY DEF Current
  <2>1. n + m \in 1 .. Len(line) /\ line'[m] = line[n + m] /\ n + m > k
    BY <1>1, <1>2
  <2> QED  BY <1>6, <2>1 DEF Current
<1>7. Len(line') \in 0 .. Len(line')
  BY <1>2
<1>8. /\ Answers(line', Len(line')) \in Nat /\ Others(line', Len(line')) \in Nat
      /\ Answers(line, Len(line)) \in Nat /\ Others(line, Len(line)) \in Nat
      /\ Answers(line', Len(line')) <= Answers(line, Len(line))
      /\ Others(line', Len(line')) <= Others(line, Len(line))
      /\ \A i \in 1 .. n : line[i].type = "at" =>
           /\ Answers(line', Len(line')) + 1 <= Answers(line, Len(line))
           /\ line[i].cmd # "FR" => Others(line', Len(line')) + 1 <= Others(line, Len(line))
  BY <1>2, <1>3, <1>7
<1>9. ASSUME NEW j \in 1 .. Len(line')
      PROVE  /\ n + j \in 1 .. Len(line) /\ line'[j] = line[n + j]
             /\ Answers(line', j) \in Nat /\ Others(line', j) \in Nat
             /\ Answers(line, n + j) \in Nat /\ Others(line, n + j) \in Nat
             /\ Answers(line', j) <= Answers(line, n + j)
             /\ Others(line', j) <= Others(line, n + j)
             /\ \A i \in 1 .. n : line[i].type = "at" =>
                  /\ Answers(line', j) + 1 <= Answers(line, n + j)
                  /\ line[i].cmd # "FR" => Others(line', j) + 1 <= Others(line, n + j)
  BY <1>1, <1>3, <1>4
<1> QED  BY <1>2, <1>5, <1>6, <1>8, <1>9

\* Frames are read, and no step ends.
LEMMA ReadKeeps ==
  ASSUME LowInv, HighInv, NEW n \in 0 .. Len(line), Reads(n)
  PROVE  HighInv'
<1>1. /\ PortOpen /\ Consume(n) /\ io' = Store(Seen(n))
      /\ radio' = radio /\ todo' = todo /\ setting' = setting /\ doubt' = doubt
  BY DEF Reads
<1>2. /\ io'.at = io.at /\ io'.fid = io.fid
      /\ \/ io'.rxpkt = io.rxpkt
         \/ \E k \in 1 .. n : line[k].type = "data" /\ io'.rxpkt = line[k].panid
  BY <1>1, StoreFields DEF LowInv
<1>3. /\ n \in Nat /\ io.fid \in Nat /\ Len(line) \in Nat
      /\ \A j \in 1 .. Len(line') : n + j \in 1 .. Len(line) /\ line'[j] = line[n + j]
  BY <1>1, RestFacts, OpenDriver
<1>4. Early' => Early
  BY <1>2 DEF Early
<1>5. FewOld'
  <2> SUFFICES ASSUME Early, NEW i \in 1 .. Len(todo), ~Mine(todo[i], setting, io.fid)
               PROVE  /\ i + Others(line', Len(line')) + io.fid <= 5
                      /\ i - Restarting(todo) + Answers(line', Len(line')) + io.fid <= 5
    BY <1>1, <1>2, <1>4 DEF FewOld
  <2>1. /\ i + Others(line, Len(line)) + io.fid <= 5
        /\ i - Restarting(todo) + Answers(line, Len(line)) + io.fid <= 5
    BY DEF HighInv, FewOld
  <2>2. Restarting(todo) \in {0, 1} /\ i \in Nat
    BY DEF Restarting
  <2>3. /\ Answers(line', Len(line')) \in Nat /\ Others(line', Len(line')) \in Nat
        /\ Answers(line, Len(line)) \in Nat /\ Others(line, Len(line)) \in Nat
        /\ Answers(line', Len(line')) <= Answers(line, Len(line))
        /\ Others(line', Len(line')) <= Others(line, Len(line))
    BY <1>1, RestFacts
  <2> DEFINE A  == Answers(line, Len(line))
             AA == Answers(line', Len(line'))
             O  == Others(line, Len(line))
             OO == Others(line', Len(line'))
             r  == Restarting(todo)
             f  == io.fid
  <2>4. /\ i + O + f <= 5 /\ i - r + A + f <= 5 /\ r \in {0, 1} /\ i \in Nat /\ f \in Nat
        /\ AA \in Nat /\ OO \in Nat /\ A \in Nat /\ O \in Nat /\ AA <= A /\ OO <= O
    BY <1>3, <2>1, <2>2, <2>3
  <2> HIDE DEF A, AA, O, OO, r, f
  <2>5. i + OO + f <= 5 /\ i - r + AA + f <= 5
    BY <2>4
  <2> QED  BY <2>5 DEF AA, OO, r, f
<1>6. FewAhead'
  <2> SUFFICES ASSUME Early, NEW j \in 1 .. Len(line'), line'[j].type = "at", line'[j].fid > io.fid
               PROVE  Answers(line', j) + io.fid <= 5
    BY <1>2, <1>4 DEF FewAhead
  <2>1. Answers(line, n + j) + io.fid <= 5
    BY <1>3 DEF HighInv, FewAhead
  <2>2. /\ Answers(line', j) \in Nat /\ Answers(line, n + j) \in Nat
        /\ Answers(line', j) <= Answers(line, n + j)
    BY <1>1, RestFacts
  <2> QED  BY <1>3, <2>1, <2>2
<1>7. FourthIsOurs'
  <2> SUFFICES ASSUME Early, ~setting.reset_sw, NEW j \in 1 .. Len(line'),
                      line'[j].type = "at", line'[j].fid = 4, line'[j].cmd # "FR",
                      Others(line', j) + io.fid >= 5
               PROVE  Truthful(line'[j], radio.panid) /\ Current(line', j, radio.panid)
    BY <1>1, <1>2, <1>4 DEF FourthIsOurs
  <2>1. /\ Others(line', j) \in Nat /\ Others(line, n + j) \in Nat
        /\ Others(line', j) <= Others(line, n + j)
    BY <1>1, RestFacts
  <2>2. Others(line, n + j) + io.fid >= 5
    BY <1>3, <2>1
  <2>3. Truthful(line[n + j], radio.panid) /\ Current(line, n + j, radio.panid)
    BY <1>3, <2>2 DEF HighInv, FourthIsOurs
  <2> QED  BY <1>1, <1>3, <2>3, RestFacts
<1>8. AllOurs'
  BY <1>1, <1>2, <1>3 DEF HighInv, AllOurs
<1>9. LastIsLast'
  BY <1>1, <1>2, <1>3 DEF HighInv, LastIsLast
<1>10. \A f : Hit(f, io') <=> Hit(f, io)
  BY <1>2 DEF Hit
<1>11. Moved'
  BY <1>1, <1>2, <1>3, <1>10 DEF HighInv, Moved
<1>12. AtHome'
  <2>1. ASSUME io.at \in {"OP", "NP", "open"}
        PROVE  /\ Current(line', 0, radio.panid)
               /\ io'.rxpkt # NoPan => io'.rxpkt = radio.panid
    <3>1. Current(line, 0, radio.panid) /\ (io.rxpkt # NoPan => io.rxpkt = radio.panid)
      BY <2>1 DEF HighInv, AtHome
    <3>2. Current(line', 0, radio.panid)
      <4>1. 0 \in 0 .. n /\ 0 \in 0 .. Len(line')
        BY <1>1, <1>3, RestFacts
      <4> QED  BY <1>1, <3>1, <4>1, RestFacts
    <3>3. \A k \in 1 .. n : line[k].type = "data" => line[k].panid = radio.panid
      <4>1. \A k \in 1 .. n : k \in 1 .. Len(line) /\ k > 0
        BY <1>3
      <4> QED  BY <3>1, <4>1 DEF Current
    <3> QED  BY <1>2, <3>1, <3>2, <3>3
  <2>2. ASSUME io.at = "AI", io.fid >= 5, NEW j \in 1 .. Len(line'), Hit(line'[j], io)
        PROVE  Current(line', j, radio.panid)
    <3>1. Current(line, n + j, radio.panid)
      BY <1>3, <2>2 DEF HighInv, AtHome
    <3> QED  BY <1>1, <3>1, RestFacts
  <2> QED  BY <1>1, <1>2, <1>10, <2>1, <2>2 DEF HighInv, AtHome
<1> QED  BY <1>5, <1>6, <1>7, <1>8, <1>9, <1>11, <1>12 DEF HighInv

\* The port is opened: Backlog commands may be there.
LEMMA OpenKeeps ==
  ASSUME LowInv, Opens, ~doubt'
  PROVE  HighInv'
<1>1. /\ line' = << >> /\ Len(line') = 0 /\ io'.at = "VR" /\ io'.fid = 1 /\ setting' = setting
      /\ \/ todo' = todo
         \/ \E c \in Command :
              /\ todo' = Append(todo, c)
              /\ c.step = "VR" /\ c.fid = 1
  BY OpenGoesOn DEF Opens
<1>2. /\ Len(todo) \in Nat /\ Len(todo) <= 4 /\ todo \in Seq(Command)
  <2>1. Len(todo) \in Nat /\ todo \in Seq(Command)
    BY LenProperties DEF LowInv, ModuleSound
  <2>2. ~(Len(todo) > Backlog)
    BY DEF Opens
  <2> QED  BY <2>1, <2>2 DEF Backlog
<1>3. ASSUME NEW i \in 1 .. Len(todo'), ~Mine(todo'[i], setting, 1)
      PROVE  i <= 4
  <2>1. CASE todo' = todo
    BY <1>2, <2>1
  <2>2. ASSUME NEW c \in Command, todo' = Append(todo, c), c.step = "VR", c.fid = 1
        PROVE  i <= 4
    <3>1. Len(todo') = Len(todo) + 1 /\ todo'[Len(todo) + 1] = c
      BY <1>2, <2>2, AppendType
    <3>2. Mine(c, setting, 1)
      BY <2>2, Numbers DEF Mine
    <3>3. i # Len(todo) + 1
      BY <1>3, <3>1, <3>2
    <3> QED  BY <1>2, <3>1, <3>3
  <2> QED  BY <1>1, <2>1, <2>2
<1>4. Answers(line', Len(line')) = 0 /\ Others(line', Len(line')) = 0
  <2>1. AnswersAt(line', 0) = {} /\ OthersAt(line', 0) = {}
    BY DEF AnswersAt, OthersAt
  <2> QED  BY <1>1, <2>1, FS_EmptySet DEF Answers, Others
<1>5. FewOld'
  <2>1. Restarting(todo') \in {0, 1}
    BY DEF Restarting
  <2>2. ASSUME NEW i \in 1 .. Len(todo'), ~Mine(todo'[i], setting, 1)
        PROVE  i + 0 + 1 <= 5 /\ i - Restarting(todo') + 0 + 1 <= 5
    BY <1>3, <2>1, <2>2
  <2> QED  BY <1>1, <1>4, <2>2 DEF FewOld
<1>6. FewAhead' /\ FourthIsOurs'
  BY <1>1 DEF FewAhead, FourthIsOurs
<1>7. AllOurs' /\ LastIsLast'
  BY <1>1 DEF AllOurs, LastIsLast, Waiting
<1>8. Moved' /\ AtHome'
  BY <1>1 DEF Moved, AtHome
<1> QED  BY <1>5, <1>6, <1>7, <1>8 DEF HighInv

\* The packet in the slot is taken.
LEMMA RecvKeeps ==
  ASSUME LowInv, HighInv, IoRecv
  PROVE  HighInv'
<1>1. /\ io.at = "open" /\ io'.at = "open" /\ io'.fid = io.fid /\ io'.rxpkt = NoPan
      /\ radio' = radio /\ todo' = todo /\ line' = line
      /\ setting' = setting /\ doubt' = doubt
  BY RecvLow DEF IoRecv
<1>2. FewOld' /\ FewAhead' /\ FourthIsOurs'
  BY <1>1 DEF FewOld, FewAhead, FourthIsOurs, Early, Asking
<1>3. AllOurs' /\ LastIsLast'
  BY <1>1 DEF HighInv, AllOurs, LastIsLast
<1>4. Moved' /\ AtHome'
  BY <1>1 DEF HighInv, Moved, AtHome
<1> QED  BY <1>2, <1>3, <1>4 DEF HighInv

LEMMA MineLater ==
  ASSUME NEW c, NEW f \in Nat, NEW g \in Nat, f <= g, Mine(c, setting, f), c.fid \in Nat
  PROVE  Mine(c, setting, g)
BY DEF Mine

\* A status has come that was waited for.
LEMMA AwaitKeeps ==
  ASSUME LowInv, HighInv, NEW n \in 0 .. Len(line), NEW s, Awaits(n, s)
  PROVE  HighInv'
<1>1. /\ io.at \in Waiting /\ s \in {"join", "AI"} /\ Consume(n)
      /\ radio' = radio /\ setting' = setting /\ doubt' = doubt
  BY DEF Awaits
<1>2. /\ LowInv' /\ io.fid = 4 /\ setting.reset_sw
      /\ io'.at = s /\ io'.fid = (IF s = "AI" THEN 5 ELSE 4)
      /\ \/ todo' = todo
         \/ \E c \in Command :
              /\ s = "AI" /\ todo' = Append(todo, c)
              /\ c.step = s /\ c.fid = 5
  BY AwaitGoesOn
<1>3. /\ ~setting.new_panid /\ Len(todo) \in Nat /\ todo \in Seq(Command)
      /\ \A i \in 1 .. Len(todo) : todo[i].fid \in Nat
  <2>1. \A i \in 1 .. Len(todo) : todo[i] \in Command
    BY OpenDriver
  <2> QED  BY <1>2, <2>1, OpenDriver, CommandFields DEF LowInv, ModuleSound
<1>4. /\ \A i \in 1 .. Len(todo) : Mine(todo[i], setting, 4) /\ todo[i].fid <= 4
      /\ \A j \in 1 .. Len(line) : line[j].type = "at" => line[j].fid <= 4
  BY <1>1, <1>2 DEF HighInv, AllOurs, Mine
<1>5. \A j \in 1 .. Len(line') : line'[j].type = "at" => line'[j].fid <= 4 /\ line'[j].fid \in Nat
  <2>1. \A j \in 1 .. Len(line') : n + j \in 1 .. Len(line) /\ line'[j] = line[n + j]
    BY <1>1, RestFacts
  <2>2. \A j \in 1 .. Len(line) : line[j].type = "at" => line[j].fid \in Nat
    BY OpenDriver, FrameFields
  <2> QED  BY <1>4, <2>1, <2>2
<1>6. ASSUME NEW i \in 1 .. Len(todo')
      PROVE  /\ Mine(todo'[i], setting, io'.fid)
             /\ i \in 1 .. Len(todo') - 1 \/ s = "join" => todo'[i].fid <= 4 /\ todo'[i].fid \in Nat
  <2>1. \A k \in 1 .. Len(todo) : Mine(todo[k], setting, io'.fid)
    BY <1>2, <1>3, <1>4, MineLater
  <2>2. CASE todo' = todo
    BY <1>3, <1>4, <2>1, <2>2
  <2>3. ASSUME NEW c \in Command, s = "AI", todo' = Append(todo, c),
               c.step = s, c.fid = 5
        PROVE  /\ Mine(todo'[i], setting, io'.fid)
               /\ i \in 1 .. Len(todo') - 1 \/ s = "join"
                    => todo'[i].fid <= 4 /\ todo'[i].fid \in Nat
    <3>1. /\ Len(todo') = Len(todo) + 1 /\ todo'[Len(todo) + 1] = c
          /\ \A k \in 1 .. Len(todo) : todo'[k] = todo[k]
      BY <1>3, <2>3, AppendType
    <3>2. Mine(c, setting, io'.fid)
      BY <1>2, <1>3, <2>3, Numbers DEF Mine
    <3>3. i = Len(todo) + 1 \/ i \in 1 .. Len(todo)
      BY <1>3, <3>1
    <3>4. i \in 1 .. Len(todo') - 1 => i \in 1 .. Len(todo)
      BY <1>3, <3>1
    <3> QED  BY <1>3, <1>4, <2>1, <2>3, <3>1, <3>2, <3>3, <3>4
  <2> QED  BY <1>2, <2>2, <2>3
<1>7. io'.at \notin {"OP", "NP", "open"} /\ ~Early'
  BY <1>1, <1>2 DEF Early, Asking
<1>8. FewOld' /\ FewAhead' /\ FourthIsOurs'
  BY <1>7 DEF FewOld, FewAhead, FourthIsOurs
<1>9. AllOurs'
  <2>1. \A j \in 1 .. Len(line') : line'[j].type = "at" => line'[j].fid <= io'.fid
    BY <1>2, <1>5
  <2> QED  BY <1>1, <1>6, <2>1 DEF AllOurs
<1>10. LastIsLast'
  <2>1. io'.fid >= 5 => io'.fid = 5
    BY <1>2
  <2>2. \A i \in 1 .. Len(todo') - 1 : todo'[i].fid < 5
    <3>1. \A i \in 1 .. Len(todo') - 1 : i \in 1 .. Len(todo')
      BY <1>2, LenProperties DEF LowInv, ModuleSound
    <3> QED  BY <1>6, <3>1
  <2>3. \A j \in 1 .. Len(line') : line'[j].type = "at" => line'[j].fid # 5
    BY <1>5
  <2> QED  BY <2>1, <2>2, <2>3 DEF LastIsLast
<1>11. Moved'
  BY <1>1, <1>3 DEF Moved
<1>12. AtHome'
  <2>1. ASSUME s = "AI", NEW j \in 1 .. Len(line'), Hit(line'[j], io')
        PROVE  FALSE
    BY <1>2, <1>5, <2>1 DEF Hit
  <2> QED  BY <1>2, <1>7, <2>1 DEF AtHome
<1> QED  BY <1>8, <1>9, <1>10, <1>11, <1>12 DEF HighInv

\* The opening goes on.
LEMMA AcceptKeeps ==
  ASSUME LowInv, HighInv, NEW n \in 0 .. Len(line), NEW i \in 1 .. n, Accepts(n, i), ~doubt'
  PROVE  HighInv'
<1> DEFINE s == Following(io.at, line[i])
           fid == io.fid
<1>1. /\ io.at \in Asking /\ line[i].type = "at" /\ IsAnswer(line[i], io.at) /\ Consume(n)
      /\ radio' = radio /\ setting' = setting /\ ~Unread(line[i])
  BY DEF Accepts
<1>2. Hit(line[i], io)
  BY <1>1 DEF IsAnswer, Hit
<1>3. /\ LowInv'
      /\ i \in 1 .. Len(line) /\ line[i] \in Frame
      /\ s \in Asking \/ s \in {"reset", "open"}
      /\ io'.at = s /\ io'.fid = (IF s \in Asking THEN fid + 1 ELSE fid)
      /\ \/ io'.rxpkt = io.rxpkt
         \/ /\ TakesPackets(io.at)
            /\ \E k \in 1 .. n : line[k].type = "data" /\ io'.rxpkt = line[k].panid
      /\ \/ todo' = todo
         \/ \E c \in Command :
              /\ s \in Asking /\ todo' = Append(todo, c)
              /\ c.step = s /\ c.fid = fid + 1
              /\ s = "setID" => c.panid = setting.panid
  BY AcceptGoesOn
<1>4. s = Following(io.at, line[i])
  OBVIOUS
<1> HIDE DEF s
<1>5. /\ fid \in Nat /\ fid \in NumbersOf(setting, io.at)
      /\ setting.new_panid \in BOOLEAN /\ setting.reset_sw \in BOOLEAN
      /\ (setting.new_panid => ~setting.reset_sw)
      /\ Len(line) \in Nat /\ Len(todo) \in Nat /\ todo \in Seq(Command) /\ n \in Nat
      /\ \A j \in 1 .. Len(line) : line[j] \in Frame
      /\ \A k \in 1 .. Len(todo) : todo[k] \in Command /\ todo[k].fid \in Nat
  <2>1. \A k \in 1 .. Len(todo) : todo[k] \in Command
    BY OpenDriver
  <2>2. n \in Nat
    BY <1>1, RestFacts
  <2> QED  BY <2>1, <2>2, OpenDriver, CommandFields DEF LowInv, ModuleSound
<1>6. /\ Len(line') \in Nat
      /\ \A j \in 1 .. Len(line') :
           /\ n + j \in 1 .. Len(line) /\ line'[j] = line[n + j]
           /\ line'[j].type = "at" => line'[j].fid \in Nat
  <2>1. \A j \in 1 .. Len(line) : line[j].type = "at" => line[j].fid \in Nat
    BY <1>5, FrameFields
  <2>2. /\ Len(line') \in Nat
        /\ \A j \in 1 .. Len(line') : n + j \in 1 .. Len(line) /\ line'[j] = line[n + j]
    BY <1>1, RestFacts
  <2> QED  BY <2>1, <2>2
<1>7. line[i].cmd = (IF io.at = "setID" THEN "ID" ELSE io.at) /\ line[i].fid = fid
  BY <1>2 DEF Hit
<1>8. fid <= 4 => Early
  BY <1>1 DEF Early
\* Nothing is left of before, once the fourth answer is there.
<1>9. ASSUME fid >= 4
      PROVE  /\ \A k \in 1 .. Len(todo) : Mine(todo[k], setting, fid)
             /\ \A j \in 1 .. Len(line') : line'[j].type = "at" => line'[j].fid <= fid
  <2>1. CASE fid >= 5
    <3>1. /\ \A k \in 1 .. Len(todo) : Mine(todo[k], setting, fid)
          /\ \A j \in 1 .. Len(line) : line[j].type = "at" => line[j].fid <= fid
      BY <2>1 DEF HighInv, AllOurs
    <3> QED  BY <1>6, <3>1
  <2>2. CASE fid = 4
    <3>1. Early
      BY <1>8, <2>2
    <3>2. /\ Answers(line, Len(line)) \in Nat /\ Answers(line, Len(line)) >= 1
          /\ Others(line, Len(line)) \in Nat
          /\ line[i].cmd # "FR" => Others(line, Len(line)) >= 1
      BY <1>1, <1>3, <1>5, Counts
    <3>3. ASSUME NEW k \in 1 .. Len(todo), ~Mine(todo[k], setting, fid)
          PROVE  FALSE
      <4>1. /\ k + Others(line, Len(line)) + fid <= 5
            /\ k - Restarting(todo) + Answers(line, Len(line)) + fid <= 5
        BY <3>1, <3>3 DEF HighInv, FewOld
      <4> DEFINE A == Answers(line, Len(line))
                 O == Others(line, Len(line))
      <4>2. A \in Nat /\ A >= 1 /\ O \in Nat /\ k + O + fid <= 5
        BY <3>2, <4>1
      <4>3. ~(O >= 1)
        <5> HIDE DEF O
        <5> QED  BY <2>2, <4>2
      <4>4. line[i].cmd = "FR" /\ io.at = "FR"
        BY <1>7, <3>2, <4>3
      <4>5. setting.reset_sw
        BY <1>5, <4>4, Numbers
      <4>6. k = 1 /\ Restarting(todo) = 1
        <5>1. Restarting(todo) \in {0, 1}
          BY DEF Restarting
        <5> DEFINE r == Restarting(todo)
        <5>2. k - r + A + fid <= 5 /\ r \in {0, 1}
          BY <4>1, <5>1
        <5> HIDE DEF A, r, fid
        <5>3. k = 1 /\ r = 1
          BY <2>2, <4>2, <5>2
        <5> QED  BY <5>3 DEF r
      <4>7. todo[1].step = "restart"
        BY <4>6 DEF Restarting
      <4>8. todo[1].fid = 4
        BY <4>6, <4>7 DEF LowInv, TodoOK
      <4>9. Mine(todo[1], setting, fid)
        BY <2>2, <4>5, <4>7, <4>8, Numbers DEF Mine
      <4> QED  BY <3>3, <4>6, <4>9
    <3>4. ASSUME NEW j \in 1 .. Len(line'), line'[j].type = "at", ~(line'[j].fid <= fid)
          PROVE  FALSE
      <4>1. /\ Answers(line', j) \in Nat /\ Answers(line, n + j) \in Nat
            /\ Answers(line', j) + 1 <= Answers(line, n + j)
            /\ n + j \in 1 .. Len(line) /\ line'[j] = line[n + j]
        BY <1>1, RestFacts
      <4>2. line[n + j].fid > fid /\ line[n + j].type = "at"
        BY SMTT(30), <1>5, <1>6, <3>4, <4>1
      <4>3. Answers(line, n + j) + fid <= 5
        BY <3>1, <4>1, <4>2 DEF HighInv, FewAhead
      <4>4. Answers(line', j) >= 1
        <5>1. j \in Nat /\ j \in 1 .. j
          BY <1>6
        <5> QED  BY <3>4, <5>1, Counts
      <4> QED  BY <2>2, <4>1, <4>3, <4>4
    <3> QED  BY <3>3, <3>4
  <2> QED  BY <1>5, <1>9, <2>1, <2>2
<1>10. fid + 1 \in Nat /\ fid <= fid + 1 /\ io'.fid \in Nat /\ fid <= io'.fid
  BY <1>3, <1>5
<1>11. ASSUME NEW c, c.step = s, c.fid = fid + 1, s = "setID" => c.panid = setting.panid,
              s \in Asking
       PROVE  Mine(c, setting, io'.fid)
  <2>1. io'.fid \in NumbersOf(setting, s) /\ io'.fid = fid + 1
    BY <1>1, <1>3, <1>11 DEF LowInv, DriverOK
  <2> QED  BY <1>5, <1>11, <2>1 DEF Mine
<1>12. /\ Restarting(todo') = Restarting(todo)
       /\ Len(todo') \in Nat
       /\ \A k \in 1 .. Len(todo') :
            \/ k \in 1 .. Len(todo) /\ todo'[k] = todo[k]
            \/ /\ s \in Asking /\ k = Len(todo') /\ Mine(todo'[k], setting, io'.fid)
               /\ todo'[k].step = s
  <2>1. CASE todo' = todo
    BY <1>5, <2>1
  <2>2. ASSUME NEW c \in Command, s \in Asking, todo' = Append(todo, c),
               c.step = s, c.fid = fid + 1, s = "setID" => c.panid = setting.panid
        PROVE  /\ Restarting(todo') = Restarting(todo)
               /\ Len(todo') \in Nat
               /\ \A k \in 1 .. Len(todo') :
                    \/ k \in 1 .. Len(todo) /\ todo'[k] = todo[k]
                    \/ /\ s \in Asking /\ k = Len(todo') /\ Mine(todo'[k], setting, io'.fid)
                       /\ todo'[k].step = s
    <3>1. /\ Len(todo') = Len(todo) + 1 /\ todo'[Len(todo) + 1] = c /\ todo' \in Seq(Command)
          /\ \A k \in 1 .. Len(todo) : todo'[k] = todo[k]
      BY <1>5, <2>2, AppendType
    <3>2. Mine(c, setting, io'.fid)
      BY <1>11, <2>2
    <3>3. \A k \in 1 .. Len(todo') : k \in 1 .. Len(todo) \/ k = Len(todo) + 1
      BY <1>5, <3>1
    <3>4. Restarting(todo') = Restarting(todo)
      <4>1. todo' # << >>
        BY <1>5, <3>1, EmptySeq
      <4>2. CASE todo = << >>
        <5>1. todo'[1] = c
          BY <3>1, <4>2, EmptySeq
        <5>2. c.step # "restart"
          BY <2>2 DEF Asking
        <5> QED  BY <4>2, <5>1, <5>2 DEF Restarting
      <4>3. CASE todo # << >>
        <5>1. 1 \in 1 .. Len(todo)
          BY <1>5, <4>3, EmptySeq
        <5> QED  BY <3>1, <4>1, <4>3, <5>1 DEF Restarting
      <4> QED  BY <4>2, <4>3
    <3> QED  BY <1>5, <2>2, <3>1, <3>2, <3>3, <3>4
  <2> QED  BY <1>3, <2>1, <2>2
\* This opening's commands stay its own.
<1>13. \A k \in 1 .. Len(todo) : Mine(todo[k], setting, fid) => Mine(todo[k], setting, io'.fid)
  BY <1>5, <1>10, MineLater
<1>14. ASSUME Early'
       PROVE  /\ Early /\ fid <= 3 /\ io'.fid = fid + 1 /\ line[i].cmd # "FR"
  <2>1. s \in Asking /\ io'.fid = fid + 1 /\ fid + 1 <= 4
    BY <1>3, <1>14 DEF Early
  <2>2. fid <= 3 /\ Early
    BY <1>5, <1>8, <2>1
  <2>3. io.at # "FR"
    <3>1. io.at = "FR" => fid = 4
      BY <1>5, Numbers
    <3> QED  BY <2>2, <3>1
  <2> QED  BY <1>7, <2>1, <2>2, <2>3
<1>15. FewOld'
  <2> SUFFICES ASSUME Early', NEW k \in 1 .. Len(todo'), ~Mine(todo'[k], setting, io'.fid)
               PROVE  /\ k + Others(line', Len(line')) + io'.fid <= 5
                      /\ k - Restarting(todo') + Answers(line', Len(line')) + io'.fid <= 5
    BY <1>1 DEF FewOld
  <2>1. k \in 1 .. Len(todo) /\ ~Mine(todo[k], setting, fid)
    BY <1>12, <1>13
  <2>2. /\ k + Others(line, Len(line)) + fid <= 5
        /\ k - Restarting(todo) + Answers(line, Len(line)) + fid <= 5
    BY <1>14, <2>1 DEF HighInv, FewOld
  <2> DEFINE A  == Answers(line, Len(line))
             AA == Answers(line', Len(line'))
             O  == Others(line, Len(line))
             OO == Others(line', Len(line'))
             r  == Restarting(todo)
  <2>3. /\ AA \in Nat /\ OO \in Nat /\ A \in Nat /\ O \in Nat /\ AA + 1 <= A /\ OO + 1 <= O
    BY <1>1, <1>14, RestFacts
  <2>4. r \in {0, 1} /\ k \in Nat /\ k + O + fid <= 5 /\ k - r + A + fid <= 5
    BY <2>1, <2>2 DEF Restarting
  <2>6. fid \in Nat
    BY <1>5
  <2> HIDE DEF A, AA, O, OO, r, fid
  <2>5. k + OO + (fid + 1) <= 5 /\ k - r + AA + (fid + 1) <= 5
    BY <2>3, <2>4, <2>6
  <2> QED  BY <1>12, <1>14, <2>5 DEF AA, OO, r
<1>16. FewAhead'
  <2> SUFFICES ASSUME Early', NEW j \in 1 .. Len(line'), line'[j].type = "at",
                      line'[j].fid > io'.fid
               PROVE  Answers(line', j) + io'.fid <= 5
    BY DEF FewAhead
  <2>1. /\ Answers(line', j) \in Nat /\ Answers(line, n + j) \in Nat
        /\ Answers(line', j) + 1 <= Answers(line, n + j)
    BY <1>1, RestFacts
  <2>2. line[n + j].type = "at" /\ line[n + j].fid > fid
    BY SMTT(30), <1>5, <1>6, <1>14
  <2>3. Answers(line, n + j) + fid <= 5
    BY <1>6, <1>14, <2>2 DEF HighInv, FewAhead
  <2> HIDE DEF fid
  <2> QED  BY SMTT(30), <1>5, <1>14, <2>1, <2>3
<1>17. FourthIsOurs'
  <2> SUFFICES ASSUME Early', ~setting.reset_sw, NEW j \in 1 .. Len(line'),
                      line'[j].type = "at", line'[j].fid = 4, line'[j].cmd # "FR",
                      Others(line', j) + io'.fid >= 5
               PROVE  Truthful(line'[j], radio.panid) /\ Current(line', j, radio.panid)
    BY <1>1 DEF FourthIsOurs
  <2>1. /\ Others(line', j) \in Nat /\ Others(line, n + j) \in Nat
        /\ Others(line', j) + 1 <= Others(line, n + j)
    BY <1>1, <1>14, RestFacts
  <2>2. Others(line, n + j) + fid >= 5
    <3> HIDE DEF fid
    <3> QED  BY SMTT(30), <1>5, <1>14, <2>1
  <2>3. Truthful(line[n + j], radio.panid) /\ Current(line, n + j, radio.panid)
    BY <1>6, <1>14, <2>2 DEF HighInv, FourthIsOurs
  <2> QED  BY <1>1, <1>6, <2>3, RestFacts
<1>18. s \in Waiting \/ io'.fid >= 5 => fid >= 4
  <2>1. s \in Waiting => fid \in NumbersOf(setting, "reset")
    BY <1>1, <1>3 DEF LowInv, DriverOK, Waiting, Asking
  <2>2. s \in Waiting => fid = 4
    BY <1>5, <2>1, Numbers
  <2> QED  BY <1>3, <1>5, <2>2
<1>19. AllOurs'
  <2> SUFFICES ASSUME io'.fid >= 5 \/ s \in Waiting
               PROVE  /\ \A k \in 1 .. Len(todo') : Mine(todo'[k], setting, io'.fid)
                      /\ \A j \in 1 .. Len(line') : line'[j].type = "at" => line'[j].fid <= io'.fid
    BY <1>1, <1>3 DEF AllOurs
  <2>1. /\ \A k \in 1 .. Len(todo) : Mine(todo[k], setting, fid)
        /\ \A j \in 1 .. Len(line') : line'[j].type = "at" => line'[j].fid <= fid
    BY <1>9, <1>18
  <2>2. \A k \in 1 .. Len(todo') : Mine(todo'[k], setting, io'.fid)
    BY <1>12, <1>13, <2>1
  <2>3. \A j \in 1 .. Len(line') : line'[j].type = "at" => line'[j].fid <= io'.fid
    BY <1>5, <1>6, <1>10, <2>1
  <2> QED  BY <2>2, <2>3
<1>20. fid >= 4 => \A k \in 1 .. Len(todo) : todo[k].fid <= fid
  BY <1>9 DEF Mine
<1>21. s \in Asking /\ fid >= 4 =>
         \A j \in 1 .. Len(line') : ~(line'[j].type = "at" /\ line'[j].fid = io'.fid)
  <2> SUFFICES ASSUME s \in Asking, fid >= 4, NEW j \in 1 .. Len(line'), line'[j].type = "at"
               PROVE  line'[j].fid # io'.fid
    OBVIOUS
  <2>1. line'[j].fid <= fid /\ line'[j].fid \in Nat /\ io'.fid = fid + 1
    BY <1>3, <1>6, <1>9
  <2> HIDE DEF fid
  <2> QED  BY <1>5, <2>1
<1>22. LastIsLast'
  <2> SUFFICES ASSUME io'.fid >= 5
               PROVE  /\ \A k \in 1 .. Len(todo') - 1 : todo'[k].fid < io'.fid
                      /\ \A j \in 1 .. Len(line') :
                           line'[j].type = "at" /\ line'[j].fid = io'.fid => todo' = << >>
    BY DEF LastIsLast
  <2>1. fid >= 4
    BY <1>18
  <2>2. CASE s \in Asking
    <3>1. io'.fid = fid + 1
      BY <1>3, <2>2
    <3>2. ASSUME NEW k \in 1 .. Len(todo') - 1
          PROVE  todo'[k].fid < io'.fid
      <4>1. k \in 1 .. Len(todo') /\ k # Len(todo')
        BY <1>12
      <4>2. k \in 1 .. Len(todo) /\ todo'[k] = todo[k]
        BY <1>12, <4>1
      <4>3. todo[k].fid <= fid /\ todo[k].fid \in Nat
        BY <1>5, <1>20, <2>1, <4>2
      <4> HIDE DEF fid
      <4> QED  BY <1>5, <3>1, <4>2, <4>3
    <3> QED  BY <1>21, <2>1, <2>2, <3>2
  <2>3. CASE s \notin Asking
    <3>1. io'.fid = fid /\ todo' = todo
      BY <1>3, <2>3
    <3>2. /\ \A k \in 1 .. Len(todo) - 1 : todo[k].fid < fid
          /\ \A j \in 1 .. Len(line) : line[j].type = "at" /\ line[j].fid = fid => todo = << >>
      BY <3>1 DEF HighInv, LastIsLast
    <3> QED  BY <1>6, <3>1, <3>2
  <2> QED  BY <2>2, <2>3
\* What the fourth answer says is so, when nobody has asked for a reset.
<1>23. fid = 4 /\ ~setting.reset_sw =>
         Truthful(line[i], radio.panid) /\ Current(line, i, radio.panid)
  <2> SUFFICES ASSUME fid = 4, ~setting.reset_sw
               PROVE  Truthful(line[i], radio.panid) /\ Current(line, i, radio.panid)
    OBVIOUS
  <2>1. Early
    BY <1>8
  <2>2. io.at # "FR"
    BY <1>5, Numbers
  <2>3. line[i].cmd # "FR"
    BY <1>7, <2>2
  <2>4. Others(line, i) \in Nat /\ Others(line, i) >= 1
    <3>1. i \in Nat /\ i \in 1 .. i
      BY <1>3, <1>5
    <3> QED  BY <1>1, <2>3, <3>1, Counts
  <2>5. Others(line, i) + fid >= 5
    BY <2>4
  <2> QED  BY <1>1, <1>3, <1>7, <2>1, <2>3, <2>5 DEF HighInv, FourthIsOurs
<1>24. Moved'
  <2> SUFFICES ASSUME setting.new_panid
               PROVE  /\ s \in {"WR", "AI", "OP", "NP", "open"} => radio.panid = setting.panid
                      /\ s = "setID" => \A j \in 1 .. Len(line') : ~Hit(line'[j], io')
    BY <1>1, <1>3 DEF Moved
  <2>1. ASSUME s = "setID", NEW j \in 1 .. Len(line'), Hit(line'[j], io')
        PROVE  FALSE
    <3>1. s \in Asking
      BY <2>1 DEF Asking
    <3>2. io'.fid = 5
      BY <1>1, <1>3, <2>1, Numbers DEF LowInv, DriverOK
    <3>3. fid >= 4
      BY <1>18, <3>2
    <3> QED  BY <1>21, <2>1, <3>1, <3>3 DEF Hit
  <2>2. ASSUME s \in {"WR", "AI", "OP", "NP", "open"}
        PROVE  radio.panid = setting.panid
    <3>1. CASE io.at \in {"WR", "AI", "OP", "NP"}
      BY <3>1 DEF HighInv, Moved
    <3>2. CASE io.at = "setID"
      BY <1>2, <1>3, <3>2 DEF HighInv, Moved
    <3>3. CASE io.at = "ID"
      <4>1. fid = 4
        BY <1>5, <3>3, Numbers
      <4>2. s = AfterRead(line[i])
        BY <1>4, <3>3, Follows
      <4>3. line[i].panid = setting.panid /\ line[i].param /\ line[i].cmd = "ID"
        BY <1>1, <1>7, <2>2, <3>3, <4>2 DEF AfterRead, Unread
      <4> QED  BY <1>5, <1>23, <4>1, <4>3 DEF Truthful
    <3>4. CASE io.at \in {"VR", "SH", "SL", "FR"}
      <4>1. s \in {"SH", "failed", "SL", "ID", "reset"}
        BY <1>4, <3>4, Follows
      <4> QED  BY <2>2, <4>1
    <3> QED  BY <1>1, <3>1, <3>2, <3>3, <3>4 DEF Asking
  <2> QED  BY <2>1, <2>2
<1>25. s \in {"OP", "NP", "open"} => io.at \in {"AI", "OP", "NP"}
  <2>1. io.at \in {"VR", "SH", "SL", "ID", "setID", "WR", "FR"} =>
          s \in {"SH", "failed", "SL", "ID", "setID", "WR", "reset", ToReset}
    BY <1>4, Follows DEF AfterRead
  <2>2. ToReset \in {"FR", "AI"}
    BY DEF ToReset
  <2> QED  BY <1>1, <2>1, <2>2 DEF Asking
<1>26. io.at = "AI" => (fid = 4 /\ ~setting.reset_sw) \/ fid >= 5
  <2> SUFFICES ASSUME io.at = "AI"
               PROVE  (fid = 4 /\ ~setting.reset_sw) \/ fid >= 5
    OBVIOUS
  <2>1. fid \in NumbersOf(setting, "AI")
    BY <1>5
  <2> HIDE DEF fid
  <2>2. CASE setting.new_panid
    <3>1. fid \in {5, 7}
      BY <2>1, <2>2, Numbers
    <3> QED  BY <3>1
  <2>3. CASE ~setting.new_panid /\ setting.reset_sw
    <3>1. fid = 5
      BY <2>1, <2>3, Numbers
    <3> QED  BY <3>1
  <2>4. CASE ~setting.new_panid /\ ~setting.reset_sw
    BY <2>1, <2>4, Numbers
  <2> QED  BY <2>2, <2>3, <2>4
<1>27. AtHome'
  <2>1. ASSUME s \in {"OP", "NP", "open"}
        PROVE  Calm(todo')
    <3>1. Calm(todo)
      <4>1. CASE io.at \in {"OP", "NP"}
        BY <4>1 DEF HighInv, AtHome
      <4>2. CASE io.at = "AI" /\ fid >= 5
        <5>1. todo = << >>
          BY <1>1, <1>3, <1>7, <4>2 DEF HighInv, LastIsLast
        <5> QED  BY <1>5, <5>1, EmptySeq DEF Calm
      <4>3. CASE fid = 4 /\ ~setting.reset_sw
        <5>1. \A k \in 1 .. Len(todo) : Mine(todo[k], setting, fid)
          BY <1>9, <4>3
        <5>2. NumbersOf(setting, "FR") = {} /\ NumbersOf(setting, "restart") = {}
          BY <4>3, Numbers
        <5> QED  BY <5>1, <5>2 DEF Calm, Mine
      <4> QED  BY <1>25, <1>26, <2>1, <4>1, <4>2, <4>3
    <3>2. s \notin {"FR", "restart"}
      BY <2>1
    <3> QED  BY <1>12, <3>1, <3>2 DEF Calm
  <2>2. ASSUME s \in {"OP", "NP", "open"}
        PROVE  /\ Current(line', 0, radio.panid)
               /\ io'.rxpkt # NoPan => io'.rxpkt = radio.panid
    <3>1. 0 \in 0 .. Len(line') /\ i \in 0 .. n /\ 0 \in 0 .. n
      BY <1>5, <1>6
    <3>2. CASE io.at = "AI"
      <4>1. Current(line, i, radio.panid)
        BY <1>2, <1>3, <1>23, <1>26, <2>2, <3>2 DEF HighInv, AtHome
      <4>2. Current(line', 0, radio.panid)
        BY <1>1, <3>1, <4>1, RestFacts
      <4>3. ~TakesPackets(io.at)
        BY <3>2 DEF TakesPackets
      <4>4. io.rxpkt = NoPan /\ io'.rxpkt = io.rxpkt
        BY <1>3, <4>3 DEF LowInv, DriverOK
      <4> QED  BY <4>2, <4>4
    <3>3. CASE io.at \in {"OP", "NP"}
      <4>1. Current(line, 0, radio.panid) /\ (io.rxpkt # NoPan => io.rxpkt = radio.panid)
        BY <2>2, <3>3 DEF HighInv, AtHome
      <4>2. Current(line', 0, radio.panid)
        BY <1>1, <3>1, <4>1, RestFacts
      <4>3. \A k \in 1 .. n : k \in 1 .. Len(line) /\ k > 0
        BY <1>5
      <4>4. \A k \in 1 .. n : line[k].type = "data" => line[k].panid = radio.panid
        BY <4>1, <4>3 DEF Current
      <4> QED  BY <1>3, <4>1, <4>2, <4>4
    <3> QED  BY <1>25, <2>2, <3>2, <3>3
  <2>3. ASSUME s = "AI", io'.fid >= 5, NEW j \in 1 .. Len(line'), Hit(line'[j], io')
        PROVE  FALSE
    <3>1. s \in Asking /\ fid >= 4
      BY <1>18, <2>3 DEF Asking
    <3> QED  BY <1>21, <2>3, <3>1 DEF Hit
  <2> QED  BY <1>1, <1>3, <2>1, <2>2, <2>3 DEF AtHome
<1> QED  BY <1>15, <1>16, <1>17, <1>19, <1>22, <1>24, <1>27 DEF HighInv

-----------------------------------------------------------------------------
(* All steps                                                               *)

\* With five commands of earlier openings in the module the four answers before the
\* writing of the network may all be answers to them, with the same identifiers: TLC
\* finds that the fifth command then is not what the module needs.
FullInv == TypeInv /\ (~doubt => HighInv)

LEMMA HighInit ==
  ASSUME Init
  PROVE  HighInv
<1>1. io.at = "closed" /\ io.fid = 0
  BY DEF Init, XBeeInit, NoIo
<1>2. FewOld /\ FewAhead /\ FourthIsOurs
  BY <1>1 DEF FewOld, FewAhead, FourthIsOurs, Early, Asking
<1>3. AllOurs /\ LastIsLast
  BY <1>1 DEF AllOurs, LastIsLast, Waiting
<1>4. Moved /\ AtHome
  BY <1>1 DEF Moved, AtHome
<1> QED  BY <1>2, <1>3, <1>4 DEF HighInv

LEMMA HighStep ==
  ASSUME FullInv, [Next]_vars, ~doubt'
  PROVE  HighInv'
<1>1. TypeInv /\ LowInv /\ ProgramOK /\ (~doubt => HighInv)
  BY DEF FullInv, TypeInv
<1>2. CASE UNCHANGED ioVars
  <2>1. doubt' = doubt
    BY <1>2 DEF ioVars
  <2> QED  BY <1>1, <1>2, <2>1, HighSame
\* The port is closed, before or after.
<1>3. CASE io'.at \in Closed /\ io'.fid = 0
  BY <1>3, ClosedIsHigh
<1>4. ASSUME proc = "none", io' = io
      PROVE  io'.at \in Closed /\ io'.fid = 0
  <2>1. io.at = "closed" /\ io.fid \in NumbersOf(setting, io.at)
    BY <1>1, <1>4 DEF ProgramOK, LowInv, DriverOK
  <2> QED  BY <1>4, <2>1, Numbers DEF Closed
<1>5. ASSUME NEW p, Becomes(p)
      PROVE  io'.at \in Closed /\ io'.fid = 0
  BY <1>5 DEF Becomes, ClosePort, NoIo, Closed
<1>6. CASE Fails
  <2>1. io'.at \in Closed /\ io'.fid = 0
    BY <1>6 DEF Fails, NoIo, Closed
  <2> QED  BY <1>3, <2>1
<1>7. CASE UNCHANGED vars
  BY <1>2, <1>7 DEF vars
<1>8. CASE Next
  <2>1. CASE \/ \E p \in Pan \cup {NoPan} : StartBridge(p) \/ StartInForeground(p)
             \/ \E r \in BOOLEAN : StartApplication(r)
    <3>1. proc = "none" /\ io' = io
      BY <2>1 DEF StartBridge, StartInForeground, StartApplication, ioVars
    <3> QED  BY <1>3, <1>4, <3>1
  <2>2. ASSUME NEW v \in Value, Configure(v)
        PROVE  HighInv'
    <3>1. \/ Dies
          \/ ClosePort("closed")
          \/ UNCHANGED <<line, io, setting, proc>> /\ UNCHANGED <<radio, todo, doubt, sup>>
      BY <2>2 DEF Configure
    <3>2. CASE Dies
      BY <1>3, <1>5, <3>2 DEF Dies
    <3>3. CASE ClosePort("closed")
      BY <1>3, <3>3 DEF ClosePort, NoIo, Closed
    <3>4. CASE UNCHANGED <<line, io, setting, proc>> /\ UNCHANGED <<radio, todo, doubt, sup>>
      BY <1>2, <3>4 DEF ioVars
    <3> QED  BY <3>1, <3>2, <3>3, <3>4
  <2>3. CASE ProgramStep
    <3>1. CASE Check
      <4>1. proc = "none" /\ io' = io
        BY <1>1, <3>1 DEF Check, Fork, ProgramOK
      <4> QED  BY <1>3, <1>4, <4>1
    <3>2. CASE \/ Assign \/ FailFork \/ GiveUp \/ Wait
               \/ StartDevice \/ ApplicationReady \/ Reopened
      BY <1>2, <3>2 DEF Assign, FailFork, GiveUp, Wait, StartDevice, ApplicationReady, Reopened
    <3>3. CASE OpenFails \/ StartupCrashes
      BY <1>3, <1>5, <3>3 DEF OpenFails, StartupCrashes, Dies
    <3>4. CASE OpenIo
      <4>1. Opens \/ Fails
        BY <1>1, <3>4, OpensOrNot
      <4> QED  BY <1>1, <1>6, <4>1, OpenKeeps
    <3> QED  BY <2>3, <3>1, <3>2, <3>3, <3>4 DEF ProgramStep
  <2>4. CASE Opening
    <3>1. PollAnswer \/ PollStatus \/ Timeout
      BY <2>4 DEF Opening, OpenStep
    <3>2. ASSUME NEW n \in 0 .. Len(line), Reads(n)
          PROVE  HighInv'
      <4>1. ~doubt
        BY <3>2 DEF Reads
      <4> QED  BY <1>1, <3>2, <4>1, ReadKeeps
    <3>3. ASSUME NEW n \in 0 .. Len(line), NEW i \in 1 .. n, Accepts(n, i)
          PROVE  HighInv'
      <4>1. ~doubt
        BY <3>3 DEF Accepts
      <4> QED  BY <1>1, <3>3, <4>1, AcceptKeeps
    <3>4. ASSUME NEW n \in 0 .. Len(line), NEW s, Awaits(n, s)
          PROVE  HighInv'
      <4>1. ~doubt
        BY <3>4 DEF Awaits
      <4> QED  BY <1>1, <3>4, <4>1, AwaitKeeps
    <3>5. CASE PollAnswer
      BY <1>1, <1>6, <3>2, <3>3, <3>5, Polls
    <3>6. CASE PollStatus
      BY <1>1, <3>2, <3>4, <3>6, PollsStatus
    <3>7. CASE Timeout
      BY <1>6, <3>7, TimesOut
    <3> QED  BY <3>1, <3>5, <3>6, <3>7
  <2>5. CASE Poll
    <3>1. CASE IoPoll
      <4>1. PICK n \in 1 .. Len(line) : io' = Store(Seen(n)) /\ Consume(n)
        BY <3>1 DEF IoPoll
      <4>2. n \in 0 .. Len(line)
        BY <1>1, OpenDriver
      <4>3. Reads(n) /\ ~doubt
        BY <3>1, <4>1 DEF IoPoll, Reads, PortOpen, Closed
      <4> QED  BY <1>1, <4>2, <4>3, ReadKeeps
    <3>2. CASE IoRecv
      <4>1. ~doubt
        BY <3>2 DEF IoRecv
      <4> QED  BY <1>1, <3>2, <4>1, RecvKeeps
    <3> QED  BY <2>5, <3>1, <3>2 DEF Poll
  <2>6. CASE Module
    <3>4. ~doubt /\ HighInv
      BY <1>1, <2>6 DEF Module, ModuleStep, Execute, Restart, Associate
    <3>1. CASE Execute
      BY <1>1, <3>1, <3>4, ExecuteKeeps
    <3>2. CASE Restart
      BY <1>1, <3>2, <3>4, RestartKeeps
    <3>3. CASE Associate
      <4>1. PICK f \in Frame : f.type = "modem" /\ (line' = line \/ line' = Append(line, f))
        BY <1>1, <3>3, AssociateLow
      <4>2. /\ io' = io /\ setting' = setting /\ todo' = todo
            /\ radio'.panid = radio.panid /\ f.type \notin {"at", "data"}
        BY <1>1, <3>3, <4>1, AssociateLow DEF Associate
      <4> QED  BY <1>1, <3>4, <4>1, <4>2, ArrivalKeeps
    <3> QED  BY <2>6, <3>1, <3>2, <3>3 DEF Module, ModuleStep
  <2>7. CASE Mishap
    <3>1. ~PowerCycle
      BY DEF PowerCycle
    <3>2. CASE PacketArrives
      <4>1. PICK f \in Frame : /\ f.type = "data" /\ f.panid = radio.panid
                               /\ line' = Append(line, f)
        BY <1>1, <3>2, PacketLow
      <4>2. /\ io' = io /\ setting' = setting /\ todo' = todo /\ ~doubt
            /\ radio' = radio /\ f.type # "at"
        BY <3>2, <4>1 DEF PacketArrives
      <4> QED  BY <1>1, <4>1, <4>2, ArrivalKeeps
    <3> QED  BY <2>7, <3>1, <3>2 DEF Mishap
  <2>8. CASE Crash \/ TerminateBridge
    BY <1>3, <1>5, <2>8 DEF Crash, TerminateBridge, Dies
  <2>9. CASE TerminateSupervisor
    BY <1>2, <2>9 DEF TerminateSupervisor
  <2> QED  BY <1>8, <2>1, <2>2, <2>3, <2>4, <2>5, <2>6, <2>7, <2>8, <2>9 DEF Next
<1> QED  BY <1>7, <1>8

LEMMA FullStep ==
  /\ Init => FullInv
  /\ FullInv /\ [Next]_vars => FullInv'
<1>1. Init => FullInv
  BY TypeInit, HighInit DEF FullInv
<1>2. ASSUME FullInv, [Next]_vars
      PROVE  FullInv'
  <2>1. TypeInv'
    BY <1>2, TypeStep DEF FullInv
  <2>2. ~doubt' => HighInv'
    BY <1>2, HighStep
  <2> QED  BY <2>1, <2>2 DEF FullInv
<1> QED  BY <1>1, <1>2

\* A bridge that was given a network has it in its configuration (prvSetConfig), and
\* its module is there (gxPLXBeeZbOpen) whichever answers were lost, late or bad, for any
\* module, line, backlog and restarts -- if the opening began with at most Backlog old
\* commands, the module said where it was, and it has kept its power.
THEOREM ForcedPanHolds == Spec => []ForcedPanInUse
<1>1. Init => FullInv
  BY FullStep
<1>2. FullInv /\ [Next]_vars => FullInv'
  BY FullStep
<1>3. FullInv => ForcedPanInUse
  <2> SUFFICES ASSUME FullInv, proc = "polling", setting.new_panid
               PROVE  /\ conf \in Pan => conf = setting.panid
                      /\ ~doubt => radio.panid = setting.panid
    BY DEF ForcedPanInUse
  <2>1. io.at = "open" /\ (conf \in Pan => conf = setting.panid)
    BY DEF FullInv, TypeInv, ProgramOK
  <2> QED  BY <2>1 DEF FullInv, HighInv, Moved
<1> QED  BY <1>1, <1>2, <1>3, PTL DEF Spec

\* No packet of the former network comes out of the driver after it has moved to
\* another (prvZbDataCB), under the conditions of ForcedPanHolds.
THEOREM NothingFromOldHolds == Spec => []NothingFromOldNetwork
<1>1. Init => FullInv
  BY FullStep
<1>2. FullInv /\ [Next]_vars => FullInv'
  BY FullStep
<1>3. FullInv => NothingFromOldNetwork
  <2> SUFFICES ASSUME FullInv, io.rxpkt # NoPan, ~doubt
               PROVE  io.rxpkt = radio.panid
    BY DEF NothingFromOldNetwork
  <2>1. io.at \in {"OP", "NP", "open"}
    BY DEF FullInv, TypeInv, LowInv, DriverOK, TakesPackets
  <2> QED  BY <2>1 DEF FullInv, HighInv, AtHome
<1> QED  BY <1>1, <1>2, <1>3, PTL DEF Spec
=============================================================================
