------------------------------- MODULE Message -------------------------------
(***************************************************************************)
(* Messages: how programs fill them in, and their text                     *)
(* (src/src/message.c, util.c).  Operators only: the parser, which has a   *)
(* state, is in Reception.                                                 *)
(*                                                                         *)
(* The two parts of a schema are one value, and so is the name of a pair.  *)
(* Illegal stands for what the setters refuse: too long, or with other     *)
(* characters than letters, digits and hyphens.                            *)
(***************************************************************************)
EXTENDS Identifier

CONSTANTS
  Schema,
  Value,     \* values of pairs
  Blank      \* the empty value

Pair(n, v) == [name |-> n, value |-> v]
Pairs == [name : Word, value : Value \cup {Blank}]

Types == {"cmnd", "stat", "trig"}

ASSUME MessageAssumption ==
  \A x \in {Illegal, Star, None} :
    x \notin Schema /\ x \notin Value /\ x \notin Nat /\ x \notin Types /\ x \notin Pairs

MessageStates ==
  {"Init", "Header", "HeaderHop", "HeaderSource", "HeaderTarget", "HeaderEnd",
   "Schema", "BodyBegin", "Body", "BodyEnd", "End", "Error"}

\* isvalid and iserror are the last two states.
Messages ==
  [type : Types \cup {Star}, hop : Nat,
   source : Identifier \cup {None}, target : Identifier \cup {Star, None},
   isbroadcast : BOOLEAN, isgrouped : BOOLEAN, schema : Schema \cup {None},
   body : Seq(Pairs), state : MessageStates]

New(type) ==
  [type |-> type, hop |-> 1, source |-> None, target |-> None,
   isbroadcast |-> FALSE, isgrouped |-> FALSE, schema |-> None,
   body |-> << >>, state |-> "Init"]

\* What programs send: it has a type, a sender, a schema and a receiver.
Sendable ==
  {m \in Messages :
     /\ m.type # Star /\ m.schema # None /\ m.state = "Init"
     /\ m.source \in Settled
     /\ m.isbroadcast \/ m.target \in Settled}

-----------------------------------------------------------------------------
(* The setters.  One that is given something illegal fails.                *)

TypeSet(m, type)       == [m EXCEPT !.type = type]
HopSet(m, hop)         == [m EXCEPT !.hop = hop]
BroadcastSet(m, b)     == [m EXCEPT !.isbroadcast = b]
GroupedSet(m, b)       == [m EXCEPT !.isgrouped = b]
BodyClear(m)           == [m EXCEPT !.body = << >>]
SchemaSet(m, schema)   == IF schema = Illegal THEN m ELSE [m EXCEPT !.schema = schema]

SourceIdSet(m, parts) ==
  IF IdCopy(parts) = Illegal THEN m ELSE [m EXCEPT !.source = IdCopy(parts)]

\* The flags stay: a message that was a broadcast is one with the new target, too.
TargetIdSet(m, parts) ==
  IF IdCopy(parts) = Illegal THEN m ELSE [m EXCEPT !.target = IdCopy(parts)]

\* gxPLMessageSourceVendorIdSet and its like.
SourcePartSet(m, k, part) ==
  IF Suits(k, part) THEN [m EXCEPT !.source = PartSet(@, k, part)] ELSE m
TargetPartSet(m, k, part) ==
  IF Suits(k, part)
    THEN [m EXCEPT !.target = PartSet(IF @ = None THEN NoParts ELSE @, k, part)] ELSE m

\* gxPLDeviceMessageNew
DeviceMessage(id, type) == SourceIdSet(New(type), id)

-----------------------------------------------------------------------------
(* The pairs                                                               *)

FindPair(m, n) == SelectInSeq(m.body, LAMBDA p : p.name = n)

PairGet(m, n) == IF FindPair(m, n) = 0 THEN None ELSE m.body[FindPair(m, n)].value
PairExist(m, n) == PairGet(m, n) # None

PairAdd(m, n, v) ==
  IF Lower[n] = Illegal THEN m ELSE [m EXCEPT !.body = Append(@, Pair(Lower[n], v))]

\* It looks for the name as it is written, and a new pair has it in lower case:
\* a name with capitals is added each time.
PairSet(m, n, v) ==
  IF FindPair(m, n) = 0 THEN PairAdd(m, n, v)
  ELSE [m EXCEPT !.body[FindPair(m, n)].value = v]

\* Does gxPLMessagePairSet return 0?  Not when the value is what it was.
PairSets(m, n, v) ==
  IF FindPair(m, n) = 0 THEN Lower[n] # Illegal ELSE PairGet(m, n) # v

\* The first pair that is not set ends it.
PairValuesSet(m, pairs) ==
  LET Step(s, p) == IF ~s.ok THEN s
                    ELSE [m |-> PairSet(s.m, p.name, p.value),
                          ok |-> PairSets(s.m, p.name, p.value)]
  IN  FoldLeft(Step, [m |-> m, ok |-> TRUE], pairs).m

-----------------------------------------------------------------------------
(* The text                                                                *)

\* A line k=v; the lines "begin" and "end" are the braces, without a value.
Line(k, v) == [is |-> k, value |-> v]

TypeToString(type) == IF type \in Types THEN type ELSE Illegal

\* The lines of m.  A message without a type, or for filters only, has no text.
Text(m) ==
  IF TypeToString(m.type) = Illegal THEN << >>
  ELSE <<Line("type", m.type), Line("begin", None),
         Line("hop", m.hop),
         Line("source", IdText(m.source)),
         Line("target", IF m.isbroadcast THEN Star ELSE IdText(m.target)),
         Line("end", None),
         Line("schema", m.schema), Line("begin", None)>>
       \o [i \in DOMAIN m.body |-> Line("pair", m.body[i])]
       \o <<Line("end", None)>>
=============================================================================
