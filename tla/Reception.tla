------------------------------ MODULE Reception ------------------------------
(***************************************************************************)
(* From the pieces an I/O layer delivers to the message handed to the      *)
(* listeners: gxPLMessageFromString (src/src/message.c), which can stop at *)
(* the end of a piece and go on with the next, and gxPLAppPoll             *)
(* (src/src/gxpl.c), whose message under construction is static, one for   *)
(* all the applications of the process.                                    *)
(*                                                                         *)
(* Texts have the lines of gxPLMessageToString, and are cut between lines. *)
(***************************************************************************)
EXTENDS Message

CONSTANTS
  App,      \* the applications of the process
  Msg,      \* the messages that programs send
  Cuts      \* Cuts[a]: the lines after which the layer of a may cut a text

ASSUME ReceptionAssumption ==
  /\ Msg \subseteq Sendable
  /\ Cuts \in [App -> SUBSET Nat]

\* At most one layer of the process cuts texts.
OneCutter == \A a, b \in App : Cuts[a] # {} /\ Cuts[b] # {} => a = b

VARIABLES
  air,       \* air[a]: the text that a is reading, and how many of its lines it has read
  msg,       \* the message under construction, or None
  current,   \* the message the listeners are given, or None
  whole,     \* history: was the piece read before a whole text, or the first?
  missed     \* history: did a whole text after a whole text get lost?

receptionVars == <<air, msg, current, whole, missed>>

Fresh(text) == [lines |-> text, read |-> 0]
NoText == Fresh(<< >>)

ReceptionInit ==
  /\ air = [a \in App |-> NoText]
  /\ msg = None /\ current = None /\ whole = TRUE /\ missed = FALSE

-----------------------------------------------------------------------------
(* The parser                                                              *)

\* The line each state wants, and the state after it.
Wants == [Init |-> "type", Header |-> "begin", HeaderHop |-> "hop", HeaderSource |-> "source",
          HeaderTarget |-> "target", HeaderEnd |-> "end", Schema |-> "schema",
          BodyBegin |-> "begin", BodyEnd |-> "end"]
Then == [Init |-> "Header", Header |-> "HeaderHop", HeaderHop |-> "HeaderSource",
         HeaderSource |-> "HeaderTarget", HeaderTarget |-> "HeaderEnd",
         HeaderEnd |-> "Schema", Schema |-> "BodyBegin", BodyBegin |-> "Body",
         BodyEnd |-> "End"]

\* Is it name=value?
IsPair(line) == line.is \in {"hop", "source", "target", "pair"}

\* Any pair left in the piece makes the parser look for one in the next line.
InBody(m, piece, i) ==
  m.state = "Body" /\ \E j \in i .. Len(piece) : IsPair(piece[j])

\* What the value of a line is, or Illegal.
Meaning(line) ==
  IF line.is = "source" \/ (line.is = "target" /\ line.value # Star)
    THEN IdFromString(line.value) ELSE line.value

\* What a line of the header says.
Noted(m, line) ==
  LET said == Meaning(line) IN
  CASE line.is = "type"   -> TypeSet(m, said)
    [] line.is = "hop"    -> HopSet(m, said)
    [] line.is = "source" -> [m EXCEPT !.source = said]
    [] line.is = "target" -> GroupedSet(BroadcastSet([m EXCEPT !.target = said], said = Star),
                                        said # Star /\ IsGroup(said))
    [] line.is = "schema" -> SchemaSet(m, said)
    [] OTHER              -> m

Failed(m) == [m EXCEPT !.state = "Error"]

\* prvPairFromLine takes any name.
PairFromLine(line) == IF line.is = "pair" THEN line.value ELSE Pair(line.is, line.value)

InBodyTake(m, line) ==
  IF IsPair(line) THEN [m EXCEPT !.body = Append(@, PairFromLine(line))] ELSE Failed(m)

\* Mutant: a line that is not the one wanted is skipped.
TakeSkipping(m, piece, i) ==
  LET line == piece[i]
      s    == IF m.state = "Body" THEN "BodyEnd" ELSE m.state
  IN  IF m.state \in {"End", "Error"} THEN m
      ELSE IF InBody(m, piece, i) THEN InBodyTake(m, line)
      ELSE IF Wants[s] # line.is \/ Meaning(line) = Illegal THEN m
      ELSE [Noted(m, line) EXCEPT !.state = Then[s]]

\* The i-th line of the piece is read.  After an illegal target the next line must
\* be the target.
Take(m, piece, i) ==
  LET line == piece[i]
      s    == IF m.state = "Body" THEN "BodyEnd" ELSE m.state
  IN  IF m.state \in {"End", "Error"} THEN m
      ELSE IF InBody(m, piece, i) THEN InBodyTake(m, line)
      ELSE IF Wants[s] # line.is THEN Failed(m)
      ELSE IF Meaning(line) = Illegal THEN IF s = "HeaderTarget" THEN m ELSE Failed(m)
      ELSE [Noted(m, line) EXCEPT !.state = Then[s]]

\* Mutant: nothing is an error at the end of a piece.
AtEndLenient(m) == IF m.state = "Body" THEN [m EXCEPT !.state = "BodyEnd"] ELSE m

\* Nothing left: in the middle of the header this is an error, and a body
\* that has begun must end with the next line.
AtEnd(m) ==
  CASE m.state \in {"HeaderHop", "HeaderSource", "HeaderTarget"} -> Failed(m)
    [] m.state = "Body" -> [m EXCEPT !.state = "BodyEnd"]
    [] OTHER -> m

FromString(m, piece) ==
  LET read[i \in 0 .. Len(piece)] ==
        IF i = 0 THEN IF m = None THEN New(Star) ELSE m
        ELSE Take(read[i - 1], piece, i)
  IN  AtEnd(read[Len(piece)])

-----------------------------------------------------------------------------
(* Senders, layers and gxPLAppPoll *)

\* A whole message, with nothing illegal in it.
Legal(text) == \A i \in DOMAIN text : Meaning(text[i]) # Illegal
WholeTexts == {text \in {Text(m) : m \in Msg} : Legal(text)}
IsWhole(piece) == piece \in WholeTexts

\* What a may read next: the text goes on, or another one begins, since a sender may
\* fall silent in the middle.
Coming(a) == {Fresh(Text(m)) : m \in Msg} \cup ({air[a]} \ {NoText})

\* Where the piece that the layer of a gives next may end.
Ends(a, t) ==
  {n \in t.read + 1 .. Len(t.lines) : n \in Cuts[a] \/ n = Len(t.lines)}

Piece(t, n) == SubSeq(t.lines, t.read + 1, n)

\* The text t has been read up to its line n.
Upto(t, n) == IF n = Len(t.lines) THEN NoText ELSE [t EXCEPT !.read = n]

\* Mutant: only a valid message is deleted.
PollKeepingErrors(a, t, n) ==
  /\ current = None
  /\ air' = [air EXCEPT ![a] = Upto(t, n)]
  /\ LET piece == Piece(t, n) IN \E m \in {FromString(msg, piece)} :
      /\ current' = IF m.state = "End" THEN m ELSE None
      /\ msg' = IF m.state = "End" THEN None ELSE m
      /\ whole' = IsWhole(piece)
      /\ missed' = (missed \/ (whole /\ IsWhole(piece) /\ m.state # "End"))

\* gxPLAppPoll, up to the listeners: a valid message is handed to them, an
\* error is dropped, and what is neither is kept for the next piece.
Poll(a, t, n) ==
  /\ current = None
  /\ air' = [air EXCEPT ![a] = Upto(t, n)]
  /\ LET piece == Piece(t, n) IN \E m \in {FromString(msg, piece)} :
      /\ current' = IF m.state = "End" THEN m ELSE None
      /\ msg' = IF m.state \in {"End", "Error"} THEN None ELSE m
      /\ whole' = IsWhole(piece)
      /\ missed' = (missed \/ (whole /\ IsWhole(piece) /\ m.state # "End"))

\* The listeners have returned.
Release ==
  /\ current' = None
  /\ UNCHANGED <<air, msg, whole, missed>>

-----------------------------------------------------------------------------
Lines == UNION {ToSet(Text(m)) : m \in Msg}

ReceptionTypeOK ==
  /\ air \in [App -> [lines : Seq(Lines), read : Nat]]
  /\ msg # None => msg.state \in {"Header", "HeaderEnd", "Schema", "BodyBegin", "BodyEnd"}
  /\ current # None => current.state = "End"
  /\ \A m \in {msg, current} \ {None} : m \in Messages
  /\ {whole, missed} \subseteq BOOLEAN

\* What a hyphen does to an identifier: the vendor ends with its first word.
Cut(id) ==
  [id EXCEPT !.vendor = <<Head(@)>>, !.device = Tail(id.vendor) \o @]

\* What is lost of m on its way: the target a broadcast has had, flags that are made out
\* again from the text, and the end of a vendor with a hyphen.
Received(m) ==
  LET target == IF m.isbroadcast THEN Star ELSE Cut(m.target)
  IN  [m EXCEPT !.state = "End", !.source = Cut(@), !.target = target,
                !.isgrouped = target # Star /\ IsGroup(target)]

Heard == {Received(m) : m \in Msg}

(* What the listeners are given was sent like that, pair by pair in the order
   in which a program has put them there, and from an identifier that is the
   sender's unless its vendor has a hyphen (util.c:264): no message is put together from the
   pieces of two, although the message under construction is shared by the
   applications of the process (gxpl.c:350), senders fall silent in the middle,
   and the layers lose none of the pieces sent. *)
AsSent == current # None => current \in Heard

(* Whatever came before, at most one message is lost with it: a message that
   comes in one piece after another one that came in one piece, or at first,
   is handed to the listeners (gxpl.c:386, message.c:92). *)
WholeIsHeard == ~missed
=============================================================================
