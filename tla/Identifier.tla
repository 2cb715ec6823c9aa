----------------------------- MODULE Identifier -----------------------------
(***************************************************************************)
(* Identifiers of devices and groups, vendor-device.instance, in memory    *)
(* and in the text of a message (src/src/util.c).  A part of an identifier *)
(* may have hyphens in it, and the text is cut at the first of them.       *)
(***************************************************************************)
EXTENDS Naturals, Sequences, SequencesExt

CONSTANTS
  Word,      \* runs of characters without a hyphen, as programs write them
  Lower,     \* Lower[w]: w in lower case, or Illegal when it has other characters
             \* than letters and digits
  PartMax,   \* GXPL_VENDORID_MAX, _DEVICEID_MAX and _INSTANCEID_MAX, in words
  Illegal,
  Star,      \* "*"
  None

ASSUME IdentifierAssumption ==
  /\ Lower \in [Word -> Word \cup {Illegal}]
  /\ \A w \in Word : Lower[w] # Illegal => Lower[Lower[w]] = Lower[w]
  /\ Illegal # Star /\ Illegal # None /\ Star # None
  /\ \A x \in {Illegal, Star, None} : x \notin Word /\ x \notin Seq(Word)
  /\ Star \notin [vendor : Seq(Word), device : Seq(Word), instance : Seq(Word)]
  /\ Star \notin [before : Seq(Word), after : Seq(Word)]
  /\ PartMax \in [{"vendor", "device", "instance"} -> Nat \ {0}]

\* A part is a sequence of words with hyphens between them.
Part == Seq(Word) \cup {Star}
Identifier == [vendor : Part, device : Part, instance : Part]

\* What the setters leave when a program gives an identifier to a message it sends:
\* words in small letters, no wildcards, and a vendor.
Settled ==
  {id \in [vendor : Seq(Word), device : Seq(Word), instance : Seq(Word)] :
     /\ id.vendor # << >>
     /\ \A k \in DOMAIN id : \A w \in ToSet(id[k]) : Lower[w] = w}

NoParts == [vendor |-> << >>, device |-> << >>, instance |-> << >>]

\* Letters become small; anything else but a letter, a digit or a hyphen is refused.
StrCpy(part) ==
  IF \E w \in ToSet(part) : Lower[w] = Illegal THEN Illegal
  ELSE [i \in DOMAIN part |-> Lower[part[i]]]

\* What gxPLIdVendorIdSet and its like accept.
Suits(k, part) == part = Star \/ (Len(part) \in 1 .. PartMax[k] /\ StrCpy(part) # Illegal)

\* The part k of id is set, or the identifier is refused.
PartSet(id, k, part) ==
  IF Suits(k, part) THEN [id EXCEPT ![k] = IF part = Star THEN Star ELSE StrCpy(part)]
                    ELSE Illegal

\* gxPLIdSet and gxPLIdCopy: part after part.  Of one that is refused, the parts before
\* are set in the memory of the caller, who does not go on with it.
IdCopy(parts) ==
  IF \A k \in DOMAIN PartMax : Suits(k, parts[k])
    THEN PartSet(PartSet(PartSet(NoParts, "vendor", parts.vendor), "device", parts.device),
                 "instance", parts.instance)
    ELSE Illegal

\* "%s-%s.%s": vendor and device become one run of words with hyphens between them.
IdText(id) == [before |-> id.vendor \o id.device, after |-> id.instance]

\* The first hyphen ends the vendor, the first dot the device.
IdFromString(text) ==
  IF text.before = << >> THEN Illegal
  ELSE IdCopy([vendor |-> <<Head(text.before)>>, device |-> Tail(text.before),
               instance |-> text.after])

\* xpl-group.name
IsGroup(id) == id.vendor = <<"xpl">> /\ id.device = <<"group">>
=============================================================================
