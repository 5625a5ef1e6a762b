------------------------------- MODULE MCFramer -------------------------------
(***************************************************************************)
(* Streams written message by message, and what a reader must make of them *)
(* whatever the chunks: the spans of the messages as they were written,    *)
(* every signature in the slot it was written for, and an error exactly    *)
(* where a message breaks a limit or the transport cut one.                *)
(***************************************************************************)
EXTENDS MessageParse, SequencesExt

-------------------------------------------------------------------------------
(* Written things carry their cells and what they weigh.                   *)

Weightless == [cells |-> <<>>, sigs |-> 0, groups |-> 0, depth |-> 0,
               elements |-> 0, body |-> 0, leaves |-> <<>>]

Bare(cells, sigs) == [Weightless EXCEPT !.cells = cells, !.sigs = sigs]

Key == Bare(Primitive("m", "nkey", 2), 0)
Path == Bare(Primitive("m", "path", 2), 0)
Digest == Bare(Primitive("m", "digest", 2), 0)
Number == Bare(Primitive("m", "number", 2), 0)
Cigar == Bare(Primitive("m", "signature", 2), 1)

(* An indexed signature is told from the others by who made it, and as     *)
(* which of theirs.                                                        *)
Siger(who, i) == Bare(<<Cell("i", who, 2), Cell("fill", "", i)>>, 1)

RECURSIVE Together(_)
Together(things) ==
  IF things = <<>> THEN Weightless
  ELSE LET one == Head(things)
           rest == Together(Tail(things))
       IN [cells |-> one.cells \o rest.cells, sigs |-> one.sigs + rest.sigs,
           groups |-> one.groups + rest.groups, depth |-> Max({one.depth, rest.depth}),
           elements |-> Max({one.elements, rest.elements}),
           body |-> Max({one.body, rest.body}), leaves |-> one.leaves \o rest.leaves]

Group(version, kind, elements, things) ==
  LET inside == Together(things) IN
  [inside EXCEPT
     !.cells = Encode(version, kind, elements, inside.cells).v,
     !.sigs = IF IsFrame(kind) /\ ~IsEnclosing(kind) THEN 0 ELSE @,
     !.groups = IF IsEnclosing(kind) THEN @ + 1 ELSE 1,
     !.depth = IF IsEnclosing(kind) THEN @ + 1 ELSE 0,
     !.elements = IF IsFrame(kind) THEN IF IsEnclosing(kind) THEN @ ELSE 0
                  ELSE Max({@, elements}),
     !.leaves = IF kind = "GenericGroup" THEN @ ELSE <<[kind |-> kind, raw |-> inside.cells]>>]

Sigs(who, n) == [i \in 1 .. n |-> Siger(who, i)]
SignedBy(who, n) == Group("V1", "ControllerIdxSigs", n, Sigs(who, n))
Controllers(n) == SignedBy("controller", n)
Witnesses(n) == Group("V1", "WitnessIdxSigs", n, Sigs("witness", n))
Couples == Group("V1", "NonTransReceiptCouples", 1, <<Key, Cigar>>)
Endorsement(n) ==
  Group("V1", "TransIdxSigGroups", 1, <<Digest, Number, Digest, SignedBy("endorser", n)>>)
LastEndorsements(m, n) ==
  Group("V1", "TransLastIdxSigGroups", 2,
        <<Key, SignedBy("endorser", m), Key, SignedBy("endorser", n)>>)
Sources(n) ==
  Group("V1", "SealSourceCouples", n, [i \in 1 .. 2 * n |-> IF i % 2 = 1 THEN Number ELSE Digest])
Envelope(things) == Group("V1", "AttachmentGroup", 0, things)
Generic(things) == Group("V1", "GenericGroup", 0, things)
Pathed(things) == Group("V1", "PathedMaterialCouples", 0, things)
Genus(major) ==
  Bare(<<Cell("-_", "AAA", 0), Filler, Filler, Cell("count", "", major)>>, 0)
InV2(n) == Group("V2", "ControllerIdxSigs", n, Sigs("nested", n))

-------------------------------------------------------------------------------
(* Bodies.                                                                 *)

Mark(is) == Cell(is, "", 0)
Version(cold, size) == <<Cell("version", cold, size), Filler>>
Fills(n) == [i \in 1 .. n |-> Filler]

(* The head of a body of 9 cells has no white space.                       *)
JsonBody(size, ilk) ==
  <<Cell("{", "json", 0), Mark("quote"), Mark("v"), Mark("quote")>> \o
  (IF size = 9 THEN <<>> ELSE <<Mark("space")>>) \o
  <<Mark("colon"), Mark("quote")>> \o Version("json", size) \o
  <<Cell("type", ilk, 0)>> \o Fills(IF size = 9 THEN 0 ELSE size - 10)

CborBody(size) ==
  <<Cell("wide map", "cbor", 0), Cell("count", "", 7), Cell("text", "", 1), Mark("v"),
    Cell("text", "", 17)>> \o Version("cbor", size) \o Fills(size - 7)

Body(cells) == [Weightless EXCEPT !.cells = cells, !.body = Len(cells)]

(* A message: its body, empty for a bare group, its groups, and whether a  *)
(* reader of messages takes it, as one of its kind.                        *)
Message(body, groups) == [body |-> body, groups |-> groups, taken |-> body # <<>>]
Untaken(body, groups) == [Message(body, groups) EXCEPT !.taken = FALSE]

Cells(message) == message.body \o Together(message.groups).cells

(* Where a message may end if the transport ends there: behind its body    *)
(* and behind each of its groups.                                          *)
EndsOf(message) ==
  { Len(message.body) + Len(Together(SubSeq(message.groups, 1, i)).cells) :
      i \in (IF message.body = <<>> THEN 1 ELSE 0) .. Len(message.groups) }

WithinLimits(limits, message) ==
  LET all == Together(message.groups) IN
  /\ Len(message.body) <= limits.body
  /\ Len(all.cells) <= limits.bytes
  /\ message.body # <<>> => Len(message.groups) <= limits.groups
  /\ all.elements <= limits.elements
  /\ all.sigs <= limits.signatures
  /\ all.body <= limits.body
  /\ \A i \in DOMAIN message.groups :
       message.groups[i].depth > 0 =>
         /\ message.groups[i].depth <= limits.depth
         /\ message.groups[i].groups - 1 <= limits.nested

RECURSIVE Wire(_)
Wire(messages) ==
  IF messages = <<>> THEN <<>> ELSE Cells(Head(messages)) \o Wire(Tail(messages))

-------------------------------------------------------------------------------
(* The scenarios.                                                          *)

Loose == [body |-> 40, bytes |-> 60, groups |-> 4, elements |-> 4,
          signatures |-> 6, nested |-> 6, depth |-> 3]

Written(messages, limits) ==
  [codec |-> "message", limits |-> limits, messages |-> messages, wire |-> Wire(messages)]

(* A bare reader of one table has no bodies.                               *)
WrittenBare(codec, messages, limits) ==
  [Written(messages, limits) EXCEPT !.codec = codec]

Broken(codec, wire) ==
  [codec |-> codec, limits |-> Loose, messages |-> <<>>, wire |-> wire]

Signed(n) == Message(JsonBody(10, "ixn"), <<Controllers(n)>>)

Plain == << Message(<<>>, <<Couples>>),
            Message(JsonBody(10, "icp"), <<Controllers(2), Witnesses(1)>>),
            Untaken(CborBody(8), <<>>), Signed(1) >>

Enveloped == << Message(JsonBody(9, "rpy"), <<Envelope(<<Couples, Endorsement(2)>>)>>),
                Signed(1) >>

Endorsed == << Untaken(JsonBody(9, "rct"), <<LastEndorsements(2, 1), Couples>>) >>

Receipted == << Message(JsonBody(10, "rct"), <<Endorsement(1), Couples, Endorsement(2)>>),
                Untaken(JsonBody(9, "rct"), <<>>) >>

InGeneric2(things) == Group("V2", "GenericGroup", 0, things)

Unwrapped == << Message(<<>>, <<Generic(<<Generic(<<Genus(2), InV2(1), InGeneric2(<<InV2(2)>>)>>),
                                          Controllers(1), Generic(<<Couples>>)>>)>>) >>

Nested == << Untaken(JsonBody(9, "icp"),
               <<Envelope(<<Generic(<<Genus(2), InV2(1), Cigar>>), Witnesses(1),
                               Body(JsonBody(10, "icp")), Controllers(1)>>)>>),
             Message(<<>>, <<Pathed(<<Path, Controllers(2)>>)>>), Message(<<>>, <<Couples>>) >>

Credential == << Message(JsonBody(9, "iss"), <<Sources(1), Controllers(1), Sources(1)>>),
                 Message(JsonBody(9, "exn"),
                         <<Envelope(<<Controllers(1), Pathed(<<Path, SignedBy("issuer", 2)>>)>>)>>) >>

Hidden == << Untaken(JsonBody(9, "exn"),
                     <<Controllers(2), Pathed(<<Path, SignedBy("issuer", 3)>>)>>) >>

Tight(name, value) == [Loose EXCEPT ![name] = value]

AnyScenario ==
  { Written(Plain, Loose), Written(Enveloped, Loose), Written(Endorsed, Loose),
    Written(Nested, Loose), Written(Receipted, Loose), Written(Credential, Loose),
    Written(Hidden, Tight("signatures", 4)), Written(Unwrapped, Tight("nested", 7)),
    Written(Plain, Tight("groups", 1)), Written(Plain, Tight("elements", 1)),
    Written(Plain, [Loose EXCEPT !.body = 10, !.bytes = 6]), Written(Enveloped, Tight("body", 9)),
    Written(Enveloped, Tight("signatures", 2)), Written(Endorsed, Tight("signatures", 3)),
    Written(Nested, Tight("signatures", 3)), Written(Nested, Tight("nested", 4)),
    Written(Nested, Tight("depth", 1)),
    WrittenBare("V1", <<Message(<<>>, <<Endorsement(2)>>), Message(<<>>, <<Couples>>)>>,
                Loose),
    WrittenBare("V2", <<Message(<<>>, <<InV2(2)>>), Message(<<>>, <<InV2(5)>>)>>, Loose),
    Broken("message", Cells(Signed(1)) \o
      <<Cell("{", "json", 0), Mark("quote"), Mark("v"), Mark("quote"), Mark("colon"),
        Mark("quote"), Mark("version2"), Filler, Filler, Filler>>),
    Broken("message", JsonBody(9, "icp") \o
      <<Cell("-", "V", 0), Cell("count", "", 2)>> \o SubSeq(Couples.cells, 1, 4) \o
      Controllers(1).cells),
    Broken("message", Endorsement(1).cells \o <<Cell("-", "F", 0), Cell("count", "", 1)>> \o
      Digest.cells \o Number.cells \o Digest.cells \o Witnesses(1).cells),
    Broken("V2", <<Cell("--", "X", 0), Filler, Cell("count", "", 1), Filler>> \o
      Digest.cells \o Number.cells \o Digest.cells \o Controllers(1).cells) }

-------------------------------------------------------------------------------
(* What a reader must make of them.                                        *)

StartOf(i) == Len(Wire(SubSeq(scenario.messages, 1, i - 1)))

IsWritten == scenario.messages # <<>>
Within(i) == WithinLimits(scenario.limits, scenario.messages[i])

(* A message that needs nothing behind it to be complete.                  *)
IsClosed(message) ==
  \/ message.body = <<>>
  \/ message.groups # <<>> /\ message.groups[Len(message.groups)].cells[1].c = "V"

Waits ==
  /\ verdict = "reading"
  /\ ~closed
  /\ Advance(scenario.limits, scenario.codec, framer, Buffer, FALSE).outcome.is = "need"

(* The same cells read at once by a decoder that starts afresh.            *)
RECURSIVE AtOnce(_, _)
AfterOne(s, spans, answer) ==
  CASE answer.is = "ok" -> AtOnce(SubSeq(s, answer.v.total + 1, Len(s)), Append(spans, answer.v))
    [] answer.is = "need" -> [frames |-> spans, verdict |-> "done"]
    [] answer.is = "fail" -> [frames |-> spans, verdict |-> answer.why]

AtOnce(s, spans) ==
  AfterOne(s, spans, Advance(scenario.limits, scenario.codec, Idle, s, TRUE).outcome)

(* Whatever the chunks, the frames are the messages as they were written,  *)
(* in order and whole; only the last may be shorter, when the transport    *)
(* closed behind its body or behind one of its groups (MessageFramer's     *)
(* documentation: a body with unframed attachments ends at the next body   *)
(* or at the end of input).                                                *)
FramesAsWritten ==
  IsWritten => \A i \in DOMAIN frames :
    /\ i \in DOMAIN scenario.messages
    /\ frames[i].body = Len(scenario.messages[i].body)
    /\ \/ frames[i].total = Len(Cells(scenario.messages[i]))
       \/ /\ closed /\ i = Len(frames) /\ taken = arrived
          /\ frames[i].total \in EndsOf(scenario.messages[i])

(* The signatures among some cells, in order.                              *)
IsSignature(cell) == cell.is = "i" \/ (cell.is = "m" /\ cell.c = "signature")
SignatureCells(cells) ==
  SelectSeq([i \in DOMAIN cells |-> IF i < Len(cells) THEN <<cells[i], cells[i + 1]>>
                                    ELSE <<cells[i], Filler>>],
            LAMBDA pair : IsSignature(pair[1]))

(* The signatures that reached a slot of a message, as cells in order.     *)
SlotCells(slots, slot) ==
  CASE slot = "pathed" -> FlattenSeq([i \in DOMAIN slots.pathed |->
                            FlattenSeq(FlattenSeq(ControllerSignatures(slots.pathed[i]).v))])
    [] slot = "trans_receipts" ->
         FlattenSeq([i \in DOMAIN slots[slot] |->
                       FlattenSeq(FlattenSeq(slots[slot][i][4]))])
    [] OTHER -> FlattenSeq([i \in DOMAIN slots[slot] |-> FlattenSeq(slots[slot][i])])

Writer ==
  [sigs |-> "controller", wigs |-> "witness", backer_sigs |-> "witness",
   trans_receipts |-> "endorser", pathed |-> "issuer", couples |-> "signature"]

RoutedFor(slots, slot) == SignatureCells(SlotCells(slots, slot))

RoutesAll(message, parsed) ==
  LET written == SignatureCells(Cells(message))
      Of(who) == SelectSeq(written, LAMBDA pair : pair[1].c = who)
      routed == [slot \in SlotNames \ {"source"} |-> RoutedFor(parsed.v.slots, slot)]
  IN /\ parsed.is = (IF message.taken THEN "ok" ELSE "fail")
     /\ message.taken =>
          /\ parsed.v.rest = SubSeq(scenario.wire, taken + 1, arrived)
          /\ \A slot \in DOMAIN routed :
               routed[slot] # <<>> => routed[slot] = Of(Writer[slot])
          /\ Len(written) =
               FoldFunction(+, 0, [slot \in DOMAIN routed |-> Len(routed[slot])])

(* A returned message read whole is taken exactly if its kind takes all    *)
(* its groups, the parser stops where the framer cut, and every signature  *)
(* written is in the slot of those who wrote it, in the order written:     *)
(* none is dropped, none doubled, none counted for another role            *)
(* (Message::parse and the consume_* walks).                               *)
RoutedAsWritten ==
  IsWritten /\ scenario.codec = "message" /\ frames # <<>> =>
    LET i == Len(frames)
        message == scenario.messages[i]
    IN frames[i].total = Len(Cells(message)) =>
         RoutesAll(message, ParseMessage(scenario.limits,
                              SubSeq(scenario.wire, StartOf(i) + 1, arrived)))

(* A generic group that was returned whole unwraps to the groups written   *)
(* inside it, however nested, each read with the table in force where it   *)
(* stands (QuadletGroup::unwrap_generic).                                  *)
UnwrapsTo(leaves, unwrapped) ==
  /\ unwrapped.is = "ok"
  /\ leaves = [k \in DOMAIN unwrapped.v |->
                 [kind |-> unwrapped.v[k].kind, raw |-> unwrapped.v[k].raw]]

UnwrapsAsWritten ==
  IsWritten /\ frames # <<>> =>
    LET i == Len(frames)
        cells == Cells(scenario.messages[i])
        group == ParseGroup("V1", cells).v
    IN /\ frames[i].body = 0 /\ frames[i].total = Len(cells)
       /\ scenario.codec # "V2" /\ group.kind = "GenericGroup"
       => UnwrapsTo(Together(scenario.messages[i].groups).leaves,
                    UnwrapGeneric(group.raw, "V1"))

(* What is returned is read as it was written, by the message parser as by *)
(* the group parser: what one framed the others do not see otherwise.      *)
ReadAsWritten == RoutedAsWritten /\ UnwrapsAsWritten

(* The caller's limits hold of every message returned whole, counted on    *)
(* the message as written: bytes, groups, elements, signatures in direct   *)
(* groups and at every level of an enclosure, depth (FrameLimits).         *)
BudgetsHold ==
  IsWritten => \A i \in DOMAIN frames :
    frames[i].total = Len(Cells(scenario.messages[i])) => Within(i)

(* A stream of well-formed messages is refused for nothing else: a limit   *)
(* is reported of a message that breaks one, a truncation only when the    *)
(* transport closed inside one, and the end is reported when nothing is    *)
(* left over.                                                              *)
FairVerdict ==
  IsWritten =>
    /\ verdict \in {"reading", "limit", "truncated", "done"}
    /\ verdict = "limit" => ~Within(Len(frames) + 1)
    /\ verdict = "truncated" =>
         closed /\ arrived - taken \notin EndsOf(scenario.messages[Len(frames) + 1])
    /\ verdict = "done" => closed /\ taken = arrived

(* The limits are exact: nothing beyond them is returned, and nothing      *)
(* within them is refused for them or for anything else.                   *)
LimitsAreExact == BudgetsHold /\ FairVerdict

(* Where the chunks fell makes no difference, for malformed streams too:   *)
(* the frames returned before the end are those of a decoder that reads    *)
(* everything at once, and so is the error, except that a limit may be     *)
(* noticed before what else is wrong, or after.  An error is final: what   *)
(* follows on the wire would not have changed it.                          *)
ChunksDoNotMatter ==
  verdict # "reading" =>
    LET upTo == IF verdict \in {"done", "truncated"} THEN arrived ELSE Len(scenario.wire)
        whole == AtOnce(SubSeq(scenario.wire, 1, upTo), <<>>) IN
    /\ frames = whole.frames
    /\ verdict = "done" <=> whole.verdict = "done"
    /\ verdict = whole.verdict \/ "limit" \in {verdict, whole.verdict}

(* A decoder that asks for more holds less than a body and its attachments *)
(* may measure: the buffer of an open stream cannot grow without bound.    *)
BoundedBuffer ==
  Waits => arrived - taken <= scenario.limits.bytes +
             (IF framer.mode = "event" THEN framer.body ELSE scenario.limits.body)

(* It asks for more only when it must: a bare group and a message closed   *)
(* by its envelope are returned as soon as their last cell is there, any   *)
(* other message as soon as the next body begins.                          *)
NoNeedlessWait ==
  Waits /\ IsWritten =>
    LET i == Len(frames) + 1 IN
    i \in DOMAIN scenario.messages /\ Within(i) =>
      arrived < StartOf(i) + Len(Cells(scenario.messages[i])) +
                (IF IsClosed(scenario.messages[i]) THEN 0 ELSE 1)

(* A reader whose transport closed comes to an end: every call on what is  *)
(* left returns a frame of some length or the error, none asks for more    *)
(* that cannot come.                                                       *)
Drains ==
  closed /\ verdict = "reading" =>
    LET answer == Advance(scenario.limits, scenario.codec, framer, Buffer, TRUE).outcome IN
    CASE answer.is = "ok" -> answer.v.total > 0
      [] answer.is = "need" -> Buffer = <<>>
      [] OTHER -> TRUE

(* A reader asks for more only in reason: never holding more than the      *)
(* limits allow, never when what it holds is complete, never after the end.*)
AsksInReason == BoundedBuffer /\ NoNeedlessWait /\ Drains
===============================================================================
