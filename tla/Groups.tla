-------------------------------- MODULE Groups --------------------------------
(***************************************************************************)
(* Attachment groups: the resumable cursor that frames one group, the      *)
(* bounded walk through universal enclosures, and the typed parse.         *)
(*                                                                         *)
(* A cursor is kept between calls while the input grows: completed         *)
(* elements, and completed parts of an element with nested signatures, are *)
(* never read again.                                                       *)
(***************************************************************************)
EXTENDS Integers, Cesr

LOCAL INSTANCE FiniteSetsExt

NoLimit == 100000
NotRead == NoLimit + 1

(* Caller-chosen limits, FrameLimits.                                      *)
LimitNames == {"body", "bytes", "groups", "elements", "signatures", "nested", "depth"}

-------------------------------------------------------------------------------
(* The nested counter and signatures of an -F or -H element: NestedSig-    *)
(* Cursor.  `at` is relative to the element's first cell.                  *)

FreshInner(kind) ==
  [at |-> 0, matters |-> IF HasNestedSigs(kind) THEN NestedMatters(kind) ELSE 0,
   left |-> NotRead]

NestedCounter(version, s, at) ==
  Then(ReadCounter(version, s, at), LAMBDA counter :
    IF counter.head.is = "-" /\ counter.head.c = (IF version = "V1" THEN "A" ELSE "K")
    THEN Ok(counter) ELSE Fail("nested counter mismatch"))

(* A step of the inner cursor: where it is now, the signatures its counter *)
(* newly declared, and the outcome: the size of the complete element.      *)
InnerStep(inner, declared, outcome) ==
  [inner |-> inner, declared |-> declared, outcome |-> outcome]

PastSigs(inner, declared, sigs) ==
  InnerStep([inner EXCEPT !.at = sigs.at, !.left = sigs.left], declared, sigs.outcome)

AdvanceSigs(inner, s, declared) ==
  PastSigs(inner, declared, Skips("siger", s, inner.at, inner.left))

PastCounter(inner, s, counter, elements, signatures) ==
  CASE counter.is # "ok" -> InnerStep(inner, 0, counter)
    [] counter.v.count > elements \/ counter.v.count > signatures ->
         InnerStep(inner, 0, Fail("limit"))
    [] OTHER -> AdvanceSigs([inner EXCEPT !.at = counter.v.end, !.left = counter.v.count],
                            s, counter.v.count)

PastMatters(version, inner, s, outcome, elements, signatures) ==
  CASE outcome.is # "ok" -> InnerStep(inner, 0, outcome)
    [] inner.left # NotRead -> AdvanceSigs(inner, s, 0)
    [] OTHER -> PastCounter(inner, s, NestedCounter(version, s, inner.at),
                            elements, signatures)

AdvanceInner(version, inner, s, elements, signatures) ==
  LET matters == Skips("matter", s, inner.at, inner.matters) IN
  PastMatters(version, [inner EXCEPT !.at = matters.at, !.matters = matters.left],
              s, matters.outcome, elements, signatures)

-------------------------------------------------------------------------------
(* The group cursor: GroupFrameCursor.                                     *)

OverElements(version, kind, counter) ==
  [version |-> version, kind |-> kind, count |-> counter.count, start |-> counter.end,
   end |-> counter.end, left |-> counter.count, inner |-> FreshInner(kind),
   sigs |-> counter.count * SignaturesPerElement(kind)]

OverQuadlets(version, kind, counter) ==
  [version |-> version, kind |-> kind, count |-> counter.count, start |-> counter.end,
   end |-> counter.end + 2 * counter.count, left |-> 0, inner |-> FreshInner(kind),
   sigs |-> 0]

NewCursor(version, s) ==
  Then(ReadCounter(version, s, 0), LAMBDA counter :
    IF counter.head.is = "-_" THEN Fail("genus version is not a group")
    ELSE LET kind == Codes(version)[counter.head.c] IN
      Ok(IF IsFrame(kind) THEN OverQuadlets(version, kind, counter)
         ELSE OverElements(version, kind, counter)))

CursorStep(cursor, outcome) == [cursor |-> cursor, outcome |-> outcome]

WithInner(cursor, step) ==
  CursorStep([cursor EXCEPT !.inner = step.inner, !.sigs = @ + step.declared],
             Then(step.outcome, LAMBDA size : Ok(cursor.end + size)))

(* One element at the head of the window the byte limit leaves.            *)
AdvanceElement(cursor, window, limits) ==
  IF HasNestedSigs(cursor.kind)
  THEN WithInner(cursor, AdvanceInner(cursor.version, cursor.inner,
                                      SubSeq(window, cursor.end + 1, Len(window)),
                                      limits.elements, limits.signatures - cursor.sigs))
  ELSE CursorStep(cursor, SkipParts(Grammar[cursor.kind], window, cursor.end))

(* A mutant: an element that was resumed keeps the progress of the last.   *)
ElementDoneKeepingInner(cursor, end) == [cursor EXCEPT !.end = end, !.left = @ - 1]

ElementDone(cursor, end) ==
  [cursor EXCEPT !.end = end, !.left = @ - 1, !.inner = FreshInner(cursor.kind)]

RECURSIVE AdvanceCursor(_, _, _)
PastElement(step, s, limits) ==
  CASE step.outcome.is = "need" /\ Len(s) >= limits.bytes ->
         CursorStep(step.cursor, Fail("limit"))
    [] step.outcome.is # "ok" -> step
    [] OTHER -> AdvanceCursor(ElementDone(step.cursor, step.outcome.v), s, limits)

AdvanceCursor(cursor, s, limits) ==
  CASE cursor.sigs > limits.signatures \/ cursor.end > limits.bytes ->
         CursorStep(cursor, Fail("limit"))
    [] cursor.left = 0 ->
         CursorStep(cursor, IF Len(s) < cursor.end THEN Need ELSE Ok(cursor.end))
    [] OTHER ->
         PastElement(AdvanceElement(cursor, SubSeq(s, 1, Min({Len(s), limits.bytes})), limits),
                     s, limits)

CheckElements(limits, cursor) ==
  IF ~IsFrame(cursor.kind) /\ cursor.count > limits.elements
  THEN Fail("limit") ELSE Ok(cursor)

(* The payload of a complete enclosure.                                    *)
Payload(cursor, s) == SubSeq(s, cursor.start + 1, cursor.end)

-------------------------------------------------------------------------------
(* What a serialized body's head declares: JsonVersionHead.                *)

FreshHead == [at |-> 1, state |-> "BeforeKey"]

HeadStep ==
  [BeforeKey |-> "quote", KeyV |-> "v", KeyClose |-> "quote",
   BeforeColon |-> "colon", BeforeValue |-> "quote"]
HeadNext ==
  [BeforeKey |-> "KeyV", KeyV |-> "KeyClose", KeyClose |-> "BeforeColon",
   BeforeColon |-> "BeforeValue", BeforeValue |-> "Complete"]

RECURSIVE AdvanceHead(_, _)
AdvanceHead(head, s) ==
  LET Stop(outcome) == [head |-> head, outcome |-> outcome] IN
  IF Len(s) < head.at THEN Stop(Fail("truncated"))
  ELSE IF head.state = "Complete" THEN Stop(Ok(head.at))
  ELSE IF Len(s) = head.at THEN Stop(Need)
  ELSE LET cell == s[head.at + 1] IN
    CASE cell.is = HeadStep[head.state] ->
           AdvanceHead([at |-> head.at + 1, state |-> HeadNext[head.state]], s)
      [] cell.is = "space" /\ head.state \in {"BeforeKey", "BeforeColon", "BeforeValue"} ->
           AdvanceHead([head EXCEPT !.at = @ + 1], s)
      [] OTHER -> Stop(Fail("no version string"))

(* A binary map: header, text of one byte, "v", text of a version string's *)
(* length.  A wide header carries its number in a second cell.             *)
Header(is, s, at) ==
  CASE at >= Len(s) -> Need
    [] s[at + 1].is = is -> Ok([n |-> s[at + 1].n, end |-> at + 1])
    [] s[at + 1].is # [map |-> "wide map", text |-> "wide text"][is] -> Fail("no version string")
    [] at + 1 >= Len(s) -> Need
    [] OTHER -> Ok([n |-> s[at + 2].n, end |-> at + 2])

TextStart(s, at, length) ==
  Then(Header("text", s, at), LAMBDA header :
    IF header.n = length THEN Ok(header.end) ELSE Fail("no version string"))

BinaryVersionAt(s) ==
  Then(Header("map", s, 0), LAMBDA map :
    IF map.n = 0 THEN Fail("no version string")
    ELSE Then(TextStart(s, map.end, 1), LAMBDA key :
      CASE key >= Len(s) -> Need
        [] s[key + 1].is # "v" -> Fail("no version string")
        [] OTHER -> TextStart(s, key + 1, 17)))

(* A mutant: the prefix of a version string of the second format is taken  *)
(* for a malformed one of the first.                                       *)
EventSizeAtImpatient(s, at, cold) ==
  LET tail == SubSeq(s, at + 1, Len(s)) IN
  CASE Len(tail) < 2 -> Need
    [] Len(tail) >= 3 /\ tail[1].is = "version2" -> Fail("unsupported version")
    [] tail[1].is # "version" -> Fail("no version")
    [] tail[1].c # cold -> Fail("kind mismatch")
    [] tail[1].n < at + 2 -> Fail("event size")
    [] OTHER -> Ok(tail[1].n)

(* The version string, two cells in the first format and three in the      *)
(* second.  A prefix of the second is incomplete, never malformed.         *)
EventSizeAt(s, at, cold) ==
  LET tail == SubSeq(s, at + 1, Len(s))
      v1Complete == Len(tail) >= 2
      v2Complete == Len(tail) >= 3
  IN CASE ~v1Complete -> Need
       [] tail[1].is = "version2" ->
            IF v2Complete THEN Fail("unsupported version") ELSE Need
       [] tail[1].is # "version" -> Fail("no version")
       [] tail[1].c # cold -> Fail("kind mismatch")
       [] tail[1].n < at + 2 -> Fail("event size")
       [] OTHER -> Ok(tail[1].n)

EventSize(s, cold) ==
  Then(IF cold = "json" THEN AdvanceHead(FreshHead, s).outcome ELSE BinaryVersionAt(s),
       LAMBDA at : EventSizeAt(s, at, cold))

-------------------------------------------------------------------------------
(* The walk through an enclosure: scan_enclosure.  Levels are suspended on *)
(* a stack; groups and signatures are counted across all of them.          *)

(* A payload may open with a genus counter that switches the code table.   *)
EnclosedVersion(s, default) ==
  IF s = <<>> \/ s[1].is # "-_" THEN Ok([version |-> default, at |-> 0])
  ELSE IF Len(s) < 4 THEN Need
  ELSE CASE s[1].c # "AAA" -> Ok([version |-> default, at |-> 0])
         [] s[4].n = 1 -> Ok([version |-> "V1", at |-> 4])
         [] s[4].n = 2 -> Ok([version |-> "V2", at |-> 4])
         [] OTHER -> Fail("unsupported genus version")

NeedIsTruncation(outcome) == IF outcome.is = "need" THEN Fail("truncated") ELSE outcome

(* A body or a bare primitive between the groups of an enclosure: its      *)
(* size, and the signatures it is.                                         *)
SkipEnclosedAtom(limits, s) ==
  LET cold == ColdCode(s[1]) IN
  CASE cold \in Serializations ->
         Then(EventSize(s, cold), LAMBDA size :
           CASE size > limits.body -> Fail("limit")
             [] size > Len(s) -> Fail("truncated")
             [] OTHER -> Ok([size |-> size, sigs |-> 0]))
    [] cold = "text" ->
         Then(Skip("matter", s, 0), LAMBDA size :
           Ok([size |-> size, sigs |-> IF s[1].c = "signature" THEN 1 ELSE 0]))
    [] OTHER -> Fail("cold start")

(* A mutant: the budget of signatures starts anew at every level.          *)
LevelBudgetFresh(limits, sigs) == limits.signatures

LevelBudget(limits, sigs) == limits.signatures - sigs

Past(level, size) == [level EXCEPT !.at = @ + size]
Inside(level, payload, entered) ==
  [s |-> payload, at |-> entered.at, depth |-> level.depth + 1, version |-> entered.version]

RECURSIVE Walk(_, _, _, _)
(* A group of the innermost level, framed: passed over, or entered when it *)
(* is an enclosure itself.                                                 *)
WalkPast(limits, stack, nested, sigs, group, tail, end) ==
  LET level == Head(stack)
      after == <<Past(level, end)>> \o Tail(stack)
      payload == Payload(group, tail)
  IN CASE ~IsEnclosing(group.kind) -> Walk(limits, after, nested, sigs + group.sigs)
       [] level.depth + 1 > limits.depth -> Fail("limit")
       [] OTHER ->
            Then(NeedIsTruncation(EnclosedVersion(payload, level.version)), LAMBDA entered :
              Walk(limits, <<Inside(level, payload, entered)>> \o after,
                   nested, sigs + group.sigs))

WalkStep(limits, stack, nested, sigs, tail, step) ==
  Then(NeedIsTruncation(step.outcome), LAMBDA end :
    WalkPast(limits, stack, nested, sigs, step.cursor, tail, end))

WalkGroup(limits, stack, nested, sigs, tail) ==
  IF nested + 1 > limits.nested THEN Fail("limit")
  ELSE Then(NeedIsTruncation(NewCursor(Head(stack).version, tail)), LAMBDA new :
       Then(CheckElements(limits, new), LAMBDA checked :
         WalkStep(limits, stack, nested + 1, sigs, tail,
                  AdvanceCursor(checked, tail,
                    [limits EXCEPT !.bytes = NoLimit,
                                   !.signatures = LevelBudget(limits, sigs)]))))

WalkAtom(limits, stack, nested, sigs, tail) ==
  Then(SkipEnclosedAtom(limits, tail), LAMBDA atom :
    IF sigs + atom.sigs > limits.signatures THEN Fail("limit")
    ELSE Walk(limits, <<Past(Head(stack), atom.size)>> \o Tail(stack),
              nested, sigs + atom.sigs))

Walk(limits, stack, nested, sigs) ==
  IF stack = <<>> THEN Ok(sigs)
  ELSE LET tail == SubSeq(Head(stack).s, Head(stack).at + 1, Len(Head(stack).s)) IN
    CASE tail = <<>> -> Walk(limits, Tail(stack), nested, sigs)
      [] tail # <<>> /\ tail[1].is \in Counters -> WalkGroup(limits, stack, nested, sigs, tail)
      [] OTHER -> WalkAtom(limits, stack, nested, sigs, tail)

(* The signatures found inside, when the walk stays within the limits.     *)
ScanEnclosure(limits, payload, prior, version) ==
  IF limits.depth = 0 THEN Fail("limit")
  ELSE Then(NeedIsTruncation(EnclosedVersion(payload, version)), LAMBDA entered :
    Then(Walk(limits, <<[s |-> payload, at |-> entered.at, depth |-> 1,
                         version |-> entered.version]>>, 0, prior),
         LAMBDA sigs : Ok(sigs - prior)))

(* The enclosures of a complete group; none of another kind.  Input that   *)
(* ends inside a primitive of a complete enclosure is an error like any    *)
(* other, though it is reported as a wish for more.                        *)
NeedIsError(outcome) == IF outcome.is = "need" THEN Fail("need bytes") ELSE outcome

ScanGroup(limits, cursor, s, prior, version) ==
  IF ~IsEnclosing(cursor.kind) THEN Ok(0)
  ELSE NeedIsError(ScanEnclosure(limits, Payload(cursor, s), prior, version))

-------------------------------------------------------------------------------
(* The typed read of a group's elements: Elements over GroupKind::element. *)
(* A primitive's value is its cells.                                       *)

ReadPrimitive(part, s, at) ==
  Then(Skip(part, s, at), LAMBDA next :
    IF Reads(part, s[at + 1])
    THEN Ok([at |-> next, value |-> SubSeq(s, at + 1, next)])
    ELSE Fail("unexpected code type"))

(* n elements of a grammar; nested signatures are elements of their own.   *)
RECURSIVE ReadElements(_, _, _, _, _), ReadParts(_, _, _, _)
ReadElements(version, parts, s, at, n) ==
  IF n = 0 THEN Ok([at |-> at, value |-> <<>>])
  ELSE Then(ReadParts(version, parts, s, at), LAMBDA first :
       Then(ReadElements(version, parts, s, first.at, n - 1), LAMBDA others :
         Ok([at |-> others.at, value |-> <<first.value>> \o others.value])))

ReadParts(version, parts, s, at) ==
  IF parts = <<>> THEN Ok([at |-> at, value |-> <<>>])
  ELSE LET first == IF Head(parts) = "sigers"
                    THEN Then(NestedCounter(version, s, at), LAMBDA counter :
                      ReadElements(version, <<"siger">>, s, counter.end, counter.count))
                    ELSE ReadPrimitive(Head(parts), s, at)
       IN Then(first, LAMBDA read :
          Then(ReadParts(version, Tail(parts), s, read.at), LAMBDA others :
            Ok([at |-> others.at, value |-> <<read.value>> \o others.value])))

-------------------------------------------------------------------------------
(* The dispatch by counter code, a table apart from the cursor's: a kind   *)
(* is a list of elements or a number of quadlets.                          *)

V1ElementKinds ==
  {"ControllerIdxSigs", "WitnessIdxSigs", "NonTransReceiptCouples", "TransReceiptQuadruples",
   "FirstSeenReplayCouples", "TransIdxSigGroups", "SealSourceCouples",
   "TransLastIdxSigGroups", "SealSourceTriples"}
V1FrameKinds ==
  {"AttachmentGroup", "GenericGroup", "BodyWithAttachmentGroup", "NonNativeBodyGroup",
   "ESSRPayloadGroup", "PathedMaterialCouples"}

V2ElementKinds ==
  {"ControllerIdxSigs", "WitnessIdxSigs", "NonTransReceiptCouples", "TransReceiptQuadruples",
   "FirstSeenReplayCouples", "SealSourceCouples", "SealSourceTriples", "TransIdxSigGroups",
   "TransLastIdxSigGroups"}
V2FrameKinds ==
  {"AttachmentGroup", "GenericGroup", "BodyWithAttachmentGroup", "NonNativeBodyGroup",
   "ESSRPayloadGroup", "DatagramSegmentGroup", "ESSRWrapperGroup", "FixBodyGroup",
   "MapBodyGroup", "GenericMapGroup", "GenericListGroup", "PathedMaterialCouples"}
V2SealKinds ==
  {"DigestSealSingles", "MerkleRootSealSingles", "SealSourceLastSingles",
   "BackerRegistrarSealCouples", "TypedDigestSealCouples", "BlindedStateQuadruples",
   "BoundStateSextuples", "TypedMediaQuadruples"}

DispatchedElements(version) ==
  IF version = "V1" THEN V1ElementKinds ELSE V2ElementKinds \cup V2SealKinds
DispatchedFrames(version) == IF version = "V1" THEN V1FrameKinds ELSE V2FrameKinds

(* TLC evaluates that the two tables agree on every counter code.          *)
ASSUME TablesAgree ==
  \A version \in {"V1", "V2"} : \A letter \in DOMAIN Codes(version) :
    LET kind == Codes(version)[letter]
    IN  IF IsFrame(kind) THEN kind \in DispatchedFrames(version) \ DispatchedElements(version)
        ELSE kind \in DispatchedElements(version) \ DispatchedFrames(version)

(* GroupKind::skip: an element in one go, without a cursor kept.           *)
SkipElement(version, kind, s, at) ==
  IF HasNestedSigs(kind)
  THEN Then(AdvanceInner(version, FreshInner(kind), SubSeq(s, at + 1, Len(s)),
                         NoLimit, NoLimit).outcome,
            LAMBDA size : Ok(at + size))
  ELSE SkipParts(Grammar[kind], s, at)

(* Where n elements, or n quadlets of two cells, end.                      *)
RECURSIVE ParseKind(_, _, _, _, _)
ParseKind(version, kind, s, at, n) ==
  IF n = 0 THEN Ok(at)
  ELSE Then(SkipElement(version, kind, s, at), LAMBDA next :
         ParseKind(version, kind, s, next, n - 1))

ParseQuadlets(s, at, n) == IF Len(s) < at + 2 * n THEN Need ELSE Ok(at + 2 * n)

Dispatch(version, kind, s, at, n) ==
  CASE kind \in DispatchedElements(version) -> ParseKind(version, kind, s, at, n)
    [] kind \in DispatchedFrames(version) -> ParseQuadlets(s, at, n)
    [] OTHER -> Fail("not an attachment group")

(* One group at the head of a buffer, without limits.                      *)
NoLimits == [name \in LimitNames |-> NoLimit]

ParseBytes(version, s) ==
  Then(NeedIsError(ReadCounter(version, s, 0)), LAMBDA counter :
    IF counter.head.is = "-_" THEN Fail("genus version is not a group")
    ELSE LET kind == Codes(version)[counter.head.c] IN
      Then(NeedIsError(Dispatch(version, kind, s, counter.end, counter.count)), LAMBDA end :
        Ok([version |-> version, kind |-> kind, count |-> counter.count,
            raw |-> SubSeq(s, counter.end + 1, end), rest |-> SubSeq(s, end + 1, Len(s))])))

(* CesrGroup::parse and parse_v2: a group is framed by its cursor, and the *)
(* framed cells alone are parsed.                                          *)
ParseGroup(version, s) ==
  Then(NeedIsError(NewCursor(version, s)), LAMBDA new :
  Then(NeedIsError(AdvanceCursor(new, s, NoLimits).outcome), LAMBDA size :
  Then(ParseBytes(version, SubSeq(s, 1, size)), LAMBDA group :
    Ok([group EXCEPT !.rest = SubSeq(s, size + 1, Len(s))]))))

Elements(group) ==
  Then(NeedIsError(ReadElements(group.version, Grammar[group.kind], group.raw, 0, group.count)),
       LAMBDA read : Ok(read.value))

(* UnwrapGeneric: the groups of a generic group with those of its nested   *)
(* generic groups in their place.  Levels are suspended on a stack.        *)
MaxUnwrapDepth == 8

Resumed(level, rest, inner) == [level EXCEPT !.s = rest]

RECURSIVE Unwrap(_)
Unwrap(stack) ==
  IF stack = <<>> THEN Ok(<<>>)
  ELSE IF Head(stack).s = <<>> THEN Unwrap(Tail(stack))
  ELSE LET level == Head(stack) IN
    Then(ParseBytes(level.version, level.s), LAMBDA group :
      IF group.kind # "GenericGroup"
      THEN Then(Unwrap(<<[level EXCEPT !.s = group.rest]>> \o Tail(stack)),
                LAMBDA others : Ok(<<group>> \o others))
      ELSE IF level.depth >= MaxUnwrapDepth THEN Fail("depth")
      ELSE Then(NeedIsError(EnclosedVersion(group.raw, level.version)), LAMBDA inner :
             Unwrap(<<[s |-> SubSeq(group.raw, inner.at + 1, Len(group.raw)),
                       version |-> inner.version, depth |-> level.depth + 1]>>
                    \o <<Resumed(level, group.rest, inner.version)>> \o Tail(stack))))

UnwrapGeneric(payload, version) == Unwrap(<<[s |-> payload, version |-> version, depth |-> 0]>>)

-------------------------------------------------------------------------------
(* The write side: CesrEncode for groups, over encode_count_into.  A group *)
(* is written with its version's code; a frame's payload must be whole     *)
(* quadlets.                                                               *)

Capacity(softCharacters) == 64 ^ softCharacters - 1

Letter(version, kind) == CHOOSE l \in DOMAIN Codes(version) : Codes(version)[l] = kind

HasKind(version, kind) == \E l \in DOMAIN Codes(version) : Codes(version)[l] = kind

EncodeCount(version, kind, count) ==
  IF count > Capacity(2) THEN Fail("count exceeds capacity")
  ELSE Ok(<<Cell("-", Letter(version, kind), 0), Cell("count", "", count)>>)

(* `elements` counts the elements of an element-counted kind.              *)
Encode(version, kind, elements, raw) ==
  CASE ~HasKind(version, kind) -> Fail("version mismatch")
    [] IsFrame(kind) /\ Len(raw) % 2 # 0 -> Fail("misaligned")
    [] OTHER -> Then(EncodeCount(version, kind,
                                 IF IsFrame(kind) THEN Len(raw) \div 2 ELSE elements),
                     LAMBDA counter : Ok(counter \o raw))
===============================================================================
