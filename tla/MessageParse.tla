----------------------------- MODULE MessageParse -----------------------------
(***************************************************************************)
(* One framed message read whole: its body's type steers it to one of the  *)
(* five kinds of message, and every attached group is routed to the slot   *)
(* of that kind it belongs to, or the message is refused.                  *)
(***************************************************************************)
EXTENDS Framer

LOCAL INSTANCE SequencesExt

-------------------------------------------------------------------------------
(* A walk over the groups of an attachment region, each framed before it   *)
(* is parsed, and over those of a frame, parsed where they stand.          *)

RECURSIVE FoldGroups(_, _, _), FoldFrame(_, _, _)
FoldGroups(Route(_, _), s, slots) ==
  IF s = <<>> THEN Ok(slots)
  ELSE Then(ParseGroup("V1", s), LAMBDA group :
       Then(Route(group, slots), LAMBDA routed : FoldGroups(Route, group.rest, routed)))

FoldFrame(Route(_, _), s, slots) ==
  IF s = <<>> THEN Ok(slots)
  ELSE Then(ParseBytes("V1", s), LAMBDA group :
       Then(Route(group, slots), LAMBDA routed : FoldFrame(Route, group.rest, routed)))

-------------------------------------------------------------------------------
(* Which group a message of each kind takes, and where it goes.            *)

Ilks ==
  [icp |-> "event", rot |-> "event", ixn |-> "event", dip |-> "event", drt |-> "event",
   vcp |-> "tel", vrt |-> "tel", iss |-> "tel", rev |-> "tel", bis |-> "tel", brv |-> "tel",
   rct |-> "receipt", exn |-> "exn", qry |-> "routed", rpy |-> "routed"]

EventRoutes == [ControllerIdxSigs |-> "sigs", WitnessIdxSigs |-> "wigs"]
TelRoutes ==
  [ControllerIdxSigs |-> "sigs", WitnessIdxSigs |-> "backer_sigs",
   SealSourceCouples |-> "source"]
ExnRoutes == [ControllerIdxSigs |-> "sigs", PathedMaterialCouples |-> "pathed"]
Endorsements ==
  [NonTransReceiptCouples |-> "couples", WitnessIdxSigs |-> "wigs",
   TransIdxSigGroups |-> "trans_receipts"]

Routes ==
  [event |-> EventRoutes, tel |-> TelRoutes, exn |-> ExnRoutes,
   receipt |-> Endorsements, routed |-> Endorsements]

SlotNames == UNION { {Routes[kind][group] : group \in DOMAIN Routes[kind]} :
                       kind \in DOMAIN Routes }
NoSlots == [slot \in SlotNames |-> <<>>]

(* Sequence numbers are read from any primitive of at most 16 bytes.       *)
ReadsAsNumber(primitive) == primitive[1].c \in {"number", "salt"}

Admissible(slot, element) ==
  CASE slot = "couples" -> element[1][1].c = "nkey"
    [] slot = "source" -> ReadsAsNumber(element[1])
    [] slot = "trans_receipts" -> ReadsAsNumber(element[2])
    [] OTHER -> TRUE

(* The source of a registry event is the last couple named.                *)
Routed(slots, slot, elements) ==
  [slots EXCEPT ![slot] = IF slot = "source" THEN SubSeq(elements, Len(elements), Len(elements))
                          ELSE @ \o elements]

(* A mutant: a second group of a kind takes the place of the first.        *)
RouteElementsReplacing(slots, slot, elements) == Ok([slots EXCEPT ![slot] = elements])

RouteElements(slots, slot, elements) ==
  IF \E i \in DOMAIN elements : ~Admissible(slot, elements[i])
  THEN Fail("inadmissible")
  ELSE Ok(IF elements = <<>> THEN slots ELSE Routed(slots, slot, elements))

-------------------------------------------------------------------------------
(* Pathed material of an exchange message: a path and the groups for it,   *)
(* scanned within what is left of the message's budget.                    *)

(* FrameLimits::scan_group_v1: the size and signatures of one group.       *)
ScannedGroup(limits, s, step) ==
  Then(step.outcome, LAMBDA size :
  Then(ScanGroup(limits, step.cursor, s, step.cursor.sigs, "V1"), LAMBDA nested :
    Ok([size |-> size, sigs |-> step.cursor.sigs + nested])))

ScanGroupV1(limits, s) ==
  Then(Open(limits, "V1", s), LAMBDA cursor :
    ScannedGroup(limits, s, AdvanceCursor(cursor, s, limits)))

RECURSIVE ScanMaterial(_, _, _, _)
ScanMaterial(limits, s, groups, used) ==
  IF s = <<>> THEN Ok(used)
  ELSE IF groups >= limits.nested THEN Fail("pathed material")
  ELSE Then(NeedIsError(ScanGroupV1([limits EXCEPT !.signatures = @ - used], s)),
            LAMBDA group : ScanMaterial(limits, SubSeq(s, group.size + 1, Len(s)),
                                        groups + 1, used + group.sigs))

(* Returns the attachment and the signatures used so far.                  *)
ParsePathed(limits, raw, used) ==
  Then(NeedIsError(Skip("matter", raw, 0)), LAMBDA path :
    LET material == SubSeq(raw, path + 1, Len(raw)) IN
    IF raw[1].c # "path" \/ material = <<>> THEN Fail("pathed material")
    ELSE Then(ScanMaterial(limits, material, 0, used), LAMBDA now :
           Ok([pathed |-> [path |-> SubSeq(raw, 1, path), material |-> material],
               used |-> now])))

(* PathedAttachment::controller_signatures.                                *)
ControllerSignatures(pathed) ==
  Then(ParseGroup("V1", pathed.material), LAMBDA group :
    IF group.kind # "ControllerIdxSigs" \/ group.rest # <<>> THEN Fail("pathed material")
    ELSE Elements(group))

(* route_exn_group.  Direct signatures and pathed ones share one budget.   *)
RouteExn(limits, group, slots, used) ==
  IF group.kind = "ControllerIdxSigs"
  THEN Then(Elements(group), LAMBDA elements :
         IF used + Len(elements) > limits.signatures THEN Fail("limit")
         ELSE Ok([slots |-> Routed(slots, "sigs", elements), used |-> used + Len(elements)]))
  ELSE IF Len(slots.pathed) >= limits.groups THEN Fail("pathed material")
  ELSE Then(ParsePathed(limits, group.raw, used), LAMBDA parsed :
         Ok([slots |-> Routed(slots, "pathed", <<parsed.pathed>>), used |-> parsed.used]))

-------------------------------------------------------------------------------
(* The walk over the attachments: consume_attachments and its siblings.    *)
(* An envelope's groups are routed one level deep; another inside is one   *)
(* more group no message takes.                                            *)

Route(kind, limits, group, to) ==
  IF group.kind \notin DOMAIN Routes[kind] THEN Fail("unexpected group")
  ELSE IF kind = "exn" THEN RouteExn(limits, group, to.slots, to.used)
  ELSE Then(Elements(group), LAMBDA elements :
       Then(RouteElements(to.slots, Routes[kind][group.kind], elements), LAMBDA slots :
         Ok([to EXCEPT !.slots = slots])))

Consume(kind, limits, attachments) ==
  LET One(group, to) == Route(kind, limits, group, to)
      Top(group, to) == IF group.kind = "AttachmentGroup"
                        THEN FoldFrame(One, group.raw, to) ELSE One(group, to)
  IN FoldGroups(Top, attachments, [slots |-> NoSlots, used |-> 0])

(* What the kind asks of the slots once they are filled.                   *)
HasEndorsement(slots) == slots # NoSlots
NoWitnesses(slots) == slots.wigs = <<>>

Complete(kind, slots) ==
  CASE kind = "receipt" /\ ~HasEndorsement(slots) -> Fail("missing endorsement")
    [] kind = "routed" /\ ~NoWitnesses(slots) -> Fail("unexpected group")
    [] OTHER -> Ok(slots)

-------------------------------------------------------------------------------
(* Message::parse: one message off the head of the input, and the rest.    *)

FrameOne(limits, s) ==
  IF s # <<>> /\ ColdCode(s[1]) \in {"cbor", "mgpk"} THEN Fail("cold start")
  ELSE NeedIsTruncation(Advance(limits, "message", Idle, s, TRUE).outcome)

(* The ilk a body shows: its type cell.                                    *)
Ilk(body) ==
  LET at == {i \in DOMAIN body : body[i].is = "type"} IN
  IF \E i \in at : body[i].c \in DOMAIN Ilks
  THEN Ok(body[CHOOSE i \in at : TRUE].c) ELSE Fail("body")

ParseMessage(limits, s) ==
  Then(FrameOne(limits, s), LAMBDA span :
    LET body == SubSeq(s, 1, span.body) IN
    IF span.body = 0 THEN Fail("bare attachment")
    ELSE Then(Ilk(body), LAMBDA ilk :
         Then(Consume(Ilks[ilk], limits, SubSeq(s, span.body + 1, span.total)), LAMBDA filled :
         Then(Complete(Ilks[ilk], filled.slots), LAMBDA slots :
           Ok([kind |-> Ilks[ilk], body |-> body, slots |-> slots,
               rest |-> SubSeq(s, span.total + 1, Len(s))])))))
===============================================================================
