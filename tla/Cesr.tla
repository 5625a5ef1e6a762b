--------------------------------- MODULE Cesr ---------------------------------
(***************************************************************************)
(* The text domain of a CESR stream: what the first bytes at a position    *)
(* announce, and how far a reader may step.                                *)
(*                                                                         *)
(* A stream is a sequence of cells.  A cell of attachments stands for two  *)
(* characters, so a quadlet is two cells and every chunk boundary inside a *)
(* counter or a primitive can be drawn; a cell of a serialized body stands *)
(* for one structural byte of its head, or for one part of its version     *)
(* string.  `is` is the shape of the cell, `c` the code or class it shows, *)
(* `n` the number it carries.                                              *)
(***************************************************************************)
EXTENDS Naturals, Sequences, TLC

Cell(is, c, n) == [is |-> is, c |-> c, n |-> n]

Filler == Cell("fill", "", 0)

(* A primitive of `size` cells: its head tells class and size, the rest is *)
(* material that begins no code.                                           *)
Primitive(is, class, size) ==
  <<Cell(is, class, size)>> \o [i \in 1 .. (size - 1) |-> Filler]

(* What a read returns: a value, the wish for more input, or an error.     *)
Ok(v) == [is |-> "ok", v |-> v]
Need == [is |-> "need"]
Fail(why) == [is |-> "fail", why |-> why]
Then(outcome, Next(_)) == IF outcome.is = "ok" THEN Next(outcome.v) ELSE outcome

-------------------------------------------------------------------------------
(* The first byte: which of the domains it opens.                          *)

Serializations == {"json", "cbor", "mgpk"}
Counters == {"-", "--", "-_"}

ColdCode(cell) ==
  CASE cell.is \in {"{", "map", "wide map"} -> cell.c
    [] cell.is \in Counters \cup {"m", "i", "fill"} -> "text"
    [] cell.is = "binary" -> "binary"
    [] OTHER -> "unknown"

-------------------------------------------------------------------------------
(* The counter codes of the two tables, and the element grammar of the     *)
(* groups they open.                                                       *)

V1Codes ==
  [A |-> "ControllerIdxSigs", B |-> "WitnessIdxSigs",
   C |-> "NonTransReceiptCouples", D |-> "TransReceiptQuadruples",
   E |-> "FirstSeenReplayCouples", F |-> "TransIdxSigGroups",
   G |-> "SealSourceCouples", H |-> "TransLastIdxSigGroups",
   I |-> "SealSourceTriples", L |-> "PathedMaterialCouples",
   T |-> "GenericGroup", U |-> "BodyWithAttachmentGroup",
   V |-> "AttachmentGroup", W |-> "NonNativeBodyGroup",
   Z |-> "ESSRPayloadGroup"]

V2Codes ==
  [A |-> "GenericGroup", B |-> "BodyWithAttachmentGroup",
   C |-> "AttachmentGroup", D |-> "DatagramSegmentGroup",
   E |-> "ESSRWrapperGroup", F |-> "FixBodyGroup", G |-> "MapBodyGroup",
   H |-> "NonNativeBodyGroup", I |-> "GenericMapGroup",
   J |-> "GenericListGroup", K |-> "ControllerIdxSigs",
   L |-> "WitnessIdxSigs", M |-> "NonTransReceiptCouples",
   N |-> "TransReceiptQuadruples", O |-> "FirstSeenReplayCouples",
   P |-> "PathedMaterialCouples", Q |-> "DigestSealSingles",
   R |-> "MerkleRootSealSingles", S |-> "SealSourceCouples",
   T |-> "SealSourceTriples", U |-> "SealSourceLastSingles",
   V |-> "BackerRegistrarSealCouples", W |-> "TypedDigestSealCouples",
   X |-> "TransIdxSigGroups", Y |-> "TransLastIdxSigGroups",
   Z |-> "ESSRPayloadGroup", a |-> "BlindedStateQuadruples",
   b |-> "BoundStateSextuples", c |-> "TypedMediaQuadruples"]

Codes(version) == IF version = "V1" THEN V1Codes ELSE V2Codes

(* The typed parts of one element, by family: signatures and receipts,     *)
(* seals, and the typed couples of the second table.  A kind without a row *)
(* is a frame: its counter tells quadlets, its payload is opaque to the    *)
(* framing pass.                                                           *)
SignatureGrammar ==
  [ControllerIdxSigs |-> <<"siger">>, WitnessIdxSigs |-> <<"siger">>,
   NonTransReceiptCouples |-> <<"verfer", "cigar">>,
   TransReceiptQuadruples |-> <<"prefix", "matter", "diger", "siger">>,
   FirstSeenReplayCouples |-> <<"matter", "matter">>]

GroupedSignatureGrammar ==
  [TransIdxSigGroups |-> <<"prefix", "matter", "diger", "sigers">>,
   TransLastIdxSigGroups |-> <<"prefix", "sigers">>]

SealGrammar ==
  [SealSourceCouples |-> <<"matter", "diger">>,
   SealSourceTriples |-> <<"verfer", "matter", "diger">>,
   DigestSealSingles |-> <<"diger">>, MerkleRootSealSingles |-> <<"diger">>,
   SealSourceLastSingles |-> <<"verfer">>,
   BackerRegistrarSealCouples |-> <<"verfer", "diger">>]

TypedGrammar ==
  [TypedDigestSealCouples |-> <<"verser", "diger">>,
   BlindedStateQuadruples |-> <<"diger", "noncer", "noncer", "labeler">>,
   BoundStateSextuples |->
     <<"diger", "noncer", "noncer", "labeler", "number", "noncer">>,
   TypedMediaQuadruples |-> <<"diger", "noncer", "labeler", "texter">>]

Grammar == SignatureGrammar @@ GroupedSignatureGrammar @@ SealGrammar @@ TypedGrammar

IsFrame(kind) == kind \notin DOMAIN Grammar
HasNestedSigs(kind) == kind \in {"TransIdxSigGroups", "TransLastIdxSigGroups"}
NestedMatters(kind) == Len(Grammar[kind]) - 1
IsEnclosing(kind) ==
  kind \in {"GenericGroup", "BodyWithAttachmentGroup", "AttachmentGroup"}
SignaturesPerElement(kind) ==
  IF kind \in {"ControllerIdxSigs", "WitnessIdxSigs", "NonTransReceiptCouples",
               "TransReceiptQuadruples"} THEN 1 ELSE 0

(* A counter shows its shape in its first cell: "-" and one letter, "--"   *)
(* for the wide form of one, "-_" for the genus and version.  The code is  *)
(* known once the hard cells are there; the count is in the cell after it. *)
HardCells(is) == CASE is = "-" -> 1 [] is = "--" -> 2 [] is = "-_" -> 3
FullCells(is) == IF is = "-" THEN 2 ELSE 4

KnownCounter(version, cell) ==
  CASE cell.is = "-_" -> cell.c = "AAA"
    [] cell.is = "-" -> cell.c \in DOMAIN Codes(version)
    [] cell.is = "--" -> /\ cell.c \in DOMAIN Codes(version)
                         /\ version = "V1" => IsFrame(V1Codes[cell.c])

ReadCounter(version, s, at) ==
  IF at >= Len(s) THEN Need
  ELSE LET head == s[at + 1] IN
    CASE head.is \notin Counters -> Fail("not a counter")
      [] Len(s) - at < HardCells(head.is) -> Need
      [] ~KnownCounter(version, head) -> Fail("unknown code")
      [] Len(s) - at < FullCells(head.is) -> Need
      [] OTHER -> Ok([head |-> head, end |-> at + FullCells(head.is),
                      count |-> s[at + HardCells(head.is) + 1].n])

-------------------------------------------------------------------------------
(* Primitives, skipped by the size their code class announces.             *)

Skip(part, s, at) ==
  IF at >= Len(s) THEN Need
  ELSE LET head == s[at + 1] IN
    CASE head.is # (IF part = "siger" THEN "i" ELSE "m") -> Fail("unknown code")
      [] at + head.n > Len(s) -> Need
      [] OTHER -> Ok(at + head.n)

(* Up to n primitives of one sort, as far as the input reaches.            *)
RECURSIVE Skips(_, _, _, _)
Skips(part, s, at, n) ==
  LET next == IF n = 0 THEN Need ELSE Skip(part, s, at) IN
  IF n > 0 /\ next.is = "ok" THEN Skips(part, s, next.v, n - 1)
  ELSE [at |-> at, left |-> n, outcome |-> IF n = 0 THEN Ok(at) ELSE next]

(* One element without nested signatures: framing takes it whole or not at *)
(* all.                                                                    *)
RECURSIVE SkipParts(_, _, _)
SkipParts(parts, s, at) ==
  IF parts = <<>> THEN Ok(at)
  ELSE Then(Skip(Head(parts), s, at), LAMBDA next : SkipParts(Tail(parts), s, next))

(* What a typed read admits at each part; the framing pass does not ask.   *)
Narrow ==
  [verfer |-> {"key", "nkey"}, prefix |-> {"key", "nkey", "digest"}, diger |-> {"digest"},
   cigar |-> {"signature"}, verser |-> {"version"}, number |-> {"number"},
   noncer |-> {"nonce", "digest"}, labeler |-> {"label"}, texter |-> {"text"}]

Reads(part, cell) == part \in DOMAIN Narrow => cell.c \in Narrow[part]
===============================================================================
