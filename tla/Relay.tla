---------------------------------- MODULE Relay ----------------------------------
(***************************************************************************)
(* A message on its way: written once, read and written again by every     *)
(* host that passes it on, and possibly altered in between.                *)
(*                                                                         *)
(* keri-codec keeps no bytes: a host that forwards what it read renders    *)
(* the typed message anew and digests it anew.  What a digest names must   *)
(* survive that, for the logs, the receipts and the seals of every other   *)
(* host name the message by the digest it was first written with.          *)
(***************************************************************************)
EXTENDS EventCodec

CONSTANTS
  Messages,         (* What is written. *)
  Strays,           (* Values an alteration may put in a field. *)
  MaxAlterations,   (* Bound: alterations in transit. *)
  MaxHops           (* Bound: hosts that pass the message on. *)

ASSUME RelayAssumption == MaxAlterations \in Nat /\ MaxHops \in Nat

VARIABLES
  meant,     (* the message as its author built it *)
  first,     (* the bytes its author wrote *)
  sent,      (* the bytes last written, by the author or a relay *)
  wire,      (* the bytes as they arrive *)
  held,      (* what the reader makes of them *)
  altered,   (* alterations so far *)
  hops       (* relays so far *)

vars == <<meant, first, sent, wire, held, altered, hops>>

Nothing == [is |-> "nothing"]

Init ==
  /\ meant = Nothing /\ first = <<>> /\ sent = <<>> /\ wire = <<>>
  /\ held = Nothing /\ altered = 0 /\ hops = 0

Author(m, bytes) ==
  /\ meant = Nothing
  /\ meant' = m /\ first' = bytes /\ sent' = bytes /\ wire' = bytes
  /\ UNCHANGED <<held, altered, hops>>

(* This codec is the author.                                               *)
Write(m) == Author(m, Encode(m))

(* Another implementation is: it spells the number of one field with a     *)
(* leading zero, and digests what it wrote.                                *)
Respelt(m, label) ==
  LET body == Encode(m) IN
  Saidify(With(body, label, [Value(body, label) EXCEPT !.spelling = "0n"]),
          SaidCodes(m.ilk, m.of.d, m.of.i))

WriteRespelt(m, label) ==
  /\ label \in DOMAIN m.of /\ Value(Encode(m), label).t = "hex"
  /\ Author(m, Respelt(m, label))

(* In transit a field is lost, doubled, moved, or holds something else, or *)
(* a list its last item.                                                   *)
Altered(body, i, bytes) ==
  \/ bytes = RemoveAt(body, i)
  \/ bytes = InsertAt(body, i, body[i])
  \/ i < Len(body) /\ bytes = [body EXCEPT ![i] = body[i + 1], ![i + 1] = body[i]]
  \/ \E v \in Strays : bytes = [body EXCEPT ![i].value = v]
  \/ /\ body[i].value.t = "list" /\ body[i].value.items # <<>>
     /\ bytes = [body EXCEPT ![i].value.items = SubSeq(@, 1, Len(@) - 1)]

Alter ==
  /\ wire # <<>> /\ held = Nothing /\ altered < MaxAlterations
  /\ altered' = altered + 1
  /\ \E i \in DOMAIN wire : Altered(wire, i, wire')
  /\ wire' # wire
  /\ UNCHANGED <<meant, first, sent, held, hops>>

Receive ==
  /\ wire # <<>> /\ held = Nothing
  /\ held' = Decode(wire)
  /\ UNCHANGED <<meant, first, sent, wire, altered, hops>>

Forward ==
  /\ held.is = "read" /\ hops < MaxHops
  /\ hops' = hops + 1
  /\ sent' = Encode(held.message) /\ wire' = sent'
  /\ held' = Nothing
  /\ UNCHANGED <<meant, first, altered>>

Next ==
  \/ \E m \in Messages : Write(m)
  \/ \E m \in Messages, label \in {"s", "kt", "bt"} : WriteRespelt(m, label)
  \/ Alter
  \/ Receive
  \/ Forward

Spec == Init /\ [][Next]_vars

-------------------------------------------------------------------------------
(* Whole weights are not told apart: "2/2" is read back as one.            *)
Worth(th) ==
  IF th.kind = "simple" THEN th
  ELSE [th EXCEPT !.clauses =
          [c \in DOMAIN @ |-> [i \in DOMAIN @[c] |->
             IF @[c][i].num = @[c][i].den THEN Weight(1, 1)
             ELSE IF @[c][i].num = 0 THEN Weight(0, 1) ELSE @[c][i]]]]

(* The fields a message asserts about itself are filled in by the writer.  *)
Asserted(m) ==
  [label \in DOMAIN m.of \ SaidSlots(m.ilk, m.of.i) |->
     IF label \in {"kt", "nt"} THEN Worth(m.of[label]) ELSE m.of[label]]

Respelled == meant # Nothing /\ first # Encode(meant)
Fits(body) == FieldsIn(Obj(body)) <= MaxFields /\ DepthOf(Obj(body)) <= MaxDepth

(* What any author wrote, this codec or one that pads its numbers, is read *)
(* by the strict readers whenever the limits admit it, and means what its  *)
(* author meant (the scan, verification and lift of deserialize.rs against *)
(* the renderers of serialize.rs).                                         *)
WrittenIsRead ==
  held # Nothing /\ wire = sent /\ Fits(wire) =>
    /\ held.is = "read"
    /\ held.message.ilk = meant.ilk /\ held.message.form = meant.form
    /\ meant.ilk # "rct" => Asserted(held.message) = Asserted(meant)

(* No alteration of a self-addressing message goes unnoticed: what is read *)
(* is, byte for byte, what the last host wrote (verify_said before lift).  *)
AlterationsShow ==
  held.is = "read" /\ held.message.ilk # "rct" => wire = sent

(* A relay that renders anew what it read sends what its author wrote, so  *)
(* every digest that names the message still does.                         *)
ForwardedAsWritten ==
  hops > 0 /\ meant.ilk # "rct" /\ ~Respelled => sent = first
=================================================================================
