------------------------------ MODULE Receipt ------------------------------
(***************************************************************************)
(* Receipts that arrive after an event was accepted (receipt.rs of the     *)
(* keri crate): each is judged alone, against the event the host accepted  *)
(* and the evidence the host supplies. The crate keeps no counters; the    *)
(* host collects what was accepted and asks for the verdict on the TOAD.   *)
(*                                                                         *)
(* A receipt names the event. It carries a couple (a non-transferable      *)
(* endorser with its signature), an indexed witness signature, or the      *)
(* group of a transferable endorser: a coordinate of its own log and       *)
(* signatures by the keys established there.                               *)
(***************************************************************************)
EXTENDS KeyState

(* A signature over the bytes of the event "over".                         *)
EventSignature == [index : Nat, signer : Keys, over : Saids]

(* A couple and an indexed receipt carry one signature.                    *)
Receipt ==
  {r \in [kind : {"rct"}, pre : Identifiers, sn : Nat, said : Saids,
          by : {"couple", "wig", "group"}, endorser : Identifiers \cup {None},
          estSn : Nat, estSaid : Saids \cup {None}, sigs : SUBSET EventSignature] :
     r.by # "group" => \E sig \in r.sigs : r.sigs = {sig}}

(* What a host knows of a receiptor: its keys as of one establishment.     *)
Establishment == [pre : Identifiers, sn : Nat, said : Saids, keys : Seq(Keys)]

Verifies(sig, key, e) == sig.signer = key /\ sig.over = e.said

(* The receipt must name exactly the event accepted at its number.         *)
NamedBy(e, r) == Require(r.pre = e.pre /\ r.sn = e.sn /\ r.said = e.said, "Stale")

(* One indexed signature: of the witness at its index, or refused.         *)
VerifyWig(wits, e, sig) ==
  Require(sig.index + 1 \in DOMAIN wits /\ Verifies(sig, wits[sig.index + 1], e), "Signature")

(* The position of a prefix in the witness list, 0 when it is no witness.  *)
WitnessPosition(wits, prefix) ==
  LET at == {p \in DOMAIN wits : wits[p] = prefix}
  IN  IF at = {} THEN 0 ELSE CHOOSE p \in at : \A q \in at : p <= q

(* One verified signature of the receiptor is enough; an index beyond its  *)
(* keys spoils the group.                                                  *)
EndorsedBy(e, r, est) ==
  IF est = None THEN "EvidenceRequired"
  ELSE Require(est.said = r.estSaid, "EstablishmentMismatch")
       && Require(est.keys # <<>>, "NoAuthorityKeys")
       && Require(\A sig \in r.sigs : sig.index + 1 \in DOMAIN est.keys,
                  "EndorsementIndexOutOfRange")
       && Require(\E sig \in r.sigs : Verifies(sig, est.keys[sig.index + 1], e),
                  "NoVerifiedSignatures")

ReceiptVerdict(e, wits, r, est) ==
  NamedBy(e, r) &&
  IF r.by = "group" THEN EndorsedBy(e, r, est)
  ELSE IF r.by = "wig" THEN (IF \A sig \in r.sigs : VerifyWig(wits, e, sig) = "Ok"
                             THEN "Ok" ELSE "Signature")
  ELSE Require(\A sig \in r.sigs : Verifies(sig, r.endorser, e), "Signature")

(* The witness position an accepted receipt speaks for: a couple is        *)
(* promoted when its endorser is a witness; 0 when it is no witness's.     *)
PositionOf(wits, r) ==
  IF r.by = "wig" THEN (CHOOSE sig \in r.sigs : TRUE).index + 1
  ELSE IF r.by = "couple" THEN WitnessPosition(wits, r.endorser)
  ELSE 0

(* A mutant: one witness too many is asked.                                *)
AccountedByMore(wits, toad, entries) ==
  Require(toad = 0 \/ Cardinality({n.position : n \in entries} \cap DOMAIN wits) > toad,
          "InsufficientReceipts")

(* Distinct positions in range reach the threshold.                        *)
AccountedBy(wits, toad, entries) ==
  Require(toad = 0 \/ Cardinality({n.position : n \in entries} \cap DOMAIN wits) >= toad,
          "InsufficientReceipts")

ReceiptDisposition(verdict) ==
  IF verdict = "Ok" THEN "Accepted"
  ELSE IF verdict \in {"EvidenceRequired", "InsufficientReceipts"} THEN "Awaiting"
  ELSE "Terminal"
=============================================================================
