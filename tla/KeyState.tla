------------------------------ MODULE KeyState ------------------------------
(***************************************************************************)
(* The key-state fold of the keri crate (state.rs, authority.rs,           *)
(* delegation.rs, error.rs): what an event must prove before a key event   *)
(* log admits it, and the key state it leads to.                           *)
(*                                                                         *)
(* Two folds run over one domain. The validating fold judges a proposed    *)
(* event against a state; the trusted fold replays accepted events without *)
(* looking at any evidence. They are separate code and must agree.         *)
(*                                                                         *)
(* Data. A SAID is the event's collision-free name, a key digest commits   *)
(* to one key, a signature is known by the key that made it over the       *)
(* event's bytes. A witness list is validated to be free of repetitions,   *)
(* so a state keeps it as a set, and a receipt is known by the witness at  *)
(* its index when it verifies.                                             *)
(***************************************************************************)
EXTENDS SigningThreshold

CONSTANTS
  Keys,            (* Public keys; a basic prefix and a witness are keys.  *)
  NonTransferable, (* The keys whose code is non-transferable.             *)
  Digestive,       (* Self-addressing prefixes.                            *)
  Saids,           (* Names of events.                                     *)
  Thresholds,      (* Signing thresholds events may carry.                 *)
  MaxSn,           (* The largest sequence number (u128::MAX).             *)
  None             (* No prior event, no delegator, no signer.             *)

ASSUME KeyStateAssumption ==
  /\ NonTransferable \subseteq Keys
  /\ Keys \cap Digestive = {}
  /\ None \notin Keys \cup Digestive \cup Saids
  /\ MaxSn \in Nat

Identifiers == Keys \cup Digestive
Kinds == {"icp", "rot", "ixn", "dip", "drt"}
Establishments == {"icp", "rot", "dip", "drt"}
Rotations == {"rot", "drt"}
Traits == {"EO", "DND"}

(* An event seal names another event; other seals carry no authority.      *)
Seal == [i : Identifiers, s : Nat, d : Saids]
SealOf(e) == [i |-> e.pre, s |-> e.sn, d |-> e.said]

(* Every kind of event in one shape; a field a kind lacks is empty.        *)
(* "wits" is b of an inception and ba of a rotation, "cuts" is br.         *)
Shape ==
  [kind : Kinds, pre : Identifiers, sn : Nat, said : Saids,
   prior : Saids \cup {None}, keys : Seq(Keys), kt : Thresholds,
   next : Seq(Keys), nt : Thresholds, wits : Seq(Keys), cuts : Seq(Keys),
   toad : Nat, conf : SUBSET Traits, di : Identifiers \cup {None},
   seals : Seq(Seal)]
Event ==
  {e \in Shape : /\ e.kind = "dip" => e.di # None
                 /\ e.kind = "ixn" => e.wits = <<>> /\ e.cuts = <<>>}

(* A controller signature: the key position it claims, the prior-next      *)
(* position it claims (NoOndex when it claims none), who really signed.    *)
NoOndex == -1
Siger == [index : Nat, ondex : Nat \cup {NoOndex}, signer : Keys \cup {None}]

Message == [event : Event, sigs : SUBSET Siger, wigs : SUBSET Keys]

State ==
  [pre : Identifiers, sn : Nat, said : Saids, kind : Kinds,
   keys : Seq(Keys), kt : Thresholds, next : Seq(Keys), nt : Thresholds,
   wits : SUBSET Keys, toad : Nat, conf : SUBSET Traits,
   delegator : Identifiers \cup {None}, transferable : BOOLEAN,
   estSn : Nat, estSaid : Saids]

-----------------------------------------------------------------------------
(* Verdicts: "Ok", or the rejection's name. a && b is the code's "?": the  *)
(* first rule violated, in the order the rules are written.                *)

a && b == IF a = "Ok" THEN b ELSE a
Require(condition, rejection) == IF condition THEN "Ok" ELSE rejection

Unique(list) == \A i, j \in DOMAIN list : list[i] = list[j] => i = j
Members(list) == {list[i] : i \in DOMAIN list}

(* Distinct, non-transferable members (MemberSet::check_witnesses).        *)
CheckWitnesses(list) ==
  Require(Unique(list) /\ Members(list) \subseteq NonTransferable, "MalformedWitnesses")

CheckWitnessDeltas(cuts, adds) ==
  Require(/\ Unique(cuts) /\ Unique(adds)
          /\ Members(cuts) \cap Members(adds) = {}
          /\ Members(cuts) \cup Members(adds) \subseteq NonTransferable,
          "MalformedWitnesses")

IsBasic(pre) == pre \in Keys
IsTransferable(pre) == pre \notin NonTransferable

(* A basic prefix is bound to one key under a threshold of one; a          *)
(* non-transferable one commits to nothing and has no witnesses or seals.  *)
CheckIdentity(e) ==
  Require(
    IsBasic(e.pre) =>
      /\ Len(e.keys) = 1 /\ e.kt = Simple(1) /\ e.keys[1] = e.pre
      /\ ~IsTransferable(e.pre) => e.next = <<>> /\ e.wits = <<>> /\ e.seals = <<>>,
    "InceptionIdentity")

CheckThreshold(th, count) == Require(WellFormed(th, count), "MalformedThreshold")

CheckNextThreshold(e) ==
  IF e.next = <<>> THEN "Ok" ELSE CheckThreshold(e.nt, Len(e.next))

(* The TOAD law: zero exactly for an empty witness set (Toad::exact).      *)
CheckWitnessThreshold(count, toad) ==
  IF count = 0 THEN Require(toad = 0, "WitnessThresholdExceeded")
  ELSE Require(toad >= 1, "WitnessThresholdZeroWithWitnesses")
       && Require(toad <= count, "WitnessThresholdExceeded")

-----------------------------------------------------------------------------
(* Authority: signatures whose index selects no key, or that do not verify *)
(* against the key it selects, are skipped; distinct positions count.      *)

Verified(keys, sigs) ==
  {sig \in sigs : sig.index + 1 \in DOMAIN keys /\ keys[sig.index + 1] = sig.signer}

Verify(keys, kt, sigs) ==
  LET indices == {sig.index : sig \in Verified(keys, sigs)}
  IN  IF Satisfied(kt, indices) THEN "Ok"
      ELSE IF indices = {} THEN "NoVerifiedSignature"
      ELSE "MissingSignatures"

(* Commitment: the positions of the prior next list that verified          *)
(* signatures expose, each by a key that hashes to the digest there.       *)
Exposed(next, keys, sigs) ==
  {sig.ondex : sig \in {v \in Verified(keys, sigs) :
     /\ v.ondex # NoOndex
     /\ v.ondex + 1 \in DOMAIN next
     /\ next[v.ondex + 1] = keys[v.index + 1]}}

OpenedBy(next, nt, keys, sigs) ==
  Require(Satisfied(nt, Exposed(next, keys, sigs)), "PriorNextThresholdUnsatisfied")

(* A mutant: the current keys are enough, whatever was committed to.       *)
VerifyWithoutOpening(s, e, sigs) == Verify(e.keys, e.kt, sigs)

VerifyOpening(s, e, sigs) ==
  Verify(e.keys, e.kt, sigs) && OpenedBy(s.next, s.nt, e.keys, sigs)

(* Witnessing: at least TOAD distinct members of the governing set.        *)
ReceiptedBy(wits, toad, wigs) ==
  Require(toad = 0 \/ Cardinality(wits \cap wigs) >= toad, "InsufficientWitnessReceipts")

-----------------------------------------------------------------------------
(* Delegation evidence. The host asserts that the delegating event is one  *)
(* the delegator's log accepted, or vouches for the event itself.          *)

NoEvidence == [kind |-> "none"]
HostAccepted == [kind |-> "host"]
Anchored(state, event) == [kind |-> "anchored", state |-> state, event |-> event]

(* Position of the delegated event among the event seals, 0 when absent.   *)
AnchorPosition(e, delegated) ==
  LET at == {n \in DOMAIN e.seals : e.seals[n] = SealOf(delegated)}
  IN  IF at = {} THEN 0 ELSE CHOOSE n \in at : \A m \in at : n <= m

(* A mutant: any event of the delegator's authorizes.                      *)
AuthorizesUnsealed(ev, delegated, delegator) ==
  IF ev.kind = "host" THEN "Ok"
  ELSE Require(ev.state.pre = delegator /\ ev.event.pre = delegator, "DelegatorMismatch")
       && Require("DND" \notin ev.state.conf, "Denied")

Authorizes(ev, delegated, delegator) ==
  IF ev.kind = "host" THEN "Ok"
  ELSE Require(ev.state.pre = delegator /\ ev.event.pre = delegator, "DelegatorMismatch")
       && Require("DND" \notin ev.state.conf, "Denied")
       && Require(AnchorPosition(ev.event, delegated) # 0, "SealNotFound")

-----------------------------------------------------------------------------
(* The validating fold: genesis.                                           *)

ValidateInception(m) ==
  LET e == m.event
  IN  Require(e.sn = 0, "NonZeroGenesisSn")
      && CheckIdentity(e)
      && CheckWitnesses(e.wits)
      && CheckThreshold(e.kt, Len(e.keys))
      && Verify(e.keys, e.kt, m.sigs)
      && CheckNextThreshold(e)
      && Require(IsTransferable(e.pre) \/ e.next = <<>>, "Transferability")
      && CheckWitnessThreshold(Cardinality(Members(e.wits)), e.toad)
      && ReceiptedBy(Members(e.wits), e.toad, m.wigs)

Incept(m) ==
  CASE m.event.kind = "icp" -> ValidateInception(m)
    [] m.event.kind = "dip" -> "EvidenceRequired"
    [] OTHER -> "NotInception"

InceptDelegated(m, ev) ==
  Require(m.event.kind = "dip", "NotDelegatedInception")
  && Require(~IsBasic(m.event.pre), "DelegatedPrefixNotDigestive")
  && ValidateInception(m)
  && Authorizes(ev, m.event, m.event.di)

(* decide_transferability: an empty commitment closes the log at birth.    *)
SeedState(e) ==
  [pre |-> e.pre, sn |-> 0, said |-> e.said, kind |-> e.kind,
   keys |-> e.keys, kt |-> e.kt, next |-> e.next, nt |-> e.nt,
   wits |-> Members(e.wits), toad |-> e.toad, conf |-> e.conf,
   delegator |-> IF e.kind = "dip" THEN e.di ELSE None,
   transferable |-> IsTransferable(e.pre) /\ e.next # <<>>,
   estSn |-> 0, estSaid |-> e.said]

-----------------------------------------------------------------------------
(* The validating fold: one event on a state.                              *)

ChecksChainsOnto(s, e) ==
  Require(e.pre = s.pre, "IdentifierMismatch")
  && Require(s.sn < MaxSn, "SequenceNumberOverflow")
  && Require(e.sn <= s.sn + 1, "OutOfOrderFuture")
  && Require(e.sn >= s.sn + 1, "OutOfOrderStale")
  && Require(e.prior = s.said, "PriorDigestMismatch")

UpdatedMembers(current, cuts, adds) == (current \ Members(cuts)) \cup Members(adds)

(* A list without some members, the others in their order.                 *)
Without(list, gone) ==
  LET passed[n \in 0..Len(list)] ==
        IF n = 0 THEN <<>>
        ELSE IF list[n] \in gone THEN passed[n - 1]
        ELSE Append(passed[n - 1], list[n])
  IN  passed[Len(list)]

(* The same members in order, where positions count: survivors keep their  *)
(* order, additions follow in theirs. (An addition that is repeated is     *)
(* refused before it comes to this.)                                       *)
UpdatedList(current, cuts, adds) ==
  LET left == Without(current, Members(cuts))
  IN  left \o Without(adds, Members(left))

ResolveWitnesses(s, e) ==
  CheckWitnessDeltas(e.cuts, e.wits)
  && Require(Members(e.cuts) \subseteq s.wits, "RemovalNotCurrent")
  && Require(Members(e.wits) \cap s.wits = {}, "AdditionAlreadyPresent")

(* Receipts are judged against the witness set after the cut and the add.  *)
ValidateRotation(s, m) ==
  LET e == m.event
      wits == UpdatedMembers(s.wits, e.cuts, e.wits)
  IN  ChecksChainsOnto(s, e)
      && CheckThreshold(e.kt, Len(e.keys))
      && CheckNextThreshold(e)
      && VerifyOpening(s, e, m.sigs)
      && ResolveWitnesses(s, e)
      && CheckWitnessThreshold(Cardinality(wits), e.toad)
      && ReceiptedBy(wits, e.toad, m.wigs)

ValidateInteraction(s, m) ==
  Require("EO" \notin s.conf, "InteractionOnEstablishmentOnly")
  && ChecksChainsOnto(s, m.event)
  && Verify(s.keys, s.kt, m.sigs)
  && ReceiptedBy(s.wits, s.toad, m.wigs)

Ingest(s, m) ==
  LET kind == m.event.kind
      delegated == s.delegator # None
  IN  Require(s.transferable, "NonTransferableState")
      && CASE kind = "drt" -> IF delegated THEN "EvidenceRequired" ELSE "DelegatorUnknown"
           [] kind = "dip" -> "EvidenceRequired"
           [] kind = "icp" -> "DuplicateInception"
           [] kind = "rot" -> IF delegated THEN "PlainRotationOnDelegatedState"
                              ELSE ValidateRotation(s, m)
           [] kind = "ixn" -> ValidateInteraction(s, m)

IngestDelegated(s, m, ev) ==
  Require(s.transferable, "NonTransferableState")
  && Require(m.event.kind = "drt", "NotDelegatedRotation")
  && Require(~IsBasic(m.event.pre), "DelegatedPrefixNotDigestive")
  && Require(s.delegator # None, "DelegatorUnknown")
  && ValidateRotation(s, m)
  && Authorizes(ev, m.event, s.delegator)

ApplyRotation(s, e) ==
  [s EXCEPT !.sn = e.sn, !.said = e.said, !.kind = e.kind,
            !.keys = e.keys, !.kt = e.kt, !.next = e.next, !.nt = e.nt,
            !.wits = UpdatedMembers(s.wits, e.cuts, e.wits), !.toad = e.toad,
            !.estSn = e.sn, !.estSaid = e.said,
            !.transferable = IF e.next = <<>> THEN FALSE ELSE @]

ApplyInteraction(s, e) == [s EXCEPT !.sn = e.sn, !.said = e.said, !.kind = "ixn"]

Apply(s, e) == IF e.kind \in Rotations THEN ApplyRotation(s, e) ELSE ApplyInteraction(s, e)

-----------------------------------------------------------------------------
(* The trusted fold: total, and blind to evidence.                         *)

Genesis(e) ==
  [pre |-> e.pre, sn |-> e.sn, said |-> e.said, kind |-> "icp",
   keys |-> e.keys, kt |-> e.kt, next |-> e.next, nt |-> e.nt,
   wits |-> Members(e.wits), toad |-> e.toad, conf |-> e.conf,
   delegator |-> None,
   transferable |-> IsTransferable(e.pre) /\ e.next # <<>>,
   estSn |-> e.sn, estSaid |-> e.said]

(* A mutant: the replay forgets that an empty commitment closes the log.   *)
RolledStaysOpen(s, e) ==
  [s EXCEPT !.sn = e.sn, !.said = e.said, !.kind = e.kind,
            !.keys = e.keys, !.kt = e.kt, !.next = e.next, !.nt = e.nt,
            !.wits = UpdatedMembers(s.wits, e.cuts, e.wits), !.toad = e.toad,
            !.estSn = e.sn, !.estSaid = e.said]

Rolled(s, e) ==
  [s EXCEPT !.sn = e.sn, !.said = e.said, !.kind = e.kind,
            !.keys = e.keys, !.kt = e.kt, !.next = e.next, !.nt = e.nt,
            !.wits = UpdatedMembers(s.wits, e.cuts, e.wits), !.toad = e.toad,
            !.estSn = e.sn, !.estSaid = e.said,
            !.transferable = e.next # <<>> /\ s.transferable]

Stepped(s, e) == [s EXCEPT !.sn = e.sn, !.said = e.said, !.kind = "ixn"]

(* A genesis discards the state before it.                                 *)
Advance(s, e) ==
  CASE e.kind = "icp" -> Genesis(e)
    [] e.kind = "dip" -> [Genesis(e) EXCEPT !.kind = "dip", !.delegator = e.di]
    [] e.kind \in Rotations -> Rolled(s, e)
    [] e.kind = "ixn" -> Stepped(s, e)

-----------------------------------------------------------------------------
(* What a host does with a rejected event (Rejection::disposition).        *)

AwaitingVerdicts ==
  {"OutOfOrderFuture", "MissingSignatures", "PriorNextThresholdUnsatisfied",
   "InsufficientWitnessReceipts", "EvidenceRequired", "SealNotFound", "DelegatorMismatch"}

ContestedVerdicts == {"OutOfOrderStale", "DuplicateInception"}

Disposition(verdict) ==
  IF verdict = "Ok" THEN "Accepted"
  ELSE IF verdict \in AwaitingVerdicts THEN "Awaiting"
  ELSE IF verdict \in ContestedVerdicts THEN "Contested"
  ELSE "Terminal"
=============================================================================
