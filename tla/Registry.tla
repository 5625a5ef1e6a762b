------------------------------ MODULE Registry ------------------------------
(***************************************************************************)
(* The fold of a credential registry's transaction event logs (keri crate, *)
(* registry.rs): the management log of a registry (vcp, then vrt) and one  *)
(* log per credential (iss or bis, then rev or brv).                       *)
(*                                                                         *)
(* No event is signed by its issuer. Each must be the sole seal of an      *)
(* accepted event of the issuer's key event log at the coordinate attached *)
(* to it, and in a registry with backers be receipted by enough of the     *)
(* backers of the management event it names ("ra").                        *)
(*                                                                         *)
(* Backers are an ordered list: a receipt claims a position of it. The     *)
(* verdicts are those of KeyState: "Ok", or the first rule violated.       *)
(***************************************************************************)
EXTENDS KeyState

CONSTANTS
  Registries,      (* Registry identifiers: SAIDs of vcp events.           *)
  Credentials      (* Credential identifiers.                              *)

ASSUME RegistryAssumption ==
  /\ Registries \subseteq Digestive \cap Saids
  /\ Credentials \subseteq Digestive
  /\ Registries \cap Credentials = {}
  /\ MaxSn # 0

TelKinds == {"vcp", "vrt", "iss", "rev", "bis", "brv"}
Backed == {"bis", "brv"}
Issuances == {"iss", "bis"}

(* Every kind of event in one shape; "adds" is b of a vcp and ba of a vrt, *)
(* a brv names its registry in "ra" only. The codec pins the number of an  *)
(* inception to 0, of a revocation to 1.                                   *)
TelEvent ==
  {e \in [kind : TelKinds, said : Saids, reg : Registries \cup {None},
          cred : Credentials \cup {None}, sn : Nat, prior : Saids \cup {None},
          issuer : Identifiers \cup {None}, conf : SUBSET {"NB"}, toad : Nat,
          adds : Seq(Keys), cuts : Seq(Keys), ra : Seal \cup {None}] :
     /\ e.kind = "vcp" => e.reg = e.said /\ e.issuer # None
     /\ e.kind \notin {"vcp", "vrt"} => e.cred # None
     /\ e.kind # "brv" => e.reg # None
     /\ e.kind \in Backed => e.ra # None
     /\ e.kind \in {"vcp", "iss", "bis"} => e.sn = 0
     /\ e.kind \in {"rev", "brv"} => e.sn = 1}

(* The coordinate in the issuer's log that a message claims for its seal.  *)
Source == [sn : Nat, said : Saids]
TelMessage == [event : TelEvent, source : Source \cup {None}, receipts : SUBSET Siger]

Management ==
  [id : Registries, issuer : Identifiers, sn : Nat, latest : Saids,
   conf : SUBSET {"NB"}, toad : Nat, backers : Seq(Keys)]

CredentialState == [registry : Registries, credential : Credentials, sn : Nat, head : Saids]

(* A sealing event as the fold sees it, without what it does not read.     *)
Anchor ==
  [pre : Identifiers, sn : Nat, said : Saids,
   seals : Seq([i : Identifiers \cup Saids, s : Nat, d : Saids])]

ASSUME NoneIsNoHead == None \notin CredentialState \cup Seal \cup Source \cup Anchor

IsBackerless(r) == "NB" \in r.conf

(* What a sealing event names: the vcp, the registry of a vrt, else the    *)
(* credential.                                                             *)
SealedAs(e) ==
  [i |-> CASE e.kind = "vcp" -> e.said [] e.kind = "vrt" -> e.reg [] OTHER -> e.cred,
   s |-> e.sn, d |-> e.said]

-----------------------------------------------------------------------------
(* What the host may supply beside the message: the issuer's key state (of *)
(* which only the prefix is read), the present backers, a retained         *)
(* management state, or nothing.                                           *)
Missing == [kind |-> "missing"]
Issuer(pre) == [kind |-> "issuer", pre |-> pre]
BackerNow == [kind |-> "backer"]
BackerAt(r) == [kind |-> "backerAt", management |-> r]

(* A mutant: the seal's digest is not compared.                            *)
VerifyAnchorByNumber(m, issuer, anchor) ==
  Require(m.source # None /\ anchor # None, "MissingAnchor")
  && Require(/\ anchor.pre = issuer
             /\ anchor.sn = m.source.sn
             /\ anchor.said = m.source.said
             /\ Len(anchor.seals) = 1
             /\ [anchor.seals[1] EXCEPT !.d = m.event.said] = SealedAs(m.event),
             "InconsistentAnchor")

(* verify_kel_anchor: the accepted event at the claimed coordinate has     *)
(* exactly one seal, and it is this event's.                               *)
VerifyAnchor(m, issuer, anchor) ==
  Require(m.source # None /\ anchor # None, "MissingAnchor")
  && Require(/\ anchor.pre = issuer
             /\ anchor.sn = m.source.sn
             /\ anchor.said = m.source.said
             /\ anchor.seals = <<SealedAs(m.event)>>,
             "InconsistentAnchor")

IssuerIs(ev, issuer) ==
  CASE ev.kind = "missing" -> "MissingIssuer"
    [] ev.kind = "issuer" -> Require(ev.pre = issuer, "InconsistentIssuer")
    [] OTHER -> "InconsistentIssuer"

AuthenticateIssuer(r, m, ev, anchor) ==
  IssuerIs(ev, r.issuer) && VerifyAnchor(m, r.issuer, anchor)

(* Distinct positions of the list whose backer's receipt verifies; too few *)
(* of them, or none, can become enough.                                    *)
AuthenticateBacker(m, backers, toad) ==
  Require(Verify(backers, Simple(toad), m.receipts) = "Ok", "MissingBackerReceipts")

CheckMembers(list) == Require(Unique(list), "BackerSet")

CheckBackerThreshold(count, toad) ==
  Require(CheckWitnessThreshold(count, toad) = "Ok", "BackerThreshold")

(* The backers an event's "ra" names. Without the retained state of that   *)
(* coordinate only the present one can serve, when it is the one named.    *)
AuthorityOf(r, ev) == IF ev.kind = "backerAt" THEN ev.management ELSE r

(* A mutant: whatever is named, the present backers are asked.             *)
ResolveAtHead(r, ra, ev) ==
  Require(ra # None, "InconsistentManagement")
  && Require(ra.i = r.id, "InconsistentRegistry")
  && (CASE ev.kind = "backerAt" -> Require(ev.management.id = r.id, "InconsistentManagement")
        [] ev.kind = "backer" -> "Ok"
        [] ev.kind = "missing" -> "UnresolvedAnchor"
        [] ev.kind = "issuer" -> "InconsistentIssuer")

MatchesEvidence(r, ra, ev) ==
  CASE ev.kind = "backerAt" ->
         LET h == ev.management
         IN  Require(/\ h.id = r.id /\ h.issuer = r.issuer /\ h.conf = r.conf
                     /\ h.sn = ra.s /\ h.latest = ra.d,
                     "InconsistentManagement")
    [] ev.kind = "backer" -> Require(ra.s = r.sn /\ ra.d = r.latest, "UnresolvedAnchor")
    [] ev.kind = "missing" -> "UnresolvedAnchor"
    [] ev.kind = "issuer" -> "InconsistentIssuer"

ResolveBackerAuthority(r, ra, ev) ==
  Require(ra # None, "InconsistentManagement")
  && Require(ra.i = r.id, "InconsistentRegistry")
  && MatchesEvidence(r, ra, ev)

AuthenticateBacked(r, m, ev, anchor) ==
  LET named == AuthorityOf(r, ev)
  IN  VerifyAnchor(m, r.issuer, anchor)
      && ResolveBackerAuthority(r, m.event.ra, ev)
      && CheckMembers(named.backers)
      && CheckBackerThreshold(Len(named.backers), named.toad)
      && AuthenticateBacker(m, named.backers, named.toad)

-----------------------------------------------------------------------------
(* The management log.                                                     *)

InceptRegistry(m, ev, anchor) ==
  LET e == m.event
  IN  IssuerIs(ev, e.issuer)
      && Require(IsBackerless(e) => e.adds = <<>>, "NoBackersWithBackers")
      && CheckMembers(e.adds)
      && CheckBackerThreshold(Len(e.adds), e.toad)
      && VerifyAnchor(m, e.issuer, anchor)
      && (IF e.adds = <<>> THEN "Ok" ELSE AuthenticateBacker(m, e.adds, e.toad))

SeedRegistry(e) ==
  [id |-> e.said, issuer |-> e.issuer, sn |-> e.sn, latest |-> e.said,
   conf |-> e.conf, toad |-> e.toad, backers |-> e.adds]

InOrder(sn, expected) ==
  Require(expected <= MaxSn, "SequenceNumberOverflow")
  && Require(sn <= expected, "OutOfOrderFuture")
  && Require(sn >= expected, "OutOfOrderStale")

ResolveBackers(r, e) ==
  Require(/\ Unique(e.cuts) /\ Unique(e.adds)
          /\ Members(e.cuts) \cap Members(e.adds) = {}
          /\ Members(e.cuts) \subseteq Members(r.backers)
          /\ Members(e.adds) \cap Members(r.backers) = {},
          "BackerSet")

(* The backers that a rotation leaves in force.                            *)
UpdatedBackers(r, e) == UpdatedList(r.backers, e.cuts, e.adds)

FollowsManagement(r, e) ==
  Require(e.reg = r.id, "InconsistentRegistry")
  && Require(~IsBackerless(r), "RotationOnBackerlessRegistry")
  && InOrder(e.sn, r.sn + 1)
  && Require(e.prior = r.latest, "PriorDigestMismatch")

ReceiptedAfter(r, m) ==
  LET backers == UpdatedBackers(r, m.event)
  IN  ResolveBackers(r, m.event)
      && CheckBackerThreshold(Len(backers), m.event.toad)
      && (IF backers = <<>> THEN "Ok" ELSE AuthenticateBacker(m, backers, m.event.toad))

Rotate(r, m, ev, anchor) ==
  FollowsManagement(r, m.event)
  && AuthenticateIssuer(r, m, ev, anchor)
  && ReceiptedAfter(r, m)

RotateRegistry(r, e) ==
  [id |-> r.id, issuer |-> r.issuer, sn |-> e.sn, latest |-> e.said,
   conf |-> r.conf, toad |-> e.toad, backers |-> UpdatedBackers(r, e)]

IngestRegistry(r, m, ev, anchor) ==
  CASE m.event.kind = "vcp" -> "DuplicateInception"
    [] m.event.kind = "vrt" -> Rotate(r, m, ev, anchor)
    [] OTHER -> "NotManagementRotation"

-----------------------------------------------------------------------------
(* A credential's log. The kind of an event must fit the registry's.       *)

FitsRegistry(e, r) ==
  IF e.kind \in Backed
  THEN Require(~IsBackerless(r), "BackedEventOnBackerlessRegistry")
  ELSE Require(IsBackerless(r), "SimpleEventOnBackerRegistry")

Authenticate(r, m, ev, anchor) ==
  IF m.event.kind \in Backed THEN AuthenticateBacked(r, m, ev, anchor)
  ELSE AuthenticateIssuer(r, m, ev, anchor)

InceptCredential(r, m, ev, anchor) ==
  LET e == m.event
  IN  Require(e.kind \in Issuances, "NotCredentialInception")
      && Require(e.reg = r.id, "InconsistentRegistry")
      && FitsRegistry(e, r)
      && Authenticate(r, m, ev, anchor)
      && InOrder(e.sn, 0)

SeedCredential(r, e) ==
  [registry |-> r.id, credential |-> e.cred, sn |-> e.sn, head |-> e.said]

NamesRegistry(e, id) ==
  IF e.kind = "brv" THEN e.ra # None /\ e.ra.i = id ELSE e.reg = id

BelongsTo(c, r, e) ==
  Require(c.registry = r.id, "InconsistentRegistry")
  && Require(e.kind \in {"rev", "brv"}, "NotCredentialTransition")
  && Require(NamesRegistry(e, r.id), "InconsistentRegistry")
  && FitsRegistry(e, r)

FollowsCredential(c, e) ==
  Require(e.cred = c.credential, "InconsistentCredential")
  && InOrder(e.sn, c.sn + 1)
  && Require(e.prior = c.head, "PriorDigestMismatch")

IngestCredential(c, r, m, ev, anchor) ==
  BelongsTo(c, r, m.event)
  && Authenticate(r, m, ev, anchor)
  && FollowsCredential(c, m.event)

RevokeCredential(c, e) == [c EXCEPT !.sn = e.sn, !.head = e.said]

Status(c) == IF c.sn = 0 THEN "Issued" ELSE "Revoked"

-----------------------------------------------------------------------------
(* RegistryRejection::disposition.                                         *)

(* A mutant: an anchor that has not arrived is a contradiction.            *)
TelDispositionUnanchored(verdict) ==
  CASE verdict = "Ok" -> "Accepted"
    [] verdict \in {"DuplicateInception", "OutOfOrderStale"} -> "Contested"
    [] verdict \in {"OutOfOrderFuture", "MissingRegistry", "MissingIssuer",
                    "MissingBackerReceipts", "UnresolvedAnchor"} -> "Awaiting"
    [] OTHER -> "Terminal"

TelDisposition(verdict) ==
  CASE verdict = "Ok" -> "Accepted"
    [] verdict \in {"DuplicateInception", "OutOfOrderStale"} -> "Contested"
    [] verdict \in {"OutOfOrderFuture", "MissingRegistry", "MissingIssuer", "MissingAnchor",
                    "MissingBackerReceipts", "UnresolvedAnchor"} -> "Awaiting"
    [] OTHER -> "Terminal"

-----------------------------------------------------------------------------
(* The builders of the six events (keri-codec crate, builder/tel.rs): what *)
(* each fills in and what it refuses to build. A rotation's threshold is   *)
(* written as the caller gives it; the builders of credential events       *)
(* refuse nothing, whatever registry they are for.                         *)

BuiltTel(kind, said, reg, cred, sn) ==
  [kind |-> kind, said |-> said, reg |-> reg, cred |-> cred, sn |-> sn, prior |-> None,
   issuer |-> None, conf |-> {}, toad |-> 0, adds |-> <<>>, cuts |-> <<>>, ra |-> None]

(* A mutant: an addition is not looked for among the present backers.      *)
CheckBackerRelationsCutsOnly(prior, cuts, adds) ==
  Require(/\ Unique(prior) /\ Unique(cuts) /\ Unique(adds)
          /\ Members(cuts) \cap Members(adds) = {}, "DuplicatePrefixes")
  && Require(Members(cuts) \subseteq Members(prior), "CutNotPriorWitness")

CheckBackerRelations(prior, cuts, adds) ==
  Require(/\ Unique(prior) /\ Unique(cuts) /\ Unique(adds)
          /\ Members(cuts) \cap Members(adds) = {}, "DuplicatePrefixes")
  && Require(Members(cuts) \subseteq Members(prior), "CutNotPriorWitness")
  && Require(Members(adds) \cap Members(prior) = {}, "AddAlreadyWitness")

CheckBuildRegistry(conf, backers, toad) ==
  Require("NB" \in conf => backers = <<>>, "NoBackersWithBackers")
  && CheckBackerRelations(backers, <<>>, <<>>)
  && CheckBackerThreshold(Len(backers), toad)

BuildRegistry(said, issuer, conf, backers, toad) ==
  [BuiltTel("vcp", said, said, None, 0)
     EXCEPT !.issuer = issuer, !.conf = conf, !.adds = backers, !.toad = toad]

CheckBuildBackers(sn, prior, cuts, adds) ==
  Require(sn >= 1, "SnBelowMinimum") && CheckBackerRelations(prior, cuts, adds)

BuildBackers(said, reg, latest, sn, cuts, adds, toad) ==
  [BuiltTel("vrt", said, reg, None, sn)
     EXCEPT !.prior = latest, !.cuts = cuts, !.adds = adds, !.toad = toad]

BuildIssue(said, cred, reg) == BuiltTel("iss", said, reg, cred, 0)

BuildRevoke(said, cred, reg, issue) ==
  [BuiltTel("rev", said, reg, cred, 1) EXCEPT !.prior = issue]

BuildBackedIssue(said, cred, reg, ra) ==
  [BuiltTel("bis", said, reg, cred, 0) EXCEPT !.ra = ra]

\* A backed revocation names its registry in the seal alone.
BuildBackedRevoke(said, cred, issue, ra) ==
  [BuiltTel("brv", said, None, cred, 1) EXCEPT !.prior = issue, !.ra = ra]
=============================================================================
