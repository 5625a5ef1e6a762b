-------------------------------- MODULE Ipex --------------------------------
(***************************************************************************)
(* The judgment of one message of a credential exchange (keri crate,       *)
(* ipex.rs; keri-codec, ipex.rs): an applicant applies for a credential,   *)
(* the issuer offers one, the applicant agrees, the issuer grants it and   *)
(* the applicant admits it; either may spurn what the other said last.     *)
(*                                                                         *)
(* Data. A message is known by its SAID, which covers all but "signed"     *)
(* (how many of the sender's keys signed it) and "pathed" (the proof that  *)
(* the issuer signed the credential itself).                               *)
(***************************************************************************)
EXTENDS Credential

CONSTANT Limits    (* Of the walk over a granted credential's chain.       *)

ASSUME LimitsAssumption == Limits \in [nodes : Nat, depth : Nat, bytes : Nat]

RoutesOfIpex == {"apply", "offer", "agree", "grant", "admit", "spurn"}

(* The issuance and the sealing event that a grant embeds.                 *)
Issuance == [said : Saids, credential : Saids, registry : Saids, sn : Nat,
             kind : {"iss", "bis", "rev"}]
Anchor == [pre : Identifiers, sn : Nat, said : Saids,
           seals : Seq([i : Saids, s : Nat, d : Saids])]

Exn ==
  [said : Saids, prior : Saids \cup {None}, route : RoutesOfIpex, issuer : Identifiers,
   signed : {"enough", "few", "none"}, wellFormed : BOOLEAN, recipient : Identifiers \cup {None},
   schema : Saids \cup {None}, acdc : Acdc \cup {None}, iss : Issuance \cup {None},
   anc : Anchor \cup {None}, pathed : {"none", "proof", "wrong"}]

Conversation ==
  [root : Saids, latest : Saids, route : RoutesOfIpex, applicant : Identifiers,
   issuer : Identifiers, schema : Saids, offered : Saids \cup {None}, last : Identifiers]

(* What the host supplies beside the conversation: the accepted key states *)
(* of the sender and of the issuer, what it knows of the credential, the   *)
(* accepted event at the coordinate of the anchor, other credentials.      *)
Supplied ==
  [sender : Identifiers \cup {None}, schema : {None, "fits", "rejects"},
   registry : RegistryHead \cup {None}, state : CredentialHead \cup {None},
   issuer : Identifiers \cup {None},
   anchor : [pre : Identifiers, sn : Nat, said : Saids] \cup {None},
   chain : SUBSET [said : Saids, evidence : Evidence]]

-----------------------------------------------------------------------------
(* The typed lift of an envelope: what each route must and may carry.      *)
Parsed(m) ==
  /\ m.wellFormed
  /\ m.route = "apply" => m.schema # None /\ m.recipient # None
  /\ m.route = "grant" => m.acdc # None /\ m.recipient # None
  /\ m.route = "offer" => m.acdc # None /\ m.iss = None /\ m.anc = None

Authentic(m, e) ==
  IF e.sender = None THEN "MissingSenderState"
  ELSE IF e.sender # m.issuer THEN "SenderMismatch"
  ELSE IF m.signed = "none" THEN "NoSignature"
  ELSE IF m.signed = "few" THEN "MissingSignatures"
  ELSE "Ok"

IsTerminal(c) == c.route \in {"admit", "spurn"}

(* A mutant: once agreed the issuer must grant.                            *)
AllowedResponseBinding(prior, next) ==
  <<prior, next>> \in
    {<<"apply", "offer">>, <<"offer", "agree">>, <<"agree", "grant">>, <<"grant", "admit">>}
    \cup ({"apply", "offer", "grant"} \X {"spurn"})

AllowedResponse(prior, next) ==
  <<prior, next>> \in
    {<<"apply", "offer">>, <<"offer", "agree">>, <<"agree", "grant">>, <<"grant", "admit">>}
    \cup ({"apply", "offer", "agree", "grant"} \X {"spurn"})

ExpectedSender(c) == IF c.last = c.applicant THEN c.issuer ELSE c.applicant

-----------------------------------------------------------------------------
(* What binds a credential to the conversation.                            *)
BoundToParties(a, c) ==
  IF a.issuer # c.issuer THEN "WrongCredential"
  ELSE IF a.schema # c.schema THEN "WrongSchema"
  ELSE IF a.issuee # c.applicant THEN "WrongCredential"
  ELSE "Ok"

(* Exactly one proof, over the exact credential, by the issuer's keys.     *)
Proven(m, c, e) ==
  IF e.issuer = None THEN "MissingProofIssuer"
  ELSE IF e.issuer # c.issuer THEN "InvalidPathedProof"
  ELSE IF m.pathed = "none" THEN "MissingPathedProof"
  ELSE IF m.pathed = "wrong" THEN "InvalidPathedProof"
  ELSE "Ok"

(* The issuance is the accepted head of the credential's log, and the      *)
(* issuer's accepted event seals it and nothing else.                      *)
Anchored(m, e) ==
  IF m.iss = None THEN "IncompleteGrant"
  ELSE IF \/ m.acdc.registry = None
          \/ m.iss.kind \notin {"iss", "bis"}
          \/ m.iss.credential # m.acdc.said
          \/ m.iss.registry # m.acdc.registry
  THEN "IssuanceMismatch"
  ELSE IF e.state = None THEN "MissingCredentialState"
  ELSE IF m.iss.said # e.state.head \/ m.iss.sn # e.state.sn THEN "IssuanceMismatch"
  ELSE IF m.anc = None THEN "IncompleteGrant"
  ELSE IF e.anchor = None THEN "MissingAnchorState"
  ELSE IF \/ m.anc.pre # m.acdc.issuer
          \/ [pre |-> m.anc.pre, sn |-> m.anc.sn, said |-> m.anc.said] # e.anchor
          \/ m.anc.seals # <<[i |-> m.acdc.said, s |-> m.iss.sn, d |-> m.iss.said]>>
  THEN "AnchorMismatch"
  ELSE "Ok"

EvidenceOf(m, e) ==
  [body |-> m.acdc, schema |-> e.schema, registry |-> e.registry, state |-> e.state,
   issuer |-> e.issuer]

OfferVerdict(c, m, e) ==
  IF e.schema = None THEN "MissingSchema"
  ELSE IF e.schema = "rejects" THEN "InvalidCredential"
  ELSE IF BoundToParties(m.acdc, c) # "Ok" THEN BoundToParties(m.acdc, c)
  ELSE Proven(m, c, e)

(* A mutant: any credential that is valid may be granted.                  *)
GrantVerdictOfAny(c, m, e) ==
  IF Proven(m, c, e) # "Ok" THEN Proven(m, c, e)
  ELSE IF CredentialVerdict(EvidenceOf(m, e), e.chain, Limits) # "Ok"
       THEN CredentialVerdict(EvidenceOf(m, e), e.chain, Limits)
  ELSE IF BoundToParties(m.acdc, c) # "Ok" THEN BoundToParties(m.acdc, c)
  ELSE Anchored(m, e)

GrantVerdict(c, m, e) ==
  IF m.recipient # c.applicant THEN "WrongRecipient"
  ELSE IF m.acdc.said # c.offered THEN "WrongCredential"
  ELSE IF Proven(m, c, e) # "Ok" THEN Proven(m, c, e)
  ELSE IF CredentialVerdict(EvidenceOf(m, e), e.chain, Limits) # "Ok"
       THEN CredentialVerdict(EvidenceOf(m, e), e.chain, Limits)
  ELSE IF BoundToParties(m.acdc, c) # "Ok" THEN BoundToParties(m.acdc, c)
  ELSE Anchored(m, e)

(* What the route itself asks for.                                         *)
RouteVerdict(c, m, e) ==
  IF m.route = "offer" THEN OfferVerdict(c, m, e)
  ELSE IF m.route = "grant" THEN GrantVerdict(c, m, e)
  ELSE IF m.pathed # "none" THEN "InvalidPathedProof"
  ELSE "Ok"

-----------------------------------------------------------------------------
(* IpexConversation::begin.                                                *)
BeginVerdict(m, e) ==
  IF ~Parsed(m) THEN "MalformedRoute"
  ELSE IF m.route # "apply"
       THEN (IF m.prior # None THEN "MissingConversation" ELSE "UnsupportedStart")
  ELSE IF m.prior # None THEN "WrongPrior"
  ELSE IF m.pathed # "none" THEN "InvalidPathedProof"
  ELSE IF Authentic(m, e) # "Ok" THEN Authentic(m, e)
  ELSE IF m.issuer = m.recipient THEN "WrongRecipient"
  ELSE "Ok"

Begun(m) ==
  [root |-> m.said, latest |-> m.said, route |-> "apply", applicant |-> m.issuer,
   issuer |-> m.recipient, schema |-> m.schema, offered |-> None, last |-> m.issuer]

(* IpexConversation::ingest_mut.                                           *)
IngestVerdict(c, m, e) ==
  IF IsTerminal(c) THEN "Closed"
  ELSE IF m.said = c.latest THEN "Duplicate"
  ELSE IF m.prior # c.latest THEN "WrongPrior"
  ELSE IF Authentic(m, e) # "Ok" THEN Authentic(m, e)
  ELSE IF m.issuer # ExpectedSender(c) THEN "WrongParticipant"
  ELSE IF ~Parsed(m) THEN "MalformedRoute"
  ELSE IF ~AllowedResponse(c.route, m.route) THEN "InvalidTransition"
  ELSE RouteVerdict(c, m, e)

Advanced(c, m) ==
  [c EXCEPT !.latest = m.said, !.route = m.route, !.last = m.issuer,
            !.offered = IF m.route = "offer" THEN m.acdc.said ELSE @]

(* A mutant: a schema that has not arrived yet is a contradiction.         *)
IpexDispositionHasty(verdict) ==
  IF verdict = "Ok" THEN "Accepted"
  ELSE IF verdict \in (AwaitedFacts \ {"MissingSchema"}) \cup
       {"MissingConversation", "MissingSenderState", "MissingProofIssuer", "MissingPathedProof",
        "MissingAnchorState", "MissingSignatures"}
  THEN "Awaiting"
  ELSE "Terminal"

(* IpexDecisionError::disposition.                                         *)
IpexDisposition(verdict) ==
  IF verdict = "Ok" THEN "Accepted"
  ELSE IF verdict \in AwaitedFacts \cup
       {"MissingConversation", "MissingSenderState", "MissingProofIssuer", "MissingPathedProof",
        "MissingAnchorState", "MissingSignatures"}
  THEN "Awaiting"
  ELSE "Terminal"
=============================================================================
