------------------------------ MODULE TelHost ------------------------------
(***************************************************************************)
(* A host of the registries of one issuer. It keeps what the keri crate    *)
(* leaves to it (registry.rs): the heads of every management and           *)
(* credential log, the retained management states a backed event may name, *)
(* and the messages that wait for evidence. Messages arrive in any order,  *)
(* with their receipts in pieces, while the issuer's key event log grows   *)
(* and is recovered; of that log only the promise of AbstractKel is used,  *)
(* which KelHost implements.                                               *)
(*                                                                         *)
(* The host finds the sealing event by the exact coordinate a message      *)
(* claims. A transaction event log is never rewound: what was accepted on  *)
(* an event that a recovery replaced stays accepted.                       *)
(***************************************************************************)
EXTENDS Registry

CONSTANTS
  TelStorms,     (* Sets of messages a network may carry again and again.  *)
  TelErrands,    (* Sets of messages a network may carry once each.        *)
  BackerWishes,  (* The [cuts, adds, toad] an issuer may ask a builder for. *)
  IssuerEvents   (* What the issuer's log may record (Event of KeyState).  *)

TelMessages == UNION (TelStorms \cup TelErrands)

ASSUME TelHostAssumption ==
  /\ TelMessages \subseteq TelMessage
  /\ IssuerEvents \subseteq Event
  /\ \A e, f \in IssuerEvents : e.said = f.said => e = f
  /\ BackerWishes \subseteq [cuts : Seq(Keys), adds : Seq(Keys), toad : Nat]
  /\ \A storm \in TelStorms, errand \in TelErrands : ~(storm \subseteq errand)

VARIABLES
  log,           (* The issuer's key event log, as the host accepted it.   *)
  replaced,      (* What recoveries took out of it (for the audit).        *)
  unread,        (* Messages in flight.                                    *)
  escrow,        (* Parked messages, receipts of one event merged.         *)
  management,    (* For each registry its retained states, head last.      *)
  credentials,   (* For each registry and credential its head, or None.    *)
  accepted       (* The accepted messages.                                 *)

telVars == <<unread, escrow, management, credentials, accepted>>
vars == <<log, replaced, telVars>>

Kel == INSTANCE AbstractKel WITH Events <- IssuerEvents

Init ==
  /\ Kel!Init
  /\ replaced = {}
  /\ unread \in TelStorms \cup TelErrands
  /\ escrow = {}
  /\ management = [r \in Registries |-> <<>>]
  /\ credentials = [p \in Registries \X Credentials |-> None]
  /\ accepted = {}

-----------------------------------------------------------------------------
(* Evidence. A host that looks an anchor up by number alone would hand the *)
(* fold another event of the log.                                          *)
(* A mutant: that host.                                                    *)
AnchorAtNumber(m) ==
  IF m.source # None /\ m.source.sn + 1 \in DOMAIN log THEN log[m.source.sn + 1] ELSE None

AnchorOf(m) ==
  IF \E e \in Members(log) : m.source = [sn |-> e.sn, said |-> e.said]
  THEN CHOOSE e \in Members(log) : m.source = [sn |-> e.sn, said |-> e.said]
  ELSE None

RegistryOf(e) == IF e.kind = "brv" THEN e.ra.i ELSE e.reg
Chain(e) == IF RegistryOf(e) \in Registries THEN management[RegistryOf(e)] ELSE <<>>
Current(e) == Chain(e)[Len(Chain(e))]

(* For a backed event the present backers or the retained state it names,  *)
(* for any other the issuer's key state, once there is one.                *)
Evidence(e) ==
  IF e.kind \in Backed
  THEN {BackerNow} \cup {BackerAt(r) : r \in {h \in Members(Chain(e)) :
                                               h.sn = e.ra.s /\ h.latest = e.ra.d}}
  ELSE {IF log = <<>> THEN Missing ELSE Issuer(log[1].pre)}

-----------------------------------------------------------------------------
(* The fold that a message is put to: a registry comes first, then its     *)
(* management log or one credential's.                                     *)
Place(e) == <<RegistryOf(e), e.cred>>
Recorded(e) == credentials[Place(e)]

(* A mutant: an issuance is not compared with what is recorded.            *)
IssueAgain(m, ev) == InceptCredential(Current(m.event), m, ev, AnchorOf(m))

Issue(m, ev) ==
  InceptCredential(Current(m.event), m, ev, AnchorOf(m))
  && Require(Recorded(m.event) = None, "OutOfOrderStale")

Revoke(m, ev) ==
  IF Recorded(m.event) = None THEN "OutOfOrderFuture"
  ELSE IngestCredential(Recorded(m.event), Current(m.event), m, ev, AnchorOf(m))

Verdict(m, ev) ==
  LET e == m.event
  IN  CASE Chain(e) = <<>> /\ e.kind = "vcp" -> InceptRegistry(m, ev, AnchorOf(m))
        [] Chain(e) = <<>> /\ e.kind # "vcp" -> "MissingRegistry"
        [] Chain(e) # <<>> /\ e.kind \in {"vcp", "vrt"} ->
             IngestRegistry(Current(e), m, ev, AnchorOf(m))
        [] Chain(e) # <<>> /\ e.kind \in Issuances -> Issue(m, ev)
        [] Chain(e) # <<>> /\ e.kind \in {"rev", "brv"} -> Revoke(m, ev)

Verdicts(m) == {Verdict(m, ev) : ev \in Evidence(m.event)}
May(m, disposition) == \E v \in Verdicts(m) : TelDisposition(v) = disposition

(* Receipts of one event under one claimed coordinate are collected.       *)
SameEvent(m) == {p \in escrow : p.event = m.event /\ p.source = m.source}
Merged(m) == [m EXCEPT !.receipts = @ \cup UNION {p.receipts : p \in SameEvent(m)}]

-----------------------------------------------------------------------------
(* The ends of a message put to the fold.                                  *)
Manage(e) ==
  /\ management' = [management EXCEPT ![RegistryOf(e)] =
       Append(@, IF e.kind = "vcp" THEN SeedRegistry(e) ELSE RotateRegistry(Current(e), e))]
  /\ UNCHANGED credentials

Certify(e) ==
  /\ credentials' = [credentials EXCEPT ![Place(e)] =
       IF e.kind \in Issuances THEN SeedCredential(Current(e), e) ELSE RevokeCredential(@, e)]
  /\ UNCHANGED management

Admit(m) ==
  /\ "Ok" \in Verdicts(m)
  /\ IF m.event.kind \in {"vcp", "vrt"} THEN Manage(m.event) ELSE Certify(m.event)
  /\ accepted' = accepted \cup {m}
  /\ escrow' = escrow \ SameEvent(m)

Await(m) ==
  /\ May(m, "Awaiting")
  /\ escrow' = (escrow \ SameEvent(m)) \cup {m}
  /\ UNCHANGED <<management, credentials, accepted>>

(* A terminal event is dropped; a contested one is a duplicate or          *)
(* duplicitous by its SAID, and what is recorded stands.                   *)
Drop(m) ==
  /\ May(m, "Terminal") \/ May(m, "Contested")
  /\ escrow' = escrow \ SameEvent(m)
  /\ UNCHANGED <<management, credentials, accepted>>

Handle(m) == Admit(m) \/ Await(m) \/ Drop(m)

-----------------------------------------------------------------------------
(* What stays in flight when a message is delivered.                       *)
Kept(m) == IF unread \in TelStorms THEN unread ELSE unread \ {m}

Deliver(m) ==
  /\ m \in unread
  /\ unread' = Kept(m)
  /\ Handle(Merged(m))
  /\ UNCHANGED <<log, replaced>>

Redrive(m) ==
  /\ m \in escrow
  /\ Handle(m)
  /\ UNCHANGED <<unread, log, replaced>>

(* The issuer's log grows or is recovered.                                 *)
IssuerStep ==
  /\ Kel!Next
  /\ replaced' = replaced \cup (Members(log) \ Members(log'))
  /\ UNCHANGED telVars

Next == IssuerStep \/ \E m \in unread \cup escrow : Deliver(m) \/ Redrive(m)

Spec == Init /\ [][Next]_vars

(* The issuer completes its log, the host reads what it is sent and        *)
(* re-drives each parked event again and again. Of a storm nothing is      *)
(* expected.                                                               *)
OnErrand == unread \notin TelStorms

Fairness ==
  /\ WF_vars(OnErrand /\ IssuerStep)
  /\ \A m \in UNION TelErrands : WF_vars(OnErrand /\ Deliver(m))
  /\ \A m \in UNION TelErrands :
       SF_vars(/\ OnErrand
               /\ \E p \in escrow : p.event = m.event /\ p.source = m.source /\ Redrive(p))

FairSpec == Spec /\ Fairness

-----------------------------------------------------------------------------
(* The promise to those who verify credentials.                            *)
StatusOf(c) == IF c = None THEN "Unknown" ELSE Status(c)

Promise == INSTANCE AbstractTel WITH
  management <- [r \in Registries |->
                   [n \in DOMAIN management[r] |-> management[r][n].latest]],
  status <- [p \in Registries \X Credentials |-> StatusOf(credentials[p])]

(* A registry's management log only grows, a credential is issued once and *)
(* its revocation is final (CredentialState::ingest_mut, status), though   *)
(* the issuer's log is recovered under it.                                 *)
KeepsPromise == Promise!Spec

-----------------------------------------------------------------------------
(* The accepted management events of a registry up to a number.            *)
ManagementUpTo(r, sn) ==
  {m.event : m \in {a \in accepted : /\ a.event.kind \in {"vcp", "vrt"}
                                     /\ a.event.reg = r /\ a.event.sn <= sn}}

(* Read from the accepted events alone: added and not cut later.           *)
BackersOf(events) ==
  {b \in Keys : \E e \in events : /\ b \in Members(e.adds)
                                  /\ \A l \in events : l.sn > e.sn => b \notin Members(l.cuts)}

Receiptors(m) == {sig.signer : sig \in m.receipts}

Governing(e) == IF e.kind \in Backed THEN e.ra.s ELSE e.sn

ReceiptedInTime(m) ==
  LET e == m.event
      events == ManagementUpTo(RegistryOf(e), Governing(e))
  IN  \E g \in events :
        /\ g.sn = Governing(e)
        /\ e.kind \in Backed => g.said = e.ra.d
        /\ Cardinality(BackersOf(events) \cap Receiptors(m)) >= g.toad

(* A backed event carries enough receipts of the backers of the management *)
(* event it names, and a management event of the backers it leaves in      *)
(* force, whatever rotations the host had accepted when it judged them     *)
(* (resolve_backer_authority).                                             *)
BackersOfTheirTime ==
  \A m \in accepted :
    m.event.kind \in Backed \cup {"vcp", "vrt"} => ReceiptedInTime(m)

(* Every accepted event was the sole seal of an event the issuer's log     *)
(* held, at the coordinate the message claimed: no event is accepted on    *)
(* the seal of a rival with the same number (verify_kel_anchor).           *)
SealedByIssuer ==
  \A m \in accepted :
    \E k \in Members(log) \cup replaced :
      /\ m.source = [sn |-> k.sn, said |-> k.said]
      /\ k.seals = <<SealedAs(m.event)>>

(* The builders and the fold keep the same laws. Whatever state a registry *)
(* or credential is in, the next event its issuer asks the builder for, or *)
(* the first of another registry, sealed by the issuer and receipted by    *)
(* the backers that then are in force, is admitted when it is built, and   *)
(* refused when it is not                                                  *)
(* (validate_backer_relations; resolve_backers, ingest). The builder of a  *)
(* rotation does not look at the threshold or at whether a number is left, *)
(* nor those of credential events at whether the registry has backers.     *)
Heads == {management[r][Len(management[r])] : r \in {r \in Registries : management[r] # <<>>}}

Endorsed(e, backers) ==
  [event |-> e, source |-> [sn |-> 0, said |-> e.said],
   receipts |-> {[index |-> i - 1, ondex |-> NoOndex, signer |-> backers[i]] : i \in DOMAIN backers}]

Anchoring(e, issuer) ==
  [pre |-> issuer, sn |-> 0, said |-> e.said, seals |-> <<SealedAs(e)>>]

InceptionAdmitted(issuer, said) ==
  \A wish \in BackerWishes, conf \in SUBSET {"NB"} :
    \A backers \in {wish.adds, wish.cuts} :
      LET e == BuildRegistry(said, issuer, conf, backers, wish.toad)
          judged == InceptRegistry(Endorsed(e, backers), Issuer(issuer), Anchoring(e, issuer))
      IN  judged = "Ok" <=> CheckBuildRegistry(conf, backers, wish.toad) = "Ok"

RotationAdmitted(r, said) ==
  \A wish \in BackerWishes :
    LET e == BuildBackers(said, r.id, r.latest, r.sn + 1, wish.cuts, wish.adds, wish.toad)
        left == UpdatedBackers(r, e)
        judged == Rotate(r, Endorsed(e, left), Issuer(r.issuer), Anchoring(e, r.issuer))
        Built == CheckBuildBackers(r.sn + 1, r.backers, wish.cuts, wish.adds) = "Ok"
        Bounded == CheckBackerThreshold(Len(left), wish.toad) = "Ok"
    IN  judged = "Ok" <=> Built /\ Bounded

NextOf(r, c, said) ==
  LET here == [i |-> r.id, s |-> r.sn, d |-> r.latest]
      recorded == credentials[<<r.id, c>>]
  IN  CASE recorded = None /\ IsBackerless(r) -> BuildIssue(said, c, r.id)
        [] recorded = None /\ ~IsBackerless(r) -> BuildBackedIssue(said, c, r.id, here)
        [] recorded # None /\ IsBackerless(r) -> BuildRevoke(said, c, r.id, recorded.head)
        [] OTHER -> BuildBackedRevoke(said, c, recorded.head, here)

CredentialAdmitted(r, c, said) ==
  LET e == NextOf(r, c, said)
      recorded == credentials[<<r.id, c>>]
      m == Endorsed(e, r.backers)
      ev == IF IsBackerless(r) THEN Issuer(r.issuer) ELSE BackerNow
      anchor == Anchoring(e, r.issuer)
  IN  CASE recorded = None -> InceptCredential(r, m, ev, anchor) = "Ok"
        [] OTHER -> (IngestCredential(recorded, r, m, ev, anchor) = "Ok") <=> Status(recorded) = "Issued"

BuiltIsAdmitted ==
  \A r \in Heads :
    LET said == CHOOSE s \in Saids : TRUE
    IN  /\ InceptionAdmitted(r.issuer, said)
        /\ ~IsBackerless(r) /\ r.sn < MaxSn => RotationAdmitted(r, said)
        /\ \A c \in Credentials : CredentialAdmitted(r, c, said)

(* What is dropped is never missed. A message that the fold calls terminal *)
(* or contested is not accepted, nor is it by the state that any step      *)
(* leaves, though the issuer's log is recovered and other evidence arrives *)
(* (registry.rs: "supplied contradictory facts are terminal"). It may come *)
(* to wait: a recovery can take the event away that contradicted it.       *)
(* Verdicts change with what they are judged by only.                      *)
Judged == <<log, management, credentials>>

Droppable(verdicts) == \E v \in verdicts : TelDisposition(v) \in {"Terminal", "Contested"}

TerminalIsFinal ==
  [][UNCHANGED Judged \/
     \A m \in unread \cup escrow :
       Droppable(Verdicts(m)) => "Ok" \notin Verdicts(m) \cup Verdicts(m)']_vars
=============================================================================
