------------------------------ MODULE Exchange ------------------------------
(***************************************************************************)
(* The hosts of the two parties of credential exchanges, over a network    *)
(* that delivers a message late, never or again and again. Each host keeps *)
(* what the keri crate leaves to it (ipex.rs): the head of every           *)
(* conversation, which it stores together with a replay marker and the     *)
(* effect of the message. A message that waits for evidence is retained or *)
(* sent again: it can be looked at at any later time.                      *)
(*                                                                         *)
(* A host has several workers. A worker reads the head that the message    *)
(* answers and the evidence, decides, and stores the new head only if the  *)
(* old one is still there. A party speaks by putting its own message to    *)
(* its own fold; the message leaves with the commit. A crash loses the     *)
(* decisions that are not stored.                                          *)
(***************************************************************************)
EXTENDS Ipex

CONSTANTS
  Hosts,         (* The parties, by their identifiers.                     *)
  Workers,       (* For each host those that decide for it.                *)
  Exns,          (* All messages there are.                                *)
  Strays,        (* Those a third party puts on the wire.                  *)
  Facts,         (* What each host may come to accept (see Supply).        *)
  Initially,     (* What each host accepts from the start.                 *)
  Fitting,       (* The credentials that fit their schema.                 *)
  MaxCrashes     (* Bound on the crashes of a behaviour.                   *)

ASSUME ExchangeAssumption ==
  /\ Hosts \subseteq Identifiers
  /\ Exns \subseteq Exn
  /\ None \notin Saids \cup Identifiers \cup Acdc \cup Exn \cup Conversation
  /\ None \notin RegistryHead \cup CredentialHead
  /\ Strays \subseteq Exns
  /\ \A m \in Strays : m.issuer \in Hosts => m.signed # "enough"
  /\ Initially \in [Hosts -> SUBSET UNION {Facts[h] : h \in Hosts}]
  /\ \A h \in Hosts : Initially[h] \subseteq Facts[h] /\ IsFiniteSet(Initially[h])
  /\ MaxCrashes \in Nat

(* A SAID is the message's, whatever is attached to it.                    *)
ASSUME SaidsName ==
  \A m, n \in Exns :
    m.said = n.said => [m EXCEPT !.signed = n.signed, !.pathed = n.pathed] = n

(* A credential's SAID is the credential's.                                *)
ASSUME CredentialSaidsName ==
  \A m, n \in Exns :
    m.acdc # None /\ n.acdc # None /\ m.acdc.said = n.acdc.said => m.acdc = n.acdc

(* What a fact of each kind is about: an identifier whose log was accepted *)
(* from its inception, a schema, a credential's body, a registry, an event *)
(* of a credential's log, an event of a key event log and whether it came  *)
(* by a recovery.                                                          *)
Subject ==
  [kel |-> Identifiers, schema |-> Saids, body |-> Acdc, registry |-> RegistryHead,
   tel |-> CredentialHead,
   event |-> [at : [pre : Identifiers, sn : Nat, said : Saids], recovery : BOOLEAN]]

(* What a host may accept, the folds let pass: a registry has one issuer,  *)
(* and a credential's log is its issuance, at 0, and then its revocation.  *)
ASSUME FactsAssumption ==
  \A h \in Hosts :
    /\ \A f \in Facts[h] : f[1] \in DOMAIN Subject /\ f[2] \in Subject[f[1]] /\ f = <<f[1], f[2]>>
    /\ \A f, g \in Facts[h] :
         /\ f[1] = "registry" /\ g[1] = "registry" /\ f[2].id = g[2].id => f = g
         /\ f[1] = "tel" /\ g[1] = "tel" /\ f[2].credential = g[2].credential =>
              /\ f[2].registry = g[2].registry
              /\ f[2].status = "Issued" <=> f[2].sn = 0
              /\ f[2].sn = g[2].sn => f = g

Roots == {m.said : m \in {n \in Exns : n.route = "apply"}}

(* A decision that is not stored yet: the message, the head that was read  *)
(* (None for an opening) and the head that follows.                        *)
Decision == [exn : Exns, read : Conversation \cup {None}, next : Conversation]

ASSUME NoDecision == None \notin Decision

VARIABLES
  heads,         (* For each host and root the conversation, or None.      *)
  trail,         (* The accepted messages: replay markers, in order.       *)
  known,         (* For each host the facts it accepted.                   *)
  desk,          (* For each host and worker its decision, or None.        *)
  wire,          (* The messages in flight; what was sent stays.           *)
  crashes

durable == <<heads, trail>>
vars == <<durable, known, desk, wire, crashes>>

Init ==
  /\ heads = [h \in Hosts |-> [r \in Roots |-> None]]
  /\ trail = [h \in Hosts |-> [r \in Roots |-> <<>>]]
  /\ known = Initially
  /\ desk = [h \in Hosts |-> [w \in Workers[h] |-> None]]
  /\ wire = Strays
  /\ crashes = 0

-----------------------------------------------------------------------------
(* Evidence. A fact is a pair of its kind and what was accepted.           *)
Accepted(h, kind) == {f[2] : f \in {g \in known[h] : g[1] = kind}}

OneOf(S) == IF S = {} THEN None ELSE CHOOSE x \in S : TRUE

KelOf(h, i) == IF i \in Accepted(h, "kel") THEN i ELSE None

SchemaFor(h, a) ==
  IF a.schema \notin Accepted(h, "schema") THEN None
  ELSE IF a \in Fitting THEN "fits" ELSE "rejects"

RegistryFor(h, a) == OneOf({r \in Accepted(h, "registry") : r.id = a.registry})

(* The latest accepted event of the credential's log.                      *)
HeadFor(h, a) ==
  LET log == {s \in Accepted(h, "tel") : s.credential = a.said}
  IN  OneOf({s \in log : \A t \in log : t.sn <= s.sn})

(* A recovered event of the issuer's log stands for the one it replaced.   *)
EventAt(h, e) ==
  LET here == {k \in Accepted(h, "event") : k.at.pre = e.pre /\ k.at.sn = e.sn}
  IN  OneOf({k.at : k \in {l \in here : \A o \in here : o.recovery => l = o}})

NodeFor(h, a) ==
  [body |-> a, schema |-> SchemaFor(h, a), registry |-> RegistryFor(h, a),
   state |-> HeadFor(h, a), issuer |-> KelOf(h, a.issuer)]

Supply(h, c, m) ==
  LET a == m.acdc
      none == a = None
  IN  [sender |-> KelOf(h, m.issuer),
       schema |-> IF none THEN None ELSE SchemaFor(h, a),
       registry |-> IF none THEN None ELSE RegistryFor(h, a),
       state |-> IF none THEN None ELSE HeadFor(h, a),
       issuer |-> IF c = None THEN None ELSE KelOf(h, c.issuer),
       anchor |-> IF m.anc = None THEN None ELSE EventAt(h, m.anc),
       chain |-> {[said |-> b.said, evidence |-> NodeFor(h, b)] :
                    b \in Accepted(h, "body") \ {a}}]

-----------------------------------------------------------------------------
(* The conversation of a message: the one that has accepted its prior.     *)
SaidsIn(talk) == {talk[i].said : i \in DOMAIN talk}
Marked(h, m) == \E r \in Roots : m.said \in SaidsIn(trail[h][r])
Answered(h, m) == {r \in Roots : m.prior \in SaidsIn(trail[h][r])}

RootOf(h, m) == IF Answered(h, m) = {} THEN m.said ELSE CHOOSE r \in Answered(h, m) : TRUE
ReadBy(h, m) == IF Answered(h, m) = {} THEN None ELSE heads[h][RootOf(h, m)]

Verdict(h, m) ==
  LET c == ReadBy(h, m)
  IN  IF c = None THEN BeginVerdict(m, Supply(h, c, m))
      ELSE IngestVerdict(c, m, Supply(h, c, m))

Following(h, m) == IF ReadBy(h, m) = None THEN Begun(m) ELSE Advanced(ReadBy(h, m), m)

(* What a host may look at: what the wire carries, and what it could say   *)
(* itself.                                                                 *)
Drafts(h) == {m \in Exns : m.issuer = h /\ m.signed = "enough"}

AtHand(h, m) == m \in wire \cup Drafts(h) /\ ~Marked(h, m)

(* What is not acceptable, or not yet, leaves no trace.                    *)
Decide(h, w, m) ==
  /\ desk[h][w] = None
  /\ AtHand(h, m)
  /\ IpexDisposition(Verdict(h, m)) = "Accepted"
  /\ desk' = [desk EXCEPT ![h][w] =
                [exn |-> m, read |-> ReadBy(h, m), next |-> Following(h, m)]]
  /\ UNCHANGED <<heads, trail, known, wire, crashes>>

(* The head, the marker and the effect in one transaction, unless another  *)
(* worker was faster; then the message is looked at again.                 *)
(* A mutant: the head is stored whatever is there.                         *)
CommitBlindly(h, w) ==
  /\ desk[h][w] # None
  /\ desk' = [desk EXCEPT ![h][w] = None]
  /\ LET d == desk[h][w]
     IN  /\ heads' = [heads EXCEPT ![h][d.next.root] = d.next]
         /\ trail' = [trail EXCEPT ![h][d.next.root] = Append(@, d.exn)]
         /\ wire' = wire \cup {d.exn}
  /\ UNCHANGED <<known, crashes>>

Commit(h, w) ==
  /\ desk[h][w] # None
  /\ desk' = [desk EXCEPT ![h][w] = None]
  /\ LET d == desk[h][w]
     IN  IF heads[h][d.next.root] # d.read
         THEN UNCHANGED <<heads, trail, wire>>
         ELSE /\ heads' = [heads EXCEPT ![h][d.next.root] = d.next]
              /\ trail' = [trail EXCEPT ![h][d.next.root] = Append(@, d.exn)]
              /\ wire' = wire \cup {d.exn}
  /\ UNCHANGED <<known, crashes>>

(* The events of a log are accepted in order.                              *)
Learn(h, f) ==
  /\ f \in Facts[h] \ known[h]
  /\ f[1] = "tel" => \A g \in Facts[h] : g[1] = "tel" /\ g[2].credential = f[2].credential
                                      /\ g[2].sn < f[2].sn => g \in known[h]
  /\ known' = [known EXCEPT ![h] = @ \cup {f}]
  /\ UNCHANGED <<durable, desk, wire, crashes>>

Crash(h) ==
  /\ crashes < MaxCrashes
  /\ crashes' = crashes + 1
  /\ desk' = [desk EXCEPT ![h] = [w \in Workers[h] |-> None]]
  /\ UNCHANGED <<durable, known, wire>>

Next ==
  \E h \in Hosts :
    \/ \E w \in Workers[h] : Commit(h, w) \/ \E m \in Exns : Decide(h, w, m)
    \/ \E f \in Facts[h] : Learn(h, f)
    \/ Crash(h)

Spec == Init /\ [][Next]_vars

(* Each host learns what there is to learn but revocations, every worker   *)
(* ends what it began, and a host that could take or say something does.   *)
Revocation(f) == f[1] = "tel" /\ f[2].status = "Revoked"

Fairness ==
  \A h \in Hosts :
    /\ \A f \in Facts[h] : ~Revocation(f) => WF_vars(Learn(h, f))
    /\ \A w \in Workers[h] : WF_vars(Commit(h, w))
    /\ WF_vars(\E w \in Workers[h], m \in Exns : Decide(h, w, m))

FairSpec == Spec /\ Fairness

-----------------------------------------------------------------------------
(* Between the parties there is one conversation for each opening, however *)
(* workers race, hosts crash and the wire repeats itself (IpexConversation *)
(* and the host's part of it).                                             *)
Promise == INSTANCE AbstractExchange WITH Parties <- Hosts, heard <- trail

KeepsPromise == Promise!Spec

(* The head that is stored is that of the last message marked.             *)
StoredTogether(c, talk) ==
  IF talk = <<>> THEN c = None
  ELSE c # None /\ c.latest = talk[Len(talk)].said /\ c.route = talk[Len(talk)].route

TypeOK ==
  /\ heads \in [Hosts -> [Roots -> Conversation \cup {None}]]
  /\ trail \in [Hosts -> [Roots -> Seq(Exns)]]
  /\ \A h \in Hosts : known[h] \subseteq Facts[h]
  /\ \A h \in Hosts : desk[h] \in [Workers[h] -> Decision \cup {None}]
  /\ \A h \in Hosts, r \in Roots : StoredTogether(heads[h][r], trail[h][r])
  /\ wire \subseteq Exns
  /\ crashes \in 0..MaxCrashes

-----------------------------------------------------------------------------
(* What is granted is what was offered: the credential that the issuer the *)
(* applicant asked gave to that applicant under the schema that it asked   *)
(* for, at the issuance that the host accepted and an event of the issuer  *)
(* it accepted seals and nothing else (bind_credential, bind_grant_anchor).*)
GrantedAsOffered ==
  \A h \in Hosts, r \in Roots :
    \A i \in DOMAIN trail[h][r] :
      LET m == trail[h][r][i]
          opening == trail[h][r][1]
      IN  m.route = "grant" =>
            /\ m.acdc.issuee = opening.issuer
            /\ m.acdc.issuer = opening.recipient
            /\ m.acdc.schema = opening.schema
            /\ \E j \in 1..(i - 1) : trail[h][r][j].route = "offer" /\ trail[h][r][j].acdc = m.acdc
            /\ \E s \in Accepted(h, "tel") : s.credential = m.acdc.said /\ s.head = m.iss.said
            /\ \E k \in Accepted(h, "event") :
                 /\ k.at.said = m.anc.said
                 /\ m.anc.seals = <<[i |-> m.acdc.said, s |-> m.iss.sn, d |-> m.iss.said]>>

(* The reference for the walk. A way is the sequence of the edges taken;   *)
(* it ends in the credential its last edge names.                          *)
Target(h, a, i) ==
  LET named == {b \in Accepted(h, "body") : a # None /\ i \in DOMAIN a.edges /\ b.said = a.edges[i].n}
  IN  OneOf(named)

EndOf(h, a, way) ==
  LET end[k \in 0..Len(way)] == IF k = 0 THEN a ELSE Target(h, end[k - 1], way[k])
  IN  end[Len(way)]

MaxEdges == Max({0} \cup {Len(f[2].edges) : f \in {g \in UNION {Facts[h] : h \in Hosts} : g[1] = "body"}})

Ways(h, a) ==
  {w \in UNION {[1..n -> 1..MaxEdges] : n \in 0..(Limits.depth + 1)} : EndOf(h, a, w) # None}

IssuedTo(h, a) ==
  LET log == {s \in Accepted(h, "tel") : s.credential = a.said}
  IN  /\ a \in Fitting /\ a.schema \in Accepted(h, "schema")
      /\ a.issuer \in Accepted(h, "kel")
      /\ [id |-> a.registry, issuer |-> a.issuer] \in Accepted(h, "registry")
      /\ log # {} /\ \A s \in log : s.registry = a.registry /\ s.status = "Issued"

Upheld(h, b) ==
  /\ IssuedTo(h, b)
  /\ b.rules \in {"absent", "empty"} /\ b.form \in {"absent", "inline"}
  /\ \A i \in DOMAIN b.edges :
       LET t == Target(h, b, i)
       IN  /\ t # None /\ b.edges[i].o # "DI2I"
           /\ b.edges[i].o = "I2I" => t.issuee = b.issuer
           /\ b.edges[i].o = None => t.issuee \in {None, b.issuer}

Valid(h, a) ==
  /\ Cardinality(Ways(h, a)) <= Limits.nodes
  /\ \A way \in Ways(h, a) : Len(way) <= Limits.depth /\ Upheld(h, EndOf(h, a, way))

(* A host takes a grant only if on all it knows at that moment the         *)
(* credential and those on each way from it are issued and not revoked, as *)
(* far as the limits let it look (CredentialVerifier::verify): what it     *)
(* learns later in the same breath does not count.                         *)
GrantsAreValid ==
  [][\A h \in Hosts : \A w \in Workers[h] :
       LET d == desk'[h][w]
       IN  desk[h][w] = None /\ d # None => (d.exn.route = "grant" => Valid(h, d.exn.acdc))]_vars

(* A host that drops what is terminal loses nothing: no later fact and no  *)
(* later message makes it acceptable (IpexDecisionError::disposition: "A   *)
(* terminal result must not be retried"). The exception is a grant that    *)
(* was judged against an event that a recovery then replaced.              *)
Judged(h) == <<heads[h], trail[h], known[h]>>

TerminalIsFinal ==
  [][\A h \in Hosts :
       UNCHANGED Judged(h) \/
       \A m \in wire :
         /\ IpexDisposition(Verdict(h, m)) = "Terminal"
         /\ Verdict(h, m) # "AnchorMismatch"
         => IpexDisposition(Verdict(h, m)') # "Accepted"]_vars

(* Unless a credential is revoked meanwhile every conversation comes to    *)
(* its end on both sides, whoever spurns or admits.                        *)
Closed(h, r) == heads[h][r] # None /\ IsTerminal(heads[h][r])

Concludes ==
  \/ <>(\A h \in Hosts, r \in Roots : Closed(h, r))
  \/ <>(\E h \in Hosts : \E f \in known[h] : Revocation(f))
=============================================================================
