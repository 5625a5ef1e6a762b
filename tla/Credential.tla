----------------------------- MODULE Credential -----------------------------
(***************************************************************************)
(* Whether a credential is valid on the evidence a host supplies (keri     *)
(* crate, credential.rs, credential_wire.rs): its issuer and its status in *)
(* a registry, and the same for every credential its edges chain it to, in *)
(* a walk bounded by the caller.                                           *)
(*                                                                         *)
(* Data. A credential is a record; that its bytes fit a schema is a fact   *)
(* about it. "rules" and the form of "edges" are kept as far as they are   *)
(* told apart. Verdicts are "Ok" or the first rule violated, as elsewhere. *)
(***************************************************************************)
EXTENDS Integers, Sequences, FiniteSetsExt

CONSTANTS
  Identifiers,   (* Of issuers and of those credentials are issued to.     *)
  Saids,         (* Names of credentials, schemas, registries and events.  *)
  None

ASSUME NoneIsNoWord == None \notin {"I2I", "NI2I", "DI2I", "fits", "rejects"}

(* An edge names a credential and says whether its holder must be the      *)
(* issuer of this one. Edges with an operator over all of them, or by      *)
(* digest alone, are not supported.                                        *)
Operators == {None, "I2I", "NI2I"}
Edge == [n : Saids, o : Operators \cup {"DI2I"}]

Acdc ==
  [said : Saids, size : Nat, schema : Saids, issuer : Identifiers,
   issuee : Identifiers \cup {None}, registry : Saids \cup {None},
   rules : {"absent", "empty", "said", "block"},
   form : {"absent", "inline", "said", "grouped"}, edges : Seq(Edge)]

RegistryHead == [id : Saids, issuer : Identifiers]
CredentialHead ==
  [registry : Saids, credential : Saids, sn : Nat, head : Saids, status : {"Issued", "Revoked"}]

(* What the host has of one credential, each part accepted by a fold.      *)
Evidence ==
  [body : Acdc, schema : {None, "fits", "rejects"}, registry : RegistryHead \cup {None},
   state : CredentialHead \cup {None}, issuer : Identifiers \cup {None}]

-----------------------------------------------------------------------------
(* The status decision.                                                    *)
StatusVerdict(c, e) ==
  IF e.registry = None THEN "MissingRegistry"
  ELSE IF e.state = None THEN "MissingCredentialState"
  ELSE IF e.issuer = None THEN "MissingIssuerState"
  ELSE IF c.registry = None THEN "MissingRegistryReference"
  ELSE IF c.registry # e.registry.id THEN "RegistryMismatch"
  ELSE IF c.issuer # e.registry.issuer THEN "IssuerMismatch"
  ELSE IF e.issuer # c.issuer THEN "IssuerStateMismatch"
  ELSE IF e.state.registry # e.registry.id \/ e.state.credential # c.said
       THEN "CredentialStateMismatch"
  ELSE IF e.state.status = "Revoked" THEN "Revoked"
  ELSE "Ok"

AwaitedFacts ==
  {"MissingSchema", "MissingChain", "MissingRegistry", "MissingCredentialState",
   "MissingIssuerState"}

-----------------------------------------------------------------------------
(* The walk. A step is to look at one node: its evidence, the SAID the edge *)
(* claimed for it (None for the root), the SAIDs on the path to it and how *)
(* many nodes were visited before it. Where a step is given the walk one   *)
(* level further down, "node" is that, a function of what is looked at.    *)
Result(verdict, visited) == [verdict |-> verdict, visited |-> visited]

OwnVerdict(x) ==
  LET c == x.of.body
  IN  IF x.of.schema = None THEN "MissingSchema"
      ELSE IF x.of.schema = "rejects" THEN "Schema"
      ELSE IF x.claim \notin {None, c.said} THEN "ChainClaimMismatch"
      ELSE IF c.said \in x.path THEN "Cycle"
      ELSE IF c.rules \in {"said", "block"} THEN "UnsupportedForm"
      ELSE StatusVerdict(c, x.of)

(* Without an operator an edge to a credential that has a holder needs the *)
(* holder to be the issuer.                                                *)
HeldByIssuer(edge, target, issuer) ==
  edge.o = "I2I" \/ (edge.o = None /\ target.issuee # None) => target.issuee = issuer

Named(chain, said) == {k \in chain : k.said = said}

Path(x) == x.path \cup {x.of.body.said}

(* Following one edge.                                                     *)
Followed(node, edge, x, chain, visited) ==
  LET found == Named(chain, edge.n)
      one == CHOOSE k \in found : TRUE
  IN  IF edge.o \notin Operators THEN Result("UnsupportedOperator", visited)
      ELSE IF edge.n \in Path(x) THEN Result("Cycle", visited)
      ELSE IF found = {} THEN Result("MissingChain", visited)
      ELSE IF found # {one} THEN Result("AmbiguousChain", visited)
      ELSE LET r == node[[of |-> one.evidence, claim |-> edge.n, path |-> Path(x),
                          visited |-> visited]]
           IN  IF r.verdict = "Ok" /\ ~HeldByIssuer(edge, one.evidence.body, x.of.body.issuer)
               THEN Result("WrongIssuee", r.visited)
               ELSE r

(* The edges in turn, until one fails.                                     *)
FollowedAfter(node, x, chain, done, i) ==
  IF done.verdict # "Ok" THEN done
  ELSE Followed(node, x.of.body.edges[i], x, chain, done.visited)

Edges(node, x, chain, visited) ==
  LET done[i \in 0..Len(x.of.body.edges)] ==
        IF i = 0 THEN Result("Ok", visited)
        ELSE FollowedAfter(node, x, chain, done[i - 1], i)
  IN  IF x.of.body.form \in {"said", "grouped"} THEN Result("UnsupportedForm", visited)
      ELSE done[Len(x.of.body.edges)]

Frames == [of : Evidence, claim : Saids \cup {None}, path : SUBSET Saids, visited : Nat]

(* A mutant: what is visited below one edge does not count for the next.   *)
SpentForgetting(x, below) == Result(below.verdict, x.visited + 1)

Spent(x, below) == below

(* A node within the limits: itself, then its edges.                       *)
Visit(node, x, chain, limits) ==
  IF x.visited >= limits.nodes \/ x.of.body.size > limits.bytes
  THEN Result("ResourceLimit", x.visited)
  ELSE IF OwnVerdict(x) # "Ok" THEN Result(OwnVerdict(x), x.visited + 1)
  ELSE Spent(x, Edges(node, x, chain, x.visited + 1))

(* "levels" says how many the limit on the depth still allows.             *)
TooDeep == [x \in Frames |-> Result("ResourceLimit", x.visited)]

Layer(node, chain, limits) == [x \in Frames |-> Visit(node, x, chain, limits)]

Walk(chain, limits) ==
  LET node[levels \in 0..(limits.depth + 1)] ==
        IF levels = 0 THEN TooDeep ELSE Layer(node[levels - 1], chain, limits)
  IN  node[limits.depth + 1]

(* What a caller may ask for at most.                                      *)
Permitted(limits) == limits.bytes <= 1048576 /\ limits.depth <= 64 /\ limits.nodes <= 1024

(* CredentialVerifier::verify.                                             *)
CredentialVerdict(root, chain, limits) ==
  IF ~Permitted(limits) \/ Cardinality(chain) >= limits.nodes THEN "ResourceLimit"
  ELSE Walk(chain, limits)[[of |-> root, claim |-> None, path |-> {}, visited |-> 0]].verdict
=============================================================================
