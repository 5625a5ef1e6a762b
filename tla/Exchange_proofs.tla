-------------------------- MODULE Exchange_proofs --------------------------
(***************************************************************************)
(* Proofs about Exchange, for every set of hosts, workers, messages and    *)
(* facts: what a host stores is well formed, a grant is of what was        *)
(* offered, and the hosts implement AbstractExchange. These rest on what   *)
(* is true of the stored conversations: a message is in one place of one   *)
(* conversation, and no host ever disagrees about it. Then the walk along  *)
(* chained credentials: what it lets pass is valid by reachability, and    *)
(* more evidence lets nothing pass that was refused for good.              *)
(***************************************************************************)
EXTENDS Exchange, TLAPS, SequenceTheorems, FiniteSetTheorems, NaturalsInduction

-----------------------------------------------------------------------------
(* What the verdicts let pass.                                             *)

(* A message by its sender's keys, lifted to its route, with the proof of  *)
(* the issuer exactly where a credential is shown.                         *)
Sound(m) ==
  /\ m \in Exns
  /\ Parsed(m)
  /\ m.signed = "enough"
  /\ m.pathed = IF m.route \in {"offer", "grant"} THEN "proof" ELSE "none"

OpeningOf(m) ==
  /\ Sound(m)
  /\ m.route = "apply" /\ m.prior = None /\ m.issuer # m.recipient

(* The other participant answers the head it was shown.                    *)
AnswerTo(c, m) ==
  /\ Sound(m)
  /\ ~IsTerminal(c)
  /\ m.prior = c.latest
  /\ m.issuer = ExpectedSender(c)
  /\ AllowedResponse(c.route, m.route)
  /\ m.route = "grant" => m.acdc.said = c.offered

LEMMA AuthenticSigned ==
  ASSUME NEW m \in Exns, NEW e, Authentic(m, e) = "Ok"
  PROVE  m.signed = "enough"
<1>1. m.signed \in {"enough", "few", "none"}
  BY ExchangeAssumption DEF Exn
<1> QED
  BY <1>1 DEF Authentic

LEMMA ProvenShows ==
  ASSUME NEW m \in Exns, NEW c, NEW e, Proven(m, c, e) = "Ok"
  PROVE  m.pathed = "proof"
<1>1. m.pathed \in {"none", "proof", "wrong"}
  BY ExchangeAssumption DEF Exn
<1> QED
  BY <1>1 DEF Proven

(* IpexConversation::begin passes an opening only.                         *)
LEMMA BeginPasses ==
  ASSUME NEW m \in Exns, NEW e, BeginVerdict(m, e) = "Ok"
  PROVE  OpeningOf(m)
<1>1. Parsed(m) /\ m.route = "apply" /\ m.prior = None /\ m.issuer # m.recipient
      /\ m.pathed = "none" /\ Authentic(m, e) = "Ok"
  BY DEF BeginVerdict
<1> QED
  BY <1>1, AuthenticSigned DEF OpeningOf, Sound

(* An offer or a grant binds to the parties, a grant to an issuance too.   *)
LEMMA GrantPasses ==
  ASSUME NEW m \in Exns, NEW c, NEW e, GrantVerdict(c, m, e) = "Ok"
  PROVE  /\ m.acdc.said = c.offered
         /\ Proven(m, c, e) = "Ok"
         /\ BoundToParties(m.acdc, c) = "Ok"
         /\ Anchored(m, e) = "Ok"
BY DEF GrantVerdict

LEMMA OfferPasses ==
  ASSUME NEW m \in Exns, NEW c, NEW e, OfferVerdict(c, m, e) = "Ok"
  PROVE  Proven(m, c, e) = "Ok"
BY DEF OfferVerdict

(* IpexConversation::ingest_mut passes an answer only.                     *)
LEMMA IngestPasses ==
  ASSUME NEW m \in Exns, NEW c, NEW e, IngestVerdict(c, m, e) = "Ok"
  PROVE  AnswerTo(c, m) /\ (m.route = "grant" => GrantVerdict(c, m, e) = "Ok")
<1>1. /\ ~IsTerminal(c) /\ m.prior = c.latest /\ m.issuer = ExpectedSender(c) /\ Parsed(m)
      /\ AllowedResponse(c.route, m.route)
      /\ Authentic(m, e) = "Ok"
      /\ RouteVerdict(c, m, e) = "Ok"
  BY DEF IngestVerdict
<1>2. CASE m.route = "offer"
  <2>1. m.pathed = "proof"
    BY <1>1, <1>2, OfferPasses, ProvenShows DEF RouteVerdict
  <2> QED
    BY <1>1, <1>2, <2>1, AuthenticSigned DEF AnswerTo, Sound
<1>3. CASE m.route = "grant"
  <2>1. GrantVerdict(c, m, e) = "Ok"
    BY <1>1, <1>3 DEF RouteVerdict
  <2>2. m.pathed = "proof" /\ m.acdc.said = c.offered
    BY <2>1, GrantPasses, ProvenShows
  <2> QED
    BY <1>1, <1>3, <2>1, <2>2, AuthenticSigned DEF AnswerTo, Sound
<1>4. CASE m.route \notin {"offer", "grant"}
  <2>1. m.pathed = "none"
    BY <1>1, <1>4 DEF RouteVerdict
  <2> QED
    BY <1>1, <1>4, <2>1, AuthenticSigned DEF AnswerTo, Sound
<1> QED
  BY <1>2, <1>3, <1>4

(* Two accepted messages of one SAID are one message.                      *)
LEMMA SoundBySaid ==
  ASSUME NEW m, Sound(m), NEW n, Sound(n), m.said = n.said
  PROVE  m = n
<1>1. m \in Exn /\ n \in Exn
  BY ExchangeAssumption DEF Sound
<1>2. [m EXCEPT !.signed = n.signed, !.pathed = n.pathed] = n
  BY SaidsName DEF Sound
<1>3. m.route = n.route /\ m.signed = n.signed
  BY <1>1, <1>2 DEF Exn, Sound
<1>4. m.pathed = n.pathed
  BY <1>3 DEF Sound
<1>5. ASSUME NEW z \in Exn PROVE [z EXCEPT !.signed = z.signed, !.pathed = z.pathed] = z
  <2>1. DOMAIN [z EXCEPT !.signed = z.signed, !.pathed = z.pathed] = DOMAIN z
    BY DEF Exn
  <2> QED
    BY <2>1 DEF Exn
<1> QED
  BY <1>1, <1>2, <1>3, <1>4, <1>5

-----------------------------------------------------------------------------
(* The inductive invariant.                                                *)

Types ==
  /\ heads \in [Hosts -> [Roots -> Conversation \cup {None}]]
  /\ trail \in [Hosts -> [Roots -> Seq(Exns)]]
  /\ DOMAIN known = Hosts
  /\ \A h \in Hosts : known[h] \subseteq Facts[h]
  /\ DOMAIN desk = Hosts
  /\ \A h \in Hosts : desk[h] \in [Workers[h] -> Decision \cup {None}]
  /\ wire \subseteq Exns
  /\ crashes \in 0..MaxCrashes

(* Whose turn it is after x, by the opening alone.                         *)
Other(opening, x) == IF x = opening.issuer THEN opening.recipient ELSE opening.issuer

(* What a host knew when it took a grant, and still knows.                 *)
Evident(h, m) ==
  /\ \E s \in Accepted(h, "tel") : s.credential = m.acdc.said /\ s.head = m.iss.said
  /\ \E k \in Accepted(h, "event") :
       /\ k.at.said = m.anc.said
       /\ m.anc.seals = <<[i |-> m.acdc.said, s |-> m.iss.sn, d |-> m.iss.said]>>

Fits(a, opening) ==
  a.issuee = opening.issuer /\ a.issuer = opening.recipient /\ a.schema = opening.schema

(* A stored conversation, on its own.                                      *)
TalkWell(h, talk, r) ==
  /\ \A i \in 1..Len(talk) : Sound(talk[i])
  /\ talk # <<>> => OpeningOf(talk[1]) /\ talk[1].said = r
  /\ \A i \in 2..Len(talk) :
       /\ talk[i].prior = talk[i - 1].said
       /\ talk[i].issuer = Other(talk[1], talk[i - 1].issuer)
  /\ \A i \in 1..Len(talk) :
       talk[i].route = "grant" =>
         /\ i > 2 /\ talk[2].route = "offer" /\ talk[i].acdc.said = talk[2].acdc.said
         /\ Fits(talk[i].acdc, talk[1])
         /\ Evident(h, talk[i])

(* The head sums the stored conversation up.                               *)
HeadWell(c, talk, r) ==
  /\ c = None <=> talk = <<>>
  /\ c # None =>
       /\ c.root = r
       /\ c.applicant = talk[1].issuer /\ c.issuer = talk[1].recipient
       /\ c.schema = talk[1].schema
       /\ c.latest = talk[Len(talk)].said /\ c.route = talk[Len(talk)].route
       /\ c.last = talk[Len(talk)].issuer
       /\ c.route = "apply" => Len(talk) = 1
       /\ c.route \in {"offer", "agree"} =>
            Len(talk) >= 2 /\ talk[2].route = "offer" /\ c.offered = talk[2].acdc.said

(* A decision stays right for the head it was made on.                     *)
DeskWell(h, d) ==
  d # None =>
    /\ d \in Decision
    /\ d.next.root \in Roots
    /\ d.exn \in wire \/ d.exn.issuer = h
    /\ \/ d.read = None /\ OpeningOf(d.exn) /\ d.next = Begun(d.exn)
       \/ /\ d.read # None /\ AnswerTo(d.read, d.exn) /\ d.next = Advanced(d.read, d.exn)
          /\ d.exn.route = "grant" =>
               Evident(h, d.exn) /\ BoundToParties(d.exn.acdc, d.read) = "Ok"

Local ==
  /\ \A h \in Hosts, r \in Roots :
       TalkWell(h, trail[h][r], r) /\ HeadWell(heads[h][r], trail[h][r], r)
  /\ \A h \in Hosts : \A w \in Workers[h] : DeskWell(h, desk[h][w])

LIInv == Types /\ Local

-----------------------------------------------------------------------------
(* Shapes.                                                                 *)

LEMMA BegunIsConversation ==
  ASSUME NEW m, OpeningOf(m)
  PROVE  Begun(m) \in Conversation /\ Begun(m).root = m.said /\ m.said \in Roots
<1>1. m \in Exns /\ m \in Exn /\ m.recipient # None /\ m.schema # None
  BY ExchangeAssumption DEF OpeningOf, Sound, Parsed
<1>2. m.said \in Saids /\ m.issuer \in Identifiers /\ m.recipient \in Identifiers /\ m.schema \in Saids
  BY <1>1 DEF Exn
<1> QED
  BY <1>1, <1>2 DEF Begun, Conversation, RoutesOfIpex, Roots, OpeningOf

LEMMA AdvancedIsConversation ==
  ASSUME NEW c \in Conversation, NEW m, Sound(m)
  PROVE  /\ Advanced(c, m) \in Conversation /\ Advanced(c, m).root = c.root
         /\ Advanced(c, m).latest = m.said /\ Advanced(c, m).route = m.route
         /\ Advanced(c, m).last = m.issuer /\ Advanced(c, m).applicant = c.applicant
         /\ Advanced(c, m).issuer = c.issuer /\ Advanced(c, m).schema = c.schema
         /\ Advanced(c, m).offered = IF m.route = "offer" THEN m.acdc.said ELSE c.offered
<1>1. m \in Exn /\ (m.route = "offer" => m.acdc # None)
  BY ExchangeAssumption DEF Sound, Parsed
<1>2. m.route = "offer" => m.acdc \in Acdc
  BY <1>1 DEF Exn
<1>3. m.route = "offer" => m.acdc.said \in Saids
  BY <1>2 DEF Acdc
<1>4. m.said \in Saids /\ m.route \in RoutesOfIpex /\ m.issuer \in Identifiers
  BY <1>1 DEF Exn
<1> QED
  BY <1>3, <1>4 DEF Advanced, Conversation

LEMMA OneOfIsIn ==
  ASSUME NEW S, OneOf(S) # None
  PROVE  OneOf(S) \in S
BY DEF OneOf

(* What a host's supply for a grant rests on.                              *)
LEMMA SuppliedIsEvident ==
  ASSUME NEW h, NEW c, NEW m, m.acdc # None, Anchored(m, Supply(h, c, m)) = "Ok"
  PROVE  Evident(h, m)
<1> DEFINE e == Supply(h, c, m)
<1>1. /\ e.state # None /\ m.iss.said = e.state.head
      /\ m.anc # None /\ e.anchor # None
      /\ [pre |-> m.anc.pre, sn |-> m.anc.sn, said |-> m.anc.said] = e.anchor
      /\ m.anc.seals = <<[i |-> m.acdc.said, s |-> m.iss.sn, d |-> m.iss.said]>>
  BY DEF Anchored
<1>2. e.state = HeadFor(h, m.acdc) /\ e.anchor = EventAt(h, m.anc)
  BY <1>1 DEF Supply
<1>3. e.state \in Accepted(h, "tel") /\ e.state.credential = m.acdc.said
  BY <1>1, <1>2, OneOfIsIn DEF HeadFor
<1>4. \E k \in Accepted(h, "event") : k.at = e.anchor
  BY <1>1, <1>2, OneOfIsIn DEF EventAt
<1> HIDE DEF e
<1> QED
  BY <1>1, <1>3, <1>4 DEF Evident

-----------------------------------------------------------------------------
(* A decision.                                                             *)

(* Whatever is decided opens a conversation or answers the head read.      *)
LEMMA DecideWell ==
  ASSUME LIInv, NEW h \in Hosts, NEW w \in Workers[h], NEW m \in Exns, Decide(h, w, m)
  PROVE  /\ DeskWell(h, desk'[h][w])
         /\ desk' = [desk EXCEPT ![h][w] = desk'[h][w]]
         /\ desk'[h][w] # None
         /\ UNCHANGED <<heads, trail, known, wire, crashes>>
<1> DEFINE c == ReadBy(h, m)
<1> DEFINE d == [exn |-> m, read |-> c, next |-> Following(h, m)]
<1>1. /\ desk' = [desk EXCEPT ![h][w] = d]
      /\ UNCHANGED <<heads, trail, known, wire, crashes>>
      /\ IpexDisposition(Verdict(h, m)) = "Accepted"
      /\ m \in wire \/ m.issuer = h
  BY DEF Decide, AtHand, Drafts
<1>2. Verdict(h, m) = "Ok"
  BY <1>1 DEF IpexDisposition
<1>3. desk'[h][w] = d
  BY <1>1 DEF LIInv, Types
<1>4. c \in Conversation \cup {None} /\ (c # None => c.root \in Roots)
  <2>1. Answered(h, m) # {} => RootOf(h, m) \in Roots
    BY DEF Answered, RootOf
  <2>2. \A r \in Roots : heads[h][r] # None => heads[h][r].root = r
    BY DEF LIInv, Local, HeadWell
  <2> QED
    BY <2>1, <2>2 DEF ReadBy, LIInv, Types
<1>5. CASE c = None
  <2>1. OpeningOf(m) /\ d.next = Begun(m)
    BY <1>2, <1>5, BeginPasses DEF Verdict, Following
  <2>2. d \in Decision
    BY <1>5, <2>1, BegunIsConversation DEF Decision
  <2> HIDE DEF c
  <2>3. d.exn = m /\ d.read = None /\ d # None
    BY <1>5, <2>2, NoDecision
  <2>4. d.next.root \in Roots
    BY <2>1, BegunIsConversation
  <2>5. DeskWell(h, d)
    BY <1>1, <2>1, <2>2, <2>3, <2>4 DEF DeskWell
  <2> QED
    BY <1>1, <1>3, <2>3, <2>5
<1>6. CASE c # None
  <2>1. IngestVerdict(c, m, Supply(h, c, m)) = "Ok" /\ d.next = Advanced(c, m)
    BY <1>2, <1>6 DEF Verdict, Following
  <2>2. AnswerTo(c, m) /\ (m.route = "grant" => GrantVerdict(c, m, Supply(h, c, m)) = "Ok")
    BY <2>1, IngestPasses
  <2>3. d \in Decision
    BY <1>4, <1>6, <2>1, <2>2, AdvancedIsConversation DEF Decision, AnswerTo
  <2>4. m.route = "grant" => Evident(h, m) /\ BoundToParties(m.acdc, c) = "Ok"
    <3> SUFFICES ASSUME m.route = "grant" PROVE Evident(h, m) /\ BoundToParties(m.acdc, c) = "Ok"
      OBVIOUS
    <3>1. BoundToParties(m.acdc, c) = "Ok" /\ Anchored(m, Supply(h, c, m)) = "Ok"
      BY <2>2, GrantPasses
    <3>2. m.acdc # None
      BY <2>2 DEF AnswerTo, Sound, Parsed
    <3> QED
      BY <3>1, <3>2, SuppliedIsEvident
  <2> HIDE DEF c
  <2>5. d.exn = m /\ d.read = c /\ d # None
    BY <2>3, NoDecision
  <2>6. d.next.root \in Roots
    BY <1>4, <1>6, <2>1, <2>2, AdvancedIsConversation DEF AnswerTo
  <2>7. DeskWell(h, d)
    BY <1>1, <1>6, <2>1, <2>2, <2>3, <2>4, <2>5, <2>6 DEF DeskWell
  <2> QED
    BY <1>1, <1>3, <2>5, <2>7
<1> QED
  BY <1>5, <1>6

-----------------------------------------------------------------------------
(* A commit.                                                               *)

(* What a commit that counts does: one conversation of one host grows.     *)
Grows(h, w, r, m) ==
  /\ r \in Roots /\ Sound(m)
  /\ heads[h][r] = desk[h][w].read
  /\ heads' = [heads EXCEPT ![h][r] = desk[h][w].next]
  /\ trail' = [trail EXCEPT ![h][r] = Append(@, m)]
  /\ wire' = wire \cup {m}
  /\ m \in wire \/ m.issuer = h
  /\ desk' = [desk EXCEPT ![h][w] = None]
  /\ UNCHANGED <<known, crashes>>
  /\ m = desk[h][w].exn /\ desk[h][w].next.root = r /\ desk[h][w] # None

(* One that does not only clears the desk.                                 *)
LEMMA CommitGrows ==
  ASSUME LIInv, NEW h \in Hosts, NEW w \in Workers[h], Commit(h, w)
  PROVE  \/ /\ desk' = [desk EXCEPT ![h][w] = None]
            /\ UNCHANGED <<heads, trail, known, wire, crashes>>
         \/ \E r \in Roots, m \in Exns : Grows(h, w, r, m)
<1> DEFINE d == desk[h][w]
<1> DEFINE r == d.next.root
<1>1. d # None /\ desk' = [desk EXCEPT ![h][w] = None] /\ UNCHANGED <<known, crashes>>
  BY DEF Commit
<1>2. DeskWell(h, d)
  BY DEF LIInv, Local
<1>3. d.exn \in wire \/ d.exn.issuer = h
  BY <1>1, <1>2 DEF DeskWell
<1>4. CASE heads[h][r] # d.read
  BY <1>1, <1>4 DEF Commit
<1>5. CASE heads[h][r] = d.read
  <2>1. /\ heads' = [heads EXCEPT ![h][r] = d.next]
        /\ trail' = [trail EXCEPT ![h][r] = Append(@, d.exn)]
        /\ wire' = wire \cup {d.exn}
    BY <1>5 DEF Commit
  <2>2. Sound(d.exn)
    BY <1>1, <1>2 DEF DeskWell, OpeningOf, AnswerTo
  <2>3. r \in Roots
    BY <1>1, <1>2 DEF DeskWell
  <2>4. d.exn \in Exns
    BY <2>2 DEF Sound
  <2> QED
    BY <1>1, <1>3, <1>5, <2>1, <2>2, <2>3, <2>4 DEF Grows
<1> QED
  BY <1>4, <1>5

LEMMA AppendedTalk ==
  ASSUME NEW talk \in Seq(Exns), NEW m \in Exns
  PROVE  /\ Append(talk, m) \in Seq(Exns)
         /\ Len(talk) \in Nat /\ Len(Append(talk, m)) = Len(talk) + 1
         /\ \A i \in 1..Len(talk) : Append(talk, m)[i] = talk[i]
         /\ Append(talk, m)[Len(talk) + 1] = m
         /\ Append(talk, m) # <<>>
         /\ talk # <<>> => Len(talk) >= 1
         /\ talk = <<>> <=> Len(talk) = 0
<1>1. Append(talk, m) \in Seq(Exns) /\ Len(talk) \in Nat /\ Len(Append(talk, m)) = Len(talk) + 1
  OBVIOUS
<1>2. talk = <<>> <=> Len(talk) = 0
  BY EmptySeq
<1>3. Append(talk, m) # <<>>
  BY <1>1, EmptySeq
<1> QED
  BY <1>1, <1>2, <1>3

(* An opening founds a conversation and its head.                          *)
LEMMA OpenedIsWell ==
  ASSUME NEW h, NEW r, NEW m, OpeningOf(m), m.said = r
  PROVE  TalkWell(h, Append(<<>>, m), r) /\ HeadWell(Begun(m), Append(<<>>, m), r)
<1> DEFINE new == Append(<<>>, m)
<1>1. new # <<>> /\ Len(new) = 1 /\ new[1] = m
  OBVIOUS
<1>2. m.route = "apply" /\ Sound(m)
  BY DEF OpeningOf
<1>3. Begun(m) # None
  BY BegunIsConversation, ExchangeAssumption
<1> HIDE DEF new
<1>4. TalkWell(h, new, r)
  BY <1>1, <1>2 DEF TalkWell
<1>5. HeadWell(Begun(m), new, r)
  BY <1>1, <1>2, <1>3 DEF HeadWell, Begun
<1> QED
  BY <1>4, <1>5 DEF new

(* An answer to the head goes on with the conversation and its head.       *)
LEMMA AnsweredIsWell ==
  ASSUME NEW h, NEW r, NEW talk \in Seq(Exns), NEW c \in Conversation, NEW m,
         TalkWell(h, talk, r), HeadWell(c, talk, r), AnswerTo(c, m),
         m.route = "grant" => Evident(h, m) /\ BoundToParties(m.acdc, c) = "Ok"
  PROVE  TalkWell(h, Append(talk, m), r) /\ HeadWell(Advanced(c, m), Append(talk, m), r)
<1> DEFINE new == Append(talk, m)
<1> DEFINE n == Len(talk)
<1>1. c # None /\ talk # <<>> /\ Sound(m) /\ m \in Exns
  BY ExchangeAssumption DEF HeadWell, AnswerTo, Sound
<1>2. /\ n \in Nat /\ n >= 1 /\ Len(new) = n + 1 /\ new # <<>>
      /\ \A i \in 1..n : new[i] = talk[i]
      /\ new[n + 1] = m
  BY <1>1, AppendedTalk
<1>3. /\ c.root = r
      /\ c.applicant = talk[1].issuer /\ c.issuer = talk[1].recipient
      /\ c.schema = talk[1].schema
      /\ c.latest = talk[n].said /\ c.route = talk[n].route /\ c.last = talk[n].issuer
      /\ c.route = "apply" => n = 1
      /\ c.route \in {"offer", "agree"} =>
           n >= 2 /\ talk[2].route = "offer" /\ c.offered = talk[2].acdc.said
  BY <1>1 DEF HeadWell
<1>4. /\ m.prior = talk[n].said /\ m.issuer = Other(talk[1], talk[n].issuer)
      /\ <<c.route, m.route>> \in
           {<<"apply", "offer">>, <<"offer", "agree">>, <<"agree", "grant">>, <<"grant", "admit">>}
           \cup ({"apply", "offer", "agree", "grant"} \X {"spurn"})
      /\ m.route = "grant" => m.acdc.said = c.offered
  BY <1>3 DEF AnswerTo, ExpectedSender, Other, AllowedResponse
<1>5. /\ m.route = "offer" => c.route = "apply"
      /\ m.route = "agree" => c.route = "offer"
      /\ m.route = "grant" => c.route = "agree"
      /\ m.route # "apply"
  BY <1>4
<1>6. new[1] = talk[1] /\ (n >= 2 => new[2] = talk[2])
  BY <1>2
<1>7. \A i \in 1..(n + 1) : i \in 1..n \/ i = n + 1
  BY <1>2
<1> HIDE DEF new, n
<1>8. TalkWell(h, new, r)
  <2>1. /\ \A i \in 1..n : Sound(talk[i])
        /\ OpeningOf(talk[1]) /\ talk[1].said = r
        /\ \A i \in 2..n : talk[i].prior = talk[i - 1].said
                           /\ talk[i].issuer = Other(talk[1], talk[i - 1].issuer)
        /\ \A i \in 1..n :
             talk[i].route = "grant" =>
               /\ i > 2 /\ talk[2].route = "offer" /\ talk[i].acdc.said = talk[2].acdc.said
               /\ Fits(talk[i].acdc, talk[1])
               /\ Evident(h, talk[i])
    BY <1>1 DEF TalkWell, n
  <2>2. \A i \in 1..(n + 1) : Sound(new[i])
    BY <1>1, <1>2, <1>7, <2>1
  <2>3. \A i \in 2..(n + 1) : /\ new[i].prior = new[i - 1].said
                              /\ new[i].issuer = Other(new[1], new[i - 1].issuer)
    <3> SUFFICES ASSUME NEW i \in 2..(n + 1)
                 PROVE  /\ new[i].prior = new[i - 1].said
                        /\ new[i].issuer = Other(new[1], new[i - 1].issuer)
      OBVIOUS
    <3>1. i - 1 \in 1..n /\ new[i - 1] = talk[i - 1]
      BY <1>2
    <3>2. CASE i \in 2..n
      BY <1>2, <1>6, <2>1, <3>1, <3>2
    <3>3. CASE i = n + 1
      BY <1>2, <1>4, <1>6, <3>1, <3>3
    <3> QED
      BY <1>2, <3>2, <3>3
  <2>4. m.route = "grant" =>
          /\ n + 1 > 2 /\ talk[2].route = "offer" /\ m.acdc.said = talk[2].acdc.said
          /\ Fits(m.acdc, talk[1])
          /\ Evident(h, m)
    BY <1>2, <1>3, <1>4, <1>5 DEF BoundToParties, Fits
  <2>5. \A i \in 1..(n + 1) :
          new[i].route = "grant" =>
            /\ i > 2 /\ new[2].route = "offer" /\ new[i].acdc.said = new[2].acdc.said
            /\ Fits(new[i].acdc, new[1])
            /\ Evident(h, new[i])
    <3> SUFFICES ASSUME NEW i \in 1..(n + 1), new[i].route = "grant"
                 PROVE  /\ i > 2 /\ new[2].route = "offer" /\ new[i].acdc.said = new[2].acdc.said
                        /\ Fits(new[i].acdc, new[1])
                        /\ Evident(h, new[i])
      OBVIOUS
    <3>1. CASE i \in 1..n
      <4>1. new[i] = talk[i] /\ i > 2
        BY <1>2, <2>1, <3>1
      <4>2. n >= 2
        BY <1>2, <3>1, <4>1
      <4> QED
        BY <1>6, <2>1, <3>1, <4>1, <4>2
    <3>2. CASE i = n + 1
      BY <1>2, <1>6, <2>4, <3>2
    <3> QED
      BY <1>7, <3>1, <3>2
  <2> QED
    BY <1>2, <1>6, <2>1, <2>2, <2>3, <2>5 DEF TalkWell
<1>9. HeadWell(Advanced(c, m), new, r)
  <2> DEFINE a == Advanced(c, m)
  <2>1. /\ a \in Conversation /\ a.root = c.root
        /\ a.latest = m.said /\ a.route = m.route
        /\ a.last = m.issuer /\ a.applicant = c.applicant
        /\ a.issuer = c.issuer /\ a.schema = c.schema
        /\ a.offered = IF m.route = "offer" THEN m.acdc.said ELSE c.offered
    BY <1>1, AdvancedIsConversation
  <2> HIDE DEF a
  <2>2. a # None
    BY <2>1, ExchangeAssumption
  <2>3. m.route = "offer" => n = 1
    BY <1>3, <1>5
  <2>4. m.route \in {"offer", "agree"} =>
          n + 1 >= 2 /\ new[2].route = "offer" /\ a.offered = new[2].acdc.said
    BY <1>2, <1>3, <1>5, <1>6, <2>1, <2>3
  <2>5. m.route # "apply"
    BY <1>5
  <2> QED
    BY <1>2, <1>3, <1>6, <2>1, <2>2, <2>4, <2>5 DEF HeadWell, a
<1> QED
  BY <1>8, <1>9 DEF new

-----------------------------------------------------------------------------
(* Every step keeps the invariant.                                         *)

(* Evidence is never forgotten.                                            *)
LEMMA EvidentStays ==
  ASSUME NEW h, known[h] \subseteq known'[h], NEW m, Evident(h, m)
  PROVE  Evident(h, m)'
<1>1. \A kind : Accepted(h, kind) \subseteq Accepted(h, kind)'
  BY DEF Accepted
<1> QED
  BY <1>1 DEF Evident

(* What is stored of the others, and what lies on the desks.               *)
LEMMA TalkStays ==
  ASSUME Local, NEW h \in Hosts, NEW r \in Roots, known[h] \subseteq known'[h],
         trail'[h][r] = trail[h][r], heads'[h][r] = heads[h][r]
  PROVE  (TalkWell(h, trail[h][r], r) /\ HeadWell(heads[h][r], trail[h][r], r))'
<1>1. TalkWell(h, trail[h][r], r) /\ HeadWell(heads[h][r], trail[h][r], r)
  BY DEF Local
<1>2. \A i \in 1..Len(trail[h][r]) : Evident(h, trail[h][r][i]) => Evident(h, trail[h][r][i])'
  BY EvidentStays
<1> QED
  BY <1>1, <1>2 DEF TalkWell, HeadWell

LEMMA DeskStays ==
  ASSUME Local, NEW h \in Hosts, NEW w \in Workers[h], known[h] \subseteq known'[h],
         wire \subseteq wire', desk'[h][w] = desk[h][w]
  PROVE  DeskWell(h, desk[h][w])'
<1> DEFINE d == desk[h][w]
<1>1. DeskWell(h, d)
  BY DEF Local
<1>2. Evident(h, d.exn) => Evident(h, d.exn)'
  BY EvidentStays
<1> QED
  BY <1>1, <1>2 DEF DeskWell

(* The one conversation that a commit adds to.                             *)
LEMMA GrownTalk ==
  ASSUME LIInv, NEW h \in Hosts, NEW w \in Workers[h], NEW r \in Roots, NEW m \in Exns,
         Grows(h, w, r, m)
  PROVE  /\ trail'[h][r] = Append(trail[h][r], m)
         /\ heads'[h][r] = desk[h][w].next /\ heads'[h][r] \in Conversation
         /\ (TalkWell(h, trail[h][r], r) /\ HeadWell(heads[h][r], trail[h][r], r))'
<1> DEFINE d == desk[h][w]
<1> DEFINE talk == trail[h][r]
<1> DEFINE new == Append(talk, m)
<1>1. /\ talk \in Seq(Exns) /\ TalkWell(h, talk, r) /\ HeadWell(heads[h][r], talk, r)
      /\ DeskWell(h, d) /\ d # None
  BY DEF LIInv, Types, Local, Grows
<1>2. trail'[h][r] = new /\ heads'[h][r] = d.next /\ known' = known
  BY DEF LIInv, Types, Grows
<1>3. m = d.exn /\ d.read = heads[h][r] /\ d.next.root = r /\ d \in Decision
  BY <1>1 DEF Grows, DeskWell
<1>4. d.next \in Conversation
  BY <1>3 DEF Decision
<1>5. TalkWell(h, new, r) /\ HeadWell(d.next, new, r)
  <2>1. CASE d.read = None
    <3>1. OpeningOf(m) /\ d.next = Begun(m)
      BY <1>1, <1>3, <2>1 DEF DeskWell
    <3>2. m.said = r /\ talk = <<>>
      BY <1>1, <1>3, <2>1, <3>1, BegunIsConversation DEF HeadWell
    <3> QED
      BY <3>1, <3>2, OpenedIsWell
  <2>2. CASE d.read # None
    <3>1. d.read \in Conversation
      BY <1>3, <2>2 DEF Decision
    <3>2. /\ AnswerTo(d.read, m) /\ d.next = Advanced(d.read, m)
          /\ m.route = "grant" => Evident(h, m) /\ BoundToParties(m.acdc, d.read) = "Ok"
      BY <1>1, <1>3, <2>2 DEF DeskWell
    <3> HIDE DEF d, talk
    <3> QED
      BY <1>1, <1>3, <3>1, <3>2, AnsweredIsWell
  <2> QED
    BY <2>1, <2>2
<1>6. \A x : Evident(h, x) <=> Evident(h, x)'
  BY <1>2 DEF Evident, Accepted
<1> HIDE DEF new
<1>7. TalkWell(h, trail[h][r], r)' /\ HeadWell(heads[h][r], trail[h][r], r)'
  BY <1>2, <1>5, <1>6 DEF TalkWell, HeadWell
<1> QED
  BY <1>2, <1>4, <1>7 DEF new

LEMMA GrowsKeeps ==
  ASSUME LIInv, NEW h \in Hosts, NEW w \in Workers[h], NEW r \in Roots, NEW m \in Exns,
         Grows(h, w, r, m)
  PROVE  LIInv'
<1>1. /\ trail'[h][r] = Append(trail[h][r], m)
      /\ heads'[h][r] \in Conversation
      /\ (TalkWell(h, trail[h][r], r) /\ HeadWell(heads[h][r], trail[h][r], r))'
  BY GrownTalk
<1>2. \A i \in Hosts, s \in Roots :
        i # h \/ s # r => trail'[i][s] = trail[i][s] /\ heads'[i][s] = heads[i][s]
  BY DEF Grows, LIInv, Types
<1>3. \A i \in Hosts, s \in Roots :
        (TalkWell(i, trail[i][s], s) /\ HeadWell(heads[i][s], trail[i][s], s))'
  <2> SUFFICES ASSUME NEW i \in Hosts, NEW s \in Roots
               PROVE  (TalkWell(i, trail[i][s], s) /\ HeadWell(heads[i][s], trail[i][s], s))'
    OBVIOUS
  <2>1. CASE i = h /\ s = r
    BY <1>1, <2>1
  <2>2. CASE i # h \/ s # r
    BY <1>2, <2>2, TalkStays DEF LIInv, Grows
  <2> QED
    BY <2>1, <2>2
<1>4. \A i \in Hosts : \A v \in Workers[i] : DeskWell(i, desk[i][v])'
  <2> SUFFICES ASSUME NEW i \in Hosts, NEW v \in Workers[i] PROVE DeskWell(i, desk[i][v])'
    OBVIOUS
  <2>1. CASE desk'[i][v] = None
    BY <2>1 DEF DeskWell
  <2>2. CASE desk'[i][v] = desk[i][v]
    BY <2>2, DeskStays DEF LIInv, Grows
  <2> QED
    BY <2>1, <2>2 DEF Grows, LIInv, Types
<1>5. Types'
  <2>1. heads' \in [Hosts -> [Roots -> Conversation \cup {None}]]
    BY <1>1 DEF Grows, LIInv, Types
  <2>2. trail' \in [Hosts -> [Roots -> Seq(Exns)]]
    <3>1. trail[h][r] \in Seq(Exns)
      BY DEF LIInv, Types
    <3>2. Append(trail[h][r], m) \in Seq(Exns)
      BY <3>1, AppendedTalk
    <3> QED
      BY <3>2 DEF Grows, LIInv, Types
  <2> QED
    BY <2>1, <2>2 DEF Grows, LIInv, Types
<1> QED
  BY <1>3, <1>4, <1>5 DEF LIInv, Local

(* A step that stores nothing, adds to what is known and leaves each desk  *)
(* as it was, cleared or rightly decided.                                  *)
LEMMA QuietKeeps ==
  ASSUME LIInv, UNCHANGED <<heads, trail, wire>>,
         (DOMAIN known = Hosts)', (DOMAIN desk = Hosts)', (crashes \in 0..MaxCrashes)',
         \A h \in Hosts : known[h] \subseteq known'[h] /\ known'[h] \subseteq Facts[h],
         \A h \in Hosts : DOMAIN desk'[h] = Workers[h] /\ desk'[h] = [w \in Workers[h] |-> desk'[h][w]],
         \A h \in Hosts : \A w \in Workers[h] :
           desk'[h][w] \in {None, desk[h][w]} \/ DeskWell(h, desk[h][w])'
  PROVE  LIInv'
<1>1. \A h \in Hosts, r \in Roots :
        (TalkWell(h, trail[h][r], r) /\ HeadWell(heads[h][r], trail[h][r], r))'
  BY TalkStays DEF LIInv
<1>2. \A h \in Hosts : \A w \in Workers[h] : DeskWell(h, desk[h][w])'
  <2> SUFFICES ASSUME NEW h \in Hosts, NEW w \in Workers[h] PROVE DeskWell(h, desk[h][w])'
    OBVIOUS
  <2>1. CASE desk'[h][w] = None
    BY <2>1 DEF DeskWell
  <2>2. CASE desk'[h][w] = desk[h][w]
    BY <2>2, DeskStays DEF LIInv
  <2> QED
    BY <2>1, <2>2
<1>3. \A h \in Hosts : \A w \in Workers[h] : desk'[h][w] \in Decision \cup {None}
  BY <1>2 DEF DeskWell
<1>4. \A h \in Hosts : desk'[h] \in [Workers[h] -> Decision \cup {None}]
  BY <1>3
<1> QED
  BY <1>1, <1>2, <1>4 DEF LIInv, Types, Local

LEMMA InitLIInv == Init => LIInv
<1> SUFFICES ASSUME Init PROVE LIInv
  OBVIOUS
<1>1. <<>> \in Seq(Exns) /\ Len(<<>>) = 0
  OBVIOUS
<1>2. Types
  BY <1>1, ExchangeAssumption DEF Init, Types
<1>3. \A h \in Hosts, r \in Roots : heads[h][r] = None /\ trail[h][r] = <<>>
  BY DEF Init
<1>4. \A h \in Hosts, r \in Roots :
        TalkWell(h, trail[h][r], r) /\ HeadWell(heads[h][r], trail[h][r], r)
  BY <1>1, <1>3 DEF TalkWell, HeadWell
<1>5. \A h \in Hosts : \A w \in Workers[h] : DeskWell(h, desk[h][w])
  BY DEF Init, DeskWell
<1> QED
  BY <1>2, <1>4, <1>5 DEF LIInv, Local

LEMMA NextLIInv == LIInv /\ [Next]_vars => LIInv'
<1> SUFFICES ASSUME LIInv, [Next]_vars PROVE LIInv'
  OBVIOUS
<1>1. CASE UNCHANGED vars
  BY <1>1, QuietKeeps DEF LIInv, Types, vars, durable
<1>2. ASSUME NEW h \in Hosts, NEW w \in Workers[h], Commit(h, w)
      PROVE  LIInv'
  <2>1. CASE /\ desk' = [desk EXCEPT ![h][w] = None]
             /\ UNCHANGED <<heads, trail, known, wire, crashes>>
    BY <2>1, QuietKeeps DEF LIInv, Types
  <2>2. CASE \E r \in Roots, m \in Exns : Grows(h, w, r, m)
    BY <2>2, GrowsKeeps
  <2> QED
    BY <1>2, <2>1, <2>2, CommitGrows
<1>3. ASSUME NEW h \in Hosts, NEW w \in Workers[h], NEW m \in Exns, Decide(h, w, m)
      PROVE  LIInv'
  <2>1. /\ DeskWell(h, desk'[h][w])
        /\ desk' = [desk EXCEPT ![h][w] = desk'[h][w]]
        /\ UNCHANGED <<heads, trail, known, wire, crashes>>
    BY <1>3, DecideWell
  <2>2. DeskWell(h, desk[h][w])'
    BY <2>1 DEF DeskWell, Evident, Accepted
  <2>3. \A i \in Hosts : \A v \in Workers[i] :
          desk'[i][v] \in {None, desk[i][v]} \/ DeskWell(i, desk[i][v])'
    <3> SUFFICES ASSUME NEW i \in Hosts, NEW v \in Workers[i], i # h \/ v # w
                 PROVE  desk'[i][v] = desk[i][v]
      BY <2>2
    <3>1. DOMAIN desk = Hosts /\ desk[h] \in [Workers[h] -> Decision \cup {None}]
      BY DEF LIInv, Types
    <3> QED
      BY <2>1, <3>1
  <2>4. \A i \in Hosts : /\ DOMAIN desk'[i] = Workers[i]
                         /\ desk'[i] = [v \in Workers[i] |-> desk'[i][v]]
    <3>1. \A i \in Hosts : DOMAIN desk[i] = Workers[i] /\ desk[i] = [v \in Workers[i] |-> desk[i][v]]
      BY DEF LIInv, Types
    <3> HIDE DEF DeskWell
    <3> QED
      BY <2>1, <3>1 DEF LIInv, Types
  <2>5. (DOMAIN desk = Hosts)'
    BY <2>1 DEF LIInv, Types
  <2> QED
    BY <2>1, <2>3, <2>4, <2>5, QuietKeeps DEF LIInv, Types
<1>4. ASSUME NEW h \in Hosts, NEW f \in Facts[h], Learn(h, f)
      PROVE  LIInv'
  BY <1>4, QuietKeeps DEF Learn, durable, LIInv, Types
<1>5. ASSUME NEW h \in Hosts, Crash(h)
      PROVE  LIInv'
  BY <1>5, QuietKeeps, ExchangeAssumption DEF Crash, durable, LIInv, Types
<1> QED
  BY <1>1, <1>2, <1>3, <1>4, <1>5 DEF Next

(* The conversations and decisions are right on their own.                 *)
THEOREM LocalInvariant == Spec => []LIInv
BY InitLIInv, NextLIInv, PTL DEF Spec

(* What a host stores keeps its shape, and head and replay marker are      *)
(* never apart, however workers race and hosts crash.                      *)
THEOREM TypeCorrect == Spec => []TypeOK
<1>1. LIInv => TypeOK
  <2> SUFFICES ASSUME LIInv PROVE TypeOK
    OBVIOUS
  <2>1. \A h \in Hosts, r \in Roots : StoredTogether(heads[h][r], trail[h][r])
    BY DEF LIInv, Local, HeadWell, StoredTogether
  <2> QED
    BY <2>1 DEF LIInv, Types, TypeOK
<1> QED
  BY LocalInvariant, <1>1, PTL

(* A grant that a host accepted is of the credential offered to the        *)
(* applicant, by whom and as it was asked for, at the accepted issuance    *)
(* and sealed by the accepted event.                                       *)
THEOREM AlwaysGrantedAsOffered == Spec => []GrantedAsOffered
<1>1. LIInv => GrantedAsOffered
  <2> SUFFICES ASSUME LIInv, NEW h \in Hosts, NEW r \in Roots,
                      NEW i \in DOMAIN trail[h][r], trail[h][r][i].route = "grant"
               PROVE  LET m == trail[h][r][i]
                          opening == trail[h][r][1]
                      IN  /\ m.acdc.issuee = opening.issuer
                          /\ m.acdc.issuer = opening.recipient
                          /\ m.acdc.schema = opening.schema
                          /\ \E j \in 1..(i - 1) : /\ trail[h][r][j].route = "offer"
                                                   /\ trail[h][r][j].acdc = m.acdc
                          /\ Evident(h, m)
    BY DEF GrantedAsOffered, Evident
  <2> DEFINE talk == trail[h][r]
  <2>1. talk \in Seq(Exns) /\ TalkWell(h, talk, r)
    BY DEF LIInv, Types, Local
  <2>2. Len(talk) \in Nat /\ i \in 1..Len(talk)
    BY <2>1
  <2>3. /\ i > 2 /\ talk[2].route = "offer" /\ talk[i].acdc.said = talk[2].acdc.said
        /\ Fits(talk[i].acdc, talk[1]) /\ Evident(h, talk[i])
        /\ Sound(talk[i]) /\ Sound(talk[2])
    BY <2>1, <2>2 DEF TalkWell
  <2>4. talk[i].acdc = talk[2].acdc
    BY <2>3, CredentialSaidsName DEF Sound, Parsed
  <2>5. 2 \in 1..(i - 1)
    BY <2>2, <2>3
  <2> QED
    BY <2>3, <2>4, <2>5 DEF Fits
<1> QED
  BY LocalInvariant, <1>1, PTL

-----------------------------------------------------------------------------
(* What the hosts share.                                                   *)

(* Conversations are between two of the hosts.                             *)
AmongHosts ==
  \A m \in Exns : m.route = "apply" => m.issuer \in Hosts /\ m.recipient \in Hosts

Places(h, r) == 1..Len(trail[h][r])

(* A SAID has one place in one conversation.                               *)
Unique ==
  \A h, q \in Hosts, r, s \in Roots : \A i \in Places(h, r), j \in Places(q, s) :
    trail[h][r][i].said = trail[q][s][j].said => r = s /\ i = j

(* No two hosts disagree about a place both have filled.                   *)
Agree ==
  \A h, q \in Hosts, r \in Roots : \A i \in Places(h, r) :
    i \in Places(q, r) => trail[h][r][i] = trail[q][r][i]

(* What any host has accepted its sender has stored.                       *)
Spoken ==
  \A h, q \in Hosts, r \in Roots : \A i \in Places(h, r) :
    trail[h][r][i].issuer = q => \E j \in Places(q, r) : trail[q][r][j] = trail[h][r][i]

(* What a host's keys signed on the wire the host has stored.              *)
Carried ==
  \A m \in wire : m.issuer \in Hosts /\ m.signed = "enough" =>
    \E r \in Roots : \E j \in Places(m.issuer, r) : trail[m.issuer][r][j] = m

Shared == Unique /\ Agree /\ Spoken /\ Carried

(* What may come next in a conversation.                                   *)
Follows(talk, r, m) ==
  /\ Sound(m)
  /\ talk = <<>> => OpeningOf(m) /\ m.said = r
  /\ talk # <<>> =>
       /\ m.prior = talk[Len(talk)].said
       /\ m.issuer = Other(talk[1], talk[Len(talk)].issuer)
       /\ m.route \in Promise!Responses(talk[Len(talk)].route)
       /\ m.route = "grant" => m.acdc.said = talk[2].acdc.said

LEMMA GrowsFollows ==
  ASSUME LIInv, NEW h \in Hosts, NEW w \in Workers[h], NEW r \in Roots, NEW m \in Exns,
         Grows(h, w, r, m)
  PROVE  Follows(trail[h][r], r, m)
<1> DEFINE d == desk[h][w]
<1> DEFINE talk == trail[h][r]
<1>1. /\ talk \in Seq(Exns) /\ TalkWell(h, talk, r) /\ HeadWell(heads[h][r], talk, r)
      /\ DeskWell(h, d) /\ d # None
  BY DEF LIInv, Types, Local, Grows
<1>2. m = d.exn /\ d.read = heads[h][r] /\ d.next.root = r /\ Sound(m)
  BY <1>1 DEF Grows
<1>3. CASE d.read = None
  <2>1. OpeningOf(m) /\ d.next = Begun(m) /\ talk = <<>>
    BY <1>1, <1>2, <1>3 DEF DeskWell, HeadWell
  <2> QED
    BY <1>2, <2>1, BegunIsConversation DEF Follows
<1>4. CASE d.read # None
  <2> DEFINE c == d.read
  <2>1. AnswerTo(c, m) /\ HeadWell(c, talk, r)
    BY <1>1, <1>2, <1>4 DEF DeskWell
  <2> HIDE DEF c, d
  <2>2. /\ talk # <<>> /\ c.latest = talk[Len(talk)].said /\ c.route = talk[Len(talk)].route
        /\ c.last = talk[Len(talk)].issuer
        /\ c.applicant = talk[1].issuer /\ c.issuer = talk[1].recipient
        /\ c.route \in {"offer", "agree"} => c.offered = talk[2].acdc.said
    BY <1>4, <2>1 DEF HeadWell, c
  <2>3. <<c.route, m.route>> \in
          {<<"apply", "offer">>, <<"offer", "agree">>, <<"agree", "grant">>, <<"grant", "admit">>}
          \cup ({"apply", "offer", "agree", "grant"} \X {"spurn"})
    BY <2>1 DEF AnswerTo, AllowedResponse
  <2>4. m.route \in Promise!Responses(c.route)
    BY <2>3 DEF Promise!Responses
  <2>5. m.route = "grant" => m.acdc.said = talk[2].acdc.said
    BY <2>1, <2>2, <2>3 DEF AnswerTo
  <2>6. m.prior = talk[Len(talk)].said /\ m.issuer = Other(talk[1], talk[Len(talk)].issuer)
    BY <2>1, <2>2 DEF AnswerTo, ExpectedSender, Other
  <2> QED
    BY <1>2, <2>2, <2>4, <2>5, <2>6 DEF Follows
<1> QED
  BY <1>3, <1>4

(* A message that may come next has no other place.                        *)
LEMMA Placed ==
  ASSUME LIInv, Unique, NEW h \in Hosts, NEW r \in Roots, NEW m, Follows(trail[h][r], r, m),
         NEW q \in Hosts, NEW s \in Roots, NEW j \in Places(q, s), trail[q][s][j].said = m.said
  PROVE  s = r /\ j = Len(trail[h][r]) + 1 /\ trail[q][s][j] = m
<1> DEFINE talk == trail[h][r]
<1> DEFINE other == trail[q][s]
<1>1. /\ talk \in Seq(Exns) /\ other \in Seq(Exns)
      /\ TalkWell(h, talk, r) /\ TalkWell(q, other, s)
  BY DEF LIInv, Types, Local
<1>2. Len(talk) \in Nat /\ Len(other) \in Nat /\ j \in 1..Len(other)
  BY <1>1 DEF Places
<1>3. other[j] = m
  BY <1>1, <1>2, SoundBySaid DEF TalkWell, Follows
<1>4. CASE talk = <<>>
  <2>1. OpeningOf(m) /\ m.said = r /\ Len(talk) = 0
    BY <1>4 DEF Follows
  <2>2. j = 1
    <3> SUFFICES ASSUME j \in 2..Len(other) PROVE FALSE
      BY <1>2
    <3>1. m.prior = other[j - 1].said /\ j - 1 \in 1..Len(other)
      BY <1>1, <1>2, <1>3 DEF TalkWell
    <3>2. other[j - 1] \in Exns
      BY <1>1, <3>1
    <3>3. other[j - 1].said # None
      BY <3>2, ExchangeAssumption DEF Exn
    <3> QED
      BY <2>1, <3>1, <3>3 DEF OpeningOf
  <2>3. other # <<>>
    BY <1>2
  <2>4. other[1].said = s
    BY <1>1, <2>3 DEF TalkWell
  <2> QED
    BY <1>3, <2>1, <2>2, <2>4
<1>5. CASE talk # <<>>
  <2>1. m.prior = talk[Len(talk)].said /\ Len(talk) \in 1..Len(talk)
    BY <1>1, <1>5, AppendedTalk, EmptySeq DEF Follows
  <2>2. m.prior # None
    <3>1. talk[Len(talk)] \in Exns
      BY <1>1, <2>1
    <3> QED
      BY <2>1, <3>1, ExchangeAssumption DEF Exn
  <2>3. j # 1
    <3> SUFFICES ASSUME j = 1 PROVE FALSE
      OBVIOUS
    <3>1. other # <<>>
      BY <1>2
    <3> QED
      BY <1>1, <1>3, <2>2, <3>1 DEF TalkWell, OpeningOf
  <2>4. j - 1 \in 1..Len(other) /\ m.prior = other[j - 1].said
    BY <1>1, <1>2, <1>3, <2>3 DEF TalkWell
  <2>5. r = s /\ Len(talk) = j - 1
    <3> DEFINE n == Len(talk)
    <3> DEFINE k == j - 1
    <3>1. n \in Places(h, r) /\ k \in Places(q, s) /\ trail[h][r][n].said = trail[q][s][k].said
      BY <2>1, <2>4 DEF Places
    <3> HIDE DEF n, k
    <3>2. r = s /\ n = k
      BY <3>1 DEF Unique
    <3> QED
      BY <3>2 DEF n, k
  <2> QED
    BY <1>2, <1>3, <2>5
<1> QED
  BY <1>4, <1>5

(* Who speaks in a conversation is one of the hosts.                       *)
LEMMA SpeakersAreHosts ==
  ASSUME AmongHosts, LIInv, NEW h \in Hosts, NEW r \in Roots
  PROVE  /\ \A i \in Places(h, r) : trail[h][r][i].issuer \in {trail[h][r][1].issuer, trail[h][r][1].recipient}
         /\ trail[h][r] # <<>> => /\ trail[h][r][1].issuer \in Hosts
                                  /\ trail[h][r][1].recipient \in Hosts
                                  /\ trail[h][r][1].issuer # trail[h][r][1].recipient
<1> DEFINE talk == trail[h][r]
<1>1. talk \in Seq(Exns) /\ TalkWell(h, talk, r)
  BY DEF LIInv, Types, Local
<1>2. \A i \in 1..Len(talk) : i = 1 \/ i \in 2..Len(talk)
  BY <1>1
<1>3. \A i \in 1..Len(talk) : talk[i].issuer \in {talk[1].issuer, talk[1].recipient}
  BY <1>1, <1>2 DEF TalkWell, Other
<1>4. talk # <<>> => OpeningOf(talk[1])
  BY <1>1 DEF TalkWell
<1> QED
  BY <1>3, <1>4 DEF AmongHosts, OpeningOf, Sound, Places

(* The next speaker.                                                       *)
LEMMA NextSpeaker ==
  ASSUME AmongHosts, LIInv, NEW h \in Hosts, NEW r \in Roots, NEW m, Follows(trail[h][r], r, m)
  PROVE  /\ m.issuer \in Hosts
         /\ trail[h][r] # <<>> => m.issuer # trail[h][r][Len(trail[h][r])].issuer
<1> DEFINE talk == trail[h][r]
<1>1. CASE talk = <<>>
  BY <1>1 DEF Follows, OpeningOf, Sound, AmongHosts
<1>2. CASE talk # <<>>
  <2>1. talk \in Seq(Exns)
    BY DEF LIInv, Types
  <2>2. Len(talk) \in Places(h, r)
    BY <1>2, <2>1, EmptySeq DEF Places
  <2>3. /\ talk[Len(talk)].issuer \in {talk[1].issuer, talk[1].recipient}
        /\ talk[1].issuer \in Hosts /\ talk[1].recipient \in Hosts
        /\ talk[1].issuer # talk[1].recipient
    BY <1>2, <2>2, SpeakersAreHosts
  <2> QED
    BY <1>2, <2>3 DEF Follows, Other
<1> QED
  BY <1>1, <1>2

(* What a host says next nobody has heard yet.                             *)
LEMMA NobodyAhead ==
  ASSUME AmongHosts, LIInv, Shared, NEW h \in Hosts, NEW r \in Roots, NEW m,
         Follows(trail[h][r], r, m), m.issuer = h, NEW q \in Hosts
  PROVE  Len(trail[q][r]) <= Len(trail[h][r])
<1> DEFINE talk == trail[h][r]
<1> DEFINE other == trail[q][r]
<1> DEFINE n == Len(talk)
<1> SUFFICES ASSUME Len(other) > n PROVE FALSE
  <2>1. Len(other) \in Nat /\ n \in Nat
    BY DEF LIInv, Types
  <2> QED
    BY <2>1
<1>1. /\ talk \in Seq(Exns) /\ other \in Seq(Exns)
      /\ TalkWell(h, talk, r) /\ TalkWell(q, other, r)
  BY DEF LIInv, Types, Local
<1>2. Len(other) \in Nat /\ n \in Nat /\ n + 1 \in 1..Len(other) /\ n + 1 \in Places(q, r)
  BY <1>1 DEF Places
<1> DEFINE x == other[n + 1]
<1>3. x.issuer = h
  <2>1. CASE talk = <<>>
    <3>1. n = 0 /\ OpeningOf(m) /\ m.said = r /\ other # <<>>
      BY <1>2, <2>1 DEF Follows
    <3>2. OpeningOf(other[1]) /\ other[1].said = r
      BY <1>1, <3>1 DEF TalkWell
    <3>3. other[1] = m
      BY <3>1, <3>2, SoundBySaid DEF OpeningOf
    <3> QED
      BY <3>1, <3>3
  <2>2. CASE talk # <<>>
    <3>1. n \in 1..n /\ 1 \in 1..n
      BY <1>1, <1>2, <2>2, EmptySeq
    <3>2. n \in Places(h, r) /\ 1 \in Places(h, r) /\ n \in Places(q, r) /\ 1 \in Places(q, r)
      BY <1>2, <3>1 DEF Places
    <3>3. other[n] = talk[n] /\ other[1] = talk[1]
      BY <3>2 DEF Shared, Agree
    <3>4. n + 1 \in 2..Len(other) /\ (n + 1) - 1 = n
      BY <1>2, <3>1
    <3>5. x.issuer = Other(other[1], other[n].issuer)
      BY <1>1, <3>4 DEF TalkWell
    <3> QED
      BY <2>2, <3>3, <3>5 DEF Follows
  <2> QED
    BY <2>1, <2>2
<1>4. PICK j \in Places(h, r) : talk[j] = x
  BY <1>2, <1>3 DEF Shared, Spoken
<1>5. j = n + 1
  <2> DEFINE k == n + 1
  <2>1. k \in Places(q, r) /\ trail[q][r][k].said = trail[h][r][j].said
    BY <1>2, <1>4
  <2> HIDE DEF k
  <2>2. j = k
    BY <2>1 DEF Shared, Unique
  <2> QED
    BY <2>2 DEF k
<1> QED
  BY <1>2, <1>4, <1>5 DEF Places

(* What a host takes from another is the next that the other has stored.   *)
LEMMA SenderAhead ==
  ASSUME AmongHosts, LIInv, Shared, NEW h \in Hosts, NEW r \in Roots, NEW m \in wire,
         Follows(trail[h][r], r, m)
  PROVE  /\ Len(trail[h][r]) + 1 \in Places(m.issuer, r)
         /\ trail[m.issuer][r][Len(trail[h][r]) + 1] = m
<1>1. m.issuer \in Hosts /\ m.signed = "enough"
  BY NextSpeaker DEF Follows, Sound
<1>2. PICK s \in Roots : \E j \in Places(m.issuer, s) : trail[m.issuer][s][j] = m
  BY <1>1 DEF Shared, Carried
<1>3. PICK j \in Places(m.issuer, s) : trail[m.issuer][s][j] = m
  BY <1>2
<1>4. s = r /\ j = Len(trail[h][r]) + 1
  BY <1>1, <1>3, Placed DEF Shared
<1> QED
  BY <1>3, <1>4

(* What everybody has at the place that is filled is the same message.     *)
LEMMA SamePlace ==
  ASSUME AmongHosts, LIInv, Shared, NEW h \in Hosts, NEW r \in Roots, NEW m,
         Follows(trail[h][r], r, m), m \in wire \/ m.issuer = h,
         NEW q \in Hosts, Len(trail[h][r]) + 1 \in Places(q, r)
  PROVE  trail[q][r][Len(trail[h][r]) + 1] = m
<1> DEFINE n == Len(trail[h][r])
<1> DEFINE k == n + 1
<1>1. n \in Nat /\ Len(trail[q][r]) \in Nat
  BY DEF LIInv, Types
<1>2. CASE m.issuer = h
  <2>1. Len(trail[q][r]) <= n
    BY <1>2, NobodyAhead
  <2> QED
    BY <1>1, <2>1 DEF Places
<1>3. CASE m.issuer # h
  <2>1. k \in Places(m.issuer, r) /\ trail[m.issuer][r][k] = m /\ m.issuer \in Hosts
    BY <1>3, SenderAhead, NextSpeaker
  <2>2. k \in Places(q, r)
    OBVIOUS
  <2> HIDE DEF k
  <2> QED
    BY <2>1, <2>2 DEF Shared, Agree, k
<1> QED
  BY <1>2, <1>3

(* How the conversations are after a commit.                               *)
LEMMA PlacesGrow ==
  ASSUME LIInv, NEW h \in Hosts, NEW w \in Workers[h], NEW r \in Roots, NEW m \in Exns,
         Grows(h, w, r, m)
  PROVE  /\ Places(h, r)' = 1..(Len(trail[h][r]) + 1) /\ Len(trail[h][r]) \in Nat
         /\ trail'[h][r][Len(trail[h][r]) + 1] = m
         /\ \A q \in Hosts, s \in Roots :
              /\ (q # h \/ s # r) => Places(q, s)' = Places(q, s)
              /\ Places(q, s) \subseteq Places(q, s)'
              /\ \A j \in Places(q, s) : trail'[q][s][j] = trail[q][s][j]
         /\ \A q \in Hosts, s \in Roots : \A j \in Places(q, s)' :
              j \in Places(q, s) \/ (q = h /\ s = r /\ j = Len(trail[h][r]) + 1)
<1>1. trail[h][r] \in Seq(Exns) /\ trail'[h][r] = Append(trail[h][r], m)
  BY GrownTalk DEF LIInv, Types
<1>2. \A q \in Hosts, s \in Roots : q # h \/ s # r => trail'[q][s] = trail[q][s]
  BY DEF Grows, LIInv, Types
<1>3. /\ Len(trail[h][r]) \in Nat /\ Len(trail'[h][r]) = Len(trail[h][r]) + 1
      /\ \A i \in 1..Len(trail[h][r]) : trail'[h][r][i] = trail[h][r][i]
      /\ trail'[h][r][Len(trail[h][r]) + 1] = m
  BY <1>1, AppendedTalk
<1> QED
  BY <1>2, <1>3 DEF Places

LEMMA GrowsKeepsShared ==
  ASSUME AmongHosts, LIInv, Shared, NEW h \in Hosts, NEW w \in Workers[h], NEW r \in Roots,
         NEW m \in Exns, Grows(h, w, r, m)
  PROVE  Shared'
<1> DEFINE k == Len(trail[h][r]) + 1
<1>1. Follows(trail[h][r], r, m) /\ (m \in wire \/ m.issuer = h)
  BY GrowsFollows DEF Grows
<1>2. /\ Places(h, r)' = 1..k /\ k \in Nat /\ k \in Places(h, r)' /\ k \notin Places(h, r)
      /\ trail'[h][r][k] = m
      /\ \A q \in Hosts, s \in Roots :
           /\ Places(q, s) \subseteq Places(q, s)'
           /\ \A j \in Places(q, s) : trail'[q][s][j] = trail[q][s][j]
      /\ \A q \in Hosts, s \in Roots : \A j \in Places(q, s)' :
           j \in Places(q, s) \/ (q = h /\ s = r /\ j = k)
  BY PlacesGrow DEF Places
<1>3. \A q \in Hosts, s \in Roots : \A j \in Places(q, s) :
        trail[q][s][j].said = m.said => s = r /\ j = k
  BY <1>1, Placed DEF Shared
<1>4. \A q \in Hosts : k \in Places(q, r) => trail[q][r][k] = m
  BY <1>1, SamePlace
<1>5. m.issuer # h => k \in Places(m.issuer, r) /\ trail[m.issuer][r][k] = m /\ m.issuer \in Hosts
  BY <1>1, SenderAhead, NextSpeaker
<1> HIDE DEF k
<1>6. Unique'
  <2> SUFFICES ASSUME NEW q \in Hosts, NEW p \in Hosts, NEW s \in Roots, NEW t \in Roots,
                      NEW i \in Places(q, s)', NEW j \in Places(p, t)',
                      trail'[q][s][i].said = trail'[p][t][j].said
               PROVE  s = t /\ i = j
    BY DEF Unique
  <2>1. CASE i \in Places(q, s) /\ j \in Places(p, t)
    BY <1>2, <2>1 DEF Shared, Unique
  <2>2. CASE i \in Places(q, s) /\ p = h /\ t = r /\ j = k
    BY <1>2, <1>3, <2>2
  <2>3. CASE q = h /\ s = r /\ i = k /\ j \in Places(p, t)
    BY <1>2, <1>3, <2>3
  <2>4. CASE q = h /\ s = r /\ i = k /\ p = h /\ t = r /\ j = k
    BY <2>4
  <2> QED
    BY <1>2, <2>1, <2>2, <2>3, <2>4
<1>7. Agree'
  <2> SUFFICES ASSUME NEW q \in Hosts, NEW p \in Hosts, NEW s \in Roots,
                      NEW i \in Places(q, s)', i \in Places(p, s)'
               PROVE  trail'[q][s][i] = trail'[p][s][i]
    BY DEF Agree
  <2>1. CASE i \in Places(q, s) /\ i \in Places(p, s)
    BY <1>2, <2>1 DEF Shared, Agree
  <2>2. CASE i \in Places(q, s) /\ p = h /\ s = r /\ i = k
    BY <1>2, <1>4, <2>2
  <2>3. CASE q = h /\ s = r /\ i = k /\ i \in Places(p, s)
    BY <1>2, <1>4, <2>3
  <2>4. CASE q = h /\ p = h
    BY <2>4
  <2> QED
    BY <1>2, <2>1, <2>2, <2>3, <2>4
<1>8. Spoken'
  <2> SUFFICES ASSUME NEW q \in Hosts, NEW p \in Hosts, NEW s \in Roots,
                      NEW i \in Places(q, s)', trail'[q][s][i].issuer = p
               PROVE  \E j \in Places(p, s)' : trail'[p][s][j] = trail'[q][s][i]
    BY DEF Spoken
  <2>1. CASE i \in Places(q, s)
    <3>1. PICK j \in Places(p, s) : trail[p][s][j] = trail[q][s][i]
      BY <1>2, <2>1 DEF Shared, Spoken
    <3> QED
      BY <1>2, <2>1, <3>1
  <2>2. CASE q = h /\ s = r /\ i = k
    <3>1. CASE p = h
      BY <1>2, <2>2, <3>1
    <3>2. CASE p # h
      <4>1. k \in Places(p, r) /\ trail[p][r][k] = m
        BY <1>2, <1>5, <2>2, <3>2
      <4> QED
        BY <1>2, <2>2, <4>1
    <3> QED
      BY <3>1, <3>2
  <2> QED
    BY <1>2, <2>1, <2>2
<1>9. Carried'
  <2> SUFFICES ASSUME NEW x \in wire', x.issuer \in Hosts, x.signed = "enough"
               PROVE  \E s \in Roots : \E j \in Places(x.issuer, s)' : trail'[x.issuer][s][j] = x
    BY DEF Carried
  <2>1. CASE x \in wire
    <3>1. PICK s \in Roots : \E j \in Places(x.issuer, s) : trail[x.issuer][s][j] = x
      BY <2>1 DEF Shared, Carried
    <3> QED
      BY <1>2, <3>1
  <2>2. CASE x = m
    <3>1. CASE m.issuer = h
      BY <1>2, <2>2, <3>1
    <3>2. CASE m.issuer # h
      BY <1>2, <1>5, <2>2, <3>2
    <3> QED
      BY <3>1, <3>2
  <2> QED
    BY <2>1, <2>2 DEF Grows
<1> QED
  BY <1>6, <1>7, <1>8, <1>9 DEF Shared

(* Everything else leaves the conversations and the wire alone.            *)
LEMMA NextStores ==
  ASSUME LIInv, [Next]_vars
  PROVE  \/ UNCHANGED <<trail, wire>>
         \/ \E h \in Hosts : \E w \in Workers[h], r \in Roots, m \in Exns : Grows(h, w, r, m)
<1>1. ASSUME NEW h \in Hosts, NEW w \in Workers[h], Commit(h, w)
      PROVE  UNCHANGED <<trail, wire>> \/ \E r \in Roots, m \in Exns : Grows(h, w, r, m)
  BY <1>1, CommitGrows
<1> QED
  BY <1>1 DEF Next, vars, durable, Decide, Learn, Crash

LEMMA NextShared ==
  ASSUME AmongHosts, LIInv, Shared, [Next]_vars
  PROVE  Shared'
<1>1. CASE UNCHANGED <<trail, wire>>
  BY <1>1 DEF Shared, Unique, Agree, Spoken, Carried, Places
<1> QED
  BY <1>1, NextStores, GrowsKeepsShared

LEMMA InitShared == Init => Shared
<1> SUFFICES ASSUME Init PROVE Shared
  OBVIOUS
<1>1. \A h \in Hosts, r \in Roots : Places(h, r) = {}
  BY DEF Init, Places
<1>2. Carried
  BY ExchangeAssumption DEF Init, Carried
<1> QED
  BY <1>1, <1>2 DEF Shared, Unique, Agree, Spoken

(* What is committed was said by the host or heard from another.           *)
LEMMA GrowsSpeaks ==
  ASSUME AmongHosts, LIInv, Shared, NEW h \in Hosts, NEW w \in Workers[h], NEW r \in Roots,
         NEW m \in Exns, Grows(h, w, r, m)
  PROVE  Promise!Next
<1>1. Follows(trail[h][r], r, m) /\ (m \in wire \/ m.issuer = h)
  BY GrowsFollows DEF Grows
<1>2. Promise!Extend(h, r, m)
  BY DEF Grows, Promise!Extend
<1>3. CASE m.issuer = h
  <2>1. \A q \in Hosts : Len(trail[q][r]) <= Len(trail[h][r])
    BY <1>1, <1>3, NobodyAhead
  <2>2. IF trail[h][r] = <<>> THEN Promise!Opens(m, r) ELSE Promise!Answers(m, trail[h][r])
    BY <1>1, NextSpeaker DEF Follows, OpeningOf, Promise!Opens, Promise!Answers
  <2> QED
    BY <1>2, <1>3, <2>1, <2>2 DEF Promise!Next, Promise!Say
<1>4. CASE m.issuer # h
  <2>1. /\ Len(trail[h][r]) + 1 \in Places(m.issuer, r) /\ m.issuer \in Hosts
        /\ trail[m.issuer][r][Len(trail[h][r]) + 1] = m
    BY <1>1, <1>4, SenderAhead, NextSpeaker
  <2>2. Len(trail[h][r]) < Len(trail[m.issuer][r])
    <3>1. Len(trail[h][r]) \in Nat /\ Len(trail[m.issuer][r]) \in Nat
      BY <2>1 DEF LIInv, Types
    <3> QED
      BY <2>1, <3>1 DEF Places
  <2>3. Promise!Hear(h, r, m.issuer)
    BY <1>2, <2>1, <2>2 DEF Promise!Hear
  <2> QED
    BY <2>1, <2>3 DEF Promise!Next
<1> QED
  BY <1>3, <1>4

(* The hosts implement AbstractExchange: whoever races, crashes or repeats *)
(* itself, for each opening there is one conversation, and each host holds *)
(* a beginning of it. Conversations are between two of the hosts.          *)
THEOREM HostsKeepPromise == AmongHosts => (Spec => KeepsPromise)
<1> SUFFICES ASSUME AmongHosts PROVE Spec => KeepsPromise
  OBVIOUS
<1>1. Init => Promise!Init
  BY DEF Init, Promise!Init
<1>2. LIInv /\ Shared /\ [Next]_vars => [Promise!Next]_trail
  BY NextStores, GrowsSpeaks
<1>3. LIInv /\ Shared /\ [Next]_vars => Shared'
  BY NextShared
<1> QED
  BY <1>1, <1>2, <1>3, InitShared, LocalInvariant, PTL DEF Spec, KeepsPromise, Promise!Spec

(* What holds at 0 and is carried up by each step holds up to N.           *)
LEMMA StepUp ==
  ASSUME NEW N \in Nat, NEW G, 0 \in G, \A n \in 1..N : n - 1 \in G => n \in G
  PROVE  \A n \in 0..N : n \in G
<1> DEFINE R == OpToRel(<, Nat)
           bad == {n \in 0..N : n \notin G}
<1>1. IsWellFoundedOn(R, Nat)
  BY NatLessThanWellFounded
<1>2. \A x, y \in Nat : x < y => <<x, y>> \in R
  BY DEF OpToRel
<1>3. bad \in SUBSET Nat
  OBVIOUS
<1> SUFFICES ASSUME bad # {} PROVE FALSE
  OBVIOUS
<1> HIDE DEF R
<1>4. PICK n \in bad : \A m \in bad : ~(<<m, n>> \in R)
  <2> HIDE DEF bad
  <2> QED
    BY <1>1, <1>3, WFMin
<1>5. n \in 0..N /\ n \notin G
  BY <1>4
<1>6. n \in 1..N /\ n - 1 \in 0..N /\ n - 1 < n /\ n - 1 \in Nat
  BY <1>5
<1>7. <<n - 1, n>> \in R
  BY <1>2, <1>5, <1>6
<1>8. n - 1 \notin bad
  BY <1>4, <1>7
<1> QED
  BY <1>5, <1>6, <1>8

(* A recursion over the numbers up to N, all of whose values are in S, has *)
(* a solution.                                                             *)
Steps(N, S) == [1..N -> [S -> S]]

Solution(f, N, S, base, step) ==
  /\ f \in [0..N -> S]
  /\ f[0] = base
  /\ \A n \in 1..N : f[n] = step[n][f[n - 1]]

LEMMA StepsExist ==
  ASSUME NEW N \in Nat, NEW S, NEW base \in S, NEW step \in Steps(N, S)
  PROVE  \E f : Solution(f, N, S, base, step)
<1> DEFINE Solves(f, n) == f \in [0..n -> S] /\ f[0] = base
                           /\ \A k \in 1..n : f[k] = step[k][f[k - 1]]
           G == {n \in 0..N : \E f : Solves(f, n)}
<1>1. 0 \in G
  <2>1. Solves([k \in 0..0 |-> base], 0)
    OBVIOUS
  <2>2. 0 \in 0..N
    OBVIOUS
  <2> HIDE DEF Solves
  <2> QED
    BY <2>1, <2>2
<1>2. ASSUME NEW n \in 1..N, n - 1 \in G PROVE n \in G
  <2>1. PICK f : Solves(f, n - 1)
    BY <1>2
  <2> DEFINE g == [k \in 0..n |-> IF k = n THEN step[n][f[n - 1]] ELSE f[k]]
  <2>2. f[n - 1] \in S /\ step[n] \in [S -> S]
    BY <2>1 DEF Steps
  <2>3. \A k \in 0..n : k = n \/ k \in 0..(n - 1)
    OBVIOUS
  <2>4. g \in [0..n -> S]
    BY <2>1, <2>2, <2>3
  <2>5. \A k \in 0..(n - 1) : g[k] = f[k]
    OBVIOUS
  <2>6. g[n] = step[n][g[n - 1]]
    BY <2>5
  <2>7. g[0] = base
    BY <2>1, <2>5
  <2> HIDE DEF g
  <2>8. ASSUME NEW k \in 1..n PROVE g[k] = step[k][g[k - 1]]
    <3>1. k = n \/ (k \in 1..(n - 1) /\ k \in 0..(n - 1) /\ k - 1 \in 0..(n - 1))
      OBVIOUS
    <3> QED
      BY <2>1, <2>5, <2>6, <3>1
  <2>9. Solves(g, n)
    BY <2>4, <2>7, <2>8
  <2> QED
    BY <2>9
<1>3. N \in G
  <2>1. N \in 0..N
    OBVIOUS
  <2> HIDE DEF G
  <2> QED
    BY <1>1, <1>2, <2>1, StepUp
<1>4. PICK f : Solves(f, N)
  BY <1>3
<1> QED
  BY <1>4 DEF Solution

-----------------------------------------------------------------------------
(* The walk, as a recursion.                                               *)

Verdicts == {"Ok", "ResourceLimit", "Schema", "ChainClaimMismatch", "Cycle", "UnsupportedForm",
             "UnsupportedOperator", "AmbiguousChain", "WrongIssuee", "MissingRegistryReference",
             "RegistryMismatch", "IssuerMismatch", "IssuerStateMismatch", "CredentialStateMismatch",
             "Revoked"} \cup AwaitedFacts

Results == [verdict : Verdicts, visited : Nat]

Chains == SUBSET [said : Saids, evidence : Evidence]

LEMMA OwnVerdictType ==
  ASSUME NEW x
  PROVE  OwnVerdict(x) \in Verdicts
BY DEF OwnVerdict, StatusVerdict, Verdicts, AwaitedFacts

LEMMA FrameParts ==
  ASSUME NEW x \in Frames
  PROVE  /\ x.of \in Evidence /\ x.of.body \in Acdc /\ x.of.body.said \in Saids
         /\ x.of.body.edges \in Seq(Edge) /\ x.path \in SUBSET Saids /\ x.visited \in Nat
         /\ x.claim \in Saids \cup {None} /\ Path(x) \in SUBSET Saids
         /\ Len(x.of.body.edges) \in Nat
         /\ \A i \in 1..Len(x.of.body.edges) : x.of.body.edges[i] \in Edge
<1>1. x.of \in Evidence /\ x.path \in SUBSET Saids /\ x.visited \in Nat /\ x.claim \in Saids \cup {None}
  BY DEF Frames
<1>2. x.of.body \in Acdc
  BY <1>1 DEF Evidence
<1>3. x.of.body.said \in Saids /\ x.of.body.edges \in Seq(Edge)
  BY <1>2 DEF Acdc
<1> QED
  BY <1>1, <1>2, <1>3 DEF Path

LEMMA FollowedType ==
  ASSUME NEW chain \in Chains, NEW node \in [Frames -> Results], NEW x \in Frames,
         NEW edge \in Edge, NEW visited \in Nat
  PROVE  Followed(node, edge, x, chain, visited) \in Results
<1> DEFINE found == Named(chain, edge.n)
           one == CHOOSE k \in found : TRUE
           y == [of |-> one.evidence, claim |-> edge.n, path |-> Path(x), visited |-> visited]
<1>1. found # {} => one \in chain
  BY DEF Named
<1>2. found # {} => y \in Frames
  <2>1. edge.n \in Saids /\ Path(x) \in SUBSET Saids
    BY FrameParts DEF Edge
  <2> QED
    BY <1>1, <2>1 DEF Chains, Frames
<1>3. found # {} => node[y] \in Results
  BY <1>2
<1> HIDE DEF found, one, y
<1>4. \A r \in Results : r.visited \in Nat
  BY DEF Results
<1>5. \A v \in {"UnsupportedOperator", "Cycle", "MissingChain", "AmbiguousChain", "WrongIssuee"} :
        \A n \in Nat : Result(v, n) \in Results
  BY DEF Result, Results, Verdicts, AwaitedFacts
<1> QED
  BY <1>3, <1>4, <1>5 DEF Followed, found, one, y

LEMMA FollowedAfterType ==
  ASSUME NEW chain \in Chains, NEW node \in [Frames -> Results], NEW x \in Frames,
         NEW i \in 1..Len(x.of.body.edges), NEW done \in Results
  PROVE  FollowedAfter(node, x, chain, done, i) \in Results
<1>1. done.visited \in Nat
  BY DEF Results
<1>2. x.of.body.edges[i] \in Edge
  BY FrameParts
<1> QED
  BY <1>1, <1>2, FollowedType DEF FollowedAfter

(* The edges of a node, followed one by one.                               *)
Traced(done, node, x, chain, visited) ==
  /\ done \in [0..Len(x.of.body.edges) -> Results]
  /\ done[0] = Result("Ok", visited)
  /\ \A i \in 1..Len(x.of.body.edges) : done[i] = FollowedAfter(node, x, chain, done[i - 1], i)
  /\ Edges(node, x, chain, visited) =
       IF x.of.body.form \in {"said", "grouped"} THEN Result("UnsupportedForm", visited)
       ELSE done[Len(x.of.body.edges)]

LEMMA EdgesUnfold ==
  ASSUME NEW chain \in Chains, NEW node \in [Frames -> Results], NEW x \in Frames,
         NEW visited \in Nat
  PROVE  \E done : Traced(done, node, x, chain, visited)
<1> DEFINE N == Len(x.of.body.edges)
           base == Result("Ok", visited)
           step == [i \in 1..N |-> [r \in Results |-> FollowedAfter(node, x, chain, r, i)]]
           Eq(f) == f = [i \in 0..N |-> IF i = 0 THEN Result("Ok", visited)
                                        ELSE FollowedAfter(node, x, chain, f[i - 1], i)]
           done == CHOOSE f : Eq(f)
<1>1. N \in Nat
  BY FrameParts
<1>2. base \in Results
  BY DEF Result, Results, Verdicts
<1>3. step \in Steps(N, Results)
  BY FollowedAfterType DEF Steps
<1>4. \A i \in 1..N : \A r \in Results : step[i][r] = FollowedAfter(node, x, chain, r, i)
  OBVIOUS
<1>5. Edges(node, x, chain, visited) =
        IF x.of.body.form \in {"said", "grouped"} THEN Result("UnsupportedForm", visited) ELSE done[N]
  BY DEF Edges
<1> HIDE DEF step, N
<1>6. PICK f : Solution(f, N, Results, base, step)
  <2> HIDE DEF base
  <2> QED
    BY <1>1, <1>2, <1>3, StepsExist
<1>7. \A n \in 0..N : f[n] = IF n = 0 THEN base ELSE FollowedAfter(node, x, chain, f[n - 1], n)
  <2> SUFFICES ASSUME NEW n \in 0..N, n # 0
               PROVE  f[n] = FollowedAfter(node, x, chain, f[n - 1], n)
    BY <1>6 DEF Solution
  <2>1. n \in 1..N /\ n - 1 \in 0..N
    BY <1>1
  <2>2. f[n - 1] \in Results
    BY <1>6, <2>1 DEF Solution
  <2> QED
    BY <1>4, <1>6, <2>1, <2>2 DEF Solution
<1>8. Eq(f)
  <2>1. f = [n \in 0..N |-> f[n]]
    BY <1>6 DEF Solution
  <2> QED
    BY <1>7, <2>1
<1>9. Eq(done)
  <2> HIDE DEF Eq
  <2> QED
    BY <1>8
<1> HIDE DEF done
<1>10. /\ done = [i \in 0..N |-> done[i]] /\ done[0] = base
       /\ \A i \in 1..N : done[i] = FollowedAfter(node, x, chain, done[i - 1], i)
  BY <1>1, <1>9
<1>11. \A i \in 0..N : done[i] \in Results
  <2> DEFINE G == {i \in 0..N : done[i] \in Results}
  <2>1. 0 \in G
    BY <1>1, <1>2, <1>10
  <2>2. ASSUME NEW i \in 1..N, i - 1 \in G PROVE i \in G
    <3>1. done[i - 1] \in Results
      BY <2>2
    <3>2. i \in 1..Len(x.of.body.edges) /\ i \in 0..N
      BY <1>1 DEF N
    <3>3. FollowedAfter(node, x, chain, done[i - 1], i) \in Results
      <4> DEFINE r == done[i - 1]
      <4>1. r \in Results
        BY <3>1
      <4> HIDE DEF r
      <4>2. FollowedAfter(node, x, chain, r, i) \in Results
        BY <3>2, <4>1, FollowedAfterType
      <4> QED
        BY <4>2 DEF r
    <3>4. done[i] \in Results
      BY <1>10, <3>3
    <3> QED
      BY <3>2, <3>4
  <2>3. \A i \in 0..N : i \in G
    <3> HIDE DEF G
    <3> QED
      BY <1>1, <2>1, <2>2, StepUp
  <2> QED
    BY <2>3
<1>12. done \in [0..N -> Results]
  BY <1>10, <1>11
<1> QED
  BY <1>5, <1>10, <1>12 DEF N, Traced

LEMMA VisitType ==
  ASSUME NEW chain \in Chains, NEW node \in [Frames -> Results], NEW x \in Frames, NEW limits
  PROVE  Visit(node, x, chain, limits) \in Results
<1>1. x.visited \in Nat /\ x.visited + 1 \in Nat /\ x.of.body.form \in {"absent", "inline", "said", "grouped"}
  <2>1. x.of.body \in Acdc /\ x.visited \in Nat
    BY FrameParts
  <2> QED
    BY <2>1 DEF Acdc
<1>2. Result("ResourceLimit", x.visited) \in Results
  BY <1>1 DEF Result, Results, Verdicts
<1>3. Result(OwnVerdict(x), x.visited + 1) \in Results
  BY <1>1, OwnVerdictType DEF Result, Results
<1>4. Edges(node, x, chain, x.visited + 1) \in Results
  <2> DEFINE v == x.visited + 1
             N == Len(x.of.body.edges)
  <2>1. v \in Nat /\ N \in Nat
    BY <1>1, FrameParts
  <2> HIDE DEF v
  <2>2. PICK done : Traced(done, node, x, chain, v)
    BY <2>1, EdgesUnfold
  <2>3. Result("UnsupportedForm", v) \in Results
    BY <2>1 DEF Result, Results, Verdicts
  <2>4. done[N] \in Results
    BY <2>1, <2>2 DEF Traced
  <2>5. Edges(node, x, chain, v) \in Results
    BY <2>2, <2>3, <2>4 DEF Traced
  <2> QED
    BY <2>5 DEF v
<1> QED
  BY <1>2, <1>3, <1>4 DEF Visit, Spent

LEMMA LayerType ==
  ASSUME NEW chain \in Chains, NEW node \in [Frames -> Results], NEW limits
  PROVE  Layer(node, chain, limits) \in [Frames -> Results]
BY VisitType DEF Layer

(* The walk, level by level.                                               *)
LEMMA WalkUnfold ==
  ASSUME NEW chain \in Chains, NEW limits, limits.depth \in Nat
  PROVE  \E node \in [0..(limits.depth + 1) -> [Frames -> Results]] :
           /\ node[0] = TooDeep
           /\ \A n \in 1..(limits.depth + 1) : node[n] = Layer(node[n - 1], chain, limits)
           /\ Walk(chain, limits) = node[limits.depth + 1]
<1> DEFINE N == limits.depth + 1
           S == [Frames -> Results]
           step == [n \in 1..N |-> [g \in S |-> Layer(g, chain, limits)]]
           Eq(f) == f = [n \in 0..N |-> IF n = 0 THEN TooDeep ELSE Layer(f[n - 1], chain, limits)]
           node == CHOOSE f : Eq(f)
<1>1. N \in Nat /\ N \in 0..N
  OBVIOUS
<1>2. TooDeep \in S
  <2>1. \A x \in Frames : Result("ResourceLimit", x.visited) \in Results
    BY FrameParts DEF Result, Results, Verdicts
  <2> QED
    BY <2>1 DEF TooDeep
<1>3. step \in Steps(N, S)
  BY LayerType DEF Steps
<1>4. \A n \in 1..N : \A g \in S : step[n][g] = Layer(g, chain, limits)
  OBVIOUS
<1>5. Walk(chain, limits) = node[N]
  BY DEF Walk
<1> HIDE DEF step, N
<1>6. PICK f : Solution(f, N, S, TooDeep, step)
  <2> HIDE DEF S
  <2> QED
    BY <1>1, <1>2, <1>3, StepsExist
<1>7. \A n \in 0..N : f[n] = IF n = 0 THEN TooDeep ELSE Layer(f[n - 1], chain, limits)
  <2> HIDE DEF S
  <2> SUFFICES ASSUME NEW n \in 0..N, n # 0
               PROVE  f[n] = Layer(f[n - 1], chain, limits)
    BY <1>6 DEF Solution
  <2>1. n \in 1..N /\ n - 1 \in 0..N
    BY <1>1
  <2>2. f[n - 1] \in S
    BY <1>6, <2>1 DEF Solution
  <2> QED
    BY <1>4, <1>6, <2>1, <2>2 DEF Solution
<1>8. Eq(f)
  <2>1. f = [n \in 0..N |-> f[n]]
    BY <1>6 DEF Solution
  <2> QED
    BY <1>7, <2>1
<1>9. Eq(node)
  <2> HIDE DEF Eq
  <2> QED
    BY <1>8
<1> HIDE DEF node
<1>10. /\ node = [n \in 0..N |-> node[n]] /\ node[0] = TooDeep
       /\ \A n \in 1..N : node[n] = Layer(node[n - 1], chain, limits)
  BY <1>1, <1>9
<1>11. \A n \in 0..N : node[n] \in S
  <2> HIDE DEF S
  <2> DEFINE G == {n \in 0..N : node[n] \in S}
  <2>1. 0 \in G
    BY <1>1, <1>2, <1>10
  <2>2. ASSUME NEW n \in 1..N, n - 1 \in G PROVE n \in G
    <3>1. node[n - 1] \in S /\ n \in 0..N
      BY <1>1, <2>2
    <3>2. Layer(node[n - 1], chain, limits) \in S
      <4> DEFINE g == node[n - 1]
      <4>1. g \in [Frames -> Results]
        BY <3>1 DEF S
      <4> HIDE DEF g
      <4>2. Layer(g, chain, limits) \in S
        BY <4>1, LayerType DEF S
      <4> QED
        BY <4>2 DEF g
    <3>3. node[n] \in S
      BY <1>10, <3>2
    <3> QED
      BY <3>1, <3>3
  <2>3. \A n \in 0..N : n \in G
    <3> HIDE DEF G
    <3> QED
      BY <1>1, <2>1, <2>2, StepUp
  <2> QED
    BY <2>3
<1>12. node \in [0..N -> S]
  BY <1>10, <1>11
<1> QED
  BY <1>5, <1>10, <1>12 DEF N

-----------------------------------------------------------------------------
(* The reference: ways over a host's bodies.                               *)

(* An edge that is followed leads to a body of the host, from a credential *)
(* that has it.                                                            *)
LEMMA TargetIs ==
  ASSUME NEW h, NEW a, NEW i
  PROVE  /\ Target(h, a, i) \in Accepted(h, "body") \cup {None}
         /\ Target(h, a, i) # None =>
              /\ a # None /\ i \in DOMAIN a.edges
              /\ Target(h, a, i) \in Accepted(h, "body")
              /\ Target(h, a, i).said = a.edges[i].n
<1> DEFINE named == {b \in Accepted(h, "body") : a # None /\ i \in DOMAIN a.edges /\ b.said = a.edges[i].n}
<1>1. Target(h, a, i) = OneOf(named)
  BY DEF Target
<1>2. OneOf(named) = None \/ OneOf(named) \in named
  <2> HIDE DEF named
  <2> QED
    BY DEF OneOf
<1> QED
  BY <1>1, <1>2

Steered(h, b, w, f) == f[0] = b /\ \A k \in 1..Len(w) : f[k] = Target(h, f[k - 1], w[k])

LEMMA EndUnfold ==
  ASSUME NEW h, NEW b, NEW E, NEW w \in Seq(E)
  PROVE  \E f : Steered(h, b, w, f) /\ EndOf(h, b, w) = f[Len(w)]
<1> DEFINE N == Len(w)
           S == Accepted(h, "body") \cup {b, None}
           step == [k \in 1..N |-> [z \in S |-> Target(h, z, w[k])]]
           Eq(f) == f = [k \in 0..N |-> IF k = 0 THEN b ELSE Target(h, f[k - 1], w[k])]
           end == CHOOSE f : Eq(f)
<1>1. N \in Nat
  OBVIOUS
<1>2. b \in S
  OBVIOUS
<1>3. step \in Steps(N, S)
  <2>1. \A k \in 1..N : \A z \in S : Target(h, z, w[k]) \in S
    BY TargetIs
  <2> HIDE DEF S
  <2> QED
    BY <2>1 DEF Steps
<1>4. \A k \in 1..N : \A z \in S : step[k][z] = Target(h, z, w[k])
  OBVIOUS
<1>5. EndOf(h, b, w) = end[N]
  BY DEF EndOf
<1> HIDE DEF step, N, S
<1>6. PICK f : Solution(f, N, S, b, step)
  BY <1>1, <1>2, <1>3, StepsExist
<1>7. \A n \in 0..N : f[n] = IF n = 0 THEN b ELSE Target(h, f[n - 1], w[n])
  <2> SUFFICES ASSUME NEW n \in 0..N, n # 0
               PROVE  f[n] = Target(h, f[n - 1], w[n])
    BY <1>6 DEF Solution
  <2>1. n \in 1..N /\ n - 1 \in 0..N
    BY <1>1
  <2>2. f[n - 1] \in S
    BY <1>6, <2>1 DEF Solution
  <2> QED
    BY <1>4, <1>6, <2>1, <2>2 DEF Solution
<1>8. Eq(f)
  <2>1. f = [n \in 0..N |-> f[n]]
    BY <1>6 DEF Solution
  <2> QED
    BY <1>7, <2>1
<1>9. Eq(end)
  <2> HIDE DEF Eq
  <2> QED
    BY <1>8
<1> HIDE DEF end
<1>10. end[0] = b /\ \A k \in 1..N : end[k] = Target(h, end[k - 1], w[k])
  BY <1>1, <1>9
<1> QED
  BY <1>5, <1>10 DEF Steered, N

(* A way that takes no edge, one that takes some, one from nowhere.        *)
LEMMA EndOfEmpty ==
  ASSUME NEW h, NEW b
  PROVE  EndOf(h, b, <<>>) = b
<1> DEFINE w == <<>>
<1>1. w \in Seq({}) /\ Len(w) = 0
  OBVIOUS
<1> HIDE DEF w
<1>2. PICK f : Steered(h, b, w, f) /\ EndOf(h, b, w) = f[Len(w)]
  BY <1>1, EndUnfold
<1>3. EndOf(h, b, w) = b
  BY <1>1, <1>2 DEF Steered
<1> QED
  BY <1>3 DEF w

LEMMA EndOfFirst ==
  ASSUME NEW h, NEW b, NEW E, NEW w \in Seq(E), w # <<>>
  PROVE  EndOf(h, b, w) = EndOf(h, Target(h, b, w[1]), Tail(w))
<1> DEFINE t == Tail(w)
           N == Len(t)
<1>1. t \in Seq(E) /\ N \in Nat /\ Len(w) = N + 1 /\ \A k \in 1..N : t[k] = w[k + 1]
  OBVIOUS
<1>2. PICK f : Steered(h, b, w, f) /\ EndOf(h, b, w) = f[Len(w)]
  BY EndUnfold
<1> HIDE DEF t
<1>3. PICK g : Steered(h, Target(h, b, w[1]), t, g) /\ EndOf(h, Target(h, b, w[1]), t) = g[N]
  BY <1>1, EndUnfold
<1> DEFINE G == {k \in 0..N : f[k + 1] = g[k]}
<1>4. 0 \in G
  <2>1. f[1] = Target(h, f[1 - 1], w[1]) /\ f[0] = b /\ g[0] = Target(h, b, w[1]) /\ 0 \in 0..N
    BY <1>1, <1>2, <1>3 DEF Steered
  <2> QED
    BY <2>1
<1>5. ASSUME NEW k \in 1..N, k - 1 \in G PROVE k \in G
  <2>1. /\ k + 1 \in 1..Len(w) /\ (k + 1) - 1 = k /\ (k - 1) + 1 = k /\ k \in 0..N
    BY <1>1
  <2>2. f[k] = g[k - 1]
    BY <1>5, <2>1
  <2>3. f[k + 1] = Target(h, f[k], w[k + 1])
    BY <1>2, <2>1 DEF Steered
  <2>4. g[k] = Target(h, g[k - 1], t[k])
    BY <1>3 DEF Steered
  <2> QED
    BY <1>1, <2>1, <2>2, <2>3, <2>4
<1>6. N \in G
  <2>1. N \in 0..N
    BY <1>1
  <2> HIDE DEF G
  <2> QED
    BY <1>1, <1>4, <1>5, <2>1, StepUp
<1> QED
  BY <1>1, <1>2, <1>3, <1>6 DEF t

LEMMA EndOfNone ==
  ASSUME NEW h, NEW E, NEW w \in Seq(E)
  PROVE  EndOf(h, None, w) = None
<1> DEFINE N == Len(w)
<1>1. PICK f : Steered(h, None, w, f) /\ EndOf(h, None, w) = f[N]
  BY EndUnfold
<1> DEFINE G == {k \in 0..N : f[k] = None}
<1>2. N \in Nat /\ N \in 0..N
  OBVIOUS
<1>3. 0 \in G
  BY <1>1, <1>2 DEF Steered
<1>4. ASSUME NEW k \in 1..N, k - 1 \in G PROVE k \in G
  <2>1. f[k] = Target(h, None, w[k]) /\ k \in 0..N
    BY <1>1, <1>2, <1>4 DEF Steered
  <2> QED
    BY <2>1, TargetIs
<1>5. N \in G
  <2> HIDE DEF G, N
  <2> QED
    BY <1>2, <1>3, <1>4, StepUp
<1> QED
  BY <1>1, <1>5

-----------------------------------------------------------------------------
(* The ways of a bounded length, and how they go on from the first edge.   *)
Numbers == 1..MaxEdges

WaysWithin(h, b, n) == {w \in Seq(Numbers) : Len(w) <= n /\ EndOf(h, b, w) # None}

LEMMA WaysAreWithin ==
  ASSUME NEW h, NEW a, Limits.depth \in Nat
  PROVE  Ways(h, a) \subseteq WaysWithin(h, a, Limits.depth + 1)
<1> SUFFICES ASSUME NEW n \in 0..(Limits.depth + 1), NEW w \in [1..n -> 1..MaxEdges], EndOf(h, a, w) # None
             PROVE  w \in WaysWithin(h, a, Limits.depth + 1)
  BY DEF Ways
<1> DEFINE E == 1..MaxEdges
<1>1. w \in [1..n -> E] /\ n \in Nat
  OBVIOUS
<1> HIDE DEF E
<1>2. w \in Seq(E) /\ Len(w) = n
  BY <1>1
<1> QED
  BY <1>2 DEF WaysWithin, E, Numbers

(* A way that is not empty begins with an edge that leads somewhere, and   *)
(* goes on from there.                                                     *)
LEMMA WayGoesOn ==
  ASSUME NEW h, NEW b, NEW n \in Nat, NEW w \in WaysWithin(h, b, n), w # <<>>
  PROVE  LET t == Target(h, b, w[1])
         IN  /\ t # None /\ b # None
             /\ w[1] \in DOMAIN b.edges
             /\ Tail(w) \in WaysWithin(h, t, n - 1)
             /\ EndOf(h, b, w) = EndOf(h, t, Tail(w))
             /\ Len(w) = Len(Tail(w)) + 1
<1>1. w \in Seq(Numbers) /\ Len(w) <= n /\ EndOf(h, b, w) # None
  BY DEF WaysWithin
<1>2. Tail(w) \in Seq(Numbers) /\ Len(w) = Len(Tail(w)) + 1 /\ Len(Tail(w)) \in Nat
  BY <1>1
<1>3. EndOf(h, b, w) = EndOf(h, Target(h, b, w[1]), Tail(w))
  BY <1>1, EndOfFirst
<1>4. Target(h, b, w[1]) # None
  BY <1>1, <1>2, <1>3, EndOfNone
<1> QED
  BY <1>1, <1>2, <1>3, <1>4, TargetIs DEF WaysWithin

LEMMA EmptyWay ==
  ASSUME NEW h, NEW b, b # None, NEW n \in Nat
  PROVE  <<>> \in WaysWithin(h, b, n)
<1>1. <<>> \in Seq(Numbers) /\ Len(<<>>) = 0 /\ 0 <= n
  OBVIOUS
<1> QED
  BY <1>1, EndOfEmpty DEF WaysWithin

-----------------------------------------------------------------------------
(* What a host has accepted.                                               *)
Knows(h) == h \in Hosts /\ known[h] \subseteq Facts[h]

LEMMA AcceptedTyped ==
  ASSUME NEW h, Knows(h)
  PROVE  /\ Accepted(h, "kel") \subseteq Identifiers
         /\ Accepted(h, "schema") \subseteq Saids
         /\ Accepted(h, "body") \subseteq Acdc
         /\ Accepted(h, "registry") \subseteq RegistryHead
         /\ Accepted(h, "tel") \subseteq CredentialHead
         /\ \A r, s \in Accepted(h, "registry") : r.id = s.id => r = s
         /\ \A s, t \in Accepted(h, "tel") : s.credential = t.credential =>
              /\ s.registry = t.registry
              /\ s.status = "Issued" <=> s.sn = 0
              /\ s.sn = t.sn => s = t
<1>1. ASSUME NEW kind, NEW x \in Accepted(h, kind)
      PROVE  \E f \in Facts[h] : f[1] = kind /\ f[2] = x /\ x \in Subject[kind]
  <2>1. PICK f \in known[h] : f[1] = kind /\ f[2] = x
    BY <1>1 DEF Accepted
  <2> QED
    BY <2>1, FactsAssumption DEF Knows
<1>2. /\ Subject["kel"] = Identifiers /\ Subject["schema"] = Saids /\ Subject["body"] = Acdc
      /\ Subject["registry"] = RegistryHead /\ Subject["tel"] = CredentialHead
  BY DEF Subject
<1>3. ASSUME NEW r \in Accepted(h, "registry"), NEW s \in Accepted(h, "registry"), r.id = s.id
      PROVE  r = s
  <2>1. PICK f \in Facts[h] : f[1] = "registry" /\ f[2] = r
    BY <1>1
  <2>2. PICK g \in Facts[h] : g[1] = "registry" /\ g[2] = s
    BY <1>1
  <2>3. f = g
    BY <1>3, <2>1, <2>2, FactsAssumption DEF Knows
  <2> QED
    BY <2>1, <2>2, <2>3
<1>4. ASSUME NEW s \in Accepted(h, "tel"), NEW t \in Accepted(h, "tel"), s.credential = t.credential
      PROVE  /\ s.registry = t.registry
             /\ s.status = "Issued" <=> s.sn = 0
             /\ s.sn = t.sn => s = t
  <2>1. PICK f \in Facts[h] : f[1] = "tel" /\ f[2] = s
    BY <1>1
  <2>2. PICK g \in Facts[h] : g[1] = "tel" /\ g[2] = t
    BY <1>1
  <2>3. /\ f[2].registry = g[2].registry
        /\ f[2].status = "Issued" <=> f[2].sn = 0
        /\ f[2].sn = g[2].sn => f = g
    BY <1>4, <2>1, <2>2, FactsAssumption DEF Knows
  <2> QED
    BY <2>1, <2>2, <2>3
<1> QED
  BY <1>1, <1>2, <1>3, <1>4

(* Evidence of a credential that is all the host's, but for the issuer,    *)
(* whose state is of some accepted log.                                    *)
Told(h, e) ==
  /\ e \in Evidence
  /\ e.schema = SchemaFor(h, e.body)
  /\ e.registry = RegistryFor(h, e.body)
  /\ e.state = HeadFor(h, e.body)
  /\ e.issuer # None => e.issuer \in Accepted(h, "kel")

LEMMA Oneself ==
  ASSUME NEW S
  PROVE  OneOf(S) = None \/ OneOf(S) \in S
BY DEF OneOf

LEMMA SuppliedTyped ==
  ASSUME NEW h, Knows(h), NEW a, NEW i
  PROVE  /\ SchemaFor(h, a) \in {None, "fits", "rejects"}
         /\ RegistryFor(h, a) \in RegistryHead \cup {None}
         /\ HeadFor(h, a) \in CredentialHead \cup {None}
         /\ KelOf(h, i) \in Identifiers \cup {None}
         /\ KelOf(h, i) # None => KelOf(h, i) = i /\ KelOf(h, i) \in Accepted(h, "kel")
<1>1. RegistryFor(h, a) \in RegistryHead \cup {None}
  BY AcceptedTyped, Oneself DEF RegistryFor
<1>2. HeadFor(h, a) \in CredentialHead \cup {None}
  <2> DEFINE log == {s \in Accepted(h, "tel") : s.credential = a.said}
             latest == {s \in log : \A t \in log : t.sn <= s.sn}
  <2>1. latest \subseteq CredentialHead
    BY AcceptedTyped
  <2>2. HeadFor(h, a) = OneOf(latest)
    BY DEF HeadFor
  <2> HIDE DEF latest
  <2> QED
    BY <2>1, <2>2, Oneself
<1> QED
  BY <1>1, <1>2, AcceptedTyped DEF SchemaFor, KelOf

LEMMA NodeIsTold ==
  ASSUME NEW h, Knows(h), NEW b \in Acdc
  PROVE  Told(h, NodeFor(h, b)) /\ NodeFor(h, b).body = b /\ NodeFor(h, b) \in Evidence
<1> DEFINE e == NodeFor(h, b)
<1>1. /\ e.body = b /\ e.schema = SchemaFor(h, b) /\ e.registry = RegistryFor(h, b)
      /\ e.state = HeadFor(h, b) /\ e.issuer = KelOf(h, b.issuer)
      /\ e = [body |-> e.body, schema |-> e.schema, registry |-> e.registry, state |-> e.state,
              issuer |-> e.issuer]
  BY DEF NodeFor
<1> HIDE DEF e
<1>2. e \in Evidence
  BY <1>1, SuppliedTyped DEF Evidence
<1> QED
  BY <1>1, <1>2, SuppliedTyped DEF Told, e

(* A status decision on all a host knows.                                  *)
LEMMA OwnIsIssued ==
  ASSUME NEW h, Knows(h), NEW x, Told(h, x.of), x.of.body \in Acdc, OwnVerdict(x) = "Ok"
  PROVE  IssuedTo(h, x.of.body) /\ x.of.body.rules \in {"absent", "empty"}
<1> DEFINE a == x.of.body
           e == x.of
           log == {s \in Accepted(h, "tel") : s.credential = a.said}
<1>1. /\ e.schema # None /\ e.schema # "rejects"
      /\ a.rules \notin {"said", "block"} /\ StatusVerdict(a, e) = "Ok"
  BY DEF OwnVerdict
<1>2. /\ e.registry # None /\ e.state # None /\ e.issuer # None /\ a.registry = e.registry.id
      /\ a.issuer = e.registry.issuer /\ e.issuer = a.issuer
      /\ e.state.registry = e.registry.id /\ e.state.credential = a.said
      /\ e.state.status # "Revoked"
  BY <1>1 DEF StatusVerdict
<1>3. /\ e.schema = SchemaFor(h, a) /\ e.registry = RegistryFor(h, a) /\ e.state = HeadFor(h, a)
      /\ e.issuer \in Accepted(h, "kel")
  BY <1>2 DEF Told
<1> HIDE DEF a, e
<1>4. a \in Fitting /\ a.schema \in Accepted(h, "schema")
  BY <1>1, <1>3 DEF SchemaFor
<1>5. [id |-> a.registry, issuer |-> a.issuer] \in Accepted(h, "registry")
  <2>1. e.registry \in Accepted(h, "registry")
    BY <1>2, <1>3, Oneself DEF RegistryFor
  <2>2. e.registry \in RegistryHead
    BY <2>1, AcceptedTyped
  <2>3. e.registry = [id |-> a.registry, issuer |-> a.issuer]
    BY <1>2, <2>2 DEF RegistryHead
  <2> QED
    BY <2>1, <2>3
<1>6. e.state \in log /\ \A t \in log : t.sn <= e.state.sn
  BY <1>2, <1>3, Oneself DEF HeadFor
<1>7. e.state \in CredentialHead /\ e.state.status = "Issued"
  BY <1>2, <1>6, AcceptedTyped DEF CredentialHead
<1>8. \A s \in log : s.registry = a.registry /\ s.status = "Issued"
  <2> SUFFICES ASSUME NEW s \in log PROVE s.registry = a.registry /\ s.status = "Issued"
    OBVIOUS
  <2>1. /\ s \in Accepted(h, "tel") /\ e.state \in Accepted(h, "tel")
        /\ s.credential = e.state.credential /\ s.sn <= e.state.sn
    BY <1>6
  <2>2. e.state.sn = 0 /\ s.registry = e.state.registry /\ (s.status = "Issued" <=> s.sn = 0)
    BY <1>7, <2>1, AcceptedTyped
  <2>3. s.sn \in Nat
    BY <2>1, AcceptedTyped DEF CredentialHead
  <2>4. s.sn = 0
    BY <2>1, <2>2, <2>3
  <2> QED
    BY <1>2, <2>2, <2>4
<1>9. a.rules \in {"absent", "empty"}
  BY <1>1 DEF Acdc, a
<1> QED
  BY <1>2, <1>3, <1>4, <1>5, <1>6, <1>8, <1>9 DEF IssuedTo, a

(* All a host knows of other credentials than the one in question.         *)
ChainFor(h, a) ==
  {[said |-> b.said, evidence |-> NodeFor(h, b)] : b \in Accepted(h, "body") \ {a}}

LEMMA ChainTyped ==
  ASSUME NEW h, Knows(h), NEW a
  PROVE  ChainFor(h, a) \in Chains
<1> SUFFICES ASSUME NEW b \in Accepted(h, "body")
             PROVE  [said |-> b.said, evidence |-> NodeFor(h, b)] \in [said : Saids, evidence : Evidence]
  BY DEF ChainFor, Chains
<1>1. b \in Acdc /\ b.said \in Saids
  BY AcceptedTyped DEF Acdc
<1> QED
  BY <1>1, NodeIsTold

(* The rules for an edge.                                                  *)
EdgeUpheld(h, b, i) ==
  LET t == Target(h, b, i)
  IN  /\ t # None /\ b.edges[i].o # "DI2I"
      /\ b.edges[i].o = "I2I" => t.issuee = b.issuer
      /\ b.edges[i].o = None => t.issuee \in {None, b.issuer}

(* What is looked at where an edge leads to t.                             *)
FrameOf(h, t, x, v) ==
  [of |-> NodeFor(h, t), claim |-> t.said, path |-> Path(x), visited |-> v]

(* Where an edge that passes leads to.                                     *)
Arrives(h, a, node, x, i, v) ==
  LET t == Target(h, x.of.body, i)
  IN  /\ t \in Accepted(h, "body") /\ t \in Acdc
      /\ EdgeUpheld(h, x.of.body, i)
      /\ FrameOf(h, t, x, v) \in Frames
      /\ node[FrameOf(h, t, x, v)].verdict = "Ok"
      /\ Followed(node, x.of.body.edges[i], x, ChainFor(h, a), v) = node[FrameOf(h, t, x, v)]

(* An edge that passes leads to the body that the host has by that name,   *)
(* and the walk passes there.                                              *)
LEMMA FollowedIs ==
  ASSUME NEW h, Knows(h), NEW a, NEW x \in Frames, NEW v \in Nat, Told(h, x.of), a.said \in Path(x),
         NEW i \in DOMAIN x.of.body.edges, NEW node,
         Followed(node, x.of.body.edges[i], x, ChainFor(h, a), v).verdict = "Ok"
  PROVE  Arrives(h, a, node, x, i, v)
<1> DEFINE b == x.of.body
           edge == b.edges[i]
           chain == ChainFor(h, a)
           found == Named(chain, edge.n)
           one == CHOOSE k \in found : TRUE
           y == [of |-> one.evidence, claim |-> edge.n, path |-> Path(x), visited |-> v]
           t == Target(h, b, i)
           r == Followed(node, edge, x, chain, v)
<1>1. /\ edge.o \in Operators /\ edge.n \notin Path(x) /\ found # {} /\ found = {one}
      /\ node[y].verdict = "Ok" /\ HeldByIssuer(edge, one.evidence.body, b.issuer)
      /\ r = node[y]
  <2> HIDE DEF found, one, y
  <2>1. r = IF edge.o \notin Operators THEN Result("UnsupportedOperator", v)
            ELSE IF edge.n \in Path(x) THEN Result("Cycle", v)
            ELSE IF found = {} THEN Result("MissingChain", v)
            ELSE IF found # {one} THEN Result("AmbiguousChain", v)
            ELSE IF node[y].verdict = "Ok" /\ ~HeldByIssuer(edge, one.evidence.body, b.issuer)
                 THEN Result("WrongIssuee", node[y].visited)
                 ELSE node[y]
    BY DEF Followed, found, one, y
  <2>2. \A w \in {"UnsupportedOperator", "Cycle", "MissingChain", "AmbiguousChain", "WrongIssuee"} :
          \A n : Result(w, n).verdict # "Ok"
    BY DEF Result
  <2>3. r.verdict = "Ok"
    OBVIOUS
  <2> HIDE DEF r
  <2> QED
    BY <2>1, <2>2, <2>3
<1>2. one \in chain /\ one.said = edge.n
  BY <1>1 DEF Named
<1>3. PICK z \in Accepted(h, "body") : z # a /\ one = [said |-> z.said, evidence |-> NodeFor(h, z)]
  <2> HIDE DEF found, one, edge
  <2> QED
    BY <1>2 DEF ChainFor
<1>4. z.said = edge.n /\ z \in Acdc /\ one.evidence = NodeFor(h, z) /\ one.evidence.body = z
  <2>1. z \in Acdc
    BY AcceptedTyped
  <2>2. one.said = z.said /\ one.evidence = NodeFor(h, z)
    <3> DEFINE e == NodeFor(h, z)
    <3> HIDE DEF one, e, found, edge
    <3>1. one = [said |-> z.said, evidence |-> e]
      BY <1>3 DEF e
    <3>2. one.said = z.said /\ one.evidence = e
      BY <3>1
    <3> QED
      BY <3>2 DEF e
  <2> HIDE DEF one
  <2> QED
    BY <1>2, <2>1, <2>2, NodeIsTold
<1>5. ASSUME NEW u \in Accepted(h, "body"), u.said = edge.n
      PROVE  u = z
  <2>1. u # a
    BY <1>1, <1>5
  <2> DEFINE k == [said |-> u.said, evidence |-> NodeFor(h, u)]
  <2>2. k \in chain /\ k.said = edge.n
    BY <1>5, <2>1 DEF ChainFor
  <2>3. k \in found
    BY <2>2 DEF Named
  <2>4. k = one /\ u \in Acdc
    BY <1>1, <2>3, AcceptedTyped
  <2>5. NodeFor(h, u) = NodeFor(h, z)
    <3> HIDE DEF one
    <3> QED
      BY <1>3, <2>4
  <2> QED
    BY <1>4, <2>4, <2>5, NodeIsTold
<1>6. t = z
  <2> DEFINE named == {u \in Accepted(h, "body") : b # None /\ i \in DOMAIN b.edges /\ u.said = b.edges[i].n}
  <2>1. b \in Acdc /\ b # None
    BY FrameParts, ExchangeAssumption
  <2>2. z \in named
    BY <1>4, <2>1
  <2>3. \A u \in named : u = z
    BY <1>5
  <2>4. t = OneOf(named)
    BY DEF Target
  <2> HIDE DEF named
  <2> QED
    BY <2>2, <2>3, <2>4, Oneself DEF OneOf
<1>7. y = FrameOf(h, t, x, v)
  BY <1>4, <1>6 DEF FrameOf
<1>8. y \in Frames
  <2>1. edge.n \in Saids /\ Path(x) \in SUBSET Saids
    BY <1>4, FrameParts DEF Acdc
  <2>2. one.evidence \in Evidence
    BY <1>4, NodeIsTold
  <2> HIDE DEF one, edge
  <2> QED
    BY <2>1, <2>2 DEF Frames
<1>9. EdgeUpheld(h, b, i)
  <2>1. t # None
    BY <1>4, <1>6, ExchangeAssumption
  <2>2. edge.o \in {None, "I2I", "NI2I"} /\ HeldByIssuer(edge, t, b.issuer)
    BY <1>1, <1>4, <1>6 DEF Operators
  <2>3. edge.o # "DI2I"
    <3>1. None \in Operators /\ edge.o \in Operators
      BY <1>1 DEF Operators
    <3> QED
      BY <3>1, NoneIsNoWord DEF Operators
  <2> HIDE DEF t, edge
  <2>4. edge.o = None => t.issuee \in {None, b.issuer}
    BY <2>2 DEF HeldByIssuer
  <2>5. edge.o = "I2I" => t.issuee = b.issuer
    BY <2>2 DEF HeldByIssuer
  <2> QED
    BY <2>1, <2>3, <2>4, <2>5 DEF EdgeUpheld, t, edge
<1> HIDE DEF y, r
<1> QED
  BY <1>1, <1>4, <1>6, <1>7, <1>8, <1>9 DEF r, Arrives

-----------------------------------------------------------------------------
(* Counting the ways, edge by edge.                                        *)
UpTo(h, b, n, i) == {w \in WaysWithin(h, b, n) : w = <<>> \/ w[1] <= i}

LEMMA WayBegins ==
  ASSUME NEW h, NEW b \in Acdc, NEW n \in Nat, NEW w \in WaysWithin(h, b, n), w # <<>>
  PROVE  w[1] \in 1..Len(b.edges) /\ Len(b.edges) \in Nat
<1>1. w[1] \in DOMAIN b.edges
  BY WayGoesOn
<1>2. b.edges \in Seq(Edge)
  BY DEF Acdc
<1> QED
  BY <1>1, <1>2

LEMMA UpToNone ==
  ASSUME NEW h, NEW b \in Acdc, NEW n \in Nat
  PROVE  /\ UpTo(h, b, n, 0) = {<<>>}
         /\ IsFiniteSet(UpTo(h, b, n, 0)) /\ Cardinality(UpTo(h, b, n, 0)) = 1
<1>1. b # None
  BY ExchangeAssumption
<1>2. <<>> \in UpTo(h, b, n, 0)
  BY <1>1, EmptyWay DEF UpTo
<1>3. ASSUME NEW w \in UpTo(h, b, n, 0), w # <<>> PROVE FALSE
  <2>1. w \in WaysWithin(h, b, n) /\ w[1] <= 0
    BY <1>3 DEF UpTo
  <2>2. w[1] \in 1..Len(b.edges)
    BY <1>3, <2>1, WayBegins
  <2> QED
    BY <2>1, <2>2
<1>4. UpTo(h, b, n, 0) = {<<>>}
  BY <1>2, <1>3
<1> QED
  BY <1>4, FS_Singleton

LEMMA UpToAll ==
  ASSUME NEW h, NEW b \in Acdc, NEW n \in Nat
  PROVE  UpTo(h, b, n, Len(b.edges)) = WaysWithin(h, b, n)
<1>1. ASSUME NEW w \in WaysWithin(h, b, n), w # <<>> PROVE w[1] <= Len(b.edges)
  BY <1>1, WayBegins
<1> QED
  BY <1>1 DEF UpTo

(* The ways that begin with edge i are as many as those from its end.      *)
LEMMA UpToNext ==
  ASSUME NEW h, NEW b \in Acdc, NEW n \in Nat, n > 0, NEW i \in 1..Len(b.edges),
         IsFiniteSet(UpTo(h, b, n, i - 1)),
         IsFiniteSet(WaysWithin(h, Target(h, b, i), n - 1))
  PROVE  /\ IsFiniteSet(UpTo(h, b, n, i))
         /\ Cardinality(UpTo(h, b, n, i))
              <= Cardinality(UpTo(h, b, n, i - 1)) + Cardinality(WaysWithin(h, Target(h, b, i), n - 1))
<1> DEFINE A == UpTo(h, b, n, i - 1)
           B == {w \in WaysWithin(h, b, n) : w # <<>> /\ w[1] = i}
           T == WaysWithin(h, Target(h, b, i), n - 1)
           f == [w \in B |-> Tail(w)]
<1>1. f \in Injection(B, T)
  <2>1. \A w \in B : Tail(w) \in T
    BY WayGoesOn
  <2>2. ASSUME NEW v \in B, NEW w \in B, Tail(v) = Tail(w) PROVE v = w
    <3>1. v \in Seq(Numbers) /\ w \in Seq(Numbers) /\ v # <<>> /\ w # <<>> /\ v[1] = w[1]
      BY DEF WaysWithin
    <3>2. Len(v) = Len(Tail(v)) + 1 /\ Len(w) = Len(Tail(w)) + 1
      BY <3>1
    <3>3. Len(v) = Len(w) /\ Len(v) \in Nat
      <4>1. Len(v) \in Nat
        BY <3>1
      <4>2. Len(Tail(v)) = Len(Tail(w))
        BY <2>2
      <4> QED
        BY <3>2, <4>1, <4>2
    <3>4. ASSUME NEW k \in 1..Len(v), k # 1 PROVE v[k] = w[k]
      <4>1. k - 1 \in 1..Len(Tail(v)) /\ (k - 1) + 1 = k
        BY <3>1, <3>2, <3>4
      <4>2. Tail(v)[k - 1] = v[k] /\ Tail(w)[k - 1] = w[k]
        BY <2>2, <3>1, <4>1
      <4> QED
        BY <2>2, <4>2
    <3>5. \A k \in 1..Len(v) : v[k] = w[k]
      BY <3>1, <3>4
    <3> QED
      BY <3>1, <3>3, <3>5, SeqEqual
  <2> HIDE DEF B, T
  <2>3. f \in [B -> T] /\ DOMAIN f = B
    BY <2>1
  <2>4. \A v, w \in B : f[v] = f[w] => v = w
    BY <2>2
  <2> QED
    BY <2>3, <2>4 DEF Injection, IsInjective
<1>2. IsFiniteSet(B) /\ Cardinality(B) <= Cardinality(T)
  <2> HIDE DEF B, T, f
  <2>1. IsFiniteSet(T)
    BY DEF T
  <2> QED
    BY <1>1, <2>1, FS_Injection
<1>3. UpTo(h, b, n, i) = A \cup B
  <2>1. ASSUME NEW w \in WaysWithin(h, b, n), w # <<>> PROVE w[1] <= i <=> (w[1] <= i - 1 \/ w[1] = i)
    <3>1. w[1] \in Int
      BY <2>1, WayBegins
    <3> QED
      BY <3>1
  <2> QED
    BY <2>1 DEF UpTo
<1>4. IsFiniteSet(A) /\ IsFiniteSet(T)
  OBVIOUS
<1> HIDE DEF A, B, T
<1>5. /\ IsFiniteSet(A \cup B)
      /\ Cardinality(A \cup B) = Cardinality(A) + Cardinality(B) - Cardinality(A \cap B)
  BY <1>2, <1>4, FS_Union
<1>6. IsFiniteSet(A \cap B)
  <2>1. A \cap B \in SUBSET A
    OBVIOUS
  <2> QED
    BY <1>4, <2>1, FS_Subset
<1>7. Cardinality(A) \in Nat /\ Cardinality(B) \in Nat /\ Cardinality(T) \in Nat /\ Cardinality(A \cap B) \in Nat
  BY <1>2, <1>4, <1>6, FS_CardinalityType
<1>8. Cardinality(A \cup B) <= Cardinality(A) + Cardinality(T)
  BY <1>2, <1>5, <1>7
<1> QED
  BY <1>3, <1>5, <1>8 DEF A, T

-----------------------------------------------------------------------------
(* A result that passes accounts for every way from where it was looked.   *)
Accounts(h, x, n, r) ==
  LET ways == WaysWithin(h, x.of.body, n)
  IN  /\ \A w \in ways : Len(w) < n /\ Upheld(h, EndOf(h, x.of.body, w))
      /\ IsFiniteSet(ways)
      /\ x.visited + Cardinality(ways) <= r.visited /\ r.visited <= Limits.nodes

LevelSound(h, a, g, n) ==
  \A x \in Frames :
    Told(h, x.of) /\ a.said \in Path(x) /\ g[x].verdict = "Ok" => Accounts(h, x, n, g[x])

LEMMA BottomIsSound ==
  ASSUME NEW h, NEW a
  PROVE  LevelSound(h, a, TooDeep, 0)
<1>1. \A x \in Frames : TooDeep[x].verdict # "Ok"
  BY DEF TooDeep, Result
<1> QED
  BY <1>1 DEF LevelSound

(* As far as the edges were followed.                                      *)
SoFar(h, x, n, i, r) ==
  LET b == x.of.body
  IN  /\ \A j \in 1..i : EdgeUpheld(h, b, j)
      /\ \A w \in UpTo(h, b, n, i) : w # <<>> => Len(w) < n /\ Upheld(h, EndOf(h, b, w))
      /\ IsFiniteSet(UpTo(h, b, n, i))
      /\ x.visited + Cardinality(UpTo(h, b, n, i)) <= r.visited /\ r.visited <= Limits.nodes

LEMMA FurtherIsSound ==
  ASSUME NEW h, Knows(h), NEW a, NEW n \in Nat, n > 0, NEW g \in [Frames -> Results],
         LevelSound(h, a, g, n - 1),
         NEW x \in Frames, Told(h, x.of), a.said \in Path(x),
         NEW i \in 1..Len(x.of.body.edges), NEW done \in Results,
         done.verdict = "Ok" => SoFar(h, x, n, i - 1, done),
         FollowedAfter(g, x, ChainFor(h, a), done, i).verdict = "Ok"
  PROVE  SoFar(h, x, n, i, FollowedAfter(g, x, ChainFor(h, a), done, i))
<1> DEFINE b == x.of.body
           v == done.visited
           t == Target(h, b, i)
           y == FrameOf(h, t, x, v)
           r == FollowedAfter(g, x, ChainFor(h, a), done, i)
<1>1. b \in Acdc /\ x.visited \in Nat /\ v \in Nat /\ i \in DOMAIN b.edges /\ i \in Nat
  BY FrameParts DEF Results
<1>2. done.verdict = "Ok" /\ r = Followed(g, b.edges[i], x, ChainFor(h, a), v)
  BY DEF FollowedAfter
<1>3. SoFar(h, x, n, i - 1, done)
  BY <1>2
<1>4. /\ t \in Acdc /\ EdgeUpheld(h, b, i) /\ y \in Frames /\ g[y].verdict = "Ok" /\ r = g[y]
  <2>1. Followed(g, b.edges[i], x, ChainFor(h, a), v).verdict = "Ok"
    BY <1>2
  <2>2. i \in DOMAIN x.of.body.edges /\ v \in Nat
    BY <1>1
  <2> HIDE DEF v
  <2>3. Arrives(h, a, g, x, i, v)
    BY <2>1, <2>2, FollowedIs
  <2> QED
    BY <1>2, <2>3 DEF v, Arrives
<1>5. /\ y.of = NodeFor(h, t) /\ y.visited = v /\ Path(x) \subseteq Path(y)
  BY DEF FrameOf, Path
<1>6. Told(h, y.of) /\ y.of.body = t
  BY <1>4, <1>5, NodeIsTold
<1> HIDE DEF r, y
<1>7. Accounts(h, y, n - 1, r)
  BY <1>4, <1>5, <1>6 DEF LevelSound
<1>8. /\ \A w \in WaysWithin(h, t, n - 1) : Len(w) < n - 1 /\ Upheld(h, EndOf(h, t, w))
      /\ IsFiniteSet(WaysWithin(h, t, n - 1))
      /\ v + Cardinality(WaysWithin(h, t, n - 1)) <= r.visited /\ r.visited <= Limits.nodes
  BY <1>5, <1>6, <1>7 DEF Accounts
<1>9. /\ IsFiniteSet(UpTo(h, b, n, i - 1))
      /\ x.visited + Cardinality(UpTo(h, b, n, i - 1)) <= v
  BY <1>3 DEF SoFar
<1>10. /\ IsFiniteSet(UpTo(h, b, n, i))
       /\ Cardinality(UpTo(h, b, n, i))
            <= Cardinality(UpTo(h, b, n, i - 1)) + Cardinality(WaysWithin(h, t, n - 1))
  <2> HIDE DEF b
  <2>1. i \in 1..Len(b.edges)
    BY DEF b
  <2> QED
    BY <1>1, <1>8, <1>9, <2>1, UpToNext
<1>11. x.visited + Cardinality(UpTo(h, b, n, i)) <= r.visited
  <2> DEFINE p == Cardinality(UpTo(h, b, n, i - 1))
             q == Cardinality(WaysWithin(h, t, n - 1))
             s == Cardinality(UpTo(h, b, n, i))
  <2>1. p \in Nat /\ q \in Nat /\ s \in Nat
    BY <1>8, <1>9, <1>10, FS_CardinalityType
  <2>2. r.visited \in Nat
    BY <1>4 DEF Results
  <2>3. s <= p + q /\ x.visited + p <= v /\ v + q <= r.visited
    BY <1>8, <1>9, <1>10
  <2> HIDE DEF p, q, s, v
  <2>4. x.visited + s <= r.visited
    BY <1>1, <2>1, <2>2, <2>3
  <2> QED
    BY <2>4 DEF s
<1>12. ASSUME NEW w \in UpTo(h, b, n, i), w # <<>>
       PROVE  Len(w) < n /\ Upheld(h, EndOf(h, b, w))
  <2>1. w \in WaysWithin(h, b, n) /\ w[1] <= i
    BY <1>12 DEF UpTo
  <2>2. w[1] \in Nat
    BY <1>1, <1>12, <2>1, WayBegins
  <2>3. CASE w[1] <= i - 1
    <3>1. w \in UpTo(h, b, n, i - 1)
      BY <2>1, <2>3 DEF UpTo
    <3> QED
      BY <1>3, <1>12, <3>1 DEF SoFar
  <2>4. CASE w[1] = i
    <3>1. /\ Tail(w) \in WaysWithin(h, t, n - 1) /\ EndOf(h, b, w) = EndOf(h, t, Tail(w))
          /\ Len(w) = Len(Tail(w)) + 1
      BY <1>12, <2>1, <2>4, WayGoesOn
    <3>2. Len(Tail(w)) < n - 1 /\ Upheld(h, EndOf(h, b, w))
      BY <1>8, <3>1
    <3>3. Len(Tail(w)) \in Nat
      BY <3>1 DEF WaysWithin
    <3> QED
      BY <3>1, <3>2, <3>3
  <2> QED
    BY <1>1, <2>1, <2>2, <2>3, <2>4
<1>13. \A j \in 1..i : EdgeUpheld(h, b, j)
  <2>1. \A j \in 1..i : j \in 1..(i - 1) \/ j = i
    BY <1>1
  <2> QED
    BY <1>3, <1>4, <2>1 DEF SoFar
<1> QED
  BY <1>8, <1>10, <1>11, <1>12, <1>13 DEF SoFar, r

LEMMA LayerIsSound ==
  ASSUME NEW h, Knows(h), NEW a, NEW n \in Nat, n > 0, NEW g \in [Frames -> Results],
         LevelSound(h, a, g, n - 1)
  PROVE  LevelSound(h, a, Layer(g, ChainFor(h, a), Limits), n)
<1> DEFINE chain == ChainFor(h, a)
<1>1. chain \in Chains
  BY ChainTyped
<1> HIDE DEF chain
<1> SUFFICES ASSUME NEW x \in Frames, Told(h, x.of), a.said \in Path(x),
                    Visit(g, x, chain, Limits).verdict = "Ok"
             PROVE  Accounts(h, x, n, Visit(g, x, chain, Limits))
  BY DEF LevelSound, Layer, chain
<1> DEFINE b == x.of.body
           N == Len(b.edges)
           v == x.visited + 1
           r == Visit(g, x, chain, Limits)
<1>2. /\ b \in Acdc /\ x.visited \in Nat /\ v \in Nat /\ N \in Nat /\ b # None
      /\ b.form \in {"absent", "inline", "said", "grouped"} /\ Limits.nodes \in Nat
      /\ DOMAIN b.edges = 1..N
  <2>1. b \in Acdc /\ x.visited \in Nat
    BY FrameParts
  <2>2. b.edges \in Seq(Edge)
    BY <2>1 DEF Acdc
  <2> QED
    BY <2>1, <2>2, ExchangeAssumption, LimitsAssumption DEF Acdc
<1>3. x.visited < Limits.nodes /\ OwnVerdict(x) = "Ok" /\ r = Edges(g, x, chain, v)
  <2> DEFINE E == Edges(g, x, chain, v)
             o == OwnVerdict(x)
  <2>1. r = IF x.visited >= Limits.nodes \/ b.size > Limits.bytes THEN Result("ResourceLimit", x.visited)
            ELSE IF o # "Ok" THEN Result(o, v) ELSE E
    BY DEF Visit, Spent
  <2>2. Result("ResourceLimit", x.visited).verdict # "Ok" /\ (o # "Ok" => Result(o, v).verdict # "Ok")
    BY DEF Result
  <2> HIDE DEF r, E, o
  <2>3. r.verdict = "Ok"
    BY DEF r
  <2>4. ~(x.visited >= Limits.nodes) /\ o = "Ok" /\ r = E
    BY <2>1, <2>2, <2>3
  <2> QED
    BY <1>2, <2>4 DEF o, E
<1>4. IssuedTo(h, b) /\ b.rules \in {"absent", "empty"}
  BY <1>2, <1>3, OwnIsIssued
<1> HIDE DEF v
<1>5. PICK done : Traced(done, g, x, chain, v)
  BY <1>1, <1>2, EdgesUnfold
<1>6. b.form \in {"absent", "inline"} /\ r = done[N] /\ done[N].verdict = "Ok"
  <2>1. Result("UnsupportedForm", v).verdict # "Ok"
    BY DEF Result
  <2> HIDE DEF b, N
  <2>2. r.verdict = "Ok"
    OBVIOUS
  <2> HIDE DEF r
  <2> QED
    BY <1>2, <1>3, <1>5, <2>1, <2>2 DEF Traced, b, N
<1> DEFINE G == {i \in 0..N : done[i].verdict = "Ok" => SoFar(h, x, n, i, done[i])}
<1>7. 0 \in G
  <2>1. done[0].visited = x.visited + 1 /\ 0 \in 0..N
    BY <1>2, <1>5 DEF Result, v, Traced
  <2>2. UpTo(h, b, n, 0) = {<<>>} /\ IsFiniteSet(UpTo(h, b, n, 0)) /\ Cardinality(UpTo(h, b, n, 0)) = 1
    BY <1>2, UpToNone
  <2>3. \A w \in UpTo(h, b, n, 0) : w = <<>>
    BY <2>2
  <2>4. x.visited + 1 <= Limits.nodes
    BY <1>2, <1>3
  <2>5. SoFar(h, x, n, 0, done[0])
    <3> DEFINE z == done[0]
    <3>1. z.visited = x.visited + 1
      BY <2>1
    <3> HIDE DEF z
    <3>2. \A j \in 1..0 : EdgeUpheld(h, b, j)
      OBVIOUS
    <3>3. x.visited + Cardinality(UpTo(h, b, n, 0)) <= z.visited /\ z.visited <= Limits.nodes
      BY <1>2, <2>2, <2>4, <3>1
    <3>4. SoFar(h, x, n, 0, z)
      BY <2>2, <2>3, <3>2, <3>3 DEF SoFar
    <3> QED
      BY <3>4 DEF z
  <2> QED
    BY <2>1, <2>5
<1>8. ASSUME NEW i \in 1..N, i - 1 \in G PROVE i \in G
  <2> DEFINE d == done[i - 1]
  <2>1. d \in Results /\ i \in 1..Len(x.of.body.edges)
    <3>1. i - 1 \in 0..N
      BY <1>2
    <3> HIDE DEF N
    <3>2. d \in Results
      BY <1>5, <3>1 DEF Traced, N
    <3> QED
      BY <3>2 DEF N
  <2>2. d.verdict = "Ok" => SoFar(h, x, n, i - 1, d)
    BY <1>8
  <2>3. done[i] = FollowedAfter(g, x, chain, d, i)
    BY <1>5 DEF Traced
  <2> HIDE DEF d
  <2>4. done[i].verdict = "Ok" => SoFar(h, x, n, i, done[i])
    BY <2>1, <2>2, <2>3, FurtherIsSound DEF chain
  <2> QED
    BY <1>2, <2>4
<1>9. N \in G
  <2>1. N \in 0..N
    BY <1>2
  <2> HIDE DEF G, N
  <2> QED
    BY <1>2, <1>7, <1>8, <2>1, StepUp
<1>10. SoFar(h, x, n, N, r)
  BY <1>6, <1>9
<1> HIDE DEF r
<1>11. UpTo(h, b, n, N) = WaysWithin(h, b, n)
  BY <1>2, UpToAll
<1>12. Upheld(h, b)
  BY <1>2, <1>4, <1>6, <1>10 DEF Upheld, SoFar, EdgeUpheld
<1>13. ASSUME NEW w \in WaysWithin(h, b, n) PROVE Len(w) < n /\ Upheld(h, EndOf(h, b, w))
  <2>1. CASE w = <<>>
    BY <1>12, <2>1, EndOfEmpty
  <2> QED
    BY <1>10, <1>11, <2>1 DEF SoFar
<1> QED
  BY <1>10, <1>11, <1>13 DEF Accounts, SoFar, r

-----------------------------------------------------------------------------
(* The walk and the reference.                                             *)
LEMMA WalkIsSound ==
  ASSUME NEW h, Knows(h), NEW a \in Acdc, NEW root, Told(h, root), root.body = a,
         CredentialVerdict(root, ChainFor(h, a), Limits) = "Ok"
  PROVE  Valid(h, a)
<1> DEFINE chain == ChainFor(h, a)
           N == Limits.depth + 1
           x == [of |-> root, claim |-> None, path |-> {}, visited |-> 0]
<1>1. chain \in Chains
  BY ChainTyped
<1>2. Limits.depth \in Nat /\ Limits.nodes \in Nat /\ N \in Nat /\ N - 1 = Limits.depth
  BY LimitsAssumption
<1> HIDE DEF chain
<1>3. PICK node \in [0..N -> [Frames -> Results]] :
        /\ node[0] = TooDeep
        /\ \A n \in 1..N : node[n] = Layer(node[n - 1], chain, Limits)
        /\ Walk(chain, Limits) = node[N]
  BY <1>1, <1>2, WalkUnfold
<1>4. node[N][x].verdict = "Ok"
  <2> DEFINE k == Walk(chain, Limits)[x].verdict
  <2>1. CredentialVerdict(root, chain, Limits) = "Ok"
    BY DEF chain
  <2>2. CredentialVerdict(root, chain, Limits) =
          IF ~Permitted(Limits) \/ Cardinality(chain) >= Limits.nodes THEN "ResourceLimit" ELSE k
    BY DEF CredentialVerdict
  <2> HIDE DEF k
  <2>3. k = "Ok"
    BY <2>1, <2>2
  <2> HIDE DEF x
  <2> QED
    BY <1>3, <2>3 DEF k
<1> DEFINE G == {n \in 0..N : LevelSound(h, a, node[n], n)}
<1> HIDE DEF N, x
<1>5. 0 \in G
  <2>1. 0 \in 0..N
    BY <1>2
  <2> QED
    BY <1>3, <2>1, BottomIsSound
<1>6. ASSUME NEW n \in 1..N, n - 1 \in G PROVE n \in G
  <2> DEFINE g == node[n - 1]
  <2>1. n - 1 \in 0..N /\ n \in 0..N /\ n \in Nat /\ n > 0
    BY <1>2
  <2>2. g \in [Frames -> Results] /\ LevelSound(h, a, g, n - 1) /\ node[n] = Layer(g, chain, Limits)
    BY <1>3, <1>6, <2>1
  <2> HIDE DEF g
  <2>3. LevelSound(h, a, Layer(g, chain, Limits), n)
    BY <2>1, <2>2, LayerIsSound DEF chain
  <2> QED
    BY <2>1, <2>2, <2>3
<1>7. LevelSound(h, a, node[N], N)
  <2>1. N \in 0..N
    BY <1>2
  <2> HIDE DEF G
  <2>2. N \in G
    BY <1>2, <1>5, <1>6, <2>1, StepUp
  <2> QED
    BY <2>2 DEF G
<1>8. x \in Frames /\ x.of = root /\ x.visited = 0 /\ a.said \in Path(x)
  BY DEF x, Frames, Told, Path
<1> DEFINE r == node[N][x]
<1>9. r \in Results
  BY <1>2, <1>3, <1>8
<1>10. Accounts(h, x, N, r)
  BY <1>4, <1>7, <1>8 DEF LevelSound
<1> HIDE DEF r
<1> DEFINE W == WaysWithin(h, a, N)
<1>11. /\ \A w \in W : Len(w) < N /\ Upheld(h, EndOf(h, a, w))
       /\ IsFiniteSet(W) /\ Cardinality(W) \in Nat
       /\ 0 + Cardinality(W) <= r.visited /\ r.visited <= Limits.nodes
  BY <1>8, <1>10, FS_CardinalityType DEF Accounts
<1>12. r.visited \in Nat
  BY <1>9 DEF Results
<1>13. Ways(h, a) \in SUBSET W
  BY <1>2, WaysAreWithin DEF N
<1>14. \A w \in W : Len(w) \in Nat
  BY DEF WaysWithin
<1> HIDE DEF W
<1>15. IsFiniteSet(Ways(h, a)) /\ Cardinality(Ways(h, a)) <= Cardinality(W)
  BY <1>11, <1>13, FS_Subset
<1>16. Cardinality(Ways(h, a)) \in Nat
  BY <1>15, FS_CardinalityType
<1>17. Cardinality(Ways(h, a)) <= Limits.nodes
  BY <1>2, <1>11, <1>12, <1>15, <1>16
<1>18. \A w \in W : Len(w) <= Limits.depth
  BY <1>2, <1>11, <1>14
<1> QED
  BY <1>11, <1>13, <1>17, <1>18 DEF Valid

(* What is said of the credential in a grant is all the host's.            *)
LEMMA GrantIsTold ==
  ASSUME NEW h, Knows(h), NEW c, NEW m, m.acdc \in Acdc
  PROVE  LET e == Supply(h, c, m)
             root == EvidenceOf(m, e)
         IN  Told(h, root) /\ root.body = m.acdc /\ e.chain = ChainFor(h, m.acdc)
<1> DEFINE a == m.acdc
           e == Supply(h, c, m)
           root == EvidenceOf(m, e)
<1>1. a # None
  BY ExchangeAssumption
<1>2. /\ e.schema = SchemaFor(h, a) /\ e.registry = RegistryFor(h, a) /\ e.state = HeadFor(h, a)
      /\ e.issuer = IF c = None THEN None ELSE KelOf(h, c.issuer)
      /\ e.chain = ChainFor(h, a)
  BY <1>1 DEF Supply, ChainFor
<1> HIDE DEF e
<1>3. /\ root = [body |-> a, schema |-> e.schema, registry |-> e.registry, state |-> e.state,
                 issuer |-> e.issuer]
  BY DEF EvidenceOf
<1>4. e.issuer \in Identifiers \cup {None} /\ (e.issuer # None => e.issuer \in Accepted(h, "kel"))
  <2> HIDE DEF a
  <2> QED
    BY <1>2, SuppliedTyped
<1>5. root \in Evidence
  BY <1>2, <1>3, <1>4, SuppliedTyped DEF Evidence
<1>6. /\ root.body = a /\ root.schema = e.schema /\ root.registry = e.registry
      /\ root.state = e.state /\ root.issuer = e.issuer
  BY <1>3
<1> HIDE DEF root, a
<1>7. Told(h, root)
  BY <1>2, <1>4, <1>5, <1>6 DEF Told
<1> QED
  BY <1>2, <1>6, <1>7 DEF root, a, e

(* What a decision on a grant rests on.                                    *)
LEMMA DecidedIsValid ==
  ASSUME LIInv, NEW h \in Hosts, NEW w \in Workers[h], NEW m \in Exns, Decide(h, w, m),
         m.route = "grant"
  PROVE  Valid(h, m.acdc)
<1> DEFINE c == ReadBy(h, m)
           e == Supply(h, c, m)
           root == EvidenceOf(m, e)
<1>1. Verdict(h, m) = "Ok"
  BY DEF Decide, IpexDisposition
<1>2. c # None
  <2> SUFFICES ASSUME c = None PROVE FALSE
    OBVIOUS
  <2>1. OpeningOf(m)
    BY <1>1, BeginPasses DEF Verdict
  <2> QED
    BY <2>1 DEF OpeningOf
<1>3. IngestVerdict(c, m, e) = "Ok"
  BY <1>1, <1>2 DEF Verdict
<1> HIDE DEF c
<1>4. AnswerTo(c, m) /\ GrantVerdict(c, m, e) = "Ok"
  BY <1>3, IngestPasses
<1>5. m.acdc \in Acdc
  <2>1. m \in Exn /\ m.acdc # None
    BY <1>4, ExchangeAssumption DEF AnswerTo, Sound, Parsed
  <2> QED
    BY <2>1 DEF Exn
<1>6. CredentialVerdict(root, e.chain, Limits) = "Ok"
  <2> DEFINE k == CredentialVerdict(root, e.chain, Limits)
  <2>1. GrantVerdict(c, m, e) =
          IF m.recipient # c.applicant THEN "WrongRecipient"
          ELSE IF m.acdc.said # c.offered THEN "WrongCredential"
          ELSE IF Proven(m, c, e) # "Ok" THEN Proven(m, c, e)
          ELSE IF k # "Ok" THEN k
          ELSE IF BoundToParties(m.acdc, c) # "Ok" THEN BoundToParties(m.acdc, c)
          ELSE Anchored(m, e)
    BY DEF GrantVerdict
  <2> HIDE DEF k, e, root
  <2>2. k = "Ok"
    BY <1>4, <2>1
  <2> QED
    BY <2>2 DEF k
<1>7. Knows(h)
  BY DEF Knows, LIInv, Types
<1>8. Told(h, root) /\ root.body = m.acdc /\ e.chain = ChainFor(h, m.acdc)
  BY <1>5, <1>7, GrantIsTold
<1> HIDE DEF root, e
<1> QED
  BY <1>5, <1>6, <1>7, <1>8, WalkIsSound

(* A grant that a worker takes is of a credential that is valid on what    *)
(* its host accepts at that moment, and so is each credential on each way  *)
(* over its chain: the bounded walk of CredentialVerifier::verify passes   *)
(* nothing else, whatever the graph of the chain.                          *)
THEOREM AlwaysGrantsValid == Spec => GrantsAreValid
<1> DEFINE A == \A h \in Hosts : \A w \in Workers[h] :
                  LET d == desk'[h][w]
                  IN  desk[h][w] = None /\ d # None =>
                        (d.exn.route = "grant" => Valid(h, d.exn.acdc))
<1>1. LIInv /\ Next => A
  <2> SUFFICES ASSUME LIInv, Next,
                      NEW q \in Hosts, NEW v \in Workers[q], desk[q][v] = None, desk'[q][v] # None,
                      desk'[q][v].exn.route = "grant"
               PROVE  Valid(q, desk'[q][v].exn.acdc)
    OBVIOUS
  <2>1. ASSUME NEW h \in Hosts, NEW w \in Workers[h], Commit(h, w) PROVE FALSE
    <3>1. desk' = [desk EXCEPT ![h][w] = None]
      BY <2>1 DEF Commit
    <3>2. DOMAIN desk = Hosts /\ \A r \in Hosts : desk[r] \in [Workers[r] -> Decision \cup {None}]
      BY DEF LIInv, Types
    <3> QED
      BY <3>1, <3>2
  <2>2. ASSUME NEW h \in Hosts, NEW w \in Workers[h], NEW m \in Exns, Decide(h, w, m)
        PROVE  Valid(q, desk'[q][v].exn.acdc)
    <3> DEFINE d == [exn |-> m, read |-> ReadBy(h, m), next |-> Following(h, m)]
    <3>1. desk' = [desk EXCEPT ![h][w] = d] /\ d.exn = m
      BY <2>2 DEF Decide
    <3>2. DOMAIN desk = Hosts /\ \A r \in Hosts : desk[r] \in [Workers[r] -> Decision \cup {None}]
      BY DEF LIInv, Types
    <3> HIDE DEF d
    <3>3. q = h /\ v = w /\ desk'[q][v] = d
      BY <3>1, <3>2
    <3>4. m.route = "grant"
      BY <3>1, <3>3
    <3> QED
      BY <2>2, <3>1, <3>3, <3>4, DecidedIsValid
  <2>3. ASSUME NEW h \in Hosts, NEW f \in Facts[h], Learn(h, f) PROVE FALSE
    BY <2>3 DEF Learn
  <2>4. ASSUME NEW h \in Hosts, Crash(h) PROVE FALSE
    <3>1. desk' = [desk EXCEPT ![h] = [w \in Workers[h] |-> None]]
      BY <2>4 DEF Crash
    <3>2. DOMAIN desk = Hosts
      BY DEF LIInv, Types
    <3> QED
      BY <3>1, <3>2
  <2> QED
    BY <2>1, <2>2, <2>3, <2>4 DEF Next
<1>2. LIInv /\ [Next]_vars => [A]_vars
  BY <1>1
<1> HIDE DEF A
<1>3. Spec => [][A]_vars
  BY <1>2, LocalInvariant, PTL DEF Spec
<1> QED
  BY <1>3 DEF GrantsAreValid, A

-----------------------------------------------------------------------------
(* The walk on less and on more evidence. Evidence that came to be known   *)
(* was missing before; a head that is an issuance was the head before.     *)
Grown(e, f) ==
  /\ e.body = f.body
  /\ e.schema \in {None, f.schema} /\ e.registry \in {None, f.registry}
  /\ e.issuer \in {None, f.issuer}
  /\ f.state # None /\ f.state.status # "Revoked" => e.state \in {None, f.state}

(* What the later host finds once, the earlier found once or not at all.   *)
GrownChain(chain, later) ==
  \A said, two : Named(later, said) = {two} =>
    \/ Named(chain, said) = {}
    \/ \E one : Named(chain, said) = {one} /\ Grown(one.evidence, two.evidence)

GrownFrame(x, y) ==
  Grown(x.of, y.of) /\ x.claim = y.claim /\ x.path = y.path /\ x.visited = y.visited

(* Of two results: where the later passes, the earlier is the same or      *)
(* waits for a fact.                                                       *)
NoLess(r, s) == s.verdict = "Ok" => r = s \/ r.verdict \in AwaitedFacts

LEMMA OwnGrows ==
  ASSUME NEW x, NEW y, GrownFrame(x, y), OwnVerdict(y) = "Ok"
  PROVE  OwnVerdict(x) \in AwaitedFacts \cup {"Ok"}
<1> DEFINE c == x.of.body
           e == x.of
           f == y.of
<1>1. /\ y.of.body = c /\ x.claim = y.claim /\ x.path = y.path
      /\ e.schema \in {None, f.schema} /\ e.registry \in {None, f.registry}
      /\ e.issuer \in {None, f.issuer}
      /\ f.state # None /\ f.state.status # "Revoked" => e.state \in {None, f.state}
  BY DEF GrownFrame, Grown
<1>2. /\ f.schema # "rejects" /\ y.claim \in {None, c.said}
      /\ c.said \notin y.path /\ c.rules \notin {"said", "block"} /\ StatusVerdict(c, f) = "Ok"
  BY <1>1 DEF OwnVerdict
<1> HIDE DEF c, f
<1>3. /\ f.state # None /\ c.registry # None
      /\ c.registry = f.registry.id /\ c.issuer = f.registry.issuer /\ f.issuer = c.issuer
      /\ f.state.registry = f.registry.id /\ f.state.credential = c.said /\ f.state.status # "Revoked"
  BY <1>2 DEF StatusVerdict
<1>4. None # "rejects"
  BY NoneIsNoWord
<1> HIDE DEF e
<1>5. StatusVerdict(c, e) \in AwaitedFacts \cup {"Ok"}
  BY <1>1, <1>3 DEF StatusVerdict, AwaitedFacts
<1>6. OwnVerdict(x) = IF e.schema = None THEN "MissingSchema"
      ELSE IF e.schema = "rejects" THEN "Schema"
      ELSE IF x.claim \notin {None, c.said} THEN "ChainClaimMismatch"
      ELSE IF c.said \in x.path THEN "Cycle"
      ELSE IF c.rules \in {"said", "block"} THEN "UnsupportedForm"
      ELSE StatusVerdict(c, e)
  BY DEF OwnVerdict, c, e
<1>7. "MissingSchema" \in AwaitedFacts
  BY DEF AwaitedFacts
<1> QED
  BY <1>1, <1>2, <1>4, <1>5, <1>6, <1>7

LevelGrows(g, k) ==
  \A x, y \in Frames : GrownFrame(x, y) => NoLess(g[x], k[y])

(* Following one edge.                                                     *)
LEMMA FollowedGrows ==
  ASSUME NEW chain \in Chains, NEW later \in Chains, GrownChain(chain, later),
         NEW g, NEW k, LevelGrows(g, k),
         NEW x \in Frames, NEW y \in Frames, GrownFrame(x, y),
         NEW edge \in Edge, NEW v \in Nat
  PROVE  NoLess(Followed(g, edge, x, chain, v), Followed(k, edge, y, later, v))
<1> DEFINE seen == Named(chain, edge.n)
           found == Named(later, edge.n)
           one == CHOOSE z \in seen : TRUE
           two == CHOOSE z \in found : TRUE
           p == [of |-> one.evidence, claim |-> edge.n, path |-> Path(x), visited |-> v]
           q == [of |-> two.evidence, claim |-> edge.n, path |-> Path(y), visited |-> v]
           r == Followed(g, edge, x, chain, v)
           s == Followed(k, edge, y, later, v)
<1> SUFFICES ASSUME s.verdict = "Ok" PROVE r = s \/ r.verdict \in AwaitedFacts
  BY DEF NoLess
<1>1. x.of.body = y.of.body /\ Path(x) = Path(y)
  BY DEF GrownFrame, Grown, Path
<1>2. /\ edge.o \in Operators /\ edge.n \notin Path(y) /\ found = {two} /\ k[q].verdict = "Ok"
      /\ HeldByIssuer(edge, two.evidence.body, y.of.body.issuer) /\ s = k[q]
  <2> HIDE DEF found, two, q
  <2>1. s = IF edge.o \notin Operators THEN Result("UnsupportedOperator", v)
            ELSE IF edge.n \in Path(y) THEN Result("Cycle", v)
            ELSE IF found = {} THEN Result("MissingChain", v)
            ELSE IF found # {two} THEN Result("AmbiguousChain", v)
            ELSE IF k[q].verdict = "Ok" /\ ~HeldByIssuer(edge, two.evidence.body, y.of.body.issuer)
                 THEN Result("WrongIssuee", k[q].visited)
                 ELSE k[q]
    BY DEF Followed, found, two, q
  <2>2. \A w \in {"UnsupportedOperator", "Cycle", "MissingChain", "AmbiguousChain", "WrongIssuee"} :
          \A n : Result(w, n).verdict # "Ok"
    BY DEF Result
  <2>3. s.verdict = "Ok"
    OBVIOUS
  <2> HIDE DEF s
  <2> QED
    BY <2>1, <2>2, <2>3
<1>3. r = IF edge.o \notin Operators THEN Result("UnsupportedOperator", v)
          ELSE IF edge.n \in Path(x) THEN Result("Cycle", v)
          ELSE IF seen = {} THEN Result("MissingChain", v)
          ELSE IF seen # {one} THEN Result("AmbiguousChain", v)
          ELSE IF g[p].verdict = "Ok" /\ ~HeldByIssuer(edge, one.evidence.body, x.of.body.issuer)
               THEN Result("WrongIssuee", g[p].visited)
               ELSE g[p]
  BY DEF Followed
<1> HIDE DEF r, s, p, q
<1>4. CASE seen = {}
  <2>1. r = Result("MissingChain", v)
    <3> HIDE DEF seen
    <3> QED
      BY <1>1, <1>2, <1>3, <1>4
  <2> QED
    BY <2>1 DEF Result, AwaitedFacts
<1>5. CASE seen # {}
  <2>1. PICK a : seen = {a} /\ Grown(a.evidence, two.evidence)
    BY <1>2, <1>5 DEF GrownChain
  <2>2. one = a /\ one \in seen /\ seen = {one} /\ Grown(one.evidence, two.evidence)
    BY <2>1
  <2>3. one \in chain /\ two \in later
    BY <1>2, <2>2 DEF Named
  <2> HIDE DEF one, two, seen, found
  <2>4. p \in Frames /\ q \in Frames
    <3>1. edge.n \in Saids /\ Path(x) \in SUBSET Saids /\ Path(y) \in SUBSET Saids
      BY FrameParts DEF Edge
    <3> QED
      BY <2>3, <3>1 DEF p, q, Chains, Frames
  <2>5. GrownFrame(p, q)
    BY <1>1, <2>2 DEF GrownFrame, p, q
  <2>6. g[p] = s \/ g[p].verdict \in AwaitedFacts
    BY <1>2, <2>4, <2>5 DEF LevelGrows, NoLess
  <2>7. one.evidence.body = two.evidence.body
    BY <2>2 DEF Grown
  <2>8. r = g[p]
    <3>1. g[p].verdict = "Ok" => HeldByIssuer(edge, one.evidence.body, x.of.body.issuer)
      BY <1>1, <1>2, <2>7
    <3> HIDE DEF p
    <3> QED
      BY <1>1, <1>2, <1>3, <1>5, <2>2, <3>1
  <2> QED
    BY <2>6, <2>8
<1> QED
  BY <1>4, <1>5

LEMMA FollowedAfterGrows ==
  ASSUME NEW chain \in Chains, NEW later \in Chains, GrownChain(chain, later),
         NEW g, NEW k, LevelGrows(g, k),
         NEW x \in Frames, NEW y \in Frames, GrownFrame(x, y),
         NEW i \in 1..Len(y.of.body.edges),
         NEW d \in Results, NEW e \in Results, NoLess(d, e)
  PROVE  NoLess(FollowedAfter(g, x, chain, d, i), FollowedAfter(k, y, later, e, i))
<1>1. x.of.body = y.of.body
  BY DEF GrownFrame, Grown
<1>2. y.of.body.edges[i] \in Edge /\ e.visited \in Nat
  BY FrameParts DEF Results
<1> DEFINE edge == y.of.body.edges[i]
           s == FollowedAfter(k, y, later, e, i)
           r == FollowedAfter(g, x, chain, d, i)
<1>3. s = IF e.verdict # "Ok" THEN e ELSE Followed(k, edge, y, later, e.visited)
  BY DEF FollowedAfter
<1>4. r = IF d.verdict # "Ok" THEN d ELSE Followed(g, edge, x, chain, d.visited)
  BY <1>1 DEF FollowedAfter
<1> HIDE DEF r, s, edge
<1>5. NoLess(Followed(g, edge, x, chain, e.visited), Followed(k, edge, y, later, e.visited))
  <2> DEFINE v == e.visited
  <2>1. v \in Nat /\ edge \in Edge
    BY <1>2 DEF edge
  <2> HIDE DEF v
  <2>2. NoLess(Followed(g, edge, x, chain, v), Followed(k, edge, y, later, v))
    BY <2>1, FollowedGrows
  <2> QED
    BY <2>2 DEF v
<1>6. NoLess(r, s)
  <2>1. "Ok" \notin AwaitedFacts
    BY DEF AwaitedFacts
  <2> QED
    BY <1>3, <1>4, <1>5, <2>1 DEF NoLess
<1> QED
  BY <1>6 DEF r, s

LEMMA EdgesGrow ==
  ASSUME NEW chain \in Chains, NEW later \in Chains, GrownChain(chain, later),
         NEW g \in [Frames -> Results], NEW k \in [Frames -> Results], LevelGrows(g, k),
         NEW x \in Frames, NEW y \in Frames, GrownFrame(x, y), NEW v \in Nat
  PROVE  NoLess(Edges(g, x, chain, v), Edges(k, y, later, v))
<1> DEFINE b == y.of.body
           N == Len(b.edges)
<1>1. x.of.body = b /\ N \in Nat
  BY FrameParts DEF GrownFrame, Grown
<1>2. PICK done : Traced(done, g, x, chain, v)
  BY EdgesUnfold
<1>3. PICK ended : Traced(ended, k, y, later, v)
  BY EdgesUnfold
<1>a. /\ done \in [0..N -> Results] /\ done[0] = Result("Ok", v)
      /\ \A i \in 1..N : done[i] = FollowedAfter(g, x, chain, done[i - 1], i)
      /\ Edges(g, x, chain, v) =
           IF b.form \in {"said", "grouped"} THEN Result("UnsupportedForm", v) ELSE done[N]
  BY <1>1, <1>2 DEF Traced
<1>b. /\ ended \in [0..N -> Results] /\ ended[0] = Result("Ok", v)
      /\ \A i \in 1..N : ended[i] = FollowedAfter(k, y, later, ended[i - 1], i)
      /\ Edges(k, y, later, v) =
           IF b.form \in {"said", "grouped"} THEN Result("UnsupportedForm", v) ELSE ended[N]
  BY <1>3 DEF Traced
<1> DEFINE G == {i \in 0..N : NoLess(done[i], ended[i])}
<1>4. 0 \in G
  BY <1>1, <1>a, <1>b DEF NoLess
<1>5. ASSUME NEW i \in 1..N, i - 1 \in G PROVE i \in G
  <2> DEFINE d == done[i - 1]
             e == ended[i - 1]
  <2>1. i - 1 \in 0..N /\ i \in 0..N
    BY <1>1
  <2>2. d \in Results /\ e \in Results /\ NoLess(d, e)
    <3> HIDE DEF N
    <3> QED
      BY <1>a, <1>b, <1>5, <2>1
  <2>3. done[i] = FollowedAfter(g, x, chain, d, i) /\ ended[i] = FollowedAfter(k, y, later, e, i)
    BY <1>a, <1>b
  <2>4. i \in 1..Len(y.of.body.edges)
    OBVIOUS
  <2> HIDE DEF d, e
  <2>5. NoLess(done[i], ended[i])
    BY <2>2, <2>3, <2>4, FollowedAfterGrows
  <2> QED
    BY <2>1, <2>5
<1>6. NoLess(done[N], ended[N])
  <2>1. N \in 0..N
    BY <1>1
  <2> HIDE DEF G, N
  <2>2. N \in G
    BY <1>1, <1>4, <1>5, <2>1, StepUp
  <2> QED
    BY <2>2 DEF G
<1> HIDE DEF N, b
<1> QED
  BY <1>a, <1>b, <1>6 DEF NoLess

LEMMA LayerGrows ==
  ASSUME NEW chain \in Chains, NEW later \in Chains, GrownChain(chain, later), NEW limits,
         NEW g \in [Frames -> Results], NEW k \in [Frames -> Results], LevelGrows(g, k)
  PROVE  LevelGrows(Layer(g, chain, limits), Layer(k, later, limits))
<1> SUFFICES ASSUME NEW x \in Frames, NEW y \in Frames, GrownFrame(x, y)
             PROVE  NoLess(Visit(g, x, chain, limits), Visit(k, y, later, limits))
  BY DEF LevelGrows, Layer
<1> DEFINE v == x.visited + 1
           E == Edges(g, x, chain, v)
           F == Edges(k, y, later, v)
           o == OwnVerdict(x)
           u == OwnVerdict(y)
           r == Visit(g, x, chain, limits)
           s == Visit(k, y, later, limits)
           over == x.visited >= limits.nodes \/ x.of.body.size > limits.bytes
<1>1. x.of.body = y.of.body /\ x.visited = y.visited /\ x.visited \in Nat
  BY FrameParts DEF GrownFrame, Grown
<1>2. r = IF over THEN Result("ResourceLimit", x.visited)
          ELSE IF o # "Ok" THEN Result(o, v) ELSE E
  BY DEF Visit, Spent
<1>3. s = IF over THEN Result("ResourceLimit", x.visited)
          ELSE IF u # "Ok" THEN Result(u, v) ELSE F
  BY <1>1 DEF Visit, Spent
<1>4. NoLess(E, F)
  <2>1. v \in Nat
    BY <1>1
  <2> HIDE DEF v
  <2> QED
    BY <2>1, EdgesGrow
<1>5. u = "Ok" => o \in AwaitedFacts \cup {"Ok"}
  BY OwnGrows
<1>6. \A w, n : Result(w, n).verdict = w
  BY DEF Result
<1> HIDE DEF r, s, E, F, o, u, over, v
<1>7. NoLess(r, s)
  BY <1>2, <1>3, <1>4, <1>5, <1>6 DEF NoLess
<1> QED
  BY <1>7 DEF r, s

(* A verdict that passes on more evidence passed before or waited.         *)
LEMMA VerdictGrows ==
  ASSUME NEW chain \in Chains, NEW later \in Chains, GrownChain(chain, later),
         Cardinality(chain) \in Nat, Cardinality(later) \in Nat, Cardinality(chain) <= Cardinality(later),
         NEW e \in Evidence, NEW f \in Evidence, Grown(e, f),
         CredentialVerdict(f, later, Limits) = "Ok"
  PROVE  CredentialVerdict(e, chain, Limits) \in AwaitedFacts \cup {"Ok"}
<1> DEFINE N == Limits.depth + 1
           x == [of |-> e, claim |-> None, path |-> {}, visited |-> 0]
           y == [of |-> f, claim |-> None, path |-> {}, visited |-> 0]
<1>1. Limits.depth \in Nat /\ Limits.nodes \in Nat /\ N \in Nat
  BY LimitsAssumption
<1>2. PICK g \in [0..N -> [Frames -> Results]] :
        /\ g[0] = TooDeep
        /\ \A n \in 1..N : g[n] = Layer(g[n - 1], chain, Limits)
        /\ Walk(chain, Limits) = g[N]
  BY <1>1, WalkUnfold
<1>3. PICK k \in [0..N -> [Frames -> Results]] :
        /\ k[0] = TooDeep
        /\ \A n \in 1..N : k[n] = Layer(k[n - 1], later, Limits)
        /\ Walk(later, Limits) = k[N]
  BY <1>1, WalkUnfold
<1> DEFINE G == {n \in 0..N : LevelGrows(g[n], k[n])}
<1>4. x \in Frames /\ y \in Frames /\ GrownFrame(x, y)
  BY DEF Frames, GrownFrame
<1> HIDE DEF N, x, y
<1>5. 0 \in G
  <2>1. \A z \in Frames : TooDeep[z].verdict # "Ok"
    BY DEF TooDeep, Result
  <2>2. 0 \in 0..N
    BY <1>1
  <2> QED
    BY <1>2, <1>3, <2>1, <2>2 DEF LevelGrows, NoLess
<1>6. ASSUME NEW n \in 1..N, n - 1 \in G PROVE n \in G
  <2> DEFINE a == g[n - 1]
             b == k[n - 1]
  <2>1. n - 1 \in 0..N /\ n \in 0..N
    BY <1>1
  <2>2. /\ a \in [Frames -> Results] /\ b \in [Frames -> Results] /\ LevelGrows(a, b)
        /\ g[n] = Layer(a, chain, Limits) /\ k[n] = Layer(b, later, Limits)
    BY <1>2, <1>3, <1>6, <2>1
  <2> HIDE DEF a, b
  <2>3. LevelGrows(Layer(a, chain, Limits), Layer(b, later, Limits))
    BY <2>2, LayerGrows
  <2> QED
    BY <2>1, <2>2, <2>3
<1>7. LevelGrows(g[N], k[N])
  <2>1. N \in 0..N
    BY <1>1
  <2> HIDE DEF G
  <2>2. N \in G
    BY <1>1, <1>5, <1>6, <2>1, StepUp
  <2> QED
    BY <2>2 DEF G
<1>8. NoLess(Walk(chain, Limits)[x], Walk(later, Limits)[y])
  BY <1>2, <1>3, <1>4, <1>7 DEF LevelGrows
<1> DEFINE r == Walk(chain, Limits)[x].verdict
           s == Walk(later, Limits)[y].verdict
<1>9. CredentialVerdict(e, chain, Limits) =
        IF ~Permitted(Limits) \/ Cardinality(chain) >= Limits.nodes THEN "ResourceLimit" ELSE r
  BY DEF CredentialVerdict, x
<1>10. CredentialVerdict(f, later, Limits) =
        IF ~Permitted(Limits) \/ Cardinality(later) >= Limits.nodes THEN "ResourceLimit" ELSE s
  BY DEF CredentialVerdict, y
<1>11. s = "Ok" => r \in AwaitedFacts \cup {"Ok"}
  BY <1>8 DEF NoLess
<1> HIDE DEF r, s
<1> DEFINE p == Cardinality(chain)
           q == Cardinality(later)
<1>12. p \in Nat /\ q \in Nat /\ p <= q
  OBVIOUS
<1> HIDE DEF p, q
<1>13. Permitted(Limits) /\ ~(q >= Limits.nodes) /\ s = "Ok"
  BY <1>10 DEF q
<1>14. ~(p >= Limits.nodes)
  BY <1>1, <1>12, <1>13
<1> QED
  BY <1>9, <1>11, <1>13, <1>14 DEF p

-----------------------------------------------------------------------------
(* What a host has accepted, before and after.                             *)
KnownWell ==
  \A h : Knows(h) =>
    /\ Accepted(h, "body") \subseteq Acdc
    /\ Accepted(h, "tel") \subseteq CredentialHead
    /\ \A r, s \in Accepted(h, "registry") : r.id = s.id => r = s
    /\ \A s, t \in Accepted(h, "tel") : s.credential = t.credential =>
         (s.status = "Issued" <=> s.sn = 0) /\ (s.sn = t.sn => s = t)
    /\ \A a : ChainFor(h, a) \in Chains
    /\ \A b \in Acdc : NodeFor(h, b) \in Evidence

LEMMA AllKnownWell == KnownWell
<1> SUFFICES ASSUME NEW h, Knows(h)
    PROVE /\ Accepted(h, "body") \subseteq Acdc
          /\ Accepted(h, "tel") \subseteq CredentialHead
          /\ \A r, s \in Accepted(h, "registry") : r.id = s.id => r = s
          /\ \A s, t \in Accepted(h, "tel") : s.credential = t.credential =>
               (s.status = "Issued" <=> s.sn = 0) /\ (s.sn = t.sn => s = t)
          /\ \A a : ChainFor(h, a) \in Chains
          /\ \A b \in Acdc : NodeFor(h, b) \in Evidence
  BY DEF KnownWell
<1> QED
  BY AcceptedTyped, ChainTyped, NodeIsTold

LEMMA KnownWellNext == KnownWell'
BY AllKnownWell, PTL

Learns(h) == Knows(h) /\ Knows(h)' /\ known[h] \subseteq known'[h]

LEMMA AcceptedGrows ==
  ASSUME NEW h, Learns(h), NEW kind
  PROVE  Accepted(h, kind) \subseteq Accepted(h, kind)'
BY DEF Learns, Accepted

LEMMA SuppliedGrows ==
  ASSUME NEW h, Learns(h), NEW a, NEW i
  PROVE  /\ KelOf(h, i) \in {None, KelOf(h, i)'}
         /\ SchemaFor(h, a) \in {None, SchemaFor(h, a)'}
         /\ RegistryFor(h, a) \in {None, RegistryFor(h, a)'}
         /\ HeadFor(h, a)' # None /\ HeadFor(h, a)'.status # "Revoked" =>
              HeadFor(h, a) \in {None, HeadFor(h, a)'}
<1>1. KelOf(h, i) \in {None, KelOf(h, i)'}
  <2>1. Accepted(h, "kel") \subseteq Accepted(h, "kel")'
    BY AcceptedGrows
  <2> QED
    BY <2>1 DEF KelOf
<1>2. SchemaFor(h, a) \in {None, SchemaFor(h, a)'}
  <2>1. Accepted(h, "schema") \subseteq Accepted(h, "schema")'
    BY AcceptedGrows
  <2> QED
    BY <2>1 DEF SchemaFor
<1>3. RegistryFor(h, a) \in {None, RegistryFor(h, a)'}
  <2> DEFINE S == {r \in Accepted(h, "registry") : r.id = a.registry}
             T == {r \in Accepted(h, "registry")' : r.id = a.registry}
  <2>1. Accepted(h, "registry") \subseteq Accepted(h, "registry")'
    BY AcceptedGrows
  <2>2. \A r, s \in T : r = s
    BY KnownWellNext DEF KnownWell, Learns
  <2>3. RegistryFor(h, a) = OneOf(S) /\ RegistryFor(h, a)' = OneOf(T)
    BY DEF RegistryFor, OneOf
  <2>4. S \subseteq T
    BY <2>1
  <2> HIDE DEF S, T
  <2> QED
    BY <2>2, <2>3, <2>4 DEF OneOf
<1>4. ASSUME HeadFor(h, a)' # None, HeadFor(h, a)'.status # "Revoked"
      PROVE  HeadFor(h, a) \in {None, HeadFor(h, a)'}
  <2> DEFINE log == {s \in Accepted(h, "tel") : s.credential = a.said}
             then == {s \in Accepted(h, "tel")' : s.credential = a.said}
             S == {s \in log : \A t \in log : t.sn <= s.sn}
             T == {s \in then : \A t \in then : t.sn <= s.sn}
             one == HeadFor(h, a)
             two == HeadFor(h, a)'
  <2>1. one = OneOf(S) /\ two = OneOf(T)
    BY DEF HeadFor, OneOf
  <2>2. two \in T
    <3> HIDE DEF T
    <3> QED
      BY <1>4, <2>1, Oneself
  <2>3. one # None => one \in S
    <3> HIDE DEF S
    <3> QED
      BY <2>1, Oneself
  <2> HIDE DEF one, two
  <2>4. log \subseteq then
    BY AcceptedGrows
  <2>5. /\ then \subseteq CredentialHead
        /\ \A s, t \in then : (s.status = "Issued" <=> s.sn = 0) /\ (s.sn = t.sn => s = t)
    BY KnownWellNext DEF KnownWell, Learns
  <2>6. ASSUME one # None PROVE one = two
    <3>1. one \in then /\ two \in then /\ one.sn <= two.sn
      BY <2>2, <2>3, <2>4, <2>6
    <3>2. one.sn \in Nat /\ two.status = "Issued"
      BY <1>4, <2>5, <3>1 DEF CredentialHead, two
    <3>3. two.sn = 0
      BY <2>5, <3>1, <3>2
    <3>4. one.sn = two.sn
      BY <3>1, <3>2, <3>3
    <3> QED
      BY <2>5, <3>1, <3>4
  <2> QED
    BY <2>6 DEF one, two
<1> QED
  BY <1>1, <1>2, <1>3, <1>4

LEMMA NodeGrows ==
  ASSUME NEW h, Learns(h), NEW b
  PROVE  Grown(NodeFor(h, b), NodeFor(h, b)')
<1> DEFINE e == NodeFor(h, b)
           f == NodeFor(h, b)'
<1>1. /\ e.body = b /\ e.schema = SchemaFor(h, b) /\ e.registry = RegistryFor(h, b)
      /\ e.state = HeadFor(h, b) /\ e.issuer = KelOf(h, b.issuer)
  BY DEF NodeFor
<1>2. /\ f.body = b /\ f.schema = SchemaFor(h, b)' /\ f.registry = RegistryFor(h, b)'
      /\ f.state = HeadFor(h, b)' /\ f.issuer = KelOf(h, b.issuer)'
  BY DEF NodeFor
<1> HIDE DEF e, f
<1>3. Grown(e, f)
  BY <1>1, <1>2, SuppliedGrows DEF Grown
<1> QED
  BY <1>3 DEF e, f

(* A credential other than the one in question, as the host has it.        *)
LinkFor(h, b) == [said |-> b.said, evidence |-> NodeFor(h, b)]

LEMMA Links ==
  ASSUME NEW h, NEW b
  PROVE  /\ LinkFor(h, b).said = b.said /\ LinkFor(h, b).evidence = NodeFor(h, b)
         /\ LinkFor(h, b)'.said = b.said /\ LinkFor(h, b)'.evidence = NodeFor(h, b)'
         /\ NodeFor(h, b).body = b /\ NodeFor(h, b)'.body = b
<1>1. LinkFor(h, b).said = b.said /\ LinkFor(h, b).evidence = NodeFor(h, b)
  BY DEF LinkFor
<1>2. LinkFor(h, b)'.said = b.said /\ LinkFor(h, b)'.evidence = NodeFor(h, b)'
  <2> DEFINE e == NodeFor(h, b)'
  <2>1. LinkFor(h, b)' = [said |-> b.said, evidence |-> e]
    BY DEF LinkFor
  <2> HIDE DEF e
  <2>2. [said |-> b.said, evidence |-> e].said = b.said /\ [said |-> b.said, evidence |-> e].evidence = e
    OBVIOUS
  <2> QED
    BY <2>1, <2>2 DEF e
<1>3. NodeFor(h, b).body = b /\ NodeFor(h, b)'.body = b
  BY DEF NodeFor
<1> QED
  BY <1>1, <1>2, <1>3

LEMMA ChainHas ==
  ASSUME NEW h, NEW a
  PROVE  /\ \A k \in ChainFor(h, a) : \E b \in Accepted(h, "body") \ {a} : k = LinkFor(h, b)
         /\ \A b \in Accepted(h, "body") \ {a} : LinkFor(h, b) \in ChainFor(h, a)
         /\ \A b \in Accepted(h, "body")' \ {a} : LinkFor(h, b)' \in ChainFor(h, a)'
<1>1. ChainFor(h, a) = {LinkFor(h, b) : b \in Accepted(h, "body") \ {a}}
  BY DEF ChainFor, LinkFor
<1>2. ChainFor(h, a)' = {LinkFor(h, b)' : b \in Accepted(h, "body")' \ {a}}
  BY DEF ChainFor, LinkFor
<1> QED
  BY <1>1, <1>2

LEMMA ChainGrows ==
  ASSUME NEW h, Learns(h), NEW a
  PROVE  GrownChain(ChainFor(h, a), ChainFor(h, a)')
<1> DEFINE C == ChainFor(h, a)
           D == ChainFor(h, a)'
<1> SUFFICES ASSUME NEW said, NEW two, Named(D, said) = {two}, Named(C, said) # {}
             PROVE  \E one : Named(C, said) = {one} /\ Grown(one.evidence, two.evidence)
  BY DEF GrownChain
<1>1. ASSUME NEW k \in Named(C, said)
      PROVE  \E b : k = LinkFor(h, b) /\ two = LinkFor(h, b)'
  <2>1. PICK b \in Accepted(h, "body") \ {a} : k = LinkFor(h, b)
    BY ChainHas DEF Named
  <2>2. b.said = said
    BY <2>1, Links DEF Named
  <2>3. b \in Accepted(h, "body")'
    BY AcceptedGrows
  <2>4. LinkFor(h, b)' \in D
    BY <2>3, ChainHas
  <2>5. LinkFor(h, b)' \in Named(D, said)
    BY <2>2, <2>4, Links DEF Named
  <2> QED
    BY <2>1, <2>5
<1> HIDE DEF C, D
<1>2. PICK one : one \in Named(C, said)
  OBVIOUS
<1>3. PICK b : one = LinkFor(h, b) /\ two = LinkFor(h, b)'
  BY <1>1, <1>2
<1>4. ASSUME NEW k \in Named(C, said) PROVE k = one
  <2>1. PICK d : k = LinkFor(h, d) /\ two = LinkFor(h, d)'
    BY <1>1
  <2>2. \A z : LinkFor(h, z)'.evidence.body = z
    <3> SUFFICES ASSUME NEW z PROVE LinkFor(h, z)'.evidence.body = z
      OBVIOUS
    <3>1. LinkFor(h, z)'.evidence = NodeFor(h, z)' /\ NodeFor(h, z)'.body = z
      BY Links
    <3> QED
      BY <3>1
  <2>3. two.evidence.body = d
    BY <2>1, <2>2
  <2>4. two.evidence.body = b
    BY <1>3, <2>2
  <2> QED
    BY <1>3, <2>1, <2>3, <2>4
<1>5. Grown(one.evidence, two.evidence)
  BY <1>3, Links, NodeGrows
<1> QED
  BY <1>2, <1>4, <1>5

(* A host's chain is finite and does not shrink.                           *)
ChainFinite == \A h : IsFiniteSet(known[h]) => \A a : IsFiniteSet(ChainFor(h, a))

LEMMA AllChainFinite == ChainFinite
<1> SUFFICES ASSUME NEW h, IsFiniteSet(known[h]), NEW a PROVE IsFiniteSet(ChainFor(h, a))
  BY DEF ChainFinite
<1> DEFINE S == {g \in known[h] : g[1] = "body" /\ g[2] # a}
           C == ChainFor(h, a)
           f == [g \in S |-> LinkFor(h, g[2])]
<1>1. IsFiniteSet(S)
  <2>1. S \in SUBSET known[h]
    OBVIOUS
  <2> HIDE DEF S
  <2> QED
    BY <2>1, FS_Subset
<1>2. \A g \in S : g[2] \in Accepted(h, "body") \ {a}
  BY DEF Accepted
<1>3. \A g \in S : LinkFor(h, g[2]) \in C
  BY <1>2, ChainHas
<1>4. ASSUME NEW k \in C PROVE \E g \in S : LinkFor(h, g[2]) = k
  <2>1. PICK b \in Accepted(h, "body") \ {a} : k = LinkFor(h, b)
    BY ChainHas
  <2>2. PICK g \in known[h] : g[1] = "body" /\ g[2] = b
    BY DEF Accepted
  <2>3. g \in S
    BY <2>1, <2>2
  <2> QED
    BY <2>1, <2>2, <2>3
<1> HIDE DEF S, C
<1>5. f \in [S -> C] /\ \A k \in C : \E g \in S : f[g] = k
  BY <1>3, <1>4
<1>6. f \in Surjection(S, C)
  BY <1>5 DEF Surjection
<1> HIDE DEF f
<1> QED
  BY <1>1, <1>6, FS_Surjection DEF C

LEMMA ChainFiniteNext == ChainFinite'
BY AllChainFinite, PTL

LEMMA ChainNoSmaller ==
  ASSUME NEW h, Learns(h), IsFiniteSet(known'[h]), NEW a
  PROVE  /\ Cardinality(ChainFor(h, a)) \in Nat /\ Cardinality(ChainFor(h, a)') \in Nat
         /\ Cardinality(ChainFor(h, a)) <= Cardinality(ChainFor(h, a)')
<1> DEFINE C == ChainFor(h, a)
           D == ChainFor(h, a)'
           f == [k \in C |-> LinkFor(h, k.evidence.body)']
<1>1. IsFiniteSet(D)
  BY ChainFiniteNext DEF ChainFinite
<1>2. ASSUME NEW k \in C
      PROVE  /\ k = LinkFor(h, k.evidence.body) /\ LinkFor(h, k.evidence.body)' \in D
             /\ LinkFor(h, k.evidence.body)'.evidence.body = k.evidence.body
  <2>1. PICK b \in Accepted(h, "body") \ {a} : k = LinkFor(h, b)
    BY ChainHas
  <2>2. k.evidence.body = b
    BY <2>1, Links
  <2>3. b \in Accepted(h, "body")' \ {a}
    BY AcceptedGrows
  <2>4. LinkFor(h, b)' \in D
    BY <2>3, ChainHas
  <2> QED
    BY <2>1, <2>2, <2>4, Links
<1> HIDE DEF C, D
<1>3. f \in [C -> D] /\ \A k, l \in C : f[k] = f[l] => k = l
  <2>1. f \in [C -> D]
    BY <1>2
  <2>2. ASSUME NEW k \in C, NEW l \in C, f[k] = f[l] PROVE k = l
    <3>1. LinkFor(h, k.evidence.body)' = LinkFor(h, l.evidence.body)'
      BY <2>2
    <3>2. k.evidence.body = l.evidence.body
      BY <1>2, <3>1
    <3> QED
      BY <1>2, <3>2
  <2> QED
    BY <2>1, <2>2
<1>4. f \in Injection(C, D)
  <2> HIDE DEF f
  <2> QED
    BY <1>3 DEF Injection, IsInjective
<1> HIDE DEF f
<1>5. IsFiniteSet(C) /\ Cardinality(C) <= Cardinality(D)
  BY <1>1, <1>4, FS_Injection
<1> QED
  BY <1>1, <1>5, FS_CardinalityType DEF C, D

-----------------------------------------------------------------------------
(* The judgment of one message on less and on more evidence.               *)
SuppliedMore(e, f) ==
  /\ e.sender \in {None, f.sender} /\ e.schema \in {None, f.schema}
  /\ e.registry \in {None, f.registry} /\ e.issuer \in {None, f.issuer}
  /\ f.state # None /\ f.state.status # "Revoked" => e.state \in {None, f.state}

(* Not refused for good: a later fact may make it acceptable.              *)
Hopeful(v) == IpexDisposition(v) # "Terminal" \/ v = "AnchorMismatch"

LEMMA HopefulOnes ==
  /\ Hopeful("Ok") /\ Hopeful("MissingSenderState") /\ Hopeful("MissingProofIssuer")
  /\ Hopeful("MissingAnchorState") /\ Hopeful("MissingConversation")
  /\ Hopeful("AnchorMismatch") /\ \A v \in AwaitedFacts : Hopeful(v)
  /\ Hopeful("MissingSchema") /\ Hopeful("MissingCredentialState")
BY DEF Hopeful, IpexDisposition, AwaitedFacts

(* What a walk passes has a status of its own.                             *)
LEMMA PassedHasStatus ==
  ASSUME NEW chain \in Chains, NEW root \in Evidence, CredentialVerdict(root, chain, Limits) = "Ok"
  PROVE  root.state # None /\ root.state.status # "Revoked"
<1> DEFINE N == Limits.depth + 1
           x == [of |-> root, claim |-> None, path |-> {}, visited |-> 0]
<1>1. Limits.depth \in Nat /\ N \in Nat /\ N \in 1..N /\ N - 1 \in 0..N
  BY LimitsAssumption
<1>2. PICK g \in [0..N -> [Frames -> Results]] :
        /\ g[0] = TooDeep
        /\ \A n \in 1..N : g[n] = Layer(g[n - 1], chain, Limits)
        /\ Walk(chain, Limits) = g[N]
  BY <1>1, WalkUnfold
<1>3. x \in Frames /\ x.of = root
  BY DEF Frames
<1> HIDE DEF N
<1> DEFINE k == g[N - 1]
           r == Visit(k, x, chain, Limits)
<1>4. Walk(chain, Limits)[x] = r
  <2>1. Walk(chain, Limits) = Layer(k, chain, Limits)
    BY <1>1, <1>2
  <2> HIDE DEF k, x
  <2>2. Layer(k, chain, Limits)[x] = r
    BY <1>3 DEF Layer
  <2> QED
    BY <2>1, <2>2
<1>5. r.verdict = "Ok"
  <2> DEFINE v == Walk(chain, Limits)[x].verdict
  <2>1. CredentialVerdict(root, chain, Limits) =
          IF ~Permitted(Limits) \/ Cardinality(chain) >= Limits.nodes THEN "ResourceLimit" ELSE v
    BY DEF CredentialVerdict
  <2> HIDE DEF v
  <2>2. v = "Ok"
    BY <2>1
  <2> QED
    BY <1>4, <2>2 DEF v
<1>6. OwnVerdict(x) = "Ok"
  <2> DEFINE o == OwnVerdict(x)
             E == Edges(k, x, chain, x.visited + 1)
  <2>1. r = IF x.visited >= Limits.nodes \/ x.of.body.size > Limits.bytes
            THEN Result("ResourceLimit", x.visited)
            ELSE IF o # "Ok" THEN Result(o, x.visited + 1) ELSE E
    BY DEF Visit, Spent
  <2>2. \A w, n : Result(w, n).verdict = w
    BY DEF Result
  <2> HIDE DEF r, o, E, x
  <2>3. o = "Ok"
    BY <1>5, <2>1, <2>2
  <2> QED
    BY <2>3 DEF o
<1>7. StatusVerdict(root.body, root) = "Ok"
  BY <1>3, <1>6 DEF OwnVerdict
<1> QED
  BY <1>7 DEF StatusVerdict

LEMMA ProvenGrows ==
  ASSUME NEW c, NEW m, NEW e, NEW f, SuppliedMore(e, f), Proven(m, c, f) = "Ok"
  PROVE  Proven(m, c, e) \in {"Ok", "MissingProofIssuer"}
BY DEF Proven, SuppliedMore

LEMMA AuthenticGrows ==
  ASSUME NEW m, NEW e, NEW f, SuppliedMore(e, f), Authentic(m, f) = "Ok"
  PROVE  Authentic(m, e) \in {"Ok", "MissingSenderState"}
BY DEF Authentic, SuppliedMore

LEMMA OfferGrows ==
  ASSUME NEW c, NEW m, NEW e, NEW f, SuppliedMore(e, f), OfferVerdict(c, m, f) = "Ok"
  PROVE  OfferVerdict(c, m, e) \in {"Ok", "MissingProofIssuer", "MissingSchema"}
<1>1. f.schema # "rejects" /\ BoundToParties(m.acdc, c) = "Ok" /\ Proven(m, c, f) = "Ok"
  BY DEF OfferVerdict
<1>2. Proven(m, c, e) \in {"Ok", "MissingProofIssuer"}
  BY <1>1, ProvenGrows
<1>3. e.schema \in {None, f.schema}
  BY DEF SuppliedMore
<1> QED
  BY <1>1, <1>2, <1>3 DEF OfferVerdict

LEMMA AnchoredGrows ==
  ASSUME NEW m, NEW e, NEW f, SuppliedMore(e, f), f.state # None, f.state.status # "Revoked",
         Anchored(m, f) = "Ok"
  PROVE  Anchored(m, e) \in {"Ok", "MissingCredentialState", "MissingAnchorState", "AnchorMismatch"}
<1>1. /\ m.iss # None /\ m.anc # None
      /\ ~(\/ m.acdc.registry = None
           \/ m.iss.kind \notin {"iss", "bis"}
           \/ m.iss.credential # m.acdc.said
           \/ m.iss.registry # m.acdc.registry)
      /\ ~(m.iss.said # f.state.head \/ m.iss.sn # f.state.sn)
  BY DEF Anchored
<1>2. e.state \in {None, f.state}
  BY DEF SuppliedMore
<1> QED
  BY <1>1, <1>2 DEF Anchored

LEMMA GrantGrows ==
  ASSUME NEW c, NEW m, NEW e, NEW f, SuppliedMore(e, f), GrantVerdict(c, m, f) = "Ok",
         e.chain \in Chains, f.chain \in Chains, GrownChain(e.chain, f.chain),
         Cardinality(e.chain) \in Nat, Cardinality(f.chain) \in Nat,
         Cardinality(e.chain) <= Cardinality(f.chain),
         EvidenceOf(m, e) \in Evidence, EvidenceOf(m, f) \in Evidence
  PROVE  Hopeful(GrantVerdict(c, m, e))
<1> DEFINE k == CredentialVerdict(EvidenceOf(m, e), e.chain, Limits)
           l == CredentialVerdict(EvidenceOf(m, f), f.chain, Limits)
           p == Proven(m, c, e)
           a == Anchored(m, e)
           b == BoundToParties(m.acdc, c)
<1>1. GrantVerdict(c, m, f) =
        IF m.recipient # c.applicant THEN "WrongRecipient"
        ELSE IF m.acdc.said # c.offered THEN "WrongCredential"
        ELSE IF Proven(m, c, f) # "Ok" THEN Proven(m, c, f)
        ELSE IF l # "Ok" THEN l
        ELSE IF b # "Ok" THEN b
        ELSE Anchored(m, f)
  BY DEF GrantVerdict
<1>2. GrantVerdict(c, m, e) =
        IF m.recipient # c.applicant THEN "WrongRecipient"
        ELSE IF m.acdc.said # c.offered THEN "WrongCredential"
        ELSE IF p # "Ok" THEN p
        ELSE IF k # "Ok" THEN k
        ELSE IF b # "Ok" THEN b
        ELSE a
  BY DEF GrantVerdict
<1> HIDE DEF l, b
<1>3. /\ m.recipient = c.applicant /\ m.acdc.said = c.offered /\ Proven(m, c, f) = "Ok" /\ l = "Ok"
      /\ b = "Ok" /\ Anchored(m, f) = "Ok"
  BY <1>1
<1>4. p \in {"Ok", "MissingProofIssuer"}
  BY <1>3, ProvenGrows
<1>5. f.state # None /\ f.state.status # "Revoked"
  <2>1. EvidenceOf(m, f).state = f.state
    BY DEF EvidenceOf
  <2>2. EvidenceOf(m, f).state # None /\ EvidenceOf(m, f).state.status # "Revoked"
    BY <1>3, PassedHasStatus DEF l
  <2> QED
    BY <2>1, <2>2
<1>6. a \in {"Ok", "MissingCredentialState", "MissingAnchorState", "AnchorMismatch"}
  BY <1>3, <1>5, AnchoredGrows
<1>7. Grown(EvidenceOf(m, e), EvidenceOf(m, f))
  BY DEF EvidenceOf, Grown, SuppliedMore
<1>8. k \in AwaitedFacts \cup {"Ok"}
  BY <1>3, <1>7, VerdictGrows DEF l
<1> HIDE DEF k, p, a
<1> QED
  BY <1>2, <1>3, <1>4, <1>6, <1>8, HopefulOnes

LEMMA IngestGrows ==
  ASSUME NEW c, NEW m, NEW e, NEW f, SuppliedMore(e, f), IngestVerdict(c, m, f) = "Ok",
         m.route = "grant" =>
           /\ e.chain \in Chains /\ f.chain \in Chains /\ GrownChain(e.chain, f.chain)
           /\ Cardinality(e.chain) \in Nat /\ Cardinality(f.chain) \in Nat
           /\ Cardinality(e.chain) <= Cardinality(f.chain)
           /\ EvidenceOf(m, e) \in Evidence /\ EvidenceOf(m, f) \in Evidence
  PROVE  Hopeful(IngestVerdict(c, m, e))
<1> DEFINE r == RouteVerdict(c, m, e)
           a == Authentic(m, e)
<1>1. /\ ~IsTerminal(c) /\ m.said # c.latest /\ m.prior = c.latest /\ m.issuer = ExpectedSender(c)
      /\ Parsed(m) /\ AllowedResponse(c.route, m.route)
      /\ Authentic(m, f) = "Ok" /\ RouteVerdict(c, m, f) = "Ok"
  BY DEF IngestVerdict
<1>2. a \in {"Ok", "MissingSenderState"}
  BY <1>1, AuthenticGrows
<1>3. Hopeful(r)
  <2>1. CASE m.route = "offer"
    <3>1. r = OfferVerdict(c, m, e) /\ OfferVerdict(c, m, f) = "Ok"
      BY <1>1, <2>1 DEF RouteVerdict
    <3> HIDE DEF r
    <3>2. r \in {"Ok", "MissingProofIssuer", "MissingSchema"}
      BY <3>1, OfferGrows
    <3> QED
      BY <3>2, HopefulOnes
  <2>2. CASE m.route = "grant"
    <3>1. r = GrantVerdict(c, m, e) /\ GrantVerdict(c, m, f) = "Ok"
      BY <1>1, <2>2 DEF RouteVerdict
    <3>2. Hopeful(GrantVerdict(c, m, e))
      BY <2>2, <3>1, GrantGrows
    <3> QED
      BY <3>1, <3>2
  <2>3. CASE m.route \notin {"offer", "grant"}
    <3>1. r = "Ok"
      BY <1>1, <2>3 DEF RouteVerdict
    <3> QED
      BY <3>1, HopefulOnes
  <2> QED
    BY <2>1, <2>2, <2>3
<1>4. IngestVerdict(c, m, e) = IF a # "Ok" THEN a ELSE r
  <2> HIDE DEF a, r
  <2> QED
    BY <1>1 DEF IngestVerdict, a, r
<1> HIDE DEF a, r
<1> QED
  BY <1>2, <1>3, <1>4, HopefulOnes

LEMMA BeginGrows ==
  ASSUME NEW m, NEW e, NEW f, SuppliedMore(e, f), BeginVerdict(m, f) = "Ok"
  PROVE  Hopeful(BeginVerdict(m, e))
<1>1. /\ Parsed(m) /\ m.route = "apply" /\ m.prior = None /\ m.pathed = "none"
      /\ Authentic(m, f) = "Ok" /\ m.issuer # m.recipient
  BY DEF BeginVerdict
<1>2. Authentic(m, e) \in {"Ok", "MissingSenderState"}
  BY <1>1, AuthenticGrows
<1>3. BeginVerdict(m, e) \in {"Ok", "MissingSenderState"}
  BY <1>1, <1>2 DEF BeginVerdict
<1> QED
  BY <1>3, HopefulOnes

-----------------------------------------------------------------------------
(* A fact is learned.                                                      *)
SupplyWell ==
  \A h, c, m : Knows(h) /\ m.acdc \in Acdc =>
    EvidenceOf(m, Supply(h, c, m)) \in Evidence /\ Supply(h, c, m).chain = ChainFor(h, m.acdc)

LEMMA AllSupplyWell == SupplyWell
<1> SUFFICES ASSUME NEW h, NEW c, NEW m, Knows(h), m.acdc \in Acdc
             PROVE  /\ EvidenceOf(m, Supply(h, c, m)) \in Evidence
                    /\ Supply(h, c, m).chain = ChainFor(h, m.acdc)
  BY DEF SupplyWell
<1> QED
  BY GrantIsTold DEF Told

LEMMA SupplyWellNext == SupplyWell'
BY AllSupplyWell, PTL

LEMMA SupplyGrows ==
  ASSUME NEW h, Learns(h), NEW c, NEW m
  PROVE  SuppliedMore(Supply(h, c, m), Supply(h, c, m)')
<1> DEFINE a == m.acdc
           none == a = None
           e == Supply(h, c, m)
           f == Supply(h, c, m)'
<1>1. /\ e.sender = KelOf(h, m.issuer)
      /\ e.schema = IF none THEN None ELSE SchemaFor(h, a)
      /\ e.registry = IF none THEN None ELSE RegistryFor(h, a)
      /\ e.state = IF none THEN None ELSE HeadFor(h, a)
      /\ e.issuer = IF c = None THEN None ELSE KelOf(h, c.issuer)
  BY DEF Supply
<1>2. /\ f.sender = KelOf(h, m.issuer)'
      /\ f.schema = IF none THEN None ELSE SchemaFor(h, a)'
      /\ f.registry = IF none THEN None ELSE RegistryFor(h, a)'
      /\ f.state = IF none THEN None ELSE HeadFor(h, a)'
      /\ f.issuer = IF c = None THEN None ELSE KelOf(h, c.issuer)'
  BY DEF Supply
<1> HIDE DEF e, f, a
<1>3. /\ KelOf(h, m.issuer) \in {None, KelOf(h, m.issuer)'}
      /\ KelOf(h, c.issuer) \in {None, KelOf(h, c.issuer)'}
      /\ SchemaFor(h, a) \in {None, SchemaFor(h, a)'}
      /\ RegistryFor(h, a) \in {None, RegistryFor(h, a)'}
      /\ HeadFor(h, a)' # None /\ HeadFor(h, a)'.status # "Revoked" =>
           HeadFor(h, a) \in {None, HeadFor(h, a)'}
  BY SuppliedGrows DEF a
<1>4. SuppliedMore(e, f)
  BY <1>1, <1>2, <1>3 DEF SuppliedMore
<1> QED
  BY <1>4 DEF e, f

(* Nothing that was terminal is accepted once a fact is learned.           *)
LEMMA LearnedStaysTerminal ==
  ASSUME NEW h, Learns(h), IsFiniteSet(known'[h]), UNCHANGED <<heads, trail>>, NEW m \in Exns,
         Verdict(h, m)' = "Ok"
  PROVE  Hopeful(Verdict(h, m))
<1>1. ReadBy(h, m)' = ReadBy(h, m)
  BY DEF ReadBy, RootOf, Answered
<1>2. PICK c : c = ReadBy(h, m)
  OBVIOUS
<1>3. ReadBy(h, m)' = c
  BY <1>1, <1>2
<1> DEFINE e == Supply(h, c, m)
           f == Supply(h, c, m)'
<1>4. Verdict(h, m) = IF c = None THEN BeginVerdict(m, e) ELSE IngestVerdict(c, m, e)
  BY <1>2 DEF Verdict
<1>5. Verdict(h, m)' = IF c = None THEN BeginVerdict(m, f) ELSE IngestVerdict(c, m, f)
  BY <1>3 DEF Verdict, Supply, KelOf
<1>6. SuppliedMore(e, f)
  BY SupplyGrows
<1> HIDE DEF e, f
<1>7. CASE c = None
  <2>1. BeginVerdict(m, f) = "Ok"
    BY <1>5, <1>7
  <2> QED
    BY <1>4, <1>6, <1>7, <2>1, BeginGrows
<1>8. CASE c # None
  <2>1. IngestVerdict(c, m, f) = "Ok"
    BY <1>5, <1>8
  <2>2. ASSUME m.route = "grant"
        PROVE  /\ e.chain \in Chains /\ f.chain \in Chains /\ GrownChain(e.chain, f.chain)
               /\ Cardinality(e.chain) \in Nat /\ Cardinality(f.chain) \in Nat
               /\ Cardinality(e.chain) <= Cardinality(f.chain)
               /\ EvidenceOf(m, e) \in Evidence /\ EvidenceOf(m, f) \in Evidence
    <3> DEFINE a == m.acdc
    <3>1. a \in Acdc
      <4>1. m \in Exn /\ a # None
        BY <2>1, <2>2, IngestPasses, ExchangeAssumption DEF AnswerTo, Sound, Parsed
      <4> QED
        BY <4>1 DEF Exn
    <3>2. e.chain = ChainFor(h, a) /\ EvidenceOf(m, e) \in Evidence
      BY <3>1, AllSupplyWell DEF SupplyWell, Learns, e
    <3>3. f.chain = ChainFor(h, a)' /\ EvidenceOf(m, f) \in Evidence
      BY <3>1, SupplyWellNext DEF SupplyWell, Learns, f
    <3> HIDE DEF a
    <3>4. ChainFor(h, a) \in Chains /\ ChainFor(h, a)' \in Chains
      BY AllKnownWell, KnownWellNext DEF KnownWell, Learns
    <3>5. GrownChain(ChainFor(h, a), ChainFor(h, a)')
      BY ChainGrows
    <3>6. /\ Cardinality(ChainFor(h, a)) \in Nat /\ Cardinality(ChainFor(h, a)') \in Nat
          /\ Cardinality(ChainFor(h, a)) <= Cardinality(ChainFor(h, a)')
      BY ChainNoSmaller
    <3> QED
      BY <3>2, <3>3, <3>4, <3>5, <3>6
  <2>3. Hopeful(IngestVerdict(c, m, e))
    BY <1>6, <2>1, <2>2, IngestGrows
  <2> QED
    BY <1>4, <1>8, <2>3
<1> QED
  BY <1>7, <1>8

-----------------------------------------------------------------------------
(* A conversation grows.                                                   *)

(* A message names the one it answers, so its place follows from its SAID. *)
LEMMA SaidsHavePlaces ==
  ASSUME LIInv
  PROVE  Unique
<1> SUFFICES ASSUME NEW h \in Hosts, NEW q \in Hosts, NEW r \in Roots, NEW s \in Roots,
                    NEW i \in Places(h, r), NEW j \in Places(q, s),
                    trail[h][r][i].said = trail[q][s][j].said
             PROVE  r = s /\ i = j
  BY DEF Unique
<1> DEFINE talk == trail[h][r]
           other == trail[q][s]
           N == Len(talk)
           G == {n \in 0..N : n = 0 \/ \A k \in 1..Len(other) :
                                talk[n].said = other[k].said => r = s /\ n = k}
<1>1. /\ talk \in Seq(Exns) /\ other \in Seq(Exns)
      /\ TalkWell(h, talk, r) /\ TalkWell(q, other, s)
  BY DEF LIInv, Types, Local
<1>2. N \in Nat /\ Len(other) \in Nat /\ i \in 1..N /\ j \in 1..Len(other)
  BY <1>1 DEF Places
<1>3. 0 \in G
  BY <1>2
<1>4. ASSUME NEW n \in 1..N, n - 1 \in G PROVE n \in G
  <2> SUFFICES ASSUME NEW k \in 1..Len(other), talk[n].said = other[k].said
               PROVE  r = s /\ n = k
    BY <1>2
  <2>1. /\ Sound(talk[n]) /\ Sound(other[k]) /\ talk # <<>> /\ other # <<>>
    BY <1>1, <1>2 DEF TalkWell
  <2>2. talk[n] = other[k]
    BY <2>1, SoundBySaid
  <2>3. \A z \in 1..N : talk[z].said # None
    <3> SUFFICES ASSUME NEW z \in 1..N PROVE talk[z].said # None
      OBVIOUS
    <3>1. talk[z] \in Exns
      BY <1>1
    <3> QED
      BY <3>1, ExchangeAssumption DEF Exn
  <2>4. \A z \in 1..Len(other) : other[z].said # None
    <3> SUFFICES ASSUME NEW z \in 1..Len(other) PROVE other[z].said # None
      OBVIOUS
    <3>1. other[z] \in Exns
      BY <1>1
    <3> QED
      BY <3>1, ExchangeAssumption DEF Exn
  <2>5. /\ talk[1].prior = None /\ talk[1].said = r /\ other[1].prior = None /\ other[1].said = s
    BY <1>1, <2>1 DEF TalkWell, OpeningOf
  <2>6. CASE n = 1
    <3>1. k = 1
      <4> SUFFICES ASSUME k # 1 PROVE FALSE
        OBVIOUS
      <4>1. k \in 2..Len(other) /\ k - 1 \in 1..Len(other)
        BY <1>2
      <4>2. other[k].prior = other[k - 1].said
        BY <1>1, <4>1 DEF TalkWell
      <4> QED
        BY <2>2, <2>4, <2>5, <2>6, <4>1, <4>2
    <3> QED
      BY <2>2, <2>5, <2>6, <3>1
  <2>7. CASE n # 1
    <3>1. n \in 2..N /\ n - 1 \in 1..N
      BY <1>2, <2>7
    <3>2. talk[n].prior = talk[n - 1].said
      BY <1>1, <3>1 DEF TalkWell
    <3>3. k # 1
      BY <2>2, <2>3, <2>5, <3>1, <3>2
    <3>4. k \in 2..Len(other) /\ k - 1 \in 1..Len(other)
      BY <1>2, <3>3
    <3>5. other[k].prior = other[k - 1].said
      BY <1>1, <3>4 DEF TalkWell
    <3>6. r = s /\ n - 1 = k - 1
      BY <1>4, <2>2, <3>1, <3>2, <3>4, <3>5
    <3> QED
      BY <1>2, <3>4, <3>6
  <2> QED
    BY <2>6, <2>7
<1>5. i \in G
  <2>1. i \in 0..N
    BY <1>2
  <2> HIDE DEF G, N
  <2> QED
    BY <1>2, <1>3, <1>4, <2>1, StepUp
<1> QED
  BY <1>2, <1>5

(* What is stored next was nowhere yet.                                    *)
LEMMA GrowsAnew ==
  ASSUME LIInv, NEW h \in Hosts, NEW w \in Workers[h], NEW r \in Roots, NEW x \in Exns,
         Grows(h, w, r, x), NEW s \in Roots
  PROVE  x.said \notin SaidsIn(trail[h][s])
<1> SUFFICES ASSUME NEW j \in DOMAIN trail[h][s], trail[h][s][j].said = x.said PROVE FALSE
  BY DEF SaidsIn
<1>1. trail[h][s] \in Seq(Exns) /\ trail[h][r] \in Seq(Exns)
  BY DEF LIInv, Types
<1>2. j \in Places(h, s)
  BY <1>1 DEF Places
<1>3. Follows(trail[h][r], r, x)
  BY GrowsFollows
<1>4. s = r /\ j = Len(trail[h][r]) + 1
  BY <1>2, <1>3, SaidsHavePlaces, Placed
<1> QED
  BY <1>1, <1>2, <1>4 DEF Places

LEMMA SameVerdict ==
  ASSUME NEW h, NEW m, known' = known, ReadBy(h, m)' = ReadBy(h, m)
  PROVE  Verdict(h, m)' = Verdict(h, m)
<1>1. PICK c : c = ReadBy(h, m)
  OBVIOUS
<1>2. ReadBy(h, m)' = c
  BY <1>1
<1>3. Verdict(h, m) = IF c = None THEN BeginVerdict(m, Supply(h, c, m)) ELSE IngestVerdict(c, m, Supply(h, c, m))
  BY <1>1 DEF Verdict
<1>4. Verdict(h, m)' = IF c = None THEN BeginVerdict(m, Supply(h, c, m)') ELSE IngestVerdict(c, m, Supply(h, c, m)')
  BY <1>2 DEF Verdict, Supply, KelOf
<1>5. Supply(h, c, m)' = Supply(h, c, m)
  BY DEF Supply, KelOf, SchemaFor, RegistryFor, HeadFor, EventAt, NodeFor, Accepted
<1> QED
  BY <1>3, <1>4, <1>5

(* Nothing that was terminal is accepted once a conversation has grown.    *)
LEMMA GrownStaysTerminal ==
  ASSUME LIInv, LIInv', NEW h \in Hosts, NEW w \in Workers[h], NEW r \in Roots, NEW x \in Exns,
         Grows(h, w, r, x), NEW m \in Exns, Verdict(h, m)' = "Ok"
  PROVE  Hopeful(Verdict(h, m))
<1>1. /\ heads' = [heads EXCEPT ![h][r] = desk[h][w].next]
      /\ trail' = [trail EXCEPT ![h][r] = Append(@, x)]
      /\ known' = known
  BY DEF Grows
<1>2. /\ heads \in [Hosts -> [Roots -> Conversation \cup {None}]]
      /\ trail \in [Hosts -> [Roots -> Seq(Exns)]]
  BY DEF LIInv, Types
<1>3. /\ \A s \in Roots \ {r} : heads'[h][s] = heads[h][s] /\ trail'[h][s] = trail[h][s]
      /\ trail'[h][r] = Append(trail[h][r], x)
  BY <1>1, <1>2
<1>4. SaidsIn(trail'[h][r]) = SaidsIn(trail[h][r]) \cup {x.said}
  <2> DEFINE talk == trail[h][r]
             new == Append(talk, x)
  <2>1. talk \in Seq(Exns)
    BY <1>2
  <2> HIDE DEF talk
  <2>2. /\ new \in Seq(Exns) /\ Len(talk) \in Nat /\ Len(new) = Len(talk) + 1
        /\ \A i \in 1..Len(talk) : new[i] = talk[i]
        /\ new[Len(talk) + 1] = x
    BY <2>1, AppendedTalk
  <2>3. DOMAIN talk = 1..Len(talk) /\ DOMAIN new = 1..(Len(talk) + 1)
    BY <2>1, <2>2
  <2> HIDE DEF new
  <2>4. \A i \in DOMAIN new : i \in DOMAIN talk \/ i = Len(talk) + 1
    BY <2>2, <2>3
  <2>5. SaidsIn(new) = SaidsIn(talk) \cup {x.said}
    <3>1. ASSUME NEW z \in SaidsIn(new) PROVE z \in SaidsIn(talk) \cup {x.said}
      BY <2>2, <2>3, <2>4 DEF SaidsIn
    <3>2. ASSUME NEW z \in SaidsIn(talk) PROVE z \in SaidsIn(new)
      <4>1. PICK i \in DOMAIN talk : z = talk[i].said
        BY DEF SaidsIn
      <4>2. i \in DOMAIN new /\ new[i] = talk[i]
        BY <2>2, <2>3
      <4> QED
        BY <4>1, <4>2 DEF SaidsIn
    <3>3. x.said \in SaidsIn(new)
      <4>1. Len(talk) + 1 \in DOMAIN new
        BY <2>2, <2>3
      <4> QED
        BY <2>2, <4>1 DEF SaidsIn
    <3> QED
      BY <3>1, <3>2, <3>3
  <2> QED
    BY <1>3, <2>5 DEF talk, new
<1>5. x.said \in Saids /\ x.said # None
  BY ExchangeAssumption DEF Exn
<1>6. Verdict(h, m)' = IF ReadBy(h, m)' = None THEN BeginVerdict(m, Supply(h, ReadBy(h, m), m)')
                       ELSE IngestVerdict(ReadBy(h, m)', m, Supply(h, ReadBy(h, m), m)')
  BY DEF Verdict
<1>7. /\ ReadBy(h, m)' = None => m.prior = None
      /\ ReadBy(h, m)' # None => AnswerTo(ReadBy(h, m)', m)
  <2>1. PICK c : c = ReadBy(h, m)'
    OBVIOUS
  <2>2. PICK e : e = Supply(h, ReadBy(h, m), m)'
    OBVIOUS
  <2>3. (IF c = None THEN BeginVerdict(m, e) ELSE IngestVerdict(c, m, e)) = "Ok"
    BY <1>6, <2>1, <2>2
  <2>4. c = None => m.prior = None
    BY <2>3, BeginPasses DEF OpeningOf
  <2>5. c # None => AnswerTo(c, m)
    BY <2>3, IngestPasses
  <2> QED
    BY <2>1, <2>4, <2>5
<1>8. CASE m.prior # x.said
  <2>1. Answered(h, m)' = Answered(h, m)
    <3>1. \A s \in Roots : m.prior \in SaidsIn(trail'[h][s]) <=> m.prior \in SaidsIn(trail[h][s])
      BY <1>3, <1>4, <1>8
    <3> QED
      BY <3>1 DEF Answered, SaidsIn
  <2>2. RootOf(h, m)' = RootOf(h, m)
    BY <2>1 DEF RootOf
  <2>3. ReadBy(h, m)' = ReadBy(h, m)
    <3>1. CASE Answered(h, m) = {}
      BY <2>1, <3>1 DEF ReadBy
    <3>2. CASE Answered(h, m) # {}
      <4>1. RootOf(h, m) \in Roots
        BY <3>2 DEF RootOf, Answered
      <4>2. ReadBy(h, m)' = heads'[h][RootOf(h, m)] /\ ReadBy(h, m) = heads[h][RootOf(h, m)]
        BY <2>1, <2>2, <3>2 DEF ReadBy
      <4>3. RootOf(h, m) # r
        <5> SUFFICES ASSUME RootOf(h, m) = r PROVE FALSE
          OBVIOUS
        <5>1. ReadBy(h, m)' = heads'[h][r]
          BY <4>2
        <5>2. HeadWell(heads'[h][r], trail'[h][r], r)
          BY DEF LIInv, Local
        <5>3. /\ trail'[h][r] # <<>>
              /\ trail'[h][r][Len(trail'[h][r])].said = x.said
          <6> DEFINE talk == trail[h][r]
          <6>1. talk \in Seq(Exns)
            BY <1>2
          <6> HIDE DEF talk
          <6>2. Append(talk, x) # <<>> /\ Append(talk, x)[Len(Append(talk, x))] = x
            BY <6>1, AppendedTalk
          <6> QED
            BY <1>3, <6>2 DEF talk
        <5>4. heads'[h][r] # None /\ heads'[h][r].latest = x.said
          BY <5>2, <5>3 DEF HeadWell
        <5>5. m.prior = x.said
          BY <1>7, <5>1, <5>4 DEF AnswerTo
        <5> QED
          BY <1>8, <5>5
      <4> QED
        BY <1>3, <4>1, <4>2, <4>3
    <3> QED
      BY <3>1, <3>2
  <2>4. Verdict(h, m) = "Ok"
    BY <1>1, <2>3, SameVerdict
  <2> QED
    BY <2>4, HopefulOnes
<1>9. CASE m.prior = x.said
  <2>1. Answered(h, m) = {}
    BY <1>9, GrowsAnew DEF Answered
  <2>2. ReadBy(h, m)' # None
    BY <1>5, <1>7, <1>9
  <2>3. Parsed(m) /\ m.route # "apply" /\ m.prior # None
    BY <1>5, <1>7, <1>9, <2>2 DEF AnswerTo, Sound, AllowedResponse
  <2>4. ReadBy(h, m) = None
    BY <2>1 DEF ReadBy
  <2>5. Verdict(h, m) = "MissingConversation"
    BY <2>3, <2>4 DEF Verdict, BeginVerdict
  <2> QED
    BY <2>5, HopefulOnes
<1> QED
  BY <1>8, <1>9

-----------------------------------------------------------------------------
Finite == \A h \in Hosts : IsFiniteSet(known[h])

LEMMA AlwaysFinite == Spec => []Finite
<1>1. Init => Finite
  BY ExchangeAssumption DEF Init, Finite
<1>2. LIInv /\ Finite /\ [Next]_vars => Finite'
  <2> SUFFICES ASSUME LIInv, Finite, [Next]_vars PROVE Finite'
    OBVIOUS
  <2>1. CASE known' = known
    BY <2>1 DEF Finite
  <2>2. ASSUME NEW h \in Hosts, NEW f \in Facts[h], Learn(h, f) PROVE Finite'
    <3>1. known' = [known EXCEPT ![h] = known[h] \cup {f}] /\ DOMAIN known = Hosts
      BY <2>2 DEF Learn, LIInv, Types
    <3>2. IsFiniteSet(known[h] \cup {f})
      BY FS_AddElement DEF Finite
    <3> QED
      BY <3>1, <3>2 DEF Finite
  <2> QED
    BY <2>1, <2>2 DEF Next, Commit, Decide, Crash, vars
<1> QED
  BY <1>1, <1>2, LocalInvariant, PTL DEF Spec

(* What a host refused for good stays refused: no fact learned later and   *)
(* no message stored later makes it acceptable (IpexDecisionError::        *)
(* disposition). Evidence that was missing makes the walk over a chain     *)
(* wait, never fail otherwise, and a message whose prior is not there yet  *)
(* waits too.                                                              *)
THEOREM TerminalStaysFinal == Spec => TerminalIsFinal
<1> DEFINE A == \A h \in Hosts :
                  UNCHANGED Judged(h) \/
                  \A m \in wire :
                    /\ IpexDisposition(Verdict(h, m)) = "Terminal"
                    /\ Verdict(h, m) # "AnchorMismatch"
                    => IpexDisposition(Verdict(h, m)') # "Accepted"
<1>1. LIInv /\ LIInv' /\ Finite' /\ Next => A
  <2> SUFFICES ASSUME LIInv, LIInv', Finite', Next, NEW q \in Hosts, ~UNCHANGED Judged(q),
                      NEW m \in wire, IpexDisposition(Verdict(q, m)') = "Accepted"
               PROVE  Hopeful(Verdict(q, m))
    BY DEF Hopeful
  <2>1. Verdict(q, m)' = "Ok"
    BY DEF IpexDisposition
  <2>2. m \in Exns
    BY DEF LIInv, Types
  <2>3. ASSUME NEW h \in Hosts, NEW w \in Workers[h], Commit(h, w) PROVE Hopeful(Verdict(q, m))
    <3>1. ~UNCHANGED <<heads, trail, known>>
      BY DEF Judged
    <3>2. PICK r \in Roots, x \in Exns : Grows(h, w, r, x)
      BY <2>3, <3>1, CommitGrows
    <3>3. q = h
      <4>1. /\ heads' = [heads EXCEPT ![h][r] = desk[h][w].next]
            /\ trail' = [trail EXCEPT ![h][r] = Append(@, x)]
            /\ known' = known
        BY <3>2 DEF Grows
      <4>2. q # h => UNCHANGED Judged(q)
        BY <4>1 DEF Judged, LIInv, Types
      <4> QED
        BY <4>2
    <3> QED
      BY <2>1, <2>2, <3>2, <3>3, GrownStaysTerminal
  <2>4. ASSUME NEW h \in Hosts, NEW f \in Facts[h], Learn(h, f) PROVE Hopeful(Verdict(q, m))
    <3>1. UNCHANGED <<heads, trail>> /\ known' = [known EXCEPT ![h] = known[h] \cup {f}]
          /\ DOMAIN known = Hosts
      BY <2>4 DEF Learn, durable, LIInv, Types
    <3>2. Learns(q)
      BY <3>1 DEF Learns, Knows, LIInv, Types
    <3>3. IsFiniteSet(known'[q])
      BY DEF Finite
    <3> QED
      BY <2>1, <2>2, <3>1, <3>2, <3>3, LearnedStaysTerminal
  <2>5. ASSUME NEW h \in Hosts, NEW w \in Workers[h], NEW n \in Exns, Decide(h, w, n) PROVE FALSE
    BY <2>5 DEF Decide, Judged
  <2>6. ASSUME NEW h \in Hosts, Crash(h) PROVE FALSE
    BY <2>6 DEF Crash, durable, Judged
  <2> QED
    BY <2>3, <2>4, <2>5, <2>6 DEF Next
<1>2. LIInv /\ LIInv' /\ Finite' /\ [Next]_vars => [A]_vars
  BY <1>1
<1> HIDE DEF A
<1>3. Spec => [][A]_vars
  BY <1>2, LocalInvariant, AlwaysFinite, PTL DEF Spec
<1> QED
  BY <1>3 DEF TerminalIsFinal, A
=============================================================================
