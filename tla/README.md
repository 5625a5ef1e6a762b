# A verification project for cesr / keri

This directory models the `keri` and `cesr` crates, from the characters of a primitive to the exchange of a credential
between two hosts: what makes a key event acceptable, what key state it leads to, who wins when two events claim one
place in a log, how registries, receipts, replies and conversations build on such logs, and how the bytes that carry all
this are framed, parsed, encoded and verified while input arrives late, repeated, in pieces, out of order, damaged or
forged. The models are TLA+, translated from the Rust source; TLC checks them on small instances and TLAPS proves the
central facts for every instance.

The crates are *sans-IO*: they are pure transition functions and hold no streams, queues or clocks. What makes
them hard is therefore in their *use*: a host calls them over and over, with whatever evidence it has by then, keeps
what they accept, parks what they say to park, and rewinds its log when they say so. The crate documents this use
(`crates/keri/src/lib.rs`, the docs of `Disposition` and `SameSnVerdict`, `examples/direct_mode.rs`), and the
central model, `KelHost`, is that host around the translated folds.

## 1. Inventory

Paths are below `src/crates/`. "State" is what the component keeps between calls.

| Component | State | Operations | Hard behaviour | What makes it correct |
|---|---|---|---|---|
| Signing thresholds, `keri-events/src/threshold.rs` | none | `satisfied_by`, `check_well_formed`, `from_nested` | exact rational sums in a machine word; nested clauses over flat key positions | never satisfied by too few signers, equal to the rational judgment where nothing overflows; a late signature takes no quorum away |
| Witness lists and TOAD, `keri-events/src/{member_set,toad}.rs` | none | `check_members`, `check_witness_deltas`, `ample`, `exact`, `new` | limits at zero and at the size of the set; the set after cuts, not before | two quorums of an ample threshold share an honest witness |
| Key-state fold, `keri/src/{state,authority,verification,delegation}.rs` | `KeyState`, `KeyStateSnapshot` | `incept`, `incept_delegated`, `ingest_mut`, `ingest_delegated_mut`; `genesis`, `advance`, `view` | two separately written folds that must agree; dual-index signatures; receipts against the set after a rotation | an accepted event is signed by the keys in force, opens the earlier commitment, is witnessed, chains to its predecessor; a closed log stays closed |
| Same-number judge, `keri/src/duplicity.rs` | none | `judge_same_sn`, `cascade` | it authenticates nothing; its evidence may be stale, contradictory or short; ties climb a level of delegation | establishments of a plain log are final, two events do not replace each other in turn |
| Dispositions, `keri/src/error.rs` | none | `Rejection::disposition` and its siblings | one wrong class loses an event for ever, or keeps it for ever | what is dropped could never be accepted, what is parked is accepted once its evidence is there |
| The host's loop (documented use) | stream, snapshots, escrow | accept, park, re-drive, judge, rewind and re-ingest | order, repetition, partial evidence, a rewind whose re-ingest is refused, a restart from the stored genesis | the stream is at all times a valid log; recovery is the only way it ever loses an event |
| Receipts outside the fold, `keri/src/receipt.rs` | none | `endorsed_by`, `named_by`, `accounted_by` | receipts of an event that a recovery replaced; positions resolved against another witness list | only receipts of the accepted event by its witnesses count |
| Registry and credential logs, `keri/src/registry.rs`, `keri-events/src/tel.rs` | `RegistryState`, `CredentialState` | `incept`, `ingest_mut` of each (`vcp`, `vrt`; `iss`, `rev`, `bis`, `brv`) | anchors that arrive late; backed events judged by the backers of an earlier rotation; revocation before issuance | every accepted event is sealed by the issuer's log, backed ones receipted by the backers they name; revocation is final |
| Credential verification, `keri/src/{credential,credential_wire}.rs` | none | `status`, `verify` (a bounded walk over chained credentials) | missing nodes, cycles, limits, an edge to a credential revoked meanwhile | valid only if every credential on the walk is issued and unrevoked |
| IPEX conversation, `keri/src/ipex.rs`, `keri-codec/src/ipex.rs` | `IpexConversation` | `begin`, `ingest_mut` | messages repeated, out of turn, raced by a second worker, lost in a crash, bound to another credential | both parties hold beginnings of one conversation, the grant is the credential offered, nothing follows an admit or a spurn |
| Discovery replies, `keri/src/discovery.rs`, `keri-codec/src/routed.rs` | `ReplyVersion` kept by the host | `judge` | replays across key rotations and recoveries, time zones | what stands is backed by the signer's log and is replaced by something newer only |
| Custody, `keri/src/custody.rs` | `pidx`, `ridx`, `kidx`, `count`, `ncount`, `transferable`, `incepted` | `incept`, `rotate`, `sign`, `params`, `resume` | counters saved before a rotation; path strings without separators | no key is used for two positions, a rotation exposes what was committed |
| Wire adapter, `keri/src/wire.rs` | none | copies of parsed messages | none | none of its own |
| Message parser, `keri-codec/src/message.rs` | none | attachment groups to signatures, receipts, seals | order and repetition of groups, unexpected groups | what is attached to one event never counts for another |
| Event codec, `keri-codec/src/{serialize,deserialize,said,codec}` | none | serialize, deserialize, SAID fixpoint, threshold grammar | placeholder digests, non-canonical text, a relay that renders anew what it read | decode inverts encode; no alteration is read; a digest survives a relay |
| Event builders, `keri-codec/src/builder` | partly filled builder | typed-state builders of each event | limits of defaults | what a builder builds the fold accepts |
| Stream framing, `cesr-stream/src/{framing,cold,parse,group,message}` | cursor into a group, JSON head, budgets | cold start, counters, nested groups, unwrap | input in pieces, wrong counts, nesting, budgets across levels, two tables of counters | the same frames however the input is cut, within the caller's limits, and no wait in vain |
| CESR primitives, `cesr/src/{core,b64}` | none | matter, indexer, counter and version codes and sizes, Base64, both forms | size arithmetic, pad bits, input that ends anywhere | what was built is read, what is read is canonical, text and binary agree |
| Cryptography, `cesr/src/crypto` | none | codes an algorithm owns, sign, verify | a key of one curve and a signature of another | only what the holder of a key signed verifies; the curves are assumed |

How they interact. The stream layer cuts bytes into groups, the message parser binds groups to an event, the wire
adapter hands the event, its bytes and its evidence to a fold. The folds call the thresholds, the witness algebra and
the verifier. A rejection's disposition drives the host's escrow; `Contested` leads to the judge, and the judge's
`Supersedes` to a rewind, whose re-ingest is a call of the same fold on an earlier snapshot. Registry, credential,
exchange and discovery folds take *accepted key states* as evidence, so they inherit every question of staleness from
the key event log. Nothing is concurrent inside the crates: every interleaving below is one of messages and calls.

## 2. The modules

| Module | Models | Built on |
|---|---|---|
| `SigningThreshold` | thresholds: flattening, checked arithmetic of width `MaxWord`, well-formedness | |
| `SignatureQuorum` | a threshold in use: positions verified one at a time; reference judgment over rationals | `SigningThreshold` |
| `SignatureQuorum_proofs` | theorems about `SignatureQuorum` | `SignatureQuorum` |
| `KeyState` | both folds, every rejection in the code's order, dispositions | `SigningThreshold` |
| `Duplicity` | the judge of contested sequence numbers and its climb | `KeyState` |
| `KelHost` | the host: stream, snapshots, escrow, recovery | `Duplicity` |
| `AbstractKel` | what the host's log promises its readers | |
| `KelHost_proofs` | theorems about `KelHost` | `KelHost` |
| `Registry` | the fold of management and credential logs, anchors, backers, dispositions; the builders of the six events | `KeyState` |
| `TelHost` | a host of registries beside the issuer's growing, recovering log | `Registry`, `AbstractKel` |
| `AbstractTel` | what that host promises those who verify credentials | |
| `TelHost_proofs` | theorems about `TelHost` | `TelHost` |
| `Custody` | the key ladder: counters, paths as digits, every refusal, saved parameters | `KeyState` |
| `EventBuilder` | the builders of `icp`, `rot` and `ixn`: defaults, overrides, refusals | `KeyState` |
| `Controller` | custodian, builder, signature and fold in one loop, with crashes | `Custody`, `EventBuilder` |
| `Controller_proofs` | theorems about `Controller` | `Controller` |
| `Receipt` | receipts judged after acceptance: couples, indexed, transferable | `KeyState` |
| `Discovery` | replies, their time stamps, queries | `KeyState` |
| `Watcher` | a host that files receipts and replies about a growing, recovering log | `Receipt`, `Discovery`, `AbstractKel` |
| `Watcher_proofs` | theorems about `Watcher`, and about the calendar of `Discovery` | `Watcher` |
| `Credential` | status, and the bounded walk over chained credentials | |
| `Ipex` | the judgment of one message of an exchange | `Credential` |
| `Exchange` | two hosts, their workers, storage and crashes, over a network | `Ipex` |
| `AbstractExchange` | what the parties rely on: there is one conversation | |
| `Exchange_proofs` | theorems about `Exchange` | `Exchange` |
| `Matter`, `Signing` | characters and bytes, codes, sizes and plain primitives; indexed signatures, keys and digests | `Signing` on `Matter` |
| `Matter_proofs` | theorems about characters, bytes and the reading of plain primitives | `Matter` |
| `Primitives` | version strings; a stream of primitives that is damaged, cut and converted on its way | `Signing` |
| `Primitives_proofs` | theorems about building, reading and converting a stream of primitives | `Primitives`, `Matter_proofs` |
| `Cesr` | cells, counters of both tables, the grammar of each group | |
| `Groups` | cursors, enclosures, body heads, the typed parse, unwrapping | `Cesr` |
| `Framer` | the incremental decoder between a transport and a reader | `Groups` |
| `MessageParse` | attachment groups to the slots of a message | `Framer` |
| `EventCodec` | self-addressing bodies, digests and their verification; fifteen message types in both directions | |
| `Relay` | a message written, altered, read and passed on | `EventCodec` |
| `MCSignatureQuorum`, `MCKelHost`, `MCDelegateHost`, `MCTelHost`, `MCController`, `MCWatcher`, `MCExchange`, `MCFramer`, `MCRelay`, `MCPrimitives` | instances for TLC; `MCFramer` also the written streams a reader is compared with | |

`TelHost` does not repeat the key event log: it takes the issuer's log as any behaviour of `AbstractKel`, which is what
`KelHost` is shown, and for every instance proved, to implement. `Watcher` takes the log it watches in the same way.

### How state and actions correspond to the code

* **Events and messages.** One record shape for the five kinds of event; a field a kind lacks is empty. A SAID is a
  collision-free name, a next digest is the key it commits to, a signature is the triple of the position it claims, the
  prior-next position it claims and the key that really made it. So a forged, misplaced or misattributed signature is
  a value of the model, and cryptography itself is assumed.
* **Verdicts.** A fold answers `"Ok"` or the name of the rejection. `a && b` is the code's `?`: the first violated
  rule in the order of the code gives the verdict, because the order decides the disposition (an event that is both
  stale and badly signed is contested, not dropped).
* **KeyState.** `Incept`, `InceptDelegated`, `Ingest`, `IngestDelegated` are the entries of `state.rs`; `SeedState`,
  `ApplyRotation`, `ApplyInteraction` the state they lead to. `Genesis`, `Rolled`, `Stepped`, `Advance` are the trusted
  fold of `KeyStateSnapshot`, translated separately since it is separate code. `VerifyOpening` and `Exposed` are the
  prior-next opening of `authority.rs`, `ReceiptedBy` the witness receipts, `Authorizes` the delegation evidence.
* **Duplicity.** `JudgeSameSn` is `judge_same_sn`: evidence checks, then the recovery rules, then for two delegated
  rotations the `Cascade`, whose recursion over the slice of contests is the first level that is not a tie.
* **KelHost.** Variables: `unread` (the network), `escrow`, `kel` (the stream), `head` (the state the validating fold
  carries), `snapshots` (the trusted fold's replay of each prefix). `Deliver` and `Redrive` put a message to the fold;
  it ends in `Admit`, `Await`, `Drop`, `Recover`, `Defer` or `Uphold`. The delegation evidence and contest chains the
  host may hold by then are chosen anew at every call, so "not yet arrived" and "arrived" interleave freely.
  The storage itself is not in the repository and is marked external in `PROJECT.json`; its one design decision, that a
  rewind is a transaction that takes effect only if the re-ingest accepts, follows from the judge's doc. So `KeepsPromise` shows what a host
  gets that does both at once; what a host loses that stops between the two is not modelled.
  A host boots from nothing or from a stored genesis (`Stored`).
* **Registry.** `InceptRegistry` and `IngestRegistry` are `RegistryState::incept_with_evidence` and `ingest_mut`,
  `InceptCredential` and `IngestCredential` those of `CredentialState`. Backers are an ordered list, since a receipt claims a
  position of it; the evidence classes of `TelEvidence` are the values `Missing`, `Issuer`, `BackerNow` and `BackerAt`.
* **TelHost.** Variables: `log` and `replaced` (the issuer's log and what recoveries took out of it), `unread`, `escrow`,
  `management` (for each registry its retained states, head last), `credentials` (the heads) and `accepted`. `replaced` and
  `accepted` are read by the properties only. `Verdict` is the dispatch of the store that the repository's tests put
  around the fold (`keri-codec/tests/registry_fold.rs`): the registry first, then its management log or one
  credential's. The host finds the anchor of a message at the exact coordinate the message claims (`AnchorOf`), as
  `with_host_accepted_anchor` asks; the mutant `AnchorAtNumber` is a host that looks at the number alone. A registry is never
  rewound: the crate has no rewind for it.
* **Custody.** A custodian is its counters. A key is known by the path it is derived from, spelt as the code spells it
  (stem, rotation index and key index as digits with nothing between them), and by whether its code is transferable, so
  two places whose paths happen to be spelt alike are one key of the model too. `CheckIncept` and `CheckRotate` give the
  refusals in the order of the code, `Incepted` and `Rotated` the counters when there is none; the code derives both sets
  before it assigns a counter, so a refusal at the end of an index changes nothing. `sign` is taken with `indices` = None.
* **EventBuilder.** `CheckKeys` is `KeyConfiguration::validate`, `CheckBuildRotation` and `CheckToad` are
  `WitnessRotation::validate`, `Ample` is `Toad::ample` with its two rounded counts of faulty witnesses.
* **Controller.** Variables: `custodian` (in memory), `saved` (in storage), `commitment` and `pending` (what the custodian
  returned and what was built and signed, both lost in a crash), `head` (the validating fold's state), `ladder` (the key lists of the
  log's establishments, read by `CatchUp` and the properties). `Establish` moves the counters *before* the event exists, as `rotate` does, and
  no operation of the custodian returns the keys of a rung again. Hence the one discipline the model gives its host:
  it saves a rung only when the log has taken it, and after a crash climbs the rungs of the log again with the counts
  found there (`CatchUp`). `custody_chain.rs` and `direct_mode.rs` show the loop; `direct_mode.rs` resumes from parameters
  of before a rotation. `Interact` does not ask whether the log is closed, since no builder does: the fold must refuse it.
* **The builders of registry events** are in `Registry`. One operator per builder; a rotation's relations of cuts and additions are checked, its threshold is written
  as the caller gives it, and the builders of credential events refuse nothing.
* **Receipt and Discovery.** `NamedBy`, `VerifyWig`, `WitnessPosition` and their neighbours are the steps of `receipt.rs`; a signature
  carries the event it is over, so a receipt of a replaced event is another value. A reply carries a clock with an offset;
  `ValidTime` and `DayNumber` are the calendar arithmetic of the code, which compares nanoseconds in an `i128` and the model pairs of
  seconds and nanoseconds.
* **Watcher.** `Watch` steps the log as `AbstractKel` does, `Learn` brings the establishment of a receiptor, `Take` settles one post from the
  desk. Storing a reply with its marker is one step, as `docs/discovery-integration.md` asks of a host. The log is that of a
  nondelegated identifier; the host supplies the key state at the coordinate a signer claims.
* **Credential and Ipex.** A credential is a record with its edges; that its bytes fit a schema is a fact about it. `Walk` is the walk with its
  three limits; what it lacks it names, and the host may learn it. `Parsed` is the typed parse of an exchange message, `BeginVerdict` and `IngestVerdict`
  the judgment in the order of the code, `Begun` and `Advanced` the conversation it leads to.
* **Exchange.** Variables: `heads` and `trail` (in storage: the conversation and the replay markers), `known` (accepted facts, which
  only grow), `desk` (what each worker has decided and not stored, lost in a crash), `wire` (what was sent stays: it can be delivered late,
  never or again). `Decide` reads head and evidence, `Commit` stores the decision only if the head is still the one it was made
  on. A party speaks by putting its own message to its own fold.
* **Cesr, Groups, Framer.** A cell stands for four characters, or for the one mark of a JSON or CBOR head that a decision depends on; a
  primitive is its code class and its size in cells. A cursor is what the code keeps between calls. `ParseGroup` frames a group with
  the cursor and then parses the framed cells through the dispatch, a table of its own in the code and in the model; the assumption
  `TablesAgree`, which TLC evaluates, compares the two on every code.
* **MessageParse.** `Routes` says which groups a message of each kind takes and where they go; an envelope is walked one level deep.
* **EventCodec, Relay.** A body is the sequence of its fields; a digest is a constructor over code and digested body, so an altered
  body has another digest and no cryptography is needed. Values keep their spelling where two spellings have one meaning. `Alter`
  drops, repeats, swaps or replaces a field anywhere, `Forward` renders anew what was read, which is all the codec
  lets a relay do, since it keeps no bytes.
* **Primitives.** Variables: `built`, `wire`, `form`, `mark` (the damaged character), `cut`, `read`, `verdict`. Every character of a primitive
  is in the model, since pad bits, lead bytes and soft parts are what can go wrong; the codes are listed once, with their sizes
  (`Sizes`). `DecodeInt` has four digits, the most that any field has.

## 3. The runs

| Run | Asks |
|---|---|
| `threshold_words` | Over a word of 100 values: are signers short of a threshold never accepted, and is the judgment the rational one wherever the sums fit? |
| `kel` | Fourteen messages about one identifier, forged and partial ones among them, repeated in any order; and seven of them once each, in any order: does the escrow lead to the recovered log? |
| `kel_terminal` | Is what was judged terminal never acceptable later? (It may be, after a recovery.) |
| `delegate` | A delegate's log under rivals, an unauthorized rotation, an inception its delegator refuses and climbs; and four rivals once each: does the one the delegators rank last end in the log? |
| `delegate_mixed` | Can two delegated rotations supersede each other in turn? (Yes, rules B1 and B3 conflict.) |
| `tel` | Messages about a backed and a backerless registry, repeated in any order, while the issuer's log grows and is recovered; and once each, receipts in pieces: does the credential end as revoked? In every state: is what the builders build next, or a registry they begin, admitted? |
| `controller` | Custodian, builders and fold under any key counts, refused builds, saves and crashes: does the log only take what was built, and can the controller always go on? |
| `watcher` | Receipts and replies in any order about a log that is recovered: who counts as a witness, and which reply stands? |
| `exchange` | An application, two possible offers, forgeries, two workers, a crash and a revocation at any time: do both parties hold one conversation, and does it end? |
| `stream` | Streams of written messages and malformed ones, cut at any place, under loose and exact limits: does a reader make of them what was written? |
| `codec` | A message of every type, respelt, altered and passed on: is it read as meant, does an alteration show, does its digest survive? |
| `primitives` | A primitive of every shape, damaged, cut and converted: is it read as built, and what is accepted canonical? |

The two runs that end in a violation are disagreements between the code and a sentence of its docs, comments or
tests; `PROJECT.json` quotes both sides under "findings". Section 5 lists disagreements that have no run.

**What the properties say.** `JudgesAsRationals`: the threshold's arithmetic never accepts what rationals refuse (`NeverOverAccepts`) and
agrees with them where the word holds the sums (`ExactWhereItFits`). `FoldsAgree`: the state
carried by the validating fold is the trusted replay of the stream. `Attested` reads the log alone, as an auditor
would: a quorum of the keys in force, a quorum of the keys committed to, enough of the witnesses in force, and nothing after
an establishment that closed the log. `SupersedesIsAntisymmetric`: no endless exchange
of two events. `SealedByDelegator`: no order of evidence lets an unsealed establishment into a delegate's log.
`KeepsPromise`: the host implements `AbstractKel`, a hash chain that loses events to the two permitted recoveries only. `ErrandSettles`, `RivalsSettle`: the log converges.
For registries, `BackersOfTheirTime` recomputes from the accepted events alone who the backers were at the management
event that a backed event names, and counts their receipts; `SealedByIssuer` finds the one event of the issuer's log,
present or replaced, that sealed each accepted event; `KeepsPromise` is the refinement of `AbstractTel` (one issuance, final
revocation); `BuiltIsAdmitted` says that whatever state a registry or a credential is in, what a builder builds next, or first for another registry, is
accepted with its evidence and what it refuses would be refused; `TerminalIsFinal` holds here, where it fails for key events, because no verdict on a registry event depends on a
head that can be replaced: what the fold has called terminal or contested is never acceptable again (a recovery of the issuer's log may make it wait for its anchor once more, in vain);
`TelSettles`: the log of a credential converges.
For a controller, `NoKeyServesTwice` says that the paths of all positions of a log and of its commitment are spelt
differently, which nothing but the growth of both counters ensures; `FoldAccepts` that what the custodian commits to and a
builder lets through is never refused, except for an interaction on a closed log; `Recoverable` that the oldest saved
parameters and the log lead back to the keys in force and to those committed to; `HonestOverlap` that two quorums of receipts under the default threshold share a witness
which is not faulty.

For a watcher, `WitnessedByToad` counts the witnesses in force at an event whose signatures over it the host holds, not the
receipts nor the witnesses of another event; `StandingIsBacked`: a reply in
force, or a query served, is signed by a quorum of the keys that the log as it now stands establishes where it says; `NewerOnly` compares clocks of all time
zones by a calendar that counts days, leap years and minutes one by one from the year 0; `Settles`: honest senders are heard whatever the order.
For an exchange, `GrantedAsOffered` relates a grant to the offer, the application and the accepted anchor; `GrantsAreValid` recomputes
validity by reachability instead of the code's walk; `KeepsPromise` is the refinement of `AbstractExchange`; `TerminalIsFinal` holds
but for a grant judged against an event that a recovery then replaced; `Concludes`: unless a credential is revoked meanwhile, both sides come to an end.
For a stream, `FramesAsWritten` and `ReadAsWritten` compare what a reader gets with what was written, by the framer, the message
parser (`RoutedAsWritten`, down to each signature in the slot of those who made it) and the group parser (`UnwrapsAsWritten`);
`LimitsAreExact` counts limits on the messages as written, in both directions (`BudgetsHold`, `FairVerdict`); `ChunksDoNotMatter`
compares with a reader that got everything at once; `AsksInReason` says when a reader may ask for more (`BoundedBuffer`,
`NoNeedlessWait`, `Drains`).
For the codec, `WrittenIsRead`, `AlterationsShow`, and `ForwardedAsWritten`, which leaves out bodies of other authors that pad
their numbers: those a relay respells, see section 5.
For primitives, `ReadsAsBuilt` (what was built is read, and damage in one stays inside it), `CutMeansMore` (input that ends early is neither malformed nor complete), `RewritesAlike` (what is
accepted is canonical), `FormsAgree` (text and binary readers accept the same), and `VerifiesAsSigned`.

**Bounds, and why they are enough.**
* `MaxWord` = 100 stands for `u64`: ninths overflow it at the third factor as they overflow 64 bits at the
  twenty-first. Thresholds: every simple one up to three, every clause of up to two weights over
  {0,1,2}/{1,2,3}, uniform clauses up to four, two clauses side by side, and those that overflow. `MaxKeys` = 4 positions
  is one more than the widest clause that precedes another. Clauses with a zero denominator are among them: in memory
  they pass `check_well_formed` (the deserializer refuses them), and `NeverOverAccepts` shows that no signers satisfy them.
* `kel`, the storm: four sequence numbers after the genesis, which is what a recovery behind an interaction, an
  interaction after it, a closing rotation and an interaction past the close take. Each rule of the judge has a message
  that reaches it. Messages may repeat for ever; the state is finite since the escrow merges by event.
* `kel`, the errand: without repetition, so that the escrow alone must do it. The first state chooses between the two deliveries; so it is in `delegate` and `tel`.
* Delegated runs: one rotation in dispute between two or four rivals, evidence at two levels of delegation. `DEPTH` of the
  climb is bounded by the chain supplied, in the code as in the model.
* `tel`, the storms: eight issuer events with one recovery at number 1, a rotation of two backers to two others, a rival rotation
  on the replaced branch and one on the accepted branch's seal, a backed issuance, its revocation receipted by the backers
  it names and by those before them, and a whole life of a backerless credential. The errand: the backed half in eight pieces. Builders are tried with twenty pairs of cuts and additions, overlapping and repeated ones among them, and thresholds from 0 to 3.
* `controller`: numbers are written in base 2 instead of 16, so that digits gain a place at 2 and 4 and paths of equal
  length abound after three rungs; `MaxIndex` = 7 stands for `u64::MAX` and is met by ladders of two to three keys a rung; counts from 0
  to 3, hence abandonment and an empty rotation set; five events; eight choices of options over five witnesses, with the
  set growing to four, cut to two, exchanged in part, emptied, and overrides that a builder must refuse. Overridden thresholds are simple ones: a
  weighted one may be short (section 5), which is not a matter of the controller.
* `watcher`: four events, one recovery that cuts two of three witnesses and adds one, receipts of all three kinds, of replaced events
  and by witnesses already cut, a receiptor whose establishment comes late, replies with several offsets from UTC on both sides of the rotation. Four mails, one in each
  behaviour (first receipts, later receipts, replies about a role, replies about places and states): what one resource or event gathers does not depend on
  the others, and the theorems are about any mails.
* `exchange`: one application with two offers, since a second conversation shares nothing with the first but facts; a diamond of
  credentials and one whose chain exceeds the limits by one; two workers for the applicant, which is what a race takes; one crash.
* `stream`: nineteen written and four malformed streams, arriving in chunks of every size. Each limit is so tight in some scenario that a message breaks it and a smaller one does not. Every counter of the first table that a message takes, nesting to depth three, a genus switch to the second table and back.
* `codec`: every message type, every form of threshold, count, seal and block; one alteration of any field of the body or of the end of a list in it,
  and one relay: a second relay starts from what the first one wrote, and that is shown to be what the author wrote.
* `primitives`: a value of every combination of code, soft, pad and lead sizes, alone and followed by another; damage in the first twelve
  characters, which reach past every code into its payload, by a character of each kind, the filler among them; cuts at every character; up to four primitives with two keys and two signatures.
* Deadlock is not checked where the world ends when everything has been read: `kel`, `delegate`, `tel`, `watcher`, `exchange`, `stream`, `codec`
  and `primitives`.

**Fairness.** Liveness is checked in `kel`, `delegate`, `tel`, `watcher` and `exchange`. Each message is weakly fair to be delivered: a host reads
its input, and a message in flight stays deliverable. Each parked event is strongly fair to be re-driven: the crate's
contract for `Awaiting` is that the host re-drives when evidence arrives, and an event may leave and re-enter the
escrow under other evidence, so weak fairness would be too little. Nothing is assumed about which evidence is tried. An issuer's or a
watched log is weakly fair to grow: an issuer that never publishes the anchors owes nobody a revocation. In an exchange the facts
that exist are learned, except revocations, every worker ends what it began, and a host that could decide something decides something:
which of several possible answers is not assumed.

## 4. The proofs

`KelHost_proofs` proves, for all sets of keys, thresholds, messages, evidence and contest chains, and for hosts that
boot from nothing or from a genesis:

| Theorem | States |
|---|---|
| `Invariant` | the inductive invariant `IInv` |
| `TypeCorrect` | `TypeOK`: stream, escrow and states keep their types |
| `AlwaysHashChained` | `HashChained`: however recoveries rewound the stream, it chains |
| `AlwaysFoldsAgree` | `FoldsAgree` |
| `EstablishmentsAreFinal` | `EstablishmentIsFinal`: no establishment of a plain log is ever rewound |
| `ClosedLogsStayClosed` | `ClosedForever`: a non-transferable state never takes another event |
| `PlainLogsDoNotAlternate` | `SupersedesIsAntisymmetric` of a nondelegated log |
| `HostKeepsPromise` | `KeepsPromise`, the refinement of `AbstractKel` |
| `StreamRevalidates` | the inductive invariant `Backed`: the whole stream passes the fold again, from its start |
| `AlwaysAttested` | `Attested`: quorums of keys, commitments and witnesses, read from the log alone |
| `AlwaysSealedByDelegator` | `SealedByDelegator` |

*Assumptions.* `KeyStateAssumption` (identifiers, keys and names are told apart; non-transferable keys are keys),
`KelHostAssumption` (messages are well-typed, the host may lack evidence, evidence is of one of the three kinds of the code's enum, a stored stream is a genesis that passed its
own inception) and the threshold module's assumption on the word. An interaction has no witness fields, as in the code, so that
`Event` leaves them empty. TLC evaluates all assumptions in the runs.

*The argument.* `HashChained` alone is not inductive: a recovery replaces the tail of the stream on the word of the
judge, who compares the contested number with one field of the head, `estSn`, and of a re-ingest against a *snapshot*.
So the invariant ties the three together. `Tracked` says of every position that its event chains and fits
(`Linked`), that the replayed state points at it (`Carried`), and that everything after the replayed state's last establishment
is an interaction (`QuietSince`); `IInv` adds that the head is the last snapshot. `QuietSince` is what turns the judge's
comparison with `estSn` into "no establishment is lost". The chain of lemmas: what a verdict `"Ok"` of each entry
implies (`Follows`), what `Supersedes` implies (`SupersedesBounds`), that both folds step alike (`SeedAgrees`,
`StepAgrees`), that a tracked stream cut anywhere and extended by an event that follows stays tracked
(`GrowthIsTracked`), and from these that each of the host's actions keeps `IInv`.

`Attested` and `SealedByDelegator` ask about the *evidence* each accepted event came with, of which `IInv` says nothing: it was judged against a
state that the host no longer has. `Backed` keeps it: at each place the replayed state is what the
last establishment below set up (`Standing`: keys, commitment and threshold are those of that event, the witnesses those that the cuts and additions
up to it leave), and the message there passed the fold on the state one place below, under some evidence (`Proven`). A recovery cuts the stream to a prefix, of which all
this stays true, and adds one message that passed on its last state. The properties then follow by opening the verdict: `StepProves` and `GenesisProves`
say which quorums a verdict `"Ok"` stands for, `LastEstIsNamed` that the auditor, who looks for the last establishment, finds the one the state points at.

`PlainLogsDoNotAlternate` needs the genesis to be nondelegated; the run `delegate_mixed` shows that the statement
is false without that.

`TelHost_proofs` proves, for all registries, messages, events of the issuer and recoveries of its log:

| Theorem | States |
|---|---|
| `Invariant` | the inductive invariant `IInv` |
| `AlwaysSealed` | `SealedByIssuer` |
| `HostKeepsPromise` | `KeepsPromise`, the refinement of `AbstractTel` |
| `KeepsLedger` | the inductive invariant `Ledger` |
| `AlwaysReceiptedInTime` | `BackersOfTheirTime` |
| `BuiltIsAlwaysAdmitted` | `BuiltIsAdmitted` |
| `KeepsOneIssuer` | the inductive invariant `OneIssuer` |
| `DroppedForEver`, `AlwaysFinal` | `TerminalIsFinal`, as a law of whole behaviours and of single steps |

*Assumptions.* Those of `KeyState`, `RegistryAssumption` (registry and credential identifiers are digests and distinct, a log may have a second event),
`NoneIsNoHead` and `TelHostAssumption` (messages are well-typed, a name stands for one event of the issuer, what a builder's caller wishes is of the builder's types).
`BuiltIsAdmitted` speaks of a next event only where the registry's number has one: at `MaxSn` the builder's own `checked_add` refuses.

*The argument.* The seal of an accepted message is found in the log at the moment of acceptance and may be rewound
later, so the invariant keeps it in `log` together with `replaced`, which only grows (`SealedByIssuer` itself is a part of
`IInv`). For the refinement `IInv` says that every retained management state names the registry it is kept under and points
at a SAID (`RetainedWell`), that a credential head is a `CredentialState` whose number is 0 or 1 (`HeadWell`), and that what
is unread or parked is a message (`MessagesWell`). So an accepted issuance finds no head, an accepted revocation a
head at 0, and every other step leaves the abstract state alone.

`BackersOfTheirTime` recomputes the backers from the accepted events, while the fold judged by a retained state; `Ledger` says that the two
agree at all times: each retained state has the number, name and threshold of an accepted management event, and as backers exactly those the
events up to it add up to (`StateRecorded`), no accepted event is ahead of the head (`NoneAhead`), and the receipts of each backed event were enough of those
backers (`AcceptedInTime`). What a rotation leaves of the backers (`Without`, a recursive function over a list) is not settled by its definition alone: `PassesExist` (stated with the other lemmas about `KeyState` in each module that needs it) shows first
that the recursion has a solution, by the least length for which it would have none, and `WithoutKeeps` what it computes.

`TerminalIsFinal` compares verdicts under *all* evidence a host could hold, now and later. Most refusals depend on the head or the log, which move, so it is not enough
that each one stays. `Hopeless` names the four ways in which a message is beyond help: the event it names as its anchor seals something else (whether the log holds it, or a recovery took it out and another is there now); its
registry is founded already or cannot be founded by this log's issuer; no head from the present one on admits it; its credential is past its place, or not of its registry. `DroppableIsHopeless`: what is dropped is hopeless; `HopelessIsRefused`: nothing hopeless passes;
`HopelessStays`: no step gives hope. The last needs `OneIssuer`, since a registry whose issuer could change would give hope again.

`Controller_proofs` proves, for every base, stem and index limit, all key counts, options and lengths of the log:

| Theorem | States |
|---|---|
| `AmpleBounds` | `Toad::ample` is at most the witnesses less the faulty, and two such quorums overlap in more than the faulty |
| `Invariant` | the inductive invariant `IInv` |
| `TypeCorrect` | `TypeOK`: no index is derived beyond its width, every built event is well formed |
| `CustodyMirrorsFold` | `MirrorsFold`: the custodian refuses to rotate exactly where the fold would |
| `DefaultQuorumsOverlap` | `HonestOverlap` |
| `AlwaysRecoverable` | `Recoverable` |
| `BuiltIsAccepted` | `FoldAccepts` |
| `KeysServeOnce` | `NoKeyServesTwice` |

*Assumptions.* `KeyStateAssumption`, `CustodyAssumption` (every index derives a key, whose code says whether it is
transferable), `ControllerAssumption` (the events have names, the first of which is a digest; the default thresholds are thresholds) and, for
`FoldAccepts`, `WishesAssumption`: a caller's own thresholds are `Reachable`, met by all the keys together. Builder and fold do not ask that (section 5), so
without it the event could be built and never signed for.

*The argument.* The properties speak of the log, the code of counters; `IInv` says where the counters stand. `Rungs`: both
custodian and saved parameters are on a rung of the ladder, the saved ones never above it, and `ncount` is the length of what that
rung committed to. `CommitmentWell` and `PendingWell`: between `Establish` and `Store` the custodian is one rung above, and
what is pending carries the lists it returned. `HeadWell`: the fold's key lists are those of the last rung, and it is open
exactly when they commit to something. From this `MirrorsFold` follows at once. `AlwaysRecoverable` needs history
as well: that the climb from old parameters meets no refusal depends on the climb that first built the ladder. So
`TrailWell` states that there *is* a sequence of counters, one for each rung, in which each steps to the next with the
specification the log shows, whose keys are the log's, and on which both custodian and saved parameters lie; `LogShowsSpec` shows that the
specification read off the log moves the counters as the caller's did, although the flag of a rotation is not to be
found there. `HonestOverlap` is `AmpleBounds` and the cardinality of an intersection.

`FoldAccepts` is not inductive, since whether the next rotation opens the commitment of the head depends on how the head came to be: `FoldWell` adds that the head's
own thresholds are met by all its keys and by all it committed to (`HeadMeets`), and that the pending event is accepted and will lead to such a head (`PendingMeets`).
`NoKeyServesTwice` is arithmetic on digits. A path is the stem, the rotation index and the key index with nothing between them, so different pairs of numbers may be spelt alike;
along the ladder both grow, and a number never has fewer digits than a smaller one (`DigitsGrow`), so that two paths of equal length are cut at equal places (`PartsDiffer`) and then differ
(`DigitsDiffer`). `Digits` is a recursive function; as with `Without`, `TablesExist` shows by the least number that it has a solution, and `DigitsUnfold` that it is one.
`RungsAscend` brings in the trail: the rungs do not overlap.

`Exchange_proofs` proves, for all parties, messages, facts, limits, workers and numbers of crashes:

| Theorem | States |
|---|---|
| `LocalInvariant` | the inductive invariant `LIInv` of each host by itself |
| `TypeCorrect` | `TypeOK`: conversations, decisions and knowledge keep their shapes |
| `AlwaysGrantedAsOffered` | `GrantedAsOffered` |
| `HostsKeepPromise` | `KeepsPromise`, the refinement of `AbstractExchange` |
| `AlwaysGrantsValid` | `GrantsAreValid` |
| `TerminalStaysFinal` | `TerminalIsFinal` |

*Assumptions.* Those of `Credential`, `Ipex` and `Exchange`: messages are told apart by their SAID and credentials by theirs
(`CredentialSaidsName`), a decision is not `None`, facts known at first are facts and finitely many, limits are numbers (`LimitsAssumption`), and the absent value is
none of the words and records it stands beside (`NoneIsNoWord`). `FactsAssumption` says what the folds of registries let a host accept: a registry has one issuer, a credential's
log is its issuance at 0 and then its revocation, with one event at each number; `TelHost_proofs` shows this of a host that follows those folds (`OneIssuer`, `HeadWell`). `HostsKeepPromise` assumes besides that every application
is from one host to another (`AmongHosts`): a host cannot hold one conversation with a party that is no host of the model.

*The argument.* `GrantedAsOffered` reads a head alone, but a head is stored from a decision that another worker may have overtaken, so
`LIInv` speaks of decisions on a desk as of heads in storage (`DeskWell`, `HeadWell`) and of the trail each head came from
(`TalkWell`); that a commit takes effect only on the head it was made on carries it over. For the refinement `Shared` adds what ties two hosts together:
a trail names no message twice (`Unique`), one trail is a beginning of the other (`Agree`), what a host said is on
the wire (`Spoken`) and what another host holds of it came from there (`Carried`).

`GrantsAreValid` is about the walk of `credential_wire.rs`, which goes down one edge after the other, carries along a path and a count, and stops at the first failure. The property does not know the walk:
it takes *all* sequences of edges that lead from the granted credential to one the host knows. Both are recursive, over the depth, over the edges of a node and over the length of a sequence; `StepsExist` shows
once that such a recursion has a solution, `WalkUnfold`, `EdgesUnfold` and `FollowedIs` that these are solutions. `WalkIsSound` is then an induction on the levels left:
a node that passes with *n* levels left has only sequences shorter than *n*, each ends in a credential that is `Upheld`, and the count grew by at least as many as there are sequences. Its step goes through the edges of the
node: the sequences that begin with an edge are as many as those from its end (`UpToNext`), so what all edges together added to the count covers them, and the node itself the empty one (`LayerIsSound`).
That a node passes its own checks is `IssuedTo` (`OwnIsIssued`), and a decision is taken on the verdict of the walk (`DecidedIsValid`).

`TerminalIsFinal` is proved the other way round: what passes after a step passed before it, or was only awaited. Between two steps a host's evidence grows (`IngestGrows`): more credentials may be named, a head may move from issuance to revocation
(`HeadFor`, whose older value is the issuance, since the log has nothing else), the chain does not get smaller (`ChainNoSmaller`). `VerdictGrows` says of the walk, by the same induction on the levels, that where it passes on the greater
evidence it passed on the lesser or found something missing that is awaited; `LearnedStaysTerminal` lifts it to messages. If the step is a commit, one conversation moves on and knowledge stays. `GrownStaysTerminal` shows that a message which passes on the new head must answer the message just stored; that one
was nowhere before (`GrowsAnew`, since a message has one place: `SaidsHavePlaces`), so that its answer was awaited; every other message meets the head it met before. A crash leaves heads and knowledge alone.

`Watcher_proofs` proves, for all logs, mails, acquaintances, keys and thresholds:

| Theorem | States |
|---|---|
| `AlwaysWitnessed` | `WitnessedByToad` |
| `AlwaysBacked` | `StandingIsBacked`, in every state in which the log is not delegated |
| `AlwaysNewer` | `NewerOnly` |

*Assumptions.* `WatcherAssumption`: two events of one name are one event; no event lists a witness twice (the fold that accepted it refused that, as `KelHost`
shows); what is under way is a receipt or a routed message, where a couple, and likewise an indexed receipt, carries one signature, and a signer that is a key alone has no coordinate; the
absent value is no event's, reply's or version's. `KeyStateAssumption` as above.

*The argument.* A receipt is filed under the event it names, and the log may be recovered behind it, so `IInv` does not relate the tally to the log of now: each receipt
*speaks* for a position of the witness list as it was in some chain of events that ends in the event it names (`Speaks`). Since an event names its predecessor, two
chains that end in one event are one chain (`SameChain`, by the least place where they differ, downwards), hence also its witness lists (`ListsAgree`). So all receipts of an
event of the log speak for positions in its governing list, which has no repetitions; the positions counted by `accounted_by` map one to one into the
witnesses whose signature is held (`TallyWitnesses`). That the list and the set of witnesses of the state agree, and that a state whose last establishment has its own number
carries the keys of the event at its place, is shown of every place of a replay (`ReadsEverywhere`). The same gives `AlwaysBacked`: a
signer that passes names an establishment of the log (`SignerIsBacked`), and recoveries of a log that is not delegated replace interactions alone (`BackedStays`). For
a delegated log the statement is not true: section 5.

`AlwaysNewer` needs that the marker is the version of the reply in force (`StandsWell`) and that instants order as the calendar does (`UtcOrders`). The reference counts: leap
years before a year, dates before a date, both as cardinalities. `LeapsCounted` and `MonthsCounted` show what they come to, `EraDays` what the era
arithmetic of `parse_reply_time` comes to, and `DaysAgree` that the two differ by 719528, the days from the year 0 to 1970, on every valid date of ten thousand years. Fractions of different
precision order by cross multiplication as their nanoseconds do (`CrossMultiplied`), and pairs of seconds and nanoseconds as the one `i128` of the code (`UtcIsANumber`).

`SignatureQuorum_proofs` proves, for all thresholds, numbers of keys and widths of the word:

| Theorem | States |
|---|---|
| `AlwaysJudgesAsRationals` | `JudgesAsRationals`: `NeverOverAccepts` and `ExactWhereItFits` |

*Assumptions.* `MaxWordAssumption` and `MaxKeysAssumption` (both are numbers, not zero), `ThresholdsAssumption` (a threshold is a number of
signers or clauses of fractions of natural numbers, denominators of zero included, which `from_nested` lets pass).

*The argument.* The invariant is small (`Known`: only positions of the key list are signed for); the work is in the judgment. The code adds up one clause
in the order of its positions, the reference multiplies and adds over a set in any order, and both are defined by recursion. `SumTable` and `ProductTable`
tabulate the reference for all parts of a set at once, and `SumIs` and `ProductIs` show that the table does not depend on the order, by a smallest part on
which two orders would differ (`SmallestSet`); hence `NumeratorSteps` and `DenominatorSteps`, what one more position adds. `ClauseSumSteps` tabulates the code's pass,
and along it `ClauseSumIsExact`: the sum is lost, or it is the rational one of the positions passed. `ClauseSumIsKept` is the converse: each partial sum is
no more than the whole (`PartsAreSmaller`), so where the whole fits nothing is lost. `BaseIsSum` ties the running base of `clauses()` to the positions a clause owns.

`Matter_proofs` and `Primitives_proofs` prove, for every sequence of characters or bytes and every code of the tables:

| Theorem | States |
|---|---|
| `TextSurvivesBinary`, `BinarySurvivesText` | text over the alphabet, a multiple of four long, and bytes, a multiple of three long, are converted into each other and back without loss |
| `TextComposes`, `BinaryComposes` | a stream converted piece by piece is the stream converted at once |
| `ReadsItsSpan` | a text that reads as a plain primitive, cut anywhere: with its span it reads as the same value, with less it asks for more |
| `ReadIsCanonical` | unless the last character of its span is a filler, writing the value that was read gives the characters that were read |
| `MatterFormsAgree`, `IndexerFormsAgree` | an aligned text reads as a plain primitive, or as an indexed signature, exactly when its bytes do, with the same value and a size in proportion |
| `PromotedCounts` | the code a variable code is promoted to has the lead asked for and digits enough for the size, so that nothing is promoted for a size four digits cannot write |
| `MatterReturns`, `IndexerReturns`, `VersionOneReturns`, `VersionTwoReturns`, `ItemReads` | what is written of a value a builder leaves is read back as that value, all of it, by the reader of its family |
| `AlwaysFormsAgree` | `FormsAgree` |
| `AlwaysCanonical` | `AcceptedIsCanonical`: what a reader takes of any stream, damaged ones too, is the canonical text of its value, or the bytes of it, but for what the code does not look at |
| `AlwaysLayout` | `LayoutInv`: what is left of an undamaged stream, and what was read of it, against what was built |
| `AlwaysSoundReadsAsBuilt`, `AlwaysCutMeansMore`, `AlwaysRewritesAlike` | `SoundReadsAsBuilt` (the first half of `ReadsAsBuilt`), `CutMeansMore`, `RewritesAlike` |
| `AlwaysDamageStaysInside`, `AlwaysReadsAsBuilt` | `DamageStaysInside` (the second half) and `ReadsAsBuilt` |

*Assumptions.* The invariants use `MessagesAssumption` (every item is what a builder leaves, `IsItem`, and a message has one version string at most, as a body has one head) and `ReachAssumption`
(damage reaches so many characters). The others have none but what they state.

`MatterFormsAgree` and those above it are also what the actions `ToBinary` and `ToText` of `Primitives` rely on, for texts of any length
and origin instead of those the run writes and damages.

*The argument.* Four characters and three bytes are the same 24 bits: `BitsOfThreeBytes` and `BitsOfFourSextets` say so in linear arithmetic, where both directions shift a window
of two neighbours; `QuadletReturns` and `TripletReturns` carry it to any place of a sequence, once it is known in which quadlet the place is (`PlaceInQuadlet`). That a character
has one place in the alphabet takes all pairs (`AlphabetDiffers`). Reading needs what the table of sizes promises (`SizageFits`: a code is as long as its size says, a
whole primitive is quadlets, a variable code too): then a read looks at the code, the soft part and the span (`CodeReadsAlike`, `FrameReads`, `SpanReads`) and at nothing beyond. For
`ReadIsCanonical`, zero pad bits under a pad of first characters make the first bytes of the aligned payload zero (`PadBecomesZero`), so that with the lead bytes they are exactly what writing puts before
the raw bytes (`PayloadReturns`). The first attempt failed at the decoder's filler, which the model had left out: section 5.

The two readers share no code: the one tells the length of a code by its first character and the other by its first sextet (`HardSizesAgree`, from the places of `Places`), the one aligns the payload by pad characters and
looks for zero bytes, the other looks at the last bits of the last byte of the code and reads on from there. `BytesShift` ties them together: a text that repeats another from some quadlet on, but for its first characters, has the bytes
of that one from some triplet on, and under the pad the low bits alone. So what is aligned is what stands behind the code (`SpansAgree`), and the conditions on size, pad, lead and fixed pad are the same ones. For indexed signatures the head of
the binary form comes back as the head of the text (`HeadReturns`), and no more of it is read (`IndexerReadsSpan`). `AlwaysFormsAgree` needs that the stream is always one of characters or one of bytes (`WireInv`):
for that, every outcome has a size (`TextSizeIs`, `BinarySizeIs`), and whatever bytes are read as a soft part become characters of the alphabet (`CharactersAreLetters`).

What is built is read back because writing leaves zeros just where reading looks for them: `MatterReturns` and `IndexerReturns` take the length of what is written from the table of sizes, follow the soft part
and the indices through as many digits as they have (`DecodeInt` of `EncodeInt`), and the payload through the conversion of its padded bytes; version strings go digit by digit, with hexadecimal digits recognised in either case.
`LayoutInv` lays the built items end to end (`Laid`: a start for each) and says that the stream is the text from the start of the item that is due, in the form it has (`Left`). Text may end anywhere. In binary a cut may leave part of a
triplet, so that what is left is told in quarters of a byte (`q`), and what is left whole and what was cut stay apart in the invariant: else a stream cut in the middle of an item might be converted back and look
complete. Version strings are no whole number of quadlets (`InQuadlets`): one of the first version shifts what follows it by one character, so that no whole stream with it ahead is quadlets, and one of the second ends
in a character that is none of the alphabet. Neither can be turned into binary (`NoVersionInBinary`), and so what is due in a whole binary stream is never a version string. `TextIsTaken` and `BinaryIsTaken` say what one
read then makes of it, `LayoutStep` that each action keeps the rest. `RewritesAlike` needs both invariants: `AsBuilt` for undamaged streams, where indexed signatures are canonical because they were built so, and `AcceptedIsCanonical`
for damaged ones, where only the readers can have seen to it.

A damaged stream has an invariant of its own (`DamageInv`): the text that was built but for one character (`Struck`), and, for the item it struck, one of two things. Either the reader is in step: what is left is
all of that text from the item that is due, every other item was read as built, and only at the struck one may the reader have stopped (`AsStruck`). Or the head of the item was struck, the item was read at whatever
size its new head says, and nothing is claimed of what follows (`Astray`). An item that was not struck stands in the damaged text as it was written (`PieceStays`), so it is taken as in an undamaged stream (`ReadOther`). For the
struck one, a read looks at the characters of the code and the soft part to find the size (`HeadDecides`): damage behind them, if it is not refused, leaves the size what it was (`StruckIsTaken`). In binary there are no characters,
but what converts is the conversion of a text, and both readers take proportional spans of it. `DamageStaysInside` finds the struck item by adding up lengths; `StartIs` shows that the recursive function doing so gives the
starts of the layout.

`TypeOK`, `HashChained`, `EstablishmentIsFinal`, `ClosedForever` and `MirrorsFold` are stated for every instance by these theorems
and are in no configuration: what the runs ask instead, `KeepsPromise`, `Attested` and `FoldAccepts`, is harder to keep.

*Recursion.* The provers have no induction over data with a predicate of one's own, but what a recursive *function* computes can still be proved: if a statement failed for some number,
it would fail for a least one (`LeastNumber`, since the order of the numbers is well founded), and one step of the recursion contradicts that. `PassesExist`, `TablesExist`, `RungsAscend` and
`DigitsGrow` are of this form, and `SmallestSet` carries it over to folds over finite sets.

*Only model-checked.* Liveness (`ErrandSettles`, `RivalsSettle`, `TelSettles`, `Settles`, `Concludes`), which is out of the prover's reach. `Cesr`, `Groups`, `Framer`, `MessageParse`, `EventCodec` and `Relay` have
recursive operators, since grammars and bodies nest, and belong to TLC alone. Of `Primitives`
`VerifiesAsSigned` is model-checked, which holds for the keys and the damage of the run and not for any: nothing keeps damage from turning one raw key into another.
The statement of `kel_terminal` is false, and `SupersedesIsAntisymmetric` of delegated logs.

## 5. Disagreements and limits met while modelling

Two have a run and are findings: `kel_terminal` and `delegate_mixed`. The others follow from the lines named, without one.

* **Thresholds.** One more signature can turn a satisfied weighted threshold into an unsatisfied one, when its exact sum overflows
  (`threshold.rs:238`; a test is called `weighted_adding_signer_is_monotone`). A well-formed weighted threshold may be out of reach of all its keys,
  since weights are not added up (`threshold.rs:188`).
* **Spelling.** Numbers are read in any spelling and rendered in one (`keri-codec/src/codec/field.rs:150`), thresholds of a registry are
  read as integers and rendered as hex, and a single nested clause loses its brackets: a relay that renders such a body anew gives it another digest.
* **Receipts** carry no digest of themselves, so the codec does not notice an alteration of one; the signatures do.
* **Docs of the parser.** `TelMessage` says that only `-A` controller signatures are accepted (`message.rs:441`), `route_tel_group` also takes `-B`.
* **Docs of the builders.** Every registry builder is said to validate thresholds (`builder/tel.rs:16`); that of a rotation takes `Toad::from_wire`
  as it is. A registry built with neither `NB` nor backers takes backed events alone; at a threshold of zero these need no receipt, since no backer at all meets it
  (`threshold.rs:267`), and `iss` and `rev` are refused. The builders of credential events do not look at whether the registry is backed.
* **Exchange.** After a revocation between grant and answer the applicant can neither admit nor spurn. A grant whose anchor was replaced
  is terminal, though a recovery may cure it.
* **Watching.** `Stale` and a mismatch of the signer's state are terminal, though a later log may cure both; queries have no protection against replay; replies
  of one establishment at the very same instant are left out of the instance. When a contested rotation of a delegated log replaces another, replies signed under
  the replaced keys stay in force: nothing asks the host to look at them again.
* **Primitives.** `promote` of a large code refuses size 64^4 - 1, which four digits hold and which a small code is promoted for (`matter_code.rs:797`). Pad bits of an indexed signature and the case of hexadecimal digits of a version string are not looked at; the soft part of special codes is not
  compared with the alphabet when text is read; `NumberCode::for_value` promises the smallest code (`number.rs:50`) and passes over two for values from 2^64 on;
  variable codes cannot be built by the builder, so that in the model another implementation writes them. The decoder of Base64 that reads plain primitives (`matter/builder.rs:161`) takes one or two final `=` where the bytes they stand for are zero, and the value
  then has less raw bytes than its code holds: it is accepted, though the docs promise an error for what "fails canonicality checks" (`matter/builder.rs:92`), and it is not written again as it was,
  though only a wrong table or a constructor for tests "can violate the computed output length" (`matter/matter.rs:87`). `RewritesAlike` and `ReadIsCanonical` except it.

## 6. Not modelled

* The curves, hash functions, key stretching and mnemonics of `cesr/src/crypto`: assumed, as in section 2.
* Characters and escapes of JSON, and the bytes of CBOR and MGPK bodies, which the codec does not read beyond their head.
* The schema language of credentials, and the paths inside an embedded one: a fact and a proof of the model.
* The adapters of `wire.rs` that copy a parsed message: they hold no state and decide nothing.
* Delegated events in `EventBuilder`: they differ from the others in kind and delegator. A delegator's log recovered behind an accepted delegated event:
  the crate has no operation for it, and the host of the model, like the crate's, keeps what it accepted.
* Fuzzing, benchmarks, tools, build files and reference implementations kept for comparison in tests.

## 7. Plan

Done: the folds and their hosts, registries, custody and builders, receipts and replies, credentials and exchanges, streams, messages, codec and
primitives, each with its runs; the theorems of section 4. Left:

* Two composed hosts of a delegator and a delegate.
