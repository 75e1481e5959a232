# Verification of siros-dc-matcher in TLA+

The repository builds a *matcher*: a small wasm program that Android's credential
manager runs when a verifier asks for a digital credential. It reads the request
and the blob of credentials the wallet registered, decides which of them answer
the request, and tells the host's picker what to show. It has no user interface,
no log and no second chance: what it shows is what the user can consent to, a
trap shows nothing, and silence looks the same as having no credential.

This directory models it in TLA+, checks the models with TLC on small instances
and proves the most important results with TLAPS for every instance.

## The system's parts

| part | code (`src/crates/...`) | state it keeps | operations |
|---|---|---|---|
| DCQL engine | `siros-dcql/src/eval.rs`, `eval/products.rs` | within a call: candidates, partial combinations, the drop count, the dials | `execute`, `combinations(limit)` |
| DCQL query | `siros-dcql/src/query.rs`, `path.rs` | none | `from_json`, `validate`, path selection |
| request dispatch | `siros-dc-matcher-core/src/request.rs` | within a call: the entry considered, the reasons collected | `first_supported_context`, `parse_dcql_or_zkp_req`, `matching_query`, `diagnose` |
| profile and policy | `.../evaluator.rs`, `profile.rs` | the rules in the blob | `ProfilePolicy::matches`, `resolve` |
| circuit capabilities | `.../circuit_capabilities.rs` | none | `Capabilities::parse`, `serves` |
| proof times | `.../proof_time.rs` | none | `render`, `parse`, `check_tolerance` |
| zkp_req requests | `.../zkp_req.rs` | none | `plan`, `unsatisfiable` |
| zkp_req responses | `.../zkp_req_response.rs` | the CBOR reader's position | `validate_response`, `decode_cbor` |
| credential database | `.../db.rs` | the decoded blob | `from_cbor`, `icon_bytes`, `claim` |
| matcher invocation | `siros-dc-matcher-wasm/src/main.rs`, `picker.rs` | the invocation's progress | `main`, `run`, `emit_set`, `Diagnostics::emit` |
| allocator | `.../simple_allocator.rs` | the bump pointer and the end of memory | `alloc`, `dealloc` |
| entry sets | `android-credman/src/set.rs`, `sets_on_host.rs`, `levels.rs` | the host's level, the default delegation | `add_entry_set`, `SetEntry::send` |
| host inputs | `android-credman/src/host.rs`, `reader.rs` | how much of the blob has been read | `credentials`, `CredentialReader` |
| the picker | closed; `siros-dc-matcher-testhost/src/lib.rs` stands in | sets declared, entries added | the `credman` functions |
| registration | `siros-dc-matcher-ffi/src/lib.rs` | the lists added so far | `add_credential`, `add_icon`, ..., `build` |
| in-process matching | `siros-dc-matcher-ffi/src/matching.rs` | none | `match_dc_api_request`, `match_dcql`, `zkp_req_plan` |

`main` reads the host's level, stops below 2, reads the request and the blob from
the host, and calls `run`. `run` decodes the blob, picks the first request entry
it supports, evaluates it with the engine under the profile's policy, and sends
each combination of credentials as one *entry set*: a declaration, then for each
member the entry, its delegation, link, fields and display text as far as the
host's level reaches. The picker shows a set as one choice. The wallet registers
the blob beforehand with the builder of the FFI. The wallet application links the
same core: it matches a request or a bare query in process, plans `zkp_req` queries
with the code the verifier plans them with, and the verifier checks what a prover
answers with `zkp_req_response.rs`.

Nothing in the matcher runs concurrently; the builder is shared by the wallet's
threads behind one lock. What is hard about the system:

- **products and limits**: combinations are a product of widths that overflows
  `usize`, enumerated lazily under a limit spent across options and sets;
- **vacuous truth**: empty queries, options, claim sets and optional sets satisfy
  most checks trivially;
- **positions and ids**: what is attached to an entry is addressed by set,
  position and credential id, and a repeated set id or a missing image silently
  discards what was built;
- **host levels**: each call exists from some level on, and traps below it;
- **partial reads**: the host may answer a read short, or break its contract;
- **two readings of one request**: labels, shapes of data, a tolerant second
  parse, and two callers that filter and explain differently;
- **ordered rules**: the planner and the response check return the first thing
  wrong, so an order is a promise about which rule is named;
- **two clocks**: a proof is fresh by the verifier's clock and made by the prover's;
- **boundaries**: 32-bit offsets, saturating and checked arithmetic, two
  day-number formulas, lengths declared in a head before their bytes are there.

## What makes each part correct

- *Engine*: what is offered answers the whole request with credentials the
  queries accept, in the order of the wallet, no more than the limit, cut only
  at the limit, and the number left out is not exaggerated.
- *Claims*: exactly the first option the credential can deliver is disclosed.
- *Entry sets*: every set arrives whole and in place, nothing attaches to
  another entry, no call traps, and the wallet is told truly what was left out.
- *Blob*: the bytes the matcher decodes are the bytes the wallet registered, or
  the guest traps before it uses one.
- *Allocator*: blocks are aligned, disjoint and in memory, and what fits is given.
- *Builder*: the blob says what the wallet added, whatever the order of the calls
  and though a thread died in between; each icon is found again.
- *Invocation*: the user sees either complete choices, or one diagnostic if the
  wallet asked for it, or nothing; if the wallet can answer, there is a choice.
- *Dispatch*: the first entry that can be read under its own label and is accepted
  is the one answered; a query is read from a signed payload exactly under a signed
  label; nothing the verifier asked is lost on the way to the engine; a refusal has
  a reason for each entry; a bare query is evaluated exactly when its ids name one
  thing each.
- *Policy*: what is offered the wallet can prove; the verifier's order of preference
  is kept; the secrets behind a pseudonym are not disclosed as claims; a circuit
  fits the attestation it is chosen for, and one that describes itself can prove
  every function planned.
- *zkp_req exchange*: what has passed answers everything that was asked; the first
  rule broken is the one named; a proof is fresh by both clocks; ranges of dates that
  narrow a birthday down are declined.
- *CBOR reader*: it reads what the grammar encodes and nothing else, reserves no more
  than the input backs, and ends.
- *Calendar*: both formulas count the days of the one calendar, and saturation never
  changes the tolerance check.

## Modules

| module | models | how state and actions correspond |
|---|---|---|
| `Basics` | the absent value, and picking elements of a sequence | pure; shared by all that follow |
| `Dcql` | the query model, `select_claims`, `resolve`, when a credential is a candidate | pure operators. A path is opaque; a credential's content maps each path to the set of values it selects, empty for every `PathError`. A query without `values` accepts all values. The policy is the constant operator `Matches` |
| `DcqlEval` | `execute` and `combinations` | one step is one turn of a loop; `pc` names the loop. `q`,`c` index query and credential; `out`/`next` are the code's `out`/`next`; `p`,`o`,`g` index partial, option and set; `dials` and `left` are the odometer and the readings to go |
| `DcqlAnswer` | what the engine promises its caller | one step from request to answer |
| `DcqlProperties` | the engine's properties, the reference enumeration `AllWays`, and `ImplementsAnswer`, which instantiates `DcqlAnswer` | |
| `PickerHost` | the host's record of calls | as the test host keeps it; `Shown` and `Discarded` are what the real picker makes of it, from `ABI.md` and the comments of `main.rs` |
| `EntrySets` | `add_entry_set`, `SetEntry::send` | one step is one host call or its omission; `slot`, `alt`, `part`, `field` are the position of the nested loops |
| `AnySets` | a matcher that sends any sets, each id once (`AnySpec`) | the environment `EntrySets` is checked in, and its properties |
| `MatcherRun` | `main` and `run` | composes `DcqlEval` and `EntrySets`, extending both: a step is a step of the engine (`EngineNext`), of the sink (`Send`) or of the loop around them; `phase` and `index` are the invocation's progress. Also what the user sees of it, `EveryCombinationShownWhole`, and `KeepsPromise`, which instantiates `PickerPromise` |
| `PickerPromise` | what the user is promised | one step from invocation to choices |
| `CredentialReads` | `Host::credentials`, `CredentialReader` and the host's answers | one step is one host call or one `read`/`seek`; `phase`, `buffer`, `delivered` are the loop of `credentials`, `position` the reader's. `Zero` is the byte of a buffer nobody wrote, kept apart from the blob's bytes; `out` is what the last read reported |
| `BumpAllocator` | `SimpleAllocator` | one step is one `alloc`; `NEXT_ADDR`, `CURRENT_PAGES` are the statics, `memory` the host's size of the linear memory, `used` the addresses handed out. The rounding `addr & !(align - 1)` is to a multiple, which is the same for powers of two. `dealloc` changes nothing and is no step; `realloc` is the library's: `alloc` and a copy |
| `BlobBuilder` | `SirosBlobBuilder`, and `icon_bytes` on the matcher's side | one step is one method, since each holds the lock throughout; `Panic` is a thread that dies holding it. `build` changes nothing and is an operator on the state. `calls` records what the wallet asked for |
| `DcqlReading` | `parse_dcql_or_zkp_req`, `matching_query`, the id checks of `validate` | pure operators; what serde makes of a credential query is given with it (`parses`) |
| `RequestDispatch` | `first_supported_context` and `diagnose` as the matcher and the wallet call them, and the two readings of a bare query | one step is one entry, or one reading; `phase` names the loop, `at` the entry, `context` what was found, `parts` the reasons so far |
| `DispatchProperties` | what the dispatch promises | |
| `JsonValues` | `serde_json::Value` by what the code asks of it | pure; what is read out of a text is given by constants |
| `Calendar`, `ProofTime` | leap years, month lengths, both day-number formulas; `render`, `parse`, `check_tolerance` | pure; a text in the exact form is its six numbers; 64-bit saturation is to `MinInt..MaxInt` |
| `ClockWalk` | (a reference) the calendar walked one day at a time | one step is one day, or one question put to `check_tolerance` |
| `ZkpRequest` | `plan` and `unsatisfiable` | pure; the order of the checks is the order of the IFs |
| `CircuitCapabilities` | the reading of a circuit's description, and whether it serves a plan | pure; every error of `read` means the same to its caller and is one value |
| `ProfilePolicy` | `ProfilePolicy::matches` and `resolve` | `phase` is the check it is in; the loops over requirements and meta rules are a step an item (`at`) |
| `PolicyProperties` | what is offered, in what order, and what is not given away | |
| `ZkpResponse` | the rules of the response check, in order | pure; a CBOR item is a record, a map the sequence of its pairs |
| `ZkpExchange` | a verifier, a wallet and a prover around one request | composes `ZkpRequest`, `ZkpResponse` and `ProofTime`; the prover is not in the sources: it answers as the rulebook says, then up to `faults` places are altered; `Tick` lets time pass between any two steps, the clocks differ by `drift` |
| `ZkpExchangeProperties` | what the verifier and an honest prover may rely on | |
| `CborReader` | `Reader::item` and `decode_cbor` | one step is one head, one element stored, or the end; the recursion is the `stack` of open items, `at` the bytes taken; `Reserved` is the room made for elements |
| `SequenceFacts`, `DcqlProofs`, `MatcherProofs` (of `AnySets` and `MatcherRun`), `BlobAndMemoryProofs` (of `CredentialReads`, `BumpAllocator` and `BlobBuilder`), `ZkpProofs` (of `ClockWalk` and `ZkpExchange`), `CborReaderProofs`, `DispatchProofs`, `PolicyProofs` | lemmas and theorems | |
| `MC...` | instances for TLC | |

A combination keeps its members grouped by the dial that contributed them; the
code keeps the same members, in the same order, in one list (`Members` flattens
them). `combinations` filters the options of every set before its loops and
`candidate_products` rejects an option whose query has no candidate: both are the
one guard `OptionSatisfiable`, since the second cannot fail after the first.

Definitions whose comment begins with *Mutant* are wrong on purpose and unused.
Each is a plausible bug in one definition, and each property is checked to fail
when one of them replaces its original.

## Runs

| run | question | bounds |
|---|---|---|
| `dcql` | Does the engine offer the right combinations, in order, within the limit, and count what it leaves out? Is exactly the preferred deliverable option disclosed, and is every able credential a candidate? Does it implement `DcqlAnswer`? | up to 3 queries in two formats, each single or `multiple`; 8 arrangements of up to 3 sets and none, with overlapping, dangling and empty options and optional sets; ambiguous ids; one query under every combination of four claim lists and five claim-set lists; wallets of 0 to 5 credentials; limits 0, 1, 2, 4; `MaxUsize` = 6 |
| `entry_sets` | Does every set arrive as built, on every level, without a trap? | two set ids, three shapes of up to three slots; levels 2 to 8; three default delegations |
| `matcher` | Does the user see what the engine found and nothing else, and does the invocation end? | 13 requests, 5 wallets of up to 3 credentials, 12 kinds of invocation; at most 3 combinations |
| `credential_reads` | Does the matcher get the wallet's blob, whatever slices the host hands out, and nothing from a host that breaks the contract? Does the loop end? | blobs of up to 3 of two bytes; buffers of 0, 1, 2 and 4; `MaxUsize` = 3, `MaxPosition` = 5, seeks by -6 to 6 |
| `bump_allocator` | Are blocks separate and aligned, and is what fits given? | 6 pages of 4 addresses, 2 of them at the start, heap base 5; sizes 1, 3, 8; alignments 1, 2, 8 |
| `blob_builder` | Does the blob hold what was added, and does each credential find its icon? | `MaxCalls` = 4; two credentials, two icon ids, icons of 1, 2 and 4 bytes; `Width` = 4 stands for 2^32 |
| `request_dispatch` | Which entry is answered, read from where, and what is said when none is? When is a bare query evaluated? | requests of up to two entries under six labels and in some thirty shapes of data, three filters, two callers; bare queries of two or three credential queries, valid, repeated or unreadable |
| `dispatch_yields_a_query` | One statement of the documentation that the code does not keep | as `request_dispatch` |
| `policy` | May the credential answer, by which proof system and circuit, and what is never disclosed? | one credential, one query and one profile at a time, in groups: demands by the format, by a trigger or only preferred, in lists of two, against wallets with none, one or two systems; every `meta` rule; pseudonym attestations asked for by name, wildcard, index or whole; `zkp_req` queries against circuits that declare nothing, their type, their functions or a description |
| `zkp_exchange` | What may a verifier rely on after a response has passed? Which rule is named? Are narrow ranges declined? | an mdoc and a `bbs_cd` request of up to two presentations with every pair of alterations out of some hundred; age ranges over ten dates; every pseudonym configuration; clocks -3 to 3 seconds apart and 6 seconds of delay over the end of a leap February, `Skew` = 2, `MaxAge` = 3 |
| `clock_walk` | Do the formulas count days, do they agree, and is the tolerance exact? | 146200 days from 1970 (a whole cycle of 400 years is 146097), and walks from the year 0 and to the end of 9999; saturation at +-300000 |
| `cbor_reader` | Is exactly the grammar read, in bounded room and time? | all inputs of up to 3 bytes over 16 values of a byte; nested items in every width of their heads, and these encodings cut, continued or changed in a byte; `MaxDepth` = 2, `MaxArgument` = 65535 |

Why the bounds suffice. The odometer's carry needs two dials of width at least two
and a limit that stops it in between: widths reach 3 and limits 4. Overflow needs
a product above `MaxUsize`: widths 3 x 3 exceed 6, 3 x 2 is exactly 6, which must
not count as overflow. The arithmetic uses `usize` only through comparison with
its maximum, so a small maximum shows the same cases. The budget is shared among
options and partials: two sets with two options each make every order of spending
it occur. In `EntrySets` three slots with two alternatives and the same
credential in two of them are the least in which an index can go wrong in each
way; a third set differs from the second in nothing.

In `CredentialReads` a buffer longer than what remains of the blob tells the two
upper checks of a count apart, and the seeks reach every side of the start, the end
of the blob, `MaxUsize` and `MaxPosition`. `BumpAllocator` needs a block of more
than one page, alignments up to two pages, and a machine small enough to fill:
then overflow of the addresses, the full memory and a refused growth all occur.
In `BlobBuilder` four calls add two icons or replace one and name them from two
credentials, and lengths 1, 2 and 4 make icons fit, just fit, and wrap.

The scan of a request keeps nothing of the entries it has passed but the position,
so two entries show every order; the theorems below hold for any number. A
credential is judged against one query without regard to others, so `policy` needs
no more than one of each; lists of two show an order of preference. Two faults in an
answer are what it takes for the order of the rules to matter. Three seconds of
drift are one more than the tolerance, and the clock crosses into a 29 February while
proofs are made and checked. The calendar repeats every 400 years, and the
ends of the years of four digits are where the texts could not be written. The
reader's decisions depend on a head, on what is left and on the depth: three bytes
hold a head, its argument and a content, and depth 2 is passed by the nested items.

Deadlock is checked except in three runs: `credential_reads`, where a trap ends the
guest, `blob_builder`, where the calls are bounded, and `cbor_reader`, where the
reader stops. In the others a call that has returned stutters explicitly or another
can be made.

Fairness is `WF(Next)` of the whole guest in `DcqlEval`, `MatcherRun` and
`CborReader`: it is a single thread that nothing suspends, so it takes its next step
if it has one. `Ends` rests on it, through the engine's loops and the sending of sets
alike, and fails if one of them does not advance. `CredentialReads` assumes the same of the loop of `credentials` alone (`ReadRest`,
`Return`), since a decoder need not read; its `CallEnds` holds for a host that
stalls too. The other modules state safety only and assume no fairness.
`EveryStepIsPaid` bounds the reader without fairness: a measure falls at every step.

## Findings

`dispatch_yields_a_query` ends in a counterexample. `matching.rs` says of the entries
of a request that the first wins "that the profile answers *and* that yields a
query". An entry whose `zkp_req` query cannot be read even without its claims is
accepted when the filter is asked and refused when its query is, and the scan is
over then: a later entry that could be answered is not tried.

Further definitions state what comments or documents say and the code does not do.
No run checks them; added to the configuration named, each gives a counterexample:

- `ExactMeansExact` (`DcqlEval.cfg`). `Dropped::Exact` is documented as "Exactly this
  many were not built". With two required sets, what is counted are the ways left out
  per partial answer that was built; partials cut by the limit are not multiplied
  out. The count is still a lower bound (`DroppedIsHonest`), which is what the wallet
  needs least to be wrong about.
- `NoEmptyCombination` (`DcqlEval.cfg`). A required set with an empty option yields a
  combination without credentials, which the code guards against for the case without
  required sets only. `emit_set` does not show it, so the request ends in silence,
  with diagnostics enabled too.
- `OneCredentialUnlessMultiple` (`DcqlEval.cfg`). A query that two required sets name
  is answered twice and independently, so one combination can return two credentials
  for a query that is not `multiple`.
- `AppendOnly` (a property of `BlobBuilder.cfg`). The builder recovers a poisoned lock
  because its state "is three append-only collections and a flag", says the comment.
  There are four, and `add_icon` removes the icons that have the id before it adds
  one. The recovery is sound all the same, because nothing between the two writes
  panics.
- `NoFilterIsFirstSupportedRequest`, `ClaimIdsAreUnambiguous` (`RequestDispatch.cfg`).
  Without a filter the scan also finds contexts whose query is not typed, which
  `first_supported_request` skips; and a query that arrives in a request is evaluated
  without the check that makes claim ids unambiguous.
- `RequiredSystemIsReported` (`ProfilePolicy.cfg`). A match that demanded a proof
  system may resolve without naming one, since the reporting stops at the first
  requirement the wallet cannot meet, a preferred one too.
- `PlanIsOfThisQuery` (`ProfilePolicy.cfg` with `Inputs <- MCDoubledIds`). The plan is
  looked up by id, and ids may repeat on the path of a request.
- `IssuedTypeIsRecovered` (`ProfilePolicy.cfg` with `Inputs <- MCTypedValues`). A claim
  issued as a text of digits is recovered as a number and no longer equals the text.
- `OfferCanBeAnswered`, `EitherShapeIsPlanned` (`ZkpExchange.cfg`). Some plans have no
  answer the check would take: where the verifier listed no `system_id_values`, every
  `system_id` counts as not offered, though the entry is shown. And the planner refuses
  the rulebook's `claims` shape, which the dispatch lets through.
- The CBOR reader keeps no value of a negative number, so a map with the keys -1 and
  -2 is refused for a repeated key. The maps a presentation has are keyed by text.

## What is proved

`DcqlProofs` proves with TLAPS, for all requests, wallets, limits, policies and
every `usize` maximum (assumptions: `InputsAreWellFormed`, `NoneIsAbsent`):

- `TypeCorrect`: `[]TypeOK`. The inductive invariant `TInv` adds that the dials
  are within the widths of the option being read, that the option's queries have
  candidates while it is read, and which positions each `pc` implies.
- `LimitRespected`: `[]WithinLimit`. `LInv` adds that the readings to go fit in
  what is left of the limit, and that no set is left with more than the limit.
- `AnswersAreHonoured`: `[]OnlyHonouredAnswers`. `AInv` adds that the candidates
  found so far are candidates of their own query.
- `CompleteAnswers`: `[]EveryRequiredSetAnswered`. `CInv` says that each partial
  answer covers an option of every required set before `g`, and each of `next`
  of `g` too; an early exit has no partial.
- `EngineImplementsAnswer`: `Spec => ImplementsAnswer`, from the four above: the
  initial states map to initial states, the step that ends the call maps to
  `Return`, every other step to a stutter.
- `PreferredOptionDisclosed`: `[]DisclosesPreferredOption`. What a candidate
  discloses is told from what `SelectClaims` returns for it, by a case for each shape
  of the query (no claims, no claim sets, the first claim set that can be delivered);
  claims are named by their ids in the claim sets, so the property, like the
  documentation, is about queries whose claim ids are unique.
- `NobodyLeftOut`: `[]AbleCredentialsAreCandidates`. The invariant says that each
  credential already passed that can answer is among the candidates of its query.
- `AnswersInOrder`: `[]FirstWaysInOrder`. The engine turns dials; the reference
  divides. `OInv` says what each loop has built: `out` is the ways to answer the sets
  before `g`, as far as the limit goes (`OutInOrder`); `next` those that extend the
  partials before `p`, then the options before `o` (`NextInOrder`); `total` is the
  product of the widths before `d`, as long as it is exact (`ProductInOrder`); and the
  dials show the digits of the number of readings made (`DialsInOrder`). The step is
  arithmetic: adding one to a number in mixed radix carries exactly as `Turned` does
  (`NextQuotient`), and the readings of an option are cut where the limit cuts the
  enumeration of the set.
- `CountIsHonest`: `[]DroppedIsHonest`. `DInv` says that what is shown and what is
  counted account for the ways gone through and for the partial answers the limit had
  cut off before this set (`CountKept`). That those are fewer than what they would have
  become needs a way to answer each set to come, which holds where ids are unique
  (`SetHasWays`): `execute` lets any query of an id answer for it, `combinations` asks
  the first. Where ids repeat the count can be given up, and a later set then turn out
  to have no way at all, so `DroppedIsHonest` asks for unique ids there too.

Each is proved in the same way: `Init` implies the invariant, every action
preserves it, one step of the proof per action, and PTL closes the argument.
`SequenceFacts` holds the facts on sequences they share, among them the existence
of a first position, by which the model expresses Rust's `find`.

`MatcherProofs` holds the sink and the invocation that sends through it. For `AnySets`
it proves, for all host levels and all sets whose slots name each credential once
(`AnythingIsAllowed`), sent with distinct ids:

- `SinkTypeCorrect`, `SendingNeverTraps`, `AttachesToTheLast`: `[]AnyTypeOK`,
  `[]NeverTraps`, and that no call changes an entry but the last. A host call finds
  an entry by its key, the first that has it, so the invariant must say that the
  current entry's key is the last one's and nobody else's: `Keys` says that every
  other entry is of another declared set, of an earlier position of this one, or of
  an earlier alternative of this position.
- `SetsAreDelivered`: `[]DeliveredAsBuilt`. The invariant `DeliveredSoFar` says what
  the host holds in the middle of a set: the entries of the sets before it, of its
  slots before the current one and of the alternatives before the current one, each
  whole (`Finished`), and then the current entry with what the calls made so far gave
  it (`Grown`). `FinishedGrows` shows that a whole entry after the finished ones is
  the finished ones of the next position, whichever of the three loops goes on.

The lemmas behind these are about the sink alone (`SinkNext`): they hold of whoever
sends sets that are well formed. So `MatcherRun`, which composes the sink with the
engine, only has to show what it sends. For it, with any request, wallet, limit, host
level, display row, plan and image (`TheLimit`, `InvocationsAreWellFormed`,
`ValuesAreThePickers`; `NumbersTellSetsApart`: a number is formatted in a way of its own):

- `RunInvariance` is the invariant of the whole invocation, `EngineInv /\ RunInv`.
  `EngineInv` is all that `DcqlProofs` knows of the engine, which holds here because a
  step of the invocation is one of `EngineNext` or leaves the engine alone
  (`StepOfEngine`). `RunInv` says where the engine and the sink can be in each `phase`,
  and what was sent: while combinations are offered, the sets of those before `index`
  that have members (`BuiltSetsAre`), all of it for the sink to deliver (`SinkGood`);
  when it is over, all of them, one diagnostic, or nothing (`Outcome`).
- `CombinationsAreShownWhole`: `[]EveryCombinationShownWhole`. An offered credential is
  stored, because candidates are of the wallet (`ChosenIsStored`), so no combination is
  passed over; what is sent has an image and an id of its own, so nothing the picker
  does discards any of it (`MembersAreDelivered`, `AllAreShown`).
- `PromiseIsKept`: `Spec => KeepsPromise`, the refinement of `PickerPromise`. Before the
  end the promise sees nothing; at the end (`OverKeeps`) what is shown is an `Answer` or a
  diagnostic or nothing, as the invocation allows. That an answer is complete comes from
  `CompleteAnswers` (`ChoiceIsComplete`); that it is honest from `OnlyHonouredAnswers` and
  the display rows of what is disclosed (`MemberIsHonest`); that there is one whenever the
  wallet can answer from `FirstWaysInOrder` and the limit's not being 0
  (`AnswerableIsOffered`). For the last one needs to know what `satisfiable` was decided by,
  which `Ruled` keeps through the engine's loops. Nothing happens after the end
  (`OverIsTheEnd`), so no other choice is ever shown.

`BlobAndMemoryProofs` holds three components. For `CredentialReads` it proves, for all blobs, widths, buffers and seeks
(`ReadsAssumption`): `ReadsTypeCorrect`, `BlobIsWhole`, `HonestHostIsServed`,
`BrokenHostIsRefused` and `ReadsHandOverInOrder`. `TrustedIffHonest` is the core:
before the end of the blob the three assertions pass exactly for a host that keeps
the contract. `Loop` says that what is delivered is a prefix of the blob, `Belief`
that a broken host has delivered nothing.

For `BumpAllocator` it proves, for all page sizes, address spaces, heap bases and
layouts (`MemoryAssumption`): `AllocatorTypeCorrect`, `BlocksAreInMemory`,
`GrowthIsTight`, `AllocatorSeparates` and `AllocatorUsesRoom`. The invariant `Heap`
says that all that was handed out lies below `NEXT_ADDR` and `NEXT_ADDR` within the
memory. The arithmetic is in `AlignUpFacts`, `PagesForFacts` and `Bytes`.

For `BlobBuilder` it proves, for any number of calls by threads of which one may die at
any point (`BuilderAssumption`, which also keeps `None` apart from a reference):

- `CallsAreKept`: the invariant `CallsKept`. Each collection is what the calls of its
  kind gave, and the icons are those of the calls after which the same id was not
  added again (`Current`). A call that adds an icon takes an earlier one out in both
  accounts: `PickedTwice` shows that picking among what the builder keeps is picking
  among the calls, so `IconCallReplaces`.
- `UnknownIconsAreTold`, `NoCallIsLost`: `[]UnknownIconIsTold`, `[]NothingIsLost`.
- `EveryIconIsFound`: `[]IconsAreTheirs`. `FlattenPart` finds each of several sequences
  laid end to end where the lengths of those before it say, and `IconIsThere` is that for
  the icon section, whose offsets do not wrap while it is shorter than `Width`.

`DispatchProofs` proves, for all labels, profiles, requests and queries of any length
(assumptions: `InputsAreWellFormed`, `NoneIsAbsent`, `NoneIsNoId`):

- `DispatchTypeCorrect`: `[]TypeOK`.
- `FirstReadableIsAnswered`, `LabelIsHonest`: `ReadingFacts` say that what the code
  reads under a label is what the label lets be read, shape by shape. `ScanInv` says
  that no entry before `at` can be read and accepted, and that `context` is the
  reading of the entry at `at`.
- `MatchingKeepsTheQuery`: `QueryInv` ties `query` to what arrived, credential query
  by credential query.
- `RefusalsAreExplained`: `RefusalInv` says that the reasons collected are those of
  the entries passed, in order.
- `BareQueriesAreChecked`: `BareInv` follows the typed reading into the tolerant one.

`PolicyProofs` proves, for all profiles, wallets, credentials and queries, with lists of
any length (assumptions: `InputsAreWellFormed`, `DescriptionsAreJson`: what a circuit's
description reads as is JSON; `NoneIsNoCode`: the error codes of a request are not the
value that stands for `None`):

- `OfferedIsAble`, `PreferenceIsKept`, `SecretsStay`, `CircuitIsForTheAttestation`,
  `DescriptionIsKept`: `[]OfferedMeansAble`, `[]VerifiersPreference`,
  `[]NymSecretsStay`, `[]CircuitFitsAttestation`, `[]DescribedCircuitProves`. The
  inductive invariant says of each `phase` which checks have been passed, and of the
  loops that the requirements and meta rules before `at` are met. The triggered
  requirements are those of a list at the positions where a condition holds
  (`ItemsAt`); `ItemsAtPicks` shows that they are taken in order and all of them. That
  a circuit fits supposes, as `ReadFromOneText` says, that what is read twice out of
  one description is the same.

`ZkpProofs` holds two components. For `ClockWalk` it proves, for walks from any numbered
date and any range of the integers (`FirstDatesAreNumbered`, `JudgedAreQuestions`,
`IntsAreOrdered`, `NotTheFormIsNoText`):

- `DaysAreCounted`, from the lemma `TomorrowIsTheNextDay` that the formula moves by one
  from each date to the next, month ends, leap days and centuries apart.
- `CalendarsAreOne`: `civil_from_days` and `days_from_civil` undo each other on all
  days. `YearOfDay` and `DayOfMonth` find the year of the era and the month of the year
  of any number, `YearOfEra` and `MonthOfYear` show that the formula with its four
  divisions finds the same ones. `RenderedIsRead` carries this to the texts, for every
  second that is rendered.
- `ToleranceHolds`, from `SaturationIsHarmless` and `CheckIsExact`: a sum that saturates
  is already on the side of the comparison where the exact sum is.

For `ZkpExchange` it proves, for all requests, alterations, numbers of presentations,
delays, drifts and tolerances:

- `PassedIsAnswered`: `[]PassedAnswersAll`. `CheckInv` says that what is accepted is what
  the presentations before `at` decode to, each without a defect; `AnswerInv` that the
  token stays readable through every alteration (`AlterationIsReadable`). That nothing
  but what was asked is in the results is a count: `ResultsAnswer` maps results to
  functions and back, one to one (`NoLonger`).
- `FreshIsVerified`: `FreshProofsOnly`. An unaltered token is a `HonestAnswer` made at
  `proved`; its time reads back as the second it was rendered from, and `CheckIsExact`
  does the rest.
- `NarrowIsDeclined`: `[]NarrowRangesAreDeclined`. `NumbersAreInOrder` shows that an
  earlier date has a smaller number, so the dates of a range and the numbers of its
  days are in bijection and the difference counts them, in every calendar year.
- `FirstIsNamed`: `[]FirstRuleIsNamed`, for any number of alterations of an answer of
  any number of presentations. The property compares the judgement of the whole with
  one of each alteration alone, so both are brought to the same terms: a map is taken
  as what is `Under` each key, and `ResultsByParts` and `PresentationByParts` show that
  the code the validator returns is the first, in the documented order, of the codes
  each key gives by itself, though the code is written as passes over the entries. The
  invariant `AlteredInv` says that each presentation holds, under each key, what the
  change of that key brings, and else what the honest one holds (`IsPlaced`), in
  whichever order the changes were made. An honest presentation breaks nothing under
  any key (`HonestPasses`), so what a change breaks alone is what it breaks in the whole
  (`AloneIs`, `FirstOfPlaced`). `RefusedInv` ties the verdict to the answer.

The assumptions are what the exchange supposes of its constants: maps decoded from CBOR
have each key once and items are of the kind they say (`AlterationsAreReadable`: the
reader refuses a repeated key), dates are of three numbers (`RequestsAreReadable`), the
last second that can be rendered is within an `i64` (`ClocksAreNumbers`), and `None` is
none of the codes and texts it must be told apart from (`NoneIsNoCode`,
`NoneIsNoDefect`, `NoneIsNoFunction`, `NoneIsNoTime`). `FirstRuleIsNamed` speaks of
exchanges in which an honest prover may answer as it did (`HonestIsGood`): it has a
system it may use, the request can be satisfied, its clock shows a date that can be
written, and there is leave for several presentations if there are several. Outside
it the honest answer is itself refused, and which alteration to blame has no meaning.

`CborReaderProofs` proves, for all inputs, depths and arguments (`BoundsAssumption`,
`NoneAssumption`, `InputsAssumption`): `StaysInBounds`, `ReservationsAreBacked` and
`StepsArePaid`. The invariant `IInv` says that the frames are those the reader can
have opened, with something left to read in each of them (`LoopsOpen`). Then a head
costs a byte and every stored element was paid for by one, which bounds the steps by
four for each byte and one.

The type invariants are proved and not run; modules without proofs state none. Of the
40 properties of the passing runs 37 are proved. Only model-checked are: that the reader
reads the grammar (`ReadsTheGrammar`), which is recursive, and the two of liveness
(`CallEnds`, `Ends`), which the prover does not handle. The library's induction theorems cannot be applied
here, since they take an operator; where a proof needs induction, it takes the smallest
element of the set of counterexamples (`SmallestNat`), as `FlattenAppends` does for what
`FlattenSeq` computes.

## Not modelled, and why

- JSON, base64url, UTF-8 and the digits of dates are given by what they yield. The
  wording and layout of rows, titles and diagnostics is left out, except which reason
  is named.
- `path.rs`: conversions which only tests call besides the parsing of a path. The
  selection the matcher uses is `BlobCredential::claim`, in `ProfilePolicy`.
- `app.rs`, `entry.rs`, `text.rs`: fixed-size buffers and carriers of data; `purpose.rs`
  and `base64url.rs`: text. Nothing changes state.
- The standalone entries of `android-credman` and its package info, which the matcher
  does not use; the request and the calling app, each read in one call.
- The decoding of the blob: `ciborium` does it, and the models start from the blob
  decoded. The conversion of answers into FFI records, and of records into the blob.
- Title, icon and rows of an entry come from the first credential that has its id,
  while the match may be another's. No part of the system refuses a repeated id, and
  `db.rs` leaves uniqueness to the wallet, so the models assume it.
- Generated bindings, the build and the scripts have no behaviour of the system.

## What is left

In order of importance:

1. that in-process matching and the matcher agree on the same request and blob: both
   use `RequestDispatch` and `DcqlEval`, but no module composes the two callers;
2. `ProfilePolicy` as the instance of the engine's `Matches` in `MatcherRun`, where
   `ExactFormat` stands for it.
