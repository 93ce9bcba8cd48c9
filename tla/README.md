# Verification of go-oid4vp

`go-oid4vp` is the verifier side of OpenID for Verifiable Presentations as a Go
library: it is free of storage and of HTTP. A service in front of it owns the
endpoints, keeps sessions in a `SessionStore`, and calls the `Engine` with its
copy of a session. What can go wrong between those three parties is hard to
test: the engine's markers (request object served, response consumed, code used)
live in a copy, and it is the caller who loads, persists and races.

This project models the library in TLA+: the session lifecycle with store,
engine and service; the store's locking; the way from a configuration to a
request; transaction data; and the parsing of responses. TLC checks it on small
instances, and TLAPS proves every safety property that a passing run checks, for
all instances.

## Inventory

| Part | Source | State | Operations | What makes it correct |
|---|---|---|---|---|
| Session record | `session.go` | the record itself | none | identity fields never change |
| Store | `memstore.go`, contract in `session.go` | map id -> JSON snapshot, clock | `Save`, `Load`, `ConsumeOnce`, atomic under a mutex | copies are independent, expired sessions are not handed out, one winner of `ConsumeOnce` |
| Construction | `engine.go` | configuration | `New` | rejects unusable configurations; a stored session may meet an engine with another one |
| Session creation | `newsession.go` | none | `NewSession`, `validateSpec` | only servable requests are issued, lifetime is fixed here |
| Request object | `requestobject.go` | `RequestObjectServed` | `RequestObjectJWT` | served once, not after expiry |
| Wallet metadata | `walletmetadata.go` | `WalletMetadata` | `AbsorbWalletMetadata` | only a bounded JSON object is stored |
| Response | `response.go` | `ResponseCode`, `ResponseCodeUsed` | `ProcessResponse` | only the session's own response is accepted, after `ConsumeOnce`, before expiry |
| Digital Credentials API | `dcapi.go` | none | `DCAPIRequest`, `DCAPIUnsignedRequest`, `ProcessDCAPIResponse` | as above; the origin replaces the state |
| Same-device return | `samedevice.go` | `ResponseCodeUsed` | `RedirectURI`, `ConsumeResponseCode` | the code is bound to its session and redeemed once |
| Error mapping | `errors.go`, `errorresponse.go` | none | `ErrorResponse` | wallet faults are 4xx, verifier faults 500 |
| Transaction data | `transactiondata.go` | none | `TransactionDataHashes`, `ValidateTransactionDataEcho` | the echo is the same multiset of hashes |
| Presentations, transcript | `response.go`, `transcript.go` | none | `presentationsFromVPToken`, `SessionTranscriptFor` | the order is deterministic, mdoc presentations always have a transcript |
| Contract suite | `storetest/` | counters of the race | `Run` | the reference store passes it however its goroutines interleave, and it ends |

How they interact: a handler calls `Load` or `ConsumeOnce`, which return a copy;
it calls one method of the stateless engine on that copy; the method returns an
error or changes the copy; the handler calls `Save`. The store's methods are the
only atomic steps. Hard are: overlapping handlers of one session, handlers that
die half-way, copies that outlive the expiry or another handler's `Save`,
duplicated wallet posts, and codes or responses that arrive at the wrong
session. Beside the lifecycle, hard are: clocks that disagree, goroutines inside
the store's methods, a transaction data flag that differs between the engines
that serve one session, a restart that changes the configuration under a stored
session, the free iteration order of a Go map, URLs that are built by appending to
a configured string, and a JSON decoder that stops after the first value. `PROJECT.json` lists these hazards at their lines.

## Modules

| Module | Models |
|---|---|
| `SessionRecord` | `Session` of `session.go`, reduced to what guards read |
| `MemStore` | `memstore.go`: variables `now` and `sessions`; each method is an operator on a clock reading, returning `[err, s, after]` |
| `StoreContract` | abstract specification: the `SessionStore` contract for concurrent callers; a call takes effect at one instant between invocation and return |
| `MemStoreLocking` | `memstore.go` statement by statement with its mutex; implements `StoreContract` |
| `StoreTest` | `storetest/storetest.go` on top of `MemStoreLocking` |
| `Engine` | the engine's calls as functions of copy, clock and input, returning `[err, s]`; `IF/ELSE IF` chains keep the order of the early returns |
| `ErrorMapping` | the sentinels, `errorTable`, `normalizeWalletCode`, `ErrorResponse` |
| `VerifierService` | composition: handlers over store and engine, one action per step |
| `OneTimeSession` | abstract specification: a session is served, claimed, accepted and redeemed at most once each |
| `Validation` | the fail-closed gates: `New` and `validateSpec` as verdicts on a configuration and a spec, the URL tests, and what a server makes of an appended URL |
| `Construction` | one session and the engines it meets: `New`, `NewSession`, `RequestObjectJWT` or `DCAPIRequest`, `RedirectURI`, and restarts with another configuration |
| `TransactionData` | `transactiondata.go` with its uses: admission, request, echo, the matching loop |
| `Presentations` | `presentationsFromVPToken`, the origin loop of `ProcessDCAPIResponse`, `SessionTranscriptFor` |
| `JSONGates` | the four places that decode untrusted JSON, over sequences of tokens |
| `MCVerifierService`, `MCStoreTest`, `MCConstruction`, `MCPresentations` | symmetry and finite sets for TLC; the other modules are run as they are |
| `VerifierServiceProofs`, `SingleUseProofs`, `RefinementProofs` | theorems about `VerifierService` |
| `StoreProofs` | theorems about `MemStoreLocking` and `StoreTest` |
| `ConstructionProofs`, `TransactionDataProofs`, `PresentationsProofs`, `JSONGatesProofs` | theorems about the module each is named after |

Definitions whose comment starts with "Variant" are deliberately wrong versions
of the definition that follows them. Nothing uses them; putting one in the place
of its original makes a named property fail, which shows that the property
depends on that line of code.

### State and actions

`issued[id]` remembers the session as `NewSession` made it. Each request `r` has
a phase `pc[r]` (`idle`, `held`: has its copy, `saving`: the Engine call
succeeded and changed the copy, `done`, `crashed`), an operation, a session, a
copy, a result and the accepted input.

| Action | Code |
|---|---|
| `CreateSession` | `NewSession`, then `Save` |
| `Open` | `Load`, or `ConsumeOnce` for the two response operations |
| `Fetch` | `RequestObjectJWT` |
| `Metadata` | `AbsorbWalletMetadata` |
| `Respond` | `ProcessResponse` |
| `DCAPIRespond` | `ProcessDCAPIResponse` |
| `DCAPIRequested`, `DCAPIUnsignedRequested` | `DCAPIRequest`, `DCAPIUnsignedRequest` |
| `Redeem` | `ConsumeResponseCode` |
| `SaveCopy` | `Save`, then the answer |
| `Crash` | the handler dies before it answers |
| `Tick` | the clock advances |

In `MemStoreLocking` the phase `pc[g]` of a goroutine is the statement it is at:

| Action | Code |
|---|---|
| `Invoke`, `Leave` | call and return of `Save`, `Load`, `ConsumeOnce` |
| `Enter` | the tests of `Save` in front of the mutex |
| `Lock`, `Unlock` | `m.mu.Lock()`, the deferred `m.mu.Unlock()` |
| `Read` | the map read of `load` |
| `Clock` | the expiry test of `load`, then the consumed test of `ConsumeOnce`; they touch only the goroutine's own copy |
| `Write` | the assignment to, or the deletion from, the map |

`Contract` maps it to `StoreContract`: a call has taken effect from its `Clock`
step on (`Save`: from `Lock`), so the map that callers see is the Go map with the
pending write of the mutex's holder (`Effective`). `StoreTest` drives it:
`Calls` and `Looks` are a line of a subtest and the test of its result, `Races`,
`Counts` and `Joins` the last subtest; in the behaviours without a subtest the
goroutines call the store at will (`Uses`).

In `Construction` a variable holds what a call left behind: the configuration of
the running process (`engine` is what `New` made of it), the session with its
`ClientID`, the invocation, the last signed request, the redirect. `Stop` takes
only the configuration away: the session is in the store, the rest was sent. After
the next `New` the same session meets an engine that may have another client name,
key, certificate or flag; `Fetch` (`RequestObjectJWT`, or `DCAPIRequest` again)
builds the request from the two, as the code does. In `TransactionData`
and `Presentations` a step is one iteration of a loop (`Match`; `Gather`, `Walk`)
or one call; in `JSONGates` it is one call of the decoder.

The handlers are not part of the repository. They do what the doc comments
prescribe ("the caller MUST persist it", "atomic: response endpoint") and
nothing more. `RedirectURI` changes no state and appears in a property.

### Abstractions and assumptions

- Ids, nonces, states, ephemeral keys and codes are fresh random values. A value
  on the wire is therefore represented by its owner: a session id, the request
  that minted the code, or `Foreign`. Guessing a secret is excluded, presenting
  another session's is not.
- A sealed response is the tuple (key it is sealed to, apv, payload
  well-formed, state, verdict of the vp_token walk). Both response paths read it.
- A registration is `complete`, or `partial`: not empty, so that `validateSpec`
  accepts it, but rejected by `Claims()`. Only DCAPI sessions build their request
  inside `NewSession`, so a partial registration of another flow is noticed at
  the first fetch.
- Store and engines read clocks of their own: every reading is some value within
  `Skew` of the time (`Readings`), chosen anew for each call. With `Skew = 0`
  there is one clock.
- A URL is the verdict of `url.Parse` with host, path, the number of slashes at the
  path's end, query, fragment and user; a query or fragment is absent, bare (the
  delimiter alone) or present. `trimSlash` takes one slash away. `Received`
  says which appended parameters a server reads: none behind a fragment, a
  mangled first one behind a second `?`.
- An algorithm is allowed by the policy or not; a digest tells entries and hash
  algorithms apart; a DCQL query is valid or not.
- A JSON document is a sequence of tokens: an object with or without the members
  the gate needs, null, another value, a closing bracket, no JSON. Decoding stops
  after the first value; `More` is true in front of anything but a closing
  bracket, as `json.Decoder` documents it. Whether the document has more bytes than
  the cap of its gate is independent of its tokens: one object may be too large.
- Snapshots in the store are values, so a copy cannot alias the map; this is what
  the JSON round trip of `memstore.go` gives.
- A handler answers after `Save` returned. A crash after `Save` and before the
  answer reaches the client is the same state as a lost answer, and is counted
  as answered.
- Results of a failed call are not saved.
- nil sessions and marshalling failures are left out: no handler of the model
  can cause them.

`Serialized` is a parameter. `FALSE` is what the library asks of a service;
`TRUE` is a service that handles the requests of one session one at a time (a
lock per session, or a store with compare-and-swap, gives the same).

## Runs

Deadlock is not checked in the runs of `MCVerifierService` (requests and time are
finite in an instance), `MCStoreTest` (the suite ends), `MCPresentations` and
`JSONGates` (a response or a document is processed once). It is checked in the
others.

| Run | Instance | Result |
|---|---|---|
| `interleaved` | 1 session, 3 requests, TTL 2, both registrations, free interleaving | holds: `TypeOK`, `IdentityKept`, `MarkersTruthful`, `RedeemedOwnCode`, `ServerErrorsAreInternal`, `NoLateSuccess`, `NoExpiredOpen` |
| `two_sessions` | 2 sessions, 2 requests, serialised within a session | holds: `NoCrossSessionReplay`, `ImplementsOneTimeSession` |
| `serialized` | 1 session, 4 requests, serialised | holds: `SingleConsumption`, `SingleServing`, `SingleRedemption`, `DeliveredCodeRedeemable` |
| `expiry` | 1 session, 2 requests, TTL 2, skew 1, free, fair clock | holds: `EverySessionDies`, `NoLateSuccess`, `NoExpiredOpen` |
| `store_suite` | all nine subtests with 3 racing goroutines, and 3 goroutines that use one session for ever while it expires | holds: `TypeOK` (with mutual exclusion), `SuitePasses`, `ImplementsContract`, `CallsReturn`, `SuiteCompletes` |
| `transaction_data` | 3 entries, one of them no object; 2 hash algorithms; up to 3 entries and 3 echoed hashes | holds: `TypeOK`, `AcceptedIsConfirmed`, `ConfirmedIsAccepted`, `HonestWalletOutcome` |
| `construction` | configurations within one change of a working one of either of two clients, specs within one change of a working one of each flow, restarts at any time | holds: `TypeOK`, `EveryRequestTrusted`, `InvocationArrives`, `CodeReturns` |
| `presentations` | 3 keys, 5 kinds of value, both flows | holds: `TypeOK`, `ErrorIsDeterministic`, `WholeOrNothing`, `MdocHasTranscript` |
| `replay` | 1 session, 3 requests, free | **violated**: `SingleConsumption` |
| `late_calls` | same | **violated**: `EngineEnforcesExpiry` |
| `return_fragment` | as `construction` | **violated**: `CodeAlwaysReturns` |
| `trailing_data` | all documents of up to 4 tokens, over and under the cap, 4 gates | **violated**: `OneObjectOnly` |

What the violated ones show:

- `replay`. `Save` replaces the whole snapshot, so a handler that loaded before
  `ConsumeOnce` and saves after it removes the consumed marker. The contract
  calls the marker sticky "even after subsequent Save calls"; the contract suite
  saves only the winner's copy.
  `requestobject.go:36` and `samedevice.go:31` promise single use in the same
  way ("the caller MUST persist it"), but the served and the used test read the
  caller's copy: with `Serialized = FALSE` in `MCSerialized.cfg`, `SingleServing`
  and `SingleRedemption` fail too. They hold where requests of a session do not
  overlap, which is the condition of the run `serialized`.
- `late_calls`. `ConsumeResponseCode`, `AbsorbWalletMetadata` and
  `DCAPIUnsignedRequest` do not look at `ExpiresAt`, although the contract says
  that the engine enforces it itself. The window is the time between `Load` and
  the call.
- `return_fragment`. `validateSpec` accepts a return URI with a fragment, and
  `RedirectURI` appends `response_code` behind it. `CodeReturns` shows that every
  return URI without a fragment works, a bare `?` included.
- `trailing_data`. `validateTransactionData` "enforces that each entry is a JSON
  object" (`transactiondata.go:24`), but decodes only the first value and never asks
  `More`: an entry may carry anything behind its object, and that is sent, hashed
  and confirmed with it. `AbsorbWalletMetadata` "must accept a JSON object and
  reject everything else, capped" (`requesturi_test.go:79`) and does ask `More`,
  which is false in front of a closing bracket (`walletmetadata.go:31`): an object
  followed by `]` and anything else is stored. TLC prints the shorter of the two
  traces, the entry's. What the gates do guarantee is the theorem
  `GatesHoldAlways`.

Smaller divergences are conditions of passing properties:

- `EveryRequestTrusted` says that the response endpoint is on the host of the
  client that *made the session*. The comment of `validResponseURI`
  (`newsession.go:148`) asks for the client identifier, which wallets compare with
  the request's `client_id`; but that comes from the engine that signs
  (`requestobject.go:96` and 102), not from the session, although "all
  per-verification state lives in Session" (`engine.go:89`). After a restart with
  another `ClientDNSName` a session that was not fetched yet is served with the new
  `client_id`, the old response endpoint and an invocation that names the old
  client, and its responses are verified with `Session.ClientID`, the old one
  (`response.go:237`). Taking `Session.ClientID` for the request would not do
  either: it need not be a name of the new certificate (`RequestFromSessionClient`).
- `InvocationArrives` needs base URLs without bare delimiters. `url.Parse` reports
  an empty query for a URL that ends in `?`, and an empty fragment for `#`, so
  `validBaseURL` (`engine.go:225`, "must not carry query or fragment") accepts
  both; what `invocation` appends is then mangled or stays in the browser.
- It also needs a `RequestURIBase` with at most one slash at its end: `TrimSuffix`
  (`engine.go:191`) drops one, and `New` admits `https://host/base//`.
- `EveryRequestTrusted` has the first condition for origins: `validOrigin`
  (`newsession.go:186`) accepts `https://host?` and `https://host#`, which never
  equal the origin that a browser sends.

What the passing runs beside the lifecycle show:

- `ImplementsContract`: the mutex makes each store method atomic, so that
  `VerifierService` may take it as one step. The reading of the clock and the
  write are separate statements, and time may pass between them.
- `HonestWalletOutcome`: the request may be built by an engine with the flag on
  and the echo checked by one with the flag off, or the reverse. An honest wallet
  is then refused with `ErrTransactionDataDisabled` or `ErrTransactionDataMissing`,
  never with a mismatch, and never accepted for less than the session asked.
- `EveryRequestTrusted`: no combination of configurations and spec that pass `New`
  and `validateSpec` leads to a request whose certificate, signature, registration
  or algorithms a wallet has to refuse, also if the session was made under one
  configuration and the request under another.
- `MdocHasTranscript` joins three files: what `validateSpec` admits as origins
  and response URIs is what `SessionTranscriptFor` needs to choose the right
  handover; an empty origin would select the other one.

### Bounds

Sessions interact only through the wire, so properties of one session need one
session, and cross-session replay needs two; there, requests are serialised
within each session only, so the two sessions still interleave. Each conflict over a snapshot is
between two handlers; the third request of `interleaved` provides the
response that a redemption needs, and the fourth of `serialized` allows a
respond, two redemptions and a disturbing Load-Save. `TTL` 2 leaves a tick
inside the lifetime, and `MaxTime` equal to `TTL` reaches the boundary instant
`ExpiresAt`; later instants behave like it. A skew of 1 separates two clocks by
less than a lifetime, and `MaxTime` 4 lets the slowest clock pass the expiry of a
session made by the fastest. The proofs remove these bounds for everything
except liveness.

In `store_suite` three goroutines use the store at will: one that holds the mutex
and two that wait for it, with different calls, on a session that expires at 1
while `MaxTime` is 1. In the suite three race for one session: one winner, and
two losers that must not be confused with each other; sixty-four add no new kind
of conflict. The suite's hour is `TTL`, longer than the suite
takes (`SuiteIsShort`): on a machine where it is not, the subtests fail by
design. Three entries of transaction data allow a repeated entry next to
another one, which is where counting matters. One change to a configuration
shows every test of `New` alone; two clients with certificates of their own, one
of whose engines makes the session and the other signs, show what a restart mixes
(two names in one certificate are among the changes). Three keys of a
vp_token have six iteration orders and room for two different errors.

### Fairness

`EverySessionDies` assumes weak fairness of `Tick` only: time passes. No
handler has to make progress; a session dies although handlers may hang, crash or
save old copies. `MaxTime` admits `NewSession` only if the lifetime fits, so the
clock always reaches the expiry of an issued session.

`CallsReturn` and `SuiteCompletes` assume that the scheduler runs every goroutine
that is not blocked (weak fairness of its statements) and that a goroutine for
which the mutex becomes free again and again gets it (strong fairness of `Lock`).
The latter is the starvation mode of Go's `sync.Mutex`, which hands the lock to a
waiter that has waited a millisecond. Nobody has to call the store.

## Proofs

Every invariant, action property and refinement that a passing run checks is a
theorem, for all values of the constants, and so is `GatesHold`. What a theorem assumes of the constants
is named in the module that declares them, and TLC evaluates it in the runs.

| Assumption | Why the code justifies it |
|---|---|
| `SessionRecord`: TTL positive; the nil session, the empty code and foreign tokens differ from real ones | `New` replaces a TTL that is not positive; the rest are values that the code compares |
| `MemStore`: the skew is a natural number; `MemStoreLocking`: so is the clock bound, and a free mutex is no goroutine | representation |
| `StoreTest`: `SuiteIsShort`, the suite ends before a new session expires | the subtests save sessions with an hour's lifetime; slower, they fail by design |
| `StoreTest`: `RaceAssumption`, finitely many goroutines race, at least one | 64 in `storetest.go` |
| `StoreTest`: `SuiteSavesAssumption`, what the suite saves is among what is saved | a definition of the module, checked by TLC |
| `Construction`: `ConfigsAssumption`, `SpecsAssumption`, the fields have their types | the Go types of `Config` and `RequestSpec`; URLs may be any |
| `Construction`: no session is `None` | representation |
| `Presentations`: keys are numbered in their order, a value is an array of strings or not | Go strings are ordered; `json.Unmarshal` into `[]string` fails or gives a sequence |
| `TransactionData`: an algorithm that is not allowed is none of the allowed ones | representation |

### The session lifecycle

About `VerifierService!Spec`, for any sets of sessions, requests and origins, any
positive TTL, any clock bound and any skew.

- `VerifierServiceProofs`. One lemma per Engine call says what it returns;
  `EngineCallOutcome` and `OpenOutcome` describe all Engine calls and all store
  calls at once, so the later inductions have one case for each. `BaseInv` adds to
  `TypeOK` that every stored snapshot and every copy agrees with `issued`, and
  how phase, operation and result go together; `IdentityKept` alone is not
  inductive, as it does not say that a saved copy carries the id under which it
  is saved. Theorems: `TypeCorrect`, `IdentityCorrect`, `LateSuccessExcluded`,
  `ExpiredOpenExcluded`. With a skew, the last two bound the success of a call by
  the lifetime plus the skew: a reading is at most `Skew` behind the time
  (`ReadingBound`), and the session's expiry is the one `NewSession` gave.
  `SealedToSession` (an accepted input has the key of the session) gives
  `CrossSessionReplayExcluded`; `NoMisuse`, with `BaseInv` to know that copies at
  the response endpoints are consumed, gives `ServerErrorsCorrect`.
- `SingleUseProofs`, first part: `MarkersInv` extends `MarkersTruthful` from
  the store to the copies, where a marker may also be the one its holder is
  about to save. Theorems: `MarkersCorrect`, `CodesCorrect`. They hold for every
  interleaving: a lost update can remove a marker but not forge one.
- `SingleUseProofs`, second part, under `Serialized`: `OnceInv` says that active
  requests of a session exclude each other, that the copy of an active request
  is the stored snapshot plus its own change, and that what was delivered is
  recorded in the snapshot as long as that exists. This is what an
  overlapping handler breaks. Theorems: `SingleConsumptionHolds`,
  `SingleServingHolds`, `SingleRedemptionHolds`, `DeliveredCodeRedeemableHolds`.
- `RefinementProofs`, under `Serialized`: every step is a step of
  `OneTimeSession` or leaves its four variables alone:
  `ImplementsOneTimeSessionHolds`.

### The store and its suite

`StoreProofs`, for any goroutines, calls, lifetimes and skew.

- `LockInv` is `TypeOK`, which contains mutual exclusion, with what a goroutine
  knows in each phase: a `Save` behind its guards has a session and never reads,
  and at the clock test the copy of the others is the stored snapshot, since nobody
  else writes meanwhile. `StoreTypeCorrect` follows. For the refinement there is a lemma per statement: each is
  a step of `StoreContract` or not seen by it, and the proof shows which statement
  is the instant of the effect (the `Lock` of a `Save`, the map read of an
  unknown session, the clock test otherwise). Theorem: `ImplementsContractHolds`.
- The suite is then argued on the contract's level. `CanGoOn(rest, ...)` says what
  the rest of a subtest needs of the store and of the test's copies: nothing, a
  new session, an expired one, a consumed one, the winner's copy, or the code that
  was saved. Each line of a subtest leaves what the next one needs (`SubtestTake`),
  so the nine subtests become six kinds of states. `RaceInv` counts the race: until the
  first effect nobody has a result, from then on there is exactly one winner among
  those that returned, are counted or are about to be, and everyone else has
  `ErrSessionConsumed`. Theorems: `SuitePassesHolds`, `SuiteTypeCorrect`,
  `SuiteImplementsContract`.

### Construction, transaction data, presentations, JSON

- `ConstructionProofs`, for any configurations and specs and any restarts.
  `ConstructionInv` does not speak of the running engine, which may be gone or
  another: there is some configuration that `New` admits (`Admitted`) whose engine
  admitted the session's spec and gave it its `ClientID`, one that built the
  invocation, and one that signed the last request. `EveryRequestTrusted` then
  takes two of them: what the certificate has to match is one engine's, what the
  response endpoint has to match the other's. `NewAdmits` and `SpecAdmits` say what
  the gates admit, so no proof opens a chain of early returns twice.
- `TransactionDataProofs`, for any entries, algorithms, echo and number of both.
  Acceptance means a bijection between hashes and entries, while the code only
  counts down. `EchoInv` connects them without induction over sequences: in front
  of the index there is an injection from the echo to the entries
  (`MatchedSoFar`), and for each hash what was wanted is what remains plus what was
  seen. One iteration extends the injection, because a positive counter leaves an
  entry that is not taken yet; at the end an injection between equally long
  sequences is a bijection. In the other direction a mismatch means a hash that
  occurs more often than it is wanted, which no bijection allows.
- `PresentationsProofs`, for any vp_token and session. `WalkInv`: none of the keys
  walked so far has an error, and what is collected is their entries, key after
  key (`Delivered`, with the offset of each key as witness). That the keys are
  ascending makes the first error met the one of the least bad key. `Sorted` is the
  specification of `sort.Strings`, which belongs to Go: the same keys, ascending.
- `JSONGatesProofs`: `GateInv` says what the decoder has seen in each step.
  `GatesHoldAlways`, for documents of any length and size: what passes is within the
  cap and begins with the object the gate needs; where `More` is asked, nothing or a
  closing bracket follows; one such object is refused only for its size.

### Only model-checked

The liveness properties `EverySessionDies`, `CallsReturn` and `SuiteCompletes`
(liveness under fairness is out of the prover's reach), and the four violations,
which are counterexamples.

## Not modelled, and the plan

Every component is modelled and every safety property of a passing run is proved.
What may still be gained:

1. One theorem that puts `MemStoreLocking` in the place of the atomic store of
   `VerifierService`. Today the link is informal: `ImplementsContractHolds` says
   that each method is one step, and `VerifierService` takes it as one.
2. Shorter proofs: the cases of the suite in `StoreProofs` share an outline.

Left out for good: cryptography (`go-eudi-crypto`), CBOR and JSON encodings, the
DCQL library's own validation, the coordinates of the JWK, the wording of errors
and `clip`; a corrupt ephemeral key or snapshot, which no operation of the library
can produce; and the memory that abandoned sessions keep, on which the code
promises no bound.
