# TLA+ models of the Knative Eventing broker data plane

This directory holds TLA+ models of parts of this repository, the TLC configurations
that check them on small instances, and TLAPS proofs of their main invariants.

## 1. The system and its parts (inventory)

The repository slice under `src/` holds the Ingress process's `main`, a number of
unit tests of the broker data plane, and a few support files. The handler sources
(`pkg/broker/ingress/ingress_handler.go`, `pkg/broker/filter/filter_handler.go`)
and `broker.TTLDefaulter` are not in it. For those handlers the model takes each
step from what the tests in `src/` expect of it where they say, and from `spec.md`
where they are silent (those definitions are marked `spec_modelled`). Where the
tests and the spec disagree the model follows the tests, and the spec's claim is a
violation run (section 4).

| Part | Source | What it does | Status |
|------|--------|--------------|--------|
| Ingress handler | `pkg/broker/ingress/ingress_handler_test.go`, `cmd/broker/ingress/main.go` | Admits a POST to `/ns/broker`, parses the CloudEvent, authenticates (OIDC), defaults the hop count `knativebrokerttl` to `MaxTTL`, rejects TTL <= 0, forwards to the broker's channel and relays its status (2xx -> 202, 5xx -> 502, no answer -> 504). | partly, `Broker` |
| Channel fan-out | `pkg/inmemorychannel/event_dispatcher_test.go` | Hands every message to each subscription of the channel, one per trigger with the trigger's UID, and POSTs a reply event to the subscription's Reply address (the Ingress). | partly, `Broker` |
| Filter handler | `pkg/broker/filter/filter_handler_test.go` | At `/triggers/ns/name/uid`: looks up the trigger and checks its UID and subscriber (404 otherwise), authorizes (401/403), filters (200 on mismatch) and dispatches with the TTL stripped. A reply event is returned in the response with the incoming TTL; a failure goes to the dead-letter sink. | partly, `Broker` |
| Config store | `cmd/broker/ingress/main.go` | Informers for brokers, triggers, subscriptions, event policies and feature flags. They change under the handlers. A feature snapshot is pinned per request (`ctxFunc`, lines 163-166). | partly, `Broker` |
| Ingress startup | `cmd/broker/ingress/main.go` | Validates `MAX_TTL`, builds the handler, starts the config watcher, auto-create check, informers, servers. Its feature callback installs `EvenTypeHandler`. | partly, `IngressMain` (startup, callback, requests), `Broker` (MaxTTL, TTLDefaulter) |
| Channel reference parsing | `pkg/channel/references.go` | `ParseChannelFromHost`, `ParseChannelFromPath` (and `String`, a `fmt.Sprintf`, not modelled). | modelled, `ChannelRef` |
| Addressable polling | `vendor/.../reconciler-test/pkg/k8s/steps.go` | `IsAddressable` poll loop: NotFound and missing address keep polling, any other error stops. | modelled, `AddressablePoll` |
| ApiServerSource config | `pkg/adapter/apiserver/config.go` | Configuration types only. | not modelled (section 6) |
| event_display | `cmd/event_display/main.go` | Sample receiver: observability setup with fallbacks, a `/healthz` middleware and request logging. | modelled, `EventDisplay` |
| Metrics tests, test flags, other tests | `stats_reporter_test.go`, `test/flags/sources.go`, `test/rekt/...`, adapter and duck tests | Observability, CLI flags, tests of code not in the repository. | not modelled (no state of the data plane) |

How the parts interact: a producer POSTs to the Ingress, and the Ingress puts the
event on the channel. The channel calls the Filter endpoint of every trigger. A
subscriber may answer with a reply event; the Filter returns it in its response,
and the channel POSTs it to the subscription's Reply address, the broker's Ingress
(spec section 2), where it starts over. The config store is read by both handlers
on every request and is written concurrently by the informers.

## 2. Modules

### `Broker.tla`: the data plane

State (`VARIABLES`):
- `trig[t]`: the generation (UID) of trigger `t`, and whether it exists.
- `subs[t]`: the UID the channel's subscription for `t` carries (0: none).
- `ingress[e]`: the Ingress request of producer event `e`: idle, admitted or done, with its type, TTL and status.
- `chan`: the set of messages on the channel.
- `dlv`: the deliveries from the channel to a Filter endpoint.
- `filter[d]`: the Filter request of delivery `d` until it is answered: calling the subscriber, or calling the dead-letter sink.
- `replies`: reply events the channel still has to POST to its Reply address.
- `admitted[e]`: the TTL the Ingress admitted `e` with (history, for `ReplyChainBounded`).

A message is abstracted to its lineage (the producer event its reply chain started
from), its type (the only attribute the filters look at in the model), its TTL and
an auxiliary hop counter that no code keeps.

Actions:
- `IngressReceive(e)`: the whole admission path. Its inputs are the broker state the informer holds, the feature snapshot, the type, the producer TTL, the body and the token. `IngressVerdict` lists the early returns in the handler's order; `DefaultTTL` is `TTLDefaulter` as spec 4.2 step 4 states it (an absent TTL becomes `MaxTTL`, a present one is kept).
- `IngressForward(e)`: the channel answers 202, 500 or nothing. The status is relayed by `RelayStatus`.
- `Fanout(m)`: one delivery per subscribed trigger, with the subscription's UID.
- `IngressReply(r)`: the channel's Reply leg. The reply goes through the same checks and defaulting at the Ingress and, when admitted and accepted, onto the channel.
- `FilterReceive(d)`: `FilterVerdict` is the chain of early returns (404, 401, 403, 200 on a filter mismatch). No TTL is turned away, as the tests dispatch TTL 1. A pass becomes a request calling the subscriber (`DispatchRecord`) holding the incoming TTL.
- `SubscriberRespond(d)`: an empty 200 or 202; a reply event (`ReplyOf`: the incoming TTL put back, as the test's "The TTL will be added again" expects); a 2xx body that is no event (502); or a failure (400 or 429), which goes to the DLS when the trigger has one. Replies are explored up to `MaxReplyHops` hops down a chain.
- `DeadLetter(d)`: the DLS answers 202 or 500.
- `DeleteTrigger(t)`, `RecreateTrigger(t)` (fresh UID, bounded by `MaxGen`) and `ReconcileSubscription(t)` are the informers (spec 4.7).

`PROJECT.json` ("map") names the source lines of every definition. Definitions
of handler steps whose code is absent, and that no test pins down, are marked
`spec_modelled`.

### `BrokerProofs.tla`: the proofs

This module contains the inductive invariant `IInv` and the TLAPS proof of
`TypeCorrect` (see section 5).

### `MC_Broker.tla`: the model for TLC

It uses one producer event `e1`, types `T1` and `T2`, and triggers `t1` (accepts
`T1`, has a DLS) and `t2` (accepts both types, no subscriber URI). Producer TTLs
are absent, `-1` and `MaxTTL + 1`.

### `IngressMain.tla`: `main()` of the Ingress process

`pc` is the statement `main` is at. It goes through `ProcessEnv` (lines 86-93),
`Setup` (100-145), `BuildHandler` (168-197), `StartWatcher` (199-202),
`AutoCreateCheck` (204-213), `StartInformers` (215-219) and `StartServers`
(221-226). Every fatal exit is `Fatal`: `os.Exit`, so the deferred flush and
exporter shutdown (`deferred`, `flushed`, `RunDeferred`) run only when
`StartServers` returns nil.

Three goroutines share `handler.EvenTypeHandler` (`eth`):
- `main` writes it at line 212 when the store has the flag;
- the watcher's informer (`Deliver`) stores a changed features ConfigMap (`cm`) in
  the store (`store`) and runs the callback (`FeatureCallback`, lines 149-160) on
  its own goroutine, one event at a time (`cb`);
- request goroutines (`Request`) read it once the servers run. `racy` records that
  the last write came from the callback after `Start` returned, with no
  happens-before edge to any reader. Such a read may see the pointer without the
  stores to its fields (`"partial"`), as the Go memory model allows for a data race.

`configMapWatcher.Start` runs the initial callbacks synchronously before it
returns (knative's `InformedWatcher`), so `StartWatcher` fills the store and
installs the handler itself when the flag is on. A `Start` failure is only a
warning and leaves the store empty. `EditConfig` is an operator editing the
ConfigMap at any time.

### `EventDisplay.tla`: the `event_display` sample

`phase` follows `run()`: `ReadEnv` (`REQUEST_LOGGING_ENABLED`, lines 79-82),
`NewClient` (84-92, fatal on error), `SetupObservability` (94-142: a config parse
error falls back to defaults, a resource error is only logged, a failed meter or
tracer setup falls back to a noop provider, then the deferred shutdown is
registered) and `StopReceiver` (144-148). `run` gets `context.Background()`
(line 74), which is never done, so the receiver ends only with an error and
`log.Fatal`.

A request goes `Arrive` -> `RequestLogging` (165-175) -> `Healthz` (151-163) ->
`Receive`. cehttp wraps the handler with each middleware in the order the options
are given, so the request logger added last is the outermost. This is the
library's behaviour; the library is not in `src/`. `ToReq` (193-225) reads the
body with `io.ReadAll`, only logs an error, and replaces `req.Body` with a buffer of
what it read. A body is its length in chunks: `sent` by the client, `avail`
readable before the connection breaks. `Receive` (the CloudEvents SDK, spec
modelled, and `display`) fails a request whose read errors, turns a binary-mode
body of any length into an event, and fails a truncated structured-mode body.

### `ChannelRef.tla`: channel references

Strings are sequences over `Letters`, `"/"` and `"."`. `Split` and `TrimSuffix`
model `strings.Split` and `strings.TrimSuffix`. `Split` is written in closed form:
the cut points of `s` are 0, `Len(s) + 1` and every position of the separator
(`Cuts`); field `k` is what lies between the cut points of rank `k - 1` and `k`
(`Rank`, `NthCut`). So `Split` keeps empty fields and returns one field for an
empty string, as `strings.Split` does, and the provers can reason about it. `String`, `ParseChannelFromHost` and
`ParseChannelFromPath` translate `references.go`. `IntendedPath` and
`IntendedHost` are reference parsers of the documented formats: `/<ns>/<name>[/]`
with non-empty segments, and `<name>.<ns>[...]`. The state variable `input` is
the call under test, drawn from every path and host up to `MaxLen` characters and
every pair of names. `ChannelRefProofs.tla` holds the proofs of its invariants
(section 5).

### `AddressablePoll.tla`: the `IsAddressable` test step

`Condition` is one call of the poll condition (lines 70-87) on one outcome of
`Address`/`NamespacedAddress` (94-130):
- NotFound while the resource is absent;
- no address while it has none;
- the address;
- while fewer than `MaxApiErrors` have occurred, a transient error.

`Timeout` is `wait.PollImmediate` giving up after `MaxPolls` calls, followed by
`t.Fatalf`. `Reconcile` is the cluster creating the resource and then setting its
address.

## 3. Runs

| Run | Config | Checks | Expect |
|-----|--------|--------|--------|
| `broker_safety` | `MC_Broker.cfg` (MaxGen 2, MaxReplyHops 2) | `TypeOK` | pass, ~30k states |
| `ttl_above_max` | `MC_Broker_TTLWithinMaxTTL.cfg` | `TTLWithinMaxTTL` | violation |
| `ttl_one_dispatch` | `MC_Broker_FilterDropsSpentTTL.cfg` | `FilterDropsSpentTTL` | violation |
| `reply_loop` | `MC_Broker_ReplyChainBounded.cfg` | `ReplyChainBounded` | violation |
| `ingress_autocreate` | `IngressMain.cfg` | `AutoCreateInstalledWhenEnabled`, `AutoCreateEventuallyInstalled` | pass, 330 states |
| `ingress_partial_read` | `IngressMain_NoPartialHandlerRead.cfg` | `NoPartialHandlerRead` | violation |
| `event_display_safety` | `EventDisplay.cfg` (MaxChunks 2) | `BodyIntactWhenRead` | pass |
| `display_truncated` | `EventDisplay_DisplayedAsSent.cfg` | `DisplayedAsSent` | violation |
| `channel_ref_parse` | `ChannelRef.cfg` (2 letters, length 5) | `PathParseMatchesReference`, `HostParseMatchesReference` | pass, 485 states |
| `channel_ref_empty_segments` | `ChannelRef_PathSegmentsNonEmpty.cfg` | `PathSegmentsNonEmpty` | violation |
| `addressable_poll` | `AddressablePoll.cfg` (30 polls, 2 API errors) | `FailureReported` | pass, 307 states |
| `poll_transient_error` | `AddressablePoll_FailsOnlyOnTimeout.cfg` (1 API error) | `FailsOnlyOnTimeout` | violation |

The properties:
- **TypeOK**: the type invariant of the data plane. Its mutant (the Ingress without the TTL <= 0 rejection) puts a negative TTL on the channel.
- **TTLWithinMaxTTL**, **FilterDropsSpentTTL**, **ReplyChainBounded**: what the spec says of the TTL (section 4).
- **AutoCreateInstalledWhenEnabled**: once `main` is past line 205 and no callback is pending, an enabled flag in the store means the handler is installed. A flag change can land before `Start`, during it, or after it. In the model it is the callback that makes this hold: with the check at line 205 removed the property still holds, since `Start` runs the initial callback itself. The property catches a lost or stale callback, not a fault of that check.
- **AutoCreateEventuallyInstalled** (liveness): a flag that ends up enabled for good is eventually installed in the running Ingress.
- **BodyIntactWhenRead**: an event whose body was read without error is displayed with the body sent, whether or not the request logger read it first.
- **PathParseMatchesReference**, **HostParseMatchesReference**: the parsers agree with the reference parsers. For paths, this holds wherever the reference accepts or the code returns two non-empty segments.
- **FailureReported**: a failed `IsAddressable` (timeout or error) has `lastError` set, so `t.Fatalf` reports why the resource never became addressable.
- **FailsOnlyOnTimeout**: the poll fails only by timing out (the doc comment's promise).

Why the bounds are enough:
- `MaxTTL = 2` with `MaxReplyHops = 2` lets a reply chain re-enter the broker as many times as the admitted TTL, which is where `ReplyChainBounded` and a decrement would bite; both triggers fan out at every hop.
- `-1` exercises the rejection, `MaxTTL + 1` the missing upper bound.
- `MaxGen = 2` gives every trigger a stale UID and a fresh one.
- One trigger with a DLS and a filter, one without a subscriber URI: every early return of the Filter and both failure paths are reached.

Deadlock checking is off (`CHECK_DEADLOCK FALSE`) where the system really stops:
- In `MC_Broker`, once the producer's event has been handled and the control plane is done, a real broker just waits for the next request.
- `EventDisplay` stops when the process has exited.
- `AddressablePoll` stops when the step has ended.

`IngressMain` checks deadlock, since the ConfigMap can always be edited.

Other bounds:
- `IngressMain` has no constants: every ordering of a flag edit against each startup step is reached.
- `MaxChunks = 2` gives empty, one-chunk and two-chunk bodies, each cut off at every point.
- Paths and hosts of up to 5 characters over two letters include every one- and two-letter segment form, doubled, leading and trailing separators, and four segments.
- `MaxPolls = 30` lets the resource be created and addressed after any number of polls, or never; `MaxApiErrors = 2` puts transient errors before and after creation.

Fairness: `Broker` has none and states no liveness. The reply chains the code
allows need not end (`reply_loop`), so there is no quiescence to state. In
`IngressMain`, weak fairness holds on three steps:
- `main`'s startup steps, which run in sequence on one goroutine;
- the informer's delivery of a change, which the client-go informer makes once the watch sees it;
- the callback, which runs to its end.

Requests, edits and the servers' stop come from outside and get no fairness.

Each property of a passing run has a mutant (`PROJECT.json`, "mutants") that TLC catches:
- the Ingress without the TTL <= 0 rejection breaks `TypeOK`;
- a store that hands the callback the old value breaks `AutoCreateInstalledWhenEnabled`;
- a watcher that stops delivering once the servers run breaks `AutoCreateEventuallyInstalled`;
- `toReq` without line 209 breaks `BodyIntactWhenRead`;
- a path parse without the trim and a host parse with swapped labels break the two `ChannelRef` properties;
- a condition whose missing-address branch leaves `lastError` unset breaks `FailureReported`.

## 4. Findings

- **ttl_above_max** (spec gap). The Ingress is built with `broker.TTLDefaulter(logger, env.MaxTTL)` (`main.go:172`), which by spec 4.2 step 4 sets only an absent TTL. A producer's TTL above `MaxTTL` therefore reaches the channel. This contradicts spec sections 3 and 8: "TTL in [1, MaxTTL]", "never accepted from external producers".
- **ttl_one_dispatch** (spec and tests disagree). The unit tests "Trigger without a Filter" (`filter_handler_test.go:147`), "Dispatch succeeded" and "Returned Cloud Event" send `makeEvent()`'s TTL of 1 and expect the subscriber to be called. Spec 4.3 step 3 and scenario 2 drop TTL <= 1. The model follows the tests; `FilterDropsSpentTTL` states the spec's claim and is violated.
- **reply_loop** (spec and tests disagree, `filter_handler_test.go:588`). The test expects the reply back with the incoming TTL ("The TTL will be added again"), where spec 4.3 step 8 says TTL − 1. The reply re-enters through the Ingress (spec section 2), which keeps a present TTL (spec 4.2 step 4). So no hop lowers the TTL, and a subscriber that always replies sends a chain through the broker more times than the TTL it was admitted with: `ReplyChainBounded`, the glossary's "prevents infinite loops", is violated after two replies with `MaxTTL = 2`. `TTLDefaulter`'s source is not in the repository; if it decremented a present TTL, the Ingress's TTL <= 0 rejection would end the chain.
- **ingress_partial_read** (code bug, `main.go:158`). The callback writes `handler.EvenTypeHandler` on the watcher goroutine while request goroutines read it with no synchronisation: a data race. When the flag is enabled after startup, a request may see the pointer before the handler's fields. `main`'s own write at line 212 happens before the servers start, so it is safe.
- **display_truncated** (code bug, `event_display/main.go:203-209`). `toReq` only logs a read error and replaces the body with the bytes read. With request logging on, a binary-mode event whose connection broke part way is displayed with truncated data. With logging off, the same request fails.
- **Deferred shutdown never runs** (code defect, `event_display/main.go:146`; no run). With `context.Background()`, `StartReceiver` returns only with an error. `log.Fatal` then exits without the deferred exporter shutdown (lines 131-142), which can never run. In `EventDisplay` no action sets `flushed`.
- **channel_ref_empty_segments** (spec gap, `references.go:49`). `"//a"`, `"/a//"` and `"///"` are accepted with an empty namespace or name, while `"/a/"` is rejected. The spec's path `/<namespace>/<name>[/]` names non-empty segments.
- **poll_transient_error** (doc comment and code disagree, `steps.go:78`). One transient API error ends the poll at once, although the doc comment promises a test of whether the resource becomes addressable within the time given.

## 5. Proofs (TLAPS)

`BrokerProofs.tla` proves `TypeCorrect`: `Spec => []TypeOK`, for every value of
the constants that satisfies `MaxTTLAssumption` (`MaxTTL` in `1 .. 2^31 - 1`, the
int32 check of `main.go:91`) and `ConstantsAssumption`, and for reply chains of
every length. `TypeOK` is not inductive: a TTL on the channel stays a natural
number only because the Ingress admitted it with TTL >= 1, and a reply carries
that TTL back. The strengthening `IInv` adds `IngressOK`: an admitted Ingress
request holds a type and a TTL >= 1. The argument is one lemma per action
(`IngressReceiveIInv`, `IngressReplyIInv`, `FanoutIInv`, ...), resting on
`IngressPass` (a pass at the Ingress implies n >= 1) and `DefaultTTLType`.

`IngressMainProofs.tla` proves `AutoCreateInstalled`:
`Spec => []AutoCreateInstalledWhenEnabled`. The property is not inductive: a
delivery may land while `main` is before its check. `MainInv` adds three facts:
- before `Start`, the store is empty and no callback is pending;
- a pending callback carries the value the store holds;
- the property already holds at `"autocreate"`, because `Start` runs the initial callback itself.

`EventDisplayProofs.tla` proves `BodyIntact` (`Spec => []BodyIntactWhenRead`) for
every `MaxChunks`. The strengthening `DisplayInv` adds that `avail <= sent` and
that a buffered body holds exactly the readable chunks. `ReceiveDisplayInv` splits
the receipt into what was read, whether the read failed, and what is displayed.

`AddressablePollProofs.tla` proves `FailureAlwaysReported`:
`Spec => []FailureReported`, for every `MaxPolls` and `MaxApiErrors`. The
strengthening `ReportInv` adds that once a poll has been made, `lastError` is set:
every branch of the condition that keeps polling or fails sets it, so a timeout,
which needs at least one call, finds it set.

`ChannelRefProofs.tla` proves both invariants of `channel_ref_parse`, for every
alphabet `Letters` without `"/"` and `"."` (`LettersAssumption`) and every `MaxLen`.
The proofs therefore cover strings of every length, not only those up to 5 characters:
- `PathParseCorrect`: `Spec => []PathParseMatchesReference`;
- `HostParseCorrect`: `Spec => []HostParseMatchesReference`.

Each theorem follows from the inductive invariant `InputOK` and one lemma about
the parsers. `InputOK` says that a path is a string over the name characters and
`"/"` that starts with `"/"`, and that a host is over the host characters. TLC
checked `InputOK` on the `channel_ref_parse` instance before it was proved. The
start of a path is needed: `"a/b/c"` parses to `b/c`, while the reference parser
rejects it.

The argument runs through the cut points of `Split`:
- `RankMonotone` and `NthCutIs` say that rank is strictly increasing on the cut points, so the cut point of rank `k` is the one with `k` smaller cut points.
- For `"/<ns>/<name>"`, the cut points are exactly `{0, 1, Len(ns) + 2, Len + 1}`, which fixes the three fields (`ParsePathChars`). `TrimTrailing` shows that a trailing slash is removed and nothing else is.
- In the other direction, `TwoSlashes` uses `FS_RemoveElement` and `FS_Singleton` on the four cut points. If a path starting with `"/"` splits into three fields, it holds exactly one more slash. `TwoSlashesForm` rebuilds the path from the two fields. `ParsedPathMatches` then shows the fields are segments of the path in one of its two accepted forms.
- For hosts, `FirstSep` and `NoSep` say what `SelectInSeq` returns. `HostWithDot` finds the second cut point: the least dot after the first, or the end of the host.

The least element of a set of naturals comes from `WellFoundedInduction` (`NatHasLeast`).

Only TLC checks the following:
- the liveness property `AutoCreateEventuallyInstalled` (TLAPS does not handle fairness or `ENABLED`);
- the violation runs.

## 6. Not modelled

- `pkg/adapter/apiserver/config.go` holds only declarations: the `Config` struct, its fields and their JSON tags. Nothing in it changes state. The adapter that reads the config and evaluates `Filters` is not in the repository.
- The metrics reporter tests, test flags and the other tests listed in section 1 test code that is not in the repository, or only parse flags.
- In `IngressMain`, the logging-level and profiling watchers (lines 139, 142) change only the log level and the pprof server.
- In `EventDisplay`, `display`'s formatting, and the `LoggableRequest` fields other than the body, are only printed.

## 7. What could come next

1. Ingress HTTP routing (method, path, OPTIONS `Allow`) from `ingress_handler_test.go`, and the Filter's Subscriptions-API filter precedence (`TestReceiver_WithSubscriptionsAPI`, lines 612-794).
2. The channel's late accept after a timeout, and producer retries that duplicate an event.
3. A property comparing one request's authentication and dispatch decisions against two different feature snapshots.
