# Verification of ibclientportal

TLA+ models of the Go client for the Interactive Brokers Client Portal Gateway, the
instances on which TLC checks them, and theorems about them that TLAPS checks for
every instance. The models are written from the code; where the code and its own
documentation disagree, a run shows it (see *Disagreements*).

`tlc -config X.cfg M` checks an instance, `tlapm M.tla` a module of proofs.

## 1. The system

| Component | Code | State | Operations |
|---|---|---|---|
| Streaming client | `stream.go` | recorded subscriptions, the published connection, the updates channel, `done`, the context, the error | `DialStream`, `SubscribeMarketData`, `UnsubscribeMarketData`, `Close`; goroutines `supervise`, `resubscribeLoop`, `heartbeat` |
| Request pacing | `rate_limit.go`, `MakeRequest` in `ibclientportal.go` | one global token bucket, one per endpoint (and account), one semaphore per endpoint | `Wait`, release, `SetRateLimiter`, `EnableRateLimits`, `DisableRateLimits` |
| Session and accounts | `ibclientportal.go` | cookie jar, selected account | `SwitchAccount`, `ListTradableAccounts`, `ListOrdersForAccount`, `ListTrades` |
| Orders | `orders.go` | none here; the gateway holds orders and open questions | `PlaceOrders`, `ConfirmOrder`, `ModifyOrder`, `CancelOrder`, `WhatIf` |
| REST market data | `marketdata.go` | none here; the gateway holds market data lines | `Snapshot`, `Unsubscribe`, `UnsubscribeAll` |
| Read-only endpoints | `ibclientportal.go` | none | one request, one decoded answer each |
| Errors | `errors.go` | none | `parseError`, `parseRetryAfter` |
| Flex client | `flex/flex.go` | defaults of the client | `SendRequest`, `GetStatement`, `Download` |
| Line probe | `cmd/ibclientportal-mdprobe` | the phase of the run, what it took | one run, with clean-up on Ctrl-C |
| Flex command, Flex sections, generators, API description | `cmd/ibclientportal-flex`, `flex/*`, `specs/` | none | printing, data types, offline tools |

How they interact:

* Every REST call goes through `MakeRequest`, which waits in the limiter under the
  account selected at that moment and holds its slot until the call is over.
* The stream shares the client's cookie jar and its `Tickle` call; from then on it has
  a socket of its own and is not paced.
* The probe uses both: snapshots over REST and a stream, which take market data lines
  from one pool of the account. What it does not release stays taken.
* Goroutines of the stream share `subs` (under `subsMu`), the connection (`connMu`), the
  right to write (`writeMu`), the channel of updates, and `done`. Nothing is held across
  a connect, a replay or a blocked delivery: that is where what was read becomes stale.

What is hard: calls that overlap a reconnect or a renewal (a copy of the subscriptions
is written after it was taken), a `Close` or a cancellation at any of the fourteen control points
of `supervise`, a consumer that stops draining, tokens handed back by cancelled waits,
requests that are delayed twice by two limiters, Ctrl-C and lost calls in the middle of
a run that must give back what it took, answers that are lost after the gateway acted.
`PROJECT.json` lists each of these under "hazards", at its line.

What makes each component correct:

* **Stream.** A recorded subscription is never forgotten on a working connection, and the
  gateway's view converges to what is recorded; updates are in order and gapless within
  a connection; no socket leaks; `Close` and the context end the stream and its tickers.
* **Pacing.** A rule holds for the endpoint it names, wherever it stands in the list; requests of
  one endpoint are its interval apart, whoever was cancelled in between; a wait that took no token, or
  gave it back, delays nobody; a semaphore never loses or doubles a slot; no request waits for ever.
* **Probe.** It leaves no line behind, it ends, and its verdict about the gateway's limit has what
  it saw behind it.
* **Session.** Orders are read from the account that was asked for; `SelectedAccount`
  names the account of the session or none.
* **Orders.** What the calls report and what the gateway did agree; no order falls between the shapes
  of an answer; nothing that was only previewed, or abandoned, reaches the market; a call of
  `PlaceOrders` has its orders accepted once, over all the questions and confirmations it leads to.
* **Flex.** `Download` polls at most `MaxTries` times, never sooner than the server asks for,
  and returns when its context ends.

## 2. Modules

| Module | Role |
|---|---|
| `Stream` | the streaming client: all its goroutines, its callers, the gateway and the network |
| `StreamService` | what it promises the reader of `Updates`, with no connections or goroutines |
| `StreamLife` | what its owner may rely on: what a lost connection, `Close` and the context do to a stream, and when they go unnoticed |
| `StreamMC` | who owns which contract in the instances |
| `StreamProofs` | types, no leaked socket, no lost subscription |
| `StreamRefinement` | `Stream` implements `StreamService` and `StreamLife` |
| `RateLimiter`, `RateLimiterProofs` | request pacing with discrete time |
| `RateRules` | which rule a request meets: the loops over the list of rules, as functions of the turn |
| `EndpointPacing`, `EndpointPacingProofs` | `RateLimiter` with the rule of each request computed by `RateRules` from a given list |
| `RateLimiterMC` | the list and the requests of the instance |
| `Orders`, `OrdersProofs` | placing, confirming, modifying, cancelling, previewing, and an application that does so |
| `Session`, `SessionProofs` | the account of a session, the calls that read or switch it, the cookie jar |
| `Probe`, `ProbeProofs` | a run of the probe, with a stream that lives as `StreamLife` says |
| `Flex`, `FlexProofs` | one download of a Flex report |

### Stream

| Model | Code |
|---|---|
| `sup` | where `DialStream` (until the first connection) and then `supervise` are: `dial`/`await` in `connect` and `awaitEstablished`, `install` before `setConn`, `snapshot`/`replay` in `resubscribeAll`, `read` in `ReadMessage`, `dispatch` in the select of `dispatch`, `free` … `stopped` the way back to the next `connect`, `ended` the deferred `close(s.updates)` |
| `subs`, `conn`, `done`, `cancelled`, `err`, `updates` | the fields of the same meaning |
| `outbox[t]` | the frames goroutine `t` still has to write: one for a call or a heartbeat, a copy of `subs` for a replay or a renewal |
| `writing` | `writeMu` is held, with the frame and the connection that was read under it |
| `link`, `feed`, `sent`, `rd` | external: the sockets, what the gateway streams on the current one, and how much was sent and read |
| `loops`, `closing` | tickers that run; callers between the two halves of `Close` |

`writeText` is two steps, because the connection may be replaced between taking the lock
and writing; so is `Close`, between `close(done)` and closing the connection it finds.
Reading the connection and closing it are one step: a connection that is replaced has
been closed by `supervise` before. The order of a replay is any, as the
iteration over a Go map. The gateway may expire (`Expire`) what is not recorded, and, once the renewal loop has ended,
what is: it ends with `done` or the context while the connection may live on. The `select`s of `dispatch` and `wait` are choices when several
of their cases are ready. Frames that are not market data, contents of frames and
lengths of delays are abstracted.

`Stream` implements two abstract specifications. `StreamService` is the channel of updates as its reader sees it.
`StreamLife` is an automaton of five stages, which `Stage` computes from the state of `Stream`:

| Stage | In `Stream` |
|---|---|
| `none` | `DialStream` has not returned |
| `up` | the published connection works, `Close` was not called |
| `dialing` | it does not, and `supervise` has yet to look for a stop before it has a new one, or is past that look |
| `deaf` | a connection works although the stream is closed: a `Close` came while `supervise` dialled |
| `ended` | nothing keeps `supervise` from stopping: it is asked to and its connection is lost, or is about to be closed by a `Close`, or it has stopped |

`ended` looks ahead; that what it looks ahead to happens is the property `EndedStops`. The probe takes the actions of
`StreamLife` for its own stream: whatever can become of a stream can become of it there, up to the bound
on lost connections.

### RateLimiter

A limiter of `golang.org/x/time/rate` with a burst of one is the time at which its next token
is due (`globalNext`, `ruleNext`). `Start` is the reservation in the global limiter,
`AfterGlobal` the one in the endpoint's, `Acquire` the send on the semaphore's channel,
`Finish` the end of `MakeRequest` with its deferred release. `Refuse` is the wait that fails
at once and takes nothing, `Cancel` a context that ends during one of the three waits and the
token that the library hands back, if nobody reserved after it. `globalToken` and `ruleToken` only record
the tokens that were taken and not handed back. Each limiter that is installed has its own maps, so a
limiter is part of the key. In `RateLimiter`, `RuleOf` stands for the result of `matchRule` for a request, so that its
proofs hold for any rules. `EndpointPacing` adds the list that was `Given` to `NewRateLimiter` and the
method and path of each `Call`, and `MatchedAssumption` says that `RuleOf`, the intervals and the
capacities are what `normalizeRules` and `matchRule` make of them. The two loops of the code are
recursive functions of the turn (`KeptOf`, `BestOf`), so that they can be reasoned about. A path is a
sequence of pieces, because characters matter only for where a prefix may end. The instance has a list of
the shape of `DefaultRateLimitRules`, with the cases that the code treats specially: a
general rule in front of the specific ones, a method in lower case, a rule without method, one
without prefix, a path with a query. With `Global = 0` there is no global limiter.

### Orders

The module composes the calls of `orders.go`, an application that uses them as their comments say, and
the gateway as far as the comments and tests describe it. The application makes one call at a time
(`call`): `PlaceOrders` of a new or a failed order,
`ModifyOrder`, `CancelOrder`, `WhatIf`, and `ConfirmOrder` for each question that a placement
brought (`open`), the loop of the comment at `ConfirmOrder`. The gateway serves the request and
answers with elements of three shapes, all fields of one JSON object: a question, a placed order,
an error, and possibly several of them for several orders. `Placements`, `IsQuestion`, `IsPlaced`,
`Readable`, `Succeeds` are what the code makes of such an answer: an array or a single object, identifiers
as strings or numbers, an error among placements, a body that cannot be decoded. An empty or `null` body
(`blank`) is an error to the calls that place and modify, which look for it, and a success to `CancelOrder` and `WhatIf`,
which do not (`Succeeds`). A call is given up
before it is served, after it, or with its request still to be served (`late`), and an answer may
be cut short or replaced (`Spoil`). `known`, `gone`, `failed`, `believed` are what the application was told;
`accepted`, `cancels`, `terms` what the gateway did; `doubt` names the orders an answer about which
did not arrive, or arrived as something else than was sent: the exact exception under which the properties are not
promised. `placings` only records for which calls of `PlaceOrders` the gateway accepted an order. What the gateway
makes of a customer order id that it sees twice is its own matter and not modelled; an application that sends
an order again has it accepted again.

The application looks at the placements also when they come with an error, since
`placementRequest` returns both. An empty array or an object without any field, without an error, is not an
answer the repository knows of and is not sent.

### Session

Each goroutine makes one call at a time: `SwitchAccount`, `ListTradableAccounts`, `ListOrders`,
`ListTrades`, or `ListOrdersForAccount`, which is a switch whose request has `list` set. A call is `ready`
(made; for a switch and for trades the jar has just been cleared), `sent` with the
cookies of that moment, `served` by the gateway, and answered, or it fails at any of these
places (`Fail`). A switch that failed may have been acted on already, or may be later (`ServeLate`).
`Learn` is `setSelectedAccount`. The cookie jar is reduced to whether it holds a session cookie. `crossed`,
`unsure` and `disturbed` only record what overlapped: they are the exact exceptions under which
the properties are not promised, and `got` is what a caller was given.

### Flex

`pc` follows `Download`; `try` is its loop counter, `wake` the end of `sleepContext`. The server answers
each request at some time with one of the classes that `Download` tells apart, and the report becomes
ready at any time or never. The context ends at any time; a request that has not been sent, or not been
answered yet, then fails, and a pause is cut short, both possibly after the answer or the timer was there.
`lastErr` is the code of the last answer that was to be tried again, which the final error wraps; `outcome` is
what the caller gets, with the code that its error holds. `sent`, `begun`, `heard` and `refused` record times for the properties.

### Probe

`pc` follows `run`, `pollSnapshot` and `cleanup` statement by statement where they call
something; a call is answered, lost (before or after the gateway acted), cancelled while the gateway is
at it, or refused because the context is over. `held` is the gateway's set of market data lines. The stream lives
by the actions of `StreamLife`, and becomes `deaf` if it is closed while it dials (the first disagreement
below); `Redial` adds what the new connection replays.

The gateway is the subject of the probe's experiment, so the model leaves open what it does beyond its
limit (`Granted`): it refuses a snapshot with an error, answers it without a price, or takes the line of another
contract. How many lines it has and whether the third contract has a price at all (`gateway`) is chosen once.
How many calls a price is late by is chosen too (`slow`, from `Delays`), since the comment of
`pollSnapshot` says only that it may take more than one; a poll with more attempts than that has it by its last, and one
with fewer is excused in `VerdictRight`. What is assumed is that a stream gets a line only if there is one.
`seen` is the tracker: `Update` counts what the stream delivers of a contract with a line. `before` is the copy that
`run` takes of it when the quotes have settled, `snapshots` the two `SnapshotRun`s, and `quoted`, `stillTicking`,
`wentSilent` the fields of `Result`; `Verdict` is the line that is printed. `fresh` and `displaced` record
what really happened, to compare the report with.

## 3. Runs

| Run | Question | Bounds |
|---|---|---|
| `stream_subscriptions` | Is a recorded subscription ever forgotten on a working connection? | 2 contracts with one owner each, 2 field sets, 3 calls, 3 connections, cancellation |
| `stream_converges` | Once calls cease and a connection holds, does the gateway stream what is recorded? | 2 callers racing on one contract with 2 field sets, 2 calls, 2 connections |
| `stream_shutdown` | Does a socket leak, is what the reader sees the promised service, does it live as its owner may rely on, does it stop when its life is over, and do the tickers end with it? | 2 updates on each of 2 connections, a channel of 2 that nobody has to drain, 1 call, 2 closes, cancellation |
| `rate_requests` | Are the limits of an endpoint kept whatever other rules there are, whoever is cancelled in between, is every delay due to a token that somebody used, is a slot lost or doubled, and does every request come to an end? | any 3 of 7 requests: 3 to an endpoint paced per account, 2 to one with a single slot, 2 that meet no rule; 1 limiter installed and removed |
| `session_calls` | Whose orders are returned, what does `SelectedAccount` say, which cookies go along? | 2 goroutines, 2 accounts, 3 calls, 2 of them lost or refused |
| `orders_calls` | Do reports and the gateway agree, is an order forgotten, placed twice or unasked, and does the loop over questions end? | 2 orders, 2 terms, 3 calls, 2 questions, 1 call given up or answer spoilt |
| `probe_runs` | Does a run leave something behind, is its report right, and does it end? | 2 contracts, a gateway with 2 or 3 lines whose prices are 2 calls late, 3 attempts, 2 updates of each contract, 1 lost call, 1 dropped connection, Ctrl-C |
| `flex_download` | How are polls spaced, what has a download waited for that gives up, which codes does its caller see, does every download end? | 3 tries, delays of 2 and 3 |
| 4 violations | see *Disagreements* | the smallest in which they happen |

Why the bounds are enough. The hazards of the stream need a reconnect
during a call or a replay: two connections make one, three make one during another, and
the last one does not drop so that there is a connection to converge on. Three calls make a
subscription be dropped and recorded again around them. A channel of two is filled by the two updates of
a connection, and the first of the next one waits in `dispatch`. Two `Close` calls
are the one that loses its race and the next. In the limiter three requests of one endpoint are
needed for one to be cancelled with one ahead and one behind it, and two of the other kinds for one to see the outcome of
another; an interval (5) that is no multiple of the global one (2) keeps the two
queues out of step, and is long enough for the global limiter to fall idle in the meantime. (That two requests still keep
apart after a token between them was handed back takes a fourth request to go wrong at an endpoint, and is left to
the proof of `EndpointPaced`; at the global limiter three show it.) The clock moves only while somebody waits for it
(`MaxTime = 0`); in between, all that could happen is that limiters fall idle, which a longer wait shows as well. In the session three calls are a listing, its second request included, with a switch of the
other goroutine in its way and one more call before or after them. Two orders make an answer of which one part
succeeds and another fails; three calls are a placement, another of the same order after a failure, and a modification, cancellation or preview in
between; two questions are one that is answered by another; `placings` tells apart what a second call of `PlaceOrders`
does from what a repeated confirmation would. In the probe a gateway with
three lines has room for the two contracts and the snapshot, and one with two does not; two updates are one
before and one after the copy. A download with three tries has
a first, a middle and a last one. The safety properties of these runs are also proved without
the bounds.

`CHECK_DEADLOCK FALSE` appears in `ProbeRuns.cfg` alone: there the run may really
stop for good, waiting for a deaf stream. In `Stream` the states in which nothing is left to
do, and in the other modules the end of all work, are self-loops
(`Quiet`, `Over`, `Idle`, `Done`, `Exited`), so that any other stop is reported.

### Fairness

* `SupervisorFairness`: goroutines are scheduled (WF). `LockWrite` is strongly fair because
  `sync.Mutex` hands itself to a waiter that starved for a millisecond.
  `WaitStopped` and `LoopExit` are strongly fair because the timer they compete with in a
  `select` has only just been set; it cannot be ready every time.
* `WriterFairness` is the same of every goroutine that writes, `LoopFairness` of the tickers.
* `GatewayFairness`: a dial that is retried for ever succeeds in the end, and the gateway expires
  what is not renewed. It is assumed for `Converges` only.
* `ConsumerFairness`: the application receives. It is *not* assumed in `stream_shutdown`; it is in
  the two violations, where it makes the counterexample stronger.
* `RateLimiter!FairSpec`: the clock runs, a delay that is over is noticed, a request that was
  sent is answered or fails, and a semaphore that is released again and again is obtained in
  the end (Go's channels serve senders in order).
* `Flex!FairSpec`: the clock runs, `Download` goes on when it can, and a request is answered or its
  connection fails. The code does not see to the last: neither the client nor its transport limits
  a request, so with a context without a deadline it is the server's or the network's to grant.
  Nothing makes the report ready or ends the context.
* `Orders!FairSpec`: a call is served and returns or is given up, and the application goes on with the
  questions it has. It need not start anything, and nothing makes the gateway ask fewer questions than it may.
* `Probe!FairSpec`: the run goes on, which includes that calls are answered or fail, and a stream
  that dials gets a connection or stops. No fairness about Ctrl-C, losses or drops.

## 4. Disagreements

Each is a run that is expected to end in a counterexample.

1. `stream_close_while_connecting`: `Close` while `supervise` is inside `connect` closes the old
   connection. The new one is published afterwards and read without a look at
   `done`: the stream never ends and its socket stays open. In `StreamLife` it is `deaf`; a lost connection or
   a second `Close` ends it (`LivesAsPromised`, `EndedStops`).
2. `stream_cancel_healthy`: a cancelled context does not end a stream whose connection
   is up, because nothing interrupts `ReadMessage`, although `stream.go` and the README say that
   it does. What holds is `CancelSeenBetweenConnections`.
3. `stream_unsubscribe_renewal`: a renewal that copied the subscriptions before an
   unsubscribe writes its copy after it; the gateway streams the contract until it expires. What
   holds is `Converges`.
4. `probe_interrupted`: Ctrl-C before the stream is dialled leaves the line of the baseline
   snapshot held, because its release uses the cancelled context and the
   clean-up is not deferred yet. What holds is `LeavesNothing`, for runs that got to the stream.

The first one also shows in the probe: `EndsUnlessDeaf` is the most that holds, since a run
whose `cleanup` closes the stream while it dials waits for `watchDone` for as long as the connection
lives, with Ctrl-C already caught.

Four limits of the code are part of a property instead of a run of their own. The global token is taken
before the waits for the endpoint, so requests that were delayed there can go out closer together than
the global interval: `UndelayedSpacing` leaves them out. Two goroutines that switch the account of
one session read each other's orders: `OrdersOfAccount` says exactly when. A transient code that answers `SendRequest`
ends a download, while the same code is retried when it answers a poll, and reaches the caller within the error of a
download that gave up: `TransientsExhausted` has both.
The probe's verdict is printed whatever the run went through: Ctrl-C or a lost call during the saturated poll
is an attempt with an error, and the verdict says that the gateway rejects requests past the limit
(`Excused` in `VerdictRight` lists these cases, and fewer `--snapshot-attempts` than the price takes: in a run with an interruption
or a lost call it promises nothing); and since the copy of the tracker is older than
the second snapshot, a contract that ticked in between and then lost its line counts as still ticking, which is the last
clause of `VerdictRight`.

## 5. Proofs

All theorems are about `Spec`, for all values of the constants under the named
assumptions of each module (`BoundsAssumption`, `NamesAssumption`, `RulesAssumption`,
`TimesAssumption`, `RequestsAssumption`, `AccountsAssumption`, `LimitsAssumption`, `DelaysAssumption`,
`OrdersAssumption`, `ContractsAssumption`, `ListAssumption`, `MatchedAssumption`): bounds are natural
numbers, names are distinct, each request has one rule at most, a list of rules and the calls have
their types, the rule of a request is what `matchRule` finds, and there are finitely many requests and
contracts.

* **`TypeCorrect`, `LimiterTypeCorrect`, `SessionTypeCorrect`, `ProbeTypeCorrect`, `OrdersTypeCorrect`,
  `DownloadTypeCorrect`**: the type invariants; the last one holds the bound on polls.
* **`NoSocketLeaks`** (`NoOrphanConnection`): inductive together with the types.
* **`SubscriptionsKept`** (`NoLostSubscription`): not inductive by itself, because an unsubscribe frame that
  is written late would drop a contract that has been recorded again. `LostInv` adds that such
  a frame belongs to the one owner of the contract, who is still inside the call and so
  has not recorded it again (`UnsubscribeOwned`), that connections are published in the order they are dialled
  (`DialOrder`), and that nothing is recorded before `DialStream` returns.
* **`StreamImplementsService`** (`ImplementsService`): a step simulation. `DeliveryOrder` ties the last
  update on the channel to the frame in `dispatch` and to the connection; `EndOrder` says
  that `stopped` is reached on a request and that no error is recorded before the end.
* **`StreamLivesAsPromised`** (`LivesAsPromised`): the other step simulation. `LifeOrder` says that nobody closes a stream
  that `DialStream` has not returned, that `done` is closed before a `Close` looks for the connection, and that `supervise` is
  at the published connection for as long as it works. With `DialOrder`, a connection that is being dialled
  is never the published one, so that most steps leave the stage alone (`StageKept`); those
  that change it are `Install`, `Break`, the two halves of `Close`, the cancellation, and the places where `supervise` looks.
* **`EndpointPaced`, `UndelayedPaced`** (`RuleSpacing`, `UndelayedSpacing`): the inductive
  invariant `Pacing` says that whoever holds a token holds it for a time of its own, an interval
  from all others of the limiter, that the limiter's next token is due an interval after all
  of them, and that nobody leaves later than due, which is where the clock's waiting for
  whoever may run is used. The delicate step is the token handed back by `Cancel`: only the last one is.
* **`DelaysCaused`** (`DelaysHaveCause`): the tokens taken of one limiter and not handed back make a `Ledger`: the next
  one is due an interval after each, and exactly after one of them unless the limiter is idle; they are an interval apart, and
  each that is yet to come follows another at once. Three lemmas carry it over the passing of time, a reservation, and the
  token that is handed back (`LedgerKept`, `LedgerReserved`, `LedgerGivenBack`), for any limiter; the last one shows that a token
  that nobody has overtaken is the one the limiter's next token follows, so that the condition in `TakenBack` is met, and that
  no remaining token followed it. A limiter that keeps what it should take back breaks this.
* **`NormalizedInOrder`, `MatchIsLongest`**: what the two loops of `rate_limit.go` compute, for every list.
  `normalizeRules` keeps the rules with a prefix, in order, once; `matchRule` returns the first of the
  longest rules that fit, or none if none fits. Such loops call for an induction over the turns; it
  is done with sets of numbers (`EveryTurn`: a set of turns without a smallest element is empty), since an
  induction theorem over an arbitrary predicate is out of the prover's reach.
* **`EndpointsLimited`** (`EndpointLimits`): two requests to the endpoint of a rule without a rival are both
  under that rule, because it fits them and a longer prefix cannot (`EndpointRule`, from the two theorems above); so they
  share a key, and `RuleSpacing` and `SlotsMatchFlights` say the rest.
* **`SlotsKept`** (`SlotsMatchFlights`): the semaphore's contents are the requests in flight
  under its key.
* **`SelectedRight`, `OrdersRight`, `TradesClean`** (`SelectedIsActive`, `OrdersOfAccount`,
  `TradesWithoutCookies`): they speak of calls that are over, so the invariant `Accounted` of `SessionProofs`
  says what holds on the way: an answer in transit is true unless it was crossed (`AnswersTrue`); a
  wrong `SelectedAccount` is known to be unsure or has its correction in transit (`SelectedAccounted`); a
  cookie in the jar under a request for trades that was not sent yet is somebody else's (`CookiesAccounted`).
* **`PollsApart`, `GivesUpLate`, `GivesUpWithLastCode`** (`PollsSpaced`, `GaveUpLate`,
  `TransientsExhausted`): the invariant ties the clock to the loop counter at each place of
  `Download`; poll number `k` is sent `k` delays after the first one or later, and a transient answer that is not
  a refusal means that the report was not there when the poll was sent. `heard` counts the polls that met such a code, and agrees with
  the loop counter and `lastErr` at the head of the loop.
* **`ProbeLeavesNothing`** (`LeavesNothing`): `Released` adds that what a reconnect could replay is
  among the contracts still to be unsubscribed, and is empty once the stream is closed.
* **`ProbeDisplacementSound`** (`DisplacementSound`): `Counted` says that between the copy and the judgement a contract
  is fresh exactly when the tracker has counted more than the copy, and that nothing is judged before.
* **`ProbeVerdictRight`** (`VerdictRight`): `Reasoned` keeps for every outcome what is behind it. An error means that
  somebody other than the limit is to blame or that the lines were full of contracts that stream; a poll that went on
  without an error has its line; a contract that has a price has its line, or lost it to a snapshot. So a price for the
  contract of the snapshot means that there was a line for it besides those of the quoted contracts
  (a count of finite sets, `PriceAfforded`), or that one of them was displaced.
* **`ReportedReal`, `RealReported`, `Forgotten`, `OnlyWanted`** (`ReportedIsReal`,
  `RealIsReported`, `NothingForgotten`, `NothingUnwanted`): the properties speak of the
  application between two calls, so `Consistent` of `OrdersProofs` carries them through a call: an answer
  that has arrived tells exactly what the gateway did for this request (`AnswerAbout`, `ToldIsDone`,
  `DoneIsTold`), every order of a placement is followed to a placement, an error or a question
  (`Followed`), and a question is about orders that the application asked for (`QuestionsProper`, `CallWanted`). An answer that
  was spoilt puts its orders in doubt, whatever the call makes of it.
* **`PlacedOnce`** (`OncePerPlacing`): for each order and each call of `PlaceOrders` there is one claim at most by which
  it could still be accepted: the call itself while it waits, a request of it that may be served late, or a question that was
  raised about it and not answered. `ClaimedOnce` says so, and that there is none when the order was accepted, over
  calls that are given up, questions in the place of placements, and confirmations, which use up the question they answer.

Only model-checked: everything with a leads-to or an eventually (`Converges`,
`EndedStops`, `CancelSeenBetweenConnections`, `LoopsEnd`, `Settles`,
`EndsUnlessDeaf`, `LoopEnds`, `Ends`), since liveness under fairness is beyond the prover; and the four
disagreements, which are counterexamples.

## 6. Not modelled

* *Streaming*: socket buffers and the flow control of the gateway (a write always completes), so a consumer that
  writes while its channel is full cannot be blocked by its own write; and the lengths of backoff, renewal and
  expiry. That a renewal comes in time is the difference of two constants, a minute, against the delay of a ticker and of a
  write, which nothing in the code bounds: a timed model could only assume what it would show.
* *Pacing*: the values in `DefaultRateLimitRules`. One of them, for `GET /tickle`, meets no request, since `Tickle` posts.
  What happens to requests that wait in a limiter that is replaced is modelled, but no property promises anything
  across limiters.
* *Orders*: account ids, texts, the amounts of a preview; how the application picks its orders.
* *Session*: an answer to `SwitchAccount` that denies the switch with a status of 200 (the `set` field of the answer is
  decoded and not looked at; nothing in the repository shows such an answer), and the race on the jar's pointer.
* *Flex*: the race on the defaults of a client, and the decoding of a report into the record types of `flex_sections.go`,
  which are generated data.
* *Probe*: resolving symbols to contracts, the histogram of availabilities, and the format of the report.
* *REST market data and read-only endpoints*: one request and one decoded answer each, without state; what they do to the
  account's market data lines is in `Probe`.
* *Errors*: `parseError` and `parseRetryAfter` turn one response into one value, which nothing in the library uses: a
  429 is not retried, and the limiter does not hear of it.
* The Flex command, the generator and sanitizer, and the description of the gateway's API: flags and printing, offline
  tools, and third-party data.

Left for later: liveness of `Orders` with more than two questions.
