# A verification project for the fintech platform

TLA+ models of the platform's services, TLC configurations that check them on
small instances, and TLAPS proofs of what matters most for every size of them.
Paths below are relative to the repository (`src/`), line numbers are those of
the commit the project was written for.

## 1. The system

Four HTTP services in Go, one process each, deployed as a Docker Swarm stack.
The Go server runs one goroutine per request, so everything a process keeps in
package variables is shared by the requests in flight.

| component | source | state it keeps | operations |
|---|---|---|---|
| edge gateway | `cmd/edge-service/main.go` | the limiter and the detector below | `securityMiddleware`: scan the body for secrets, take the tenant from the API key or the token, rate limit, detect abuse, forward with `proxyRequest`; `handleRateLimitStatus` |
| rate limiter | `pkg/ratelimit/ratelimit.go` | per tenant a limit, a token bucket, the time of its last refill; one `RWMutex` | `Allow`, `GetStatus`, `SetLimit` |
| abuse detector | `cmd/edge-service/abuse.go` | a map from source key to a request history; a lock for the map, a lock in each history | `Detect` (nine checks, then `trackRequest`), `TrackFailedAuth`, `CleanupOldData` |
| token manager, auth service | `pkg/auth`, `cmd/auth-service` | two keys, a table of credentials; nothing that changes | `handleLogin`, `NewToken`, `ValidateToken` |
| transfer service | `cmd/transfer-service/main.go` | an in-memory account database, `dbLock` over it, `failureMode` | `handleTransfer`, `handleHealth`, `handleSimulateFailure` |
| search service | `cmd/search-service/main.go` | an account database of its own, never written | `handleSearch` |
| synthetic data | `pkg/models` | (the databases above) | `NewSyntheticDatabase`, drawn at random at every start |
| request context, metrics, vault client | `pkg/context`, `pkg/metrics`, `pkg/vault` | none that is read back | |
| swarm stack and scripts | `docker-swarm-stack.yml`, `infra/` | replicas and versions of the services | start, health check, rolling update, rollback |
| release pipeline | `.github/workflows/releasebuild.yml` | results of jobs | scan, manual gate, deploy |

How they interact: a client logs in through the edge at the auth service and
gets a token signed for 24 hours; every later request passes the edge, which
checks token, limit and abuse, and is forwarded over HTTP to search or
transfer, which check the token again and compare its tenant with the owner of
the accounts. Services share the key pair and nothing else: the token is all
that travels. The orchestrator restarts a process that dies and rolls back an
update whose tasks turn unhealthy.

What is hard here, and what makes each part correct:

* **transfer handling**: the handler looks the accounts up under a read lock,
  checks without a lock, and writes under the write lock without checking
  again. Correct means: money is conserved in every tenant, a transfer is
  atomic for whoever looks, a refusal has a reason, an overdraft is impossible
  (or at least bounded), every request is answered.
* **rate limiter**: refills by fractions, at any moment, between grants and
  denials. Correct means: never more than the bucket and its refill, never less
  either, and a status one can rely on.
* **abuse detector**: count and record are separate critical sections on a
  pointer fetched in a third one, while histories are created and deleted.
  Correct means: nothing recorded is lost or counted twice, thresholds bind up
  to the requests in flight, no request waits for ever for two locks.
* **edge gateway**: the order of the checks, the limiter read again after its
  lock was given back, a URI and a body that the edge reads otherwise than the
  services do, a proxy that can end in three ways. Correct means: nobody is
  served as another tenant, what the edge reads as the services do is charged to
  the tenant served, no backend sees an unpaid request, every request is
  answered.
* **the services together**: an answer can be lost at every hop and any process
  can restart. Correct means: a client can trust a 200 and a refusal, and knows
  that silence means "at most once".
* **tokens**: validity in whole seconds by several clocks, checked twice.
* **failure mode**: an unsynchronised flag, read by health checks on which the
  orchestrator acts.

`PROJECT.json` lists each hazard at its line with the properties aimed at it.

## 2. Modules

| module | models | abstract or composed with |
|---|---|---|
| `Bank` | what a client may rely on: a transfer is one indivisible move of a positive amount inside the tenant of the token, or a refusal that moves nothing; a restart forgets everything | abstract specification of `TransferService` |
| `TransferService` | the transfer handler, statement by statement where other requests can interfere, and restarts | implements `Bank` |
| `RateLimiter` | `New`, `Allow`, `GetStatus`, `SetLimit` and the clock | |
| `RequestChecks` | the five checks of `Detect` that read the request alone, and the keys of histories | extended by `AbuseDetector` |
| `AbuseDetector` | `Detect`, `TrackFailedAuth`, `CleanupOldData` and the clock | |
| `TokenManager` | `NewToken` and `ValidateToken` as functions of a clock | |
| `EdgeGateway` | `securityMiddleware` and the proxy, handler by handler, and restarts of the edge; the services are its environment | contains an instance of `RateLimiter`, extends `TokenManager` |
| `AuthService`, `SearchService` | `handleLogin`; `authMiddleware` and `handleSearch` | extend `TokenManager`, parts of `Platform` |
| `TransferContract` | what the client of a transfer may conclude from its answer, or from none | abstract specification of `Platform` |
| `Platform` | clients, edge, the three services, lost connections, restarts | extends `EdgeGateway`; contains `AuthService`, `SearchService` and, for the transfer service, `Bank`; implements `TransferContract` |
| `TransferHealth` | `failureMode`, the health answer and gauge, the probe and the replacement of the task | |
| `MCTransferService`, `MCRateLimiter`, `MCAbuseDetector`, `MCPlatform`, `MCTransferHealth` | small instances for TLC | |
| `TransferService_proofs`, `RateLimiter_proofs`, `AbuseDetector_proofs`, `EdgeGateway_proofs`, `TransferHealth_proofs`, `Platform_proofs` | theorems and proofs | each extends the module it is about; `Platform_proofs` also extends `EdgeGateway_proofs` |

Each component module also holds *faulty variants* of some definitions, marked
as such: plausible bugs, one for each property, which the runs are known to
detect when they take the place of the definition.

### TransferService

`pc[h]` is the statement handler `h` is about to run, `req[h]` the tenant of
its token together with the decoded body, `status[h]` its answer.

| action | code |
|---|---|
| `Refuse` | 401 of `authMiddleware`, 400 of the decoder (72-96, 151-156) |
| `Accept` | a valid token and body (98-159) |
| `Lookup` | the read-locked lookup and 404 (161-176) |
| `Validate`, `Verdict` | the tenant, amount and balance checks, in that order: 403, 400, 402 (178-209) |
| `Debit` | `dbLock.Lock()` and the first write (212-213) |
| `Credit` | the second write, `Unlock`, 200 (214-239) |
| `Finish` | the goroutine ends, its slot is free for another request |
| `Restart` | the process dies between any two steps and `init` draws a new database (52, `models.go:112`, `data.go:69`) |

Abstractions. Balances and amounts are integers: the code's `float64` in units
of which every amount is a multiple, so rounding of dollar fractions is not
modelled. An account is its balance and, through `TenantOf`, its owner; status
and currency are never read, `Transfers` and `Ledger` never written (although
`README.md:305` names "Ledger entries" among the features). The unlocked read of
`Balance` is a data race in Go; a 64-bit aligned load reads the old or the new
value on the platforms the images are built for, and those are the values the
interleavings of `Validate` with `Debit` and `Credit` give it. 405 cannot occur
behind the router's `Post`.

`seed` is a history variable: the balances the running process started with.

### RateLimiter

Each method is one critical section, hence one action; `Allow` is split into
its three outcomes (unknown tenant, granted, denied: it stores the refill in
the last two). Time is in ticks, `Minute` of them to a minute; tokens are
counted in shares of 1/`Minute` token, so that what the code computes in
floating point is exact. `grants` is a history variable: the time of each of a
tenant's grants, and the largest limit the tenant has had from then on, which
`SetLimit` raises. `StatusTokens` and `StatusAllowed` are
the answer of `GetStatus`. No service calls `SetLimit`; it is modelled because
it is part of the package.

### AbuseDetector

A worker walks through the four checks that use a history and then
`trackRequest`, in the order of `Detect` (the checks on the request alone read
nothing shared, so they are evaluated at once on arrival). Each visit is three steps:
`Fetch` (`getOrCreateHistory`, under `ad.mu`) stores the pointer in `ptr[w]`,
`Lock` takes the history's own lock (the workers that hold one are `locked`), and
`CheckRate`, `CheckVelocity`, `CheckMethods`, `CheckBots`, `Track` or
`TrackFailure` does the work and gives it back (`Release`). Histories live in
`heap`, `table` maps keys to addresses, so a history deleted from the map is still
reachable by the worker that holds it. `CleanStart`, `CleanPick`, `CleanPrune`,
`CleanDelete`, `CleanEnd` are `CleanupOldData`: it holds `ad.mu` (variable
`adMu`) throughout, waits for the lock of each history it has picked until no
worker has it, prunes the history and reads its lengths without the lock, while a
worker may append; the outcomes are those of an append before or after the
reading. `Fetch` and `CleanPrune` hold a lock within one step, as they wait for
nothing while they have it; so the two orders in which the two locks are taken
are those of the code, and a check that asked for the map with a history in its
hand (the faulty variant `CheckUnderMap`) comes to wait in a circle with a
cleaner.

`signal[w]` is the set of checks that detected something, and `log` a history
variable: each tracked request with its key, time and signal. A request's texts
are sets of the words patterns look for; a pattern is the set of its
alternatives. `CommandWords` is the pattern of `abuse.go:77` as written, with
its empty alternative. `getClientIP` is the field `ip`. Severity, reasons as
text and recommendations are left out; `SuspiciousCount` and `LastRequest` are
written and never read. No service calls `TrackFailedAuth` or
`CleanupOldData`: the constants `FailureCallers` and `Cleaners` say whether an
instance does, and the production is the instance where both are empty.

### TokenManager, EdgeGateway

A token is its tenant and its two dates; everything a client can send that was
not signed is `Forged`. Times are ticks, `Second` of them to a second, and
`NumericDate` cuts a time down to a whole second as `jwt.NewNumericDate` does.

A handler of the edge is a goroutine; `pc[h]` is the control it is about to
apply.

| action | code (`cmd/edge-service/main.go`) |
|---|---|
| `Receive`, `Screened`, `Charge` | read and scan the body, 400; the tenant from the key the edge finds in the body, if the URI names the login anywhere, else from the token, 401 (107-161) |
| `Admit`, `Deny` | `limiter.Allow`, one step of `RateLimiter` (164) |
| `Explain` | the 429 whose body calls `limiter.GetStatus` (171-177) |
| `Flag`, `Pass` | `Detect`'s verdict, 403; the gauge up (181-196) |
| `Forward` | the body Detect has read restored, the backend chosen, 404 for a URI without its prefixes (208-240) |
| `Deliver`, `ProxyFails`, `CopyBreaks` | the three ways `ServeHTTP` ends: answer copied, 502, panic that closes the connection; the deferred gauge down in each (196, 261) |
| `EdgeRestart` | the process dies and `init` runs again |

What a request looks like to the scan of its body is the field `body` (plain,
with a secret, unreadable). The router and the edge read the URI differently,
and the edge and the auth service the body, so each reading is a field of its
own: `route` is what the router finds in the path, `namesLogin` whether the
URI, the query included, contains `/auth/login` (134); `edgeKey` is the
`api_key` the edge finds in a map (136-139), `key` the one `handleLogin`
decodes into a struct, whose names match in any case
(`auth-service/main.go:99`). A login always names itself; nothing else is
assumed of the pairs. `absolute` is a request line with the whole URL, which
the router accepts and which has no backend. What `Detect` may find is the
constant `Verdicts`: with line 77 of `abuse.go` as it stands it is
`{"flagged"}` (run `detector_pattern`), the check takes both verdicts, so what
it shows holds now and once that pattern is repaired. Detect cuts a long body
down to 10000 bytes and the middleware puts it back before the proxy (208,
`abuse.go:204`), so a service works on what the client has sent and the body is
no variable. `mark` and `forwarded` are history.

### Platform

`call[h]` is what a service works on for handler `h` of the edge, `reply[h]` its
answer before the edge has taken it. `GiveUp` ends the edge's side alone: Go's
handlers do not look at the request's context, so the call goes on, and `Drop`
discards its answer. A restart of a service takes its calls and replies away.
A handler's slot is taken until the service is done with such an orphan; that
is a bound of the model, since a Go server has no slots. The transfer service is
`Bank`, whose steps are joined to the token check in front of them; that
`TransferService` implements `Bank` is the theorem `Refinement`. Go's transport
repeats a request on a broken connection only if its body can be read again,
which the edge's cannot, and never a `POST` that has been written. `held` are
the tokens clients have been given, with the time of the login as history;
`settled` is history too. Every process has its clock, ahead of `now` by a
constant.

### TransferHealth

Each of the reads and writes of `failureMode` in `handleSimulateFailure` (two on
line 248, one each on 250 and 259) is an action, and so are the read and the later `Set`
of `handleHealth`. `misses` counts the orchestrator's failed probes in a row;
`Replace` is the new task, with `failureMode` false. `start_period` is left out: it
excuses failures of a process that has not been healthy yet, and a new one is.

## 3. Runs

| run | shows | states |
|---|---|---|
| `transfer_safety` | three handlers, nine requests, two databases: `TypeOK`, the inductive invariant `IndInv`, `TenantFundsConserved`, `OverdraftBound`, and that no balance refusal stems from a half-written transfer (`RefusalLinearizable`) | 146 000 |
| `transfer_bank` | two handlers, self-transfers too: the service implements `Bank` (`Refines`), and every accepted request is answered (`Answered`) | 23 000 |
| `platform` | two handlers, two tenants, eleven mixes of requests, time and restarts (below): tenants, payment, tokens, gauge, the client's contract, liveness | 51 000 |
| `transfer_health` | two toggles at once, the probe and another health request, three retries: `SoloToggle`, `GaugeConverges`, `Recovers` | 48 000 |
| `transfer_overdraft` | *violation* of `NoOverdraft` by two concurrent requests | |
| `transfer_phantom` | *violation* of `RefusalLinearizable` once an account may transfer to itself | |
| `limiter_safety` | two tenants, one of them unknown until `SetLimit`; limits set to 0 and 3 at any time: `TypeOK`, `WindowBound`, `StatusSound`, `DenialJustified` | 393 000 |
| `detector_safety` | two workers, two tenants behind one address, no cleaner, one of them sending probes: `AdmissionBound`, `HistoryComplete`, `ProbeFlagJustified` | 2.6 million |
| `detector_returns` | two workers and a cleaner that starts again and again, with the locks of the map and of the histories: `TypeOK`, every call returns (`DetectReturns`) | 73 000 |
| `detector_cleanup` | *violation* of `HistoryComplete` with a cleaner | |
| `detector_velocity` | *violation* of `VelocityEnforced` | |
| `detector_pattern` | *violation* of `CleanRequestPasses` | |

**Bounds and why they are enough.** Transfers: an interleaving hazard of the
handler involves at most one writer between its two writes (the lock) and
handlers that passed their check; three handlers give two of those beside a
writer, and the proofs cover every number. Balances of 1 and 2 with amounts of
1 and 2 make exact, insufficient and repeated debits occur; requests include one
for each refusal, and one seed lacks an account so that a restart can take it
away. Handlers are interchangeable, so `transfer_safety` uses symmetry;
`transfer_bank` checks liveness and does not. Limiter: buckets of different
tenants are independent; a limit of 2 in a minute of 3 ticks makes a tick worth
two thirds of a token, and the clock runs for a minute, so fractions, a full
bucket, its cap and a limit lowered and raised again occur. The proofs lift the bounds. Detector:
thresholds of 1 and 2 where the code has 100 and 50, a second of one tick and
a minute of three, five requests within five ticks: enough for a threshold to be
passed by two workers at once, to bind, and to expire. The order of the code's
thresholds (a limit per second larger than the one per minute, 100 against 50)
means the rate check never decides in production; the model keeps both checks
apart and bounds each. Since nothing but time and number of calls bounds the
detector's model, it may stop at those bounds and is checked without deadlock
detection; that no call blocks is `DetectReturns`. Its run lets the clock stand
still, as no lock depends on it: the histories that are deleted are those a check
has created and nobody has written to. The retention of `detector_cleanup` is as
short as the minute, which makes deletion happen within few ticks.

Platform: two handlers are enough for a denial to be overtaken by a grant, for
two requests to be in the gauge, and for an orphan beside a live request. A
behaviour keeps within one of the `Budgets` of `MCPlatform`, which say how often
each request is sent, how many restarts there are and how long it lasts: one
with four requests of a tenant with two tokens (the fewest after which a 429 can
say that requests are allowed), several with two or three requests of different
kinds within two ticks, with up to two restarts, two with requests that the edge
reads otherwise than the service (a login with two keys, a search and a transfer
whose query names the login), and two with time for a token to become valid
and to expire. Clocks are one tick ahead at the auth service and the search
service and two behind at the transfer service, a second is two ticks, a token lives
four: so a token is refused both before its time and after it, at the edge and
behind it. Every property's interesting case was seen to be reachable (a
contradicting 429, an orphan that settles after its client has left, a 401 from
each service). Health: two toggles overlap in every way, four in all let one
process be replaced and the next one be toggled again.

**Fairness.** `TransferService!FairSpec`: a handler that can run does (Go's
scheduler), weakly for the steps nothing disables; strongly for `Lookup` and
`Debit`, because `sync.RWMutex` does not let a waiter starve: a blocked
`Lock` keeps later readers out, and readers that wait when it unlocks go first.
Nothing is assumed about clients (`Accept`, `Refuse`) or restarts.
`AbuseDetector!FairSpec`: the same for workers, strongly for `Fetch`,
`Lock` and `CleanPrune`, which compete for `ad.mu` and the histories' locks with
others that may take them for ever; a mutex whose waiter has been passed over for
a millisecond is handed to it. A cleaner that has started goes on; none has to
start.
`Platform!FairPlatform`: handlers of every process go on, and the proxy notices
that the service it waits for is gone (its connection is reset), which is the
only case in which giving up is assumed. That a service answers is part of the
assumption: the edge has no timeout, and a service that hung without closing its
connection would keep its handler for ever. That the transfer service answers is
`Answered`. `TransferHealth!FairSpec`: handlers go on, the orchestrator probes
again and again and replaces what is unhealthy; three probes of ten seconds and
a delay of five make at most four replacements in the 120 seconds in which the
restart policy allows five.

## 4. Where the program and its documents disagree

* `transfer_overdraft`: two requests in flight can each pass the check at
  `main.go:199` and together overdraw an account. `OverdraftBound` says by how
  much at most.
* `transfer_phantom`: a self-transfer debits, then credits the same balance; a
  check in between refuses a request that was covered all along.
* `detector_cleanup`: a record written between the pruning and the deletion
  of its history (or later, through the kept pointer) is lost. Latent: there is no
  caller yet.
* `detector_velocity`: the velocity check counts under a key nothing is recorded
  under.
* `detector_pattern`: the command pattern matches the empty text, so `Detect`
  flags every request, and the edge refuses all that reach it.

Seen while modelling, and without a run of its own: the comment at
`edge-service/main.go:130` says that protected endpoints derive the tenant from the
validated token. The test at 134 is of the whole URI, so a request to a protected
endpoint whose query contains `/auth/login` has its token checked by the service
alone and is charged to the tenant of the key in its body, or to "unknown"; and a
login in whose body the edge and the auth service find different keys is charged to
the former's tenant. `TenantIsolation` and the services' part of `TokenHonoured`
hold of all of these; `TenantCharged` and the edge's part of `TokenHonoured` leave
them out. The ledger is never written
(`README.md:305`). `README.md:129` promises 429 after `limit` requests in a
minute, while a full bucket that refills lets almost twice as many pass
(`WindowBound` is the exact bound while the limit stays, and `MinutesBounded`
proves it is less than twice). `GetStatus` reports "0.00" and
`requests_allowed: false` for a tenant that has not asked yet, and the bucket
without the refill since the last `Allow` otherwise; `StatusSound` is the
direction that does hold. `checkHTTPMethods` counts entries of any age, since lists
are pruned only when a request is tracked; `ProbeFlagJustified` is what follows.
Two toggles at once can count as one, and answer `"status": "enabled"` with
`"failure_mode": false`, although `README.md:301` calls it a toggle; `SoloToggle`
holds for one at a time. The `expires_at` of a login can be later than the token's
own expiry by up to a second and the time between two clock readings. Histories are never removed in
production.

## 5. Proofs

`tlapm` checks all of them to the last leaf; they hold for every value of the
constants that satisfies the named assumptions.

**TransferService** (assumptions: finitely many handlers, at least one; requests
are records with an integer amount of at most `MaxAmount`, any tenant and any
account names; seeds are non-negative balances of known accounts).

* `TypeCorrect`, `InvariantHolds`: `IndInv` is inductive.
  `TypeOK` alone says nothing of the handlers between their check and their
  write, so it is joined by `RequestInv` (past a check, what it checked still
  holds: accounts do not disappear and do not change owner), `LockInv` (a handler
  is between its writes exactly when it holds `dbLock`) and `OverdraftInv`.
* `OverdraftBounded`: `[]OverdraftBound`. The bound is not inductive: what
  makes it true is that of the k handlers that approved a debit of the same
  account, one saw enough for its own amount, but for at most n - k debits since.
  `Covered` says just that, and `Debit` moves a handler from k to spent.
* `SerialNeverOverdraws`: with one handler, `[]NoOverdraft`. It shows the
  overdraft is a matter of concurrency alone.
* `Refinement`: `Spec => Refines`, under the mapping that adds the debit of the
  lock's holder back until its credit is written. `Credit` is the abstract
  `Settle`, refusing steps are `Refuse`, all others stutter.
* `RefusalsLinearizable`: `Spec => RefusalLinearizable` if no request names one
  account twice: a half-written transfer then shows either the balance before
  it or the balance after it. The run `transfer_phantom` shows the
  assumption is needed.
* `FundsConserved`: `[]TenantFundsConserved`, for finitely many accounts. What is
  conserved at every step is the sum over the settled balances, those of the
  refinement mapping (`NextFunds`): `Debit` leaves them alone, `Credit` moves an
  amount from one account to another of the same owner (`MoveKeepsSum`), and a
  restart starts again. The rest is about sums over a finite set. `SumOver` is a
  fold of the community modules, which chooses an element and goes on with the
  others; the table of all partial sums of one function exists
  (`SumTableExists`: of the subsets for which it does not there would be a
  smallest), and if two functions differ at one element, so do their sums, by as
  much (`SumChanges`).

**RateLimiter** (assumptions: limits are natural numbers, a minute has a tick).

* `LimiterTypeCorrect`: also that the three maps' domains stay nested and no
  bucket is in debt.
* `WindowsBounded`: by `BucketInv`, that for every past grant, the grants since
  then and the present content together fit what a bucket of the largest limit
  since gives in that time. Changes of the limit are steps like any other: one
  raises the limit a stretch is measured by, or leaves the content to be capped.
* `DenialsJustified`: by `ExactInv`, that a bucket which is not full is
  accounted for by some past grant to the last share, as long as the tenant's limit
  was never changed. Together the two characterise the limiter for such a tenant: it
  grants exactly what the windows allow.
* `MinutesBounded`: in less than a minute a tenant gets less than twice its limit,
  the largest since the first of these grants if it was changed.
  It follows from `WindowBound`, and says what `README.md:129` may promise.
* `StatusIsSound`: follows from the types, since a refill never takes away.

**AbuseDetector** (assumptions: finitely many workers; a second has a tick and is
no longer than a minute, a minute no longer than the retention).
`HistoriesComplete`, `AdmissionBounded` and `VelocityNeverDetects` have the hypothesis
`Cleaners = {}`: that is how the services run the detector, and `detector_cleanup`
shows `HistoryComplete` fails with a single cleaner. The others hold with any set of
cleaners. Callers of `TrackFailedAuth` are not excluded anywhere.

* The pass over a list, `Since`, is a recursive function, as the loop in the code is;
  `SinceFacts` says all the theorems need of it: it keeps the entries within the
  span, so for every later cutoff it counts as many as the list it was given.
* `TypeCorrect`, by `TypeInv`, also with cleaners: a busy worker has a call that is
  not in the log yet, a history's lock has one holder, and between two sweeps
  nothing is left to do.
* `HistoriesComplete`, by `Recorded`: two keys never share a history, a worker holds
  the one of its key, and for every cutoff within the last minute the list counts
  as many requests as the log. The cutoffs are needed: `HistoryComplete` itself
  speaks of one, the present one, and time moves it.
* `AdmissionBounded`, by `AdmittedInv`: for every cutoff, the requests that passed a
  check and are logged *and those that passed it and are still in flight* are
  together at most the limit and one for each worker. A check that passes sees a
  log of at most the limit; `Track` only moves a request from the second number to
  the first.
* `FlagsAreEarned`, `ProbeFlagsJustified` and `NoDoubleCounting`, by `FlagInv`: what
  remains true when cleaners run. A history that is deleted may still be in the hand
  of a worker, so the invariant speaks of what is `Holding`, in the map or in a hand:
  each of these is held under one key, counts at most as many requests as the log
  (where `Recorded` says just as many), and is longer than `ProbeLimit` only if its
  source has `Earned` it. That a flag rests on a full span of requests *before some
  logged request*, and not only before the check, is `LoggedEarns`: the last request
  of a crowded span has the others behind it.
* `EveryRequestFlagged` and `VelocityNeverDetects` give the findings
  `detector_pattern` and `detector_velocity` their full extent: whatever is sent,
  no request passes `Detect`, and the velocity check detects nothing whatever its
  threshold is, as long as no tenant is called "velocity" (its history keys would
  be those of the check).

**EdgeGateway** (assumptions: finitely many handlers, a minute has a tick, and
every request is charged to a tenant of the limiter's, "unknown" included). The
gateway alone, with services that answer anything or nothing:

* `GatewayTypeCorrect`: the types.

* `GatewayInvariant`: `EdgeInv` is inductive. `ForwardsPaid` and `GaugeExact`
  compare a counter with the size of a set of handlers; each action adds a
  handler to that set, drops one or leaves it alone, and the lemmas
  `GrantedAdds`, `GrantedDrops`, `FlyingAdds`, `FlyingDrops` and `FlyingStays`
  say by how much the size changes. `DenialExplained` speaks of answers already
  given; what makes it inductive is `Denied`, the same for a handler that was
  denied and has yet to ask for the status: a denial leaves less than a token
  (`LimiterDenies`), and nothing but a grant changes that.
* `ForwardsArePaid`, `GaugeIsExact`, `DenialsExplained` follow.

**Platform** (assumptions: the key of a tenant's credentials is one the edge takes
for that tenant's, clocks differ by any whole number of ticks, and the set of
requests has one for every token a login may give). The theorems cover any number of
handlers, lost connections and restarts of every process, in any mix: the proofs use
nothing of `Budgets` but its type.

* `PlatformInvariant`: `PlatformInv` is inductive. Every step is one of the
  gateway's or leaves its variables alone (`ExchangeEdge`), so `EdgeInv` and its types
  carry over, and with them `GatewayHolds`: what is proved of the gateway holds in
  the platform. The rest is `HandlerOK`, an invariant per handler: what the edge has
  charged belongs to the request (`EdgeOK`), a service works on that request or on
  that of a client who has left (`LinkOK`), a login's token and a search's answer are
  the right tenant's (`ContentOK`), the bank's view of a transfer agrees with what has
  been settled (`TransferOK`), and so does what the client was told (`AnswerOK`). A
  step touches one handler, a restart several, each in the same way
  (`CallsDieInv`); of the others nothing changes (`FrameHandler`).
* `PlatformTypeCorrect`, `TenantsIsolated`, `TenantsCharged` and `ExpiryAnnounced`
  follow. For isolation, the tenant of the token or of the credentials and the owner
  of the account are compared along the request's way (`ServedTenant`); it uses
  nothing of what the edge has read. Who is charged does: `TenantsCharged` supposes
  that the edge and the service read the request alike (`ReadAlike`), and that keys
  and credentials agree is an assumption.
* `TokensHonoured`: `PlatformSpec => TokenHonoured`. `DatesAgree` is the arithmetic:
  for a token signed at one time and checked at another, by clocks ahead by any
  amounts and dates cut to whole seconds, what `ValidateToken` says is right up to a
  second at either end. Search and transfer judge every token by it, the edge those of
  requests whose URI does not name the login.
* `ContractHolds`: `PlatformSpec => Contract`, that the platform implements
  `TransferContract`. Each action is the abstract step of its handler or a stutter;
  a restart, which can cut off several handlers at once, is `Interrupt`. The invariant
  supplies what the mapping cannot see: an answer of 200 has been settled, one that
  refuses has not and leaves no call behind.

**TransferHealth** (assumptions: the orchestrator's probe is one of the health
requests, at least one retry).

* `HealthTypeCorrect`, and `SoloTogglesToggle` by `SoloInv`: a toggler nobody has
  overlapped is the only one there is, and `failureMode` is what it has read
  until it stores and the opposite afterwards.

**Only model-checked**: `Answered`, `DetectReturns`, `EveryRequestAnswered`,
`GaugeConverges` and `Recovers`, which are liveness under fairness and need
`ENABLED`, out of reach of the provers. Every invariant and action property that
a passing run checks is also proved.

**Induction over data.** The library's induction theorems take a predicate as a
parameter, which the installed provers cannot instantiate. Where a proof needs
induction over a list or a set (`KeptExists`, `KeptFacts`, `SumTableExists`), it
takes the set of counterexamples instead and, by `WFMin`, a smallest one among
them, which the induction step excludes.

## 6. Not modelled, and the plan

Left out, and why:

* **Metrics** are written and never read by the program; the two gauges
  someone acts on, requests in flight and service health, are modelled.
* **The vault client** is constructed by no service.
* **Rolling update and rollback** are Swarm's algorithm; the repository gives it
  numbers (`docker-swarm-stack.yml:432-441`), not code. What the platform itself
  contributes, a health answer and a process that forgets everything, is
  `TransferHealth` and the restarts of `Platform`.
* **The release pipeline**'s order of jobs is kept by the service that hosts it,
  and its deploy job prints a message.
* **Request context** is a value inside one request.
* Cryptography and key parsing, Dockerfiles, configuration of monitoring, the
  wording of answers and logs, and floating-point rounding of amounts.
* The number of histories the detector keeps grows with the sources it has
  seen, as nothing calls `CleanupOldData`: a bounded model cannot show growth
  without bound.
* Several tasks of one service: the stack file asks for one each.

Next: the two findings about transfers can be given their full extent as those about
the detector were, and `TransferService` can take the place of `Bank` in `Platform`,
which the theorem `Refinement` now stands for.
