# Formal models of the credit scoring platform

TLA+ models of the platform under `src/`, the TLC runs that check them on small
instances, and proofs, checked by the TLA+ proof system, that hold for every
value of the models' constants. Line numbers are those of `src/`.

## The system

One Python process serves the HTTP API with a thread per request
(`ThreadingHTTPServer`, `api/server.py`). A decision request is authenticated, counted
against its tenant's rate, validated, asked of up to five partners in parallel, turned
into features, scored, assessed for affordability, put through the policy rules and
written to one SQLite file in several separately committed steps. All request
threads share one SQLite connection, one lock around each write, one circuit breaker
per partner, one rate-limit table, one table of failed sign-ins and one list of revoked
tokens. Beside the server, programs under `model/` build the scorecard it loads and
propose its cut-offs.

| Component | Keeps | Operations | Correct if |
|---|---|---|---|
| Audit ledger, `core/ledger.py` | per tenant a hash-chained table of events | `record`, `verify_chain`, `audit_trail` | the chain survives threads, failing statements and crashes; receipts are honoured; a report of the chain can be relied on |
| Decision ledger, `core/ledger.py` | decisions, billing events, idempotency keys | `store_decision`, `meter`, `remember_idempotency`, `replay`, `get_decision`, `reconcile`, `usage` | nothing is billed without a decision; what was answered is stored, billed and audited; leaks are found |
| Pipeline, `core/pipeline.py` | nothing of its own | `retrieve`, `decide`, `_apply_degradation`, `run` | missing data never passes for good data; the writes happen in the order that makes failures harmless |
| Decision engine, `core/decision.py` | nothing | eligibility, rules, three gates, counteroffer | precedence holds, offers are affordable and saleable |
| Affordability and money, `core/affordability.py`, `core/money.py` | nothing | `assess`, `instalment_for`, `principal_for` | the derived maximum is serviceable after all roundings |
| Features, `core/features.py` | nothing | `compute` | absent data stays absent, blocking features block |
| Scorecard, `core/scorecard.py` | the loaded artefact | `load`, `score` | an applicant is scored in the bin he was trained in; the stated reasons are the worst ones |
| Model training, `model/train_scorecard.py` | the artefact it writes | binning, merging, fit | bins are populated and their bad rates ordered |
| Calibration, `model/calibrate_cutoffs.py` | nothing | curve, recommendation, bands, swap set | the proposed cut-off keeps the appetite, the tables account for everybody |
| Monitoring, `core/monitoring.py` | nothing | `stability_index`, `report` | a shift is reported, no shift is not, too little data is neither |
| Configuration, `core/config.py` | products, tenants, rules | look-ups | the tables are consistently ordered |
| Connectors, `partners/connector.py` | circuit breaker, health counters | `invoke`, `fetch_all`, `health`, `reset` | a failing partner is spared, a recovered one is used again, every call returns |
| HTTP API, `api/server.py` | nothing of its own | `handle`, `decide`, `prequalify`, `batch`, `usage`, login, logout, reads | one decision per idempotency key, errors leave nothing half-told |
| Rate limiter, `api/server.py` | a window and a count per tenant | `_rate_limit` | a minute admits the limit, nobody below it is refused |
| Authentication, `core/auth.py` | failure counts, revoked tokens | `authenticate`, `issue_session`, `validate_session`, `revoke` | wrong passwords lock, lockouts are deserved, who signed out stays out |
| Batch, `core/batch.py` | nothing | `parse`, `run` | every row is accounted for, a rejected one can be sent again |
| Seeding, tools, UI | reports, a page | offline or read-only | - |

How they interact: the API asks authentication who a request is, then the rate limiter,
then calls the pipeline; the pipeline calls the connectors (worker threads, results
over queues), then the pure components in the order features, scorecard,
affordability, decision engine, then the ledger three or more times. A batch calls the
pipeline once per row and writes to the ledger on its own account before and after. `GET /v1/usage`
reads two tables of the ledger while requests write them, `GET /v1/monitoring` compares
stored scores with the artefact's development sample. `demo/seed.py` and a second
server process can open the same file.

What is hard here: the chain's read-then-insert, the open transaction that no
caller rolls back, the gaps between the pipeline's commits, the gap between
looking an idempotency key up and storing it, a batch and the API sharing one
transaction, a clock and a failure count that are read before the lock under which
they are used, calls that end after the circuit they were admitted by has changed,
partial partner data meeting rules that test for its presence, a rounding chain in money,
binning written twice, and several tables of thresholds that have to be ordered
alike. `PROJECT.json` lists these as hazards at their lines.

## The modules

### Audit trail: AuditLog, AuditChain, AuditTamper, AuditProofs

`AuditLog` is what the trail promises: per tenant an append-only log, and
receipts that are given only for entries that are in it for good.

`AuditChain` is `Ledger.record` and `Ledger.verify_chain`. `rows[t]` is what a
SELECT on the shared connection sees, `durable[t]` how much of it is committed, `lock`
is `Ledger._lock`. A call is `Acquire`, `Select` (lines 136-142), `Insert`
(144-160) and `Commit` (161); `InsertFails` and `CommitFails` leave through the exception,
with the transaction either still open or rolled back by SQLite
(`AfterError`); `OtherWrite` is a write of any other table, whose commit takes pending
audit rows along; `Crash` restarts on the committed rows. A hash is represented
by what it commits to, so equal hashes mean equal histories: SHA-256 is taken to
be injective.

`verify_chain` ends in one of three ways: intact, a broken row with its number
(`ReportsBreak`, `BrokenAt`), or an exception, because `json.loads` (197) does not accept
that row's payload and the caller is answered 500 (`Raises`).

`AuditTamper` adds somebody who edits the file with other tools while the server
runs, as `tests/test_phase3.py` does: rows are altered, garbled (the payload is no
JSON any more), deleted, or rehashed (altered, and the unkeyed hash recomputed). Not
modelled are edits of the sequence and hash columns alone, and an editor who
rewrites the hashes of all later rows too, whom nothing in the ledger could tell.

### Decision calls: DecisionService, Reconciliation, Batch and their MC and proof modules

`DecisionService` is `POST /v1/applications/decision`: look-up of the key
(`Lookup`, `Fetch`), the decision (`Decide`, no ledger access), then one `Write` and
one `Commit` per row in the code's order: decision, billing event, one event per
partner that answered in any order, audit row, key. Any write may fail
(`WriteFails`) and the process may die (`Crash`). A row is identified by its
table and the call that caused it, since decision ids are fresh UUIDs.

`Reconciliation` adds `GET /v1/usage`: `Ledger.usage` and `Ledger.reconcile`, three
SELECTs without a lock (`ReadUsage`, `ReadDecisions`, `ReadMeters`), running beside
those calls.

`Batch` adds `POST /v1/batches`: `Receive` is `parse` with what `_coerce` makes of
a cell (`Shapes`, `Verdict`), `Record` and `RecordFails` are the batch's own two
audit rows and its billing event, `BeginRow`, `RowRaises` and `EndRow` the loop of
`run`. The decision of a row is a call of `DecisionService` without a key, in the
batch's thread; API requests run beside it on the same connection, so that either
commits or rolls back what the other has left open (`RequestStep`, `BatchCrash`).

### Who may do how much: Clock, RateLimiter, AuthService, Access and their proofs

`Clock` is `time.time()` in minutes. `RateLimiter` is `_rate_limit`: `ReadClock`
outside the lock, `Count` inside it, so a delayed request may put an older window
back. `AuthService` is `authenticate` in its two locked blocks with the hashing in
between (`Check`, `Conclude`), sessions with their expiry, `revoke` with its
bounded list, and restarts with and without a configured signing key. `Access` is
`Api.handle` up to the handler, composed of both: every request is a thread that
passes authentication, rate limit and permission, and signs in, works or signs out. It
carries a token, an API key, both or neither (`Credentials`). The token is any string,
issued by a sign-in or not; one that opens no session leaves the request to its API key
(`CallerOf`), and `Logout` revokes the string all the same. `Asked` bounds the requests TLC
tries; the proofs hold for any.

### Connectors: Connector, ConnectorLoad, ConnectorProofs

`Connector` is one circuit breaker and the callers inside `invoke()`: each
method of the breaker is one step under its lock, everything between is
interleaved. Reading the state has an effect, as in the code: it half-opens a
circuit that has cooled down. The partner goes down and comes back at any time.
`ConnectorLoad` adds two histories the code does not keep, the attempts sent in the
present cooldown period and the time since the last recorded failure, in order to say
what the breaker is for.

### Decisioning: Money, Affordability, DecisionEngine, Pipeline, MCPipeline, PipelineProofs

Pure operators in three layers and a small state machine above them.

* `Money`: `instalment_for` and `principal_for` in whole ngwee. The annuity
  factor is a fraction. `up` and `down` model the 28-digit quotient falling on the other
  side of an exact value. This is not hypothetical: at 0.60 a year over 3
  months `instalment_for(252.20)` is 92.62 where the exact value is 92.61.
* `Affordability`: `assess()`, both capacity tests and the reasons.
* `DecisionEngine`: the mandatory features with their clamp, the rules of `config.py`
  as predicates by reason code, the precedence of their kinds, the three
  gates of `decide()`, the counteroffer, grade, price and final decision.
* `Pipeline`: `Submit`, `Retrieve` (any partner may fail; payroll is asked only
  with an employer), `Conclude` (features, score, affordability, decision and
  degradation policy: one step, because it touches nothing shared) and `Done`.

`Intake` says which applications exist: those that the API's validation or a
batch row lets through, in whole ngwee. Their amounts, debts, expenses and numbers of
dependants are natural numbers. (The API does not check the signs of the last three,
and a negative one would add to the capacity; the properties speak of
applications without such figures.)

### The scorecard's life: Samples, Binning, Scorecard, Cutoffs, Monitoring, ModelLifecycle and its proofs

`Samples` holds what the statistics have in common: counts, positions,
interpolated quantiles. `Binning` is the binning of `train_scorecard.py`, one pass of
the merging loop per step. `Scorecard` is `core/scorecard.py`: segment, bin, points,
reason codes. `Cutoffs` is `calibrate_cutoffs.py` and `Monitoring` is
`core/monitoring.py`. `ModelLifecycle` composes them: the card that was trained on a sample is
deployed and then scores one applicant, has its cut-off calibrated, or is monitored.

Data is abstracted as follows. A bin's weight of evidence is the number of bins it is
better than, and a coefficient the points one rank is worth; all
characteristics are binned on the same sample. Edges are kept in units in which
quantiles are whole, so their rounding to four decimals is left out. Bad rates of bins are
rounded, half to even, to `1/BadRateUnit` (10^6 in the code); rounded rates that differ do so
by a unit, which makes the code's tolerance of 1e-9, there for floating point, needless. The rates of
the calibration are rounded half up to `1/RateUnit`. The index's logarithm is bounded from both sides
by rational functions, and the status is any that the bounds leave open.

## The runs

| Run | Question | Bounds |
|---|---|---|
| `audit_chain` | does every trail stay a verifiable, gap-free, append-only chain, implementing `AuditLog`, and does the lock come back? | 2 tenants, 2 threads, 2 events, 2 rows each; failures and crashes unbounded |
| `audit_tamper` | does "intact" vouch for every row, and does a break name the right row? | 1 tenant, 2 threads, 3 rows, 2 edits of 4 kinds |
| `decision_replay` | is what a POST returned settled, do replays agree, does a client that waits get one decision per key? | 4 calls, 2 tenants, 1 key, 1 failing write, 1 crash |
| `decision_same_key` | violated: is a repeated key never billed twice? | 2 calls |
| `batch` | is a completed batch accounted for, do rejects leave nothing, does everything end? | 2 rows, 1 API call, 1 partner, 1 key, 2 failing writes, 1 crash |
| `reconciliation` | is the verdict exact, are reported leaks real? | 3 calls, 3 correlation ids, 1 failure, 1 crash |
| `connector` | do state and count agree, is the partner spared, is the cooldown whole, does the circuit close again, do calls return? | 2 callers, threshold 2, 2 attempts, cooldown 2 |
| `access` | does a minute admit the limit and refuse nobody below it, do wrong passwords lock and only they, does who signed out stay out? | 4 requests: sign-ins, sign-outs with a token, 1 made-up string or nothing beside an API key, work with a token beside it; 2 tenants, 1 user without the permission to work, limit 1, lock after 2, for 2 minutes; sessions of 1 minute, 1 kept revocation, 3 minutes, 1 restart |
| `decisioning` | are offers affordable, approvals evidenced, hard declines final, better scores never worse off, prequalifications kept? | 120 + 13 applicants, 3 tenants, up to 2 partners out of the ordinary, 3 override sets, 5 scores, 2 grades |
| `decisioning_minors` | violated: is nobody under 18 approved? | as above |
| `decisioning_outage` | violated: is a failed fraud check handled or marked? | as above |
| `scorecard` | are bins sound, do training and serving agree, are reasons the worst, is the cut-off within appetite, is drift read right? | about 2,000 samples of 5 values, 5 initial bins, at least 3, bad rates in tenths; 3 characteristics, one of them the bureau's; 4 kinds of later applicants with up to 3 (calibration) or 4 (monitoring) each |

Why the bounds are enough. Two threads or calls are what a race needs; three rows give
a middle one, and two edits let one hide the other. Four calls let a replay, its original,
a rival with the same key and another tenant's call overlap. A second failing write
can meet the open transaction of the first, and a batch of two rows has a row that
waits while another fails. In `access` a lock takes two wrong attempts, which can overlap,
a third to be refused and a fourth to work or sign out meanwhile; three minutes let a
lockout of two end and a request be delayed by two windows; one kept revocation
makes the second one overflow the list, be it of a token or of the made-up string. Two connector attempts and a threshold of two
let a call that was admitted before a trip fail, and retry, after it. In
`decisioning` amounts run from 8 to 40 in steps of 5, so that rounding to the increment,
the product's minimum that is no multiple of it, both constraints as the binding one, exact hits and
every edge of age, amount and tenor occur; two partners out of the ordinary
cover every pair of causes. In `scorecard` the samples have empty, small, badly ordered and
tied bins and with or without missing values, and the later samples every combination
of those, down to none. Symmetry is used only in runs whose properties it leaves sound: none
of them has a liveness property.

`CHECK_DEADLOCK FALSE` is set where all requests may have ended.

### What the violated properties show

* `BilledOncePerKey`: the key is looked up before and stored after the decision,
  with nothing held in between; two concurrent requests with one key both decide
  and are both billed (`api/server.py:22-23` promises otherwise).
* `MinorsNotApproved`: `features.py:329` raises an age below 18 to 18 before rule
  R-AGE-01 (`age < 18`) reads it. The rule can never match.
* `FraudOutageIsHandled`: a failed fraud (or AML) check becomes an empty object;
  no rule fires and the approval carries no mark.

### Seen while modelling, without a run of their own

Ledger and decision calls:

* Deleting the newest rows of a trail leaves a shorter intact chain
  (`ledger.py:12-14` says every edit shows). `IntactMeansRecorded` says what "intact" does vouch for.
* `docs/RUNBOOK.md:82-85` says of rows "altered or deleted" that "the reported sequence number is
  where tampering began". Behind a deleted row `verify_chain` stops at the next one, which
  nobody touched, and reports its number (`ledger.py:202`). `BreakIsAtTheEdit` says what the number
  does mean for each kind of edit.
* The hashes have no key: a last row that is altered together with its hash passes for
  intact, and stays so unless the row recorded next already carries the old hash.
* A payload that is no JSON any more makes `verify_chain` raise (`ledger.py:197`): `GET /v1/audit/verify`
  answers 500, where `docs/RUNBOOK.md:79-80` leads an operator to expect `intact: false` and a number.
* `reconcile` compares sets of correlation ids that clients choose: one billed decision hides an
  unbilled one with the same id (`ledger.py:18-20`). `VerdictIsExact` therefore asks for distinct ids.
* The process can die between the pipeline's commits; the decision is then stored and
  served but not billed or audited (`pipeline.py:20-21`). `reconcile` finds the
  missing invoice line; nothing finds the audit row.
* Look-ups read uncommitted rows: when the commit of a key fails, a replay may have
  answered from it before another decision takes the key. `ReplaysAgree` asks that nothing failed.
* A replay returns the stored payload for the internal audience.

Batch:

* `int(float("inf"))` raises `OverflowError`, which `_coerce` (`batch.py:126`) does not catch: the
  whole file is answered with 500 (`batch.py:195`: "a bad row must not stop the file").
* A row whose decision was stored, and perhaps billed, before a later write failed is
  listed as rejected; sent again, it is decided twice. `RejectsLeaveNothing` asks that nothing failed.
* `reconciled` is computed and reported but nothing acts on it (`batch.py:15-17`).
* A processed row is billed as an APPLICATION_DECISION of its own and again in the quantity of the batch's
  BATCH_SCORE. Rows with the same row id share a correlation id.

Rate limit and sign-in:

* A request that read the clock before a minute ended and counts after it puts the old
  window back and the new one's count is forgotten; `AdmittedWithinLimit` therefore
  allows the limit once per time a count started over.
* Wrong attempts that overlap write the same count, so more of them than the maximum can be made before
  the lock; `WrongPasswordsLock` counts those that did not overlap.
* The sign-out that overflows the revocation list clears the list, its own token included.
* `logout` revokes whatever string was sent as a token, also when the request passes by its API
  key: expired and made-up strings fill the list of 10,000 too, and when it is cleared,
  tokens that were signed out and have not expired are accepted again (`auth.py:242` says "tokens expire
  anyway"). `SignedOutStaysOut` holds up to that many strings of any kind.
* A restart with a configured `DEMO_SECRET_KEY` forgets sign-outs; with a random key all sessions end.

Connectors and decisioning:

* A late success closes an OPEN circuit before its cooldown is over
  (`docs/RUNBOOK.md:38` describes only the half-open way back).
* `_apply_degradation`'s "refer" branch is never taken: without the bureau's answer the
  thin-file rule has referred already. Were it taken, the referral would keep
  its offer (`NoOfferUnlessApproved` rests on this).
* `decision.py:46-48` says verification failures outrank credit declines;
  `_KIND_PRECEDENCE` puts hard declines first.
* `config.py:68` says a soft decline applies "unless a referral rule fires
  first"; referrals come last and never do.
* `dq_policy` ("block" or "flag") is passed to `features.compute` and not used.
* `existing_dsr` is defined on verified income (`features.py:122`) and computed on the declared one.
* A payroll record's income is used even if the record is not verified.

Scorecard, calibration, monitoring:

* Calibration compares rounded rates: the recommended cut-off can exceed the appetite by half a
  unit of rounding (`RecommendedWithinAppetite` allows it).
* `monitoring.report` is never given outcomes, so its overall status is that of the stability index;
  with outcomes it could read STABLE over an index of UNKNOWN.
* Business that scores below the whole reference can stay unseen when ties collapse the lowest
  band; `DriftReadsTrue` claims a breach for the upward shift only.
* A thin file gets `NO_BUREAU_RECORD` on top of the `max_reasons` others.
* Merging stops at the minimum number of bins, with a warning, although rates may still go up
  and down and bins be small (`train_scorecard.py:149-158`); `docs/MODEL_CARD.md:88-89` promises
  both without that condition. `BinsAreSound` makes it.
* The neutral weight of evidence is taken over all bins, the one of missing values included.
* A characteristic kept with the wrong sign, because three or fewer were left, gives a reason only for
  a bin the development sample has nobody in, and then out of order.

## Fairness

* `AuditChain`, `DecisionService`: weak fairness of every thread's own steps. A
  thread that waits for `Ledger._lock` gets it eventually; the steps of a call
  are enabled whenever the lock is free, and the bounds on calls and failures
  make weak fairness enough. Nobody is obliged to send a request, and no failure
  or crash is obliged to happen.
* `Batch`: weak fairness of the batch's thread (`BatchStep`) and of each request's
  (`RequestStep(c)`), for the same reason; nobody is obliged to send a file.
* `Connector`: weak fairness of each caller inside `invoke()` (timeouts bound every attempt),
  of the clock, and, for `ClosesAfterRecovery` only, of some caller entering: the
  breaker has no timer, so without traffic or polling an open circuit stays open.
* `Access` and `ModelLifecycle` state safety only and need none.

## What is proved

For any tenants, threads, events, calls, files, callers, thresholds, limits, products,
price tables, applicants and partner answers that satisfy the modules' named assumptions.

**AuditProofs**, the trail. `IInv` is the inductive invariant: the types; every
trail is linked (each row's number, previous and own hash are those of its
position); whoever is not idle holds the lock; the link a thread computed with its SELECT
is still the right one when it inserts; the row it inserted is still in place when it commits; every receipt is covered by the committed prefix. That an INSERT extends
the chain depends on the SELECT being fresh, which depends on the lock; the chain alone is not
inductive. From it: `TypeCorrect`, `TrailStaysSound` (the chain is intact, its numbering has no
gap, UNIQUE never rejects a row), `ReceiptsAreHonoured`, `CommittedRowsStay` and
`ImplementsTheLog` (the refinement of `AuditLog`). The bound `MaxRows` may be any number.

**AuditProofs**, edits of the file. `TamperInv` rests on `IInv` of the chain only through its types and the
lock, because an edited trail is no longer linked. In its place: the hash in every row is
that of what `record()`, or an editor who recomputed it, sealed there, whatever the row says now (`Honest`); a trail
without an edit is whole (`UneditedIsIntact`); and after one edit at most one row is broken, the altered or garbled
one or the one behind a deleted or rehashed one, and the row
inserted next does not mend it (`OneEditOneBreak`), even when the thread that inserts it has read
its link before the edit. What `verify_chain` reports is the least row that is wrong, and a least one exists
(`WellFoundedInduction`). From it: `GoodReportsAreTrue`, `BadReportsPointAtTheEdit` and
`UneditedTrailsAreIntact`.

**DecisionServiceProofs.** `ServiceInv`: the writes a call still has to make are in
order, whatever the connection sees of a decision has its predecessors on disk
(`Prepared`, `Backed`), a call that writes holds the lock and its row is in place, and what is
returned, or about to be, is settled (`CallReady`). That a row's predecessors are on *disk*, not
only visible, is what makes a rollback harmless, and it is why one commit per row
is enough for `AnsweredIsSettled` and `NothingWithoutItsDecision`. `KeyInv` adds what is known
of keys: a key is remembered for one decision, calls that have not written have left no
row, and of two calls that are never under way together with one key, one finds the other's key row
when it looks up. From them: `ServiceTypeCorrect`, `AnswersAreSettled`,
`NothingLacksItsDecision`, `ReplaysStayInAgreement`, `SerialKeysDecideOnce`,
`AllWorkIsBilledAndAudited`.

**ReconciliationProofs.** The reads change nothing for the service, so both invariants hold
beside them. `VerdictsAreExact` is then set algebra: a billing event has its decision, and
distinct ids make "not among the metered ids" the same as "not metered". `ReportsAreReal` needs
`ReaderInv`: as long as nothing fails, what was summed up is covered by decisions that
can be read, and what was read stays. It assumes that `Calls` is finite.

**BatchProofs.** The batch's steps keep `ServiceInv`: its commit only moves what is visible
to disk, and its failure needs the lock to be free, when nobody's row is unfinished. `BatchInv`: rows still
to do, processed and rejected are the submitted ones, each once; rows that were not begun
are new; a row that did not reach its first write has left nothing; the batch's three
rows rest on each other in order. From them: `CompletedBatchesAreAccounted`,
`RejectsHaveLeftNothing`, `BatchesLackNoDecision`, for files of any length.

**AccessProofs.** The limiter alone keeps `AdmittedWithinLimit` and
`NobodyRefusedEarly`: a minute later than the stored window has been admitted at most the limit for
every count it lost, the stored one its count on top of that, an earlier one at most
once the limit on top of that. `AccessLimitsRates` shows that every behaviour of `Access`, whoever signs in
and out, is a behaviour of the limiter, which carries both properties over
(`RateIsLimited`, `NobodyIsRefusedEarly`).

For sign-in, `LockInv`: every count, stored or in the hands of a thread that hashes, is covered by
wrong passwords given for the account, and a lock by as many as lock it; where sign-ins did not
overlap, the stored count is the number of wrong passwords in a row. From it:
`WrongPasswordsDoLock`, `LockoutsAreProvoked`. For sessions, `SessionInv`: as long as no more
strings of whatever kind were sent to sign-outs than the list holds, each of them is on it or, if it is a token, its
signing key is gone: `SignedOutNeverReturns`.

**ConnectorProofs.** `BreakerInv` adds to the types and the agreement of state and count
that a caller that pauses has attempts left. `LoadInv` relates each caller's load to
its step and attempt, and the cooldown's age to the time since the last failure. From
them: `BreakerIsConsistent`, `FailingPartnerIsSpared`, `CooldownNeverCutShort`.

**PipelineProofs.** Arithmetic first: division, the ceiling as the least cover,
the annuity's inverse as a floor. `AllowedPrincipalIsServiceable`: a principal not above
`PrincipalFor(i)` has an instalment not above `i`, unless it is an exact hit
whose digits fall above. `RoundedIsOfferable` and `InstalmentIsMonotone` carry
this through the rounding. `PipelineInv` says that a decision is always the
one that follows from the request, the partner results and the score. From it:
`OffersAreSound`, `OffersAreApproved`, `HardDeclinesStand`, `ApprovalsAreEvidenced`.

Two theorems compare decisions. At a keener factor the instalment of a principal is no higher
(`KeenerInstalment`) and the principal of an instalment no lower (`KeenerPrincipal`), even
where the digits of one factor fall on the other side of an exact hit; a better score has a
grade no worse (`GradeImproves`: a score lies in one band only), and rounding keeps the order (`RoundingIsMonotone`). From them:
`BetterScoresKeepOffers` and `PrequalificationIsHonoured`. They use `PricingAssumption`, that a
worse grade is priced strictly higher, as in every shipped product, and the first also `BandsAssumption`, that
the grades' bands cover the scores and do not overlap, as `tests/test_phase1.py:264` asserts of every tenant.

`OffersAreSound` uses the assumption `ExactHitsAreNotOffered`. The
shipped products meet it: the only rate with such factors in reach is 0.60 over 3
months, whose exact hits are the multiples of 252.20; none of those up to
25,000 is a multiple of the increment 50. A requested amount needs no
assumption, as its instalment is computed once and compared.

**ModelLifecycleProofs.** Sums over samples and sorted lists are data, for which the provers
have no induction. The smallest counterexample takes its place: among the subsets of a finite
set for which a claim fails there is a smallest one (`SmallestSet`, from
`WellFoundedInduction`), and it cannot fail there if taking out one member keeps the claim. That
gives the sum's laws (`TotalWithout`, `TotalSplits`, `TotalOfImages`), the positions of a sample
(`NthIsThere`), the bounds of a quantile and the members of a sorted list (`AscendingAscends`,
`AscendingCovers`).

`TrainingInv`: the edges ascend; while bins are merged their number does not fall below the
minimum; what is left when training ends is populated and runs in one direction. Removing an
edge keeps the order, and with sorted edges counting the edges below a value (`_assign`) and
finding the first that is not below it (`bin_for`) are the same. From it: `BinningIsSound` and
`TrainedAsServed`.

`LifeInv` adds what was computed from which population: `AppetiteIsKept` (the least
suitable cut-off of the grid, and what a rounded rate says of the exact one),
`EveryoneIsCounted` (a sum over bands of sums over scores, each score in one band) and
`DriftIsRead` (equal proportions make every term of the index zero; a population above all
reference edges has its only share where the reference has its least). For `ReasonsAreWorst`,
loss and then position order the reportable characteristics, so that each has one place
(`PlacesInOrder`); a characteristic of the right sign loses what another value would gain, one
of the wrong sign no more than that (`LossAndGain`).

Assumed of the constants: values and kinds of applicants are finitely many, counts are whole,
no value is the missing one, the two notes a score can carry are not names of characteristics,
and the least marginal population and the number of bands that can be read are at least 1 and 2.

### Only model-checked

Liveness (`LockIsReleased`, `EverythingEnds`, `ClosesAfterRecovery`,
`EveryInvokeReturns`) is out of the prover's reach, and so is what a recursive definition
computes for every input. Every safety property of the runs is also a theorem.

## Not modelled, and why

* The logistic fit, information value, collinearity, sign check and performance metrics of training,
  the shape of synthetic data: floating-point results without a decision that depends on order or
  failure. Boolean characteristics, whose one edge is fixed. Expected calibration, counts and
  latencies of the monitoring report.
* The decision engine takes any score; it is not composed with `Scorecard`. A degraded
  decision differs in its confidence label alone, which is left out.
* `run()`: the pipeline without retrieval and ledger. Income verified by
  transactions exists only there; `Platform.decide` never supplies it.
* Fees, total cost, expiry dates, traces, confidence and telemetry: they
  report and decide nothing.
* Worker threads, abandoned attempts and the health counters of the connectors
  (`connector.py:113`): the counters are only reported.
* A second process, or the seeder, on one ledger file (`seed.py:104`, `ledger.py:154`).
* Conformance and traceability tools, the console and demos: no state of the platform.
* Batch rows with a negative tenor: `instalment_for` raises and the row is rejected (`RowRaises`).
* Another caller tripping the circuit between a caller's `allows()` and its first attempt
  (`connector.py:191,206`): `Enter` is both. The attempt would be sent all the same, as the retries of an
  admitted call are.
* An exception of `Platform.decide` in an API call before its first write (`server.py:531-538`, 500): it
  leaves nothing behind; for batch rows, where it counts, it is `RowRaises`.
* Password hashing and token signing: yes or no.

## Plan

Done, in this order: the audit chain and its refinement, decision calls and reconciliation,
the circuit breaker, the decisioning chain; then rate limit and sign-in, batches, usage reports
and the scorecard's life, with proofs for all of them.

Left, should the project go on:

1. `ConnectorWorkers`: worker threads, abandoned attempts and their late
   answers, health counters, composed with `Connector`.
2. `SharedLedgerFile`: two processes, or the seeder, on one file.
