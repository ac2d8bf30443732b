# Formal models of the risk-monitoring platform

TLA+ models of the parts of this repository whose correctness depends on the
order in which things happen, with TLC runs on small instances and TLAPS
proofs for all instances. Paths are relative to the repository; unless they
start with another directory, to `src/cert_ra/`.

    tlc -config Dispatch.cfg NotificationDispatch.tla    a run
    tlapm NotificationDispatchProofs.tla                 a proof module

## The system

Collectors (Temporal workflows of the `metrics` worker) store measurements of
chains, tokens and lending markets in PostgreSQL. The API (Litestar) shows
them and keeps users, teams, dashboards and alert rules. The `alerts` worker
evaluates the rules on the latest measurements every 30 seconds, writes a
history row for every edge and queues one notification per edge and channel;
every 15 seconds a second workflow of the same worker sends what is queued.
The parts share the database and nothing else: there are no calls between the
API and the workers.

| part | state | operations | what is hard about it |
|---|---|---|---|
| alert configuration (`api/domain/alerts`) | `alert`, `team_alert_override`, `alert_integration`, link table | create, update, delete, override | read by the evaluator in pieces and written in between; cascades |
| evaluator (`alerts/workflows.py`, `alerts/activities.py`) | `alert_history`, what a run has loaded | seven activities in a row | two commits per tick, retried activities, stale reads, the edge is derived from the log itself |
| dispatcher (same files) | `notification` | claim, dispatch, mark | at-least-once delivery, failed runs between claim and mark, rows that never succeed |
| value sources (`alerts/_value_sources.py`) | none | latest value, series | age of a snapshot against the collector's interval |
| metrics worker (`metrics/`) | one table per metric | fetch, store | schedules, retries; values are I/O and arithmetic |
| market collector and scorer (`metrics/market`) | snapshots, scores | list, collect, score in bounded batches | a score is two transactions; attempts that are late commit beside the next; one market's failure must not touch others |
| weighting profiles (`api/domain/weighting_profiles`, admin panel) | profiles and entries | resolve, create, update, delete | precedence; header and entries are read in two statements |
| teams (`api/domain/teams`, admin panel) | members, owner flag, roles, accounts without a team | add, remove, transfer, change role, delete a team, make and delete accounts | one owner per team, and the purge of orphans, under concurrent requests and two code paths |
| invitations and onboarding (`lib/invitations.py`, `api/domain/teams`) | invitations, activation | issue, accept, decline, cancel, expire, activate by password or by OIDC | single use; accept against cancel; two ways to the same row |
| lockout, MFA attempts (`lib/auth_lockout.py`, `lib/mfa_attempts.py`) | failure counters per user and address, attempts, recovery codes | fail, succeed, lock, unlock, verify | read-compare-write under concurrency, window against duration, two conditional claims in one transaction |
| links, e-mail tokens, resets | single-use tokens | issue, claim, strike, expire | check, slow password check, then claim |
| SSO and provider enforcement | the account's one link, pending switches | sign in, link, unlink, start and complete a switch, enforce | an account must keep a way in while links and passwords replace each other |
| dashboards and favorites | pages, one default per user | create, update, delete, promote | the default moves in two steps |
| manual metrics, tags, reports, market configuration | rows | create, update, delete, publish | single-row operations |
| web pages, front end, migrations, infrastructure, rating tool | - | - | no state of interest, or calls of outside services |

`PROJECT.json` has one entry per part with its status, and the list of hazards
with the line each one bites at.

## The modules

| module | models |
|---|---|
| `DeliveryQueue` | what a delivery queue promises: sent at least once before it says so, settled for good. Abstract specification. |
| `NotificationDispatch` | the dispatcher workflow and its four activities over `notification`; implements `DeliveryQueue`. |
| `AlertRules` | the decision of `evaluate_rules` for one rule. |
| `AlertConfig` | the three configuration tables, the API handlers that write them, and what `load_enabled_rules` reads out of them. |
| `AlertEvaluator` | the evaluator workflow over `AlertConfig`, the history and the queue, with the handlers running between any two of its steps. |
| `AlertCadence` | one rule and its collector's interval against `MAX_SNAPSHOT_AGE`. |
| `ConfiguredCadence` | `AlertConfig` and `AlertCadence` together: a rule that is edited, disabled, deleted and opted out of while it is evaluated. |
| `MarketPd` | `compute_market_pd`: a market's probability of default from reports, weights and manual metrics, in exact fractions. |
| `MarketScorer` | the collector and scorer workflows, their activities and late attempts, the default weighting profiles and the operators who change them; uses `MarketPd`. |
| `Teams` | teams, members, ownership, invitations, and the purge of accounts without a team, as transactions that overlap. |
| `Credentials` | one account's password, link and tokens: activation, reset, link confirmation, switch of providers, enforcement. |
| `SignIn` | one account's failure counters, locks, unlock links, MFA attempts and recovery codes. |
| `*Proofs` | theorems about the module of that name (below). |
| `MC*` | constants for TLC. |

Definitions named "Mutant" in a comment are not part of any specification. Each
is the definition that follows it with a plausible mistake in it, kept to make
sure that the properties notice.

### State and code

`NotificationDispatch`: `status`, `attempts`, `created` are the columns of the
`notification` rows. `pc`, `batch`, `cur`, `tries` are the workflow run: the
activity it is executing, the claimed rows it has not marked yet, the current
one, and the attempt number. `delivered` and `aborted` are history variables
(how often the channel accepted the row; how many claims ended without a mark).
Each activity is an action, and for each activity that writes there is a second
action in which it commits and loses its completion. `RetryOrFail` is the
retry policy: another attempt, or the activity's error fails the whole run,
because `NotificationDispatchWorkflow.run` catches nothing. The evaluator's
insert and the foreign-key cascades are the other writers.

`AlertEvaluator`: `alert`, `override`, `channel` are the configuration tables;
`hist` the history of each (alert, team) in the order of `evaluated_at`;
`notes` the notification rows; `rules`, `reading`, `previous`, `events`,
`rowOf` what the present run has loaded, decided and been given back by
`persist_evaluation_results`. `bad` is the world: the alerts whose predicate
holds of what is measured now. `lost` is a history variable, the events of runs
that failed before their enqueue committed.

`load_enabled_rules` (`alerts/activities.py:129-281`) is a sequence of SELECTs
at READ COMMITTED, each of which sees what is committed by then. Each is an
action: the team alerts, the templates, the override rows, the teams that have
a channel, and for every rule its links and then the team's primary channels.
`found`, `seen` and `todo` are what the activity has read and what it has still
to read; `rules` fills meanwhile. The handlers of the API run between any two
of them, and a failed attempt starts from nothing (`RestartLoad`). `steady` is
a history variable: the rules none of whose rows has changed since the first of
these reads.

`MarketScorer`: `config`, `profile`, `snapshots`, `scores` are tables; a row
with its entries is one record of `profile`, and a snapshot or score is known by
the attempt that made it. `tick` is the workflow (the protocols still to list,
the markets still to run, the batch that runs), `answer` what Temporal knows of
the activity of each market, `work` the attempts that workers are busy with.
Temporal's view and the worker's are apart: `TimeOut` changes `answer` and
leaves the attempt in `work`, from where it may commit later or never.
`StoreSnapshot`, `Resolve` and `Score` are the first transaction of
`score_market_snapshot` and the two reads and the insert of the second.

`Teams`, `Credentials` and `SignIn` share a form. A handler of the API is one
PostgreSQL transaction at READ COMMITTED. `request` holds what each handler in
flight has read; its `Begin` action reads, its last action writes what the
commit makes visible, and where the code reads again in between (a count, a
scan, the counter after the password check) there is an action for that. Row
locks are modelled where a second statement of the same transaction can be
overtaken: an `UPDATE` looks at its rows again, and who wants a row that an
uncommitted transaction deleted waits (`SignIn!Held`). Conditional updates
(`WHERE consumed_at IS NULL`) are guards of the writing action. A handler whose
checks are all repeated by constraints at its commit is one action. A handler
that fails or crashes writes nothing (`Fail`). Rows and tokens are named by the
number of the call that made them.

`Teams!CreateUser` is `create_user` of the operator's panel and of the API: an
account that has no team and never had one. `leavers` is a history variable, the
accounts a membership was taken away from.

### What is left out, and why that is sound

- Contents of rules, targets, channels and messages. A predicate's outcome is an
  input (`bad`); a reading that is missing, stale, or on which the predicate
  raises `ValueError` is "none", since all three take the same branch.
- `load_historical_series` is read in the same step as the snapshot. It has an
  effect only on the predicate's outcome.
- An attempt of an alerts activity that Temporal has given up has taken its
  effect by then or never takes it: these activities are coroutines, which a
  worker cancels within seconds. The market activities run a subprocess for
  minutes; there the model lets late attempts commit.
- Nobody but the evaluator inserts notifications, and nobody writes the link
  table, which is therefore a constant (one link in `evaluator`).
- `ConfiguredCadence` reads all of a rule's configuration in one step, since it
  is about the edges of a single rule.
- A permission check only removes calls; the models allow every caller. A
  rejected call changes nothing and is not an action.
- Who is a superuser, and who authored rows that keep an account, does not
  change in `Teams` (`Superusers`, `Authors`).
- A listing of markets may be partial (`ListMarkets`), but it names a market
  once: `list_protocol_markets` passes on what the yarn program prints, and
  `MarketsAccounted` rests on that program.
- Deleting a team takes its rows in every table. `Teams` models this for the
  members and invitations; the alert modules and `MarketScorer` do not delete
  teams.
- `SUPPRESSED` is not written by any code.
- `evaluate_rules` has no retry policy, so it is retried without limit, and
  writes nothing: its failures are stutters.
- An update of a weighting profile with its entries is one step. Two updates of
  one profile at once may leave the entries of both if the header row is not
  locked (`services.py:200`); the model has one operator at a time.
- Profiles of a team are read by pages only: a scorer resolves without a team.
- `Credentials` has one account, since none of its rows refers to another. Mails
  that only announce something are left out everywhere.
- A passkey's sign counter and the first generation of MFA challenges (kept in
  the session cookie) are not in `SignIn`; the per-address rate limit of
  `auth_lockout.py` only refuses calls.

## The runs

| run | configuration | question |
|---|---|---|
| `dispatch` | `Dispatch.cfg` | do table, deliveries and budget stay consistent under every failure? Is every step one of the abstract queue? Does every row settle, also behind one that keeps raising? |
| `dispatch_budget` | `DispatchBudget.cfg` | is the retry budget the documentation states kept? No. |
| `alert_config` | `AlertConfig.cfg` | do the tables at each instant resolve to channels that are there, do teams leave each other's rules alone, and do edges stay paired while a rule is switched off and on, for snapshots replaced in time, up to the boundary? |
| `evaluator` | `Evaluator.cfg` | are rules that are read in pieces read right, is the history edge-triggered, who hears of an edge, and does the status catch up with the condition, whatever is retried or edited during a tick? |
| `cadence_slow` | `CadenceSlow.cfg` | do edges alternate with the intervals of the throughput metrics? No. |
| `market_scoring` | `MarketScorer.cfg` | what does a tick leave of every market when attempts fail, are late or commit late; which weights does a score use while operators change them; does the tick end? |
| `teams` | `Teams.cfg` | has every team one owner, and is every account that lost its last team purged, when requests overlap? |
| `teams_invitation` | `TeamsInvitation.cfg` | is whoever accepted an invitation in the team? No. |
| `credentials` | `Credentials.cfg` | does a token take effect once, and does an account keep a way in? |
| `credentials_activation` | `CredentialsActivation.cfg` | is `activated_at` equivalent to having a password or a link? No. |
| `sign_in` | `SignIn.cfg` | how far can the counter run past its threshold, is a lock flagged and announced, does a second factor open one session? |
| `sign_in_threshold` | `SignInThreshold.cfg` | is the account locked at the third failure? No. |

### What the runs show

The dispatcher never records SENT for a row that was not accepted, never
touches a settled row, and delivers at most three times per counted attempt.
`attempt_count` itself is not bounded by `MAX_NOTIFICATION_ATTEMPTS`: the
comparison is in `mark_notification_failed`, and a run that fails between claim
and mark never gets there. What holds is `BudgetAccounted`: the excess is the
number of claims that failed runs threw away. A row whose dispatch raises on
every attempt (a secret that cannot be decrypted, a configuration that cannot be
parsed, an exception that is not an `httpx.HTTPError`) does so at every claim,
stays among the oldest rows, and fails the run for the rows behind it until
someone repairs the channel. `EveryRowSettles` holds because the model repairs
it.

The evaluator's history alternates as long as readings are usable. One unusable
reading writes an ERROR row, and the evaluator compares with the latest row of
any status: TRIGGERED, ERROR, TRIGGERED is two alarms for one incident, and
TRIGGERED, ERROR, then a good reading is an alarm that is never called off.
`AlertCadence` shows that this is the normal case for targets collected less
often than `MAX_SNAPSHOT_AGE` (10 minutes): throughput every 30 minutes, market
scores every 6 hours. `EdgesArePaired` proves the condition that avoids it.

What the evaluator loads of a rule is right when none of the rule's own rows
changed while it was loading, whatever changed in the rows of others and however
many attempts came before (`LoadedAsConfigured`). A rule whose rows did change
between two of the reads may be loaded as it never was: an override read before
it was replaced, with the primary channels of afterwards; and a channel the
override named may be deleted by the time the load returns, although the tables
never name a channel that is gone (`NoDanglingChannel`). The enqueue then fails,
for all teams of the tick.

History rows and notifications are two commits of one tick, for all teams at
once. `SilentEdgesAccounted` says exactly when an edge is recorded and nobody
hears of it: the run failed in between. Deleting a channel during the tick is
enough, and the edges of other teams in the same tick are lost with it; they
are not emitted again, because the history already says TRIGGERED. A retried
commit repeats rows, which `db/models/notification.py:27-28` ("One row per
pair") does not expect, but never more often than the retry policy allows
(`RepeatsBounded`), and repeated rows agree, so the edge derived from the
latest one is right (`EdgesAlternate`).

A scorer's tick ends whatever happens to the workers that hold its attempts, as
long as one still polls, and a market is left with its last answer only. A market is scored twice in a tick only when the attempt
that scored it first was given up for being late (`MarketsAccounted`); how many
snapshots without a score the attempts leave behind is not bounded by it. The
two reads of a profile do not tear under one change, unless that change deletes
the profile found or moves it away, which gives the score weights of 1 that no
profile has (`WeightsInForce`); two changes may. With anchor weights up to one
a PD stays within what the table accepts (`PdIsProbability`). A weight above
one, which that property leaves out, can leave it, and is stopped only by the
table: the activity then fails after its snapshot is committed, and every
further attempt adds another snapshot.

A team has one owner who is an admin except in the cases `OwnershipAccounted`
lists: a transfer overlapped another transfer, a removal or a change of role
(each reads before the other commits), or the operator's panel or the deletion
of an account took the owner's row, which neither checks. An account that lost
its last team is purged unless two removals overlapped or it joined a team that
was being deleted (`OrphansAccounted`). Accounts that `create_user` makes
without a team are never purged for it: nothing looks at them. An active
account that is invited to a second team and then signs in with SSO loses the
invitation: `_maybe_claim_invitation` marks it accepted and makes no membership
(`teams_invitation`).

Every token claimed by a conditional update takes effect once
(`ClaimsExclusive`). An activated account keeps a password or a link, except
when an unlink read the password which a link confirmation then removed
(`LoginMethodAccounted`). A password reset of an account that was never
activated leaves `activated_at` NULL beside a password
(`credentials_activation`).

`record_failure` counts in the database and reads the count back through a
session that answers with the object it loaded before: the lock comes one
failure late (`sign_in_threshold`). Overlapping failures add at most one each
(`FailuresBounded`). A lock is flagged and an unused unlock link is in the mail
unless the lock was set while another request was clearing rows
(`LockIsAnnounced`); the throttle of 30 minutes does not break this only because
clearing the rows also resets it. An MFA attempt and a recovery code open one
session (`SecondFactorOnce`).

### Bounds

Retry limits are reduced to 2 (5 and 3 in the code) and
`MAX_NOTIFICATION_ATTEMPTS` to 2 (5): both sides of each comparison are
reached, a limit of 1 would have no retry. Two rows let one hold up the other,
share a batch and be left in it when a run fails; 4 faults exhaust one activity
twice or two activities once.

The proofs remove every bound named in this section for the properties they are
about (below); for the others the bounds are what the runs rest on.

The evaluator has one template, hence a rule for each of two teams and a batch
of two; a channel of each team, the second one linked to the template and so a
receiver of both rules; 2 changes of the condition (met, unmet), one outage,
and one API call at any point of a run, between two reads of its rules as well;
2 faults exhaust the retries of one activity. One call is what splits a load in
a before and an after; alerts of a team, more calls and more channels are in
the proof of `LoadedAsConfigured`. `MaxEdits`, `MaxFaults`, `MaxOutages`,
`MaxChanges` only bound counters in guards. `alert_config` goes through 5 calls
(create, set a channel, delete it, opt out, opt in), with a rule sampled in
units of 2.5 minutes: an interval of 5 minutes and delays up to exactly the
maximum age. `MaxOpen` only has to exceed 1.

`market_scoring` has one protocol with two markets run one after the other
(`Concurrency` 1), so that a late attempt of the first meets the second; 2 of 5
attempts; one tick, since a tick shares nothing with the next but late attempts
and those meet the next attempt already; one change by an operator, which is
what `WeightsInForce` speaks of. The first market has a profile of its own, both
have one of the protocol, a third may be made. Weights 0 to 3 and reports with
valid, invalid and weighted-out anchors reach both sides of every check of
`MarketPd`.

`teams` has two teams that share a member, a third that may be created, three
users, the third of whom gets an account by invitation or from the operator,
two handlers in flight and 3 calls: two that overlap, and one before or after.
`teams_invitation` needs fewer. `credentials` and `sign_in` have two handlers
in flight and 5 calls, enough to issue a token, use it twice at once, and
change the account before and after; `Strikes` and `FailureThreshold` are 2 of
3 (3 in `sign_in_threshold`, which states the number). Time in `SignIn` is
counted in windows of 10 minutes: window and duration are 1, the throttle's 30
minutes are 2 because 3 would never pass within `MaxNow`.

### Fairness

`NotificationDispatch!Fairness` and `WF_evars(Run)` of the evaluator: a run that
can take its next step does so, and the schedule starts the next one. Temporal
keeps both across worker restarts; the schedules skip a tick while a run is
active, which is why one run at a time is modelled. Lost completions, failed
attempts, outages, changes and API calls are never fair and are bounded, so the
liveness properties say what happens once they stop. Broken channels are
repaired when the fault budget is spent: without that, a broken row is never
settled, as `dispatch_budget` shows.

`MarketScorer!FairSpec` asks one thing: Temporal takes a step whenever it can
(the workflow goes on, an attempt is started, an attempt's time passes). An
attempt is started by a worker that polls: the code sets no schedule_to_start
timeout (`metrics/market/workflows.py:161-166`), so some worker must still be
there for the tick to go on. Nothing is asked of the worker that holds an
attempt, which may hang or die for good: `start_to_close_timeout` ends the
attempt without it and `maximum_attempts` ends the retries.

The API modules have no liveness: a user may stop at any point.

## The proofs

Eight modules hold theorems, each for every value of the constants; what they
assume of these is the named `ASSUME` of the module they extend. Every module
follows one line: the properties are not inductive, an invariant (`IInv`, or
several that are proved one after the other) adds what a step has to know, each
group of actions has a lemma that it keeps the invariant, the properties follow
from it, and PTL does the temporal step. The bounds on counters
(`MaxCalls`, `MaxFaults` and so on) are constants too, so the theorems hold
however large they are.

| module | theorems about runs' properties |
|---|---|
| `NotificationDispatchProofs` | `TypeOK`, `SentWasDelivered`, `DeliveriesBounded`, `BudgetAccounted`, `SettledIsFinal`, `ImplementsQueue` |
| `AlertConfigProofs`, `ConfiguredCadenceProofs` | `NoDanglingChannel`, `TeamsAreIndependent`, `EdgesPaired` |
| `AlertEvaluatorProofs` | `TypeOK`, `EdgesAlternate`, `NotesAreEdges`, `AllChannelsOrNone`, `SilentEdgesAccounted`, `RepeatsBounded`, `LoadedAsConfigured` |
| `TeamsProofs` | `TypeOK`, `OwnershipAccounted`, `OrphansAccounted` |
| `CredentialsProofs` | `TypeOK`, `ClaimsExclusive`, `LoginMethodAccounted` |
| `SignInProofs` | `TypeOK`, `SecondFactorOnce`, `FailuresBounded`, `LockIsAnnounced` |
| `MarketScorerProofs` | `TypeOK`, `MarketsAccounted`, `WeightsInForce`, `PdIsProbability`; and `TicksAdvance`, which no run states |

**Dispatcher.** It assumes that the rows are a finite set, that `NoNote` is none
of them and that the limits are positive. `IInv` adds:

- `RunShape`: rows are held only between a claim and their marks.
- `HeldRows`: a held row is RETRYING with an attempt counted; it is SENT or
  FAILED only while the mark that made it so is being repeated. Without this a
  mark could move a settled row, and `SettledIsFinal` would not follow.
- `DeliveryInv`: deliveries made plus dispatch attempts still allowed on the
  present claim (`Unused`) are covered by `attempt_count`. The claim counts an
  attempt and opens `DispatchTries` of them; each dispatch uses one.
- `SentInv`: while the run is about to mark a row as sent, it was delivered.
- `BudgetInv`: a row that can be claimed has budget left or has lost a claim.

`Refinement` shows that the initial state and every step map to `DeliveryQueue`
with the mapping `StateOf`, stutters included.

**Configuration and cadence.** `ConfigInv` adds `OverridesLive` to the types: an
override names a channel that is there. `NoDanglingChannel` speaks of an instant
and not of a load, which takes several; it is only true
because deleting a channel sets these columns to NULL in the same transaction.
`ConfiguredCadenceProofs` shows for all intervals that edges alternate if
`Every + Delay <= MaxAge`; its invariant adds that the status is never ERROR.
It then keeps that while the rule is edited: the handlers
leave history and snapshots alone, except for the deletion that takes the
history along.

**Evaluator.** The invariant is in three layers. The tables alone: `HistInv`
(the rows of one tick are equal, whatever commit they come from, and between
ticks they alternate) and `NoteInv` (a notification points at an edge, and the
other channels of that edge have theirs). What the run holds against the
tables: `RunInv`, with `Follows` as its core, which says that a decided row is
either not written yet and continues the history, or is the row already written
for this tick. That is what makes a repeated
`persist` harmless, and it rests on one run at a time. Who was
told: `ToldInv` and `FaultInv`, by which an edge without notifications is in the
present run's hands or in those of a run that failed for a stated reason.
`LoadInv` says no more of what was read than that it was there once, since it
may have been deleted meanwhile.

On top of these, `SteadyInv` proves `LoadedAsConfigured`. It says of a steady
rule what each variable of the load must hold at each read (`FoundRight`: its
alert is among those found exactly when it is enabled; `ListedRight`: it is
listed exactly when the override and channels admit it; `ChannelsRight`: its
links only, or all its channels). One lemma serves the handlers: what a steady
rule is compared with depends on its own rows, so a change elsewhere cannot
disturb it, and a change in them makes it unsteady. And `RepeatInv` proves
`RepeatsBounded`. The clock of a tick is the place of the first row it may
write, so the rows of a tick lie in an interval that starts there, and the
interval grows by one with every attempt; the notifications of one pair are
fewer than the attempts at the enqueue. Deletions in between only make room.

**Teams.** A row is known by the number of the call that made it (`Taken`,
`Numbered`): no two handlers make a row under one number, so what a handler
read can be compared with what is there at its commit (`Same`: the row, in this
version or a later one). `OwnerInv` says what a handler in flight knows of the
owners of its team. Unless the team is contested or deposed, a transfer is the
only handler in flight that may touch its owner (`Alone`); a change of role or
a removal has not read the owner's row, and a transfer has read the rows of all
owners, as they still are (`KeepsOwner`). `OrphanInv` is about handlers that
have counted the memberships of the accounts they remove: two of them that
share an account have marked it as spared, an account that lost a membership
and is still there has another or is excused (`leavers`), and an account that a
handler found to have another team still has a row there which the handler
leaves alone (`Kept`). Both hold for any number of handlers in flight, not only
for the two of the run.

**Credentials.** `TokenInv` says of each token what it may have done by now:
nothing if it was not made, one effect if it is consumed, none after its last
strike. `ReadInv` says that a request in flight holds a token of the kind its
handler claims, so the conditional update is what decides between two of them.
`AccountInv` counts activations and lets a link go only if there is a password
or the account was overtaken (`stripped`).

**Sign-in.** `FreshInv`: the number of a call belongs to one request, and
nothing has been made under it before that request's commit, so that no commit
reopens an attempt that was used. `CountInv`: a counter that is not locked has
room for every request that has read it and will not lock (`Stale`); the bound
of `FailuresBounded` is this at the last of them. `AnnounceInv`: a request that
clears rows has every lock among those it read (`Sweeps`), unless one was set
beside it.

**Scorer.** `IdInv` relates Temporal's view and the workers': an attempt is made
once, and one that was not given up is the one Temporal waits for. `ScoreInv`
then says that a score from such an attempt is the market's answer and no
attempt was started after it. `ReadInv` follows a scorer between its two reads:
until something changes, the profile it found is one that would be found again;
after one change the weights are those in force before or after. The proof
needs the greatest `updated_at` of a set of rows to exist, which is
`WellFoundedInduction`'s minimum turned round. `SizeInv` has the types, with the
batch that never exceeds `Concurrency`. Assumed: the markets of two protocols
are different and finitely many.

`PdIsProbability` is about all reports, published metrics and non-negative
weights, whatever their length and size, except that anchors weigh at most 1
(`InputsAssumption` says that what is reported is numbers, of any sign). It
needs an induction over the factors of a product. The library's induction
theorems take an operator and cannot be used; `Reached` is the same principle
about a set, from the minimum of `WellFoundedInduction`. With it,
`PartialProducts` shows that the recursive function in `ProductOf` exists, and
`ProductGrows` that a product of valid anchors stays below as many wholes.

`TicksAdvance` is the half of `TickEnds` that needs no fairness. A tick goes
through its stages in one direction, lists each protocol once, runs every market
in one batch, and begins and ends a bounded number of attempts at it; every step
of Temporal moves one of these on, and no step of a worker or an operator moves
one back.

**Only model-checked.** The liveness properties `EveryRowSettles`,
`MetConditionIsReported`, `UnmetConditionClears` and `TickEnds`: fairness and
ENABLED are out of the prover's reach. Every invariant and action property of
the passing runs is a theorem. The violations are counterexamples and need no
proof.

## Not modelled

Most of the repository is not in the models, because it has no behaviour over
several steps that a model could get wrong:

- Web pages, schemas, mail texts and the React front end are presentation.
- Dashboards, favorites, manual metrics, tags, reports and market configuration
  are rows that one request writes and one request reads.
- The list, filter and detail handlers of the controllers, which are the larger
  part of them, read only.
- Collectors, value sources and the rating program are queries of chains and
  services followed by arithmetic. Of the arithmetic only a market's PD is
  modelled, because its checks bound what a table accepts.
- The predicates of alert rules compare floating-point numbers; their outcome
  is an input of the evaluator.
- Migrations and infrastructure run outside the program. The constraints and
  cascades the models rely on are taken from `db/models`.
- The exchange with identity providers: what the callback does once it is
  answered is in `Credentials`, the protocol, its keys and claims are not.
- `workflows/cleanup.py` deletes expired rows, which the models treat as
  unusable already; no worker registers it.

Three hazards have no property: the cut of the series for a rate of change,
the tokens of the old reset link, which are consumed without a condition on
what was read, and two replacements of one profile's entries at once. The last
depends on whether a library call writes the header row. Two hazards of the
scorer are covered in part only, as their notes say: the snapshots that retries
leave behind, and weights above one. `TeamsAreIndependent` belongs to no hazard:
it needs no interleaving, only that a call writes rows of its own team.

What would come next: evaluator and dispatcher as one specification, with the
evaluator's notifications as the dispatcher's rows (each now sees the other as
an environment); the account and team models together, for the deletion of a
team under an enforced provider.
