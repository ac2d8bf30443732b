---------------------------- MODULE MarketScorer ----------------------------
(***************************************************************************)
(* MarketCollectorWorkflow and MarketScorerWorkflow, the weighting         *)
(* profiles a score is computed with, and the operators who change both.   *)
(*                                                                         *)
(* A tick loads the enabled protocols, lists their markets one protocol    *)
(* after the other, and runs an activity per market, a batch at a time.    *)
(* The attempts of an activity run in a worker: Temporal counts one as     *)
(* failed when it fails or when its time is over, and starts the next one, *)
(* while the worker may still be busy with it and commit later, or dead,   *)
(* which is never going on with it.  A scorer commits the snapshot first   *)
(* and computes the score in a second transaction, whose statements have a *)
(* snapshot of their own (READ COMMITTED).                                 *)
(*                                                                         *)
(* The two workflows write different kinds of rows and are not modelled at *)
(* the same time.  A protocol that is added again is another row.          *)
(***************************************************************************)
EXTENDS FiniteSets, SequencesExt, MarketPd

CONSTANTS Protocols,     \* market_config rows, by their slugs
          MarketsOf,     \* the markets yarn may list for each
          Concurrency,   \* market_fanout_concurrency
          Tries,         \* maximum_attempts of _YARN_RETRY
          Profiles,      \* weighting_profile rows that may exist; those of a team,
                         \* which a scorer leaves out, are not among them
          Given,         \* those in the initial state
          ScopeOf,       \* "market" or "protocol", fixed when a row is made
          Absent,        \* no such profile
          WeightSets,    \* the weights an operator may enter
          Reports,       \* what yarn may report of a market
          Manuals,       \* the published manual metrics of a market
          MaxTicks,      \* bound: ticks
          MaxEdits       \* bound: changes by operators

ASSUME ScorerAssumption ==
    /\ Concurrency \in Nat \ {0} /\ Tries \in Nat \ {0}
    /\ MaxTicks \in Nat /\ MaxEdits \in Nat
    /\ \A p \in Profiles : ScopeOf[p] \in {"market", "protocol"}

\* CHECK (weight >= 0); what is reported or entered by hand may be anything.
ASSUME InputsAssumption ==
    /\ \A w \in WeightSets : w.anchors \in Nat /\ w.controls \in Nat /\ w.assurance \in Nat
    /\ \A r \in Reports : r.anchors \in Seq(Int) /\ r.controls \in Seq(Int)
    /\ \A m \in Manuals : m.anchors \in Seq(Int) /\ m.assurance \in Seq(Int)

Markets == UNION {MarketsOf[p] : p \in Protocols}

\* A market is named within its protocol.
ASSUME MarketsAssumption ==
    /\ \A p \in Protocols : IsFiniteSet(MarketsOf[p])
    /\ \A p, q \in Protocols : p # q => MarketsOf[p] \cap MarketsOf[q] = {}

ProtocolOf(m) == CHOOSE p \in Protocols : m \in MarketsOf[p]

VARIABLES config,     \* market_config: state of each row
          profile,    \* weighting_profile with its entries
          snapshots,  \* automated_market_snapshot rows, by the attempt that made them
          scores,     \* market_score rows
          tick,       \* the workflow
          answer,     \* Temporal: the attempts of this tick, and how the last one stands
          work,       \* the attempts workers are busy with
          ticks, edits,
          givenUp     \* history: attempts whose time was over

tables  == <<config, profile, snapshots, scores>>
run     == <<tick, answer>>
vars    == <<tables, run, work, ticks, edits, givenUp>>

Standing(m) == config[ProtocolOf(m)] # "deleted"

Row(target, weights, updated) == [target |-> target, weights |-> weights, updated |-> updated]

ASSUME ProfilesAssumption ==
    /\ Absent \notin Profiles
    /\ \A p \in DOMAIN Given : \E weights \in WeightSets,
           target \in IF ScopeOf[p] = "market" THEN Markets ELSE Protocols :
              Given[p] = Row(target, weights, 0)

-----------------------------------------------------------------------------
(* Weighting profiles *)

\* A foreign key holds the market of a profile, not its protocol's name.
Targets(p) == IF ScopeOf[p] = "market" THEN {m \in Markets : Standing(m)} ELSE Protocols

Live(p) == profile[p] # Absent

Applies(p, m) ==
    Live(p) /\ profile[p].target = IF ScopeOf[p] = "market" THEN m ELSE ProtocolOf(m)

\* Mutant: a profile of the protocol goes before one of the market.
RankByProtocol(p) == IF ScopeOf[p] = "protocol" THEN 3 ELSE 4

\* The CASE of resolve_weighting_profile without a team.
Rank(p) == IF ScopeOf[p] = "market" THEN 3 ELSE 4

Candidates(m) == {p \in Profiles : Applies(p, m)}

\* ORDER BY precedence, updated_at DESC LIMIT 1; rows that tie come in any order.
Winners(m) ==
    {p \in Candidates(m) :
        \A q \in Candidates(m) :
            \/ Rank(p) < Rank(q)
            \/ Rank(p) = Rank(q) /\ profile[p].updated >= profile[q].updated}

\* The entries of the profile found, in a second statement: none if it is gone.
Entries(p) == IF p \in Profiles /\ Live(p) THEN profile[p].weights ELSE NoWeights

-----------------------------------------------------------------------------
(* The workflow *)

NoAnswer == [tries |-> 0, last |-> "none"]
NoTick == [phase |-> "idle", job |-> "score", todo |-> {}, refs |-> <<>>, batch |-> {}]

\* The schedules; a schedule skips a tick while its workflow runs.
StartTick(job) ==
    /\ tick.phase = "idle" /\ ticks < MaxTicks
    /\ tick' = [phase |-> "load", job |-> job, todo |-> {}, refs |-> <<>>, batch |-> {}]
    /\ answer' = [m \in Markets |-> NoAnswer]
    /\ ticks' = ticks + 1
    /\ UNCHANGED <<tables, work, edits, givenUp>>

\* load_enabled_protocols; after its retries the workflow fails.
LoadProtocols ==
    /\ tick.phase = "load"
    /\ \/ tick' = [phase |-> "list", job |-> tick.job, refs |-> <<>>, batch |-> {},
                    todo |-> {p \in Protocols : config[p] = "enabled"}]
       \/ tick' = NoTick
    /\ UNCHANGED <<tables, answer, work, ticks, edits, givenUp>>

\* list_protocol_markets of the next protocol (they come in the order of
\* their names, on which nothing depends); one that fails is skipped.  The
\* listing names some of the protocol's markets, and a market once: the code
\* takes that from the yarn program without looking.
ListMarkets ==
    /\ tick.phase = "list"
    /\ \E p \in tick.todo : \E found \in SUBSET MarketsOf[p] :
          tick' = [phase |-> "list", job |-> tick.job, todo |-> tick.todo \ {p},
                   refs |-> tick.refs \o SetToSeq(found), batch |-> {}]
    /\ UNCHANGED <<tables, answer, work, ticks, edits, givenUp>>

MayRetry(m) == answer[m].last \in {"none", "failed", "late"} /\ answer[m].tries < Tries

Settled(m) == answer[m].last # "running" /\ ~MayRetry(m)

\* Mutant: the first market that fails ends the batch.
DrainedOrFailed ==
    (\A m \in tick.batch : Settled(m)) \/ \E m \in tick.batch : answer[m].last = "failed"

\* gather returns when every market of the batch has its answer.
Drained == \A m \in tick.batch : Settled(m)

\* Mutant: a batch has one market too many.
NextOfMore(refs) == SubSeq(refs, 1, Min({Concurrency + 1, Len(refs)}))

\* _batches.
NextOf(refs)  == SubSeq(refs, 1, Min({Concurrency, Len(refs)}))
AfterOf(refs) == SubSeq(refs, Len(NextOf(refs)) + 1, Len(refs))

NextBatch ==
    /\ \/ tick.phase = "list" /\ tick.todo = {}
       \/ tick.phase = "fan" /\ Drained
    /\ tick' = IF tick.refs = <<>> THEN NoTick
               ELSE [phase |-> "fan", job |-> tick.job, todo |-> {},
                     refs  |-> AfterOf(tick.refs),
                     batch |-> ToSet(NextOf(tick.refs))]
    /\ UNCHANGED <<tables, answer, work, ticks, edits, givenUp>>

-----------------------------------------------------------------------------
(* Attempts, as Temporal sees them *)

Attempt(m, n) == [tick |-> ticks, market |-> m, try |-> n]

RunAttempt(m) ==
    /\ m \in tick.batch /\ MayRetry(m)
    /\ answer' = [answer EXCEPT ![m] = [tries |-> @.tries + 1, last |-> "running"]]
    /\ work' = work \cup
            {[id |-> Attempt(m, answer[m].tries + 1), job |-> tick.job, at |-> "yarn"]}
    /\ UNCHANGED <<tables, tick, ticks, edits, givenUp>>

\* Mutant: start_to_close_timeout is not given.
NeverLate(m) == FALSE

MayBeLate(m) == answer[m].last = "running"

\* The time of an attempt is over; its worker may not know.
TimeOut(m) ==
    /\ MayBeLate(m)
    /\ answer' = [answer EXCEPT ![m] = [tries |-> @.tries, last |-> "late"]]
    /\ givenUp' = givenUp \cup {Attempt(m, answer[m].tries)}
    /\ UNCHANGED <<tables, tick, work, ticks, edits>>

\* The end of an attempt, which nobody waits for when its time is over.
Report(w, result) ==
    LET m == w.id.market IN
    /\ work' = work \ {w}
    /\ answer' = IF w.id = Attempt(m, answer[m].tries) /\ answer[m].last = "running"
                 THEN [answer EXCEPT ![m] = [tries |-> @.tries, last |-> result]] ELSE answer

-----------------------------------------------------------------------------
(* Attempts, as the worker runs them *)

\* yarn fails or is slow, or a statement fails, and the attempt can be
\* repeated; or yarn's input or output is malformed, and it is not.
FailAttempt(w) ==
    /\ \E result \in {"failed"} \cup (IF w.at = "yarn" THEN {"fatal"} ELSE {}) : Report(w, result)
    /\ UNCHANGED <<tables, tick, ticks, edits, givenUp>>

\* collect_market_snapshot: one transaction.
Collect(w) ==
    /\ w.at = "yarn" /\ w.job = "collect" /\ Standing(w.id.market)
    /\ snapshots' = snapshots \cup {w.id}
    /\ Report(w, "ok")
    /\ UNCHANGED <<config, profile, scores, tick, ticks, edits, givenUp>>

\* score_market_snapshot finds no market_config row, in either transaction.
MarketGone(w) ==
    /\ w.job = "score" /\ w.at \in {"yarn", "stored"} /\ ~Standing(w.id.market)
    /\ Report(w, "ok")
    /\ UNCHANGED <<tables, tick, ticks, edits, givenUp>>

\* Transaction A.  The report is not kept here: nobody looks at it before
\* the score is computed.
StoreSnapshot(w) ==
    /\ w.at = "yarn" /\ w.job = "score" /\ Standing(w.id.market)
    /\ work' = (work \ {w}) \cup {[w EXCEPT !.at = "stored"]}
    /\ snapshots' = snapshots \cup {w.id}
    /\ UNCHANGED <<config, profile, scores, run, ticks, edits, givenUp>>

\* What a score would be computed with, if it were read at one moment.
InForce(m) ==
    LET own(s) == {p \in Profiles : Applies(p, m) /\ ScopeOf[p] = s}
        newest(S) == {p \in S : \A q \in S : profile[q].updated <= profile[p].updated}
    IN  IF own("market") # {} THEN {profile[p].weights : p \in newest(own("market"))}
        ELSE IF own("protocol") # {} THEN {profile[p].weights : p \in newest(own("protocol"))}
        ELSE {NoWeights}

\* An attempt between the two reads, with what has changed since the first.
Between(id, found, seen, changes, moved) ==
    [id |-> id, job |-> "score", at |-> "resolved",
     found |-> found, seen |-> seen, edits |-> changes, moved |-> moved]

\* Transaction B finds the profile.
Resolve(w) ==
    LET m == w.id.market  found == Winners(m) IN
    /\ w.at = "stored" /\ Standing(m)
    /\ \E p \in IF found = {} THEN {Absent} ELSE found :
          work' = (work \ {w}) \cup {Between(w.id, p, InForce(m), 0, FALSE)}
    /\ UNCHANGED <<tables, run, ticks, edits, givenUp>>

\* ... reads its entries and the manual metrics, computes, and inserts: an
\* input it cannot use leaves the snapshot without a score; a row that
\* breaks a constraint fails the attempt.
Score(w) ==
    /\ w.at = "resolved"
    /\ \E report \in Reports, manual \in Manuals :
          LET storable == Storable(Pd(report, Entries(w.found), manual)) IN
          \/ /\ Invalid(report, manual)
             /\ Report(w, "ok")
             /\ UNCHANGED scores
          \/ /\ ~Invalid(report, manual) /\ storable /\ Standing(w.id.market)
             /\ scores' = scores \cup {w.id}
             /\ Report(w, "ok")
          \/ /\ ~Invalid(report, manual) /\ ~storable
             /\ Report(w, "failed")
             /\ UNCHANGED scores
    /\ UNCHANGED <<config, profile, snapshots, tick, ticks, edits, givenUp>>

-----------------------------------------------------------------------------
(* The operators *)

Edit == edits' = edits + 1

\* History: what a change means for those between their two reads.
Overlap ==
    work' = {IF w.at = "resolved"
             THEN Between(w.id, w.found, w.seen \cup InForce(w.id.market)', w.edits + 1,
                          w.moved \/ (w.found # Absent /\ ~Applies(w.found, w.id.market)'))
             ELSE w : w \in work}

CreateProfile(p, target, weights) ==
    /\ Edit /\ ~Live(p)
    /\ profile' = [profile EXCEPT ![p] = Row(target, weights, edits + 1)]
    /\ Overlap
    /\ UNCHANGED <<config, snapshots, scores, run, ticks, givenUp>>

\* The header and the entries in one transaction; the header's updated_at
\* may stay when only the entries change.
UpdateProfile(p, target, weights) ==
    /\ Edit /\ Live(p)
    /\ \/ /\ <<target, weights>> # <<profile[p].target, profile[p].weights>>
          /\ profile' = [profile EXCEPT ![p] = Row(target, weights, edits + 1)]
       \/ /\ target = profile[p].target /\ weights # profile[p].weights
          /\ profile' = [profile EXCEPT ![p] = Row(target, weights, @.updated)]
    /\ Overlap
    /\ UNCHANGED <<config, snapshots, scores, run, ticks, givenUp>>

DeleteProfile(p) ==
    /\ Edit /\ Live(p)
    /\ profile' = [profile EXCEPT ![p] = Absent]
    /\ Overlap
    /\ UNCHANGED <<config, snapshots, scores, run, ticks, givenUp>>

Toggle(c) ==
    /\ Edit /\ config[c] # "deleted"
    /\ config' = [config EXCEPT ![c] = IF @ = "enabled" THEN "disabled" ELSE "enabled"]
    /\ UNCHANGED <<profile, snapshots, scores, run, work, ticks, givenUp>>

\* Deleting a protocol takes its rows and the profiles of its markets along.
DeleteConfig(c) ==
    /\ Edit /\ config[c] # "deleted"
    /\ config' = [config EXCEPT ![c] = "deleted"]
    /\ profile' = [p \in Profiles |->
                     IF Live(p) /\ ScopeOf[p] = "market" /\ profile[p].target \in MarketsOf[c]
                     THEN Absent ELSE profile[p]]
    /\ snapshots' = {s \in snapshots : s.market \notin MarketsOf[c]}
    /\ scores' = {s \in scores : s.market \notin MarketsOf[c]}
    /\ Overlap
    /\ UNCHANGED <<run, ticks, givenUp>>

-----------------------------------------------------------------------------
(* Specification *)

Init ==
    /\ config = [c \in Protocols |-> "enabled"]
    /\ profile = [p \in Profiles |-> IF p \in DOMAIN Given THEN Given[p] ELSE Absent]
    /\ snapshots = {} /\ scores = {}
    /\ tick = NoTick /\ answer = [m \in Markets |-> NoAnswer]
    /\ work = {} /\ ticks = 0 /\ edits = 0
    /\ givenUp = {}

Temporal ==
    \/ LoadProtocols \/ ListMarkets \/ NextBatch
    \/ \E m \in Markets : RunAttempt(m) \/ TimeOut(m)

Worker(w) ==
    \/ FailAttempt(w)
    \/ Collect(w) \/ MarketGone(w) \/ StoreSnapshot(w) \/ Resolve(w) \/ Score(w)

Operator ==
    /\ edits < MaxEdits
    /\ \/ \E p \in Profiles : DeleteProfile(p) \/
             \E target \in Targets(p), weights \in WeightSets :
                 CreateProfile(p, target, weights) \/ UpdateProfile(p, target, weights)
       \/ \E c \in Protocols : Toggle(c) \/ DeleteConfig(c)

Next ==
    \/ \E job \in {"collect", "score"} : StartTick(job)
    \/ Temporal
    \/ \E w \in work : Worker(w)
    \/ Operator

Spec == Init /\ [][Next]_vars

\* Temporal goes on with something as long as it can: a workflow, an attempt
\* to start, or one whose time is over.  That an attempt is started takes a
\* worker that still polls, since no schedule_to_start time is set; nothing is
\* asked of the one that then has the attempt.
FairSpec == Spec /\ WF_vars(Temporal)

-----------------------------------------------------------------------------
(* Properties *)

Ids == [tick : 1 .. MaxTicks, market : Markets, try : 1 .. Tries]

TypeOK ==
    /\ config \in [Protocols -> {"enabled", "disabled", "deleted"}]
    /\ \A p \in Profiles : Live(p) =>
          /\ profile[p].target \in Targets(p)
          /\ profile[p].weights \in WeightSets
          /\ profile[p].updated \in 0 .. MaxEdits
    /\ snapshots \subseteq Ids /\ givenUp \subseteq Ids
    /\ scores \subseteq snapshots
    /\ tick.batch \subseteq Markets /\ ToSet(tick.refs) \subseteq Markets
    /\ Cardinality(tick.batch) <= Concurrency
    /\ \A m \in Markets : answer[m] \in
          [tries : 0 .. Tries, last : {"none", "running", "late", "failed", "fatal", "ok"}]
    /\ \A w \in work : w.id \in Ids

\* _fan_out and _YARN_RETRY, whatever fails, is late or dies: the fan-out
\* leaves a market with its last answer only; an attempt that was answered
\* "ok" left its snapshot, unless the protocol was deleted; and one tick
\* scores a market a second time only after the attempt that scored it first
\* was given up.
MarketsAccounted ==
    /\ \A m \in Markets : m \in tick.batch \/ answer[m].last = "none" \/ Settled(m)
    /\ \A m \in Markets : answer[m].last = "ok" /\ Standing(m)
                              => Attempt(m, answer[m].tries) \in snapshots
    /\ \A s, t \in scores :
          s.tick = t.tick /\ s.market = t.market /\ s.try < t.try => s \in givenUp

\* Who is between the two reads of resolve_weighting_profile_entries.
Reading == {w \in work : w.at = "resolved"}

\* resolve_weighting_profile_entries reads a profile and its entries in two
\* statements: a single change by an operator in between does not give a
\* scorer weights that were in force at no moment, unless it deletes the
\* profile found, or moves it to another target.
WeightsInForce ==
    \A w \in Reading : Entries(w.found) \in w.seen \/ w.edits > 1 \/ w.moved

\* compute_market_pd: with an anchor weight up to one, the anchors of every
\* score a scorer is about to insert are a probability, its PD is at most
\* 1.25 * 1.25 of it, and the constraints of the table accept it.
PdIsProbability ==
    \A w \in Reading, report \in Reports, manual \in Manuals :
        LET pd == Pd(report, Entries(w.found), manual) IN
        ~Invalid(report, manual) /\ Entries(w.found).anchors <= 1 =>
            /\ Within(pd.anchors, 0, 1)
            /\ 16 * pd.final.n * pd.anchors.d <= 25 * pd.anchors.n * pd.final.d
            /\ Storable(pd)

\* Every tick ends, though the workers that have its attempts hang, die and
\* are late: the schedule skips ticks while one runs.
TickEnds == tick.phase # "idle" ~> tick.phase = "idle"
=============================================================================
