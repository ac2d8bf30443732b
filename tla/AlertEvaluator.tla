--------------------------- MODULE AlertEvaluator ---------------------------
(***************************************************************************)
(* AlertsEvaluatorWorkflow over the tables of AlertConfig.                 *)
(*                                                                         *)
(* A schedule starts a run every 30 seconds and never two at a time.  A    *)
(* run reads the enabled rules, the latest reading of each rule's target   *)
(* and the latest history row of each rule, derives the events, and        *)
(* commits them in two transactions: one adds the history rows, the next   *)
(* one notification per event and channel.  The rules are read table by    *)
(* table at READ COMMITTED, so the handlers of the API run between any two *)
(* of these reads, and between any two activities.  Activities fail and    *)
(* are retried as in NotificationDispatch.                                 *)
(*                                                                         *)
(* Whether a rule's predicate holds of its target is the environment's     *)
(* choice: `bad`.  The historical series a predicate may need is read with *)
(* the snapshot.                                                           *)
(***************************************************************************)
EXTENDS AlertConfig, AlertRules, Sequences, SequencesExt

CONSTANTS DbTries,       \* maximum_attempts of _DB_RETRY
          MaxFaults,     \* bound: attempts that fail or lose their completion
          MaxOutages,    \* bound: readings that are missing, stale or invalid
          MaxChanges     \* bound: changes of the measured condition

ASSUME EvaluatorAssumption ==
    /\ DbTries \in Nat \ {0}
    /\ MaxFaults \in Nat /\ MaxOutages \in Nat /\ MaxChanges \in Nat

VARIABLES
    bad,        \* the alerts whose predicate holds of their target now
    hist,       \* alert_history of each rule, in the order of evaluated_at
    notes,      \* the notification rows, as <<rule, history row, channel, copy>>
    step,       \* the activity, or the read, the run is at
    tries,      \* its attempt number
    found,      \* the enabled alerts read so far
    seen,       \* the override rows as read
    todo,       \* the rules whose channels are still to be read
    rules,      \* the rules the run loaded, with the channels of each
    reading,    \* the snapshots it loaded
    previous,   \* the statuses it loaded
    events,     \* what it decided
    rowOf,      \* the history row of each event, returned by persist
    faults, outages, changes,
    lost,       \* history: the events of runs that failed before the enqueue
    steady      \* history: while rules are loaded, those none of whose rows
                \* has changed since the first read

run    == <<step, tries, rules, reading, previous, events, rowOf>>
load   == <<found, seen, todo, steady>>
budget == <<faults, outages, changes>>
evars  == <<config, edits, bad, hist, notes, run, load, budget, lost>>

Rules == Alerts \X Teams
Reads == {"rules", "templates", "overrides", "channels", "primary"}
Steps == {"idle", "snapshots", "previous", "evaluate", "persist", "enqueue"} \cup Reads
Empty == [r \in {} |-> {}]
NoneSeen == [p \in Templates \X Teams |-> NoOverride]

\* A history row: its status, evaluated_at, and (not stored, kept to state
\* the properties) the integration_ids of its event.
HistoryRow == [status : Statuses \ {"OK"}, at : Nat, to : SUBSET Channels]

TypeOK ==
    /\ ConfigTypeOK
    /\ bad \subseteq Alerts
    /\ \A r \in Rules : \A i \in 1 .. Len(hist[r]) : hist[r][i] \in HistoryRow
    /\ \A n \in notes : n[1] \in Rules /\ n[2] \in 1 .. Len(hist[n[1]]) /\ n[3] \in Channels
    /\ step \in Steps /\ tries \in 0 .. DbTries
    /\ DOMAIN rules \subseteq Rules /\ \A r \in DOMAIN rules : rules[r] \subseteq Channels
    /\ DOMAIN previous \subseteq DOMAIN rules /\ \A r \in DOMAIN previous : previous[r] \in Statuses
    /\ DOMAIN events \subseteq DOMAIN previous /\ \A r \in DOMAIN events : events[r] \in HistoryRow
    /\ DOMAIN rowOf = (IF step = "enqueue" THEN DOMAIN events ELSE {})
    /\ \A r \in DOMAIN rowOf : rowOf[r] \in 1 .. Len(hist[r]) \/ hist[r] = <<>>
    /\ reading \in [Alerts -> Readings]
    /\ found \subseteq Alerts /\ seen \in [Templates \X Teams -> Override]
    /\ todo \subseteq Rules /\ steady \subseteq Rules
    /\ step \notin Reads => <<found, seen, todo, steady>> = <<{}, NoneSeen, {}, {}>>

Init ==
    /\ alert = [a \in Alerts |-> "on"]
    /\ override = [p \in Templates \X Teams |-> NoOverride]
    /\ channel = [c \in Channels |-> [state |-> "live", primary |-> TRUE, active |-> TRUE]]
    /\ edits = 0
    /\ bad = {}
    /\ hist = [r \in Rules |-> <<>>]
    /\ notes = {}
    /\ step = "idle" /\ tries = 0
    /\ rules = Empty /\ previous = Empty /\ events = Empty /\ rowOf = Empty
    /\ reading = [a \in Alerts |-> "none"]
    /\ found = {} /\ seen = NoneSeen /\ todo = {} /\ steady = {}
    /\ faults = 0 /\ outages = 0 /\ changes = 0
    /\ lost = {}

-----------------------------------------------------------------------------
(* Helpers *)

Goto(s) == step' = s /\ tries' = 1

NoLoad == found' = {} /\ seen' = NoneSeen /\ todo' = {} /\ steady' = {}

\* The run ends; what it had loaded is of no use to the next one.
Forget ==
    /\ NoLoad
    /\ step' = "idle" /\ tries' = 0
    /\ rules' = Empty /\ previous' = Empty /\ events' = Empty /\ rowOf' = Empty
    /\ reading' = [a \in Alerts |-> "none"]

\* The run ends normally.
Finish == Forget /\ UNCHANGED lost

\* The run fails: its events are never enqueued.
FailRun == Forget /\ lost' = lost \cup {<<r, events[r].at>> : r \in DOMAIN events}

\* Mutant: no limit on the attempts of an activity.
RetryForever ==
    /\ tries' = tries + 1
    /\ UNCHANGED <<step, rules, reading, previous, events, rowOf, load, lost>>

\* One attempt of the current activity is over without a completion.
RetryOrFail ==
    \/ /\ tries < DbTries /\ tries' = tries + 1
       /\ UNCHANGED <<step, rules, reading, previous, events, rowOf, load, lost>>
    \/ tries >= DbTries /\ FailRun

\* Mutant: the list of rules outlives the attempt that filled it.
RestartLoadKeeping ==
    /\ step' = "rules" /\ tries' = tries + 1
    /\ NoLoad
    /\ UNCHANGED <<rules, reading, previous, events, rowOf, lost>>

\* The next attempt of load_enabled_rules reads everything again.
RestartLoad ==
    /\ step' = "rules" /\ tries' = tries + 1
    /\ rules' = Empty /\ NoLoad
    /\ UNCHANGED <<reading, previous, events, rowOf, lost>>

Fault == faults < MaxFaults /\ faults' = faults + 1 /\ UNCHANGED <<outages, changes>>

-----------------------------------------------------------------------------
(* The environment: measurements and API calls *)

\* The measured value crosses the rule's condition, one way or the other.
Change(a) ==
    /\ changes < MaxChanges /\ changes' = changes + 1
    /\ bad' = IF a \in bad THEN bad \ {a} ELSE bad \cup {a}
    /\ UNCHANGED <<config, edits, hist, notes, run, load, faults, outages, lost>>

\* None of the rows that decide about a rule changes.
RowsKept(r) ==
    /\ alert'[r[1]] = alert[r[1]]
    /\ \A a \in Templates : override'[<<a, r[2]>>] = override[<<a, r[2]>>]
    /\ \A c \in Channels : ChannelTeam[c] = r[2] \/ <<r[1], c>> \in Links
                            => channel'[c] = channel[c]

Watch == steady' = {r \in steady : RowsKept(r)} /\ UNCHANGED <<found, seen, todo>>

\* Deleting an alert cascades to its history and their notifications.
CascadeAlert(a) ==
    /\ DeleteAlert(a)
    /\ hist' = [r \in Rules |-> IF r[1] = a THEN <<>> ELSE hist[r]]
    /\ notes' = {n \in notes : n[1][1] # a}
    /\ Watch
    /\ UNCHANGED <<bad, run, budget, lost>>

CascadeChannel(c) ==
    /\ DeleteChannel(c)
    /\ notes' = {n \in notes : n[3] # c}
    /\ Watch
    /\ UNCHANGED <<bad, hist, run, budget, lost>>

Api == \/ /\ EditAlerts \/ EditChannels
          /\ Watch
          /\ UNCHANGED <<bad, hist, notes, run, budget, lost>>
       \/ \E a \in Alerts : CascadeAlert(a)
       \/ \E c \in Channels : CascadeChannel(c)

-----------------------------------------------------------------------------
(* The workflow *)

Tick ==
    /\ step = "idle"
    /\ Goto("rules")
    /\ UNCHANGED <<config, edits, bad, hist, notes, rules, reading, previous,
                   events, rowOf, load, budget, lost>>

\* One statement of load_enabled_rules, still the same attempt.
Read(from, to) ==
    /\ step = from /\ step' = to
    /\ UNCHANGED <<config, edits, bad, hist, notes, tries, reading, previous,
                   events, rowOf, budget, lost>>

ReadTeamAlerts ==
    /\ Read("rules", "templates")
    /\ found' = {a \in Alerts \ Templates : alert[a] = "on"}
    /\ steady' = Rules
    /\ UNCHANGED <<rules, seen, todo>>

ReadTemplates ==
    /\ Read("templates", "overrides")
    /\ found' = found \cup {a \in Templates : alert[a] = "on"}
    /\ UNCHANGED <<rules, seen, todo, steady>>

\* The channels of the team alerts come first.
ReadOverrides ==
    /\ Read("overrides", "channels")
    /\ seen' = override
    /\ todo' = {<<a, AlertTeam[a]>> : a \in found \ Templates}
    /\ UNCHANGED <<rules, found, steady>>

\* The channel that the override row, as read, names.
Named(r) == {c \in Channels : r[1] \in Templates /\ c = seen[r].channel}

\* _integration_ids_for_alert: the override as read before, and the links ...
ReadLinks(r) ==
    /\ r \in todo
    /\ Read("channels", "primary")
    /\ rules' = [x \in DOMAIN rules \cup {r} |->
                   IF x = r THEN Named(r) \cup LinkedChannels(r[1]) ELSE rules[x]]
    /\ UNCHANGED load

\* ... and then the team's primary channels.
ReadPrimary(r) ==
    /\ r \in todo \cap DOMAIN rules
    /\ Read("primary", "channels")
    /\ rules' = [rules EXCEPT ![r] = rules[r] \cup PrimaryChannels(r[2])]
    /\ todo' = todo \ {r}
    /\ UNCHANGED <<found, seen, steady>>

\* The templates are left, when any was found: one rule for each team with an
\* override or a channel that has not opted out.
ReadTeams ==
    /\ todo = {} /\ found \cap Templates # {}
    /\ Read("channels", "channels")
    /\ todo' = {r \in (found \cap Templates) \X Teams :
                   /\ \/ \E a \in Templates : seen[<<a, r[2]>>].exists
                      \/ \E c \in LiveChannels : ChannelTeam[c] = r[2]
                   /\ seen[r].enabled}
    /\ found' = {}
    /\ UNCHANGED <<rules, seen, steady>>

AllRead == step = "channels" /\ todo = {} /\ found \cap Templates = {}

\* The activity completes; a run with no rule ends here.
LoadRules ==
    /\ AllRead
    /\ IF rules = Empty THEN Finish
       ELSE NoLoad /\ Goto("snapshots") /\ UNCHANGED <<rules, reading, previous, events, rowOf, lost>>
    /\ UNCHANGED <<config, edits, bad, hist, notes, budget>>

LoadFails ==
    /\ step \in Reads
    /\ Fault
    /\ \/ tries < DbTries /\ RestartLoad
       \/ tries >= DbTries /\ FailRun
    /\ UNCHANGED <<config, edits, bad, hist, notes>>

\* load_latest_snapshots and load_historical_series: a missing snapshot, one
\* older than MAX_SNAPSHOT_AGE and one the predicate cannot use read "none".
LoadSnapshots ==
    /\ step = "snapshots"
    /\ \E U \in SUBSET {r[1] : r \in DOMAIN rules} :
         /\ outages + Cardinality(U) <= MaxOutages
         /\ outages' = outages + Cardinality(U)
         /\ reading' = [a \in Alerts |->
                          IF a \in U \/ \A r \in DOMAIN rules : r[1] # a THEN "none"
                          ELSE IF a \in bad THEN "bad" ELSE "ok"]
    /\ Goto("previous")
    /\ UNCHANGED <<config, edits, bad, hist, notes, rules, previous, events,
                   rowOf, load, faults, changes, lost>>

\* Mutant: the history is read in ascending order.
StatusFirst(r) == IF hist[r] = <<>> THEN "OK" ELSE Head(hist[r]).status

\* The status of the latest history row, OK when there is none.
StatusOf(r) == IF hist[r] = <<>> THEN "OK" ELSE Last(hist[r]).status

LoadPrevious ==
    /\ step = "previous"
    /\ previous' = [r \in DOMAIN rules |-> StatusOf(r)]
    /\ Goto("evaluate")
    /\ UNCHANGED <<config, edits, bad, hist, notes, rules, reading, events,
                   rowOf, load, budget, lost>>

\* What evaluate_rules decides for one rule.
Decision(r) == Verdict(reading[r[1]], previous[r])

\* evaluated_at is this run's clock: later than every row of the rule.
Evaluate ==
    /\ step = "evaluate"
    /\ LET E == {r \in DOMAIN rules : Decision(r) # "OK"}
       IN IF E = {} THEN Finish
          ELSE /\ events' = [r \in E |-> [status |-> Decision(r),
                                          at |-> Len(hist[r]) + 1,
                                          to |-> rules[r]]]
               /\ Goto("persist")
               /\ UNCHANGED <<rules, reading, previous, rowOf, load, lost>>
    /\ UNCHANGED <<config, edits, bad, hist, notes, budget>>

\* Every event's alert must still be there, or the transaction fails.
CanPersist == \A r \in DOMAIN events : r[1] \in LiveAlerts

CommitHistory ==
    hist' = [r \in Rules |-> IF r \in DOMAIN events THEN Append(hist[r], events[r])
                             ELSE hist[r]]

Persist ==
    /\ step = "persist" /\ CanPersist
    /\ CommitHistory
    /\ rowOf' = [r \in DOMAIN events |-> Len(hist[r]) + 1]
    /\ Goto("enqueue")
    /\ UNCHANGED <<config, edits, bad, notes, rules, reading, previous, events,
                   load, budget, lost>>

PersistLost ==
    /\ step = "persist" /\ CanPersist
    /\ Fault
    /\ CommitHistory
    /\ RetryOrFail
    /\ UNCHANGED <<config, edits, bad, notes>>

PersistRejected ==
    /\ step = "persist" /\ ~CanPersist
    /\ RetryOrFail
    /\ UNCHANGED <<config, edits, bad, hist, notes, budget>>

\* Mutant: ERROR events are notified too.
PairsOfAll ==
    UNION {{<<r, rowOf[r], c>> : c \in events[r].to} : r \in DOMAIN events}

\* Mutant: recoveries are not notified.
PairsOfTriggered ==
    UNION {{<<r, rowOf[r], c>> : c \in events[r].to} :
             r \in {e \in DOMAIN events : events[e].status = "TRIGGERED"}}

\* One row per event and channel; ERROR events are not notified.
Pairs == UNION {{<<r, rowOf[r], c>> : c \in events[r].to} :
                  r \in {e \in DOMAIN events : events[e].status # "ERROR"}}

\* The history rows and the channels must still be there.
CanEnqueue ==
    \A p \in Pairs : p[1][1] \in LiveAlerts /\ p[3] \in LiveChannels

Copies(p) == Cardinality({n \in notes : <<n[1], n[2], n[3]>> = p})

\* Mutant: one transaction per row, and a failure between two of them.
CommitNotesSome ==
    \E S \in SUBSET Pairs :
        notes' = notes \cup {<<p[1], p[2], p[3], Copies(p) + 1>> : p \in S}

CommitNotes ==
    notes' = notes \cup {<<p[1], p[2], p[3], Copies(p) + 1>> : p \in Pairs}

Enqueue ==
    /\ step = "enqueue" /\ CanEnqueue
    /\ CommitNotes
    /\ Finish
    /\ UNCHANGED <<config, edits, bad, hist, budget>>

EnqueueLost ==
    /\ step = "enqueue" /\ CanEnqueue
    /\ Fault
    /\ CommitNotes
    /\ RetryOrFail
    /\ UNCHANGED <<config, edits, bad, hist>>

EnqueueRejected ==
    /\ step = "enqueue" /\ ~CanEnqueue
    /\ RetryOrFail
    /\ UNCHANGED <<config, edits, bad, hist, notes, budget>>

\* An attempt of another database activity fails before its commit.
AttemptFails ==
    /\ step \in {"snapshots", "previous", "persist", "enqueue"}
    /\ Fault
    /\ RetryOrFail
    /\ UNCHANGED <<config, edits, bad, hist, notes>>

Load == \/ ReadTeamAlerts \/ ReadTemplates \/ ReadOverrides \/ ReadTeams
        \/ \E r \in Rules : ReadLinks(r) \/ ReadPrimary(r)
        \/ LoadRules

Run == \/ Tick \/ Load \/ LoadSnapshots \/ LoadPrevious \/ Evaluate
       \/ Persist \/ PersistRejected \/ Enqueue \/ EnqueueRejected

Faulty == LoadFails \/ PersistLost \/ EnqueueLost \/ AttemptFails

Environment == Api \/ \E a \in Alerts : Change(a)

Next == Run \/ Faulty \/ Environment

Spec == Init /\ [][Next]_evars

\* The schedule and the worker keep going; faults, outages, measurements and
\* API calls are never fair.
FairSpec == Spec /\ WF_evars(Run)

-----------------------------------------------------------------------------
(* Properties *)

\* Across ticks the history of a rule is edge-triggered: TRIGGERED is never
\* written straight after TRIGGERED, RECOVERED only straight after TRIGGERED,
\* and rows of one tick (a commit that was retried) agree with each other.
EdgesAlternate ==
    \A r \in Rules : \A i \in 1 .. Len(hist[r]) :
        LET row  == hist[r][i]
            last == IF i = 1 THEN [status |-> "OK", at |-> 0] ELSE hist[r][i - 1]
        IN IF row.at = last.at THEN row.status = last.status
           ELSE /\ row.at > last.at
                /\ row.status = "TRIGGERED" => last.status # "TRIGGERED"
                /\ row.status = "RECOVERED" => last.status = "TRIGGERED"

\* A notification always belongs to an edge: its history row is there, says
\* TRIGGERED or RECOVERED, and was decided for the channel it goes to.
NotesAreEdges ==
    \A n \in notes :
        LET row == hist[n[1]][n[2]]
        IN /\ row.status \in {"TRIGGERED", "RECOVERED"}
           /\ n[3] \in row.to \cap LiveChannels

\* The channels of an edge are notified together or not at all, whatever
\* channels came and went during the run.
AllChannelsOrNone ==
    \A r \in Rules : \A i \in 1 .. Len(hist[r]) :
        LET reached == {n[3] : n \in {m \in notes : m[1] = r /\ m[2] = i}}
        IN reached \in {{}, hist[r][i].to \cap LiveChannels}

\* An edge no live channel was ever told of belongs to the present run, or to
\* a run that failed before its enqueue committed; and a run fails only when
\* one activity used up its attempts or a row it refers to was deleted.
SilentEdgesAccounted ==
    /\ lost # {} => \/ faults >= DbTries
                    \/ \E a \in Alerts : alert[a] = "gone"
                    \/ \E c \in Channels : channel[c].state = "gone"
    /\ \A r \in Rules : \A i \in 1 .. Len(hist[r]) :
           LET row == hist[r][i]
           IN \/ row.status = "ERROR"
              \/ row.to \cap LiveChannels = {}
              \/ r \in DOMAIN events /\ events[r].at = row.at
              \/ <<r, row.at>> \in lost
              \/ \E n \in notes : n[1] = r /\ hist[r][n[2]].at = row.at

\* Retries may repeat a row or a notification, but no more often than the
\* retry policy allows attempts.
RepeatsBounded ==
    \A r \in Rules : \A i \in 1 .. Len(hist[r]) :
        /\ Cardinality({j \in 1 .. Len(hist[r]) : hist[r][j].at = hist[r][i].at}) <= DbTries
        /\ \A n \in notes : n[4] <= DbTries

\* What is read in pieces is right about every rule whose own rows stood still
\* meanwhile: it is loaded exactly when it is enabled, and with exactly its
\* channels, whatever happened to the rows of other alerts and teams between
\* the reads and in the attempts before.
LoadedAsConfigured ==
    AllRead => \A r \in steady :
                 /\ r \in DOMAIN rules <=> r \in EnabledRules
                 /\ r \in EnabledRules => rules[r] = ChannelsOf(r[1], r[2])

\* A rule that stays enabled and whose condition stays met ends up TRIGGERED
\* and stays so.
MetConditionIsReported ==
    \A r \in Rules :
        <>[](r \in EnabledRules /\ r[1] \in bad) => <>[](StatusOf(r) = "TRIGGERED")

\* A rule that stays enabled and whose condition stays unmet does not stay
\* TRIGGERED.
UnmetConditionClears ==
    \A r \in Rules :
        <>[](r \in EnabledRules /\ r[1] \notin bad) => <>[](StatusOf(r) # "TRIGGERED")
=============================================================================
