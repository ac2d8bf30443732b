------------------------ MODULE AlertEvaluatorProofs ------------------------
(***************************************************************************)
(* Proofs about AlertEvaluator, for every set of alerts, teams, channels   *)
(* and links, every retry limit and every bound on what may happen.        *)
(*                                                                         *)
(* The invariant is about three things: the tables on their own, what the  *)
(* run holds compared with them, and who was told of which edge.           *)
(***************************************************************************)
EXTENDS AlertEvaluator, AlertConfigProofs, FiniteSetTheorems

TableTypes ==
    /\ ConfigInv
    /\ bad \subseteq Alerts
    /\ hist \in [Rules -> Seq(HistoryRow)]
    /\ \A n \in notes : n[1] \in Rules /\ n[2] \in Nat /\ n[3] \in Channels
    /\ faults \in Nat

RunTypes ==
    /\ step \in Steps /\ tries \in 0 .. DbTries
    /\ DOMAIN rules \subseteq Rules /\ \A r \in DOMAIN rules : rules[r] \subseteq Channels
    /\ DOMAIN previous \subseteq DOMAIN rules /\ \A r \in DOMAIN previous : previous[r] \in Statuses
    /\ DOMAIN events \subseteq DOMAIN previous /\ \A r \in DOMAIN events : events[r] \in HistoryRow
    /\ reading \in [Alerts -> Readings]

LoadTypes ==
    /\ found \subseteq Alerts /\ seen \in [Templates \X Teams -> Override]
    /\ todo \subseteq Rules /\ steady \subseteq Rules
    /\ step \notin Reads => found = {} /\ seen = NoneSeen /\ todo = {} /\ steady = {}

Types == TableTypes /\ RunTypes /\ LoadTypes

Live(r) == r[1] \in LiveAlerts

\* The history of a rule: the edges alternate, and rows of one tick are equal.
Alternates(h) ==
    \A i \in 1 .. Len(h) :
        LET last == IF i = 1 THEN [status |-> "OK", at |-> 0] ELSE h[i - 1]
        IN IF h[i].at = last.at THEN h[i].status = last.status
           ELSE /\ h[i].at > last.at
                /\ h[i].status = "TRIGGERED" => last.status # "TRIGGERED"
                /\ h[i].status = "RECOVERED" => last.status = "TRIGGERED"

LogInv(h) ==
    /\ \A i \in 1 .. Len(h) : h[i].at \in 1 .. i
    /\ \A i, j \in 1 .. Len(h) : h[i].at = h[j].at => h[i] = h[j]
    /\ Alternates(h)

\* No row was decided for a channel that had yet to be created.
HistInv ==
    \A r \in Rules :
        /\ LogInv(hist[r])
        /\ \A i \in 1 .. Len(hist[r]) : \A c \in hist[r][i].to : channel[c].state # "absent"
        /\ hist[r] # <<>> => Live(r)

\* A notification belongs to an edge, and the other channels of the edge
\* were notified with it.
NoteInv ==
    \A n \in notes :
        /\ n[2] \in 1 .. Len(hist[n[1]])
        /\ hist[n[1]][n[2]].status # "ERROR"
        /\ n[3] \in hist[n[1]][n[2]].to \cap LiveChannels
        /\ \A c \in hist[n[1]][n[2]].to \cap LiveChannels :
              \E m \in notes : m[1] = n[1] /\ m[2] = n[2] /\ m[3] = c

\* A row that may be written now: the rows of its tick are the same row, and
\* before the first of them it continues the history.
Follows(h, e) ==
    /\ e.at \in 1 .. Len(h) + 1
    /\ \A i \in 1 .. Len(h) : h[i].at <= e.at /\ (h[i].at = e.at => h[i] = e)
    /\ LET last == IF h = <<>> THEN [status |-> "OK", at |-> 0] ELSE h[Len(h)]
       IN last.at = e.at \/ /\ e.status = "TRIGGERED" => last.status # "TRIGGERED"
                            /\ e.status = "RECOVERED" => last.status = "TRIGGERED"

\* What the run holds.  A rule whose alert has been deleted since is never
\* written again.
RunInv ==
    /\ \A r \in DOMAIN rules :
          /\ alert[r[1]] # "absent"
          /\ \A c \in rules[r] : channel[c].state # "absent"
    /\ step \notin {"evaluate", "persist", "enqueue"} => DOMAIN previous = {}
    /\ step \notin {"persist", "enqueue"} => DOMAIN events = {}
    /\ DOMAIN rowOf = (IF step = "enqueue" THEN DOMAIN events ELSE {})
    /\ \A r \in DOMAIN rowOf : rowOf[r] \in 1 .. Len(hist[r]) \/ hist[r] = <<>>
    /\ step = "evaluate" =>
          /\ DOMAIN previous = DOMAIN rules
          /\ \A r \in DOMAIN rules : Live(r) => previous[r] = StatusOf(r)
    /\ \A r \in DOMAIN events :
          /\ events[r].to = rules[r]
          /\ step = "persist" /\ Live(r) => Follows(hist[r], events[r])
          /\ step = "enqueue" /\ Live(r) =>
                rowOf[r] \in 1 .. Len(hist[r]) /\ hist[r][rowOf[r]] = events[r]

\* Who was told of a row.
Told(r, row) ==
    \/ row.status = "ERROR"
    \/ row.to \cap LiveChannels = {}
    \/ r \in DOMAIN events /\ events[r].at = row.at
    \/ <<r, row.at>> \in lost
    \/ \E n \in notes : n[1] = r /\ hist[r][n[2]].at = row.at

\* What the load holds: alerts and channels that are there, or were.
LoadInv ==
    /\ \A a \in found : alert[a] # "absent"
    /\ \A r \in todo : alert[r[1]] # "absent"
    /\ \A p \in Templates \X Teams :
          seen[p].channel # NoChannel => channel[seen[p].channel].state # "absent"

ToldInv == \A r \in Rules : \A i \in 1 .. Len(hist[r]) : Told(r, hist[r][i])

\* Something a run refers to was deleted, or its attempts failed.
Gone == \/ \E a \in Alerts : alert[a] = "gone"
        \/ \E c \in Channels : channel[c].state = "gone"

FaultInv == Gone \/ (tries <= faults + 1 /\ (lost # {} => faults >= DbTries))

IInv == Types /\ HistInv /\ NoteInv /\ RunInv /\ LoadInv /\ ToldInv /\ FaultInv

-----------------------------------------------------------------------------
(* What the invariant says of the properties *)

LEMMA TypesImplied == IInv => TypeOK
<1> SUFFICES ASSUME IInv PROVE TypeOK
  OBVIOUS
<1> USE DEF IInv
<1>1. \A r \in Rules : \A i \in 1 .. Len(hist[r]) : hist[r][i] \in HistoryRow
  BY DEF Types, TableTypes, RunTypes
<1>2. \A n \in notes : n[1] \in Rules /\ n[2] \in 1 .. Len(hist[n[1]]) /\ n[3] \in Channels
  BY DEF Types, TableTypes, RunTypes, NoteInv
<1> QED
  BY <1>1, <1>2 DEF Types, TableTypes, RunTypes, LoadTypes, RunInv, TypeOK, ConfigInv

LEMMA EdgesImplied == IInv => EdgesAlternate
  BY DEF IInv, HistInv, LogInv, Alternates, EdgesAlternate

LEMMA NotesImplied == IInv => NotesAreEdges /\ AllChannelsOrNone
<1> SUFFICES ASSUME IInv PROVE NotesAreEdges /\ AllChannelsOrNone
  OBVIOUS
<1>1. ASSUME NEW n \in notes
      PROVE  /\ hist[n[1]][n[2]].status \in {"TRIGGERED", "RECOVERED"}
             /\ n[3] \in hist[n[1]][n[2]].to \cap LiveChannels
  <2>1. n[1] \in Rules /\ n[2] \in 1 .. Len(hist[n[1]])
    BY DEF IInv, Types, TableTypes, NoteInv
  <2>2. hist[n[1]][n[2]] \in HistoryRow
    BY <2>1 DEF IInv, Types, TableTypes
  <2> QED
    BY <2>2 DEF IInv, NoteInv, HistoryRow, Statuses
<1>2. ASSUME NEW r \in Rules, NEW i \in 1 .. Len(hist[r])
      PROVE  {n[3] : n \in {m \in notes : m[1] = r /\ m[2] = i}} \in {{}, hist[r][i].to \cap LiveChannels}
  <2> DEFINE reached == {n[3] : n \in {m \in notes : m[1] = r /\ m[2] = i}}
             due == hist[r][i].to \cap LiveChannels
  <2>1. reached \subseteq due
    BY DEF IInv, NoteInv
  <2>2. ASSUME reached # {} PROVE due \subseteq reached
    <3>1. PICK n \in notes : n[1] = r /\ n[2] = i
      BY <2>2
    <3>2. \A c \in due : \E m \in notes : m[1] = r /\ m[2] = i /\ m[3] = c
      BY <3>1 DEF IInv, NoteInv
    <3> QED
      BY <3>2
  <2> QED
    BY <2>1, <2>2
<1> QED
  BY <1>1, <1>2 DEF NotesAreEdges, AllChannelsOrNone

LEMMA SilenceImplied == IInv => SilentEdgesAccounted
  BY DEF IInv, FaultInv, Gone, ToldInv, Told, SilentEdgesAccounted

LEMMA NothingSeen ==
    /\ NoneSeen \in [Templates \X Teams -> Override]
    /\ \A p \in Templates \X Teams : NoneSeen[p].channel = NoChannel
<1>1. NoOverride \in Override /\ NoOverride.channel = NoChannel
  BY DEF NoOverride, Override
<1> QED
  BY <1>1 DEF NoneSeen

LEMMA Initially == Init => IInv
<1> SUFFICES ASSUME Init PROVE IInv
  OBVIOUS
<1>1. ConfigInv
  <2>1. NoOverride \in Override /\ NoOverride.channel = NoChannel
    BY DEF NoOverride, Override
  <2>2. override = [p \in Templates \X Teams |-> NoOverride]
    BY DEF Init
  <2>3. /\ override \in [Templates \X Teams -> Override]
        /\ \A p \in Templates \X Teams : override[p].channel = NoChannel
    BY <2>1, <2>2
  <2>4. [state |-> "live", primary |-> TRUE, active |-> TRUE] \in Row
    BY DEF Row
  <2>5. /\ alert \in [Alerts -> {"absent", "on", "off", "gone"}]
        /\ channel \in [Channels -> Row \cup {NoRow("absent"), NoRow("gone")}]
        /\ edits \in 0 .. MaxEdits
    BY <2>4, ConfigAssumption DEF Init
  <2> QED
    BY <2>3, <2>5 DEF ConfigInv, ConfigTypeOK, OverridesLive
<1>2. /\ DOMAIN rules = {} /\ DOMAIN previous = {} /\ DOMAIN events = {} /\ DOMAIN rowOf = {}
      /\ \A r \in Rules : hist[r] = <<>>
  BY DEF Init, Empty
<1>3. Types
  <2>1. TableTypes /\ RunTypes
    BY <1>1, <1>2, EvaluatorAssumption DEF TableTypes, RunTypes, Init, Steps, Readings
  <2> QED
    BY <2>1, NothingSeen DEF Types, LoadTypes, Init
<1>4. HistInv
  BY <1>2 DEF HistInv, LogInv, Alternates
<1>5. NoteInv /\ ToldInv
  BY <1>2 DEF NoteInv, ToldInv, Init
<1>6. RunInv /\ LoadInv
  BY <1>2, NothingSeen DEF RunInv, LoadInv, Init
<1>7. FaultInv
  BY EvaluatorAssumption DEF FaultInv, Init
<1> QED
  BY <1>3, <1>4, <1>5, <1>6, <1>7 DEF IInv

-----------------------------------------------------------------------------
(* Histories *)

LEMMA Appending ==
    ASSUME NEW h \in Seq(HistoryRow), NEW e \in HistoryRow, LogInv(h), Follows(h, e)
    PROVE  /\ Append(h, e) \in Seq(HistoryRow)
           /\ LogInv(Append(h, e))
           /\ Follows(Append(h, e), e)
           /\ Len(h) \in Nat
           /\ Len(Append(h, e)) = Len(h) + 1 /\ Append(h, e)[Len(h) + 1] = e
           /\ \A i \in 1 .. Len(h) : Append(h, e)[i] = h[i]
<1> DEFINE g == Append(h, e)  n == Len(h)
<1>1. n \in Nat /\ g \in Seq(HistoryRow) /\ Len(g) = n + 1 /\ g[n + 1] = e /\ g # <<>>
  OBVIOUS
<1>2. \A i \in 1 .. n : g[i] = h[i] /\ h[i] \in HistoryRow
  OBVIOUS
<1>3. e.at \in Nat /\ e.at \in 1 .. n + 1
  BY DEF Follows, HistoryRow
<1>4. \A i \in 1 .. n : h[i].at \in 1 .. i /\ h[i].at <= e.at /\ (h[i].at = e.at => h[i] = e)
  BY DEF Follows, LogInv
<1>5. \A i \in 1 .. n + 1 : g[i].at \in 1 .. i /\ g[i].at <= e.at /\ (g[i].at = e.at => g[i] = e)
  BY <1>1, <1>2, <1>3, <1>4
<1>6. \A i, j \in 1 .. n + 1 : g[i].at = g[j].at => g[i] = g[j]
  <2> SUFFICES ASSUME NEW i \in 1 .. n + 1, NEW j \in 1 .. n + 1, g[i].at = g[j].at
               PROVE  g[i] = g[j]
    OBVIOUS
  <2>1. CASE i \in 1 .. n /\ j \in 1 .. n
    BY <2>1, <1>2 DEF LogInv
  <2>2. CASE i = n + 1 \/ j = n + 1
    BY <2>2, <1>1, <1>5
  <2> QED
    BY <2>1, <2>2, <1>1
<1>7. Alternates(g)
  <2> SUFFICES ASSUME NEW i \in 1 .. n + 1
               PROVE  LET last == IF i = 1 THEN [status |-> "OK", at |-> 0] ELSE g[i - 1]
                      IN IF g[i].at = last.at THEN g[i].status = last.status
                         ELSE /\ g[i].at > last.at
                              /\ g[i].status = "TRIGGERED" => last.status # "TRIGGERED"
                              /\ g[i].status = "RECOVERED" => last.status = "TRIGGERED"
    BY <1>1 DEF Alternates
  <2>1. CASE i \in 1 .. n
    <3>1. g[i] = h[i] /\ (i # 1 => g[i - 1] = h[i - 1])
      BY <2>1, <1>1, <1>2
    <3> QED
      BY <2>1, <3>1 DEF LogInv, Alternates
  <2>2. CASE i = n + 1 /\ n = 0
    BY <2>2, <1>1, <1>3 DEF Follows
  <2>3. CASE i = n + 1 /\ n # 0
    <3>1. n \in 1 .. n /\ g[i] = e /\ g[i - 1] = h[n] /\ h # <<>>
      BY <2>3, <1>1, <1>2
    <3>2. h[n].at <= e.at /\ h[n].at \in Nat /\ (h[n].at = e.at => h[n] = e)
      BY <3>1, <1>4
    <3>3. \/ h[n].at = e.at
          \/ /\ e.status = "TRIGGERED" => h[n].status # "TRIGGERED"
             /\ e.status = "RECOVERED" => h[n].status = "TRIGGERED"
      BY <3>1 DEF Follows
    <3> QED
      BY <2>3, <3>1, <3>2, <3>3, <1>3
  <2> QED
    BY <2>1, <2>2, <2>3, <1>1
<1>8. Follows(g, e)
  BY <1>1, <1>3, <1>5 DEF Follows
<1> QED
  BY <1>1, <1>2, <1>5, <1>6, <1>7, <1>8 DEF LogInv

-----------------------------------------------------------------------------
(* The end of an attempt and of a run *)

\* Nothing is held of the load.
LEMMA Unloading ==
    ASSUME NoLoad
    PROVE  LoadTypes' /\ LoadInv'
  BY NothingSeen DEF NoLoad, LoadTypes, LoadInv

\* A run that has forgotten everything promises nothing.
LEMMA Forgetting ==
    ASSUME Forget
    PROVE  RunTypes' /\ RunInv' /\ LoadTypes' /\ LoadInv'
<1>1. /\ DOMAIN rules' = {} /\ DOMAIN previous' = {} /\ DOMAIN events' = {} /\ DOMAIN rowOf' = {}
      /\ step' = "idle" /\ tries' = 0 /\ reading' \in [Alerts -> Readings]
  BY DEF Forget, Empty, Readings
<1>2. RunTypes'
  BY <1>1, EvaluatorAssumption DEF RunTypes, Steps
<1>3. RunInv'
  BY <1>1 DEF RunInv
<1>4. LoadTypes' /\ LoadInv'
  BY <1>1, Unloading DEF Forget
<1> QED
  BY <1>2, <1>3, <1>4

\* Told, but for what this step does to the run.
ToldBefore ==
    \A r \in Rules : \A i \in 1 .. Len(hist'[r]) :
        LET row == hist'[r][i]
        IN \/ row.status = "ERROR"
           \/ row.to \cap LiveChannels' = {}
           \/ r \in DOMAIN events /\ events[r].at = row.at
           \/ <<r, row.at>> \in lost
           \/ \E n \in notes' : n[1] = r /\ hist'[r][n[2]].at = row.at

LEMMA TellingKept ==
    ASSUME ToldBefore, UNCHANGED <<events, lost>>
    PROVE  ToldInv'
  BY DEF ToldBefore, ToldInv, Told

\* Another attempt, or the run fails and its events are lost.
LEMMA RetryTold ==
    ASSUME ToldBefore, RetryOrFail
    PROVE  ToldInv'
<1>1. CASE UNCHANGED <<events, lost>>
  BY <1>1, TellingKept
<1>2. CASE FailRun
  <2>1. lost \subseteq lost' /\ \A r \in DOMAIN events : <<r, events[r].at>> \in lost'
    BY <1>2 DEF FailRun
  <2>2. ASSUME NEW r \in Rules, NEW i \in 1 .. Len(hist'[r])
        PROVE  Told(r, hist[r][i])'
    <3>1. PICK row : row = hist'[r][i]
      OBVIOUS
    <3>2. \/ row.status = "ERROR"
          \/ row.to \cap LiveChannels' = {}
          \/ r \in DOMAIN events /\ events[r].at = row.at
          \/ <<r, row.at>> \in lost
          \/ \E n \in notes' : n[1] = r /\ hist'[r][n[2]].at = row.at
      BY <2>2, <3>1, Zenon DEF ToldBefore
    <3>3. r \in DOMAIN events /\ events[r].at = row.at => <<r, row.at>> \in lost'
      BY <2>1
    <3> QED  BY <2>1, <3>1, <3>2, <3>3 DEF Told
  <2> QED  BY <2>2 DEF ToldInv
<1> QED
  BY <1>1, <1>2 DEF RetryOrFail

LEMMA RetryFaults ==
    ASSUME Types, FaultInv, UNCHANGED config, RetryOrFail, Fault \/ (Gone /\ UNCHANGED budget)
    PROVE  FaultInv' /\ faults' \in Nat
<1> USE EvaluatorAssumption DEF Types, TableTypes, RunTypes, FaultInv
<1>1. Gone' = Gone
  BY DEF Gone, config
<1>2. CASE Gone /\ UNCHANGED budget
  BY <1>1, <1>2 DEF budget
<1>3. CASE Fault
  <2>1. faults' = faults + 1
    BY <1>3 DEF Fault
  <2>2. CASE FailRun /\ tries >= DbTries
    BY <1>1, <2>1, <2>2 DEF FailRun, Forget
  <2>3. CASE tries' = tries + 1 /\ lost' = lost
    BY <1>1, <2>1, <2>3
  <2> QED
    BY <2>2, <2>3 DEF RetryOrFail
<1> QED
  BY <1>2, <1>3

LEMMA RetryTypes ==
    ASSUME Types, RetryOrFail
    PROVE  RunTypes' /\ LoadTypes'
<1>1. CASE FailRun
  BY <1>1, Forgetting DEF FailRun
<1>2. CASE /\ tries < DbTries /\ tries' = tries + 1
           /\ UNCHANGED <<step, rules, reading, previous, events, rowOf, load, lost>>
  BY <1>2, EvaluatorAssumption DEF Types, RunTypes, LoadTypes, load
<1> QED
  BY <1>1, <1>2 DEF RetryOrFail

LEMMA RetryRun ==
    ASSUME LoadInv, UNCHANGED config, RetryOrFail,
           UNCHANGED <<step, rules, previous, events, rowOf>> => RunInv'
    PROVE  RunInv' /\ LoadInv'
  BY Forgetting DEF RetryOrFail, FailRun, LoadInv, load, config

\* Steps that leave the tables alone.
LEMMA TablesKept ==
    ASSUME IInv, UNCHANGED <<config, edits, hist, notes>>, bad' \subseteq Alerts, faults' \in Nat
    PROVE  /\ TableTypes' /\ HistInv' /\ NoteInv' /\ ToldBefore
           /\ Gone' = Gone
           /\ UNCHANGED <<rules, events, rowOf, previous, step>> => RunInv'
<1> USE DEF IInv, config
<1>1. ConfigInv'
  BY ConfigStep DEF Types, TableTypes
<1>2. TableTypes'
  BY <1>1 DEF Types, TableTypes
<1>3. LiveChannels' = LiveChannels /\ LiveAlerts' = LiveAlerts
  BY DEF LiveChannels, LiveAlerts
<1>4. HistInv'
  BY <1>3 DEF HistInv, Live
<1>5. NoteInv'
  BY <1>3 DEF NoteInv
<1>6. ToldBefore
  BY <1>3 DEF ToldInv, Told, ToldBefore
<1>7. Gone' = Gone
  BY DEF Gone
<1>8. UNCHANGED <<rules, events, rowOf, previous, step>> => RunInv'
  BY <1>3 DEF RunInv, Live, StatusOf
<1> QED
  BY <1>2, <1>4, <1>5, <1>6, <1>7, <1>8

\* What was read stays right while rows are only created, changed and deleted.
LEMMA LoadKept ==
    ASSUME LoadTypes, LoadInv, UNCHANGED <<found, seen, todo>>, steady' \subseteq steady,
           step' \in Reads <=> step \in Reads,
           \A a \in Alerts : alert[a] # "absent" => alert'[a] # "absent",
           \A c \in Channels : channel[c].state # "absent" => channel'[c].state # "absent"
    PROVE  LoadTypes' /\ LoadInv'
<1>1. LoadTypes'
  BY DEF LoadTypes
<1>2. \A r \in todo : r[1] \in Alerts
  BY DEF LoadTypes, Rules
<1>3. \A p \in Templates \X Teams : seen[p].channel \in Channels \cup {NoChannel}
  BY DEF LoadTypes, Override
<1>4. LoadInv'
  BY <1>2, <1>3 DEF LoadInv, LoadTypes
<1> QED
  BY <1>1, <1>4

LEMMA LoadStands ==
    ASSUME IInv, UNCHANGED <<config, load>>, step' \in Reads <=> step \in Reads
    PROVE  LoadTypes' /\ LoadInv'
  BY LoadKept DEF IInv, Types, load, config

LEMMA NewActivity ==
    ASSUME IInv, tries' = 1, UNCHANGED <<config, faults, lost>>
    PROVE  FaultInv' /\ tries' \in 0 .. DbTries
<1>1. Gone' = Gone
  BY DEF Gone, config
<1> QED
  BY <1>1, EvaluatorAssumption DEF IInv, FaultInv, Types, TableTypes

LEMMA Finishing ==
    ASSUME IInv, Finish, UNCHANGED <<config, faults>>
    PROVE  FaultInv' /\ RunTypes' /\ RunInv' /\ LoadTypes' /\ LoadInv'
<1>1. Gone' = Gone
  BY DEF Gone, config
<1>2. FaultInv'
  BY <1>1 DEF IInv, FaultInv, Types, TableTypes, Finish, Forget
<1> QED
  BY <1>2, Forgetting DEF Finish

-----------------------------------------------------------------------------
(* The steps of a run that only read *)

LEMMA QuietTold ==
    ASSUME ToldBefore, DOMAIN events = {}, UNCHANGED lost
    PROVE  ToldInv'
  BY DEF ToldBefore, ToldInv, Told

LEMMA TickStep == ASSUME IInv, Tick PROVE IInv'
<1>1. /\ UNCHANGED <<config, edits, hist, notes, bad, faults, lost, rules, events, rowOf, previous, reading>>
      /\ UNCHANGED load
      /\ step = "idle" /\ step' = "rules" /\ tries' = 1
  BY DEF Tick, Goto, budget
<1>2. RunTypes' /\ LoadTypes'
  BY <1>1, NewActivity DEF IInv, Types, RunTypes, LoadTypes, load, Steps, Reads
<1>3. RunInv'
  BY <1>1 DEF IInv, RunInv, config
<1>4. LoadInv'
  BY <1>1 DEF IInv, LoadInv, load, config
<1> QED
  BY <1>1, <1>2, <1>3, <1>4, TablesKept, TellingKept, NewActivity DEF IInv, Types, TableTypes

\* A read of the load: the tables stay, and of the run only the rules and what
\* has been read may change.
LEMMA ReadStep ==
    ASSUME IInv, NEW from \in Reads, NEW to \in Reads, Read(from, to),
           found' \subseteq Alerts, seen' \in [Templates \X Teams -> Override],
           todo' \subseteq Rules, steady' \subseteq Rules,
           LoadInv',
           DOMAIN rules' \subseteq Rules,
           \A r \in DOMAIN rules' : /\ rules'[r] \subseteq Channels
                                    /\ alert'[r[1]] # "absent"
                                    /\ \A c \in rules'[r] : channel'[c].state # "absent"
    PROVE  IInv'
<1>1. /\ UNCHANGED <<config, edits, hist, notes, bad, faults, lost, tries, reading, previous, events, rowOf>>
      /\ step \in Reads /\ step' \in Reads
  BY DEF Read, budget
<1>2. DOMAIN previous = {} /\ DOMAIN events = {} /\ DOMAIN rowOf = {}
  BY <1>1 DEF IInv, RunInv, Reads
<1>3. TableTypes' /\ HistInv' /\ NoteInv' /\ ToldInv' /\ Gone' = Gone
  BY <1>1, TablesKept, TellingKept DEF IInv, Types, TableTypes
<1>4. RunTypes' /\ LoadTypes'
  BY <1>1, <1>2 DEF IInv, Types, RunTypes, LoadTypes, Steps
<1>5. RunInv'
  BY <1>1, <1>2 DEF RunInv, Reads
<1>6. FaultInv'
  BY <1>1, <1>3 DEF IInv, FaultInv
<1> QED
  BY <1>3, <1>4, <1>5, <1>6 DEF IInv, Types

LEMMA ReadTeamAlertsStep == ASSUME IInv, ReadTeamAlerts PROVE IInv'
<1>1. /\ Read("rules", "templates") /\ UNCHANGED config
      /\ found' = {a \in Alerts \ Templates : alert[a] = "on"}
      /\ steady' = Rules /\ UNCHANGED <<rules, seen, todo>>
  BY DEF ReadTeamAlerts, Read
<1>2. LoadInv'
  BY <1>1 DEF IInv, LoadInv, config
<1> QED
  BY <1>1, <1>2, ReadStep DEF IInv, Types, RunTypes, LoadTypes, RunInv, Reads, config

LEMMA ReadTemplatesStep == ASSUME IInv, ReadTemplates PROVE IInv'
<1>1. /\ Read("templates", "overrides") /\ UNCHANGED config
      /\ found' = found \cup {a \in Templates : alert[a] = "on"}
      /\ UNCHANGED <<rules, seen, todo, steady>>
  BY DEF ReadTemplates, Read
<1>2. LoadInv' /\ found' \subseteq Alerts
  BY <1>1, ConfigAssumption DEF IInv, Types, LoadTypes, LoadInv, config
<1> QED
  BY <1>1, <1>2, ReadStep DEF IInv, Types, RunTypes, LoadTypes, RunInv, Reads, config

LEMMA ReadOverridesStep == ASSUME IInv, ReadOverrides PROVE IInv'
<1>1. /\ Read("overrides", "channels") /\ UNCHANGED config
      /\ seen' = override
      /\ todo' = {<<a, AlertTeam[a]>> : a \in found \ Templates}
      /\ UNCHANGED <<rules, found, steady>>
  BY DEF ReadOverrides, Read
<1>2. /\ override \in [Templates \X Teams -> Override]
      /\ \A p \in Templates \X Teams :
            override[p].channel # NoChannel => channel[override[p].channel].state # "absent"
  BY DEF IInv, Types, TableTypes, ConfigInv, ConfigTypeOK, OverridesLive, LiveChannels
<1>3. found \subseteq Alerts /\ \A a \in found : alert[a] # "absent"
  BY DEF IInv, Types, LoadTypes, LoadInv
<1>4. todo' \subseteq Rules /\ LoadInv'
  BY <1>1, <1>2, <1>3, ConfigAssumption DEF LoadInv, Rules, config
<1> QED
  BY <1>1, <1>2, <1>4, ReadStep DEF IInv, Types, RunTypes, LoadTypes, RunInv, Reads, config

\* What the two statements about the channels of a rule return was there.
LEMMA ReadLinksStep == ASSUME IInv, NEW r \in Rules, ReadLinks(r) PROVE IInv'
<1> DEFINE new == Named(r) \cup LinkedChannels(r[1])
<1>1. /\ Read("channels", "primary") /\ UNCHANGED config
      /\ r \in todo /\ rules' = [x \in DOMAIN rules \cup {r} |-> IF x = r THEN new ELSE rules[x]]
      /\ UNCHANGED <<found, seen, todo, steady>>
  BY DEF ReadLinks, Read, load
<1>2. new \subseteq Channels /\ \A c \in new : channel[c].state # "absent"
  <2>1. ASSUME NEW c \in Channels, r[1] \in Templates, c = seen[r].channel
        PROVE  channel[c].state # "absent"
    <3>1. r \in Templates \X Teams
      BY <2>1 DEF Rules
    <3> QED
      BY <2>1, <3>1, ConfigAssumption DEF IInv, LoadInv
  <2> QED
    BY <2>1 DEF Named, LinkedChannels, LiveChannels
<1>3. DOMAIN rules \subseteq Rules
      /\ \A x \in DOMAIN rules : /\ rules[x] \subseteq Channels /\ alert[x[1]] # "absent"
                                 /\ \A c \in rules[x] : channel[c].state # "absent"
  BY DEF IInv, Types, RunTypes, RunInv
<1>4. alert[r[1]] # "absent"
  BY <1>1 DEF IInv, LoadInv
<1> HIDE DEF new
<1>5. /\ DOMAIN rules' = DOMAIN rules \cup {r}
      /\ \A x \in DOMAIN rules' : rules'[x] = IF x = r THEN new ELSE rules[x]
  BY <1>1
<1>6. \A x \in DOMAIN rules' : /\ x \in Rules /\ rules'[x] \subseteq Channels /\ alert'[x[1]] # "absent"
                               /\ \A c \in rules'[x] : channel'[c].state # "absent"
  BY <1>1, <1>2, <1>3, <1>4, <1>5 DEF config
<1>7. LoadInv'
  BY <1>1 DEF IInv, LoadInv, config
<1> QED
  BY <1>1, <1>6, <1>7, ReadStep DEF IInv, Types, LoadTypes, Reads

LEMMA ReadPrimaryStep == ASSUME IInv, NEW r \in Rules, ReadPrimary(r) PROVE IInv'
<1>1. /\ Read("primary", "channels") /\ UNCHANGED config
      /\ r \in DOMAIN rules /\ rules' = [rules EXCEPT ![r] = rules[r] \cup PrimaryChannels(r[2])]
      /\ todo' = todo \ {r} /\ UNCHANGED <<found, seen, steady>>
  BY DEF ReadPrimary, Read
<1>2. PrimaryChannels(r[2]) \subseteq Channels /\ \A c \in PrimaryChannels(r[2]) : channel[c].state # "absent"
  BY DEF PrimaryChannels, LiveChannels
<1>3. DOMAIN rules \subseteq Rules
      /\ \A x \in DOMAIN rules : /\ rules[x] \subseteq Channels /\ alert[x[1]] # "absent"
                                 /\ \A c \in rules[x] : channel[c].state # "absent"
  BY DEF IInv, Types, RunTypes, RunInv
<1>4. \A x \in DOMAIN rules' : /\ x \in Rules /\ rules'[x] \subseteq Channels /\ alert'[x[1]] # "absent"
                               /\ \A c \in rules'[x] : channel'[c].state # "absent"
  BY <1>1, <1>2, <1>3 DEF config
<1>5. LoadInv' /\ todo' \subseteq Rules
  BY <1>1 DEF IInv, Types, LoadTypes, LoadInv, config
<1> QED
  BY <1>1, <1>4, <1>5, ReadStep DEF IInv, Types, LoadTypes, Reads

LEMMA ReadTeamsStep == ASSUME IInv, ReadTeams PROVE IInv'
<1>1. /\ Read("channels", "channels") /\ UNCHANGED config
      /\ found' = {} /\ UNCHANGED <<rules, seen, steady>>
      /\ \A r \in todo' : r \in (found \cap Templates) \X Teams
  BY DEF ReadTeams, Read
<1>2. LoadInv' /\ todo' \subseteq Rules
  BY <1>1 DEF IInv, Types, LoadTypes, LoadInv, Rules, config
<1> QED
  BY <1>1, <1>2, ReadStep DEF IInv, Types, RunTypes, LoadTypes, RunInv, Reads, config

LEMMA LoadRulesStep == ASSUME IInv, LoadRules PROVE IInv'
<1> USE DEF IInv, Types
<1>1. /\ UNCHANGED <<config, edits, hist, notes, bad, faults, lost>>
      /\ step = "channels" /\ DOMAIN events = {} /\ DOMAIN previous = {} /\ DOMAIN rowOf = {}
  BY DEF LoadRules, AllRead, Finish, budget, RunInv
<1>2. TableTypes' /\ HistInv' /\ NoteInv' /\ ToldInv'
  BY <1>1, TablesKept, QuietTold DEF TableTypes
<1>3. CASE Finish
  BY <1>1, <1>2, <1>3, Finishing
<1>4. CASE ~Finish
  <2>1. /\ step' = "snapshots" /\ tries' = 1 /\ NoLoad
        /\ UNCHANGED <<rules, reading, previous, events, rowOf>>
    BY <1>4 DEF LoadRules, Goto
  <2>2. RunTypes'
    BY <1>1, <2>1, NewActivity DEF RunTypes, Steps
  <2>3. RunInv'
    BY <1>1, <2>1 DEF RunInv, config
  <2> QED
    BY <1>1, <1>2, <2>1, <2>2, <2>3, NewActivity, Unloading
<1> QED
  BY <1>3, <1>4

LEMMA LoadFailsStep == ASSUME IInv, LoadFails PROVE IInv'
<1> USE DEF IInv, Types
<1>1. /\ UNCHANGED <<config, edits, hist, notes, bad>>
      /\ step \in Reads /\ Fault /\ tries \in 0 .. DbTries /\ faults' = faults + 1 /\ faults \in Nat
  BY DEF LoadFails, Fault, RunTypes, TableTypes
<1>2. DOMAIN events = {} /\ DOMAIN previous = {} /\ DOMAIN rowOf = {}
  BY <1>1 DEF RunInv, Reads
<1>3. /\ TableTypes' /\ HistInv' /\ NoteInv' /\ ToldBefore /\ Gone' = Gone
  BY <1>1, TablesKept DEF TableTypes
<1>4. CASE tries < DbTries /\ RestartLoad
  <2>1. /\ step' = "rules" /\ tries' = tries + 1 /\ DOMAIN rules' = {} /\ NoLoad
        /\ UNCHANGED <<reading, previous, events, rowOf, lost>>
    BY <1>4 DEF RestartLoad, Empty
  <2>2. RunTypes' /\ RunInv'
    BY <1>1, <1>2, <1>4, <2>1, EvaluatorAssumption DEF RunTypes, RunInv, Steps, Reads
  <2>3. FaultInv'
    BY <1>1, <1>3, <2>1, EvaluatorAssumption DEF FaultInv
  <2> QED
    BY <1>3, <2>1, <2>2, <2>3, TellingKept, Unloading
<1>5. CASE tries >= DbTries /\ FailRun
  <2>1. RetryOrFail
    BY <1>5 DEF RetryOrFail
  <2> QED
    BY <1>1, <1>3, <1>5, <2>1, RetryTold, RetryFaults, Forgetting DEF FailRun
<1> QED
  BY <1>4, <1>5 DEF LoadFails

LEMMA LoadSnapshotsStep == ASSUME IInv, LoadSnapshots PROVE IInv'
<1>1. /\ UNCHANGED load /\ UNCHANGED <<config, edits, hist, notes, bad, faults, lost, rules, events, rowOf, previous>>
      /\ step = "snapshots" /\ step' = "previous" /\ tries' = 1
  BY DEF LoadSnapshots, Goto
<1>2. reading' \in [Alerts -> Readings]
  BY DEF LoadSnapshots, Readings
<1>3. RunTypes'
  BY <1>1, <1>2, NewActivity DEF IInv, Types, RunTypes, Steps
<1>4. RunInv'
  BY <1>1 DEF IInv, RunInv, config
<1>5. LoadTypes' /\ LoadInv'
  BY <1>1, LoadStands DEF Reads
<1> QED
  BY <1>1, <1>3, <1>4, <1>5, TablesKept, TellingKept, NewActivity DEF IInv, Types, TableTypes

LEMMA LoadPreviousStep == ASSUME IInv, LoadPrevious PROVE IInv'
<1>1. /\ UNCHANGED load /\ UNCHANGED <<config, edits, hist, notes, bad, faults, lost, rules, events, rowOf, reading>>
      /\ step = "previous" /\ step' = "evaluate" /\ tries' = 1
      /\ previous' = [r \in DOMAIN rules |-> StatusOf(r)]
  BY DEF LoadPrevious, Goto, budget
<1>2. \A r \in DOMAIN rules : StatusOf(r) \in Statuses
  <2> SUFFICES ASSUME NEW r \in DOMAIN rules, hist[r] # <<>> PROVE StatusOf(r) \in Statuses
    BY DEF StatusOf, Statuses
  <2>1. hist[r] \in Seq(HistoryRow)
    BY DEF IInv, Types, TableTypes, RunTypes
  <2>2. hist[r][Len(hist[r])] \in HistoryRow
    BY <2>1
  <2> QED
    BY <2>2 DEF StatusOf, Last, HistoryRow
<1>3. DOMAIN events = {} /\ DOMAIN rowOf = {}
  BY <1>1 DEF IInv, RunInv
<1>4. RunTypes'
  BY <1>1, <1>2, <1>3, NewActivity DEF IInv, Types, RunTypes, Steps
<1>5. \A r \in DOMAIN rules : StatusOf(r)' = StatusOf(r)
  BY <1>1 DEF StatusOf
<1>6. RunInv'
  BY <1>1, <1>3, <1>5 DEF IInv, RunInv, config
<1>7. LoadTypes' /\ LoadInv'
  BY <1>1, LoadStands DEF Reads
<1> QED
  BY <1>1, <1>4, <1>6, <1>7, TablesKept, TellingKept, NewActivity DEF IInv, Types, TableTypes

\* An event that has just been decided continues the history of its rule.
LEMMA DecisionFollows ==
    ASSUME IInv, step = "evaluate", NEW r \in DOMAIN rules, Live(r), Decision(r) # "OK"
    PROVE  Follows(hist[r], [status |-> Decision(r), at |-> Len(hist[r]) + 1, to |-> rules[r]])
<1> DEFINE h == hist[r]  e == [status |-> Decision(r), at |-> Len(h) + 1, to |-> rules[r]]
<1>1. h \in Seq(HistoryRow) /\ Len(h) \in Nat
  BY DEF IInv, Types, TableTypes, RunTypes
<1>2. \A i \in 1 .. Len(h) : h[i].at \in 1 .. i
  BY DEF IInv, Types, RunTypes, HistInv, LogInv
<1>3. previous[r] = StatusOf(r)
  BY DEF IInv, RunInv
<1>4. /\ Decision(r) = "TRIGGERED" => StatusOf(r) # "TRIGGERED"
      /\ Decision(r) = "RECOVERED" => StatusOf(r) = "TRIGGERED"
  BY <1>3 DEF Decision, Verdict
<1>5. StatusOf(r) = IF h = <<>> THEN "OK" ELSE h[Len(h)].status
  BY DEF StatusOf, Last
<1>6. /\ e.at = Len(h) + 1 /\ e.status = Decision(r)
      /\ \A i \in 1 .. Len(h) : h[i].at \in Nat /\ h[i].at < e.at
  BY <1>1, <1>2
<1> HIDE DEF e, h
<1>7. Follows(h, e)
  <2>1. e.at \in 1 .. Len(h) + 1
    BY <1>1, <1>6
  <2>2. ASSUME NEW i \in 1 .. Len(h)
        PROVE  h[i].at <= e.at /\ (h[i].at = e.at => h[i] = e)
    BY <1>6, <2>1
  <2>3. CASE h = <<>>
    BY <1>4, <1>5, <1>6, <2>1, <2>2, <2>3 DEF Follows
  <2>4. CASE h # <<>>
    BY <1>4, <1>5, <1>6, <2>1, <2>2, <2>4 DEF Follows
  <2> QED
    BY <2>3, <2>4
<1> QED
  BY <1>7 DEF h, e

LEMMA EvaluateStep == ASSUME IInv, Evaluate PROVE IInv'
<1> USE DEF IInv, Types
<1> DEFINE E == {r \in DOMAIN rules : Decision(r) # "OK"}
<1>1. /\ UNCHANGED <<config, edits, hist, notes, bad, faults, lost>>
      /\ step = "evaluate" /\ DOMAIN events = {} /\ DOMAIN rowOf = {}
  BY DEF Evaluate, Finish, budget, RunInv
<1>2. TableTypes' /\ HistInv' /\ NoteInv' /\ ToldInv'
  BY <1>1, TablesKept, QuietTold DEF TableTypes
<1>3. CASE Finish
  BY <1>1, <1>2, <1>3, Finishing
<1>4. CASE ~Finish
  <2>1. /\ events' = [r \in E |-> [status |-> Decision(r), at |-> Len(hist[r]) + 1, to |-> rules[r]]]
        /\ step' = "persist" /\ tries' = 1
        /\ UNCHANGED <<rules, reading, previous, rowOf>> /\ UNCHANGED load
    BY <1>4 DEF Evaluate, Goto
  <2>2. ASSUME NEW r \in DOMAIN events'
        PROVE  /\ r \in DOMAIN rules /\ events'[r] \in HistoryRow /\ events'[r].to = rules[r]
               /\ Live(r) => Follows(hist[r], events'[r])
    <3>1. /\ r \in DOMAIN rules /\ Decision(r) # "OK"
          /\ events'[r] = [status |-> Decision(r), at |-> Len(hist[r]) + 1, to |-> rules[r]]
      BY <2>1, <2>2
    <3>2. Decision(r) \in Statuses \ {"OK"}
      BY <3>1 DEF Decision, Verdict, Statuses
    <3>3. Len(hist[r]) + 1 \in Nat
      BY <3>1 DEF TableTypes, RunTypes
    <3> QED
      BY <1>1, <3>1, <3>2, <3>3, DecisionFollows DEF HistoryRow, RunTypes
  <2>3. DOMAIN previous = DOMAIN rules
    BY <1>1 DEF RunInv
  <2>4. RunTypes'
    BY <1>1, <2>1, <2>2, <2>3, NewActivity DEF RunTypes, Steps
  <2>5. \A r \in Rules : Live(r)' = Live(r)
    BY <1>1 DEF Live, LiveAlerts, config
  <2>6. RunInv'
    <3>1. \A r \in DOMAIN events' : r \in Rules
      BY <2>2 DEF RunTypes
    <3> QED
      BY <1>1, <2>1, <2>2, <2>5, <3>1 DEF RunInv, config
  <2>7. LoadTypes' /\ LoadInv'
    BY <1>1, <2>1, LoadStands DEF Reads
  <2> QED
    BY <1>1, <1>2, <2>1, <2>4, <2>6, <2>7, NewActivity
<1> QED
  BY <1>3, <1>4

-----------------------------------------------------------------------------
(* The steps of a run that write *)

\* The history rows of the run's events, committed once more.
LEMMA CommitHistoryAdds ==
    ASSUME IInv, step = "persist", CanPersist, CommitHistory,
           UNCHANGED <<config, edits, bad, notes>>, faults' \in Nat
    PROVE  /\ TableTypes' /\ HistInv' /\ NoteInv' /\ ToldBefore
           /\ \A r \in DOMAIN events :
                 /\ Len(hist'[r]) = Len(hist[r]) + 1 /\ hist'[r][Len(hist[r]) + 1] = events[r]
                 /\ Len(hist[r]) \in Nat
                 /\ Follows(hist'[r], events[r])
<1> USE DEF IInv, Types, TableTypes, RunTypes, config
<1>1. ASSUME NEW r \in DOMAIN events
      PROVE  /\ r \in Rules /\ Live(r)
             /\ hist[r] \in Seq(HistoryRow) /\ events[r] \in HistoryRow
             /\ hist'[r] = Append(hist[r], events[r])
             /\ \A c \in events[r].to : channel[c].state # "absent"
             /\ LogInv(hist[r]) /\ Follows(hist[r], events[r])
  <2>1. r \in Rules /\ r \in DOMAIN rules /\ events[r] \in HistoryRow
    OBVIOUS
  <2>2. Live(r)
    BY DEF CanPersist, Live
  <2>3. hist'[r] = Append(hist[r], events[r])
    BY <2>1 DEF CommitHistory
  <2>4. LogInv(hist[r])
    BY <2>1 DEF HistInv
  <2>5. events[r].to = rules[r] /\ Follows(hist[r], events[r])
    BY <2>2 DEF RunInv
  <2> QED
    BY <2>1, <2>2, <2>3, <2>4, <2>5 DEF RunInv
<1>2. ASSUME NEW r \in DOMAIN events
      PROVE  /\ hist'[r] \in Seq(HistoryRow) /\ LogInv(hist'[r]) /\ Follows(hist'[r], events[r])
             /\ Len(hist[r]) \in Nat
             /\ Len(hist'[r]) = Len(hist[r]) + 1 /\ hist'[r][Len(hist[r]) + 1] = events[r]
             /\ \A i \in 1 .. Len(hist[r]) : hist'[r][i] = hist[r][i]
  <2> DEFINE h == hist[r]  e == events[r]
  <2>1. /\ h \in Seq(HistoryRow) /\ e \in HistoryRow /\ LogInv(h) /\ Follows(h, e)
        /\ hist'[r] = Append(h, e)
    BY <1>1
  <2> HIDE DEF h, e
  <2>2. /\ hist'[r] \in Seq(HistoryRow) /\ LogInv(hist'[r]) /\ Follows(hist'[r], e)
        /\ Len(h) \in Nat
        /\ Len(hist'[r]) = Len(h) + 1 /\ hist'[r][Len(h) + 1] = e
        /\ \A i \in 1 .. Len(h) : hist'[r][i] = h[i]
    BY ONLY <2>1, Appending
  <2> QED
    BY <2>2 DEF h, e
<1>3. \A r \in Rules \ DOMAIN events : hist'[r] = hist[r]
  BY DEF CommitHistory
<1>4. hist' \in [Rules -> Seq(HistoryRow)]
  <2>1. \A r \in Rules : hist'[r] \in Seq(HistoryRow)
    BY <1>2, <1>3
  <2> QED
    BY <2>1 DEF CommitHistory
<1>5. ConfigInv'
  BY ConfigStep
<1>6. LiveChannels' = LiveChannels /\ LiveAlerts' = LiveAlerts
  BY DEF LiveChannels, LiveAlerts
<1>7. TableTypes'
  BY <1>4, <1>5
<1>8. HistInv'
  <2>1. ASSUME NEW r \in DOMAIN events
        PROVE  /\ LogInv(hist'[r]) /\ Live(r)
               /\ \A i \in 1 .. Len(hist'[r]) : \A c \in hist'[r][i].to : channel[c].state # "absent"
    <3>1. ASSUME NEW i \in 1 .. Len(hist'[r]), NEW c \in hist'[r][i].to
          PROVE  channel[c].state # "absent"
      <4>1. CASE i \in 1 .. Len(hist[r])
        BY <1>1, <1>2, <4>1 DEF HistInv
      <4>2. CASE i = Len(hist[r]) + 1
        BY <1>1, <1>2, <4>2
      <4> QED
        BY <1>2, <4>1, <4>2
    <3> QED
      BY <1>1, <1>2, <3>1
  <2>2. \A r \in Rules : /\ LogInv(hist'[r]) /\ (hist'[r] # <<>> => Live(r))
                         /\ \A i \in 1 .. Len(hist'[r]) : \A c \in hist'[r][i].to : channel[c].state # "absent"
    BY <1>3, <2>1 DEF HistInv
  <2> QED
    BY <1>6, <2>2 DEF HistInv, Live
<1>9. \A n \in notes : n[2] \in 1 .. Len(hist'[n[1]]) /\ hist'[n[1]][n[2]] = hist[n[1]][n[2]]
  <2> SUFFICES ASSUME NEW n \in notes
               PROVE  n[2] \in 1 .. Len(hist'[n[1]]) /\ hist'[n[1]][n[2]] = hist[n[1]][n[2]]
    OBVIOUS
  <2>1. n[1] \in Rules /\ n[2] \in 1 .. Len(hist[n[1]])
    BY DEF NoteInv
  <2>2. CASE n[1] \in DOMAIN events
    BY <1>2, <2>1, <2>2
  <2> QED
    BY <1>3, <2>1, <2>2
<1>10. NoteInv'
  <2> SUFFICES ASSUME NEW n \in notes
               PROVE  /\ n[2] \in 1 .. Len(hist'[n[1]])
                      /\ hist'[n[1]][n[2]].status # "ERROR"
                      /\ n[3] \in hist'[n[1]][n[2]].to \cap LiveChannels
                      /\ \A c \in hist'[n[1]][n[2]].to \cap LiveChannels :
                            \E m \in notes : m[1] = n[1] /\ m[2] = n[2] /\ m[3] = c
    BY <1>6 DEF NoteInv
  <2>1. /\ hist[n[1]][n[2]].status # "ERROR"
        /\ n[3] \in hist[n[1]][n[2]].to \cap LiveChannels
        /\ \A c \in hist[n[1]][n[2]].to \cap LiveChannels :
              \E m \in notes : m[1] = n[1] /\ m[2] = n[2] /\ m[3] = c
    BY DEF NoteInv
  <2>2. n[2] \in 1 .. Len(hist'[n[1]]) /\ hist'[n[1]][n[2]] = hist[n[1]][n[2]]
    BY <1>9
  <2> QED
    BY ONLY <2>1, <2>2
<1>11. ToldBefore
  <2> SUFFICES ASSUME NEW r \in Rules, NEW i \in 1 .. Len(hist'[r])
               PROVE  \/ hist'[r][i].status = "ERROR"
                      \/ hist'[r][i].to \cap LiveChannels = {}
                      \/ r \in DOMAIN events /\ events[r].at = hist'[r][i].at
                      \/ <<r, hist'[r][i].at>> \in lost
                      \/ \E n \in notes : n[1] = r /\ hist'[r][n[2]].at = hist'[r][i].at
    BY <1>6 DEF ToldBefore
  <2>1. CASE i \in 1 .. Len(hist[r]) /\ hist'[r][i] = hist[r][i]
    <3>1. Told(r, hist[r][i])
      BY <2>1 DEF ToldInv
    <3> QED
      BY <1>9, <2>1, <3>1 DEF Told
  <2>2. CASE r \in DOMAIN events /\ i = Len(hist[r]) + 1
    BY <1>2, <2>2
  <2>3. CASE r \notin DOMAIN events
    BY <1>3, <2>1, <2>3
  <2>4. CASE r \in DOMAIN events /\ i # Len(hist[r]) + 1
    BY <1>2, <2>1, <2>4
  <2> QED
    BY <2>2, <2>3, <2>4
<1> QED
  BY <1>2, <1>7, <1>8, <1>10, <1>11

LEMMA PersistStep == ASSUME IInv, Persist PROVE IInv'
<1>1. /\ UNCHANGED <<config, edits, bad, notes, rules, reading, previous, events, faults, lost>>
      /\ UNCHANGED load /\ step = "persist" /\ step' = "enqueue" /\ tries' = 1
      /\ CanPersist /\ CommitHistory
      /\ rowOf' = [r \in DOMAIN events |-> Len(hist[r]) + 1]
  BY DEF Persist, Goto, budget
<1>2. faults' \in Nat
  BY <1>1 DEF IInv, Types, TableTypes
<1>3. /\ TableTypes' /\ HistInv' /\ NoteInv' /\ ToldBefore
      /\ \A r \in DOMAIN events :
             /\ Len(hist'[r]) = Len(hist[r]) + 1 /\ hist'[r][Len(hist[r]) + 1] = events[r]
             /\ Len(hist[r]) \in Nat
  BY <1>1, <1>2, CommitHistoryAdds
<1>4. RunTypes'
  BY <1>1, NewActivity DEF IInv, Types, RunTypes, Steps
<1>5. RunInv'
  <2>1. \A r \in DOMAIN events : rowOf'[r] \in 1 .. Len(hist'[r]) /\ hist'[r][rowOf'[r]] = events[r]
    BY <1>1, <1>3
  <2> QED
    BY <1>1, <2>1 DEF IInv, RunInv, config
<1>6. LoadTypes' /\ LoadInv'
  BY <1>1, LoadStands DEF Reads
<1> QED
  BY <1>1, <1>3, <1>4, <1>5, <1>6, NewActivity, TellingKept DEF IInv, Types

LEMMA PersistLostStep == ASSUME IInv, PersistLost PROVE IInv'
<1>1. /\ UNCHANGED <<config, edits, bad, notes>>
      /\ step = "persist" /\ CanPersist /\ CommitHistory /\ Fault /\ RetryOrFail
  BY DEF PersistLost
<1>2. faults' \in Nat /\ FaultInv'
  BY <1>1, RetryFaults DEF IInv
<1>3. /\ TableTypes' /\ HistInv' /\ NoteInv' /\ ToldBefore
      /\ \A r \in DOMAIN events : Follows(hist'[r], events[r])
  BY <1>1, <1>2, CommitHistoryAdds
<1>4. UNCHANGED <<step, rules, previous, events, rowOf>> => RunInv'
  BY <1>1, <1>3 DEF IInv, RunInv, config
<1> QED
  BY <1>1, <1>2, <1>3, <1>4, RetryTypes, RetryRun, RetryTold DEF IInv, Types

\* An attempt that has changed nothing.
LEMMA IdleAttempt ==
    ASSUME IInv, RetryOrFail, UNCHANGED <<config, edits, bad, hist, notes>>,
           Fault \/ (Gone /\ UNCHANGED budget)
    PROVE  IInv'
<1>1. faults' \in Nat /\ FaultInv'
  BY RetryFaults DEF IInv
<1>2. bad' \subseteq Alerts
  BY DEF IInv, Types, TableTypes
<1>3. /\ TableTypes' /\ HistInv' /\ NoteInv' /\ ToldBefore
      /\ UNCHANGED <<step, rules, previous, events, rowOf>> => RunInv'
  BY <1>1, <1>2, TablesKept
<1> QED
  BY <1>1, <1>3, RetryTypes, RetryRun, RetryTold DEF IInv, Types

LEMMA AttemptFailsStep == ASSUME IInv, AttemptFails PROVE IInv'
  BY IdleAttempt DEF AttemptFails

LEMMA PersistRejectedStep == ASSUME IInv, PersistRejected PROVE IInv'
<1>1. PICK r \in DOMAIN events : r[1] \notin LiveAlerts
  BY DEF PersistRejected, CanPersist
<1>2. r \in DOMAIN rules /\ r[1] \in Alerts /\ alert[r[1]] # "absent"
  BY DEF IInv, Types, RunTypes, RunInv, Rules
<1>3. Gone
  BY <1>1, <1>2 DEF Gone, LiveAlerts, IInv, Types, TableTypes, ConfigInv, ConfigTypeOK
<1> QED
  BY <1>3, IdleAttempt DEF PersistRejected

LEMMA EnqueueRejectedStep == ASSUME IInv, EnqueueRejected PROVE IInv'
<1>1. PICK p \in Pairs : p[1][1] \notin LiveAlerts \/ p[3] \notin LiveChannels
  BY DEF EnqueueRejected, CanEnqueue
<1>2. PICK r \in DOMAIN events : p \in {<<r, rowOf[r], c>> : c \in events[r].to}
  BY DEF Pairs
<1>3. PICK c \in events[r].to : p = <<r, rowOf[r], c>>
  BY <1>2
<1>4. /\ r \in DOMAIN rules /\ r[1] \in Alerts /\ alert[r[1]] # "absent"
      /\ c \in rules[r] /\ c \in Channels /\ channel[c].state # "absent"
  BY DEF IInv, Types, RunTypes, RunInv, Rules
<1>5. channel[c].state \in {"live", "absent", "gone"}
  BY <1>4 DEF IInv, Types, TableTypes, ConfigInv, ConfigTypeOK, Row, NoRow
<1>6. alert[r[1]] \in {"absent", "on", "off", "gone"}
  BY <1>4 DEF IInv, Types, TableTypes, ConfigInv, ConfigTypeOK
<1>7. Gone
  BY <1>1, <1>3, <1>4, <1>5, <1>6 DEF Gone, LiveAlerts, LiveChannels
<1> QED
  BY <1>7, IdleAttempt DEF EnqueueRejected

\* The notifications of the run's events, committed once more: afterwards
\* every channel of every event has been told.
LEMMA CommitNotesAdds ==
    ASSUME IInv, step = "enqueue", CanEnqueue, CommitNotes,
           UNCHANGED <<config, edits, bad, hist>>, faults' \in Nat
    PROVE  /\ TableTypes' /\ HistInv' /\ NoteInv' /\ ToldBefore
           /\ \A r \in DOMAIN events : \A i \in 1 .. Len(hist[r]) :
                 events[r].at = hist[r][i].at =>
                    \/ hist[r][i].status = "ERROR"
                    \/ hist[r][i].to \cap LiveChannels = {}
                    \/ \E n \in notes' : n[1] = r /\ hist[r][n[2]].at = hist[r][i].at
<1> USE DEF IInv, Types, TableTypes, RunTypes, config
<1>1. ASSUME NEW r \in DOMAIN events, Live(r)
      PROVE  /\ r \in Rules
             /\ rowOf[r] \in 1 .. Len(hist[r]) /\ hist[r][rowOf[r]] = events[r]
             /\ LogInv(hist[r])
  BY <1>1 DEF RunInv, HistInv
<1>2. ASSUME NEW r \in DOMAIN events, events[r].status # "ERROR", NEW c \in events[r].to
      PROVE  /\ Live(r) /\ c \in LiveChannels
             /\ \E m \in notes' : m[1] = r /\ m[2] = rowOf[r] /\ m[3] = c
  <2> DEFINE p == <<r, rowOf[r], c>>
  <2>1. p \in Pairs
    BY <1>2 DEF Pairs
  <2>2. <<p[1], p[2], p[3], Copies(p) + 1>> \in notes'
    BY <2>1 DEF CommitNotes
  <2> QED
    BY <2>1, <2>2 DEF CanEnqueue, Live
<1>3. notes \subseteq notes'
  BY DEF CommitNotes
<1>4. ASSUME NEW n \in notes', n \notin notes
      PROVE  \E r \in DOMAIN events : \E c \in events[r].to :
                events[r].status # "ERROR" /\ n[1] = r /\ n[2] = rowOf[r] /\ n[3] = c
  <2>1. PICK p \in Pairs : n = <<p[1], p[2], p[3], Copies(p) + 1>>
    BY <1>4 DEF CommitNotes
  <2>2. PICK r \in {e \in DOMAIN events : events[e].status # "ERROR"} :
          p \in {<<r, rowOf[r], c>> : c \in events[r].to}
    BY DEF Pairs
  <2>3. PICK c \in events[r].to : p = <<r, rowOf[r], c>>
    BY <2>2
  <2> QED
    BY <2>1, <2>2, <2>3
<1>5. LiveChannels' = LiveChannels /\ LiveAlerts' = LiveAlerts
  BY DEF LiveChannels, LiveAlerts
<1>6. ASSUME NEW n \in notes', n \notin notes
      PROVE  /\ n[1] \in Rules /\ n[3] \in Channels
             /\ n[2] \in 1 .. Len(hist[n[1]])
             /\ hist[n[1]][n[2]].status # "ERROR"
             /\ n[3] \in hist[n[1]][n[2]].to \cap LiveChannels
             /\ \A c \in hist[n[1]][n[2]].to \cap LiveChannels :
                   \E m \in notes' : m[1] = n[1] /\ m[2] = n[2] /\ m[3] = c
  <2>1. PICK r \in DOMAIN events : \E c \in events[r].to :
              events[r].status # "ERROR" /\ n[1] = r /\ n[2] = rowOf[r] /\ n[3] = c
    BY <1>4, <1>6
  <2>2. Live(r)
    BY <1>2, <2>1
  <2>3. hist[n[1]][n[2]] = events[r] /\ n[2] \in 1 .. Len(hist[n[1]]) /\ n[1] \in Rules
    BY <1>1, <2>1, <2>2
  <2> QED
    BY <1>2, <2>1, <2>3 DEF LiveChannels
<1>7. ConfigInv'
  BY ConfigStep
<1>8. TableTypes'
  <2>1. \A n \in notes' : n[1] \in Rules /\ n[2] \in Nat /\ n[3] \in Channels
    BY <1>6
  <2> QED
    BY <1>7, <2>1
<1>9. HistInv'
  BY <1>5 DEF HistInv, Live
<1>10. NoteInv'
  <2> SUFFICES ASSUME NEW n \in notes'
               PROVE  /\ n[2] \in 1 .. Len(hist[n[1]])
                      /\ hist[n[1]][n[2]].status # "ERROR"
                      /\ n[3] \in hist[n[1]][n[2]].to \cap LiveChannels
                      /\ \A c \in hist[n[1]][n[2]].to \cap LiveChannels :
                            \E m \in notes' : m[1] = n[1] /\ m[2] = n[2] /\ m[3] = c
    BY <1>5 DEF NoteInv
  <2>1. CASE n \in notes
    BY <1>3, <2>1 DEF NoteInv
  <2>2. CASE n \notin notes
    BY <1>6, <2>2
  <2> QED
    BY <2>1, <2>2
<1>11. ToldBefore
  <2> SUFFICES ASSUME NEW r \in Rules, NEW i \in 1 .. Len(hist[r])
               PROVE  \/ hist[r][i].status = "ERROR"
                      \/ hist[r][i].to \cap LiveChannels = {}
                      \/ r \in DOMAIN events /\ events[r].at = hist[r][i].at
                      \/ <<r, hist[r][i].at>> \in lost
                      \/ \E n \in notes' : n[1] = r /\ hist[r][n[2]].at = hist[r][i].at
    BY <1>5 DEF ToldBefore
  <2>1. Told(r, hist[r][i])
    BY DEF ToldInv
  <2> QED
    BY <1>3, <2>1 DEF Told
<1>12. ASSUME NEW r \in DOMAIN events, NEW i \in 1 .. Len(hist[r]), events[r].at = hist[r][i].at,
              hist[r][i].status # "ERROR", NEW c \in hist[r][i].to \cap LiveChannels
       PROVE  \E n \in notes' : n[1] = r /\ hist[r][n[2]].at = hist[r][i].at
  <2>1. r \in Rules /\ hist[r] # <<>>
    BY <1>12
  <2>2. Live(r)
    BY <2>1 DEF HistInv
  <2>3. hist[r][i] = events[r] /\ hist[r][rowOf[r]] = events[r]
    <3>1. /\ rowOf[r] \in 1 .. Len(hist[r]) /\ hist[r][rowOf[r]] = events[r]
          /\ \A j, k \in 1 .. Len(hist[r]) : hist[r][j].at = hist[r][k].at => hist[r][j] = hist[r][k]
      BY <1>1, <2>2 DEF LogInv
    <3> QED
      BY ONLY <1>12, <3>1
  <2>4. PICK m \in notes' : m[1] = r /\ m[2] = rowOf[r]
    BY <1>2, <1>12, <2>3
  <2> QED
    BY <2>3, <2>4
<1> QED
  BY <1>8, <1>9, <1>10, <1>11, <1>12

LEMMA EnqueueStep == ASSUME IInv, Enqueue PROVE IInv'
<1>1. /\ UNCHANGED <<config, edits, bad, hist, faults, lost>>
      /\ step = "enqueue" /\ CanEnqueue /\ CommitNotes /\ Finish
  BY DEF Enqueue, Finish, budget
<1>2. faults' \in Nat
  BY <1>1 DEF IInv, Types, TableTypes
<1>3. /\ TableTypes' /\ HistInv' /\ NoteInv' /\ ToldBefore
      /\ \A r \in DOMAIN events : \A i \in 1 .. Len(hist[r]) :
            events[r].at = hist[r][i].at =>
               \/ hist[r][i].status = "ERROR"
               \/ hist[r][i].to \cap LiveChannels = {}
               \/ \E n \in notes' : n[1] = r /\ hist[r][n[2]].at = hist[r][i].at
  BY <1>1, <1>2, CommitNotesAdds
<1>4. LiveChannels' = LiveChannels
  BY <1>1 DEF LiveChannels, config
<1>5. ToldInv'
  BY <1>1, <1>3, <1>4 DEF ToldBefore, ToldInv, Told
<1> QED
  BY <1>1, <1>3, <1>5, Finishing DEF IInv, Types

LEMMA EnqueueLostStep == ASSUME IInv, EnqueueLost PROVE IInv'
<1>1. /\ UNCHANGED <<config, edits, bad, hist>>
      /\ step = "enqueue" /\ CanEnqueue /\ CommitNotes /\ Fault /\ RetryOrFail
  BY DEF EnqueueLost
<1>2. faults' \in Nat /\ FaultInv'
  BY <1>1, RetryFaults DEF IInv
<1>3. TableTypes' /\ HistInv' /\ NoteInv' /\ ToldBefore
  BY <1>1, <1>2, CommitNotesAdds
<1>4. UNCHANGED <<step, rules, previous, events, rowOf>> => RunInv'
  BY <1>1 DEF IInv, RunInv, Live, LiveAlerts, StatusOf, config
<1> QED
  BY <1>1, <1>2, <1>3, <1>4, RetryTypes, RetryRun, RetryTold DEF IInv, Types

-----------------------------------------------------------------------------
(* Measurements and API calls *)

LEMMA ChangeStep == ASSUME IInv, NEW a \in Alerts, Change(a) PROVE IInv'
<1>1. UNCHANGED <<config, edits, hist, notes, run, faults, lost>> /\ UNCHANGED load
  BY DEF Change
<1>2. bad' \subseteq Alerts /\ faults' \in Nat
  BY <1>1 DEF Change, IInv, Types, TableTypes
<1>3. /\ TableTypes' /\ HistInv' /\ NoteInv' /\ ToldBefore /\ Gone' = Gone
      /\ UNCHANGED <<rules, events, rowOf, previous, step>> => RunInv'
  BY <1>1, <1>2, TablesKept
<1>4. RunTypes' /\ FaultInv'
  BY <1>1, <1>3 DEF run, IInv, Types, RunTypes, FaultInv
<1>5. LoadTypes' /\ LoadInv'
  BY <1>1, LoadStands DEF run
<1> QED
  BY <1>1, <1>3, <1>4, <1>5, TellingKept DEF run, IInv, Types

\* Creating and updating rows: what has existed stays as live as it was.
LEMMA EditsKeep ==
    ASSUME ConfigInv, EditAlerts \/ EditChannels
    PROVE  /\ ConfigInv'
           /\ \A a \in Alerts : alert[a] # "absent" =>
                 alert'[a] # "absent" /\ (a \in LiveAlerts' <=> a \in LiveAlerts)
           /\ \A c \in Channels : channel[c].state # "absent" =>
                 channel'[c].state # "absent" /\ (c \in LiveChannels' <=> c \in LiveChannels)
           /\ Gone => Gone'
<1>1. ConfigNext
  BY DEF ConfigNext
<1>2. ConfigInv'
  BY <1>1, ConfigStep
<1> USE DEF ConfigInv, ConfigTypeOK, LiveAlerts, LiveChannels
<1>3. /\ \A a \in Alerts : a \in LiveAlerts => a \in LiveAlerts'
      /\ \A c \in Channels : c \in LiveChannels => c \in LiveChannels'
  <2>1. CASE EditAlerts
    BY <2>1 DEF EditAlerts, CreateAlert, UpdateAlert, UpsertOverride
  <2>2. CASE EditChannels
    BY <2>2 DEF EditChannels, CreateChannel, UpdateChannel, Row
  <2> QED
    BY <2>1, <2>2
<1>4. /\ \A a \in Alerts : alert[a] # "absent" =>
            alert'[a] # "absent" /\ (alert[a] = "gone" => alert'[a] = "gone")
      /\ \A c \in Channels : channel[c].state # "absent" =>
            channel'[c].state # "absent" /\ (channel[c].state = "gone" => channel'[c].state = "gone")
  BY <1>1, OnlyGone
<1>5. \A c \in Channels : channel[c].state \in {"live", "absent", "gone"}
  BY DEF Row, NoRow
<1>6. \A a \in Alerts : alert[a] \in {"absent", "on", "off", "gone"}
  OBVIOUS
<1>7. \A a \in Alerts : alert[a] # "absent" => (a \in LiveAlerts' <=> a \in LiveAlerts)
  BY <1>3, <1>4, <1>6
<1>8. \A c \in Channels : channel[c].state # "absent" => (c \in LiveChannels' <=> c \in LiveChannels)
  BY <1>3, <1>4, <1>5
<1>9. Gone => Gone'
  BY <1>4 DEF Gone
<1> QED
  BY <1>2, <1>4, <1>7, <1>8, <1>9

LEMMA EditStep ==
    ASSUME IInv, EditAlerts \/ EditChannels, Watch, UNCHANGED <<bad, hist, notes, run, budget, lost>>
    PROVE  IInv'
<1> USE DEF run, budget
<1>1. ConfigInv
  BY DEF IInv, Types, TableTypes
<1>2. /\ ConfigInv' /\ (Gone => Gone')
      /\ \A a \in Alerts : alert[a] # "absent" =>
            alert'[a] # "absent" /\ (a \in LiveAlerts' <=> a \in LiveAlerts)
      /\ \A c \in Channels : channel[c].state # "absent" =>
            channel'[c].state # "absent" /\ (c \in LiveChannels' <=> c \in LiveChannels)
  BY <1>1, EditsKeep
<1>3. Types' /\ LoadInv'
  <2>1. TableTypes' /\ RunTypes'
    BY <1>2 DEF IInv, Types, TableTypes, RunTypes
  <2> QED
    BY <1>2, <2>1, LoadKept DEF IInv, Types, Watch
<1>4. \A r \in Rules : r[1] \in Alerts /\ (alert[r[1]] # "absent" => (Live(r)' <=> Live(r)))
  BY <1>2 DEF Rules, Live
<1>5. ASSUME NEW r \in Rules, NEW i \in 1 .. Len(hist[r])
      PROVE  /\ \A c \in hist[r][i].to : channel'[c].state # "absent"
             /\ hist[r][i].to \cap LiveChannels' = hist[r][i].to \cap LiveChannels
  <2>1. hist[r][i].to \subseteq Channels
    <3>1. hist[r][i] \in HistoryRow
      BY DEF IInv, Types, TableTypes
    <3> QED
      BY <3>1 DEF HistoryRow
  <2>2. \A c \in hist[r][i].to : channel[c].state # "absent"
    BY DEF IInv, HistInv
  <2> QED
    BY <1>2, <2>1, <2>2
<1>6. HistInv'
  <2>1. ASSUME NEW r \in Rules, hist[r] # <<>> PROVE Live(r)'
    <3>1. r[1] \in LiveAlerts /\ alert[r[1]] # "absent"
      BY <2>1 DEF IInv, HistInv, Live, LiveAlerts
    <3> QED
      BY <1>4, <3>1 DEF Live
  <2> QED
    BY <1>5, <2>1 DEF IInv, HistInv
<1>7. NoteInv'
  <2> SUFFICES ASSUME NEW n \in notes
               PROVE  /\ n[2] \in 1 .. Len(hist[n[1]])
                      /\ hist[n[1]][n[2]].status # "ERROR"
                      /\ n[3] \in hist[n[1]][n[2]].to \cap LiveChannels'
                      /\ \A c \in hist[n[1]][n[2]].to \cap LiveChannels' :
                            \E m \in notes : m[1] = n[1] /\ m[2] = n[2] /\ m[3] = c
    BY DEF NoteInv
  <2>1. n[1] \in Rules /\ n[2] \in 1 .. Len(hist[n[1]])
    BY DEF IInv, Types, TableTypes, NoteInv
  <2>2. hist[n[1]][n[2]].to \cap LiveChannels' = hist[n[1]][n[2]].to \cap LiveChannels
    BY <1>5, <2>1
  <2> QED
    BY <2>1, <2>2 DEF IInv, NoteInv
<1>8. ToldInv'
  <2> SUFFICES ASSUME NEW r \in Rules, NEW i \in 1 .. Len(hist[r])
               PROVE  Told(r, hist[r][i])'
    BY DEF ToldInv
  <2>1. Told(r, hist[r][i])
    BY DEF IInv, ToldInv
  <2> QED
    BY <1>5, <2>1 DEF Told
<1>9. RunInv'
  <2>1. \A r \in DOMAIN rules :
           /\ alert'[r[1]] # "absent" /\ (Live(r)' <=> Live(r))
           /\ \A c \in rules[r] : channel'[c].state # "absent"
    <3> SUFFICES ASSUME NEW r \in DOMAIN rules
                 PROVE  /\ alert'[r[1]] # "absent" /\ (Live(r)' <=> Live(r))
                        /\ \A c \in rules[r] : channel'[c].state # "absent"
      OBVIOUS
    <3>1. r \in Rules /\ rules[r] \subseteq Channels /\ alert[r[1]] # "absent"
          /\ \A c \in rules[r] : channel[c].state # "absent"
      BY DEF IInv, Types, RunTypes, RunInv
    <3> QED
      BY <1>2, <1>4, <3>1
  <2>2. \A r \in DOMAIN rules : StatusOf(r)' = StatusOf(r)
    BY DEF StatusOf
  <2>3. DOMAIN events \subseteq DOMAIN rules
    BY DEF IInv, Types, RunTypes
  <2> QED
    BY <2>1, <2>2, <2>3 DEF IInv, RunInv
<1>10. FaultInv'
  BY <1>2 DEF IInv, FaultInv
<1> QED
  BY <1>3, <1>6, <1>7, <1>8, <1>9, <1>10 DEF IInv

LEMMA CascadeAlertStep == ASSUME IInv, NEW a \in Alerts, CascadeAlert(a) PROVE IInv'
<1> USE DEF run, budget
<1>1. /\ UNCHANGED <<bad, channel, run, budget, lost>> /\ Watch
      /\ alert' = [alert EXCEPT ![a] = "gone"]
      /\ hist' = [r \in Rules |-> IF r[1] = a THEN <<>> ELSE hist[r]]
      /\ notes' = {n \in notes : n[1][1] # a}
      /\ DeleteAlert(a)
  BY DEF CascadeAlert, DeleteAlert
<1>2. ConfigInv /\ alert \in [Alerts -> {"absent", "on", "off", "gone"}]
  BY DEF IInv, Types, TableTypes, ConfigInv, ConfigTypeOK
<1>3. ConfigInv'
  BY <1>1, <1>2, ConfigStep DEF ConfigNext
<1>4. Gone' /\ \A b \in Alerts : alert[b] # "absent" => alert'[b] # "absent"
  BY <1>1, <1>2 DEF Gone
<1>5. LiveChannels' = LiveChannels
  BY <1>1 DEF LiveChannels
<1>6. \A r \in Rules : Live(r)' <=> Live(r) /\ r[1] # a
  BY <1>1, <1>2 DEF Live, LiveAlerts, Rules
<1>7. Types' /\ LoadInv'
  <2>1. \A r \in Rules : hist'[r] \in Seq(HistoryRow)
    BY <1>1 DEF IInv, Types, TableTypes
  <2>2. hist' \in [Rules -> Seq(HistoryRow)]
    BY <1>1, <2>1
  <2>3. TableTypes' /\ RunTypes'
    BY <1>1, <1>3, <2>2 DEF IInv, Types, TableTypes, RunTypes
  <2> QED
    BY <1>1, <1>4, <2>3, LoadKept DEF IInv, Types, Watch
<1>8. HistInv'
  <2>1. \A r \in Rules : r[1] # a => hist'[r] = hist[r]
    BY <1>1
  <2>2. \A r \in Rules : r[1] = a => hist'[r] = <<>>
    BY <1>1
  <2>3. LogInv(<<>>)
    BY DEF LogInv, Alternates
  <2> QED
    BY <1>1, <1>6, <2>1, <2>2, <2>3 DEF IInv, HistInv
<1>9. \A n \in notes' : n \in notes /\ n[1] \in Rules /\ hist'[n[1]] = hist[n[1]]
  BY <1>1 DEF IInv, Types, TableTypes
<1>10. NoteInv'
  <2> SUFFICES ASSUME NEW n \in notes'
               PROVE  /\ n[2] \in 1 .. Len(hist[n[1]])
                      /\ hist[n[1]][n[2]].status # "ERROR"
                      /\ n[3] \in hist[n[1]][n[2]].to \cap LiveChannels
                      /\ \A c \in hist[n[1]][n[2]].to \cap LiveChannels :
                            \E m \in notes' : m[1] = n[1] /\ m[2] = n[2] /\ m[3] = c
    BY <1>5, <1>9 DEF NoteInv
  <2>1. ASSUME NEW c \in hist[n[1]][n[2]].to \cap LiveChannels
        PROVE  \E m \in notes' : m[1] = n[1] /\ m[2] = n[2] /\ m[3] = c
    <3>1. PICK m \in notes : m[1] = n[1] /\ m[2] = n[2] /\ m[3] = c
      BY <1>9 DEF IInv, NoteInv
    <3> QED
      BY <1>1, <3>1
  <2> QED
    BY <1>9, <2>1 DEF IInv, NoteInv
<1>11. ToldInv'
  <2> SUFFICES ASSUME NEW r \in Rules, NEW i \in 1 .. Len(hist'[r])
               PROVE  Told(r, hist[r][i])'
    BY DEF ToldInv
  <2>1. r[1] # a /\ hist'[r] = hist[r]
    BY <1>1
  <2>2. Told(r, hist[r][i])
    BY <2>1 DEF IInv, ToldInv
  <2>3. CASE \E n \in notes : n[1] = r /\ hist[r][n[2]].at = hist[r][i].at
    <3>1. PICK n \in notes : n[1] = r /\ hist[r][n[2]].at = hist[r][i].at
      BY <2>3
    <3>2. n \in notes'
      BY <1>1, <2>1, <3>1
    <3> QED
      BY <2>1, <3>1, <3>2 DEF Told
  <2> QED
    BY <1>1, <1>5, <2>1, <2>2, <2>3 DEF Told
<1>12. RunInv'
  <2>1. \A r \in Rules : Live(r)' => Live(r) /\ hist'[r] = hist[r] /\ StatusOf(r)' = StatusOf(r)
    BY <1>1, <1>6 DEF StatusOf
  <2>2. \A r \in Rules : hist'[r] = hist[r] \/ hist'[r] = <<>>
    BY <1>1
  <2>3. \A r \in DOMAIN rules : r \in Rules /\ r[1] \in Alerts
    BY DEF IInv, Types, RunTypes, Rules
  <2>4. DOMAIN events \subseteq DOMAIN rules /\ DOMAIN rowOf \subseteq DOMAIN events
    BY DEF IInv, Types, RunTypes, RunInv
  <2>5. \A r \in DOMAIN rules : alert'[r[1]] # "absent" /\ \A c \in rules[r] : channel'[c].state # "absent"
    BY <1>1, <1>4, <2>3 DEF IInv, RunInv
  <2>6. \A r \in DOMAIN rowOf : rowOf[r] \in 1 .. Len(hist'[r]) \/ hist'[r] = <<>>
    BY <2>2, <2>3, <2>4 DEF IInv, RunInv
  <2>7. step = "evaluate" => /\ DOMAIN previous = DOMAIN rules
                             /\ \A r \in DOMAIN rules : Live(r)' => previous[r] = StatusOf(r)'
    BY <2>1, <2>3 DEF IInv, RunInv
  <2>8. \A r \in DOMAIN events :
           /\ events[r].to = rules[r]
           /\ step = "persist" /\ Live(r)' => Follows(hist'[r], events[r])
           /\ step = "enqueue" /\ Live(r)' =>
                 rowOf[r] \in 1 .. Len(hist'[r]) /\ hist'[r][rowOf[r]] = events[r]
    BY <2>1, <2>3, <2>4 DEF IInv, RunInv
  <2> QED
    BY <1>1, <2>5, <2>6, <2>7, <2>8 DEF IInv, RunInv
<1>13. FaultInv'
  BY <1>4 DEF FaultInv
<1> QED
  BY <1>7, <1>8, <1>10, <1>11, <1>12, <1>13 DEF IInv

LEMMA CascadeChannelStep == ASSUME IInv, NEW c \in Channels, CascadeChannel(c) PROVE IInv'
<1> USE DEF run, budget
<1>1. /\ UNCHANGED <<bad, alert, hist, run, budget, lost>> /\ Watch
      /\ channel' = [channel EXCEPT ![c] = NoRow("gone")]
      /\ notes' = {n \in notes : n[3] # c}
      /\ DeleteChannel(c)
  BY DEF CascadeChannel, DeleteChannel
<1>2. ConfigInv /\ channel \in [Channels -> Row \cup {NoRow("absent"), NoRow("gone")}]
  BY DEF IInv, Types, TableTypes, ConfigInv, ConfigTypeOK
<1>3. ConfigInv'
  BY <1>1, <1>2, ConfigStep DEF ConfigNext
<1>4. channel'[c].state = "gone" /\ \A d \in Channels \ {c} : channel'[d] = channel[d]
  BY <1>1, <1>2 DEF NoRow
<1>5. /\ Gone' /\ LiveAlerts' = LiveAlerts /\ LiveChannels' = LiveChannels \ {c}
      /\ \A d \in Channels : channel[d].state # "absent" => channel'[d].state # "absent"
  BY <1>1, <1>4 DEF Gone, LiveAlerts, LiveChannels
<1>6. Types' /\ LoadInv'
  <2>1. TableTypes' /\ RunTypes'
    BY <1>1, <1>3 DEF IInv, Types, TableTypes, RunTypes
  <2> QED
    BY <1>1, <1>5, <2>1, LoadKept DEF IInv, Types, Watch
<1>7. \A r \in Rules : \A i \in 1 .. Len(hist[r]) : hist[r][i].to \subseteq Channels
  <2>1. \A r \in Rules : \A i \in 1 .. Len(hist[r]) : hist[r][i] \in HistoryRow
    BY DEF IInv, Types, TableTypes
  <2> QED
    BY <2>1 DEF HistoryRow
<1>8. HistInv'
  BY <1>1, <1>5, <1>7 DEF IInv, HistInv, Live
<1>9. ASSUME NEW n \in notes, NEW d \in hist[n[1]][n[2]].to \cap LiveChannels'
      PROVE  \E m \in notes' : m[1] = n[1] /\ m[2] = n[2] /\ m[3] = d
  <2>1. d # c /\ d \in hist[n[1]][n[2]].to \cap LiveChannels
    BY <1>5
  <2>2. PICK m \in notes : m[1] = n[1] /\ m[2] = n[2] /\ m[3] = d
    BY <2>1 DEF IInv, NoteInv
  <2> QED
    BY <1>1, <2>1, <2>2
<1>10. NoteInv'
  <2> SUFFICES ASSUME NEW n \in notes'
               PROVE  /\ n[2] \in 1 .. Len(hist[n[1]])
                      /\ hist[n[1]][n[2]].status # "ERROR"
                      /\ n[3] \in hist[n[1]][n[2]].to \cap LiveChannels'
                      /\ \A d \in hist[n[1]][n[2]].to \cap LiveChannels' :
                            \E m \in notes' : m[1] = n[1] /\ m[2] = n[2] /\ m[3] = d
    BY <1>1 DEF NoteInv
  <2>1. n \in notes /\ n[3] # c
    BY <1>1
  <2> QED
    BY <1>5, <1>9, <2>1 DEF IInv, NoteInv
<1>11. ToldInv'
  <2> SUFFICES ASSUME NEW r \in Rules, NEW i \in 1 .. Len(hist[r]),
                      NEW d \in hist[r][i].to \cap LiveChannels',
                      NEW n \in notes, n[1] = r, hist[r][n[2]].at = hist[r][i].at
               PROVE  \E m \in notes' : m[1] = r /\ hist[r][m[2]].at = hist[r][i].at
    <3> SUFFICES ASSUME NEW r \in Rules, NEW i \in 1 .. Len(hist[r]) PROVE Told(r, hist[r][i])'
      BY <1>1 DEF ToldInv
    <3>1. Told(r, hist[r][i])
      BY DEF IInv, ToldInv
    <3> QED
      BY <1>1, <1>5, <3>1 DEF Told
  <2>1. n[2] \in 1 .. Len(hist[r])
    BY DEF IInv, NoteInv
  <2>2. hist[r][n[2]] = hist[r][i]
    BY <2>1 DEF IInv, HistInv, LogInv
  <2>3. PICK m \in notes' : m[1] = n[1] /\ m[2] = n[2] /\ m[3] = d
    BY <1>9, <2>2
  <2> QED
    BY <2>3
<1>12. RunInv'
  <2>1. \A r \in DOMAIN rules : /\ alert'[r[1]] # "absent"
                                /\ \A d \in rules[r] : channel'[d].state # "absent"
    BY <1>1, <1>5 DEF IInv, Types, RunTypes, RunInv
  <2>2. \A r \in Rules : (Live(r)' <=> Live(r)) /\ StatusOf(r)' = StatusOf(r)
    BY <1>1, <1>5 DEF Live, StatusOf
  <2>3. DOMAIN events \subseteq DOMAIN rules /\ DOMAIN rules \subseteq Rules
    BY DEF IInv, Types, RunTypes
  <2> QED
    BY <1>1, <2>1, <2>2, <2>3 DEF IInv, RunInv
<1>13. FaultInv'
  BY <1>5 DEF FaultInv
<1> QED
  BY <1>6, <1>8, <1>10, <1>11, <1>12, <1>13 DEF IInv

LEMMA StutterStep == ASSUME IInv, UNCHANGED evars PROVE IInv'
<1> USE DEF evars, run, budget
<1>1. bad' \subseteq Alerts /\ faults' \in Nat
  BY DEF IInv, Types, TableTypes
<1>2. /\ TableTypes' /\ HistInv' /\ NoteInv' /\ ToldBefore /\ Gone' = Gone
      /\ UNCHANGED <<rules, events, rowOf, previous, step>> => RunInv'
  BY <1>1, TablesKept
<1>3. RunTypes' /\ FaultInv'
  BY <1>2 DEF IInv, Types, RunTypes, FaultInv
<1>4. LoadTypes' /\ LoadInv'
  BY LoadStands
<1> QED
  BY <1>2, <1>3, <1>4, TellingKept DEF IInv, Types

-----------------------------------------------------------------------------
(* The theorems *)

LEMMA Step == ASSUME IInv, [Next]_evars PROVE IInv'
<1>1. CASE Run
  BY <1>1, TickStep, ReadTeamAlertsStep, ReadTemplatesStep, ReadOverridesStep, ReadTeamsStep,
     ReadLinksStep, ReadPrimaryStep, LoadRulesStep, LoadSnapshotsStep, LoadPreviousStep,
     EvaluateStep, PersistStep, PersistRejectedStep, EnqueueStep, EnqueueRejectedStep
  DEF Run, Load
<1>2. CASE Faulty
  BY <1>2, LoadFailsStep, PersistLostStep, EnqueueLostStep, AttemptFailsStep DEF Faulty
<1>3. CASE Environment
  BY <1>3, ChangeStep, EditStep, CascadeAlertStep, CascadeChannelStep DEF Environment, Api
<1>4. CASE UNCHANGED evars
  BY <1>4, StutterStep
<1> QED
  BY <1>1, <1>2, <1>3, <1>4 DEF Next

LEMMA Invariance == Spec => []IInv
<1>1. Init => IInv
  BY Initially
<1>2. IInv /\ [Next]_evars => IInv'
  BY Step
<1> QED
  BY <1>1, <1>2, PTL DEF Spec

\* Every variable keeps its type, in particular every row a notification or
\* a run refers to by its place is there.
THEOREM TypeCorrect == Spec => []TypeOK
<1>1. IInv => TypeOK
  BY TypesImplied
<1> QED
  BY <1>1, Invariance, PTL

\* Edge triggering survives retried commits, failed runs and every edit of
\* the configuration during a run.
THEOREM AlternatingEdges == Spec => []EdgesAlternate
<1>1. IInv => EdgesAlternate
  BY EdgesImplied
<1> QED
  BY <1>1, Invariance, PTL

\* No notification without its TRIGGERED or RECOVERED row, and none for a
\* channel the row was not decided for.
THEOREM NotesBelongToEdges == Spec => []NotesAreEdges
<1>1. IInv => NotesAreEdges
  BY NotesImplied
<1> QED
  BY <1>1, Invariance, PTL

\* The channels of an edge are told together or not at all.
THEOREM ChannelsTogether == Spec => []AllChannelsOrNone
<1>1. IInv => AllChannelsOrNone
  BY NotesImplied
<1> QED
  BY <1>1, Invariance, PTL

\* An edge nobody was told of belongs to the present run or to one that
\* failed, and a run fails only for a stated reason.
THEOREM AccountedSilence == Spec => []SilentEdgesAccounted
<1>1. IInv => SilentEdgesAccounted
  BY SilenceImplied
<1> QED
  BY <1>1, Invariance, PTL

-----------------------------------------------------------------------------
(* How often a retry may repeat a row or a notification *)

\* The rows and the notifications of a tick stay behind the attempts made: a
\* tick writes its first row at the place its clock names.
RowsBounded == \A r \in Rules : \A i \in 1 .. Len(hist[r]) : i < hist[r][i].at + DbTries

NotesBounded == \A n \in notes : n[4] <= DbTries

Notified(p) == {n \in notes : <<n[1], n[2], n[3]>> = p}

RunBounded ==
    /\ step = "persist" => \A r \in DOMAIN events : Len(hist[r]) + 1 < events[r].at + tries
    /\ step = "enqueue" => \A p \in Pairs : IsFiniteSet(Notified(p)) /\ Cardinality(Notified(p)) < tries

RepeatInv == RowsBounded /\ NotesBounded /\ RunBounded

LEMMA RepeatsImplied == IInv /\ RepeatInv => RepeatsBounded
<1> SUFFICES ASSUME IInv, RepeatInv, NEW r \in Rules, NEW i \in 1 .. Len(hist[r])
             PROVE  Cardinality({j \in 1 .. Len(hist[r]) : hist[r][j].at = hist[r][i].at}) <= DbTries
  BY DEF RepeatsBounded, RepeatInv, NotesBounded
<1> DEFINE at == hist[r][i].at
           same == {j \in 1 .. Len(hist[r]) : hist[r][j].at = at}
<1>1. Len(hist[r]) \in Nat /\ at \in Nat /\ DbTries \in Nat \ {0}
  <2>1. hist[r] \in Seq(HistoryRow)
    BY DEF IInv, Types, TableTypes
  <2>2. Len(hist[r]) \in Nat /\ hist[r][i] \in HistoryRow
    BY <2>1
  <2> QED
    BY <2>2, EvaluatorAssumption DEF HistoryRow
<1>2. same \subseteq at .. at + DbTries - 1
  <2> SUFFICES ASSUME NEW j \in 1 .. Len(hist[r]), hist[r][j].at = at
               PROVE  j \in at .. at + DbTries - 1
    OBVIOUS
  <2>1. at \in 1 .. j
    BY DEF IInv, HistInv, LogInv
  <2>2. j < at + DbTries
    BY DEF RepeatInv, RowsBounded
  <2> QED
    BY <1>1, <2>1, <2>2
<1>3. IsFiniteSet(at .. at + DbTries - 1) /\ Cardinality(at .. at + DbTries - 1) = DbTries
  <2>1. /\ at \in Int /\ at + DbTries - 1 \in Int /\ ~ at > at + DbTries - 1
        /\ (at + DbTries - 1) - at + 1 = DbTries
    BY <1>1
  <2> HIDE DEF at
  <2> QED
    BY <2>1, FS_Interval
<1>4. Cardinality(same) <= Cardinality(at .. at + DbTries - 1)
  BY <1>2, <1>3, FS_Subset
<1> QED
  BY <1>3, <1>4

\* A step that writes no row and no notification, though it may delete some,
\* and after which the run is where it was or holds no event.
LEMMA Repeatless ==
    ASSUME IInv, RepeatInv, notes' \subseteq notes,
           \A r \in Rules : hist'[r] = hist[r] \/ hist'[r] = <<>>,
           \/ step' \notin {"persist", "enqueue"}
           \/ UNCHANGED <<step, events, rowOf>> /\ (tries' = tries \/ tries' = tries + 1)
    PROVE  RepeatInv'
<1>1. RowsBounded' /\ NotesBounded'
  BY DEF RepeatInv, RowsBounded, NotesBounded
<1>2. CASE step' \notin {"persist", "enqueue"}
  BY <1>1, <1>2 DEF RepeatInv, RunBounded
<1>3. CASE UNCHANGED <<step, events, rowOf>> /\ (tries' = tries \/ tries' = tries + 1)
  <2>1. tries \in Nat /\ tries' \in Nat /\ tries <= tries' /\ DOMAIN events \subseteq Rules
    BY <1>3, EvaluatorAssumption DEF IInv, Types, RunTypes
  <2>2. ASSUME step = "persist", NEW r \in DOMAIN events
        PROVE  Len(hist'[r]) + 1 < events[r].at + tries'
    <3>1. Len(hist[r]) + 1 < events[r].at + tries
      BY <2>2 DEF RepeatInv, RunBounded
    <3>2. hist[r] \in Seq(HistoryRow) /\ events[r].at \in Nat
      BY <2>1 DEF IInv, Types, TableTypes, RunTypes, HistoryRow
    <3>3. Len(hist[r]) \in Nat /\ Len(hist'[r]) <= Len(hist[r]) /\ Len(hist'[r]) \in Nat
      BY <2>1, <3>2
    <3> QED
      BY <2>1, <3>1, <3>2, <3>3
  <2>3. ASSUME step = "enqueue", NEW p \in Pairs
        PROVE  IsFiniteSet(Notified(p)') /\ Cardinality(Notified(p)') < tries'
    <3>1. IsFiniteSet(Notified(p)) /\ Cardinality(Notified(p)) < tries
      BY <2>3 DEF RepeatInv, RunBounded
    <3>2. Notified(p)' \subseteq Notified(p)
      BY DEF Notified
    <3>3. /\ IsFiniteSet(Notified(p)') /\ Cardinality(Notified(p)') <= Cardinality(Notified(p))
          /\ Cardinality(Notified(p)') \in Nat /\ Cardinality(Notified(p)) \in Nat
      BY <3>1, <3>2, FS_Subset, FS_CardinalityType
    <3> QED
      BY <2>1, <3>1, <3>3
  <2>4. Pairs' = Pairs
    BY <1>3 DEF Pairs
  <2>5. RunBounded'
    BY <1>3, <2>2, <2>3, <2>4 DEF RunBounded
  <2> QED
    BY <1>1, <2>5 DEF RepeatInv
<1> QED
  BY <1>2, <1>3

\* The first attempt at the history rows finds the tick's place free.
LEMMA EvaluateRepeats == ASSUME IInv, RepeatInv, Evaluate PROVE RepeatInv'
<1>1. UNCHANGED <<hist, notes>>
  BY DEF Evaluate
<1>2. CASE step' = "idle"
  BY <1>1, <1>2, Repeatless
<1>3. CASE ~ step' = "idle"
  <2>1. /\ step' = "persist" /\ tries' = 1 /\ DOMAIN events' \subseteq Rules
        /\ \A r \in DOMAIN events' : events'[r].at = Len(hist[r]) + 1
    BY <1>3 DEF Evaluate, Finish, Forget, Goto, IInv, Types, RunTypes
  <2>2. \A r \in DOMAIN events' : Len(hist[r]) \in Nat
    <3>1. \A r \in Rules : hist[r] \in Seq(HistoryRow)
      BY DEF IInv, Types, TableTypes
    <3> QED
      BY <2>1, <3>1
  <2>3. RunBounded'
    BY <1>1, <2>1, <2>2 DEF RunBounded
  <2> QED
    BY <1>1, <2>3 DEF RepeatInv, RowsBounded, NotesBounded
<1> QED
  BY <1>2, <1>3

\* The rows one attempt adds, and the room it leaves to the next.
LEMMA CommitHistoryRepeats ==
    ASSUME IInv, RepeatInv, step = "persist", CommitHistory
    PROVE  /\ RowsBounded'
           /\ \A r \in DOMAIN events : Len(hist'[r]) + 1 < events[r].at + tries + 1
<1>1. /\ hist \in [Rules -> Seq(HistoryRow)] /\ DOMAIN events \subseteq Rules
      /\ tries \in Nat /\ DbTries \in Nat /\ tries <= DbTries
      /\ \A r \in DOMAIN events : events[r] \in HistoryRow
  BY EvaluatorAssumption DEF IInv, Types, TableTypes, RunTypes
<1>2. ASSUME NEW r \in DOMAIN events
      PROVE  /\ Len(hist'[r]) + 1 < events[r].at + tries + 1
             /\ \A i \in 1 .. Len(hist'[r]) : i < hist'[r][i].at + DbTries
  <2>1. Len(hist[r]) + 1 < events[r].at + tries
    BY DEF RepeatInv, RunBounded
  <2>2. hist[r] \in Seq(HistoryRow) /\ events[r].at \in Nat /\ hist'[r] = Append(hist[r], events[r])
    BY <1>1 DEF CommitHistory, HistoryRow
  <2>3. /\ Len(hist[r]) \in Nat /\ Len(hist'[r]) = Len(hist[r]) + 1
        /\ hist'[r][Len(hist[r]) + 1] = events[r]
        /\ \A i \in 1 .. Len(hist[r]) : hist'[r][i] = hist[r][i]
    BY <2>2
  <2>4. \A i \in 1 .. Len(hist[r]) : i < hist[r][i].at + DbTries
    BY <1>1 DEF RepeatInv, RowsBounded
  <2> QED
    BY <1>1, <2>1, <2>2, <2>3, <2>4
<1>3. \A r \in Rules \ DOMAIN events : hist'[r] = hist[r]
  BY DEF CommitHistory
<1> QED
  BY <1>2, <1>3 DEF RepeatInv, RowsBounded

LEMMA PersistRepeats == ASSUME IInv, RepeatInv, Persist PROVE RepeatInv'
<1>1. /\ step = "persist" /\ CommitHistory /\ step' = "enqueue" /\ tries' = 1
      /\ rowOf' = [r \in DOMAIN events |-> Len(hist[r]) + 1]
      /\ UNCHANGED <<notes, events>>
  BY DEF Persist, Goto
<1>2. RowsBounded'
  BY <1>1, CommitHistoryRepeats
<1>3. ASSUME NEW p \in Pairs' PROVE Notified(p)' = {}
  <2>1. PICK r \in DOMAIN events : p[1] = r /\ p[2] = Len(hist[r]) + 1
    BY <1>1 DEF Pairs
  <2>2. Len(hist[r]) \in Nat
    BY DEF IInv, Types, TableTypes, RunTypes
  <2>3. \A n \in notes : n[1] = r => n[2] # Len(hist[r]) + 1
    BY <2>2 DEF IInv, NoteInv
  <2> QED
    BY <1>1, <2>1, <2>3 DEF Notified
<1>4. IsFiniteSet({}) /\ Cardinality({}) < 1
  BY FS_EmptySet
<1>5. RunBounded'
  BY <1>1, <1>3, <1>4 DEF RunBounded
<1> QED
  BY <1>1, <1>2, <1>5 DEF RepeatInv, NotesBounded

LEMMA PersistLostRepeats == ASSUME IInv, RepeatInv, PersistLost PROVE RepeatInv'
<1>1. step = "persist" /\ CommitHistory /\ RetryOrFail /\ UNCHANGED notes
  BY DEF PersistLost
<1>2. /\ RowsBounded'
      /\ \A r \in DOMAIN events : Len(hist'[r]) + 1 < events[r].at + tries + 1
  BY <1>1, CommitHistoryRepeats
<1>3. CASE FailRun
  BY <1>1, <1>2, <1>3 DEF FailRun, Forget, RepeatInv, NotesBounded, RunBounded
<1>4. CASE tries' = tries + 1 /\ UNCHANGED <<step, events>>
  <2>1. \A r \in DOMAIN events : /\ tries \in Nat /\ events[r].at \in Nat
                                 /\ events[r].at + tries + 1 = events[r].at + (tries + 1)
    BY EvaluatorAssumption DEF IInv, Types, RunTypes, HistoryRow
  <2>2. RunBounded'
    BY <1>1, <1>2, <1>4, <2>1 DEF RunBounded
  <2> QED
    BY <1>1, <1>2, <2>2 DEF RepeatInv, NotesBounded
<1> QED
  BY <1>1, <1>3, <1>4 DEF RetryOrFail

\* The copies one attempt adds, and the room it leaves to the next.
LEMMA CommitNotesRepeats ==
    ASSUME IInv, RepeatInv, step = "enqueue", CommitNotes
    PROVE  /\ NotesBounded'
           /\ \A p \in Pairs : IsFiniteSet(Notified(p)') /\ Cardinality(Notified(p)') < tries + 1
<1>1. tries \in Nat /\ DbTries \in Nat /\ tries <= DbTries
  BY EvaluatorAssumption DEF IInv, Types, RunTypes
<1>2. \A p \in Pairs : /\ IsFiniteSet(Notified(p)) /\ Cardinality(Notified(p)) \in Nat
                       /\ Cardinality(Notified(p)) < tries
  BY FS_CardinalityType DEF RepeatInv, RunBounded
<1>3. \A p : Copies(p) = Cardinality(Notified(p))
  BY DEF Copies, Notified
<1>4. notes' = notes \cup {<<p[1], p[2], p[3], Copies(p) + 1>> : p \in Pairs}
  BY DEF CommitNotes
<1>5. \A p \in Pairs : p = <<p[1], p[2], p[3]>>
  BY DEF Pairs
<1>6. NotesBounded'
  <2> SUFFICES ASSUME NEW n \in notes' PROVE n[4] <= DbTries
    BY DEF NotesBounded
  <2>1. CASE n \in notes
    BY <2>1 DEF RepeatInv, NotesBounded
  <2>2. CASE n \notin notes
    <3>1. PICK p \in Pairs : n = <<p[1], p[2], p[3], Copies(p) + 1>>
      BY <1>4, <2>2
    <3>2. n[4] = Cardinality(Notified(p)) + 1
      BY <1>3, <3>1
    <3> QED
      BY <1>1, <1>2, <3>2
  <2> QED
    BY <2>1, <2>2
<1>7. ASSUME NEW p \in Pairs
      PROVE  IsFiniteSet(Notified(p)') /\ Cardinality(Notified(p)') < tries + 1
  <2>1. PICK new : new = <<p[1], p[2], p[3], Copies(p) + 1>>
    OBVIOUS
  <2>2. Notified(p)' \subseteq Notified(p) \cup {new}
    <3> SUFFICES ASSUME NEW n \in notes', <<n[1], n[2], n[3]>> = p, n \notin notes PROVE n = new
      BY DEF Notified
    <3>1. PICK q \in Pairs : n = <<q[1], q[2], q[3], Copies(q) + 1>>
      BY <1>4
    <3>2. q = p
      BY <1>5, <3>1
    <3> QED
      BY <2>1, <3>1, <3>2
  <2>3. /\ IsFiniteSet(Notified(p) \cup {new})
        /\ Cardinality(Notified(p) \cup {new}) <= Cardinality(Notified(p)) + 1
        /\ Cardinality(Notified(p) \cup {new}) \in Nat
    <3>1. /\ IsFiniteSet(Notified(p) \cup {new})
          /\ \/ Cardinality(Notified(p) \cup {new}) = Cardinality(Notified(p))
             \/ Cardinality(Notified(p) \cup {new}) = Cardinality(Notified(p)) + 1
      BY <1>2, FS_AddElement
    <3> QED
      BY <1>2, <3>1
  <2>4. /\ IsFiniteSet(Notified(p)') /\ Cardinality(Notified(p)') \in Nat
        /\ Cardinality(Notified(p)') <= Cardinality(Notified(p) \cup {new})
    BY <2>2, <2>3, FS_Subset, FS_CardinalityType
  <2> QED
    BY <1>1, <1>2, <2>3, <2>4
<1> QED
  BY <1>6, <1>7

LEMMA EnqueueRepeats == ASSUME IInv, RepeatInv, Enqueue \/ EnqueueLost PROVE RepeatInv'
<1>1. step = "enqueue" /\ CommitNotes /\ UNCHANGED hist /\ (Finish \/ RetryOrFail)
  BY DEF Enqueue, EnqueueLost
<1>2. /\ NotesBounded'
      /\ \A p \in Pairs : IsFiniteSet(Notified(p)') /\ Cardinality(Notified(p)') < tries + 1
  BY <1>1, CommitNotesRepeats
<1>3. RowsBounded'
  BY <1>1 DEF RepeatInv, RowsBounded
<1>4. CASE Forget
  BY <1>2, <1>3, <1>4 DEF Forget, RepeatInv, RunBounded
<1>5. CASE tries' = tries + 1 /\ UNCHANGED <<step, events, rowOf>>
  <2>1. Pairs' = Pairs
    BY <1>5 DEF Pairs
  <2>2. RunBounded'
    BY <1>1, <1>2, <1>5, <2>1 DEF RunBounded
  <2> QED
    BY <1>2, <1>3, <2>2 DEF RepeatInv
<1> QED
  BY <1>1, <1>4, <1>5 DEF RetryOrFail, Finish, FailRun

LEMMA RepeatStep == ASSUME IInv, RepeatInv, [Next]_evars PROVE RepeatInv'
<1>1. CASE Tick \/ Load \/ LoadSnapshots \/ LoadPrevious \/ LoadFails
  <2>1. UNCHANGED <<hist, notes>> /\ step' \in {"idle", "snapshots", "previous", "evaluate"} \cup Reads
    <3>1. CASE Load
      BY <3>1 DEF Load, LoadRules, ReadTeamAlerts, ReadTemplates, ReadOverrides, ReadTeams,
                  ReadLinks, ReadPrimary, Read, Reads, Goto, Finish, Forget
    <3> QED
      BY <1>1, <3>1 DEF Tick, LoadSnapshots, LoadPrevious, LoadFails, RestartLoad, FailRun,
                        Reads, Goto, Forget
  <2> QED
    BY <2>1, Repeatless DEF Reads
<1>2. CASE PersistRejected \/ EnqueueRejected \/ AttemptFails
  <2>1. UNCHANGED <<hist, notes>> /\ RetryOrFail
    BY <1>2 DEF PersistRejected, EnqueueRejected, AttemptFails
  <2>2. \/ step' = "idle"
        \/ UNCHANGED <<step, events, rowOf>> /\ tries' = tries + 1
    BY <2>1 DEF RetryOrFail, FailRun, Forget
  <2> QED
    BY <2>1, <2>2, Repeatless
<1>3. CASE Environment \/ UNCHANGED evars
  <2>1. /\ notes' \subseteq notes /\ UNCHANGED run
        /\ \A r \in Rules : hist'[r] = hist[r] \/ hist'[r] = <<>>
    BY <1>3 DEF Environment, Api, Change, CascadeAlert, CascadeChannel, evars
  <2> QED
    BY <2>1, Repeatless DEF run
<1> QED
  BY <1>1, <1>2, <1>3, EvaluateRepeats, PersistRepeats, PersistLostRepeats, EnqueueRepeats
  DEF Next, Run, Faulty

\* Retried commits repeat a history row or a notification at most as often
\* as the retry policy allows attempts, whatever is edited or deleted
\* between two of them.
THEOREM BoundedRepeats == Spec => []RepeatsBounded
<1>1. Init => RepeatInv
  BY DEF Init, RepeatInv, RowsBounded, NotesBounded, RunBounded
<1>2. IInv /\ RepeatInv /\ [Next]_evars => RepeatInv'
  BY RepeatStep
<1>3. IInv /\ RepeatInv => RepeatsBounded
  BY RepeatsImplied
<1> QED
  BY <1>1, <1>2, <1>3, Invariance, PTL DEF Spec

-----------------------------------------------------------------------------
(* What the reads of the load add up to for a rule whose rows stood still *)

\* The lists the load builds, whatever is in the tables: a rule waits for its
\* primary channels alone, and the templates come after the team alerts.
LoadShape ==
    /\ step \in {"idle", "rules", "templates", "overrides"} => DOMAIN rules = {} /\ todo = {}
    /\ step = "templates" => found \cap Templates = {}
    /\ step = "channels" => todo \cap DOMAIN rules = {}
    /\ \A p, q \in todo \cap DOMAIN rules : p = q
    /\ found \cap Templates # {} => \A r \in todo \cup DOMAIN rules : r[1] \notin Templates

\* Whether the alert of the rule is among those found.
FoundRight(r) ==
    /\ step = "templates" /\ r[1] \notin Templates => (r[1] \in found <=> alert[r[1]] = "on")
    /\ step = "overrides" => (r[1] \in found <=> alert[r[1]] = "on")
    /\ step \in {"channels", "primary"} /\ r[1] \in Templates /\ found \cap Templates # {}
          => (r[1] \in found <=> alert[r[1]] = "on")

\* Whether the rule is listed, once its alert has been looked at.
ListedRight(r) ==
    step \in {"channels", "primary"} =>
        /\ \A a \in Templates : seen[<<a, r[2]>>] = override[<<a, r[2]>>]
        /\ r[1] \notin Templates \/ found \cap Templates = {}
              => (r \in todo \cup DOMAIN rules <=> r \in EnabledRules)

\* The channels it was given so far.
ChannelsRight(r) ==
    r \in DOMAIN rules =>
        rules[r] = IF r \in todo THEN Named(r) \cup LinkedChannels(r[1])
                   ELSE ChannelsOf(r[1], r[2])

SteadyInv ==
    /\ LoadShape
    /\ step \in Reads =>
         \A r \in steady : FoundRight(r) /\ ListedRight(r) /\ ChannelsRight(r)

LEMMA SteadyImplied == IInv /\ SteadyInv => LoadedAsConfigured
<1> SUFFICES ASSUME IInv, SteadyInv, AllRead, NEW r \in steady
             PROVE  /\ r \in DOMAIN rules <=> r \in EnabledRules
                    /\ r \in EnabledRules => rules[r] = ChannelsOf(r[1], r[2])
  BY DEF LoadedAsConfigured
<1>1. step = "channels" /\ todo = {} /\ found \cap Templates = {}
  BY DEF AllRead
<1>2. FoundRight(r) /\ ListedRight(r) /\ ChannelsRight(r)
  BY <1>1 DEF SteadyInv, Reads
<1> QED
  BY <1>1, <1>2 DEF ListedRight, ChannelsRight

\* A rule in the terms its rows are read in.
InTheTables(r) ==
    /\ alert[r[1]] = "on"
    /\ IF r[1] \in Templates
       THEN /\ override[r].enabled
            /\ \/ \E a \in Templates : override[<<a, r[2]>>].exists
               \/ \E c \in LiveChannels : ChannelTeam[c] = r[2]
       ELSE r[2] = AlertTeam[r[1]]

LEMMA EnabledMeans == \A r \in Rules : r \in EnabledRules <=> InTheTables(r)
<1> SUFFICES ASSUME NEW r \in Rules PROVE r \in EnabledRules <=> InTheTables(r)
  OBVIOUS
<1> USE DEF InTheTables
<1>1. r = <<r[1], r[2]>> /\ r[1] \in Alerts /\ r[2] \in Teams
  BY DEF Rules
<1>2. Templates \subseteq Alerts
  BY ConfigAssumption
<1>3. CASE r[1] \in Templates
  <2>1. r \in EnabledRules <=> alert[r[1]] = "on" /\ r[2] \in TeamsSeen /\ ~OptedOut(r[1], r[2])
    BY <1>1, <1>3 DEF EnabledRules
  <2> QED
    BY <1>1, <1>3, <2>1 DEF OptedOut, TeamsSeen
<1>4. CASE r[1] \notin Templates
  BY <1>1, <1>4 DEF EnabledRules
<1> QED
  BY <1>3, <1>4

LEMMA EnabledMeansNext == (\A r \in Rules : r \in EnabledRules <=> InTheTables(r))'
  BY EnabledMeans, PTL

\* Nothing about a rule changes while its rows are kept.
LEMMA KeptRule ==
    ASSUME NEW r \in Rules, RowsKept(r)
    PROVE  /\ alert'[r[1]] = alert[r[1]]
           /\ \A a \in Templates : override'[<<a, r[2]>>] = override[<<a, r[2]>>]
           /\ (r \in EnabledRules)' <=> r \in EnabledRules
           /\ LinkedChannels(r[1])' = LinkedChannels(r[1])
           /\ ChannelsOf(r[1], r[2])' = ChannelsOf(r[1], r[2])
<1>1. r = <<r[1], r[2]>> /\ r[1] \in Alerts /\ r[2] \in Teams
  BY DEF Rules
<1>2. /\ alert'[r[1]] = alert[r[1]]
      /\ \A a \in Templates : override'[<<a, r[2]>>] = override[<<a, r[2]>>]
      /\ \A c \in Channels : ChannelTeam[c] = r[2] \/ <<r[1], c>> \in Links
                              => channel'[c] = channel[c]
  BY DEF RowsKept
<1>3. (\E c \in LiveChannels' : ChannelTeam[c] = r[2]) <=> \E c \in LiveChannels : ChannelTeam[c] = r[2]
  BY <1>2 DEF LiveChannels
<1>4. (r \in EnabledRules)' <=> r \in EnabledRules
  <2>1. (r \in EnabledRules)' <=> InTheTables(r)'
    BY EnabledMeansNext
  <2>2. r[1] \in Templates => override'[r] = override[r]
    BY <1>1, <1>2
  <2> QED
    BY <1>2, <1>3, <2>1, <2>2, EnabledMeans DEF InTheTables
<1>5. LinkedChannels(r[1])' = LinkedChannels(r[1])
  BY <1>1, <1>2 DEF LinkedChannels, LiveChannels, LiveAlerts
<1>6. PrimaryChannels(r[2])' = PrimaryChannels(r[2])
  BY <1>2 DEF PrimaryChannels, LiveChannels
<1> QED
  BY <1>1, <1>2, <1>4, <1>5, <1>6 DEF ChannelsOf

\* A step that leaves the load where it is.
LEMMA SteadyKept ==
    ASSUME IInv, SteadyInv, UNCHANGED <<step, rules, found, seen, todo>>,
           \A r \in steady' : r \in steady /\ RowsKept(r)
    PROVE  SteadyInv'
<1>1. LoadShape'
  BY DEF SteadyInv, LoadShape
<1>2. ASSUME step \in Reads, NEW r \in steady'
      PROVE  (FoundRight(r) /\ ListedRight(r) /\ ChannelsRight(r))'
  <2>1. r \in Rules /\ r \in steady /\ RowsKept(r)
    BY DEF IInv, Types, LoadTypes
  <2>2. FoundRight(r) /\ ListedRight(r) /\ ChannelsRight(r)
    BY <1>2, <2>1 DEF SteadyInv
  <2>3. /\ alert'[r[1]] = alert[r[1]]
        /\ \A a \in Templates : override'[<<a, r[2]>>] = override[<<a, r[2]>>]
        /\ (r \in EnabledRules)' <=> r \in EnabledRules
        /\ LinkedChannels(r[1])' = LinkedChannels(r[1])
        /\ ChannelsOf(r[1], r[2])' = ChannelsOf(r[1], r[2])
    BY <2>1, KeptRule
  <2>4. FoundRight(r)'
    BY <2>2, <2>3 DEF FoundRight
  <2>5. ListedRight(r)'
    BY <2>2, <2>3 DEF ListedRight
  <2>6. ChannelsRight(r)'
    BY <2>2, <2>3 DEF ChannelsRight, Named
  <2> QED
    BY <2>4, <2>5, <2>6
<1> QED
  BY <1>1, <1>2 DEF SteadyInv

\* A step outside the load.
LEMMA SteadyElsewhere ==
    ASSUME IInv', step' \notin Reads, step' = "idle" => DOMAIN rules' = {}
    PROVE  SteadyInv'
<1>1. found' = {} /\ todo' = {}
  BY DEF IInv, Types, LoadTypes
<1> QED
  BY <1>1 DEF SteadyInv, LoadShape, Reads

\* A load that starts, or starts again.
LEMMA SteadyStart ==
    ASSUME step' = "rules", DOMAIN rules' = {}, found' = {}, todo' = {}, steady' = {}
    PROVE  SteadyInv'
  BY DEF SteadyInv, LoadShape

LEMMA ReadTeamAlertsSteady == ASSUME IInv, SteadyInv, ReadTeamAlerts PROVE SteadyInv'
<1>1. /\ step = "rules" /\ step' = "templates" /\ UNCHANGED <<config, rules, todo>>
      /\ found' = {a \in Alerts \ Templates : alert[a] = "on"} /\ steady' = Rules
  BY DEF ReadTeamAlerts, Read
<1>2. DOMAIN rules = {} /\ todo = {}
  BY <1>1 DEF SteadyInv, LoadShape
<1>3. LoadShape'
  BY <1>1, <1>2 DEF LoadShape
<1>4. \A r \in steady' : (FoundRight(r) /\ ListedRight(r) /\ ChannelsRight(r))'
  BY <1>1, <1>2 DEF FoundRight, ListedRight, ChannelsRight, Rules, config
<1> QED
  BY <1>3, <1>4 DEF SteadyInv

LEMMA ReadTemplatesSteady == ASSUME IInv, SteadyInv, ReadTemplates PROVE SteadyInv'
<1>1. /\ step = "templates" /\ step' = "overrides" /\ UNCHANGED <<config, rules, todo, steady>>
      /\ found' = found \cup {a \in Templates : alert[a] = "on"}
  BY DEF ReadTemplates, Read
<1>2. DOMAIN rules = {} /\ todo = {} /\ found \cap Templates = {}
  BY <1>1 DEF SteadyInv, LoadShape
<1>3. LoadShape'
  BY <1>1, <1>2 DEF LoadShape
<1>4. ASSUME NEW r \in steady' PROVE (FoundRight(r) /\ ListedRight(r) /\ ChannelsRight(r))'
  <2>1. FoundRight(r)
    BY <1>1 DEF SteadyInv, Reads
  <2> QED
    BY <1>1, <1>2, <2>1 DEF FoundRight, ListedRight, ChannelsRight, config
<1> QED
  BY <1>3, <1>4 DEF SteadyInv

LEMMA ReadOverridesSteady == ASSUME IInv, SteadyInv, ReadOverrides PROVE SteadyInv'
<1>1. /\ step = "overrides" /\ step' = "channels"
      /\ UNCHANGED <<alert, override, channel, rules, found, steady>>
      /\ seen' = override /\ todo' = {<<a, AlertTeam[a]>> : a \in found \ Templates}
  BY DEF ReadOverrides, Read, config
<1>2. DOMAIN rules = {}
  BY <1>1 DEF SteadyInv, LoadShape
<1>3. LoadShape'
  BY <1>1, <1>2 DEF LoadShape
<1>4. ASSUME NEW r \in steady' PROVE (FoundRight(r) /\ ListedRight(r) /\ ChannelsRight(r))'
  <2>1. FoundRight(r) /\ r \in Rules
    BY <1>1 DEF SteadyInv, Reads, IInv, Types, LoadTypes
  <2>2. r[1] \in found <=> alert[r[1]] = "on"
    BY <1>1, <2>1 DEF FoundRight
  <2>3. r = <<r[1], r[2]>> /\ r[1] \in Alerts
    BY <2>1 DEF Rules
  <2>4. r[1] \notin Templates \/ found \cap Templates = {} => (r \in todo' <=> InTheTables(r))
    BY <1>1, <2>2, <2>3 DEF InTheTables
  <2>5. EnabledRules' = EnabledRules
    BY <1>1 DEF EnabledRules, TeamsSeen, LiveChannels, OptedOut
  <2>6. ListedRight(r)'
    BY <1>1, <1>2, <2>1, <2>4, <2>5, EnabledMeans DEF ListedRight
  <2>7. FoundRight(r)'
    BY <1>1, <2>2 DEF FoundRight
  <2> QED
    BY <1>1, <1>2, <2>6, <2>7 DEF ChannelsRight
<1> QED
  BY <1>3, <1>4 DEF SteadyInv

LEMMA ReadLinksSteady ==
    ASSUME IInv, SteadyInv, NEW q \in Rules, ReadLinks(q) PROVE SteadyInv'
<1>1. /\ q \in todo /\ step = "channels" /\ step' = "primary"
      /\ UNCHANGED <<alert, override, channel, found, seen, todo, steady>>
      /\ rules' = [x \in DOMAIN rules \cup {q} |->
                     IF x = q THEN Named(q) \cup LinkedChannels(q[1]) ELSE rules[x]]
  BY DEF ReadLinks, Read, config, load
<1>2. todo \cap DOMAIN rules = {} /\ DOMAIN rules' = DOMAIN rules \cup {q}
  BY <1>1 DEF SteadyInv, LoadShape
<1>3. LoadShape'
  <2>1. todo' \cap DOMAIN rules' = {q} /\ todo' \cup DOMAIN rules' = todo \cup DOMAIN rules
    BY <1>1, <1>2
  <2> QED
    BY <1>1, <2>1 DEF SteadyInv, LoadShape
<1>4. ASSUME NEW r \in steady' PROVE (FoundRight(r) /\ ListedRight(r) /\ ChannelsRight(r))'
  <2>1. FoundRight(r) /\ ListedRight(r) /\ ChannelsRight(r)
    BY <1>1 DEF SteadyInv, Reads
  <2>2. /\ EnabledRules' = EnabledRules /\ LinkedChannels(r[1])' = LinkedChannels(r[1])
        /\ ChannelsOf(r[1], r[2])' = ChannelsOf(r[1], r[2]) /\ Named(r)' = Named(r)
    BY <1>1 DEF EnabledRules, TeamsSeen, LiveChannels, LiveAlerts, OptedOut, LinkedChannels, ChannelsOf,
                PrimaryChannels, Named
  <2>3. FoundRight(r)'
    BY <1>1, <2>1 DEF FoundRight
  <2>4. ListedRight(r)'
    BY <1>1, <1>2, <2>1, <2>2 DEF ListedRight
  <2>5. ChannelsRight(r)'
    <3>1. CASE r = q
      BY <1>1, <2>2, <3>1 DEF ChannelsRight
    <3>2. CASE r # q
      BY <1>1, <1>2, <2>1, <2>2, <3>2 DEF ChannelsRight
    <3> QED
      BY <3>1, <3>2
  <2> QED
    BY <2>3, <2>4, <2>5
<1> QED
  BY <1>3, <1>4 DEF SteadyInv

LEMMA ReadPrimarySteady ==
    ASSUME IInv, SteadyInv, NEW q \in Rules, ReadPrimary(q) PROVE SteadyInv'
<1>1. /\ q \in todo \cap DOMAIN rules /\ step = "primary" /\ step' = "channels"
      /\ UNCHANGED <<alert, override, channel, found, seen, steady>>
      /\ rules' = [rules EXCEPT ![q] = rules[q] \cup PrimaryChannels(q[2])]
      /\ todo' = todo \ {q}
  BY DEF ReadPrimary, Read, config
<1>2. todo \cap DOMAIN rules = {q} /\ DOMAIN rules' = DOMAIN rules
  BY <1>1 DEF SteadyInv, LoadShape
<1>3. LoadShape'
  <2>1. todo' \cap DOMAIN rules' = {} /\ todo' \cup DOMAIN rules' = todo \cup DOMAIN rules
    BY <1>1, <1>2
  <2> QED
    BY <1>1, <2>1 DEF SteadyInv, LoadShape
<1>4. ASSUME NEW r \in steady' PROVE (FoundRight(r) /\ ListedRight(r) /\ ChannelsRight(r))'
  <2>1. FoundRight(r) /\ ListedRight(r) /\ ChannelsRight(r) /\ r \in Rules
    BY <1>1 DEF SteadyInv, Reads, IInv, Types, LoadTypes
  <2>2. /\ EnabledRules' = EnabledRules /\ LinkedChannels(r[1])' = LinkedChannels(r[1])
        /\ ChannelsOf(r[1], r[2])' = ChannelsOf(r[1], r[2]) /\ Named(r)' = Named(r)
    BY <1>1 DEF EnabledRules, TeamsSeen, LiveChannels, LiveAlerts, OptedOut, LinkedChannels, ChannelsOf,
                PrimaryChannels, Named
  <2>3. FoundRight(r)'
    BY <1>1, <2>1 DEF FoundRight
  <2>4. ListedRight(r)'
    BY <1>1, <1>2, <2>1, <2>2 DEF ListedRight
  <2>5. ChannelsRight(r)'
    <3>1. CASE r = q
      <4>1. rules'[r] = Named(r) \cup LinkedChannels(r[1]) \cup PrimaryChannels(r[2])
        BY <1>1, <2>1, <3>1 DEF ChannelsRight
      <4>2. r[1] \in Templates => seen[r] = override[r]
        <5>1. r = <<r[1], r[2]>>
          BY <2>1 DEF Rules
        <5> QED
          BY <1>1, <2>1, <5>1 DEF ListedRight
      <4>3. Named(r) = {c \in Channels : r[1] \in Templates /\ c = override[<<r[1], r[2]>>].channel}
        <5>1. r = <<r[1], r[2]>>
          BY <2>1 DEF Rules
        <5> QED
          BY <4>2, <5>1 DEF Named
      <4>4. rules'[r] = ChannelsOf(r[1], r[2])
        BY <4>1, <4>3 DEF ChannelsOf
      <4> QED
        BY <1>1, <2>2, <3>1, <4>4 DEF ChannelsRight
    <3>2. CASE r # q
      BY <1>1, <1>2, <2>1, <2>2, <3>2 DEF ChannelsRight
    <3> QED
      BY <3>1, <3>2
  <2> QED
    BY <2>3, <2>4, <2>5
<1> QED
  BY <1>3, <1>4 DEF SteadyInv

LEMMA ReadTeamsSteady == ASSUME IInv, SteadyInv, ReadTeams PROVE SteadyInv'
<1>1. /\ step = "channels" /\ step' = "channels" /\ todo = {} /\ found \cap Templates # {}
      /\ UNCHANGED <<alert, override, channel, rules, seen, steady>>
      /\ todo' = {r \in (found \cap Templates) \X Teams :
                     /\ \/ \E a \in Templates : seen[<<a, r[2]>>].exists
                        \/ \E c \in LiveChannels : ChannelTeam[c] = r[2]
                     /\ seen[r].enabled}
      /\ found' = {}
  BY DEF ReadTeams, Read, config
<1>2. \A r \in DOMAIN rules : r[1] \notin Templates
  BY <1>1 DEF SteadyInv, LoadShape
<1>3. LoadShape'
  <2>1. \A r \in todo' : r[1] \in Templates
    BY <1>1
  <2> QED
    BY <1>1, <1>2, <2>1 DEF LoadShape
<1>4. ASSUME NEW r \in steady' PROVE (FoundRight(r) /\ ListedRight(r) /\ ChannelsRight(r))'
  <2>1. FoundRight(r) /\ ListedRight(r) /\ ChannelsRight(r) /\ r \in Rules
    BY <1>1 DEF SteadyInv, Reads, IInv, Types, LoadTypes
  <2>2. /\ EnabledRules' = EnabledRules /\ LinkedChannels(r[1])' = LinkedChannels(r[1])
        /\ ChannelsOf(r[1], r[2])' = ChannelsOf(r[1], r[2]) /\ Named(r)' = Named(r)
    BY <1>1 DEF EnabledRules, TeamsSeen, LiveChannels, LiveAlerts, OptedOut, LinkedChannels, ChannelsOf,
                PrimaryChannels, Named
  <2>3. r = <<r[1], r[2]>> /\ r[1] \in Alerts /\ r[2] \in Teams
    BY <2>1 DEF Rules
  <2>4. \A a \in Templates : seen[<<a, r[2]>>] = override[<<a, r[2]>>]
    BY <1>1, <2>1 DEF ListedRight
  <2>5. CASE r[1] \in Templates
    <3>1. r[1] \in found <=> alert[r[1]] = "on"
      BY <1>1, <2>1, <2>5 DEF FoundRight
    <3>2. seen[r] = override[r]
      BY <2>3, <2>4, <2>5
    <3>3. r \in todo' <=> /\ r[1] \in found /\ seen[r].enabled
                          /\ \/ \E a \in Templates : seen[<<a, r[2]>>].exists
                             \/ \E c \in LiveChannels : ChannelTeam[c] = r[2]
      BY <1>1, <2>3, <2>5
    <3>4. r \in todo' <=> InTheTables(r)
      BY <2>4, <2>5, <3>1, <3>2, <3>3 DEF InTheTables
    <3>5. r \notin DOMAIN rules
      BY <1>2, <2>5
    <3>6. ListedRight(r)'
      BY <1>1, <2>1, <2>2, <2>4, <3>4, <3>5, EnabledMeans DEF ListedRight
    <3> QED
      BY <1>1, <3>5, <3>6 DEF FoundRight, ChannelsRight
  <2>6. CASE r[1] \notin Templates
    <3>1. r \notin todo'
      BY <1>1, <2>6
    <3>2. r \in DOMAIN rules <=> r \in EnabledRules
      BY <1>1, <2>1, <2>6 DEF ListedRight
    <3>3. ListedRight(r)'
      BY <1>1, <2>2, <2>4, <3>1, <3>2 DEF ListedRight
    <3> QED
      BY <1>1, <2>1, <2>2, <2>6, <3>1, <3>3 DEF FoundRight, ChannelsRight
  <2> QED
    BY <2>5, <2>6
<1> QED
  BY <1>3, <1>4 DEF SteadyInv

LEMMA SteadyStep == ASSUME IInv, SteadyInv, [Next]_evars PROVE SteadyInv'
<1>1. IInv'
  BY Step
<1>2. CASE Tick \/ LoadFails \/ LoadRules
  <2>1. CASE Tick
    <3>1. /\ step = "idle" /\ step' = "rules" /\ UNCHANGED <<rules, found, seen, todo, steady>>
      BY <2>1 DEF Tick, Goto, load
    <3>2. DOMAIN rules = {} /\ found = {} /\ todo = {} /\ steady = {}
      BY <3>1 DEF SteadyInv, LoadShape, IInv, Types, LoadTypes, Reads
    <3> QED
      BY <3>1, <3>2, SteadyStart
  <2>2. CASE LoadFails
    <3>1. CASE RestartLoad
      BY <3>1, SteadyStart DEF RestartLoad, NoLoad, Empty
    <3>2. CASE Forget
      BY <1>1, <3>2, SteadyElsewhere DEF Forget, Empty, Reads
    <3> QED
      BY <2>2, <3>1, <3>2 DEF LoadFails, FailRun
  <2>3. CASE LoadRules
    <3>1. (step' = "idle" /\ rules' = Empty) \/ step' = "snapshots"
      BY <2>3 DEF LoadRules, Finish, Forget, Goto
    <3> QED
      BY <1>1, <3>1, SteadyElsewhere DEF Empty, Reads
  <2> QED
    BY <1>2, <2>1, <2>2, <2>3
<1>3. CASE Load /\ ~LoadRules
  BY <1>3, ReadTeamAlertsSteady, ReadTemplatesSteady, ReadOverridesSteady, ReadTeamsSteady,
     ReadLinksSteady, ReadPrimarySteady DEF Load
<1>4. CASE Environment \/ UNCHANGED evars
  <2>1. UNCHANGED <<step, rules, found, seen, todo>>
    BY <1>4 DEF Environment, Api, Change, CascadeAlert, CascadeChannel, Watch, evars, run, load
  <2>2. \A r \in steady' : r \in steady /\ RowsKept(r)
    <3>1. CASE Watch
      BY <3>1 DEF Watch
    <3>2. CASE UNCHANGED <<config, steady>>
      BY <3>2 DEF config, RowsKept
    <3> QED
      BY <1>4, <3>1, <3>2 DEF Environment, Api, Change, CascadeAlert, CascadeChannel, evars, load
  <2> QED
    BY <2>1, <2>2, SteadyKept
<1>5. CASE \/ LoadSnapshots \/ LoadPrevious \/ Evaluate \/ Persist \/ PersistRejected
           \/ Enqueue \/ EnqueueRejected \/ PersistLost \/ EnqueueLost \/ AttemptFails
  <2>1. step \notin Reads /\ step # "idle"
    BY <1>5 DEF LoadSnapshots, LoadPrevious, Evaluate, Persist, PersistRejected, Enqueue,
                EnqueueRejected, PersistLost, EnqueueLost, AttemptFails, Reads
  <2>2. Forget \/ step' = step \/ step' \in {"previous", "evaluate", "persist", "enqueue"}
    BY <1>5 DEF LoadSnapshots, LoadPrevious, Evaluate, Persist, PersistRejected, Enqueue,
                EnqueueRejected, PersistLost, EnqueueLost, AttemptFails, Goto, RetryOrFail,
                Finish, FailRun
  <2>3. step' \notin Reads /\ (step' = "idle" => rules' = Empty)
    BY <2>1, <2>2 DEF Forget, Reads
  <2> QED
    BY <1>1, <2>3, SteadyElsewhere DEF Empty
<1> QED
  BY <1>2, <1>3, <1>4, <1>5 DEF Next, Run, Faulty

\* A rule whose own rows stand still while the rules are read is loaded
\* exactly when it is enabled, with exactly its channels: for any number of
\* alerts, teams and channels, and whatever else is edited meanwhile.
THEOREM LoadedRulesAreConfigured == Spec => []LoadedAsConfigured
<1>1. Init => SteadyInv
  BY DEF Init, SteadyInv, LoadShape, Empty, Reads
<1>2. IInv /\ SteadyInv /\ [Next]_evars => SteadyInv'
  BY SteadyStep
<1>3. IInv /\ SteadyInv => LoadedAsConfigured
  BY SteadyImplied
<1> QED
  BY <1>1, <1>2, <1>3, Invariance, PTL DEF Spec

=============================================================================
