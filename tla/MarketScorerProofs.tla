------------------------- MODULE MarketScorerProofs -------------------------
(***************************************************************************)
(* Theorems about MarketScorer for every set of protocols, markets and     *)
(* profiles, every concurrency and number of attempts.                     *)
(***************************************************************************)
EXTENDS MarketScorer, FiniteSetTheorems, SequenceTheorems, WellFoundedInduction, TLAPS

AnyId == [tick : Nat, market : Markets, try : Nat]

Places == {"yarn", "stored", "resolved"}

\* What the steps below take for granted of the data.
Types ==
    /\ config \in [Protocols -> {"enabled", "disabled", "deleted"}]
    /\ ticks \in Nat
    /\ answer \in [Markets -> [tries : Nat,
                               last : {"none", "running", "late", "failed", "fatal", "ok"}]]
    /\ scores \subseteq AnyId
    /\ \A w \in work : w.id \in AnyId /\ w.at \in Places

\* Between two batches nothing runs, and a batch is left when it is drained.
TickInv ==
    /\ tick.phase # "fan" => tick.batch = {}
    /\ \A m \in Markets : m \in tick.batch \/ answer[m].last = "none" \/ Settled(m)

\* The attempts of this tick that were made, and of the ticks before.
Made(id) == id.tick <= ticks /\ (id.tick = ticks => id.try <= answer[id.market].tries)

Running(m) == answer[m].last = "running"

\* An id is made once; an attempt that was not given up is the running one.
IdInv ==
    /\ \A w, v \in work : w.id = v.id => w = v
    /\ \A w \in work : Made(w.id)
    /\ \A s \in scores : Made(s)
    /\ \A w \in work : w.id \notin givenUp =>
          w.id = Attempt(w.id.market, answer[w.id.market].tries) /\ Running(w.id.market)

\* A snapshot stays as long as its protocol.
SnapshotInv ==
    /\ \A w \in work : w.at # "yarn" /\ Standing(w.id.market) => w.id \in snapshots
    /\ \A m \in Markets : answer[m].last = "ok" /\ Standing(m)
                              => Attempt(m, answer[m].tries) \in snapshots

\* id is no later attempt than s.
NotAfter(id, s) == id.tick = s.tick /\ id.market = s.market => id.try <= s.try

\* The score of an attempt that was not given up is the market's answer, and
\* no later attempt of its tick was made.
ScoreInv ==
    \A s \in scores : s \notin givenUp =>
        /\ s.tick = ticks => answer[s.market].tries = s.try /\ answer[s.market].last = "ok"
        /\ \A w \in work : NotAfter(w.id, s)
        /\ \A t \in scores : NotAfter(t, s)

IInv == Types /\ TickInv /\ IdInv /\ SnapshotInv /\ ScoreInv

-----------------------------------------------------------------------------

LEMMA InitIInv == Init => IInv
BY ScorerAssumption
   DEF Init, IInv, Types, TickInv, IdInv, SnapshotInv, ScoreInv, NoTick, NoAnswer

\* The scores of two attempts at one market, of which the first was not given up.
LEMMA Accounted == IInv => MarketsAccounted
<1>1. ASSUME IInv, NEW s \in scores, NEW t \in scores,
             s.tick = t.tick, s.market = t.market, s.try < t.try, s \notin givenUp
      PROVE  FALSE
  BY <1>1 DEF IInv, Types, AnyId, ScoreInv, NotAfter
<1> QED  BY <1>1 DEF IInv, TickInv, SnapshotInv, MarketsAccounted

-----------------------------------------------------------------------------
(* The workflow *)

LEMMA StartStep ==
    ASSUME IInv, NEW job, StartTick(job)
    PROVE  IInv'
<1> USE DEF StartTick, tables
<1>1. Types' /\ TickInv'
  BY DEF IInv, Types, TickInv, NoAnswer
<1>2. \A m \in Markets : ~Running(m)
  BY DEF IInv, Types, TickInv, Running, Settled, NoTick
<1>3. work \subseteq {w \in work : w.id \in givenUp}
  BY <1>2 DEF IInv, IdInv, Types, AnyId
<1>4. \A id \in AnyId : Made(id) => Made(id)' /\ id.tick # ticks'
  BY DEF IInv, Types, AnyId, Made
<1>5. IdInv'
  BY <1>3, <1>4 DEF IInv, IdInv, Types
<1>6. SnapshotInv'
  BY DEF IInv, SnapshotInv, Standing, NoAnswer
<1>7. ScoreInv'
  BY <1>4 DEF IInv, ScoreInv, IdInv, Types, NotAfter
<1> QED  BY <1>1, <1>5, <1>6, <1>7 DEF IInv

LEMMA WorkflowStep ==
    ASSUME IInv, LoadProtocols \/ ListMarkets \/ NextBatch
    PROVE  IInv'
<1>1. UNCHANGED <<config, scores, snapshots, answer, work, ticks, givenUp>>
  BY DEF LoadProtocols, ListMarkets, NextBatch, tables
<1>2. TickInv'
  <2>1. CASE LoadProtocols
    BY <2>1 DEF LoadProtocols, IInv, TickInv, Settled, MayRetry, NoTick
  <2>2. CASE ListMarkets
    <3>1. tick.phase = "list" /\ tick'.batch = {}
      BY <2>2 DEF ListMarkets
    <3> QED  BY <1>1, <3>1 DEF IInv, TickInv, Settled, MayRetry
  <2>3. CASE NextBatch
    <3>1. \A m \in Markets : answer[m].last = "none" \/ Settled(m)
      BY <2>3 DEF NextBatch, IInv, TickInv, Drained
    <3>2. tick'.phase = "fan" \/ tick'.batch = {}
      BY <2>3 DEF NextBatch, NoTick
    <3> QED  BY <1>1, <3>1, <3>2 DEF TickInv, Settled, MayRetry
  <2> QED  BY <2>1, <2>2, <2>3
<1> QED
  BY <1>1, <1>2 DEF IInv, Types, IdInv, Made, Running, Attempt, SnapshotInv, Standing, ScoreInv, NotAfter

LEMMA RunStep ==
    ASSUME IInv, NEW m \in Markets, RunAttempt(m)
    PROVE  IInv'
<1> USE DEF RunAttempt, tables
<1>0. PICK n, w : /\ n = answer[m].tries + 1
                  /\ w = [id |-> Attempt(m, n), job |-> tick.job, at |-> "yarn"]
  OBVIOUS
<1>1. /\ n = answer[m].tries + 1
      /\ w.id = [tick |-> ticks, market |-> m, try |-> n] /\ w.at = "yarn"
      /\ answer[m].tries \in Nat /\ ticks \in Nat
      /\ work' = work \cup {w}
      /\ answer' = [answer EXCEPT ![m] = [tries |-> n, last |-> "running"]]
      /\ answer[m].last \in {"none", "failed", "late"}
  BY <1>0 DEF IInv, Types, MayRetry, Attempt
<1>2. Types'
  BY <1>1 DEF IInv, Types, AnyId, Places
<1>3. TickInv'
  BY <1>1 DEF IInv, Types, TickInv, Settled, MayRetry
<1>4. \A id \in AnyId : Made(id) => Made(id)' /\ id # w.id /\ NotAfter(id, w.id)
  BY <1>1 DEF IInv, Types, AnyId, Made, Attempt, NotAfter
<1>5. Made(w.id)'
  BY <1>1 DEF IInv, Types, Made, Attempt
<1>6. \A v \in work : v.id \notin givenUp => v.id.market # m
  BY <1>1 DEF IInv, IdInv, Running
<1>7. IdInv'
  <2>1. (\A u, v \in work : u.id = v.id => u = v)'
    BY <1>1, <1>4 DEF IInv, IdInv, Types
  <2>2. (\A v \in work : Made(v.id))' /\ (\A s \in scores : Made(s))'
    BY <1>1, <1>4, <1>5 DEF IInv, IdInv, Types
  <2>3. (w.id = Attempt(w.id.market, answer[w.id.market].tries) /\ Running(w.id.market))'
    BY <1>1 DEF IInv, Types, Attempt, Running
  <2>4. \A v \in work : v.id \notin givenUp =>
            (v.id = Attempt(v.id.market, answer[v.id.market].tries) /\ Running(v.id.market))'
    BY <1>1, <1>6 DEF IInv, IdInv, Types, Attempt, Running, AnyId
  <2> QED  BY <1>1, <2>1, <2>2, <2>3, <2>4 DEF IdInv
<1>8. SnapshotInv'
  BY <1>1 DEF IInv, Types, SnapshotInv, Standing, Attempt
<1>9. ScoreInv'
  <2>1. \A s \in scores : s \notin givenUp => ~(s.tick = ticks /\ s.market = m)
    BY <1>1 DEF IInv, ScoreInv
  <2>2. \A s \in scores : s \notin givenUp => NotAfter(w.id, s)
    BY <1>1, <2>1 DEF NotAfter, Attempt
  <2> QED  BY <1>1, <2>1, <2>2 DEF IInv, Types, AnyId, ScoreInv, NotAfter
<1> QED  BY <1>2, <1>3, <1>7, <1>8, <1>9 DEF IInv

LEMMA LateStep ==
    ASSUME IInv, NEW m \in Markets, TimeOut(m)
    PROVE  IInv'
<1> USE DEF TimeOut, MayBeLate, tables
<1>1. /\ Running(m) /\ answer[m].tries \in Nat
      /\ answer' = [answer EXCEPT ![m] = [tries |-> answer[m].tries, last |-> "late"]]
  BY DEF IInv, Types, Running
<1>2. \A k \in Markets : answer'[k].tries = answer[k].tries
  BY <1>1 DEF IInv, Types
<1>3. Types'
  BY <1>1 DEF IInv, Types
<1>4. TickInv'
  BY <1>1 DEF IInv, Types, TickInv, Settled, MayRetry, Running
<1>5. \A id \in AnyId : Made(id) => Made(id)'
  BY <1>2 DEF AnyId, Made
<1>6. IdInv'
  <2>1. \A v \in work : v.id \notin givenUp' => v.id.market # m
    BY <1>1 DEF IInv, IdInv
  <2>2. \A v \in work : v.id \notin givenUp' =>
            (v.id = Attempt(v.id.market, answer[v.id.market].tries) /\ Running(v.id.market))'
    BY <1>1, <2>1 DEF IInv, IdInv, Types, AnyId, Attempt, Running
  <2> QED  BY <1>5, <2>2 DEF IInv, IdInv, Types
<1>7. SnapshotInv'
  BY <1>1 DEF IInv, Types, SnapshotInv, Standing, Attempt
<1>8. ScoreInv'
  BY <1>1 DEF IInv, Types, AnyId, ScoreInv, NotAfter, Running
<1> QED  BY <1>3, <1>4, <1>6, <1>7, <1>8 DEF IInv

-----------------------------------------------------------------------------
(* The attempts *)

\* The end of an attempt, with what it leaves in the tables.
LEMMA ReportStep ==
    ASSUME IInv, NEW w \in work, NEW result \in {"failed", "fatal", "ok"},
           Report(w, result),
           UNCHANGED <<config, tick, ticks, givenUp>>,
           snapshots \subseteq snapshots',
           result = "ok" /\ Standing(w.id.market) => w.id \in snapshots',
           \/ scores' = scores
           \/ scores' = scores \cup {w.id} /\ result = "ok"
    PROVE  IInv'
<1> DEFINE m == w.id.market
           waited == w.id = Attempt(m, answer[m].tries) /\ Running(m)
<1>1. /\ m \in Markets /\ w.id \in AnyId /\ answer[m].tries \in Nat
      /\ work' = work \ {w}
      /\ answer' = IF waited
                   THEN [answer EXCEPT ![m] = [tries |-> answer[m].tries, last |-> result]]
                   ELSE answer
  BY DEF Report, IInv, Types, AnyId, Running
<1>2. \A k \in Markets : answer'[k].tries = answer[k].tries
  BY <1>1 DEF IInv, Types
<1>3. \A k \in Markets : answer'[k] # answer[k] => k = m /\ waited /\ answer'[k].last = result
  BY <1>1 DEF IInv, Types
<1>4. Types'
  <2>1. answer' \in [Markets -> [tries : Nat,
                                 last : {"none", "running", "late", "failed", "fatal", "ok"}]]
    BY <1>1 DEF IInv, Types
  <2> QED  BY <1>1, <2>1 DEF IInv, Types
<1>5. TickInv'
  <2>1. \A k \in Markets : k # m => answer'[k] = answer[k]
    BY <1>3
  <2>2. answer'[m] # answer[m] => m \in tick.batch
    BY <1>1, <1>3 DEF IInv, TickInv, Settled, Running
  <2> QED  BY <2>1, <2>2 DEF IInv, TickInv, Settled, MayRetry
<1>6. \A id \in AnyId : Made(id) => Made(id)'
  BY <1>2 DEF AnyId, Made
<1>7. IdInv'
  <2>1. \A v \in work' : v.id # w.id /\ v \in work
    BY <1>1 DEF IInv, IdInv
  <2>2. \A v \in work' : v.id \notin givenUp => answer'[v.id.market] = answer[v.id.market]
    BY <1>3, <2>1 DEF IInv, IdInv, Types, AnyId
  <2>3. \A v \in work' : v.id \notin givenUp =>
            (v.id = Attempt(v.id.market, answer[v.id.market].tries) /\ Running(v.id.market))'
    BY <2>1, <2>2 DEF IInv, IdInv, Attempt, Running
  <2>4. (\A s \in scores : Made(s))'
    BY <1>1, <1>6 DEF IInv, IdInv, Types
  <2> QED  BY <1>6, <2>1, <2>3, <2>4 DEF IInv, IdInv, Types
<1>8. SnapshotInv'
  <2>1. \A v \in work' : v.at # "yarn" /\ Standing(v.id.market)' => v.id \in snapshots'
    BY <1>1 DEF IInv, SnapshotInv, Standing
  <2>2. ASSUME NEW k \in Markets, answer'[k].last = "ok", Standing(k)'
        PROVE  Attempt(k, answer[k].tries)' \in snapshots'
    <3>1. CASE answer'[k] = answer[k]
      BY <2>2, <3>1 DEF IInv, SnapshotInv, Standing, Attempt
    <3>2. CASE answer'[k] # answer[k]
      BY <1>2, <1>3, <2>2, <3>2 DEF Standing, Attempt
    <3> QED  BY <3>1, <3>2
  <2> QED  BY <2>1, <2>2 DEF SnapshotInv
<1>9. ScoreInv'
  <2>1. ASSUME NEW s \in scores, s \notin givenUp, s.tick = ticks
        PROVE  answer'[s.market].tries = s.try /\ answer'[s.market].last = "ok"
    BY <1>3, <2>1 DEF IInv, ScoreInv, Types, AnyId, Running
  <2>2. ASSUME NEW s \in scores, s \notin givenUp
        PROVE  NotAfter(w.id, s) /\ (\A v \in work' : NotAfter(v.id, s))
                   /\ (\A t \in scores' : NotAfter(t, s))
    BY <1>1, <2>2 DEF IInv, ScoreInv
  <2>3. ASSUME w.id \notin givenUp, w.id \in scores', w.id \notin scores
        PROVE  /\ w.id.tick = ticks
               /\ answer'[m].tries = w.id.try /\ answer'[m].last = "ok"
               /\ \A v \in work' : NotAfter(v.id, w.id)
               /\ \A t \in scores' : NotAfter(t, w.id)
    <3>1. waited /\ result = "ok"
      BY <2>3 DEF IInv, IdInv
    <3>2. w.id.tick = ticks /\ w.id.try = answer[m].tries
      BY <3>1 DEF Attempt
    <3>3. \A id \in AnyId : Made(id) => NotAfter(id, w.id)
      BY <1>1, <3>2 DEF AnyId, Made, NotAfter
    <3>4. NotAfter(w.id, w.id)
      BY <1>1 DEF NotAfter, AnyId
    <3> QED  BY <1>1, <3>1, <3>2, <3>3, <3>4 DEF IInv, IdInv, Types
  <2>4. ASSUME NEW s \in scores', s \notin givenUp
        PROVE  /\ s.tick = ticks => answer'[s.market].tries = s.try /\ answer'[s.market].last = "ok"
               /\ \A v \in work' : NotAfter(v.id, s)
               /\ \A t \in scores' : NotAfter(t, s)
    <3>1. CASE s \in scores
      BY <2>1, <2>2, <2>4, <3>1
    <3>2. CASE s \notin scores
      BY <2>3, <2>4, <3>2
    <3> QED  BY <3>1, <3>2
  <2> QED  BY <2>4 DEF ScoreInv, NotAfter
<1> QED  BY <1>4, <1>5, <1>7, <1>8, <1>9 DEF IInv

\* An attempt that goes on, and those that an operator's change meets.
LEMMA MoveStep ==
    ASSUME IInv, UNCHANGED <<config, scores, tick, answer, ticks, givenUp>>,
           snapshots \subseteq snapshots',
           \A v \in work' : /\ \E w \in work : v.id = w.id
                            /\ v.at \in Places
                            /\ v.at # "yarn" /\ Standing(v.id.market) => v.id \in snapshots',
           \A u, v \in work' : u.id = v.id => u = v
    PROVE  IInv'
<1>1. Types' /\ TickInv'
  BY DEF IInv, Types, TickInv, Settled, MayRetry
<1>2. IdInv'
  <2>1. \A id : Made(id)' <=> Made(id)
    BY DEF Made
  <2>2. \A m : Running(m)' <=> Running(m)
    BY DEF Running
  <2>3. \A v \in work' : v.id \notin givenUp =>
            (v.id = Attempt(v.id.market, answer[v.id.market].tries) /\ Running(v.id.market))'
    BY <2>2 DEF IInv, IdInv, Attempt
  <2> QED  BY <2>1, <2>3 DEF IInv, IdInv
<1>3. SnapshotInv'
  BY DEF IInv, SnapshotInv, Standing, Attempt
<1>4. ScoreInv'
  <2>1. ASSUME NEW s \in scores, s \notin givenUp, NEW v \in work'
        PROVE  NotAfter(v.id, s)
    <3>1. PICK w \in work : v.id = w.id
      OBVIOUS
    <3> QED  BY <2>1, <3>1 DEF IInv, ScoreInv
  <2> QED  BY <2>1 DEF IInv, ScoreInv, NotAfter
<1> QED  BY <1>1, <1>2, <1>3, <1>4 DEF IInv

LEMMA WorkerStep ==
    ASSUME IInv, NEW w \in work, Worker(w)
    PROVE  IInv'
<1> USE DEF tables
<1>1. CASE FailAttempt(w)
  <2>1. PICK result \in {"failed", "fatal"} : Report(w, result)
    BY <1>1 DEF FailAttempt
  <2> QED  BY <1>1, <2>1, ReportStep DEF FailAttempt
<1>2. CASE Collect(w)
  BY <1>2, ReportStep DEF Collect
<1>3. CASE MarketGone(w)
  BY <1>3, ReportStep DEF MarketGone
<1>4. CASE StoreSnapshot(w)
  <2> DEFINE v == [w EXCEPT !.at = "stored"]
  <2>1. v.id = w.id /\ v.at = "stored"
    OBVIOUS
  <2> HIDE DEF v
  <2>2. work' = (work \ {w}) \cup {v} /\ snapshots' = snapshots \cup {w.id}
    BY <1>4 DEF StoreSnapshot, v
  <2> QED  BY <1>4, <2>1, <2>2, MoveStep
             DEF StoreSnapshot, run, IInv, Types, IdInv, SnapshotInv, Places
<1>5. CASE Resolve(w)
  <2>1. PICK p : work' = (work \ {w}) \cup {Between(w.id, p, InForce(w.id.market), 0, FALSE)}
    BY <1>5 DEF Resolve
  <2> DEFINE v == Between(w.id, p, InForce(w.id.market), 0, FALSE)
  <2>2. v.id = w.id /\ v.at = "resolved" /\ w.at = "stored"
    BY <1>5 DEF Resolve, Between
  <2> HIDE DEF v
  <2>3. work' = (work \ {w}) \cup {v}
    BY <2>1 DEF v
  <2>4. UNCHANGED <<config, snapshots, scores, tick, answer, ticks, givenUp>>
    BY <1>5 DEF Resolve, run
  <2> QED  BY <2>2, <2>3, <2>4, MoveStep
             DEF IInv, Types, IdInv, SnapshotInv, Places
<1>6. CASE Score(w)
  <2>1. w.at = "resolved" /\ w.id \in AnyId
    BY <1>6 DEF Score, IInv, Types
  <2>2. Standing(w.id.market) => w.id \in snapshots
    BY <2>1 DEF IInv, SnapshotInv
  <2>3. \/ Report(w, "ok") /\ scores' \in {scores, scores \cup {w.id}}
        \/ Report(w, "failed") /\ scores' = scores
    BY <1>6 DEF Score
  <2> QED  BY <1>6, <2>2, <2>3, ReportStep DEF Score
<1> QED  BY <1>1, <1>2, <1>3, <1>4, <1>5, <1>6 DEF Worker

-----------------------------------------------------------------------------
(* The operators *)

LEMMA ChangedWork ==
    ASSUME IInv, Overlap
    PROVE  /\ \A v \in work' : \E w \in work : v.id = w.id /\ v.at = w.at
           /\ \A u, v \in work' : u.id = v.id => u = v
<1> DEFINE Changed(w) ==
      IF w.at = "resolved"
      THEN Between(w.id, w.found, w.seen \cup InForce(w.id.market)', w.edits + 1,
                   w.moved \/ (w.found # Absent /\ ~Applies(w.found, w.id.market)'))
      ELSE w
<1>1. work' = {Changed(w) : w \in work}
  BY DEF Overlap
<1>2. \A w : Changed(w).id = w.id /\ Changed(w).at = w.at
  BY DEF Between
<1> HIDE DEF Changed
<1> QED  BY <1>1, <1>2 DEF IInv, IdInv

LEMMA ProfileStep ==
    ASSUME IInv, Overlap,
           UNCHANGED <<config, snapshots, scores, run, ticks, givenUp>>
    PROVE  IInv'
BY ChangedWork, MoveStep DEF run, IInv, Types, SnapshotInv

LEMMA ToggleStep ==
    ASSUME IInv, NEW c \in Protocols, Toggle(c)
    PROVE  IInv'
<1> USE DEF Toggle, run
<1>1. Types' /\ TickInv' /\ IdInv' /\ ScoreInv'
  BY DEF IInv, Types, TickInv, Settled, MayRetry, IdInv, Made, Attempt, Running, ScoreInv, NotAfter
<1>2. \A m \in Markets : Standing(m)' => Standing(m)
  BY DEF IInv, Types, Standing
<1> QED  BY <1>1, <1>2 DEF IInv, SnapshotInv, Types, AnyId, Attempt

\* The markets of a protocol are its own.
LEMMA OwnProtocol ==
    ASSUME NEW m \in Markets
    PROVE  /\ ProtocolOf(m) \in Protocols /\ m \in MarketsOf[ProtocolOf(m)]
           /\ \A c \in Protocols : m \in MarketsOf[c] => c = ProtocolOf(m)
<1>1. PICK c \in Protocols : m \in MarketsOf[c]
  BY DEF Markets
<1>2. ProtocolOf(m) \in Protocols /\ m \in MarketsOf[ProtocolOf(m)]
  BY <1>1 DEF ProtocolOf
<1> QED  BY <1>2, MarketsAssumption

LEMMA DeleteStep ==
    ASSUME IInv, NEW c \in Protocols, DeleteConfig(c)
    PROVE  IInv'
<1> USE DEF run
<1>1. /\ UNCHANGED <<tick, answer, ticks, givenUp>>
      /\ snapshots' = {s \in snapshots : s.market \notin MarketsOf[c]}
      /\ scores' \subseteq scores
      /\ config' = [config EXCEPT ![c] = "deleted"]
      /\ \A v \in work' : \E w \in work : v.id = w.id /\ v.at = w.at
      /\ \A u, v \in work' : u.id = v.id => u = v
  BY ChangedWork DEF DeleteConfig
<1>2. \A m \in Markets : Standing(m)' => Standing(m) /\ m \notin MarketsOf[c]
  BY <1>1, OwnProtocol DEF IInv, Types, Standing
<1>3. Types' /\ TickInv'
  BY <1>1 DEF IInv, Types, TickInv, Settled, MayRetry
<1>4. IdInv'
  <2>1. \A id : Made(id)' <=> Made(id)
    BY <1>1 DEF Made
  <2>2. \A v \in work' : v.id \notin givenUp =>
            (v.id = Attempt(v.id.market, answer[v.id.market].tries) /\ Running(v.id.market))'
    BY <1>1 DEF IInv, IdInv, Attempt, Running
  <2> QED  BY <1>1, <2>1, <2>2 DEF IInv, IdInv
<1>5. SnapshotInv'
  <2>1. ASSUME NEW v \in work', v.at # "yarn", Standing(v.id.market)'
        PROVE  v.id \in snapshots'
    <3>1. PICK w \in work : v.id = w.id /\ v.at = w.at
      BY <1>1
    <3>2. w.id.market \in Markets
      BY DEF IInv, Types, AnyId
    <3> QED  BY <1>1, <1>2, <2>1, <3>1, <3>2 DEF IInv, SnapshotInv
  <2>2. ASSUME NEW m \in Markets, answer'[m].last = "ok", Standing(m)'
        PROVE  Attempt(m, answer[m].tries)' \in snapshots'
    BY <1>1, <1>2, <2>2 DEF IInv, SnapshotInv, Attempt
  <2> QED  BY <2>1, <2>2 DEF SnapshotInv
<1>6. ScoreInv'
  <2>1. ASSUME NEW s \in scores, s \notin givenUp, NEW v \in work'
        PROVE  NotAfter(v.id, s)
    <3>1. PICK w \in work : v.id = w.id
      BY <1>1
    <3> QED  BY <2>1, <3>1 DEF IInv, ScoreInv
  <2> QED  BY <1>1, <2>1 DEF IInv, ScoreInv, NotAfter
<1> QED  BY <1>3, <1>4, <1>5, <1>6 DEF IInv

-----------------------------------------------------------------------------

LEMMA StutterStep == IInv /\ UNCHANGED vars => IInv'
BY DEF vars, tables, run, IInv, Types, TickInv, Settled, MayRetry, IdInv, Made, Running,
       Attempt, SnapshotInv, Standing, ScoreInv, NotAfter

LEMMA StepIInv == IInv /\ [Next]_vars => IInv'
<1> SUFFICES ASSUME IInv, [Next]_vars  PROVE IInv'
  OBVIOUS
<1>1. ASSUME NEW job \in {"collect", "score"}, StartTick(job)  PROVE IInv'
  BY <1>1, StartStep
<1>2. CASE Temporal
  BY <1>2, WorkflowStep, RunStep, LateStep DEF Temporal
<1>3. ASSUME NEW w \in work, Worker(w)  PROVE IInv'
  BY <1>3, WorkerStep
<1>4. CASE Operator
  <2>1. ASSUME NEW c \in Protocols, Toggle(c) \/ DeleteConfig(c)  PROVE IInv'
    BY <2>1, ToggleStep, DeleteStep
  <2>2. ASSUME NEW p \in Profiles,
               DeleteProfile(p) \/ \E target \in Targets(p), weights \in WeightSets :
                   CreateProfile(p, target, weights) \/ UpdateProfile(p, target, weights)
        PROVE  IInv'
    BY <2>2, ProfileStep DEF DeleteProfile, CreateProfile, UpdateProfile
  <2> QED  BY <1>4, <2>1, <2>2 DEF Operator
<1>5. CASE UNCHANGED vars
  BY <1>5, StutterStep
<1> QED  BY <1>1, <1>2, <1>3, <1>4, <1>5 DEF Next

LEMMA Invariance == Spec => []IInv
<1>1. Init => IInv
  BY InitIInv
<1>2. IInv /\ [Next]_vars => IInv'
  BY StepIInv
<1> QED  BY <1>1, <1>2, PTL DEF Spec

\* MarketsAccounted: whatever fails, is late or dies, a tick leaves a market
\* with its last answer, an answer "ok" with its snapshot, and scores a market
\* again only when the attempt that scored it first was given up.
THEOREM AccountedMarkets == Spec => []MarketsAccounted
<1>1. IInv => MarketsAccounted
  BY Accounted
<1> QED  BY Invariance, <1>1, PTL

-----------------------------------------------------------------------------
(* The weights of a score *)

\* A row is named by the change that wrote it.
ProfileInv ==
    /\ edits \in Nat
    /\ DOMAIN profile = Profiles
    /\ \A p \in Profiles : Live(p) =>
          /\ profile[p] = Row(profile[p].target, profile[p].weights, profile[p].updated)
          /\ profile[p].updated \in 0 .. edits

\* Before any change the profile found is still the one to be found, and its
\* weights are in force; after one change they are, or were before it.
Known(w) ==
    /\ w.id.market \in Markets
    /\ w.edits \in Nat /\ w.moved \in BOOLEAN
    /\ w.found = Absent => NoWeights \in w.seen
    /\ w.found # Absent => w.found \in Profiles
    /\ w.edits = 0 => ~w.moved /\ (w.found # Absent => w.found \in Winners(w.id.market))
    /\ w.edits <= 1 /\ ~w.moved => Entries(w.found) \in w.seen

ReadInv == \A w \in work : w.at = "resolved" => Known(w)

WInv == ProfileInv /\ ReadInv

LEMMA InitWInv == Init => WInv
BY ProfilesAssumption DEF Init, WInv, ProfileInv, ReadInv, Live, Row

LEMMA WeightsKnown == WInv => WeightsInForce
BY DEF WInv, ReadInv, Known, WeightsInForce, Reading

\* Numbers up to e have a greatest one among them.
LEMMA Newest ==
    ASSUME NEW S, NEW f, NEW e \in Nat, S # {}, \A p \in S : f[p] \in 0 .. e
    PROVE  \E p \in S : \A q \in S : f[q] <= f[p]
<1> DEFINE T == {e - f[p] : p \in S}
<1>1. T \subseteq Nat /\ T # {}
  OBVIOUS
<1>2. \E x \in T : \A y \in T : ~ (<<y, x>> \in OpToRel(<, Nat))
  BY <1>1, NatLessThanWellFounded, WFMin
<1>3. PICK p \in S : \A q \in S : ~ (<<e - f[q], e - f[p]>> \in OpToRel(<, Nat))
  BY <1>2
<1>4. \A q \in S : ~ (e - f[q] < e - f[p])
  BY <1>1, <1>3 DEF OpToRel
<1> QED  BY <1>4

\* The weights of the profile that resolve_weighting_profile finds are in force.
LEMMA WinnersInForce ==
    \A m \in Markets, p \in Profiles : p \in Winners(m) => profile[p].weights \in InForce(m)
<1> SUFFICES ASSUME NEW m \in Markets, NEW p \in Profiles, p \in Winners(m)
             PROVE  profile[p].weights \in InForce(m)
  OBVIOUS
<1> DEFINE own(s) == {q \in Profiles : Applies(q, m) /\ ScopeOf[q] = s}
<1>1. \A q \in own("market") \cup own("protocol") : q \in Candidates(m)
  BY DEF Candidates
<1>2. p \in own("market") \/ p \in own("protocol")
  BY ScorerAssumption DEF Winners, Candidates
<1>3. p \in own("protocol") => own("market") = {}
  BY <1>1 DEF Winners, Rank
<1>4. \A q \in own(ScopeOf[p]) : profile[q].updated <= profile[p].updated
  BY <1>1, <1>2 DEF Winners, Rank
<1> QED  BY <1>2, <1>3, <1>4 DEF InForce

LEMMA WinnersInForceNext ==
    (\A m \in Markets, p \in Profiles : p \in Winners(m) => profile[p].weights \in InForce(m))'
BY WinnersInForce, PTL

\* Where it finds none, there is none.
LEMMA NoneInForce ==
    ASSUME WInv, NEW m \in Markets, Winners(m) = {}
    PROVE  InForce(m) = {NoWeights}
<1>1. Candidates(m) = {}
  <2> DEFINE own(s) == {q \in Candidates(m) : ScopeOf[q] = s}
             f == [p \in Profiles |-> profile[p].updated]
  <2>1. \A p \in Candidates(m) : p \in Profiles /\ f[p] \in 0 .. edits
    BY DEF Candidates, Applies, WInv, ProfileInv
  <2>2. ASSUME NEW s, own(s) # {}
        PROVE  \E p \in own(s) : \A q \in own(s) : f[q] <= f[p]
    <3>1. edits \in Nat
      BY DEF WInv, ProfileInv
    <3> HIDE DEF f
    <3> QED  BY <2>1, <2>2, <3>1, Newest
  <2>3. own("market") = {}
    <3> SUFFICES ASSUME own("market") # {}  PROVE FALSE
      OBVIOUS
    <3>1. PICK p \in own("market") : \A q \in own("market") : f[q] <= f[p]
      BY <2>2
    <3>2. \A q \in Candidates(m) : ScopeOf[q] = "protocol" \/ f[q] <= f[p]
      BY <2>1, ScorerAssumption, <3>1
    <3>3. p \in Candidates(m) /\ ScopeOf[p] = "market"
      OBVIOUS
    <3>4. \A q \in Candidates(m) : f[q] = profile[q].updated
      BY <2>1
    <3>5. edits \in Nat /\ \A q \in Candidates(m) : f[q] \in 0 .. edits
      BY <2>1 DEF WInv, ProfileInv
    <3> HIDE DEF f, own
    <3>6. p \in Winners(m)
      BY <2>1, <3>2, <3>3, <3>4, <3>5, ScorerAssumption DEF Winners, Rank
    <3> QED  BY <3>6
  <2>4. own("protocol") = {}
    <3> SUFFICES ASSUME own("protocol") # {}  PROVE FALSE
      OBVIOUS
    <3>1. PICK p \in own("protocol") : \A q \in own("protocol") : f[q] <= f[p]
      BY <2>2
    <3>2. p \in Winners(m)
      BY <2>1, <2>3, <3>1, ScorerAssumption DEF Winners, Rank
    <3> QED  BY <3>2
  <2> QED  BY <2>1, <2>3, <2>4, ScorerAssumption
<1> QED  BY <1>1 DEF Candidates, InForce

\* Steps that change no profile.
LEMMA QuietStep ==
    ASSUME WInv, profile' = profile, edits' \in Nat, edits <= edits',
           \A v \in work' : v \in work \/ v.at # "resolved" \/ Known(v)
    PROVE  WInv'
<1>1. ProfileInv'
  BY DEF WInv, ProfileInv, Live
<1>2. \A v : Known(v) => Known(v)'
  BY DEF Known, Winners, Candidates, Applies, Live, Entries
<1>3. ReadInv'
  BY <1>2 DEF WInv, ReadInv
<1> QED  BY <1>1, <1>3 DEF WInv

LEMMA ResolveStep ==
    ASSUME IInv, WInv, NEW w \in work, Resolve(w)
    PROVE  WInv'
<1> DEFINE m == w.id.market
<1>1. PICK p \in IF Winners(m) = {} THEN {Absent} ELSE Winners(m) :
          work' = (work \ {w}) \cup {Between(w.id, p, InForce(m), 0, FALSE)}
  BY DEF Resolve
<1>2. UNCHANGED <<profile, edits>> /\ m \in Markets /\ edits \in Nat
  BY DEF Resolve, tables, IInv, Types, AnyId, WInv, ProfileInv
<1>3. /\ p # Absent => p \in Profiles /\ p \in Winners(m)
      /\ p = Absent => NoWeights \in InForce(m)
      /\ Entries(p) \in InForce(m)
  <2>1. CASE Winners(m) = {}
    BY <1>1, <1>2, <2>1, NoneInForce, ProfilesAssumption DEF Entries
  <2>2. CASE Winners(m) # {}
    <3>1. p \in Winners(m) /\ p \in Profiles /\ p # Absent /\ Live(p)
      BY <1>1, <2>2, ProfilesAssumption DEF Winners, Candidates, Applies
    <3> QED  BY <1>2, <3>1, WinnersInForce DEF Entries
  <2> QED  BY <2>1, <2>2
<1> DEFINE v == Between(w.id, p, InForce(m), 0, FALSE)
<1>4. Known(v)
  BY <1>2, <1>3 DEF Known, Between
<1> HIDE DEF v
<1>5. work' = (work \ {w}) \cup {v}
  BY <1>1 DEF v
<1> QED  BY <1>2, <1>4, <1>5, QuietStep

\* One change: of a row p, which is then the newest, and of rows that go.
LEMMA ChangeStep ==
    ASSUME WInv, Overlap, ProfileInv', NEW p,
           \A q \in Profiles : profile'[q] \in {profile[q], Absent} \/ q = p,
           p \in Profiles /\ Live(p) /\ Live(p)' => profile'[p].updated >= profile[p].updated
    PROVE  WInv'
<1>1. ASSUME NEW w \in work, w.at = "resolved", w.edits = 0,
             w.found # Absent, Applies(w.found, w.id.market)'
      PROVE  Entries(w.found)' \in w.seen \cup InForce(w.id.market)'
  <2>1. /\ w.found \in Profiles /\ w.found \in Winners(w.id.market)
        /\ w.id.market \in Markets /\ Entries(w.found) \in w.seen
    BY <1>1 DEF WInv, ReadInv, Known
  <2>2. CASE profile'[w.found] = profile[w.found]
    BY <2>1, <2>2 DEF Entries, Live
  <2>3. CASE profile'[w.found] # profile[w.found]
    <3>1. w.found = p /\ Live(p) /\ Live(p)' /\ p \in Profiles
      BY <1>1, <2>1, <2>3 DEF Applies, Live, Winners, Candidates
    <3>2. p \in Winners(w.id.market)'
      <4>1. \A q \in Candidates(w.id.market)' :
                q # p => q \in Candidates(w.id.market) /\ profile'[q] = profile[q]
        BY DEF Candidates, Applies, Live
      <4>2. /\ profile[p].updated \in Nat /\ profile'[p].updated \in Nat
            /\ profile'[p].updated >= profile[p].updated
        BY <3>1 DEF WInv, ProfileInv
      <4>3. \A q \in Candidates(w.id.market) : profile[q].updated \in Nat
        BY DEF Candidates, Applies, WInv, ProfileInv
      <4>4. p \in Candidates(w.id.market)'
        BY <1>1, <3>1 DEF Candidates
      <4> QED  BY <2>1, <3>1, <4>1, <4>2, <4>3, <4>4 DEF Winners
    <3> QED  BY <2>1, <3>1, <3>2, WinnersInForceNext DEF Entries, Live
  <2> QED  BY <2>2, <2>3
<1>2. ASSUME NEW w \in work, w.at = "resolved", NEW v,
             v = Between(w.id, w.found, w.seen \cup InForce(w.id.market)', w.edits + 1,
                         w.moved \/ (w.found # Absent /\ ~Applies(w.found, w.id.market)'))
      PROVE  /\ v.id.market \in Markets
             /\ v.edits \in Nat /\ v.moved \in BOOLEAN
             /\ v.found = Absent => NoWeights \in v.seen
             /\ v.found # Absent => v.found \in Profiles
             /\ v.edits # 0
             /\ v.edits <= 1 /\ ~v.moved => Entries(v.found)' \in v.seen
  <2>1. /\ v.id = w.id /\ v.edits = w.edits + 1 /\ v.found = w.found
        /\ v.seen = w.seen \cup InForce(w.id.market)'
        /\ v.moved <=> w.moved \/ (w.found # Absent /\ ~Applies(w.found, w.id.market)')
        /\ v.moved \in BOOLEAN
    BY <1>2 DEF Between
  <2>2. /\ w.id.market \in Markets /\ w.edits \in Nat
        /\ w.found = Absent => NoWeights \in w.seen
        /\ w.found # Absent => w.found \in Profiles
    BY <1>2 DEF WInv, ReadInv, Known
  <2>3. Entries(Absent)' = NoWeights
    BY ProfilesAssumption DEF Entries
  <2>4. ASSUME v.edits <= 1, ~v.moved
        PROVE  Entries(v.found)' \in v.seen
    <3>1. w.edits = 0 /\ (w.found = Absent \/ Applies(w.found, w.id.market)')
      BY <2>1, <2>2, <2>4
    <3>2. CASE w.found = Absent
      BY <2>1, <2>2, <2>3, <3>2
    <3>3. CASE w.found # Absent
      BY <1>1, <1>2, <2>1, <3>1, <3>3
    <3> QED  BY <3>2, <3>3
  <2> QED  BY <2>1, <2>2, <2>4
<1>3. ReadInv'
  <2>1. ASSUME NEW v \in work', v.at = "resolved"
        PROVE  \E w \in work : w.at = "resolved" /\
                 v = Between(w.id, w.found, w.seen \cup InForce(w.id.market)', w.edits + 1,
                             w.moved \/ (w.found # Absent /\ ~Applies(w.found, w.id.market)'))
    BY <2>1 DEF Overlap
  <2> QED  BY <1>2, <2>1 DEF ReadInv, Known
<1> QED  BY <1>3 DEF WInv

LEMMA StepWInv == IInv /\ WInv /\ [Next]_vars => WInv'
<1> SUFFICES ASSUME IInv, WInv, [Next]_vars  PROVE WInv'
  OBVIOUS
<1> USE DEF tables, run
<1>0. edits \in Nat
  BY DEF WInv, ProfileInv
<1>1. ASSUME NEW job \in {"collect", "score"}, StartTick(job)  PROVE WInv'
  BY <1>0, <1>1, QuietStep DEF StartTick
<1>2. CASE Temporal
  <2>1. ASSUME NEW m \in Markets, RunAttempt(m)  PROVE WInv'
    BY <1>0, <2>1, QuietStep DEF RunAttempt
  <2>2. ASSUME UNCHANGED <<profile, edits, work>>  PROVE WInv'
    BY <1>0, <2>2, QuietStep
  <2>3. CASE LoadProtocols \/ ListMarkets \/ NextBatch
    BY <2>2, <2>3 DEF LoadProtocols, ListMarkets, NextBatch
  <2>4. ASSUME NEW m \in Markets, TimeOut(m)  PROVE WInv'
    BY <2>2, <2>4 DEF TimeOut
  <2> QED  BY <1>2, <2>1, <2>3, <2>4 DEF Temporal
<1>3. ASSUME NEW w \in work, Worker(w)  PROVE WInv'
  <2>1. CASE StoreSnapshot(w)
    <3> DEFINE v == [w EXCEPT !.at = "stored"]
    <3>1. v.at # "resolved"
      BY <2>1 DEF StoreSnapshot
    <3>2. work' = (work \ {w}) \cup {v} /\ UNCHANGED <<profile, edits>>
      BY <2>1 DEF StoreSnapshot
    <3> HIDE DEF v
    <3> QED  BY <1>0, <3>1, <3>2, QuietStep
  <2>2. CASE Resolve(w)
    BY <2>2, ResolveStep
  <2>3. CASE FailAttempt(w) \/ Collect(w) \/ MarketGone(w) \/ Score(w)
    <3>1. work' = work \ {w} /\ UNCHANGED <<profile, edits>>
      BY <2>3 DEF FailAttempt, Collect, MarketGone, Score, Report
    <3> QED  BY <1>0, <3>1, QuietStep
  <2> QED  BY <1>3, <2>1, <2>2, <2>3 DEF Worker
<1>4. CASE Operator
  <2>1. ASSUME NEW c \in Protocols, Toggle(c)  PROVE WInv'
    BY <1>0, <2>1, QuietStep DEF Toggle, Edit
  <2>2. ASSUME NEW c \in Protocols, DeleteConfig(c)  PROVE WInv'
    <3>1. \A q \in Profiles : profile'[q] \in {profile[q], Absent}
      BY <2>2 DEF DeleteConfig
    <3>2. ProfileInv' /\ Overlap
      BY <1>0, <2>2, <3>1 DEF DeleteConfig, Edit, WInv, ProfileInv, Live
    <3> QED  BY <3>1, <3>2, ChangeStep, ProfilesAssumption
  <2>3. ASSUME NEW p \in Profiles, DeleteProfile(p)  PROVE WInv'
    BY <1>0, <2>3, ChangeStep DEF DeleteProfile, Edit, WInv, ProfileInv, Live
  <2>4. ASSUME NEW p \in Profiles, NEW target, NEW weights,
               CreateProfile(p, target, weights) \/ UpdateProfile(p, target, weights)
        PROVE  WInv'
    <3>1. PICK u \in 0 .. (edits + 1) :
              /\ profile' = [profile EXCEPT ![p] = Row(target, weights, u)]
              /\ Live(p) => u >= profile[p].updated
      BY <1>0, <2>4 DEF CreateProfile, UpdateProfile, WInv, ProfileInv
    <3>2. edits' = edits + 1 /\ Overlap
      BY <2>4 DEF CreateProfile, UpdateProfile, Edit
    <3>3. ProfileInv'
      BY <1>0, <3>1, <3>2 DEF WInv, ProfileInv, Live, Row
    <3> QED  BY <1>0, <3>1, <3>2, <3>3, ChangeStep DEF WInv, ProfileInv, Row
  <2> QED  BY <1>4, <2>1, <2>2, <2>3, <2>4 DEF Operator
<1>5. CASE UNCHANGED vars
  BY <1>0, <1>5, QuietStep DEF vars
<1> QED  BY <1>1, <1>2, <1>3, <1>4, <1>5 DEF Next

\* WeightsInForce: one change by an operator between the two reads of a
\* scorer does not give it weights that were in force at no moment, unless
\* the change deletes or moves the profile it found.
THEOREM ForcedWeights == Spec => []WeightsInForce
<1>1. Init => WInv
  BY InitWInv
<1>2. IInv /\ WInv /\ [Next]_vars => WInv'
  BY StepWInv
<1>3. WInv => WeightsInForce
  BY WeightsKnown
<1> QED  BY Invariance, <1>1, <1>2, <1>3, PTL DEF Spec

-----------------------------------------------------------------------------
(* Types and sizes *)

\* What the workflow holds.
TickSize ==
    /\ tick.batch \subseteq Markets /\ ToSet(tick.refs) \subseteq Markets
    /\ Cardinality(tick.batch) <= Concurrency
    /\ tick.refs \in Seq(Markets) /\ tick.todo \subseteq Protocols

\* What the operators change.
ProfileSize ==
    /\ config \in [Protocols -> {"enabled", "disabled", "deleted"}]
    /\ edits \in 0 .. MaxEdits
    /\ \A p \in Profiles : Live(p) =>
          /\ profile[p].target \in Targets(p)
          /\ profile[p].weights \in WeightSets
          /\ profile[p].updated \in 0 .. MaxEdits

\* What the attempts leave; one that runs was started in a tick.
AttemptSize ==
    /\ ticks \in 0 .. MaxTicks /\ (tick.phase # "idle" => ticks > 0)
    /\ snapshots \subseteq Ids /\ givenUp \subseteq Ids /\ scores \subseteq snapshots
    /\ answer \in [Markets -> [tries : 0 .. Tries,
                               last : {"none", "running", "late", "failed", "fatal", "ok"}]]
    /\ \A m \in Markets : Running(m) => Attempt(m, answer[m].tries) \in Ids
    /\ \A w \in work : w.id \in Ids

SizeInv == TickSize /\ ProfileSize /\ AttemptSize

LEMMA MembersOf ==
    ASSUME NEW S, NEW s \in Seq(S)
    PROVE  /\ ToSet(s) \subseteq S
           /\ Cardinality(ToSet(s)) \in Nat /\ Cardinality(ToSet(s)) <= Len(s)
<1>1. Len(s) \in Nat /\ s \in [1 .. Len(s) -> S] /\ DOMAIN s = 1 .. Len(s)
  BY LenProperties
<1>2. s \in Surjection(1 .. Len(s), ToSet(s))
  BY <1>1 DEF Surjection, ToSet
<1>3. IsFiniteSet(1 .. Len(s)) /\ Cardinality(1 .. Len(s)) = Len(s)
  <2>1. PICK n \in Nat : n = Len(s)
    BY <1>1
  <2>2. IsFiniteSet(1 .. n) /\ Cardinality(1 .. n) = n
    <3>1. 1 \in Int /\ n \in Int
      OBVIOUS
    <3>2. /\ IsFiniteSet(1 .. n)
          /\ Cardinality(1 .. n) = IF 1 > n THEN 0 ELSE n - 1 + 1
      BY ONLY <3>1, FS_Interval
    <3> QED  BY <3>2
  <2> QED  BY <2>1, <2>2
<1>4. IsFiniteSet(ToSet(s)) /\ Cardinality(ToSet(s)) <= Len(s)
  BY <1>2, <1>3, FS_Surjection
<1> QED  BY <1>1, <1>4, FS_CardinalityType DEF ToSet

LEMMA InSomeOrder ==
    ASSUME NEW S, NEW T \in SUBSET S, IsFiniteSet(T)
    PROVE  SetToSeq(T) \in Seq(S)
<1>1. Cardinality(T) \in Nat /\ \E f \in [1 .. Cardinality(T) -> T] : IsInjective(f)
  BY FS_CardinalityType DEF ExistsBijection, Bijection, Injection
<1>2. SetToSeq(T) \in [1 .. Cardinality(T) -> T]
  BY <1>1 DEF SetToSeq
<1>3. SetToSeq(T) \in [1 .. Cardinality(T) -> S]
  BY <1>2
<1> QED  BY <1>1, <1>3, IsASeq

\* _batches: a batch has at most Concurrency markets.
LEMMA Batches ==
    ASSUME NEW refs \in Seq(Markets)
    PROVE  /\ NextOf(refs) \in Seq(Markets) /\ Len(NextOf(refs)) <= Concurrency
           /\ AfterOf(refs) \in Seq(Markets)
<1> DEFINE k == Min({Concurrency, Len(refs)})
<1>1. /\ Len(refs) \in Nat /\ Concurrency \in Nat /\ Concurrency > 0
      /\ \A i \in 1 .. Len(refs) : refs[i] \in Markets
  BY ScorerAssumption, LenProperties
<1>2. k \in Nat /\ k <= Concurrency /\ k <= Len(refs)
  <2>1. \E x \in {Concurrency, Len(refs)} : \A y \in {Concurrency, Len(refs)} : x <= y
    BY <1>1
  <2>2. k \in {Concurrency, Len(refs)} /\ \A y \in {Concurrency, Len(refs)} : k <= y
    BY <2>1 DEF Min
  <2> QED  BY <1>1, <2>2
<1> HIDE DEF k
<1>3. /\ SubSeq(refs, 1, k) \in Seq(Markets)
      /\ Len(SubSeq(refs, 1, k)) = IF 1 <= k THEN k - 1 + 1 ELSE 0
  BY <1>1, <1>2, SubSeqProperties
<1>4. NextOf(refs) = SubSeq(refs, 1, k)
  BY DEF NextOf, k
<1>5. Len(NextOf(refs)) \in Nat /\ Len(NextOf(refs)) <= Concurrency
  BY <1>1, <1>2, <1>3, <1>4
<1>6. AfterOf(refs) \in Seq(Markets)
  BY <1>1, <1>5, SubSeqProperties DEF AfterOf
<1> QED  BY <1>3, <1>4, <1>5, <1>6

LEMMA InitSize == Init => SizeInv
<1> SUFFICES ASSUME Init  PROVE SizeInv
  OBVIOUS
<1> USE DEF Init
<1>1. \A p \in Profiles : Live(p) =>
          /\ profile[p].target \in Targets(p)
          /\ profile[p].weights \in WeightSets
          /\ profile[p].updated \in 0 .. MaxEdits
  <2> SUFFICES ASSUME NEW p \in Profiles, Live(p)
               PROVE  /\ profile[p].target \in Targets(p)
                      /\ profile[p].weights \in WeightSets
                      /\ profile[p].updated \in 0 .. MaxEdits
    OBVIOUS
  <2>1. PICK weights \in WeightSets,
             target \in IF ScopeOf[p] = "market" THEN Markets ELSE Protocols :
                 profile[p] = Row(target, weights, 0)
    BY ProfilesAssumption DEF Live
  <2>2. \A m \in Markets : Standing(m)
    BY OwnProtocol DEF Standing
  <2> QED  BY <2>1, <2>2, ScorerAssumption DEF Targets, Row
<1>2. /\ tick.batch \subseteq Markets /\ ToSet(tick.refs) \subseteq Markets
      /\ Cardinality(tick.batch) <= Concurrency
      /\ tick.refs \in Seq(Markets) /\ tick.todo \subseteq Protocols /\ tick.phase = "idle"
  <2>1. tick.batch = {} /\ tick.todo = {} /\ tick.refs = <<>> /\ tick.phase = "idle"
    BY DEF NoTick
  <2>2. <<>> \in Seq(Markets) /\ ToSet(<<>>) \subseteq Markets
    BY EmptySeq, MembersOf
  <2> QED  BY <2>1, <2>2, FS_EmptySet, ScorerAssumption
<1> QED
  BY <1>1, <1>2, ScorerAssumption
     DEF SizeInv, TickSize, ProfileSize, AttemptSize, NoAnswer, Running

LEMMA TickSizeStep ==
    ASSUME SizeInv, StartTick("collect") \/ StartTick("score")
                        \/ LoadProtocols \/ ListMarkets \/ NextBatch
    PROVE  TickSize'
<1>1. tick.refs \in Seq(Markets) /\ tick.todo \subseteq Protocols
  BY DEF SizeInv, TickSize
<1>2. ASSUME tick'.batch = {}, tick'.refs \in Seq(Markets), tick'.todo \subseteq Protocols
      PROVE  TickSize'
  BY <1>2, FS_EmptySet, MembersOf, ScorerAssumption DEF TickSize
<1>3. CASE StartTick("collect") \/ StartTick("score") \/ tick' = NoTick
  <2>1. tick'.batch = {} /\ tick'.refs = <<>> /\ tick'.todo = {}
    BY <1>3 DEF StartTick, NoTick
  <2> QED  BY <1>2, <2>1, EmptySeq
<1>4. CASE LoadProtocols
  <2>1. \/ tick' = NoTick
        \/ tick'.batch = {} /\ tick'.refs = <<>> /\ tick'.todo \subseteq Protocols
    BY <1>4 DEF LoadProtocols
  <2> QED  BY <1>2, <1>3, <2>1, EmptySeq
<1>5. CASE ListMarkets
  <2>1. PICK p \in tick.todo : \E found \in SUBSET MarketsOf[p] :
            tick' = [phase |-> "list", job |-> tick.job, todo |-> tick.todo \ {p},
                     refs |-> tick.refs \o SetToSeq(found), batch |-> {}]
    BY <1>5, Zenon DEF ListMarkets
  <2>2. PICK found \in SUBSET MarketsOf[p] :
            tick' = [phase |-> "list", job |-> tick.job, todo |-> tick.todo \ {p},
                     refs |-> tick.refs \o SetToSeq(found), batch |-> {}]
    BY <2>1
  <2>3. p \in Protocols /\ MarketsOf[p] \subseteq Markets
    BY <1>1 DEF Markets
  <2>4. found \in SUBSET Markets /\ IsFiniteSet(found)
    BY <2>3, FS_Subset, MarketsAssumption
  <2>5. SetToSeq(found) \in Seq(Markets)
    BY <2>4, InSomeOrder
  <2>6. tick.refs \o SetToSeq(found) \in Seq(Markets)
    BY <1>1, <2>5, ConcatProperties
  <2>7. /\ tick'.batch = {} /\ tick'.todo = tick.todo \ {p}
        /\ tick'.refs = tick.refs \o SetToSeq(found)
    BY <2>2, Zenon
  <2> QED  BY <1>1, <1>2, <2>6, <2>7
<1>6. CASE NextBatch
  <2>1. CASE tick.refs = <<>>
    BY <1>3, <1>6, <2>1 DEF NextBatch
  <2>2. CASE tick.refs # <<>>
    <3>1. /\ tick'.batch = ToSet(NextOf(tick.refs)) /\ tick'.refs = AfterOf(tick.refs)
          /\ tick'.todo = {}
      BY <1>6, <2>2 DEF NextBatch
    <3>2. /\ NextOf(tick.refs) \in Seq(Markets) /\ Len(NextOf(tick.refs)) <= Concurrency
          /\ AfterOf(tick.refs) \in Seq(Markets)
      BY <1>1, Batches
    <3>3. /\ Len(NextOf(tick.refs)) \in Nat
          /\ Cardinality(tick'.batch) \in Nat
          /\ Cardinality(tick'.batch) <= Len(NextOf(tick.refs))
          /\ tick'.batch \subseteq Markets
      BY <3>1, <3>2, MembersOf, LenProperties
    <3>4. ToSet(tick'.refs) \subseteq Markets
      BY <3>1, <3>2, MembersOf
    <3> QED  BY <3>1, <3>2, <3>3, <3>4, ScorerAssumption DEF TickSize
  <2> QED  BY <2>1, <2>2
<1> QED  BY <1>3, <1>4, <1>5, <1>6

LEMMA SizesAreTypes == SizeInv => TypeOK
BY DEF SizeInv, TickSize, ProfileSize, AttemptSize, TypeOK

LEMMA AttemptSizeStep ==
    ASSUME IInv, WInv, SizeInv, [Next]_vars
    PROVE  AttemptSize'
<1> USE DEF tables, run
<1>1. AttemptSize /\ TickSize /\ ticks \in Nat /\ MaxTicks \in Nat /\ Tries \in Nat
  BY ScorerAssumption DEF SizeInv, AttemptSize
<1>2. ASSUME NEW job, StartTick(job)  PROVE AttemptSize'
  BY <1>1, <1>2, ScorerAssumption DEF StartTick, AttemptSize, NoAnswer, Running
<1>3. CASE LoadProtocols \/ ListMarkets \/ NextBatch
  <2>1. tick'.phase # "idle" => tick.phase # "idle"
    BY <1>3 DEF LoadProtocols, ListMarkets, NextBatch, NoTick
  <2>2. UNCHANGED <<snapshots, scores, answer, work, ticks, givenUp>>
    BY <1>3 DEF LoadProtocols, ListMarkets, NextBatch
  <2> QED  BY <1>1, <2>1, <2>2 DEF AttemptSize, Running, Attempt
<1>4. ASSUME NEW m \in Markets, RunAttempt(m)  PROVE AttemptSize'
  <2>1. PICK n : n = answer[m].tries + 1
    OBVIOUS
  <2>2. answer[m].tries \in 0 .. Tries /\ n \in 1 .. Tries /\ ticks \in 1 .. MaxTicks
    BY <1>1, <1>4, <2>1 DEF RunAttempt, MayRetry, AttemptSize, IInv, TickInv
  <2>3. [tick |-> ticks, market |-> m, try |-> n] \in Ids
    BY <2>2 DEF Ids
  <2>4. /\ UNCHANGED <<tables, tick, ticks, givenUp>>
        /\ answer' = [answer EXCEPT ![m] = [tries |-> n, last |-> "running"]]
        /\ \A w \in work' : w \in work \/ w.id = [tick |-> ticks, market |-> m, try |-> n]
    BY <1>4, <2>1 DEF RunAttempt, Attempt
  <2> QED  BY <1>1, <2>2, <2>3, <2>4 DEF AttemptSize, Running, Attempt
<1>5. ASSUME NEW m \in Markets, TimeOut(m)  PROVE AttemptSize'
  <2>1. Attempt(m, answer[m].tries) \in Ids /\ answer[m].tries \in 0 .. Tries
    BY <1>1, <1>5 DEF TimeOut, MayBeLate, AttemptSize, Running
  <2>2. \A k \in Markets : Running(k)' => Running(k) /\ answer'[k] = answer[k]
    BY <1>1, <1>5 DEF TimeOut, AttemptSize, Running
  <2> QED  BY <1>1, <1>5, <2>1, <2>2 DEF TimeOut, AttemptSize, Running, Attempt
<1>6. ASSUME NEW w \in work, Worker(w)  PROVE AttemptSize'
  <2>1. /\ w.id \in Ids /\ w.id.market \in Markets
        /\ w.at = "resolved" /\ Standing(w.id.market) => w.id \in snapshots
    BY <1>1, <1>6 DEF AttemptSize, Ids, IInv, SnapshotInv
  <2>2. ASSUME NEW result \in {"failed", "fatal", "ok"}, Report(w, result),
               UNCHANGED <<tick, ticks, givenUp>>,
               snapshots' \in {snapshots, snapshots \cup {w.id}},
               scores \subseteq snapshots, scores' \subseteq snapshots'
        PROVE  AttemptSize'
    <3>1. work' \subseteq work
      BY <2>2 DEF Report
    <3>2. \/ answer' = answer
          \/ answer' = [answer EXCEPT ![w.id.market] =
                            [tries |-> answer[w.id.market].tries, last |-> result]]
      BY <2>2 DEF Report
    <3>3. answer' \in [Markets -> [tries : 0 .. Tries,
                                   last : {"none", "running", "late", "failed", "fatal", "ok"}]]
      BY <1>1, <2>1, <3>2 DEF AttemptSize
    <3>4. \A k \in Markets : Running(k)' => Running(k) /\ answer'[k] = answer[k]
      BY <1>1, <2>1, <3>2 DEF AttemptSize, Running
    <3> QED  BY <1>1, <2>1, <2>2, <3>1, <3>3, <3>4 DEF AttemptSize, Running, Attempt
  <2>3. scores \subseteq snapshots
    BY <1>1 DEF AttemptSize
  <2>4. CASE FailAttempt(w)
    <3>1. PICK result \in {"failed", "fatal"} : Report(w, result)
      BY <2>4 DEF FailAttempt
    <3> QED  BY <2>2, <2>3, <2>4, <3>1 DEF FailAttempt
  <2>5. CASE Collect(w) \/ MarketGone(w)
    BY <2>2, <2>3, <2>5 DEF Collect, MarketGone
  <2>6. CASE StoreSnapshot(w)
    <3> DEFINE v == [w EXCEPT !.at = "stored"]
    <3>1. v.id = w.id
      OBVIOUS
    <3>2. /\ work' = (work \ {w}) \cup {v} /\ snapshots' = snapshots \cup {w.id}
          /\ UNCHANGED <<scores, tick, answer, ticks, givenUp>>
      BY <2>6 DEF StoreSnapshot
    <3> HIDE DEF v
    <3> QED  BY <1>1, <2>1, <3>1, <3>2 DEF AttemptSize, Running, Attempt
  <2>7. CASE Resolve(w)
    <3>1. \A v \in work' : v \in work \/ v.id = w.id
      BY <2>7 DEF Resolve, Between
    <3>2. UNCHANGED <<snapshots, scores, tick, answer, ticks, givenUp>>
      BY <2>7 DEF Resolve
    <3> QED  BY <1>1, <2>1, <3>1, <3>2 DEF AttemptSize, Running, Attempt
  <2>8. CASE Score(w)
    <3>1. /\ snapshots' = snapshots /\ UNCHANGED <<tick, ticks, givenUp>>
          /\ \/ scores' = scores
             \/ scores' = scores \cup {w.id} /\ w.id \in snapshots
      BY <2>1, <2>8 DEF Score
    <3>2. PICK result \in {"failed", "ok"} : Report(w, result)
      BY <2>8 DEF Score
    <3> QED  BY <2>2, <2>3, <3>1, <3>2
  <2> QED  BY <1>6, <2>4, <2>5, <2>6, <2>7, <2>8 DEF Worker
<1>7. CASE Operator
  <2>1. /\ UNCHANGED <<tick, answer, ticks, givenUp>>
        /\ \A v \in work' : \E w \in work : v.id = w.id
    BY <1>7, ChangedWork DEF Operator, CreateProfile, UpdateProfile, DeleteProfile, Toggle, DeleteConfig
  <2>2. snapshots' \subseteq snapshots /\ scores' \subseteq snapshots'
    BY <1>1, <1>7
       DEF AttemptSize, Operator, CreateProfile, UpdateProfile, DeleteProfile, Toggle, DeleteConfig
  <2> QED  BY <1>1, <2>1, <2>2 DEF AttemptSize, Running, Attempt
<1>8. CASE UNCHANGED vars
  BY <1>1, <1>8 DEF vars, AttemptSize, Running, Attempt
<1> QED  BY <1>2, <1>3, <1>4, <1>5, <1>6, <1>7, <1>8 DEF Next, Temporal

LEMMA ProfileSizeStep ==
    ASSUME IInv, WInv, SizeInv, [Next]_vars
    PROVE  ProfileSize'
<1> USE DEF tables, run
<1>1. ProfileSize /\ edits \in Nat /\ MaxEdits \in Nat /\ DOMAIN profile = Profiles
  BY ScorerAssumption DEF SizeInv, ProfileSize, WInv, ProfileInv
<1>2. CASE UNCHANGED <<config, profile, edits>>
  BY <1>1, <1>2 DEF ProfileSize, Live, Targets, Standing
<1>3. CASE Operator
  <2>1. edits < MaxEdits
    BY <1>3 DEF Operator
  <2>2. ASSUME NEW p \in Profiles, NEW target \in Targets(p), NEW weights \in WeightSets,
               CreateProfile(p, target, weights) \/ UpdateProfile(p, target, weights)
        PROVE  ProfileSize'
    <3>1. PICK u \in 0 .. (edits + 1) : profile' = [profile EXCEPT ![p] = Row(target, weights, u)]
      BY <1>1, <2>2 DEF CreateProfile, UpdateProfile, WInv, ProfileInv
    <3>2. edits' = edits + 1 /\ config' = config
      BY <2>2 DEF CreateProfile, UpdateProfile, Edit
    <3>3. Row(target, weights, u).target = target /\ Row(target, weights, u).weights = weights
              /\ Row(target, weights, u).updated = u
      BY DEF Row
    <3>4. \A q \in Profiles : Targets(q)' = Targets(q)
      BY <3>2 DEF Targets, Standing
    <3>5. u \in 0 .. MaxEdits /\ edits' \in 0 .. MaxEdits
      BY <1>1, <2>1, <3>2
    <3>6. \A q \in Profiles : q # p => profile'[q] = profile[q] /\ (Live(q)' => Live(q))
      BY <1>1, <3>1 DEF Live
    <3>7. profile'[p] = Row(target, weights, u)
      BY <1>1, <2>2, <3>1
    <3> QED
      BY <1>1, <2>2, <3>2, <3>3, <3>4, <3>5, <3>6, <3>7 DEF ProfileSize
  <2>3. ASSUME NEW p \in Profiles, DeleteProfile(p)  PROVE ProfileSize'
    BY <1>1, <2>1, <2>3 DEF DeleteProfile, Edit, ProfileSize, Live, Targets, Standing
  <2>4. ASSUME NEW c \in Protocols, Toggle(c)  PROVE ProfileSize'
    <3>1. \A m \in Markets : Standing(m)' <=> Standing(m)
      BY <1>1, <2>4, OwnProtocol DEF Toggle, ProfileSize, Standing
    <3> QED  BY <1>1, <2>1, <2>4, <3>1 DEF Toggle, Edit, ProfileSize, Live, Targets
  <2>5. ASSUME NEW c \in Protocols, DeleteConfig(c)  PROVE ProfileSize'
    <3>1. \A m \in Markets : Standing(m) /\ m \notin MarketsOf[c] => Standing(m)'
      BY <1>1, <2>5, OwnProtocol DEF DeleteConfig, ProfileSize, Standing
    <3>2. \A p \in Profiles : Live(p)' =>
              profile'[p] = profile[p] /\ Live(p)
                  /\ (ScopeOf[p] = "market" => profile[p].target \notin MarketsOf[c])
      BY <2>5 DEF DeleteConfig, Live
    <3>3. config' \in [Protocols -> {"enabled", "disabled", "deleted"}] /\ edits' \in 0 .. MaxEdits
      BY <1>1, <2>1, <2>5 DEF DeleteConfig, Edit, ProfileSize
    <3> QED  BY <1>1, <3>1, <3>2, <3>3 DEF ProfileSize, Targets
  <2> QED  BY <1>3, <2>2, <2>3, <2>4, <2>5 DEF Operator
<1>4. [Next]_vars => UNCHANGED <<config, profile, edits>> \/ Operator
  BY DEF vars, Next, StartTick, Temporal, LoadProtocols, ListMarkets, NextBatch, RunAttempt, TimeOut,
         Worker, FailAttempt, Collect, MarketGone, StoreSnapshot, Resolve, Score
<1> QED  BY <1>2, <1>3, <1>4

LEMMA StepSize == IInv /\ WInv /\ SizeInv /\ [Next]_vars => SizeInv'
<1> SUFFICES ASSUME IInv, WInv, SizeInv, [Next]_vars  PROVE SizeInv'
  OBVIOUS
<1>1. TickSize'
  <2>1. CASE UNCHANGED tick
    BY <2>1 DEF SizeInv, TickSize
  <2>2. UNCHANGED tick \/ StartTick("collect") \/ StartTick("score")
            \/ LoadProtocols \/ ListMarkets \/ NextBatch
    BY DEF vars, run, Next, Temporal, RunAttempt, TimeOut,
           Worker, FailAttempt, Collect, MarketGone, StoreSnapshot, Resolve, Score,
           Operator, CreateProfile, UpdateProfile, DeleteProfile, Toggle, DeleteConfig
  <2> QED  BY <2>1, <2>2, TickSizeStep
<1> QED  BY <1>1, AttemptSizeStep, ProfileSizeStep DEF SizeInv

\* TypeOK: type correctness of the scorer; in particular at most Concurrency
\* markets are in a batch, and every score has its snapshot.
THEOREM TypeCorrect == Spec => []TypeOK
<1>1. Init => WInv /\ SizeInv
  BY InitWInv, InitSize
<1>2. IInv /\ WInv /\ SizeInv /\ [Next]_vars => WInv' /\ SizeInv'
  BY StepWInv, StepSize
<1>3. SizeInv => TypeOK
  BY SizesAreTypes
<1> QED  BY Invariance, <1>1, <1>2, <1>3, PTL DEF Spec

-----------------------------------------------------------------------------
(* The probability of default, by induction over the factors of a product *)

\* Induction, over a set of numbers that are reached one by one from 0.
LEMMA Reached ==
    ASSUME NEW S, 0 \in S, \A n \in Nat : n \in S => n + 1 \in S
    PROVE  Nat \subseteq S
<1> SUFFICES ASSUME Nat \ S # {} PROVE FALSE
  OBVIOUS
<1>1. \E x \in Nat \ S : \A y \in Nat \ S : ~ (<<y, x>> \in OpToRel(<, Nat))
  BY NatLessThanWellFounded, WFMin
<1>2. PICK x \in Nat \ S : \A y \in Nat \ S : ~ (y < x)
  BY <1>1 DEF OpToRel
<1>3. x - 1 \in Nat /\ x - 1 < x
  BY <1>2
<1>4. x - 1 \in S /\ (x - 1) + 1 = x
  BY <1>2, <1>3
<1> QED  BY <1>2, <1>3, <1>4

\* The partial products of a sequence.
Partial(f, s, n) == f = [i \in 0 .. n |-> IF i = 0 THEN 1 ELSE f[i - 1] * s[i]]

LEMMA PartialProducts ==
    ASSUME NEW s, NEW n \in Nat
    PROVE  \E f : Partial(f, s, n)
<1> DEFINE S == {k \in Nat : \E f : Partial(f, s, k)}
<1>1. 0 \in S
  <2> DEFINE f == [i \in 0 .. 0 |-> 1]
  <2>1. Partial(f, s, 0)
    BY DEF Partial
  <2> QED  BY <2>1
<1>2. ASSUME NEW k \in Nat, k \in S PROVE k + 1 \in S
  <2>1. PICK f : Partial(f, s, k)
    BY <1>2
  <2> DEFINE g == [i \in 0 .. k + 1 |-> IF i = k + 1 THEN f[k] * s[k + 1] ELSE f[i]]
  <2>2. f = [i \in 0 .. k |-> IF i = 0 THEN 1 ELSE f[i - 1] * s[i]]
    BY <2>1 DEF Partial
  <2>3. \A i \in 0 .. k + 1 : g[i] = IF i = 0 THEN 1 ELSE g[i - 1] * s[i]
    <3> SUFFICES ASSUME NEW i \in 0 .. k + 1 PROVE g[i] = IF i = 0 THEN 1 ELSE g[i - 1] * s[i]
      OBVIOUS
    <3>1. CASE i = k + 1
      <4>1. i # 0 /\ i - 1 = k /\ g[i - 1] = f[k]
        BY <3>1
      <4> QED  BY <3>1, <4>1
    <3>2. CASE i \in 0 .. k
      <4>1. f[i] = IF i = 0 THEN 1 ELSE f[i - 1] * s[i]
        BY <2>2, <3>2
      <4>2. g[i] = f[i] /\ (i # 0 => g[i - 1] = f[i - 1])
        BY <3>2
      <4> QED  BY <4>1, <4>2
    <3> QED  BY <3>1, <3>2
  <2>4. Partial(g, s, k + 1)
    <3> DEFINE h == [i \in 0 .. k + 1 |-> IF i = 0 THEN 1 ELSE g[i - 1] * s[i]]
    <3>1. g = h
      <4>1. DOMAIN g = 0 .. k + 1 /\ DOMAIN h = 0 .. k + 1
        OBVIOUS
      <4>2. \A i \in 0 .. k + 1 : g[i] = h[i]
        BY <2>3
      <4>3. g = [i \in DOMAIN g |-> g[i]] /\ h = [i \in DOMAIN h |-> h[i]]
        OBVIOUS
      <4> HIDE DEF g, h
      <4> QED  BY <4>1, <4>2, <4>3
    <3> QED  BY <3>1 DEF Partial
  <2> QED  BY <2>4
<1>3. Nat \subseteq S
  <2> HIDE DEF S
  <2> QED  BY <1>1, <1>2, Reached
<1> QED  BY <1>3

LEMMA ProductIsLast ==
    ASSUME NEW s \in Seq(Nat)
    PROVE  \E f : Partial(f, s, Len(s)) /\ ProductOf(s) = f[Len(s)]
<1>1. Len(s) \in Nat
  OBVIOUS
<1>2. \E f : Partial(f, s, Len(s))
  BY <1>1, PartialProducts
<1>3. \E f : f = [i \in 0 .. Len(s) |-> IF i = 0 THEN 1 ELSE f[i - 1] * s[i]]
  BY <1>2 DEF Partial
<1> DEFINE u == CHOOSE f : f = [i \in 0 .. Len(s) |-> IF i = 0 THEN 1 ELSE f[i - 1] * s[i]]
<1>4. u = [i \in 0 .. Len(s) |-> IF i = 0 THEN 1 ELSE u[i - 1] * s[i]]
  BY <1>3
<1>5. Partial(u, s, Len(s))
  <2> HIDE DEF u
  <2> QED  BY <1>4 DEF Partial
<1>6. ProductOf(s) = u[Len(s)]
  BY DEF ProductOf
<1> QED  BY <1>5, <1>6

LEMMA FunctionIsSeq ==
    ASSUME NEW S, NEW n \in Nat, NEW f \in [1 .. n -> S]
    PROVE  f \in Seq(S) /\ Len(f) = n
OBVIOUS

\* A product grows with each of its factors.
LEMMA TimesGrows ==
    ASSUME NEW a \in Nat, NEW b \in Nat, NEW x \in Nat, NEW y \in Nat, a <= b, x <= y
    PROVE  a * x \in Nat /\ b * y \in Nat /\ a * x <= b * y
<1>1. /\ a * x \in Nat /\ b * x \in Nat /\ b * y \in Nat
      /\ (b - a) * x \in Nat /\ b * (y - x) \in Nat
  <2>1. b - a \in Nat /\ y - x \in Nat
    OBVIOUS
  <2> QED  BY <2>1
<1>2. b * x = a * x + (b - a) * x /\ b * y = b * x + b * (y - x)
  OBVIOUS
<1> QED  BY <1>1, <1>2

\* ... and so does the product of a sequence.
LEMMA ProductGrows ==
    ASSUME NEW s \in Seq(Nat), NEW t \in Seq(Nat), Len(s) = Len(t),
           \A i \in 1 .. Len(s) : s[i] <= t[i]
    PROVE  ProductOf(s) \in Nat /\ ProductOf(t) \in Nat /\ ProductOf(s) <= ProductOf(t)
<1> DEFINE n == Len(s)
<1>1. n \in Nat /\ Len(t) = n /\ \A i \in 1 .. n : s[i] \in Nat /\ t[i] \in Nat /\ s[i] <= t[i]
  OBVIOUS
<1>2. PICK f : Partial(f, s, n) /\ ProductOf(s) = f[n]
  BY ProductIsLast
<1>3. PICK g : Partial(g, t, n) /\ ProductOf(t) = g[n]
  BY <1>1, ProductIsLast
<1> HIDE DEF n
<1>4. f[0] = 1 /\ \A i \in 1 .. n : f[i] = f[i - 1] * s[i]
  BY <1>1, <1>2 DEF Partial
<1>5. g[0] = 1 /\ \A i \in 1 .. n : g[i] = g[i - 1] * t[i]
  BY <1>1, <1>3 DEF Partial
<1> DEFINE S == {k \in Nat : k <= n => f[k] \in Nat /\ g[k] \in Nat /\ f[k] <= g[k]}
<1>6. 0 \in S
  BY <1>4, <1>5
<1>7. ASSUME NEW k \in Nat, k \in S PROVE k + 1 \in S
  <2>1. CASE k + 1 > n
    BY <1>1, <2>1
  <2>2. CASE k + 1 <= n
    <3>1. k + 1 \in 1 .. n /\ (k + 1) - 1 = k /\ f[k] \in Nat /\ g[k] \in Nat /\ f[k] <= g[k]
      BY <1>1, <1>7, <2>2
    <3>2. f[k + 1] = f[k] * s[k + 1] /\ g[k + 1] = g[k] * t[k + 1]
      BY <1>4, <1>5, <3>1
    <3>3. s[k + 1] \in Nat /\ t[k + 1] \in Nat /\ s[k + 1] <= t[k + 1]
      BY <1>1, <3>1
    <3> DEFINE x == s[k + 1]  y == t[k + 1]
    <3>4. /\ f[k] * x \in Nat /\ g[k] * y \in Nat /\ f[k] * x <= g[k] * y
      BY <3>1, <3>3, TimesGrows
    <3> QED  BY <3>2, <3>4
  <2> QED  BY <1>1, <2>1, <2>2
<1>8. Nat \subseteq S
  <2> HIDE DEF S
  <2> QED  BY <1>6, <1>7, Reached
<1>9. n \in S
  BY <1>1, <1>8
<1> QED  BY <1>1, <1>2, <1>3, <1>9

LEMMA ProductPositive ==
    ASSUME NEW s \in Seq(Nat), \A i \in 1 .. Len(s) : s[i] >= 1
    PROVE  ProductOf(s) \in Nat /\ ProductOf(s) >= 1
<1> DEFINE n == Len(s)
<1>1. n \in Nat /\ \A i \in 1 .. n : s[i] \in Nat /\ s[i] >= 1
  OBVIOUS
<1>2. PICK f : Partial(f, s, n) /\ ProductOf(s) = f[n]
  BY ProductIsLast
<1> HIDE DEF n
<1>4. f[0] = 1 /\ \A i \in 1 .. n : f[i] = f[i - 1] * s[i]
  BY <1>1, <1>2 DEF Partial
<1> DEFINE S == {k \in Nat : k <= n => f[k] \in Nat /\ f[k] >= 1}
<1>5. 0 \in S
  BY <1>4
<1>6. ASSUME NEW k \in Nat, k \in S PROVE k + 1 \in S
  <2>1. CASE k + 1 > n
    BY <1>1, <2>1
  <2>2. CASE k + 1 <= n
    <3>1. k + 1 \in 1 .. n /\ (k + 1) - 1 = k /\ f[k] \in Nat /\ f[k] >= 1
      BY <1>1, <1>6, <2>2
    <3>2. f[k + 1] = f[k] * s[k + 1] /\ s[k + 1] \in Nat /\ s[k + 1] >= 1
      BY <1>1, <1>4, <3>1
    <3>3. PICK b \in Nat : b = f[k]
      BY <3>1
    <3>4. PICK y \in Nat : y = s[k + 1]
      BY <3>2
    <3>5. b * y \in Nat /\ 1 * 1 <= b * y
      <4>1. 1 \in Nat /\ b \in Nat /\ y \in Nat /\ 1 <= b /\ 1 <= y
        BY <3>1, <3>2, <3>3, <3>4
      <4> QED  BY ONLY <4>1, TimesGrows
    <3> QED  BY <3>2, <3>3, <3>4, <3>5
  <2> QED  BY <1>1, <2>1, <2>2
<1>7. Nat \subseteq S
  <2> HIDE DEF S
  <2> QED  BY <1>5, <1>6, Reached
<1>8. n \in S
  BY <1>1, <1>7
<1> QED  BY <1>2, <1>8

LEMMA QuartersPositive ==
    ASSUME NEW s \in Seq(Int)
    PROVE  Quarters(s) \in Nat /\ Quarters(s) >= 1
<1> DEFINE q == [i \in 1 .. Len(s) |-> Quarter]
<1>1. q \in Seq(Nat) /\ Len(q) = Len(s) /\ \A i \in 1 .. Len(q) : q[i] >= 1
  BY DEF Quarter
<1>2. DOMAIN s = 1 .. Len(s)
  OBVIOUS
<1> HIDE DEF q
<1>3. ProductOf(q) \in Nat /\ ProductOf(q) >= 1
  BY <1>1, ProductPositive
<1> QED  BY <1>2, <1>3 DEF q, Quarters

-----------------------------------------------------------------------------

Positive(p) == p.n \in Nat /\ p.d \in Nat /\ p.d >= 1

\* With a weight up to one, valid anchors leave between a quarter and all of
\* the probability of no default, and their term is a probability.
LEMMA AnchorsBounded ==
    ASSUME NEW reported \in Seq(Int), NEW weight \in Nat, NEW manual \in Seq(Int), weight <= 1,
           \A i \in DOMAIN reported : Valid(reported[i]),
           \A i \in DOMAIN manual : Valid(manual[i])
    PROVE  LET a == AnchorsTerm(reported, weight, manual) IN Positive(a) /\ a.n <= a.d
<1> DEFINE u == [i \in DOMAIN reported |-> Quarter - reported[i] * weight]
           v == [i \in DOMAIN manual |-> Quarter - manual[i]]
           left == u \o v
           d == Quarters(left)
<1>1. \A i \in DOMAIN reported : u[i] \in Nat /\ u[i] <= Quarter
  <2> SUFFICES ASSUME NEW i \in DOMAIN reported PROVE u[i] \in Nat /\ u[i] <= Quarter
    OBVIOUS
  <2>1. reported[i] \in Int /\ 0 <= reported[i] /\ reported[i] < Quarter
    BY DEF Valid
  <2>2. reported[i] * weight \in 0 .. Quarter - 1
    <3>1. PICK x \in Int : x = reported[i]
      BY <2>1
    <3>2. weight = 0 \/ weight = 1
      OBVIOUS
    <3>3. x \in 0 .. 3
      <4>1. 0 <= x /\ x < Quarter /\ Quarter = 4
        BY ONLY <2>1, <3>1 DEF Quarter
      <4> QED  BY ONLY <4>1, x \in Int
    <3>4. x * weight \in 0 .. 3
      BY ONLY <3>2, <3>3
    <3> QED  BY ONLY <3>1, <3>4 DEF Quarter
  <2>3. u[i] = Quarter - reported[i] * weight
    OBVIOUS
  <2> QED  BY <2>2, <2>3 DEF Quarter
<1>2. \A i \in DOMAIN manual : v[i] \in Nat /\ v[i] <= Quarter
  BY DEF Valid, Quarter
<1>3. u \in Seq(Nat) /\ v \in Seq(Nat) /\ Len(u) = Len(reported) /\ Len(v) = Len(manual)
  <2>1. /\ DOMAIN reported = 1 .. Len(reported) /\ Len(reported) \in Nat
        /\ DOMAIN manual = 1 .. Len(manual) /\ Len(manual) \in Nat
    OBVIOUS
  <2>2. u \in [1 .. Len(reported) -> Nat] /\ v \in [1 .. Len(manual) -> Nat]
    BY <1>1, <1>2, <2>1
  <2> HIDE DEF u, v
  <2> QED  BY <2>1, <2>2, FunctionIsSeq
<1>4. left \in Seq(Nat) /\ \A i \in 1 .. Len(left) : left[i] <= Quarter
  <2> HIDE DEF u, v
  <2>1. Len(u) \in Nat /\ Len(v) \in Nat
    BY <1>3
  <2>2. /\ left \in Seq(Nat) /\ Len(left) = Len(u) + Len(v)
        /\ \A i \in 1 .. Len(u) + Len(v) : left[i] = IF i <= Len(u) THEN u[i] ELSE v[i - Len(u)]
    BY <1>3, ConcatProperties
  <2> HIDE DEF left
  <2>3. DOMAIN reported = 1 .. Len(u) /\ DOMAIN manual = 1 .. Len(v)
    BY <1>3
  <2>4. ASSUME NEW i \in 1 .. Len(left) PROVE left[i] <= Quarter
    <3>1. CASE i <= Len(u)
      <4>1. i \in DOMAIN reported /\ left[i] = u[i]
        BY <2>1, <2>2, <2>3, <3>1
      <4> QED  BY <1>1, <4>1
    <3>2. CASE i > Len(u)
      <4>1. i - Len(u) \in DOMAIN manual /\ left[i] = v[i - Len(u)]
        BY <2>1, <2>2, <2>3, <3>2
      <4> QED  BY <1>2, <4>1
    <3> QED  BY <2>1, <2>2, <3>1, <3>2
  <2> QED  BY <2>2, <2>4
<1> HIDE DEF u, v, left
<1>5. d \in Nat /\ d >= 1 /\ ProductOf(left) \in Nat /\ ProductOf(left) <= d
  <2> DEFINE q == [i \in 1 .. Len(left) |-> Quarter]
  <2>1. q \in Seq(Nat) /\ Len(q) = Len(left) /\ \A i \in 1 .. Len(left) : left[i] <= q[i]
    BY <1>4 DEF Quarter
  <2>2. ProductOf(q) = d
    <3>1. DOMAIN left = 1 .. Len(left)
      BY <1>4
    <3> QED  BY <3>1 DEF Quarters
  <2>3. left \in Seq(Int)
    BY <1>4
  <2> HIDE DEF q
  <2> QED  BY <1>4, <2>1, <2>2, <2>3, ProductGrows, QuartersPositive
<1>6. AnchorsTerm(reported, weight, manual) = IF left = <<>> THEN One ELSE [n |-> d - ProductOf(left), d |-> d]
  BY DEF AnchorsTerm, left, u, v
<1>7. CASE left = <<>>
  BY <1>6, <1>7 DEF One, Positive
<1>8. CASE left # <<>>
  <2> HIDE DEF d
  <2>1. d - ProductOf(left) \in Nat /\ d - ProductOf(left) <= d
    BY <1>5
  <2> QED  BY <1>5, <1>6, <1>8, <2>1 DEF Positive
<1> QED  BY <1>7, <1>8

\* A clamped term is at most 1.25.
LEMMA FactorBounded ==
    ASSUME NEW multipliers \in Seq(Int), NEW weight \in Nat,
           \A i \in DOMAIN multipliers : ~ (multipliers[i] < 0)
    PROVE  LET f == FactorTerm(multipliers, weight) IN Positive(f) /\ 4 * f.n <= 5 * f.d
<1> DEFINE s == [i \in DOMAIN multipliers |-> multipliers[i] * weight]
           p == [n |-> ProductOf(s), d |-> Quarters(multipliers)]
<1>1. s \in Seq(Nat)
  <2>1. ASSUME NEW i \in DOMAIN multipliers PROVE s[i] \in Nat
    <3>1. multipliers[i] \in Nat
      OBVIOUS
    <3> QED  BY <3>1
  <2> QED  BY <2>1
<1> HIDE DEF s
<1>2. p.n \in Nat /\ p.d \in Nat /\ p.d >= 1
  <2>1. ProductOf(s) \in Nat
    BY <1>1, ProductGrows
  <2> QED  BY <2>1, QuartersPositive
<1>3. FactorTerm(multipliers, weight) = IF multipliers = <<>> THEN One ELSE Clamp(p)
  BY DEF FactorTerm, s
<1> HIDE DEF p
<1>4. Positive(Clamp(p)) /\ 4 * Clamp(p).n <= 5 * Clamp(p).d
  <2>1. CASE Quarter * p.n < 3 * p.d
    <3>1. Clamp(p) = [n |-> 3, d |-> 4]
      BY <1>2, <2>1 DEF Clamp, Quarter
    <3> QED  BY <3>1 DEF Positive
  <2>2. CASE ~ (Quarter * p.n < 3 * p.d) /\ Quarter * p.n > 5 * p.d
    <3>1. Clamp(p) = [n |-> 5, d |-> 4]
      BY <2>2 DEF Clamp, Quarter
    <3> QED  BY <3>1 DEF Positive
  <2>3. CASE ~ (Quarter * p.n < 3 * p.d) /\ ~ (Quarter * p.n > 5 * p.d)
    <3>1. Clamp(p) = p
      BY <2>3 DEF Clamp
    <3> QED  BY <1>2, <2>3, <3>1 DEF Positive, Quarter
  <2> QED  BY <2>1, <2>2, <2>3
<1>5. Positive(One) /\ 4 * One.n <= 5 * One.d
  BY DEF One, Positive
<1> QED  BY <1>3, <1>4, <1>5

\* Two factors of at most 5/4 each take a probability to at most 25/16 of it.
LEMMA FactorsCompose ==
    ASSUME NEW a, NEW c, NEW s, Positive(a), Positive(c), Positive(s),
           a.n <= a.d, 4 * c.n <= 5 * c.d, 4 * s.n <= 5 * s.d
    PROVE  LET f == Times(a, Times(c, s)) IN
           /\ f.n \in Nat /\ f.d \in Nat
           /\ 16 * f.n * a.d <= 25 * a.n * f.d
           /\ 16 * f.n <= 25 * f.d
<1>1. PICK n \in Nat : n = c.n * s.n
  BY DEF Positive
<1>2. PICK d \in Nat : d = c.d * s.d
  BY DEF Positive
<1>3. PICK an \in Nat : an = a.n
  BY DEF Positive
<1>4. PICK ad \in Nat : ad = a.d
  BY DEF Positive
<1>5. Times(a, Times(c, s)).n = an * n /\ Times(a, Times(c, s)).d = ad * d
  BY <1>1, <1>2, <1>3, <1>4 DEF Times
<1>6. 16 * n <= 25 * d
  <2>1. (4 * c.n) * (4 * s.n) <= (5 * c.d) * (5 * s.d)
    BY TimesGrows DEF Positive
  <2>2. (4 * c.n) * (4 * s.n) = 16 * n /\ (5 * c.d) * (5 * s.d) = 25 * d
    BY <1>1, <1>2 DEF Positive
  <2> QED  BY <2>1, <2>2
<1>7. an * n \in Nat /\ ad * d \in Nat /\ an * ad \in Nat /\ an <= ad
  BY <1>3, <1>4
<1>8. 16 * (an * n) <= 25 * (ad * d)
  <2>1. an * (16 * n) <= ad * (25 * d)
    BY <1>6, <1>7, TimesGrows
  <2>2. an * (16 * n) = 16 * (an * n) /\ ad * (25 * d) = 25 * (ad * d)
    OBVIOUS
  <2> QED  BY <2>1, <2>2
<1>9. 16 * (an * n) * ad <= 25 * an * (ad * d)
  <2>1. (an * ad) * (16 * n) <= (an * ad) * (25 * d)
    BY <1>6, <1>7, TimesGrows
  <2>2. (an * ad) * (16 * n) = 16 * (an * n) * ad /\ (an * ad) * (25 * d) = 25 * an * (ad * d)
    OBVIOUS
  <2> QED  BY <2>1, <2>2
<1> QED  BY <1>3, <1>4, <1>5, <1>7, <1>8, <1>9

LEMMA PdBounded ==
    ASSUME NEW report \in Reports, NEW manual \in Manuals,
           NEW weights \in WeightSets \cup {NoWeights},
           ~Invalid(report, manual), weights.anchors <= 1
    PROVE  LET pd == Pd(report, weights, manual) IN
           /\ Within(pd.anchors, 0, 1)
           /\ 16 * pd.final.n * pd.anchors.d <= 25 * pd.anchors.n * pd.final.d
           /\ Storable(pd)
<1> DEFINE pd == Pd(report, weights, manual)
<1>1. /\ report.anchors \in Seq(Int) /\ report.controls \in Seq(Int)
      /\ manual.anchors \in Seq(Int) /\ manual.assurance \in Seq(Int)
      /\ weights.anchors \in Nat /\ weights.controls \in Nat /\ weights.assurance \in Nat
  BY InputsAssumption DEF NoWeights
<1>2. PICK a : a = AnchorsTerm(report.anchors, weights.anchors, manual.anchors)
  OBVIOUS
<1>3. PICK c : c = FactorTerm(report.controls, weights.controls)
  OBVIOUS
<1>4. PICK s : s = FactorTerm(manual.assurance, weights.assurance)
  OBVIOUS
<1>5. Positive(a) /\ a.n <= a.d
  BY <1>1, <1>2, AnchorsBounded DEF Invalid
<1>6. Positive(c) /\ 4 * c.n <= 5 * c.d
  BY <1>1, <1>3, FactorBounded DEF Invalid
<1>7. Positive(s) /\ 4 * s.n <= 5 * s.d
  BY <1>1, <1>4, FactorBounded DEF Invalid
<1>8. pd = [anchors |-> a, final |-> Times(a, Times(c, s))]
  BY <1>2, <1>3, <1>4 DEF Pd
<1> HIDE DEF pd
<1>9. pd.anchors = a /\ pd.final = Times(a, Times(c, s))
  BY <1>8
<1>10. /\ pd.final.n \in Nat /\ pd.final.d \in Nat
       /\ 16 * pd.final.n * a.d <= 25 * a.n * pd.final.d
       /\ 16 * pd.final.n <= 25 * pd.final.d
  BY <1>5, <1>6, <1>7, <1>9, FactorsCompose
<1>11. Within(pd.anchors, 0, 1) /\ Within(pd.anchors, 0, 99)
  BY <1>5, <1>9 DEF Within, Positive
<1>12. Within(pd.final, 0, 99)
  BY <1>10 DEF Within
<1> QED  BY <1>9, <1>10, <1>11, <1>12 DEF Storable, pd

\* compute_market_pd, over every report, every published metric and every
\* weight an operator may enter: if no anchor weighs more than 1 the anchors
\* are a probability, the PD is at most 25/16 of it, and the row is accepted.
THEOREM ProbableDefault == Spec => []PdIsProbability
<1>1. ASSUME TypeOK PROVE PdIsProbability
  <2>1. \A p : Entries(p) \in WeightSets \cup {NoWeights}
    BY <1>1 DEF TypeOK, Entries
  <2> QED  BY <2>1, PdBounded DEF PdIsProbability
<1> QED  BY <1>1, TypeCorrect, PTL
-----------------------------------------------------------------------------
(* The part of TickEnds that is about single steps *)

Stage == [load |-> 3, list |-> 2, fan |-> 1, idle |-> 0]

\* How far the attempts at a market have come.
Done(m) == IF Running(m) THEN 2 * answer[m].tries - 1 ELSE 2 * answer[m].tries

NothingUndone == tick' = tick /\ \A m \in Markets : Done(m) <= Done(m)'

\* A stage is left, a protocol is listed, a batch is taken from the markets
\* still to run, or an attempt at a market of the batch begins or ends.
Advances ==
    \/ Stage[tick'.phase] < Stage[tick.phase]
    \/ /\ tick.phase = "list" /\ tick'.phase = "list"
       /\ tick'.todo \subseteq tick.todo /\ tick'.todo # tick.todo
    \/ /\ tick.phase = "fan" /\ tick'.phase = "fan"
       /\ Len(tick'.refs) < Len(tick.refs)
    \/ NothingUndone /\ \E m \in tick.batch : Done(m) < Done(m)'

LEMMA Shorter ==
    ASSUME NEW refs \in Seq(Markets), refs # <<>>
    PROVE  Len(AfterOf(refs)) < Len(refs)
<1> DEFINE k == Min({Concurrency, Len(refs)})
<1>1. Len(refs) \in Nat /\ Len(refs) > 0 /\ Concurrency \in Nat /\ Concurrency > 0
  BY ScorerAssumption, LenProperties, EmptySeq
<1>2. k \in Nat /\ k >= 1 /\ k <= Len(refs)
  <2>1. \E x \in {Concurrency, Len(refs)} : \A y \in {Concurrency, Len(refs)} : x <= y
    BY <1>1
  <2>2. k \in {Concurrency, Len(refs)} /\ \A y \in {Concurrency, Len(refs)} : k <= y
    BY <2>1 DEF Min
  <2> QED  BY <1>1, <2>2
<1>3. NextOf(refs) = SubSeq(refs, 1, k)
  BY DEF NextOf, k
<1> HIDE DEF k
<1>4. Len(NextOf(refs)) = k
  <2>1. \A i \in 1 .. Len(refs) : refs[i] \in Markets
    BY LenProperties
  <2> QED  BY <1>1, <1>2, <1>3, <2>1, SubSeqProperties
<1>5. AfterOf(refs) = SubSeq(refs, k + 1, Len(refs))
  BY <1>4 DEF AfterOf
<1>6. Len(SubSeq(refs, k + 1, Len(refs))) = IF k + 1 <= Len(refs) THEN Len(refs) - (k + 1) + 1 ELSE 0
  <2>1. \A i \in 1 .. Len(refs) : refs[i] \in Markets
    BY LenProperties
  <2> QED  BY <1>1, <1>2, <2>1, SubSeqProperties
<1> QED  BY <1>1, <1>2, <1>5, <1>6

LEMMA TemporalAdvances ==
    ASSUME IInv, SizeInv, Temporal
    PROVE  Advances
<1>1. CASE LoadProtocols
  BY <1>1 DEF LoadProtocols, NoTick, Advances, Stage
<1>2. CASE ListMarkets
  <2>1. PICK p \in tick.todo : tick'.phase = "list" /\ tick'.todo = tick.todo \ {p}
    BY <1>2 DEF ListMarkets
  <2>2. tick.phase = "list"
    BY <1>2 DEF ListMarkets
  <2> QED  BY <2>1, <2>2 DEF Advances
<1>3. CASE NextBatch
  <2>1. tick.phase = "list" \/ tick.phase = "fan"
    BY <1>3 DEF NextBatch
  <2>2. CASE tick.refs = <<>>
    BY <1>3, <2>1, <2>2 DEF NextBatch, NoTick, Advances, Stage
  <2>3. CASE tick.refs # <<>>
    <3>1. tick'.phase = "fan" /\ tick'.refs = AfterOf(tick.refs)
      BY <1>3, <2>3 DEF NextBatch
    <3>2. Len(tick'.refs) < Len(tick.refs)
      BY <2>3, <3>1, Shorter DEF SizeInv, TickSize
    <3> QED  BY <2>1, <3>1, <3>2 DEF Advances, Stage
  <2> QED  BY <2>2, <2>3
<1>4. ASSUME NEW m \in Markets, RunAttempt(m) \/ TimeOut(m) PROVE Advances
  <2>1. answer[m].tries \in Nat /\ answer \in [Markets -> [tries : Nat,
            last : {"none", "running", "late", "failed", "fatal", "ok"}]]
    BY DEF IInv, Types
  <2>2. m \in tick.batch /\ tick' = tick
    BY <1>4 DEF RunAttempt, TimeOut, MayBeLate, IInv, TickInv, Settled, tables
  <2>3. \A p \in Markets : p # m => answer'[p] = answer[p]
    BY <1>4, <2>1 DEF RunAttempt, TimeOut
  <2>4. Done(m) < Done(m)'
    <3>1. CASE RunAttempt(m)
      <4>1. answer'[m].tries = answer[m].tries + 1 /\ answer'[m].last = "running" /\ ~Running(m)
        BY <2>1, <3>1 DEF RunAttempt, MayRetry, Running
      <4> QED  BY <2>1, <4>1 DEF Done, Running
    <3>2. CASE TimeOut(m)
      <4>1. answer'[m].tries = answer[m].tries /\ answer'[m].last = "late" /\ Running(m)
        BY <2>1, <3>2 DEF TimeOut, MayBeLate, Running
      <4> QED  BY <2>1, <4>1 DEF Done, Running
    <3> QED  BY <1>4, <3>1, <3>2
  <2>5. \A p \in Markets : Done(p) \in Int /\ (p # m => Done(p)' = Done(p))
    BY <2>1, <2>3 DEF Done, Running
  <2>6. Done(m)' \in Int
    <3>1. answer'[m].tries \in Nat
      BY <1>4, <2>1 DEF RunAttempt, TimeOut
    <3> QED  BY <3>1 DEF Done, Running
  <2> QED  BY <2>2, <2>4, <2>5, <2>6 DEF Advances, NothingUndone
<1> QED  BY <1>1, <1>2, <1>3, <1>4 DEF Temporal

\* An answer that comes in time ends its attempt; one that is late, or the
\* writing of a row, leaves the tick where it was.
LEMMA OthersUndoNothing ==
    ASSUME IInv, [Next]_vars, tick.phase # "idle", ~Temporal
    PROVE  NothingUndone
<1>1. answer \in [Markets -> [tries : Nat,
            last : {"none", "running", "late", "failed", "fatal", "ok"}]]
  BY DEF IInv, Types
<1> DEFINE results == {"ok", "failed", "fatal"}
<1>2. tick' = tick /\ (answer' = answer \/ \E w \in work : \E result \in results : Report(w, result))
  <2>1. CASE Operator \/ UNCHANGED vars
    BY <2>1 DEF vars, run, Operator, CreateProfile, UpdateProfile, DeleteProfile, Toggle, DeleteConfig
  <2>2. ASSUME NEW w \in work, Worker(w)
        PROVE  tick' = tick /\ (answer' = answer \/ \E result \in results : Report(w, result))
    <3>1. CASE StoreSnapshot(w) \/ Resolve(w)
      BY <3>1 DEF StoreSnapshot, Resolve, run
    <3>2. CASE FailAttempt(w) \/ Collect(w) \/ MarketGone(w) \/ Score(w)
      BY <3>2 DEF FailAttempt, Collect, MarketGone, Score
    <3> QED  BY <2>2, <3>1, <3>2 DEF Worker
  <2> QED  BY <2>1, <2>2 DEF Next, StartTick
<1>3. CASE answer' = answer
  <2>1. \A m \in Markets : Done(m)' = Done(m) /\ Done(m) \in Int
    BY <1>1, <1>3 DEF Done, Running
  <2> QED  BY <1>2, <2>1 DEF NothingUndone
<1>4. ASSUME NEW w \in work, NEW result \in results, Report(w, result), answer' # answer
      PROVE  NothingUndone
  <2>1. PICK m : m = w.id.market
    OBVIOUS
  <2>2. answer[m].last = "running" /\ answer' = [answer EXCEPT ![m] = [tries |-> @.tries, last |-> result]]
    BY <1>4, <2>1 DEF Report
  <2>3. \A p \in Markets : /\ answer'[p].tries = answer[p].tries
                           /\ answer'[p].last = "running" => answer[p].last = "running"
    BY <1>1, <1>4, <2>2
  <2>4. \A p \in Markets : Done(p) <= Done(p)'
    BY <1>1, <2>3 DEF Done, Running
  <2> QED  BY <1>2, <2>4 DEF NothingUndone
<1> QED  BY <1>2, <1>3, <1>4

\* Every step of Temporal takes the tick nearer to its end and no other step
\* takes it back, while a market's attempts are bounded: what TickEnds needs
\* besides fairness.
THEOREM TicksAdvance ==
    Spec => [][/\ Temporal => Advances
               /\ tick.phase # "idle" => Advances \/ NothingUndone
               /\ \A m \in Markets : Done(m) <= 2 * Tries]_vars
<1>1. IInv /\ SizeInv /\ [Next]_vars =>
          [/\ Temporal => Advances
           /\ tick.phase # "idle" => Advances \/ NothingUndone
           /\ \A m \in Markets : Done(m) <= 2 * Tries]_vars
  <2>1. ASSUME SizeInv, NEW m \in Markets PROVE Done(m) <= 2 * Tries
    <3>1. answer[m].tries \in 0 .. Tries /\ Tries \in Nat
      BY <2>1, ScorerAssumption DEF SizeInv, AttemptSize
    <3> QED  BY <3>1 DEF Done
  <2> QED  BY <2>1, TemporalAdvances, OthersUndoNothing
<1>2. Init => WInv /\ SizeInv
  BY InitWInv, InitSize
<1>3. IInv /\ WInv /\ SizeInv /\ [Next]_vars => WInv' /\ SizeInv'
  BY StepWInv, StepSize
<1> QED  BY <1>1, <1>2, <1>3, Invariance, PTL DEF Spec
=============================================================================
