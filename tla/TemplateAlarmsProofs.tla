------------------------ MODULE TemplateAlarmsProofs ------------------------
(***************************************************************************)
(* The row of a template's alarm and the wakeup of its probe, for every    *)
(* number of clients, tiles, changes, versions and failures.  The          *)
(* argument: a row is written only over the row that was read, and what    *)
(* was read admitted the evaluation, so evaluations only go forward; and   *)
(* whoever stores a probe goes on to a hint, which the watcher's own       *)
(* reading can only miss while that hint is still to come.                 *)
(***************************************************************************)
EXTENDS TemplateAlarms, TLAPS, FiniteSetTheorems

\* Nobody has a version that does not exist yet.
VersionsPast == state.version <= version /\ \A w \in Worker : work[w].version <= version

\* Who writes was admitted by the row it read.
Admitted == \A w \in Worker : AtStep(w, "write") => ~Refused(work[w], work[w].was)

\* No more is lost than was there.
LossWithin == state # NoRow => state.lost <= state.peak

RowTyped == AlarmsTypeOK /\ VersionsPast /\ Admitted /\ LossWithin

-----------------------------------------------------------------------------
(* Types.                                                                  *)

LEMMA ConstantTypes ==
  /\ Cardinality(Tile) \in Nat
  /\ FollowUpDelay \in Nat \ {0} /\ RetryDelay \in Nat \ {0} /\ BatchDelay \in Nat /\ Skew \in Nat
  /\ MaxTime \in Nat \ {0, 1} /\ MaxFlips \in Nat /\ MaxVersions \in Nat \ {0} /\ MaxBreaks \in Nat
  BY TemplateAlarmsAssumption, FS_CardinalityType

LEMMA CorrectType ==
  ASSUME NEW s
  PROVE  Correct(s) \in Pixels
<1>1. {t \in Tile : s[t].correct = 1} \subseteq Tile /\ IsFiniteSet(Tile)
  BY TemplateAlarmsAssumption
<1>2. /\ IsFiniteSet({t \in Tile : s[t].correct = 1})
      /\ Cardinality({t \in Tile : s[t].correct = 1}) <= Cardinality(Tile)
  BY <1>1, FS_Subset
<1>3. Cardinality({t \in Tile : s[t].correct = 1}) \in Nat
  BY <1>2, FS_CardinalityType
<1>. QED BY <1>2, <1>3, ConstantTypes DEF Correct, Pixels

LEMMA LaterType ==
  ASSUME NEW t \in Time, NEW delay \in Nat
  PROVE  /\ Later(t, delay) \in Time /\ Later(t, delay) >= t
         /\ t # Never \/ delay # 0 => Later(t, delay) # Never
  BY ConstantTypes DEF Later, Time, Never

LEMMA FreeType ==
  ASSUME NEW step \in {"free", "tiles", "evaluate", "write", "hint", "set", "list", "probe", "next",
                       "retry"}
  PROVE  Free \in Work /\ [Free EXCEPT !.at = step] \in Work
<1>1. 1 \in 1 .. MaxVersions /\ 0 \in Pixels /\ Never \in Time /\ NoProbe \in Probe
  BY ConstantTypes DEF Pixels, Never, Time, NoProbe, Probe
<1>. QED BY <1>1 DEF Free, Work

\* One worker goes on to x.
LEMMA WorkerGoesOn ==
  ASSUME RowTyped, NEW w \in Worker, NEW x \in Work, work' = [work EXCEPT ![w] = x],
         x.version <= version', x.at = "write" => ~Refused(x, x.was),
         version <= version', version' \in 1 .. MaxVersions
  PROVE  /\ work' \in [Worker -> Work] /\ Admitted'
         /\ \A v \in Worker : work'[v].version <= version'
         /\ work'[w] = x /\ \A v \in Worker \ {w} : work'[v] = work[v]
<1>1. work \in [Worker -> Work]
  BY DEF RowTyped, AlarmsTypeOK
<1>2. work'[w] = x /\ \A v \in Worker \ {w} : work'[v] = work[v]
  BY <1>1
<1>3. work' \in [Worker -> Work]
  BY <1>1
<1>4. \A v \in Worker : work'[v].version <= version'
  <2>. SUFFICES ASSUME NEW v \in Worker PROVE work'[v].version <= version'
    OBVIOUS
  <2>1. CASE v = w
    BY <1>2, <2>1
  <2>2. CASE v # w
    <3>1. work[v].version <= version /\ work[v].version \in 1 .. MaxVersions
      BY <1>1 DEF RowTyped, VersionsPast, Work
    <3>2. version \in 1 .. MaxVersions
      BY DEF RowTyped, AlarmsTypeOK
    <3>. QED BY <1>2, <2>2, <3>1, <3>2, ConstantTypes
  <2>. QED BY <2>1, <2>2
<1>5. Admitted'
  <2>. SUFFICES ASSUME NEW v \in Worker, work'[v].at = "write"
                PROVE  ~Refused(work'[v], work'[v].was)
    BY DEF Admitted, AtStep
  <2>1. CASE v = w
    BY <1>2, <2>1
  <2>2. CASE v # w
    BY <1>2, <2>2 DEF RowTyped, Admitted, AtStep
  <2>. QED BY <2>1, <2>2
<1>. QED BY <1>2, <1>3, <1>4, <1>5

LEMMA WorkerMoves ==
  ASSUME RowTyped, NEW w \in Worker,
         NEW step \in {"free", "tiles", "evaluate", "hint", "set", "list", "probe", "next", "retry"},
         Move(w, step), version <= version', version' \in 1 .. MaxVersions
  PROVE  /\ work' \in [Worker -> Work] /\ Admitted'
         /\ \A v \in Worker : work'[v].version <= version'
         /\ work'[w].at = step /\ work'[w].follows = NoProbe
         /\ \A v \in Worker \ {w} : work'[v] = work[v]
<1>. DEFINE x == [Free EXCEPT !.at = step]
<1>1. x \in Work /\ x.version = 1 /\ x.at = step /\ x.follows = NoProbe
  BY FreeType DEF Free
<1>2. x.version <= version'
  BY <1>1, ConstantTypes
<1>3. work' = [work EXCEPT ![w] = x]
  BY DEF Move
<1>4. x.at = "write" => ~Refused(x, x.was)
  BY <1>1
<1>. HIDE DEF x
<1>. QED BY <1>1, <1>2, <1>3, <1>4, WorkerGoesOn

\* Nothing of the bounds, the counters and the history but what a step names.
Rest == <<clock, version, status, mirrored, counted, state, wakeup, flips, breaks, episodes,
          unhinted, overlooked>>

LEMMA RestTyped ==
  ASSUME RowTyped, UNCHANGED Rest, work' \in [Worker -> Work], Admitted',
         \A v \in Worker : work'[v].version <= version'
  PROVE  RowTyped'
  BY DEF RowTyped, AlarmsTypeOK, VersionsPast, LossWithin, Rest

LEMMA OnlyWorkTyped ==
  ASSUME RowTyped, UNCHANGED Rest, NEW w \in Worker, NEW x \in Work,
         work' = [work EXCEPT ![w] = x],
         x.version <= version, x.at = "write" => ~Refused(x, x.was)
  PROVE  RowTyped'
<1>1. version' = version /\ version \in 1 .. MaxVersions /\ version <= version
  BY ConstantTypes DEF Rest, RowTyped, AlarmsTypeOK
<1>2. x.version <= version' /\ version <= version' /\ version' \in 1 .. MaxVersions
  BY <1>1
<1>3. /\ work' \in [Worker -> Work] /\ Admitted'
      /\ \A v \in Worker : work'[v].version <= version'
  BY <1>2, WorkerGoesOn
<1>. QED BY <1>3, RestTyped

LEMMA OnlyMoveTyped ==
  ASSUME RowTyped, UNCHANGED Rest, NEW w \in Worker,
         NEW step \in {"free", "tiles", "evaluate", "hint", "set", "list", "probe", "next", "retry"},
         Move(w, step)
  PROVE  RowTyped'
<1>1. version <= version' /\ version' \in 1 .. MaxVersions
  BY ConstantTypes DEF Rest, RowTyped, AlarmsTypeOK
<1>. QED BY <1>1, WorkerMoves, RestTyped

LEMMA NextProbeType ==
  ASSUME RowTyped
  PROVE  NextProbe \in Time
<1>1. CASE Open(state)
  <2>1. state \in AlarmRow
    BY <1>1 DEF RowTyped, AlarmsTypeOK, Open
  <2>. QED BY <2>1, ConstantTypes DEF NextProbe, AlarmRow, Probe, Time, Never
<1>2. CASE ~Open(state)
  BY <1>2, ConstantTypes DEF NextProbe, Time, Never
<1>. QED BY <1>1, <1>2

LEMMA ScheduleTyped ==
  ASSUME RowTyped, NEW w \in Worker, HintStep(w), w # "watcher"
  PROVE  RowTyped'
<1>1. NextProbe \in Time
  BY NextProbeType
<1>2. CASE ReadSchedule(w)
  <2>. DEFINE x == [[Free EXCEPT !.at = "set"] EXCEPT !.follows = [due |-> NextProbe, lost |-> 0]]
  <2>1. [due |-> NextProbe, lost |-> 0] \in Probe
    BY <1>1, ConstantTypes DEF Probe, Pixels
  <2>2. x \in Work /\ x.version = 1 /\ x.at = "set"
    <3>1. [Free EXCEPT !.at = "set"] \in Work
      BY FreeType
    <3>. QED BY <2>1, <3>1 DEF Work, Free
  <2>3. work' = [work EXCEPT ![w] = x] /\ UNCHANGED Rest
    <3>1. x = [Free EXCEPT !.at = "set", !.follows.due = NextProbe]
      BY DEF Free, NoProbe
    <3>2. work' = [work EXCEPT ![w] = [Free EXCEPT !.at = "set", !.follows.due = NextProbe]]
      BY <1>2 DEF ReadSchedule
    <3>3. UNCHANGED Rest
      BY <1>2 DEF ReadSchedule, Rest
    <3>. HIDE DEF x
    <3>. QED BY <3>1, <3>2, <3>3
  <2>4. x.version <= version
    BY <2>2, ConstantTypes DEF RowTyped, AlarmsTypeOK
  <2>. HIDE DEF x
  <2>. QED BY <2>2, <2>3, <2>4, OnlyWorkTyped
<1>3. CASE SetSchedule(w)
  <2>1. Move(w, "free") /\ version' = version
    BY <1>3 DEF SetSchedule, Finish
  <2>2. version \in 1 .. MaxVersions
    BY DEF RowTyped, AlarmsTypeOK
  <2>3. /\ work' \in [Worker -> Work] /\ Admitted'
        /\ \A v \in Worker : work'[v].version <= version'
    BY <2>1, <2>2, WorkerMoves, ConstantTypes
  <2>4. wakeup' \in Time /\ unhinted' \in BOOLEAN
    <3>1. work[w].follows.due \in Time /\ wakeup \in Time /\ unhinted \in BOOLEAN
      BY DEF RowTyped, AlarmsTypeOK, Work, Probe
    <3>. QED BY <1>3, <3>1 DEF SetSchedule, KeptWakeup
  <2>. QED BY <1>3, <2>3, <2>4 DEF SetSchedule, RowTyped, AlarmsTypeOK, VersionsPast, LossWithin
<1>. QED BY <1>2, <1>3 DEF HintStep

\* What an evaluation decides is a row, of the version it was made for.
LEMMA DecidedType ==
  ASSUME NEW w \in Work, NEW row \in AlarmRow \cup {NoRow}, episodes \in Nat
  PROVE  /\ Decided(w, row) \in AlarmRow
         /\ Decided(w, row).version = w.version
         /\ Decided(w, row).lost <= Decided(w, row).peak
         /\ Decided(w, row).evaluated = w.now /\ Decided(w, row).seen = w.seen
<1>1. /\ w.version \in 1 .. MaxVersions /\ w.before \in Pixels /\ w.correct \in Pixels
      /\ w.now \in Time /\ w.seen \in Nat /\ 0 \in Pixels
  BY ConstantTypes DEF Work, Pixels
<1>2. /\ Base(w, row).peak \in Pixels /\ Base(w, row).episode \in Nat
      /\ Base(w, row).sustained \in BOOLEAN /\ Base(w, row).probe \in Probe
  <2>1. CASE row # NoRow /\ row.version = w.version
    <3>1. Base(w, row) = row /\ row \in AlarmRow
      BY <2>1 DEF Base
    <3>. QED BY <3>1 DEF AlarmRow
  <2>2. CASE ~(row # NoRow /\ row.version = w.version)
    <3>1. NoProbe \in Probe
      BY <1>1, ConstantTypes DEF NoProbe, Probe, Time, Never
    <3>. QED BY <1>1, <2>2, <3>1 DEF Base
  <2>. QED BY <2>1, <2>2
<1>3. Peak(w, row) \in Pixels /\ Peak(w, row) >= w.correct
  BY <1>1, <1>2, ConstantTypes DEF Peak, Latest, Pixels
<1>4. Lost(w, row) \in Pixels /\ Lost(w, row) <= Peak(w, row)
  BY <1>1, <1>3, ConstantTypes DEF Lost, Pixels
<1>5. ProbeAfter(w, row) \in Probe
  <2>1. Later(w.now, FollowUpDelay) \in Time
    BY <1>1, LaterType, ConstantTypes
  <2>2. NoProbe \in Probe
    BY <1>1, ConstantTypes DEF NoProbe, Probe, Time, Never
  <2>3. [due |-> Later(w.now, FollowUpDelay), lost |-> Lost(w, row)] \in Probe
    BY <1>4, <2>1 DEF Probe
  <2>. QED BY <1>2, <2>2, <2>3 DEF ProbeAfter
<1>6. Sustained(w, row) \in BOOLEAN
  BY <1>2 DEF Sustained
<1>. QED BY <1>1, <1>2, <1>3, <1>4, <1>5, <1>6 DEF Decided, AlarmRow

LEMMA EvaluateTyped ==
  ASSUME RowTyped, NEW w \in Worker, EvaluateStep(w)
  PROVE  RowTyped'
<1>0. /\ version \in 1 .. MaxVersions /\ work \in [Worker -> Work] /\ work[w] \in Work
      /\ state \in AlarmRow \cup {NoRow} /\ After(w) \in {"hint", "next"}
      /\ work[w].version <= version /\ work[w].version \in 1 .. MaxVersions
  BY DEF RowTyped, AlarmsTypeOK, VersionsPast, After, Work
<1>1. CASE ReadState(w)
  <2>1. version' = version
    BY <1>1 DEF ReadState
  <2>2. /\ work' \in [Worker -> Work] /\ Admitted'
        /\ \A v \in Worker : work'[v].version <= version'
    <3>1. CASE Refused(work[w], state)
      BY <1>0, <1>1, <2>1, <3>1, WorkerMoves, ConstantTypes DEF ReadState
    <3>2. CASE ~Refused(work[w], state)
      <4>. DEFINE x == [work[w] EXCEPT !.at = "write", !.was = state]
      <4>1. x \in Work /\ x.version = work[w].version
        BY <1>0 DEF Work
      <4>2. ~Refused(x, x.was)
        <5>1. /\ x.was = state /\ x.kind = work[w].kind /\ x.version = work[w].version
              /\ x.episode = work[w].episode /\ x.follows = work[w].follows
              /\ x.now = work[w].now /\ x.seen = work[w].seen
          BY <1>0 DEF Work
        <5>. HIDE DEF x
        <5>. QED BY <3>2, <5>1 DEF Refused, Outdated, TooEarly, Overtaken
      <4>3. work' = [work EXCEPT ![w] = x]
        BY <1>0, <1>1, <3>2 DEF ReadState
      <4>. HIDE DEF x
      <4>4. x.version <= version' /\ version <= version' /\ version' \in 1 .. MaxVersions
        BY <1>0, <2>1, <4>1, ConstantTypes
      <4>. QED BY <4>1, <4>2, <4>3, <4>4, WorkerGoesOn
    <3>. QED BY <3>1, <3>2
  <2>3. overlooked' \in BOOLEAN
    BY <1>1 DEF ReadState
  <2>. QED BY <1>1, <2>1, <2>2, <2>3 DEF ReadState, RowTyped, AlarmsTypeOK, VersionsPast, LossWithin
<1>2. CASE WriteState(w)
  <2>1. version' = version
    BY <1>2 DEF WriteState
  <2>2. CASE SameRow(w)
    <3>1. state' = Decided(work[w], work[w].was)
      BY <1>2, <2>2 DEF WriteState
    <3>2. episodes \in Nat /\ work[w].was \in AlarmRow \cup {NoRow}
      BY <1>0 DEF RowTyped, AlarmsTypeOK, Work
    <3>3. state' \in AlarmRow /\ state'.version = work[w].version /\ state'.lost <= state'.peak
      BY <1>0, <3>1, <3>2, DecidedType
    <3>4. /\ work' \in [Worker -> Work] /\ Admitted'
          /\ \A v \in Worker : work'[v].version <= version'
      BY <1>0, <1>2, <2>1, <2>2, WorkerMoves, ConstantTypes DEF WriteState
    <3>5. episodes' \in Nat /\ overlooked' \in BOOLEAN
      BY <1>2, <2>2, <3>2 DEF WriteState, RowTyped, AlarmsTypeOK
    <3>. QED BY <1>0, <1>2, <2>1, <3>3, <3>4, <3>5 DEF WriteState, RowTyped, AlarmsTypeOK, VersionsPast, LossWithin
  <2>3. CASE ~SameRow(w)
    <3>. DEFINE x == [work[w] EXCEPT !.at = "evaluate", !.was = NoRow]
    <3>1. x \in Work /\ x.version = work[w].version /\ x.at = "evaluate"
      BY <1>0 DEF Work
    <3>2. work' = [work EXCEPT ![w] = x] /\ UNCHANGED Rest
      BY <1>0, <1>2, <2>3 DEF WriteState, Rest
    <3>. HIDE DEF x
    <3>3. x.version <= version
      BY <1>0, <3>1
    <3>. QED BY <3>1, <3>2, <3>3, OnlyWorkTyped
  <2>. QED BY <2>2, <2>3
<1>. QED BY <1>1, <1>2 DEF EvaluateStep

LEMMA CommitTyped ==
  ASSUME RowTyped, NEW t \in Tile, NEW correct \in 0 .. 1, NEW at \in Time, NEW server \in BOOLEAN,
         CommitTile(t, correct, at, server)
  PROVE  /\ status' \in [Tile -> TileStatus] /\ mirrored' \in [Tile -> TileStatus]
         /\ counted' \in Nat /\ flips' \in 0 .. MaxFlips
<1>1. [correct |-> correct, at |-> at, server |-> server] \in TileStatus
  BY DEF TileStatus
<1>2. server => [correct |-> correct, at |-> at, server |-> TRUE] \in TileStatus
  BY DEF TileStatus
<1>3. status \in [Tile -> TileStatus] /\ mirrored \in [Tile -> TileStatus]
  BY DEF RowTyped, AlarmsTypeOK
<1>4. status' \in [Tile -> TileStatus]
  BY <1>1, <1>3 DEF CommitTile
<1>5. mirrored' \in [Tile -> TileStatus]
  BY <1>2, <1>3 DEF CommitTile
<1>6. counted' \in Nat /\ flips' \in 0 .. MaxFlips
  BY ConstantTypes DEF CommitTile, RowTyped, AlarmsTypeOK
<1>. QED BY <1>4, <1>5, <1>6

LEMMA ObserveTyped ==
  ASSUME RowTyped, NEW c \in Client, Observe(c)
  PROVE  RowTyped'
<1>1. PICK t \in Tile, correct \in 0 .. 1, at \in 1 .. Later(clock, Skew) :
        /\ CommitTile(t, correct, at, FALSE)
        /\ IF AlarmChange(t, correct)
           THEN \E newest \in {at} \cup {status[s].at : s \in Tile} :
                   work' = [work EXCEPT ![c] =
                        [Free EXCEPT !.at = "evaluate", !.version = version, !.seen = counted',
                                     !.correct = Correct(status'), !.before = Correct(status),
                                     !.now = newest]]
           ELSE UNCHANGED work
  BY DEF Observe
<1>2. clock \in Time /\ version \in 1 .. MaxVersions /\ work \in [Worker -> Work] /\ c \in Worker
  BY DEF RowTyped, AlarmsTypeOK, Time, Never, Worker
<1>3. at \in Time
  BY <1>2, LaterType, ConstantTypes DEF Time, Never
<1>4. /\ status' \in [Tile -> TileStatus] /\ mirrored' \in [Tile -> TileStatus]
      /\ counted' \in Nat /\ flips' \in 0 .. MaxFlips
  BY <1>1, <1>3, CommitTyped
<1>5. /\ work' \in [Worker -> Work] /\ Admitted'
      /\ \A v \in Worker : work'[v].version <= version'
  <2>0. version' = version
    BY DEF Observe
  <2>1. CASE AlarmChange(t, correct)
    <3>1. PICK newest \in {at} \cup {status[s].at : s \in Tile} :
            work' = [work EXCEPT ![c] =
                        [Free EXCEPT !.at = "evaluate", !.version = version, !.seen = counted',
                                     !.correct = Correct(status'), !.before = Correct(status),
                                     !.now = newest]]
      BY <1>1, <2>1
    <3>2. newest \in Time
      BY <1>3 DEF RowTyped, AlarmsTypeOK, TileStatus
    <3>3. Correct(status') \in Pixels /\ Correct(status) \in Pixels
      BY CorrectType
    <3>. DEFINE x == [Free EXCEPT !.at = "evaluate", !.version = version, !.seen = counted',
                                  !.correct = Correct(status'), !.before = Correct(status),
                                  !.now = newest]
    <3>4. x \in Work /\ x.version = version /\ x.at = "evaluate"
      <4>1. Free \in Work
        BY FreeType
      <4>. QED BY <1>2, <1>4, <3>2, <3>3, <4>1 DEF Work, Free
    <3>5. x.version <= version' /\ version <= version' /\ version' \in 1 .. MaxVersions
      BY <1>2, <2>0, <3>4, ConstantTypes
    <3>6. work' = [work EXCEPT ![c] = x]
      BY <3>1
    <3>. HIDE DEF x
    <3>. QED BY <1>2, <3>4, <3>5, <3>6, WorkerGoesOn
  <2>2. CASE ~AlarmChange(t, correct)
    BY <1>1, <1>2, <2>0, <2>2 DEF RowTyped, VersionsPast, Admitted, AtStep
  <2>. QED BY <2>1, <2>2
<1>. QED BY <1>4, <1>5 DEF Observe, RowTyped, AlarmsTypeOK, VersionsPast, LossWithin

LEMMA DismissTyped ==
  ASSUME RowTyped, NEW c \in Client, Dismiss(c)
  PROVE  RowTyped' /\ state'.evaluated >= state.evaluated
<1>1. /\ state \in AlarmRow /\ clock \in Time /\ version' = version /\ c \in Worker
      /\ version \in 1 .. MaxVersions /\ version <= version'
  BY ConstantTypes DEF Dismiss, Open, RowTyped, AlarmsTypeOK, Time, Never, Worker
<1>2. Latest(state.evaluated, clock) \in Time /\ Latest(state.evaluated, clock) >= state.evaluated
  BY <1>1, ConstantTypes DEF Latest, AlarmRow, Time, Never
<1>3. /\ Later(Latest(state.evaluated, clock), 1) \in Time
      /\ Later(Latest(state.evaluated, clock), 1) >= Latest(state.evaluated, clock)
  BY <1>2, LaterType
<1>4. /\ state.lost <= state.peak /\ state.peak \in Pixels /\ state.lost \in Pixels
      /\ state.peak - state.lost \in Pixels /\ 0 \in Pixels /\ 0 <= state.peak - state.lost
  <2>1. state.lost <= state.peak /\ state.peak \in Pixels /\ state.lost \in Pixels
    BY <1>1 DEF RowTyped, LossWithin, AlarmRow, Dismiss, Open
  <2>. QED BY <2>1, ConstantTypes DEF Pixels
<1>5. NoProbe \in Probe
  BY <1>4, ConstantTypes DEF NoProbe, Probe, Time, Never
<1>6. state' = [state EXCEPT !.peak = state.peak - state.lost, !.lost = 0, !.episode = 0,
                             !.sustained = FALSE, !.probe = NoProbe,
                             !.evaluated = Later(Latest(state.evaluated, clock), 1)]
  BY DEF Dismiss
<1>7. /\ state' \in AlarmRow /\ state'.version = state.version /\ state'.lost <= state'.peak
      /\ state'.evaluated = Later(Latest(state.evaluated, clock), 1) /\ state'.seen = state.seen
  BY <1>1, <1>3, <1>4, <1>5, <1>6 DEF AlarmRow
<1>8. /\ work' \in [Worker -> Work] /\ Admitted'
      /\ \A v \in Worker : work'[v].version <= version'
  BY <1>1, WorkerMoves DEF Dismiss
<1>9. state'.evaluated >= state.evaluated
  BY <1>1, <1>2, <1>3, <1>7, ConstantTypes DEF Time, Never, AlarmRow
<1>10. state'.version <= version'
  BY <1>1, <1>7 DEF RowTyped, VersionsPast
<1>. QED BY <1>7, <1>8, <1>9, <1>10 DEF Dismiss, RowTyped, AlarmsTypeOK, VersionsPast, LossWithin

\* The scan.
LEMMA ScanTyped ==
  ASSUME RowTyped, ScanBegins \/ ScanCounts \/ ScanMisses
  PROVE  RowTyped'
<1>0. /\ "scan" \in Worker /\ version \in 1 .. MaxVersions /\ clock \in Time /\ counted \in Nat
      /\ work["scan"] \in Work /\ work["scan"].version <= version /\ version <= version
      /\ breaks \in 0 .. MaxBreaks
  BY ConstantTypes DEF Worker, RowTyped, AlarmsTypeOK, VersionsPast, Time, Never
<1>1. CASE ScanBegins
  <2>. DEFINE x == [Free EXCEPT !.at = "tiles", !.kind = "scan", !.now = clock,
                                !.version = version, !.todo = Tile]
  <2>1. Free \in Work
    BY FreeType
  <2>2. x \in Work /\ x.version = version /\ x.at = "tiles"
    BY <1>0, <2>1 DEF Work, Free
  <2>3. work' = [work EXCEPT !["scan"] = x] /\ UNCHANGED Rest
    BY <1>1 DEF ScanBegins, Rest
  <2>. HIDE DEF x
  <2>. QED BY <1>0, <2>2, <2>3, OnlyWorkTyped
<1>2. CASE ScanCounts
  <2>1. UNCHANGED Rest
    BY <1>2 DEF ScanCounts, Rest
  <2>2. CASE work["scan"].fresh /\ Countable
    <3>. DEFINE x == [work["scan"] EXCEPT !.at = "evaluate", !.correct = Correct(mirrored),
                                          !.seen = counted, !.fresh = TRUE]
    <3>1. x \in Work /\ x.version = work["scan"].version /\ x.at = "evaluate"
      BY <1>0, CorrectType DEF Work
    <3>2. work' = [work EXCEPT !["scan"] = x]
      BY <1>0, <1>2, <2>2 DEF ScanCounts, Evaluate, RowTyped, AlarmsTypeOK
    <3>. HIDE DEF x
    <3>. QED BY <1>0, <2>1, <3>1, <3>2, OnlyWorkTyped
  <2>3. CASE ~(work["scan"].fresh /\ Countable)
    BY <1>0, <1>2, <2>1, <2>3, OnlyMoveTyped DEF ScanCounts
  <2>. QED BY <2>2, <2>3
<1>3. CASE ScanMisses
  <2>1. PICK t \in work["scan"].todo :
          work' = [work EXCEPT !["scan"].todo = @ \ {t}, !["scan"].fresh = FALSE]
    BY <1>3 DEF ScanMisses
  <2>. DEFINE x == [work["scan"] EXCEPT !.todo = @ \ {t}, !.fresh = FALSE]
  <2>2. x \in Work /\ x.version = work["scan"].version /\ x.at = "tiles"
    BY <1>0, <1>3 DEF Work, ScanMisses, AtStep
  <2>3. work' = [work EXCEPT !["scan"] = x]
    BY <1>0, <2>1 DEF RowTyped, AlarmsTypeOK
  <2>4. version' = version /\ breaks' \in 0 .. MaxBreaks
    BY <1>0, <1>3, ConstantTypes DEF ScanMisses, Break
  <2>. HIDE DEF x
  <2>5. /\ work' \in [Worker -> Work] /\ Admitted'
        /\ \A v \in Worker : work'[v].version <= version'
    BY <1>0, <2>2, <2>3, <2>4, WorkerGoesOn
  <2>. QED BY <1>3, <2>4, <2>5 DEF ScanMisses, RowTyped, AlarmsTypeOK, VersionsPast, LossWithin
<1>. QED BY <1>1, <1>2, <1>3

LEMMA FetchTyped ==
  ASSUME RowTyped, NEW w \in Worker, FetchTile(w)
  PROVE  RowTyped'
<1>0. /\ version \in 1 .. MaxVersions /\ work[w] \in Work /\ work[w].version <= version
      /\ work[w].now \in Time /\ work[w].todo \in SUBSET Tile /\ version <= version
  BY ConstantTypes DEF RowTyped, AlarmsTypeOK, VersionsPast, Work
<1>1. PICK t \in work[w].todo, correct \in 0 .. 1 :
        /\ CommitTile(t, correct, work[w].now, TRUE)
        /\ work' = [work EXCEPT ![w].todo = @ \ {t}]
  BY DEF FetchTile
<1>2. /\ status' \in [Tile -> TileStatus] /\ mirrored' \in [Tile -> TileStatus]
      /\ counted' \in Nat /\ flips' \in 0 .. MaxFlips
  <2>1. t \in Tile /\ TRUE \in BOOLEAN
    BY <1>0
  <2>. QED BY <1>0, <1>1, <2>1, CommitTyped
<1>. DEFINE x == [work[w] EXCEPT !.todo = @ \ {t}]
<1>3. x \in Work /\ x.version = work[w].version /\ x.at = "tiles"
  BY <1>0 DEF Work, FetchTile, AtStep
<1>4. work' = [work EXCEPT ![w] = x]
  BY <1>1 DEF RowTyped, AlarmsTypeOK
<1>5. version' = version /\ overlooked' \in BOOLEAN
  BY DEF FetchTile
<1>. HIDE DEF x
<1>6. /\ work' \in [Worker -> Work] /\ Admitted'
      /\ \A v \in Worker : work'[v].version <= version'
  BY <1>0, <1>3, <1>4, <1>5, WorkerGoesOn
<1>. QED BY <1>2, <1>5, <1>6 DEF FetchTile, RowTyped, AlarmsTypeOK, VersionsPast, LossWithin

\* A probe deferred is the same row otherwise.
LEMMA DeferredType ==
  ASSUME RowTyped
  PROVE  /\ Deferred \in AlarmRow \cup {NoRow} /\ Deferred.version = state.version
         /\ Deferred # NoRow => Deferred.lost <= Deferred.peak
         /\ state # NoRow => /\ Deferred # NoRow /\ Deferred.evaluated = state.evaluated
                             /\ Deferred.seen = state.seen
<1>0. state \in AlarmRow \cup {NoRow} /\ work["watcher"].now \in Time
  BY DEF Worker, RowTyped, AlarmsTypeOK, Work
<1>1. CASE SameProbe
  <2>1. state \in AlarmRow /\ state.lost <= state.peak
    BY <1>0, <1>1 DEF SameProbe, Open, RowTyped, LossWithin
  <2>. DEFINE due == Later(work["watcher"].now, RetryDelay)
  <2>2. due \in Time
    BY <1>0, LaterType, ConstantTypes
  <2>3. Deferred = [state EXCEPT !.probe.due = due]
    BY <1>1 DEF Deferred
  <2>. HIDE DEF due
  <2>4. Deferred = [state EXCEPT !.probe = [due |-> due, lost |-> state.probe.lost]]
    BY <2>1, <2>3 DEF AlarmRow, Probe
  <2>5. [due |-> due, lost |-> state.probe.lost] \in Probe
    BY <2>1, <2>2 DEF AlarmRow, Probe
  <2>6. Deferred \in AlarmRow
    BY <2>1, <2>4, <2>5 DEF AlarmRow
  <2>7. Deferred # NoRow
    <3>1. Deferred.version = state.version /\ state.version \in 1 .. MaxVersions
      BY <2>1, <2>4 DEF AlarmRow
    <3>. QED BY <3>1, ConstantTypes DEF NoRow
  <2>. QED BY <2>1, <2>4, <2>6, <2>7 DEF AlarmRow
<1>2. CASE ~SameProbe
  BY <1>0, <1>2 DEF Deferred, RowTyped, LossWithin
<1>. QED BY <1>1, <1>2

LEMMA DeferTyped ==
  ASSUME RowTyped, DeferProbe, UNCHANGED <<clock, version, status, mirrored, counted, wakeup, flips,
                                           episodes, unhinted, overlooked>>,
         breaks' \in 0 .. MaxBreaks
  PROVE  RowTyped'
<1>1. /\ version' = version /\ version \in 1 .. MaxVersions /\ "watcher" \in Worker
      /\ version <= version' /\ version' \in 1 .. MaxVersions
  BY ConstantTypes DEF RowTyped, AlarmsTypeOK, Worker
<1>2. state' = Deferred /\ Move("watcher", "retry")
  BY DEF DeferProbe
<1>3. /\ work' \in [Worker -> Work] /\ Admitted'
      /\ \A v \in Worker : work'[v].version <= version'
  BY <1>1, <1>2, WorkerMoves
<1>4. state'.version <= version'
  BY <1>1, <1>2, DeferredType DEF RowTyped, VersionsPast
<1>. QED BY <1>2, <1>3, <1>4, DeferredType DEF RowTyped, AlarmsTypeOK, VersionsPast, LossWithin

\* The watcher, except for what it shares with the others.
LEMMA WatcherTyped ==
  ASSUME RowTyped, Wake \/ ListProbes \/ BeginFollowUp \/ FollowUp \/ ReadNext \/ SetNext \/ SetRetry
  PROVE  RowTyped'
<1>. DEFINE me == work["watcher"]
<1>0. /\ "watcher" \in Worker /\ version \in 1 .. MaxVersions /\ clock \in Time /\ counted \in Nat
      /\ work \in [Worker -> Work] /\ me \in Work /\ me.version <= version /\ version <= version
      /\ state \in AlarmRow \cup {NoRow} /\ wakeup \in Time /\ unhinted \in BOOLEAN /\ 1 <= version
  BY ConstantTypes DEF Worker, RowTyped, AlarmsTypeOK, VersionsPast, Time, Never
<1>1. CASE Wake
  <2>. DEFINE x == [Free EXCEPT !.at = "list", !.kind = "follow-up", !.now = clock]
  <2>1. Free \in Work /\ Never \in Time
    BY FreeType, ConstantTypes DEF Never, Time
  <2>2. x \in Work /\ x.version = 1 /\ x.at = "list"
    BY <1>0, <2>1 DEF Work, Free
  <2>3. work' = [work EXCEPT !["watcher"] = x] /\ version' = version /\ wakeup' = Never
    BY <1>1 DEF Wake
  <2>. HIDE DEF x, me
  <2>4. /\ work' \in [Worker -> Work] /\ Admitted'
        /\ \A v \in Worker : work'[v].version <= version'
    BY <1>0, <2>2, <2>3, WorkerGoesOn
  <2>. QED BY <1>1, <2>1, <2>3, <2>4 DEF Wake, RowTyped, AlarmsTypeOK, VersionsPast, LossWithin
<1>2. CASE ListProbes
  <2>1. UNCHANGED Rest
    BY <1>2 DEF ListProbes, Rest
  <2>2. CASE NextProbe # Never /\ NextProbe <= me.now
    <3>1. state.probe \in Probe /\ state.episode \in Nat
      <4>1. state # NoRow
        BY <2>2 DEF NextProbe, Open
      <4>. QED BY <1>0, <4>1 DEF AlarmRow
    <3>. DEFINE x == [me EXCEPT !.at = "probe", !.version = version, !.follows = state.probe,
                                !.episode = state.episode]
    <3>2. x \in Work /\ x.version = version /\ x.at = "probe"
      BY <1>0, <3>1 DEF Work
    <3>3. work' = [work EXCEPT !["watcher"] = x]
      BY <1>0, <1>2, <2>2 DEF ListProbes
    <3>. HIDE DEF x, me
    <3>. QED BY <1>0, <2>1, <3>2, <3>3, OnlyWorkTyped
  <2>3. CASE ~(NextProbe # Never /\ NextProbe <= me.now)
    BY <1>0, <1>2, <2>1, <2>3, OnlyMoveTyped DEF ListProbes
  <2>. QED BY <2>2, <2>3
<1>3. CASE BeginFollowUp
  <2>1. CASE me.version = version
    <3>1. PICK stale \in SUBSET Tile :
            work' = [work EXCEPT !["watcher"].at = "tiles", !["watcher"].todo = stale,
                                 !["watcher"].fresh = stale = {}]
      BY <1>3, <2>1 DEF BeginFollowUp
    <3>. DEFINE x == [me EXCEPT !.at = "tiles", !.todo = stale, !.fresh = stale = {}]
    <3>2. x \in Work /\ x.version = me.version /\ x.at = "tiles"
      BY <1>0 DEF Work
    <3>3. work' = [work EXCEPT !["watcher"] = x]
      BY <1>0, <3>1
    <3>4. UNCHANGED Rest
      BY <1>3, <2>1 DEF BeginFollowUp, Rest
    <3>. HIDE DEF x, me
    <3>. QED BY <1>0, <3>2, <3>3, <3>4, OnlyWorkTyped
  <2>2. CASE me.version # version
    <3>1. NoProbe \in Probe
      BY ConstantTypes DEF NoProbe, Probe, Time, Never, Pixels
    <3>2. /\ state' \in AlarmRow \cup {NoRow} /\ state'.version = state.version
          /\ state' # NoRow => state'.lost <= state'.peak
      <4>1. CASE SameProbe
        <5>1. state \in AlarmRow /\ state.lost <= state.peak
          BY <1>0, <4>1 DEF SameProbe, Open, RowTyped, LossWithin
        <5>2. state' = [state EXCEPT !.probe = NoProbe]
          BY <1>3, <2>2, <4>1 DEF BeginFollowUp
        <5>. QED BY <3>1, <5>1, <5>2 DEF AlarmRow
      <4>2. CASE ~SameProbe
        BY <1>0, <1>3, <2>2, <4>2 DEF BeginFollowUp, RowTyped, LossWithin
      <4>. QED BY <4>1, <4>2
    <3>3. version' = version /\ Move("watcher", "retry")
      BY <1>3, <2>2 DEF BeginFollowUp
    <3>. HIDE DEF me
    <3>4. /\ work' \in [Worker -> Work] /\ Admitted'
          /\ \A v \in Worker : work'[v].version <= version'
      BY <1>0, <3>3, WorkerMoves
    <3>5. state'.version <= version'
      BY <3>2, <3>3 DEF RowTyped, VersionsPast
    <3>. QED BY <1>3, <3>2, <3>4, <3>5 DEF BeginFollowUp, RowTyped, AlarmsTypeOK, VersionsPast, LossWithin
  <2>. QED BY <2>1, <2>2
<1>4. CASE FollowUp
  <2>1. CASE Countable /\ Mirrored
    <3>. DEFINE x == [me EXCEPT !.at = "evaluate", !.correct = Correct(mirrored),
                                !.seen = counted, !.fresh = TRUE]
    <3>1. x \in Work /\ x.version = me.version /\ x.at = "evaluate"
      BY <1>0, CorrectType DEF Work
    <3>2. work' = [work EXCEPT !["watcher"] = x]
      BY <1>0, <1>4, <2>1 DEF FollowUp, Evaluate
    <3>3. UNCHANGED Rest
      BY <1>4, <2>1 DEF FollowUp, Rest
    <3>. HIDE DEF x, me
    <3>. QED BY <1>0, <3>1, <3>2, <3>3, OnlyWorkTyped
  <2>2. CASE ~(Countable /\ Mirrored) /\ me.fresh
    <3>1. DeferProbe /\ UNCHANGED <<clock, version, status, mirrored, counted, wakeup, flips,
                                    episodes, unhinted, overlooked>>
      BY <1>4, <2>2 DEF FollowUp
    <3>2. breaks' \in 0 .. MaxBreaks
      BY <1>4 DEF FollowUp, RowTyped, AlarmsTypeOK
    <3>. QED BY <3>1, <3>2, DeferTyped
  <2>3. CASE ~(Countable /\ Mirrored) /\ ~me.fresh
    <3>. DEFINE x == [Free EXCEPT !.at = "next", !.fresh = FALSE]
    <3>1. Free \in Work
      BY FreeType
    <3>2. x \in Work /\ x.version = 1 /\ x.at = "next"
      BY <3>1 DEF Work, Free
    <3>3. work' = [work EXCEPT !["watcher"] = x] /\ UNCHANGED Rest
      BY <1>4, <2>3 DEF FollowUp, Rest
    <3>. HIDE DEF x, me
    <3>. QED BY <1>0, <3>2, <3>3, OnlyWorkTyped
  <2>. QED BY <2>1, <2>2, <2>3
<1>5. CASE ReadNext
  <2>. DEFINE x == [[Free EXCEPT !.at = "set"] EXCEPT !.follows = [due |-> NextProbe, lost |-> 0],
                                                      !.fresh = me.fresh]
  <2>1. [due |-> NextProbe, lost |-> 0] \in Probe
    BY NextProbeType, ConstantTypes DEF Probe, Pixels
  <2>2. me.fresh \in BOOLEAN
    BY <1>0 DEF Work
  <2>3. x \in Work /\ x.version = 1 /\ x.at = "set"
    <3>1. [Free EXCEPT !.at = "set"] \in Work
      BY FreeType
    <3>. HIDE DEF me
    <3>. QED BY <2>1, <2>2, <3>1 DEF Work, Free
  <2>4. work' = [work EXCEPT !["watcher"] = x] /\ UNCHANGED Rest
    <3>1. x = [Free EXCEPT !.at = "set", !.follows.due = NextProbe, !.fresh = me.fresh]
      BY DEF Free, NoProbe
    <3>2. work' = [work EXCEPT !["watcher"] = [Free EXCEPT !.at = "set", !.follows.due = NextProbe,
                                                           !.fresh = me.fresh]]
      BY <1>5 DEF ReadNext
    <3>3. UNCHANGED Rest
      BY <1>5 DEF ReadNext, Rest
    <3>. HIDE DEF x, me
    <3>. QED BY <3>1, <3>2, <3>3
  <2>. HIDE DEF x, me
  <2>. QED BY <1>0, <2>3, <2>4, OnlyWorkTyped
<1>6. CASE SetNext
  <2>1. me.follows.due \in Time
    BY <1>0 DEF Work, Probe
  <2>2. Later(clock, BatchDelay) \in Time
    BY <1>0, LaterType, ConstantTypes
  <2>3. wakeup' \in Time /\ unhinted' \in BOOLEAN
    BY <1>0, <1>6, <2>1, <2>2 DEF SetNext, KeptWakeup, Latest
  <2>. HIDE DEF me
  <2>4. Move("watcher", "free") /\ version' = version
    BY <1>6 DEF SetNext, Finish
  <2>5. /\ work' \in [Worker -> Work] /\ Admitted'
        /\ \A v \in Worker : work'[v].version <= version'
    BY <1>0, <2>4, WorkerMoves
  <2>. QED BY <1>6, <2>3, <2>5 DEF SetNext, RowTyped, AlarmsTypeOK, VersionsPast, LossWithin
<1>7. CASE SetRetry
  <2>1. wakeup' \in Time /\ unhinted' \in BOOLEAN
    BY <1>0, <1>7, LaterType, ConstantTypes DEF SetRetry
  <2>. HIDE DEF me
  <2>2. Move("watcher", "free") /\ version' = version
    BY <1>7 DEF SetRetry, Finish
  <2>3. /\ work' \in [Worker -> Work] /\ Admitted'
        /\ \A v \in Worker : work'[v].version <= version'
    BY <1>0, <2>2, WorkerMoves
  <2>. QED BY <1>7, <2>1, <2>3 DEF SetRetry, RowTyped, AlarmsTypeOK, VersionsPast, LossWithin
<1>. QED BY <1>1, <1>2, <1>3, <1>4, <1>5, <1>6, <1>7

LEMMA FaultTyped ==
  ASSUME RowTyped, FollowUpMisses \/ WatcherCrash \/ \E w \in Worker : Throw(w)
  PROVE  RowTyped'
<1>0. /\ "watcher" \in Worker /\ version \in 1 .. MaxVersions /\ clock \in Time /\ wakeup \in Time
      /\ breaks \in 0 .. MaxBreaks /\ version <= version
      /\ unhinted \in BOOLEAN /\ overlooked \in BOOLEAN
  BY ConstantTypes DEF Worker, RowTyped, AlarmsTypeOK, Time, Never
<1>1. Break => breaks' \in 0 .. MaxBreaks
  BY <1>0, ConstantTypes DEF Break
<1>2. CASE FollowUpMisses
  BY <1>1, <1>2, DeferTyped DEF FollowUpMisses
<1>3. CASE WatcherCrash
  <2>1. wakeup' \in Time /\ breaks' \in 0 .. MaxBreaks /\ Move("watcher", "free") /\ version' = version
    BY <1>0, <1>1, <1>3 DEF WatcherCrash, Finish
  <2>2. /\ work' \in [Worker -> Work] /\ Admitted'
        /\ \A v \in Worker : work'[v].version <= version'
    BY <1>0, <2>1, WorkerMoves
  <2>. QED BY <1>3, <2>1, <2>2 DEF WatcherCrash, RowTyped, AlarmsTypeOK, VersionsPast, LossWithin
<1>4. ASSUME NEW w \in Worker, Throw(w) PROVE RowTyped'
  <2>1. /\ Move(w, "retry") \/ Move(w, "free") \/ Move(w, "hint")
        /\ version' = version /\ breaks' \in 0 .. MaxBreaks
    BY <1>1, <1>4 DEF Throw, Finish
  <2>2. unhinted' \in BOOLEAN /\ overlooked' \in BOOLEAN
    BY <1>0, <1>4 DEF Throw
  <2>3. /\ work' \in [Worker -> Work] /\ Admitted'
        /\ \A v \in Worker : work'[v].version <= version'
    BY <1>0, <2>1, WorkerMoves
  <2>. QED BY <1>4, <2>1, <2>2, <2>3 DEF Throw, RowTyped, AlarmsTypeOK, VersionsPast, LossWithin
<1>. QED BY <1>2, <1>3, <1>4

LEMMA VersionTyped ==
  ASSUME RowTyped, ReplaceVersion \/ Tick
  PROVE  RowTyped'
<1>0. version \in 1 .. MaxVersions /\ clock \in 1 .. MaxTime /\ work \in [Worker -> Work]
      /\ state \in AlarmRow \cup {NoRow}
  BY DEF RowTyped, AlarmsTypeOK
<1>1. CASE ReplaceVersion
  <2>1. /\ version' = version + 1 /\ version' \in 1 .. MaxVersions
        /\ UNCHANGED <<clock, counted, state, wakeup, work, flips, breaks, episodes, unhinted, overlooked>>
    BY <1>0, <1>1, ConstantTypes DEF ReplaceVersion
  <2>2. Unseen \in TileStatus
    BY ConstantTypes DEF Unseen, TileStatus, Never, Time
  <2>3. status' \in [Tile -> TileStatus] /\ mirrored' \in [Tile -> TileStatus]
    BY <1>1, <2>2 DEF ReplaceVersion
  <2>4. VersionsPast'
    <3>1. state.version <= version + 1
      <4>1. state.version \in Nat
        BY <1>0 DEF AlarmRow, NoRow
      <4>. QED BY <1>0, <4>1 DEF RowTyped, VersionsPast
    <3>2. ASSUME NEW w \in Worker PROVE work[w].version <= version + 1
      <4>1. work[w].version \in Nat /\ work[w].version <= version
        BY <1>0 DEF RowTyped, VersionsPast, Work
      <4>. QED BY <1>0, <4>1
    <3>. QED BY <2>1, <3>1, <3>2 DEF VersionsPast
  <2>5. Admitted' /\ LossWithin'
    BY <2>1 DEF RowTyped, Admitted, LossWithin, AtStep
  <2>. QED BY <2>1, <2>3, <2>4, <2>5 DEF RowTyped, AlarmsTypeOK
<1>2. CASE Tick
  <2>1. clock' \in 1 .. MaxTime
    BY <1>0, <1>2, ConstantTypes DEF Tick
  <2>. QED BY <1>2, <2>1 DEF Tick, RowTyped, AlarmsTypeOK, VersionsPast, Admitted, LossWithin, AtStep
<1>. QED BY <1>1, <1>2

LEMMA RowTypedInit == AlarmsInit => RowTyped
<1>. SUFFICES ASSUME AlarmsInit PROVE RowTyped
  OBVIOUS
<1>1. /\ Free \in Work /\ Free.version = 1 /\ Free.at = "free"
  BY FreeType DEF Free
<1>2. work = [w \in Worker |-> Free] /\ version \in 1 .. MaxVersions /\ clock \in 1 .. MaxTime
  BY DEF AlarmsInit
<1>3. Admitted /\ \A w \in Worker : work[w].version <= version
  BY <1>1, <1>2, ConstantTypes DEF Admitted, AtStep
<1>4. /\ wakeup \in Time /\ flips \in 0 .. MaxFlips /\ breaks \in 0 .. MaxBreaks /\ episodes \in Nat
      /\ unhinted \in BOOLEAN /\ overlooked \in BOOLEAN
  <2>1. wakeup = 0 /\ episodes = 0
    BY DEF AlarmsInit, Never
  <2>2. unhinted \in BOOLEAN /\ overlooked \in BOOLEAN
    BY DEF AlarmsInit
  <2>3. flips \in 0 .. MaxFlips /\ breaks \in 0 .. MaxBreaks
    BY DEF AlarmsInit
  <2>4. wakeup \in Time /\ episodes \in Nat
    BY <2>1, ConstantTypes DEF Time, Never
  <2>. QED BY <2>2, <2>3, <2>4
<1>5. /\ status \in [Tile -> TileStatus] /\ mirrored \in [Tile -> TileStatus] /\ counted \in Nat
      /\ state \in AlarmRow \cup {NoRow} /\ state.version <= version
      /\ state # NoRow => state.lost <= state.peak
  <2>1. CASE status = [t \in Tile |-> Unseen] /\ counted = 0 /\ state = NoRow
    <3>1. Unseen \in TileStatus
      BY ConstantTypes DEF Unseen, TileStatus, Never, Time
    <3>. QED BY <1>2, <2>1, <3>1, ConstantTypes DEF AlarmsInit, NoRow
  <2>2. CASE /\ status = [t \in Tile |-> [correct |-> 1, at |-> 1, server |-> TRUE]]
             /\ counted = Cardinality(Tile)
             /\ state = [version |-> version, peak |-> counted, lost |-> 0, episode |-> 0,
                         sustained |-> FALSE, probe |-> NoProbe, evaluated |-> 1, seen |-> counted]
    <3>1. [correct |-> 1, at |-> 1, server |-> TRUE] \in TileStatus /\ 1 \in Time
      BY ConstantTypes DEF TileStatus, Never, Time
    <3>2. NoProbe \in Probe /\ counted \in Pixels /\ 0 \in Pixels /\ counted \in Nat
      BY <2>2, ConstantTypes DEF NoProbe, Probe, Time, Never, Pixels
    <3>3. state \in AlarmRow
      BY <1>2, <2>2, <3>1, <3>2 DEF AlarmRow
    <3>4. status \in [Tile -> TileStatus] /\ mirrored \in [Tile -> TileStatus]
      BY <2>2, <3>1 DEF AlarmsInit
    <3>. QED BY <1>2, <2>2, <3>2, <3>3, <3>4, ConstantTypes DEF Pixels
  <2>. QED BY <2>1, <2>2 DEF AlarmsInit
<1>. QED BY <1>1, <1>2, <1>3, <1>4, <1>5 DEF RowTyped, AlarmsTypeOK, VersionsPast, LossWithin

LEMMA RowTypedNext == RowTyped /\ [AlarmsNext]_alarmVars => RowTyped'
<1>. SUFFICES ASSUME RowTyped, [AlarmsNext]_alarmVars PROVE RowTyped'
  OBVIOUS
<1>1. CASE UNCHANGED alarmVars
  BY <1>1 DEF alarmVars, RowTyped, AlarmsTypeOK, VersionsPast, Admitted, LossWithin, AtStep
<1>2. ASSUME NEW c \in Client, Observe(c) \/ Dismiss(c) \/ EvaluateStep(c) \/ HintStep(c)
      PROVE  RowTyped'
  <2>1. c \in Worker /\ c # "watcher"
    BY TemplateAlarmsAssumption DEF Worker
  <2>. QED BY <1>2, <2>1, ObserveTyped, DismissTyped, EvaluateTyped, ScheduleTyped
<1>3. CASE ScanStep
  <2>1. "scan" \in Worker /\ "scan" # "watcher"
    BY DEF Worker
  <2>. QED BY <1>3, <2>1, ScanTyped, FetchTyped, EvaluateTyped, ScheduleTyped DEF ScanStep
<1>4. CASE WatcherStep
  <2>1. "watcher" \in Worker
    BY DEF Worker
  <2>. QED BY <1>4, <2>1, WatcherTyped, FetchTyped, EvaluateTyped DEF WatcherStep
<1>5. CASE AlarmFault
  BY <1>5, ScanTyped, FaultTyped DEF AlarmFault
<1>6. CASE ReplaceVersion \/ Tick
  BY <1>6, VersionTyped
<1>. QED BY <1>1, <1>2, <1>3, <1>4, <1>5, <1>6 DEF AlarmsNext

\* Every variable has its type, for any clients, tiles, delays and bounds.
THEOREM AlarmsTypeCorrect == AlarmsSpec => []AlarmsTypeOK
<1>1. RowTyped => AlarmsTypeOK
  BY DEF RowTyped
<1>. QED BY <1>1, RowTypedInit, RowTypedNext, PTL DEF AlarmsSpec

-----------------------------------------------------------------------------
(* Evaluations go forward.                                                 *)

LEMMA WriteForward ==
  ASSUME RowTyped, NEW w \in Worker, WriteState(w), state # NoRow
  PROVE  state' # NoRow /\ state'.seen >= state.seen /\ state'.evaluated >= state.evaluated
<1>0. /\ work[w] \in Work /\ state \in AlarmRow /\ episodes \in Nat
  BY DEF RowTyped, AlarmsTypeOK
<1>1. CASE SameRow(w)
  <2>1. state' = Decided(work[w], state) /\ state = work[w].was /\ AtStep(w, "write")
    BY <1>1 DEF WriteState, SameRow
  <2>2. ~Refused(work[w], state)
    BY <2>1 DEF RowTyped, Admitted
  <2>3. ~(work[w].now < state.evaluated) /\ ~(work[w].seen < state.seen)
    BY <2>2 DEF Refused, TooEarly, Overtaken
  <2>4. /\ state' \in AlarmRow /\ state'.evaluated = work[w].now /\ state'.seen = work[w].seen
    BY <1>0, <2>1, DecidedType
  <2>5. /\ work[w].now \in Nat /\ state.evaluated \in Nat /\ work[w].seen \in Nat /\ state.seen \in Nat
        /\ state'.version \in Nat \ {0}
    BY <1>0, <2>4, ConstantTypes DEF Work, AlarmRow, Time, Never
  <2>. QED BY <2>3, <2>4, <2>5 DEF NoRow
<1>2. CASE ~SameRow(w)
  <2>1. state' = state
    BY <1>2 DEF WriteState
  <2>. QED BY <1>0, <2>1, ConstantTypes DEF AlarmRow, Time, Never
<1>. QED BY <1>1, <1>2

LEMMA StateForward ==
  RowTyped /\ [AlarmsNext]_alarmVars =>
    (state # NoRow => state' # NoRow /\ state'.seen >= state.seen /\ state'.evaluated >= state.evaluated)
<1>. SUFFICES ASSUME RowTyped, [AlarmsNext]_alarmVars, state # NoRow
              PROVE  state' # NoRow /\ state'.seen >= state.seen /\ state'.evaluated >= state.evaluated
  OBVIOUS
<1>0. /\ state \in AlarmRow /\ state.seen >= state.seen /\ state.evaluated >= state.evaluated
  BY ConstantTypes DEF RowTyped, AlarmsTypeOK, AlarmRow, Time, Never
<1>1. CASE state' = state
  BY <1>0, <1>1
<1>2. ASSUME NEW w \in Worker, WriteState(w)
      PROVE  state' # NoRow /\ state'.seen >= state.seen /\ state'.evaluated >= state.evaluated
  BY <1>2, WriteForward
<1>3. ASSUME NEW c \in Client, Dismiss(c)
      PROVE  state' # NoRow /\ state'.seen >= state.seen /\ state'.evaluated >= state.evaluated
  <2>1. state'.evaluated >= state.evaluated
    BY <1>3, DismissTyped
  <2>2. state'.seen = state.seen /\ state'.version = state.version /\ state.version \in 1 .. MaxVersions
    BY <1>0, <1>3 DEF Dismiss, AlarmRow
  <2>. QED BY <1>0, <2>1, <2>2, ConstantTypes DEF NoRow
<1>4. CASE state' = Deferred
  BY <1>0, <1>4, DeferredType
<1>5. CASE state' = [state EXCEPT !.probe = NoProbe]
  <2>1. state'.seen = state.seen /\ state'.evaluated = state.evaluated
        /\ state'.version = state.version /\ state.version \in 1 .. MaxVersions
    BY <1>0, <1>5 DEF AlarmRow
  <2>. QED BY <1>0, <2>1, ConstantTypes DEF NoRow
<1>6. ASSUME NEW c \in Client, Observe(c) \/ Dismiss(c) \/ EvaluateStep(c) \/ HintStep(c)
      PROVE  state' = state \/ Dismiss(c) \/ \E w \in Worker : WriteState(w)
  BY <1>6 DEF Observe, EvaluateStep, ReadState, HintStep, ReadSchedule, SetSchedule, Worker
<1>7. ASSUME ScanStep
      PROVE  state' = state \/ \E w \in Worker : WriteState(w)
  BY <1>7 DEF ScanStep, ScanBegins, FetchTile, ScanCounts, EvaluateStep, ReadState, HintStep,
              ReadSchedule, SetSchedule, Worker
<1>8. ASSUME WatcherStep
      PROVE  \/ state' = state \/ state' = Deferred \/ state' = [state EXCEPT !.probe = NoProbe]
             \/ \E w \in Worker : WriteState(w)
  BY <1>8 DEF WatcherStep, Wake, ListProbes, BeginFollowUp, FetchTile, FollowUp, DeferProbe,
              EvaluateStep, ReadState, ReadNext, SetNext, SetRetry, Worker
<1>9. ASSUME AlarmFault
      PROVE  state' = state \/ state' = Deferred
  BY <1>9 DEF AlarmFault, ScanMisses, FollowUpMisses, DeferProbe, WatcherCrash, Throw
<1>10. ASSUME ReplaceVersion \/ Tick \/ UNCHANGED alarmVars
       PROVE  state' = state
  BY <1>10 DEF ReplaceVersion, Tick, alarmVars
<1>. QED
  BY <1>1, <1>2, <1>3, <1>4, <1>5, <1>6, <1>7, <1>8, <1>9, <1>10 DEF AlarmsNext

\* Whoever evaluates late, or over another's row, does not take the alarm back
\* to an older count, nor before a dismissal, however many evaluate at once.
THEOREM EvaluationsForward == AlarmsSpec => EvaluatesForward
<1>1. RowTyped /\ [AlarmsNext]_alarmVars =>
        [state # NoRow => /\ state' # NoRow /\ state'.seen >= state.seen
                          /\ state'.evaluated >= state.evaluated]_alarmVars
  BY StateForward
<1>. QED BY <1>1, RowTypedInit, RowTypedNext, PTL DEF AlarmsSpec, EvaluatesForward

-----------------------------------------------------------------------------
(* A stored probe is seen to.                                              *)

\* Who is about to set the alarm for what it will read, or has read; the
\* watcher is until it sets nothing.
Sees(w) ==
    IF w = "watcher" THEN ~AtStep(w, "free") /\ (AtStep(w, "set") => work[w].follows.due # Never)
    ELSE AtStep(w, "hint") \/ (AtStep(w, "set") /\ work[w].follows.due # Never)

\* A worker that sets nothing read a row without a probe, or one whose probe
\* was stored later by someone who still sees to it: so it takes the watcher
\* more than not being free.
SeenTo == NextProbe # Never => wakeup # Never \/ unhinted \/ \E w \in Worker : Sees(w)

AlarmsInvariant == RowTyped /\ SeenTo

LEMMA NoProbeAtFirst == AlarmsInit => NextProbe = Never
<1>. SUFFICES ASSUME AlarmsInit PROVE ~Open(state)
  BY DEF NextProbe
<1>1. CASE state = NoRow
  BY <1>1 DEF Open
<1>2. CASE state # NoRow
  BY <1>2 DEF AlarmsInit, Open
<1>. QED BY <1>1, <1>2

\* A step of w, after which w still sees to the probe or never did.
LEMMA StillSeen ==
  ASSUME SeenTo, NEW w \in Worker, \A v \in Worker \ {w} : work'[v] = work[v],
         Sees(w) => Sees(w)', NextProbe' # Never => NextProbe # Never,
         wakeup # Never => wakeup' # Never, unhinted => unhinted' \/ wakeup' # Never
  PROVE  SeenTo'
<1>. SUFFICES ASSUME NextProbe' # Never, wakeup' = Never, ~unhinted'
              PROVE  \E v \in Worker : Sees(v)'
  BY DEF SeenTo
<1>1. PICK v \in Worker : Sees(v)
  BY DEF SeenTo
<1>2. CASE v = w
  BY <1>1, <1>2
<1>3. CASE v # w
  <2>1. work'[v] = work[v]
    BY <1>3
  <2>2. Sees(v)'
    BY <1>1, <2>1 DEF Sees, AtStep
  <2>. QED BY <2>2
<1>. QED BY <1>2, <1>3

\* w moves to a step of its own: where it stands then, and that the rest of
\* the workers stand where they were.
LEMMA MoveKeeps ==
  ASSUME work \in [Worker -> Work], NEW w \in Worker, NEW x, work' = [work EXCEPT ![w] = x]
  PROVE  work'[w] = x /\ \A v \in Worker \ {w} : work'[v] = work[v]
  OBVIOUS

LEMMA MoveAt ==
  ASSUME work \in [Worker -> Work], NEW w \in Worker, NEW step, Move(w, step)
  PROVE  work'[w].at = step /\ \A v \in Worker \ {w} : work'[v] = work[v]
  BY DEF Move, Free

\* After its evaluation, a worker sees to the probe.
LEMMA EvaluateSees ==
  ASSUME AlarmsInvariant, NEW w \in Worker, EvaluateStep(w)
  PROVE  SeenTo'
<1>0. work \in [Worker -> Work]
  BY DEF AlarmsInvariant, RowTyped, AlarmsTypeOK
<1>1. CASE Move(w, After(w))
  <2>1. work'[w].at = After(w)
    BY <1>0, <1>1, MoveAt
  <2>2. Sees(w)'
    BY <2>1 DEF Sees, AtStep, After
  <2>. QED BY <2>2 DEF SeenTo
<1>2. CASE ~Move(w, After(w))
  <2>1. /\ UNCHANGED <<state, version, wakeup, unhinted>>
        /\ \E x : work' = [work EXCEPT ![w] = x] /\ x.at \in {"write", "evaluate"}
        /\ work[w].at \in {"write", "evaluate"}
    <3>1. CASE ReadState(w)
      <4>1. work' = [work EXCEPT ![w].at = "write", ![w].was = state]
        BY <1>2, <3>1 DEF ReadState
      <4>. DEFINE x == [work[w] EXCEPT !.at = "write", !.was = state]
      <4>2. work' = [work EXCEPT ![w] = x] /\ x.at = "write"
        BY <1>0, <4>1 DEF Work
      <4>. HIDE DEF x
      <4>. QED BY <3>1, <4>2 DEF ReadState, AtStep
    <3>2. CASE WriteState(w)
      <4>1. work' = [work EXCEPT ![w].at = "evaluate", ![w].was = NoRow] /\ UNCHANGED state
        BY <1>2, <3>2 DEF WriteState
      <4>. DEFINE x == [work[w] EXCEPT !.at = "evaluate", !.was = NoRow]
      <4>2. work' = [work EXCEPT ![w] = x] /\ x.at = "evaluate"
        BY <1>0, <4>1 DEF Work
      <4>. HIDE DEF x
      <4>. QED BY <3>2, <4>1, <4>2 DEF WriteState, AtStep
    <3>. QED BY <3>1, <3>2 DEF EvaluateStep
  <2>2. PICK x : work' = [work EXCEPT ![w] = x] /\ x.at \in {"write", "evaluate"}
    BY <2>1
  <2>3. work'[w] = x /\ \A v \in Worker \ {w} : work'[v] = work[v]
    BY <1>0, <2>2, MoveKeeps
  <2>4. Sees(w) => Sees(w)'
    BY <2>1, <2>2, <2>3 DEF Sees, AtStep
  <2>5. NextProbe' = NextProbe
    BY <2>1 DEF NextProbe
  <2>. QED BY <2>1, <2>3, <2>4, <2>5, StillSeen DEF AlarmsInvariant
<1>. QED BY <1>1, <1>2

\* A hint sets what it read, and read what there was.
LEMMA HintSees ==
  ASSUME AlarmsInvariant, NEW w \in Worker, w # "watcher", HintStep(w)
  PROVE  SeenTo'
<1>0. work \in [Worker -> Work]
  BY DEF AlarmsInvariant, RowTyped, AlarmsTypeOK
<1>1. CASE ReadSchedule(w)
  <2>. DEFINE x == [Free EXCEPT !.at = "set", !.follows.due = NextProbe]
  <2>1. x.at = "set" /\ x.follows.due = NextProbe
    BY DEF Free, NoProbe
  <2>2. work' = [work EXCEPT ![w] = x] /\ NextProbe' = NextProbe
    BY <1>1 DEF ReadSchedule, NextProbe
  <2>. HIDE DEF x
  <2>3. work'[w] = x
    BY <1>0, <2>2
  <2>4. NextProbe' # Never => Sees(w)'
    BY <2>1, <2>2, <2>3 DEF Sees, AtStep
  <2>. QED BY <2>4 DEF SeenTo
<1>2. CASE SetSchedule(w)
  <2>1. CASE work[w].follows.due # Never
    BY <1>2, <2>1 DEF SetSchedule, SeenTo
  <2>2. CASE work[w].follows.due = Never
    <3>1. \A v \in Worker \ {w} : work'[v] = work[v]
      BY <1>0, <1>2, MoveAt DEF SetSchedule, Finish
    <3>2. ~Sees(w)
      BY <1>2, <2>2 DEF SetSchedule, Sees, AtStep
    <3>3. NextProbe' = NextProbe /\ wakeup' = wakeup
      BY <1>2, <2>2 DEF SetSchedule, NextProbe, KeptWakeup
    <3>4. unhinted => unhinted' \/ wakeup' # Never
      BY <1>2 DEF SetSchedule
    <3>. QED BY <3>1, <3>2, <3>3, <3>4, StillSeen DEF AlarmsInvariant
  <2>. QED BY <2>1, <2>2
<1>. QED BY <1>1, <1>2 DEF HintStep

\* The watcher sees to the probe until it sets the alarm.
LEMMA WatcherSees ==
  ASSUME AlarmsInvariant,
         Wake \/ ListProbes \/ BeginFollowUp \/ FollowUp \/ FollowUpMisses \/ ReadNext \/ SetNext
           \/ SetRetry \/ WatcherCrash
  PROVE  SeenTo'
<1>. DEFINE me == work["watcher"]
<1>0. /\ work \in [Worker -> Work] /\ "watcher" \in Worker /\ clock \in 1 .. MaxTime
      /\ me.follows.due \in Time
  BY DEF AlarmsInvariant, RowTyped, AlarmsTypeOK, Worker, Work, Probe
<1>1. ASSUME work'["watcher"].at \in {"list", "probe", "tiles", "evaluate", "next", "retry"}
      PROVE  SeenTo'
  <2>1. Sees("watcher")'
    BY <1>1 DEF Sees, AtStep
  <2>. QED BY <1>0, <2>1 DEF SeenTo
<1>2. ASSUME NEW step \in {"list", "probe", "tiles", "evaluate", "next", "retry"}, NEW x,
             work' = [work EXCEPT !["watcher"] = x], x.at = step
      PROVE  SeenTo'
  <2>1. work'["watcher"] = x
    BY <1>0, <1>2
  <2>. QED BY <1>1, <1>2, <2>1
<1>3. ASSUME NEW step \in {"list", "probe", "tiles", "evaluate", "next", "retry"},
             Move("watcher", step)
      PROVE  SeenTo'
  <2>1. work'["watcher"].at = step
    BY <1>0, <1>3, MoveAt
  <2>. QED BY <1>1, <2>1
<1>4. CASE Wake \/ ListProbes \/ BeginFollowUp \/ FollowUp \/ FollowUpMisses
  <2>1. CASE Wake
    <3>. DEFINE x == [Free EXCEPT !.at = "list", !.kind = "follow-up", !.now = clock]
    <3>1. x.at = "list" /\ work' = [work EXCEPT !["watcher"] = x]
      BY <2>1 DEF Wake, Free
    <3>. HIDE DEF x
    <3>. QED BY <1>2, <3>1
  <2>2. CASE Move("watcher", "next") \/ Move("watcher", "retry")
    BY <1>3, <2>2
  <2>3. CASE ListProbes /\ ~Move("watcher", "next")
    <3>. DEFINE x == [me EXCEPT !.at = "probe", !.version = version, !.follows = state.probe,
                                !.episode = state.episode]
    <3>1. x.at = "probe"
      BY <1>0 DEF Work
    <3>2. work' = [work EXCEPT !["watcher"] = x]
      BY <1>0, <2>3 DEF ListProbes
    <3>. HIDE DEF x, me
    <3>. QED BY <1>2, <3>1, <3>2
  <2>4. CASE BeginFollowUp /\ ~Move("watcher", "retry")
    <3>1. PICK stale : work' = [work EXCEPT !["watcher"].at = "tiles", !["watcher"].todo = stale,
                                            !["watcher"].fresh = stale = {}]
      BY <2>4 DEF BeginFollowUp
    <3>. DEFINE x == [me EXCEPT !.at = "tiles", !.todo = stale, !.fresh = stale = {}]
    <3>2. x.at = "tiles"
      BY <1>0 DEF Work
    <3>3. work' = [work EXCEPT !["watcher"] = x]
      BY <1>0, <3>1
    <3>. HIDE DEF x, me
    <3>. QED BY <1>2, <3>2, <3>3
  <2>5. CASE (FollowUp \/ FollowUpMisses) /\ ~Move("watcher", "retry")
    <3>1. CASE Evaluate("watcher")
      <4>. DEFINE x == [me EXCEPT !.at = "evaluate", !.correct = Correct(mirrored),
                                  !.seen = counted, !.fresh = TRUE]
      <4>1. x.at = "evaluate"
        BY <1>0 DEF Work
      <4>2. work' = [work EXCEPT !["watcher"] = x]
        BY <1>0, <3>1 DEF Evaluate
      <4>. HIDE DEF x, me
      <4>. QED BY <1>2, <4>1, <4>2
    <3>2. CASE ~Evaluate("watcher")
      <4>. DEFINE x == [Free EXCEPT !.at = "next", !.fresh = FALSE]
      <4>1. x.at = "next"
        BY DEF Free
      <4>2. work' = [work EXCEPT !["watcher"] = x]
        BY <2>5, <3>2 DEF FollowUp, FollowUpMisses, DeferProbe
      <4>. HIDE DEF x, me
      <4>. QED BY <1>2, <4>1, <4>2
    <3>. QED BY <3>1, <3>2
  <2>. QED BY <1>4, <2>1, <2>2, <2>3, <2>4, <2>5
<1>5. CASE ReadNext
  <2>. DEFINE x == [Free EXCEPT !.at = "set", !.follows.due = NextProbe, !.fresh = me.fresh]
  <2>1. x.at = "set" /\ x.follows.due = NextProbe
    BY DEF Free, NoProbe
  <2>2. work' = [work EXCEPT !["watcher"] = x] /\ NextProbe' = NextProbe
    BY <1>5 DEF ReadNext, NextProbe
  <2>. HIDE DEF x
  <2>3. work'["watcher"] = x
    BY <1>0, <2>2
  <2>4. NextProbe' # Never => Sees("watcher")'
    BY <2>1, <2>2, <2>3 DEF Sees, AtStep
  <2>. QED BY <1>0, <2>4 DEF SeenTo
<1>6. CASE SetNext
  <2>1. CASE me.follows.due # Never
    <3>1. Latest(me.follows.due, Later(clock, BatchDelay)) # Never
      <4>1. Later(clock, BatchDelay) \in Nat /\ me.follows.due \in Nat
        BY <1>0, ConstantTypes DEF Later, Time, Never
      <4>. QED BY <2>1, <4>1 DEF Latest, Never
    <3>2. wakeup' # Never
      BY <1>6, <2>1, <3>1 DEF SetNext
    <3>. QED BY <3>2 DEF SeenTo
  <2>2. CASE me.follows.due = Never
    <3>1. \A v \in Worker \ {"watcher"} : work'[v] = work[v]
      BY <1>0, <1>6, MoveAt DEF SetNext, Finish
    <3>2. ~Sees("watcher")
      BY <1>6, <2>2 DEF SetNext, Sees, AtStep
    <3>3. NextProbe' = NextProbe /\ wakeup' = wakeup
      BY <1>6, <2>2 DEF SetNext, NextProbe, KeptWakeup
    <3>4. unhinted => unhinted' \/ wakeup' # Never
      BY <1>6 DEF SetNext
    <3>. QED BY <1>0, <3>1, <3>2, <3>3, <3>4, StillSeen DEF AlarmsInvariant
  <2>. QED BY <2>1, <2>2
<1>7. CASE SetRetry \/ WatcherCrash
  <2>1. clock # Never /\ Later(clock, RetryDelay) # Never
    BY <1>0, ConstantTypes DEF Later, Never
  <2>2. wakeup' # Never
    BY <1>7, <2>1 DEF SetRetry, WatcherCrash
  <2>. QED BY <2>2 DEF SeenTo
<1>. QED BY <1>4, <1>5, <1>6, <1>7

\* Observations, the scan and failed calls, which leave the row as it is.
LEMMA OthersSee ==
  ASSUME AlarmsInvariant, NEW w \in Worker,
         \/ Throw(w)
         \/ FetchTile(w)
         \/ w \in Client /\ (Observe(w) \/ Dismiss(w))
         \/ w = "scan" /\ (ScanBegins \/ ScanMisses \/ ScanCounts)
  PROVE  SeenTo'
<1>0. work \in [Worker -> Work] /\ (w \in Client \/ w = "scan" => w # "watcher")
  BY TemplateAlarmsAssumption DEF AlarmsInvariant, RowTyped, AlarmsTypeOK
<1>1. CASE Dismiss(w) /\ w \in Client
  <2>1. work'[w].at = "hint"
    BY <1>0, <1>1, MoveAt DEF Dismiss
  <2>2. Sees(w)'
    BY <1>0, <1>1, <2>1 DEF Sees, AtStep
  <2>. QED BY <2>2 DEF SeenTo
<1>2. CASE Throw(w)
  <2>1. CASE w = "watcher"
    <3>1. work'[w].at = "retry"
      BY <1>0, <1>2, <2>1, MoveAt DEF Throw
    <3>2. Sees(w)'
      BY <2>1, <3>1 DEF Sees, AtStep
    <3>. QED BY <3>2 DEF SeenTo
  <2>2. CASE w # "watcher" /\ (AtStep(w, "hint") \/ AtStep(w, "set"))
    <3>1. unhinted'
      BY <1>2, <2>2 DEF Throw
    <3>. QED BY <3>1 DEF SeenTo
  <2>3. CASE w # "watcher" /\ ~(AtStep(w, "hint") \/ AtStep(w, "set"))
    <3>1. Move(w, "free") \/ Move(w, "hint")
      BY <1>2, <2>3 DEF Throw, Finish
    <3>2. \A v \in Worker \ {w} : work'[v] = work[v]
      BY <1>0, <3>1, MoveAt
    <3>3. ~Sees(w)
      BY <2>3 DEF Sees
    <3>4. NextProbe' = NextProbe /\ wakeup' = wakeup
      BY <1>2 DEF Throw, NextProbe
    <3>5. unhinted => unhinted'
      BY <1>2, <2>3 DEF Throw
    <3>. QED BY <3>2, <3>3, <3>4, <3>5, StillSeen DEF AlarmsInvariant
  <2>. QED BY <2>1, <2>2, <2>3
<1>3. CASE FetchTile(w)
  <2>1. PICK t : work' = [work EXCEPT ![w].todo = @ \ {t}]
    BY <1>3 DEF FetchTile
  <2>2. /\ work'[w].at = work[w].at /\ work'[w].follows = work[w].follows
        /\ \A v \in Worker \ {w} : work'[v] = work[v]
    BY <1>0, <2>1 DEF Work
  <2>3. Sees(w) => Sees(w)'
    BY <2>2 DEF Sees, AtStep
  <2>4. NextProbe' = NextProbe /\ wakeup' = wakeup /\ (unhinted => unhinted')
    BY <1>3 DEF FetchTile, NextProbe
  <2>. QED BY <2>2, <2>3, <2>4, StillSeen DEF AlarmsInvariant
<1>4. CASE \/ w \in Client /\ Observe(w)
           \/ w = "scan" /\ (ScanBegins \/ ScanMisses \/ ScanCounts)
  <2>1. /\ \A v \in Worker \ {w} : work'[v] = work[v]
        /\ work[w].at \notin {"hint", "set"}
    <3>1. CASE Observe(w)
      <4>1. \/ work' = work
            \/ \E x : work' = [work EXCEPT ![w] = x]
        BY <3>1 DEF Observe
      <4>. QED BY <1>0, <3>1, <4>1 DEF Observe, AtStep
    <3>2. CASE w = "scan" /\ ScanBegins
      BY <1>0, <3>2 DEF ScanBegins, AtStep
    <3>3. CASE w = "scan" /\ ScanMisses
      BY <1>0, <3>3 DEF ScanMisses, AtStep
    <3>4. CASE w = "scan" /\ ScanCounts
      BY <1>0, <3>4 DEF ScanCounts, Evaluate, Move, AtStep
    <3>. QED BY <1>4, <3>1, <3>2, <3>3, <3>4
  <2>2. ~Sees(w)
    BY <1>0, <1>4, <2>1 DEF Sees, AtStep
  <2>3. NextProbe' = NextProbe /\ wakeup' = wakeup
    BY <1>4 DEF Observe, ScanBegins, ScanMisses, ScanCounts, NextProbe
  <2>4. unhinted => unhinted'
    BY <1>4 DEF Observe, ScanBegins, ScanMisses, ScanCounts
  <2>. QED BY <2>1, <2>2, <2>3, <2>4, StillSeen DEF AlarmsInvariant
<1>. QED BY <1>1, <1>2, <1>3, <1>4

\* Another version of the template: its probe is nobody's any more.
LEMMA VersionSees ==
  ASSUME AlarmsInvariant, ReplaceVersion \/ Tick \/ UNCHANGED alarmVars
  PROVE  SeenTo'
<1>1. CASE ReplaceVersion
  <2>1. state' = state /\ version' = version + 1 /\ version \in Nat /\ state.version <= version
    BY <1>1, ConstantTypes DEF ReplaceVersion, AlarmsInvariant, RowTyped, AlarmsTypeOK, VersionsPast
  <2>2. Open(state) => state.version # version'
    <3>1. Open(state) => state.version \in Nat
      BY DEF AlarmsInvariant, RowTyped, AlarmsTypeOK, Open, AlarmRow
    <3>. QED BY <2>1, <3>1
  <2>. QED BY <2>1, <2>2 DEF SeenTo, NextProbe, Open
<1>2. CASE Tick \/ UNCHANGED alarmVars
  <2>1. UNCHANGED <<version, state, wakeup, work, unhinted>>
    BY <1>2 DEF Tick, alarmVars
  <2>. QED BY <2>1 DEF AlarmsInvariant, SeenTo, NextProbe, Sees, AtStep, Open
<1>. QED BY <1>1, <1>2

LEMMA SeenToNext == AlarmsInvariant /\ [AlarmsNext]_alarmVars => SeenTo'
<1>. SUFFICES ASSUME AlarmsInvariant, [AlarmsNext]_alarmVars PROVE SeenTo'
  OBVIOUS
<1>1. ASSUME NEW c \in Client, Observe(c) \/ Dismiss(c) \/ EvaluateStep(c) \/ HintStep(c)
      PROVE  SeenTo'
  <2>1. c \in Worker /\ c # "watcher"
    BY TemplateAlarmsAssumption DEF Worker
  <2>. QED BY <1>1, <2>1, OthersSee, EvaluateSees, HintSees
<1>2. CASE ScanStep \/ ScanMisses
  <2>1. "scan" \in Worker /\ "scan" # "watcher"
    BY DEF Worker
  <2>. QED BY <1>2, <2>1, OthersSee, EvaluateSees, HintSees DEF ScanStep
<1>3. CASE WatcherStep
  <2>1. "watcher" \in Worker
    BY DEF Worker
  <2>. QED BY <1>3, <2>1, WatcherSees, OthersSee, EvaluateSees DEF WatcherStep
<1>4. CASE AlarmFault
  BY <1>2, <1>4, WatcherSees, OthersSee DEF AlarmFault
<1>5. CASE ReplaceVersion \/ Tick \/ UNCHANGED alarmVars
  BY <1>5, VersionSees
<1>. QED BY <1>1, <1>2, <1>3, <1>4, <1>5 DEF AlarmsNext

\* A stored probe has a wakeup, or someone still sets one: with any number of
\* clients and scans that read the earliest probe and set the alarm in two
\* steps each, while the watcher's cycle consumes it and sets the next.
THEOREM ProbesAreSeenTo == AlarmsSpec => []ProbeHasWakeup
<1>1. AlarmsInit => AlarmsInvariant
  BY RowTypedInit, NoProbeAtFirst DEF AlarmsInvariant, SeenTo
<1>2. AlarmsInvariant /\ [AlarmsNext]_alarmVars => AlarmsInvariant'
  BY RowTypedNext, SeenToNext DEF AlarmsInvariant
<1>3. AlarmsInvariant => ProbeHasWakeup
  BY DEF AlarmsInvariant, SeenTo, Sees, ProbeHasWakeup
<1>. QED BY <1>1, <1>2, <1>3, PTL DEF AlarmsSpec

-----------------------------------------------------------------------------
(* The alarm shows the loss.                                               *)

\* Who has counted and has not written yet.
Evaluating(w) == AtStep(w, "evaluate") \/ AtStep(w, "write")
\* A count of the template of now, under the revision it was made for.
Counts(w) == Evaluating(w) /\ work[w].version = version
Shown == state # NoRow /\ state.version = version
\* Some client has the true count under a newer revision.
Surpassed(seen) ==
    \E c \in Client : Counts(c) /\ work[c].correct = Correct(status) /\ work[c].seen > seen

\* Clients evaluate observations, and no revision lies ahead.
RevisionsPast ==
    /\ \A c \in Client : work[c].kind = "observation"
    /\ state # NoRow => state.seen <= counted
    /\ \A w \in Worker : work[w].seen <= counted

\* What was counted under the newest revision is true.
NewestTrue ==
    /\ \A w \in Worker : Counts(w) /\ work[w].seen = counted => work[w].correct = Correct(status)
    /\ Shown /\ state.seen = counted => state.peak - state.lost = Correct(status)

\* Who is wrong will be told: by a client with the true count, or, before it
\* writes, by the row.
WrongOvertaken ==
    /\ \A w \in Worker : Counts(w) /\ work[w].correct # Correct(status) =>
         \/ Surpassed(work[w].seen)
         \/ state # NoRow /\ state.seen > work[w].seen
    /\ Shown /\ state.peak - state.lost # Correct(status) => Surpassed(state.seen)

LossInvariant == RevisionsPast /\ NewestTrue /\ (~overlooked => WrongOvertaken)

LEMMA LossTypes ==
  ASSUME RowTyped
  PROVE  /\ work \in [Worker -> Work] /\ Client \subseteq Worker
         /\ {"scan", "watcher"} \subseteq Worker \ Client
         /\ \A w \in Worker : work[w].seen \in Nat /\ work[w].correct \in Nat /\ work[w].version \in Nat
         /\ counted \in Nat /\ version \in Nat /\ Correct(status) \in Nat /\ overlooked \in BOOLEAN
         /\ state \in AlarmRow \cup {NoRow}
         /\ state # NoRow => /\ state.seen \in Nat /\ state.version \in Nat /\ state.peak \in Nat
                             /\ state.lost \in Nat
<1>1. /\ work \in [Worker -> Work] /\ counted \in Nat /\ version \in 1 .. MaxVersions
      /\ state \in AlarmRow \cup {NoRow} /\ overlooked \in BOOLEAN
  BY DEF RowTyped, AlarmsTypeOK
<1>2. Correct(status) \in Pixels /\ Pixels \subseteq Nat
  BY CorrectType, ConstantTypes DEF Pixels
<1>3. \A w \in Worker : work[w].seen \in Nat /\ work[w].correct \in Nat /\ work[w].version \in Nat
  <2>1. \A x \in Work : x.seen \in Nat /\ x.correct \in Pixels /\ x.version \in 1 .. MaxVersions
    BY DEF Work
  <2>2. 1 .. MaxVersions \subseteq Nat
    BY ConstantTypes
  <2>. QED BY <1>1, <1>2, <2>1, <2>2
<1>4. state # NoRow => /\ state.seen \in Nat /\ state.version \in Nat /\ state.peak \in Nat
                       /\ state.lost \in Nat
  <2>1. \A x \in AlarmRow : /\ x.seen \in Nat /\ x.version \in 1 .. MaxVersions
                            /\ x.peak \in Pixels /\ x.lost \in Pixels
    BY DEF AlarmRow
  <2>2. 1 .. MaxVersions \subseteq Nat
    BY ConstantTypes
  <2>. QED BY <1>1, <1>2, <2>1, <2>2
<1>5. Client \subseteq Worker /\ {"scan", "watcher"} \subseteq Worker \ Client
  BY TemplateAlarmsAssumption DEF Worker
<1>6. version \in Nat /\ Correct(status) \in Nat
  <2>1. 1 .. MaxVersions \subseteq Nat
    BY ConstantTypes
  <2>. QED BY <1>1, <1>2, <2>1
<1>. QED BY <1>1, <1>3, <1>4, <1>5, <1>6

\* What a row shows, and the revision it shows it for.
SameLoss ==
    \/ state' = state
    \/ /\ state # NoRow /\ state' # NoRow /\ state'.version = state.version
       /\ state'.seen = state.seen /\ state'.peak - state'.lost = state.peak - state.lost
SameCount(w) == Counts(w) /\ Counts(w)' /\ work'[w].correct = work[w].correct
                          /\ work'[w].seen = work[w].seen

\* Surpassed, after a step.
Passed(seen) ==
    \E c \in Client : Counts(c)' /\ work'[c].correct = Correct(status') /\ work'[c].seen > seen

LEMMA WrongPassed ==
  ASSUME \A v \in Worker : Counts(v)' /\ work'[v].correct # Correct(status') =>
             Passed(work'[v].seen) \/ (state' # NoRow /\ state'.seen > work'[v].seen),
         Shown' /\ state'.peak - state'.lost # Correct(status') => Passed(state'.seen)
  PROVE  WrongOvertaken'
<1>1. \A seen : Passed(seen) =>
        \E c \in Client : Counts(c)' /\ work'[c].correct = (Correct(status))' /\ work'[c].seen > seen
  BY DEF Passed, Correct
<1>. QED BY <1>1 DEF WrongOvertaken, Surpassed, Correct

\* A step of w that neither changes the count nor writes it to the row.
LEMMA LossFrame ==
  ASSUME RowTyped, RowTyped', LossInvariant,
         version' = version, Correct(status') = Correct(status), counted' >= counted, SameLoss,
         NEW w \in Worker, \A v \in Worker \ {w} : work'[v] = work[v],
         w \in Client => work'[w].kind = "observation", work'[w].seen <= counted',
         Counts(w)' => SameCount(w) \/ work'[w].correct = Correct(status),
         overlooked => overlooked',
         overlooked' \/ w \notin Client \/ ~Counts(w) \/ SameCount(w)
  PROVE  LossInvariant'
<1>0. /\ \A v \in Worker : work[v].seen \in Nat /\ work'[v].seen \in Nat
      /\ counted \in Nat /\ counted' \in Nat /\ Client \subseteq Worker
      /\ state # NoRow => state.seen \in Nat
  <2>1. \A v \in Worker : work[v].seen \in Nat
    BY LossTypes
  <2>2. \A v \in Worker : work'[v].seen \in Nat
    <3>1. \A x \in Work : x.seen \in Nat
      BY DEF Work
    <3>. QED BY <3>1 DEF RowTyped, AlarmsTypeOK
  <2>3. counted' \in Nat
    BY DEF RowTyped, AlarmsTypeOK
  <2>. QED BY <2>1, <2>2, <2>3, LossTypes
<1>0a. (Correct(status))' = Correct(status)
  BY DEF Correct
<1>1. \A v \in Worker \ {w} : (Counts(v) <=> Counts(v)') /\ work'[v] = work[v]
  BY DEF Counts, Evaluating, AtStep
<1>2. /\ (state # NoRow) <=> (state' # NoRow)
      /\ state # NoRow => state'.seen = state.seen
      /\ Shown' <=> Shown
      /\ Shown => state'.peak - state'.lost = state.peak - state.lost
  BY DEF SameLoss, Shown
<1>3. RevisionsPast'
  <2>1. \A c \in Client : work'[c].kind = "observation"
    BY <1>0, <1>1 DEF LossInvariant, RevisionsPast
  <2>2. \A v \in Worker : work'[v].seen <= counted'
    <3>. SUFFICES ASSUME NEW v \in Worker, v # w PROVE work'[v].seen <= counted'
      OBVIOUS
    <3>1. work'[v].seen = work[v].seen /\ work[v].seen <= counted
      BY <1>1 DEF LossInvariant, RevisionsPast
    <3>. QED BY <1>0, <3>1
  <2>3. state' # NoRow => state'.seen <= counted'
    BY <1>0, <1>2 DEF LossInvariant, RevisionsPast
  <2>. QED BY <2>1, <2>2, <2>3 DEF RevisionsPast
<1>4. \A v \in Worker : Counts(v)' => \/ Counts(v) /\ work'[v].correct = work[v].correct
                                                   /\ work'[v].seen = work[v].seen
                                      \/ work'[v].correct = Correct(status)
  BY <1>1 DEF SameCount
<1>5. NewestTrue'
  <2>1. ASSUME NEW v \in Worker, Counts(v)', work'[v].seen = counted'
        PROVE  work'[v].correct = Correct(status)
    <3>1. Counts(v) /\ work'[v].seen = work[v].seen => work[v].seen = counted
      BY <1>0, <2>1 DEF LossInvariant, RevisionsPast
    <3>. QED BY <1>4, <2>1, <3>1 DEF LossInvariant, NewestTrue
  <2>2. ASSUME Shown', state'.seen = counted'
        PROVE  state'.peak - state'.lost = Correct(status)
    <3>1. state # NoRow /\ state.seen = counted
      BY <1>0, <1>2, <2>2 DEF Shown, LossInvariant, RevisionsPast
    <3>. QED BY <1>2, <2>2, <3>1 DEF LossInvariant, NewestTrue
  <2>. QED BY <1>0a, <2>1, <2>2 DEF NewestTrue
<1>6. ASSUME NEW seen, ~overlooked', Surpassed(seen)
      PROVE  Passed(seen)
  <2>1. PICK c \in Client : Counts(c) /\ work[c].correct = Correct(status) /\ work[c].seen > seen
    BY <1>6 DEF Surpassed
  <2>2. Counts(c)' /\ work'[c].correct = work[c].correct /\ work'[c].seen = work[c].seen
    BY <1>0, <1>1, <1>6, <2>1 DEF SameCount
  <2>. QED BY <2>1, <2>2 DEF Passed
<1>7. ASSUME ~overlooked' PROVE WrongOvertaken'
  <2>0. WrongOvertaken
    BY <1>7 DEF LossInvariant
  <2>1. ASSUME NEW v \in Worker, Counts(v)', work'[v].correct # Correct(status)
        PROVE  Passed(work'[v].seen) \/ (state' # NoRow /\ state'.seen > work'[v].seen)
    <3>1. Counts(v) /\ work[v].correct # Correct(status) /\ work'[v].seen = work[v].seen
      BY <1>4, <2>1
    <3>2. Surpassed(work[v].seen) \/ (state # NoRow /\ state.seen > work[v].seen)
      BY <2>0, <3>1 DEF WrongOvertaken
    <3>. QED BY <1>2, <1>6, <1>7, <3>1, <3>2
  <2>2. ASSUME Shown', state'.peak - state'.lost # Correct(status)
        PROVE  Passed(state'.seen)
    <3>1. Surpassed(state.seen)
      BY <1>2, <2>0, <2>2 DEF WrongOvertaken
    <3>. QED BY <1>2, <1>6, <1>7, <2>2, <3>1 DEF Shown
  <2>. QED BY <2>1, <2>2, WrongPassed
<1>. QED BY <1>3, <1>5, <1>7 DEF LossInvariant

\* A step that changes neither template nor row, by which w goes on to what is
\* no count.
LEMMA LossMove ==
  ASSUME RowTyped, RowTyped', LossInvariant, NEW w \in Worker, NEW x,
         work' = [work EXCEPT ![w] = x], x.at \notin {"evaluate", "write"},
         x.kind = "observation" \/ w \notin Client, x.seen <= counted,
         UNCHANGED <<version, counted>>, Correct(status') = Correct(status), SameLoss,
         overlooked => overlooked', overlooked' \/ w \notin Client \/ ~Evaluating(w)
  PROVE  LossInvariant'
<1>1. work'[w] = x /\ \A v \in Worker \ {w} : work'[v] = work[v]
  BY LossTypes
<1>2. ~Counts(w)'
  BY <1>1 DEF Counts, Evaluating, AtStep
<1>3. ~Evaluating(w) => ~Counts(w)
  BY DEF Counts
<1>4. counted' >= counted /\ work'[w].seen <= counted'
  BY <1>1, LossTypes
<1>. QED BY <1>1, <1>2, <1>3, <1>4, LossFrame

\* In particular one that needs nothing of what it was at.
LEMMA LossGone ==
  ASSUME RowTyped, RowTyped', LossInvariant, NEW w \in Worker, NEW step, Move(w, step),
         step \notin {"evaluate", "write"}, UNCHANGED <<version, status, counted>>, SameLoss,
         overlooked => overlooked', overlooked' \/ w \notin Client \/ ~Evaluating(w)
  PROVE  LossInvariant'
<1>. DEFINE x == [Free EXCEPT !.at = step]
<1>1. x.at = step /\ x.kind = "observation" /\ x.seen = 0
  BY DEF Free
<1>2. work' = [work EXCEPT ![w] = x]
  BY DEF Move
<1>3. x.seen <= counted
  BY <1>1, LossTypes
<1>. HIDE DEF x
<1>. QED BY <1>1, <1>2, <1>3, LossMove

\* A commit that changes what is counted has a revision of its own.
LEMMA CommitRevises ==
  ASSUME RowTyped, NEW t \in Tile, NEW correct \in 0 .. 1, NEW at \in Time, NEW server \in BOOLEAN,
         CommitTile(t, correct, at, server)
  PROVE  /\ counted' \in Nat /\ counted' >= counted
         /\ Correct(status') # Correct(status) =>
              counted' = counted + 1 /\ AlarmChange(t, correct)
<1>1. counted \in Nat /\ status \in [Tile -> TileStatus]
  BY DEF RowTyped, AlarmsTypeOK
<1>2. counted' = IF Changed(t, correct, at, server) THEN counted + 1 ELSE counted
  BY DEF CommitTile
<1>3. ASSUME ~Changed(t, correct, at, server) \/ status[t].correct = correct
      PROVE  Correct(status') = Correct(status)
  <2>1. \A s \in Tile : status'[s].correct = status[s].correct
    BY <1>1, <1>3 DEF CommitTile, Changed
  <2>2. {s \in Tile : status'[s].correct = 1} = {s \in Tile : status[s].correct = 1}
    BY <2>1
  <2>. QED BY <2>2 DEF Correct
<1>. QED BY <1>1, <1>2, <1>3 DEF AlarmChange

Reports(c, t, correct, at) ==
    /\ CommitTile(t, correct, at, FALSE)
    /\ IF AlarmChange(t, correct)
       THEN \E newest \in {at} \cup {status[s].at : s \in Tile} :
               work' = [work EXCEPT ![c] =
                    [Free EXCEPT !.at = "evaluate", !.version = version, !.seen = counted',
                                 !.correct = Correct(status'), !.before = Correct(status),
                                 !.now = newest]]
       ELSE UNCHANGED work

LEMMA ObserveParts ==
  ASSUME NEW c \in Client, Observe(c)
  PROVE  /\ \E t \in Tile, correct \in 0 .. 1, at \in 1 .. Later(clock, Skew) :
              Reports(c, t, correct, at)
         /\ AtStep(c, "free") /\ UNCHANGED <<version, state, overlooked>>
  BY DEF Observe, Reports

\* A client that counted a change has the newest count.
LEMMA ObserveLoss ==
  ASSUME RowTyped, RowTyped', LossInvariant, NEW c \in Client, Observe(c)
  PROVE  LossInvariant'
<1>0. /\ work \in [Worker -> Work] /\ c \in Worker /\ ~Counts(c) /\ SameLoss
      /\ counted \in Nat /\ version' = version /\ overlooked' = overlooked /\ state' = state
  <2>1. AtStep(c, "free") /\ UNCHANGED <<version, state, overlooked>>
    BY ObserveParts
  <2>2. ~Counts(c) /\ SameLoss
    BY <2>1 DEF Counts, Evaluating, AtStep, SameLoss
  <2>. QED BY <2>1, <2>2, LossTypes
<1>1. PICK t \in Tile, correct \in 0 .. 1, at \in 1 .. Later(clock, Skew) : Reports(c, t, correct, at)
  BY ObserveParts
<1>2. at \in Time
  <2>1. clock \in Time
    BY DEF RowTyped, AlarmsTypeOK, Time, Never
  <2>. QED BY <2>1, LaterType, ConstantTypes DEF Time, Never
<1>3. /\ counted' \in Nat /\ counted' >= counted
      /\ Correct(status') # Correct(status) => counted' = counted + 1 /\ AlarmChange(t, correct)
  <2>1. FALSE \in BOOLEAN
    OBVIOUS
  <2>. QED BY <1>1, <1>2, <2>1, CommitRevises DEF Reports
<1>4. /\ \A v \in Worker \ {c} : work'[v] = work[v]
      /\ work'[c].kind = "observation" /\ work'[c].seen <= counted'
      /\ AlarmChange(t, correct) => /\ AtStep(c, "evaluate")' /\ work'[c].version = version
                                    /\ work'[c].correct = Correct(status')
                                    /\ work'[c].seen = counted'
      /\ ~AlarmChange(t, correct) => ~Counts(c)'
  <2>1. CASE AlarmChange(t, correct)
    <3>1. PICK newest \in {at} \cup {status[s].at : s \in Tile} :
            work' = [work EXCEPT ![c] =
                        [Free EXCEPT !.at = "evaluate", !.version = version, !.seen = counted',
                                     !.correct = Correct(status'), !.before = Correct(status),
                                     !.now = newest]]
      BY <1>1, <2>1 DEF Reports
    <3>. DEFINE x == [Free EXCEPT !.at = "evaluate", !.version = version, !.seen = counted',
                                  !.correct = Correct(status'), !.before = Correct(status),
                                  !.now = newest]
    <3>2. /\ x.at = "evaluate" /\ x.kind = "observation" /\ x.version = version
          /\ x.seen = counted' /\ x.correct = Correct(status')
      BY DEF Free
    <3>3. work'[c] = x /\ \A v \in Worker \ {c} : work'[v] = work[v]
      BY <1>0, <3>1
    <3>. HIDE DEF x
    <3>. QED BY <1>3, <2>1, <3>2, <3>3 DEF AtStep
  <2>2. CASE ~AlarmChange(t, correct)
    <3>1. work' = work /\ work[c].kind = "observation" /\ work[c].seen <= counted
      BY <1>0, <1>1, <2>2 DEF Reports, LossInvariant, RevisionsPast
    <3>2. work[c].seen \in Nat
      BY <1>0, LossTypes
    <3>. QED BY <1>0, <1>3, <2>2, <3>1, <3>2 DEF Counts, Evaluating, AtStep
  <2>. QED BY <2>1, <2>2
<1>5. CASE Correct(status') = Correct(status)
  <2>1. Counts(c)' => work'[c].correct = Correct(status)
    BY <1>4, <1>5
  <2>. QED BY <1>0, <1>3, <1>4, <1>5, <2>1, LossFrame
<1>6. CASE Correct(status') # Correct(status)
  <2>1. /\ counted' = counted + 1 /\ Counts(c)' /\ work'[c].correct = Correct(status')
        /\ work'[c].seen = counted'
    BY <1>0, <1>3, <1>4, <1>6 DEF Counts, Evaluating
  <2>2. \A v \in Worker \ {c} : work'[v].seen <= counted /\ work'[v].seen \in Nat
    BY <1>4, LossTypes DEF LossInvariant, RevisionsPast
  <2>3. state # NoRow => state.seen <= counted /\ state.seen \in Nat
    BY LossTypes DEF LossInvariant, RevisionsPast
  <2>4. RevisionsPast'
    <3>1. \A d \in Client : work'[d].kind = "observation"
      BY <1>4, LossTypes DEF LossInvariant, RevisionsPast
    <3>2. state' # NoRow => state'.seen <= counted'
      BY <1>0, <2>1, <2>3
    <3>3. \A v \in Worker : work'[v].seen <= counted'
      BY <1>0, <1>4, <2>1, <2>2
    <3>. QED BY <3>1, <3>2, <3>3 DEF RevisionsPast
  <2>5. NewestTrue'
    <3>1. \A v \in Worker \ {c} : work'[v].seen # counted'
      BY <1>0, <2>1, <2>2
    <3>2. Shown' => state'.seen # counted'
      BY <1>0, <2>1, <2>3 DEF Shown
    <3>3. (Correct(status))' = Correct(status')
      BY DEF Correct
    <3>. QED BY <2>1, <3>1, <3>2, <3>3 DEF NewestTrue
  <2>6. WrongOvertaken'
    <3>1. \A seen \in Nat : seen <= counted => Passed(seen)
      BY <1>0, <2>1 DEF Passed
    <3>2. \A v \in Worker : work'[v].correct # Correct(status') => Passed(work'[v].seen)
      BY <2>1, <2>2, <3>1
    <3>3. Shown' => Passed(state'.seen)
      BY <1>0, <2>3, <3>1 DEF Shown
    <3>. QED BY <3>2, <3>3, WrongPassed
  <2>. QED BY <2>4, <2>5, <2>6 DEF LossInvariant
<1>. QED BY <1>5, <1>6

\* A fetch that changes what is counted leaves it to the evaluation of its scan.
LEMMA FetchLoss ==
  ASSUME RowTyped, RowTyped', LossInvariant, NEW w \in Worker, FetchTile(w), w \notin Client
  PROVE  LossInvariant'
<1>0. /\ AtStep(w, "tiles") /\ version' = version /\ state' = state
      /\ overlooked' = (overlooked \/ Correct(status') # Correct(status))
  BY DEF FetchTile
<1>1. PICK t \in work[w].todo, correct \in 0 .. 1 :
        CommitTile(t, correct, work[w].now, TRUE) /\ work' = [work EXCEPT ![w].todo = @ \ {t}]
  BY DEF FetchTile
<1>2. t \in Tile /\ work[w].now \in Time /\ TRUE \in BOOLEAN
  BY DEF RowTyped, AlarmsTypeOK, Work
<1>3. /\ counted \in Nat /\ counted' \in Nat /\ counted' >= counted
  BY <1>1, <1>2, CommitRevises, LossTypes
<1>4. /\ \A v \in Worker \ {w} : work'[v] = work[v]
      /\ work'[w].at = "tiles" /\ work'[w].seen = work[w].seen
  BY <1>0, <1>1 DEF RowTyped, AlarmsTypeOK, Work, AtStep
<1>5. ~Counts(w) /\ ~Counts(w)'
  BY <1>0, <1>4 DEF Counts, Evaluating, AtStep
<1>6. work[w].seen <= counted /\ work[w].seen \in Nat
  BY LossTypes DEF LossInvariant, RevisionsPast
<1>7. CASE Correct(status') = Correct(status)
  <2>1. SameLoss /\ work'[w].seen <= counted'
    BY <1>0, <1>3, <1>4, <1>6 DEF SameLoss
  <2>. QED BY <1>0, <1>3, <1>4, <1>5, <1>7, <2>1, LossFrame
<1>8. CASE Correct(status') # Correct(status)
  <2>1. overlooked' /\ counted' = counted + 1
    BY <1>0, <1>1, <1>2, <1>8, CommitRevises
  <2>2. \A v \in Worker : work'[v].seen <= counted /\ work'[v].seen \in Nat
    BY <1>4, LossTypes DEF LossInvariant, RevisionsPast
  <2>3. state' # NoRow => state'.seen <= counted /\ state'.seen \in Nat
    BY <1>0, LossTypes DEF LossInvariant, RevisionsPast
  <2>4. RevisionsPast'
    <3>1. \A c \in Client : work'[c].kind = "observation"
      BY <1>4, LossTypes DEF LossInvariant, RevisionsPast
    <3>. QED BY <1>3, <2>1, <2>2, <2>3, <3>1 DEF RevisionsPast
  <2>5. NewestTrue'
    BY <1>3, <2>1, <2>2, <2>3 DEF NewestTrue, Shown
  <2>. QED BY <2>1, <2>4, <2>5 DEF LossInvariant
<1>. QED BY <1>7, <1>8

\* Who writes has a revision no older than the row it read, and newer unless it
\* is the mirror's.
LEMMA AdmittedSeen ==
  ASSUME RowTyped, NEW w \in Worker, AtStep(w, "write"), SameRow(w), state # NoRow
  PROVE  ~(state.seen > work[w].seen)
<1>1. ~Refused(work[w], state)
  BY DEF RowTyped, Admitted, SameRow
<1>2. state.seen \in Nat /\ work[w].seen \in Nat
  BY LossTypes
<1>. QED BY <1>1, <1>2 DEF Refused, Overtaken

\* Who is refused was overtaken by the row, or leaves something overlooked.
LEMMA ReadLoss ==
  ASSUME RowTyped, RowTyped', LossInvariant, NEW w \in Worker, ReadState(w)
  PROVE  LossInvariant'
<1>0. /\ AtStep(w, "evaluate") /\ UNCHANGED <<version, status, counted, state>>
      /\ overlooked' = (overlooked \/ Overlooks(work[w], state))
  BY DEF ReadState
<1>1. /\ work \in [Worker -> Work] /\ Client \subseteq Worker /\ counted \in Nat
      /\ \A v \in Worker : work[v].seen \in Nat /\ work[v].seen <= counted
      /\ state # NoRow => state.seen \in Nat /\ state.seen <= counted
  BY LossTypes DEF LossInvariant, RevisionsPast
<1>2. CASE ~Refused(work[w], state)
  <2>1. work' = [work EXCEPT ![w].at = "write", ![w].was = state]
    BY <1>2 DEF ReadState
  <2>2. /\ \A v \in Worker \ {w} : work'[v] = work[v]
        /\ work'[w].at = "write" /\ work'[w].kind = work[w].kind
        /\ work'[w].version = work[w].version /\ work'[w].correct = work[w].correct
        /\ work'[w].seen = work[w].seen
    BY <1>1, <2>1 DEF Work
  <2>3. Counts(w)' => SameCount(w)
    BY <1>0, <2>2 DEF SameCount, Counts, Evaluating, AtStep
  <2>4. Counts(w) => SameCount(w)
    BY <1>0, <2>2 DEF SameCount, Counts, Evaluating, AtStep
  <2>5. /\ SameLoss /\ counted' >= counted /\ Correct(status') = Correct(status)
        /\ work'[w].seen <= counted' /\ (w \in Client => work'[w].kind = "observation")
    BY <1>0, <1>1, <2>2 DEF SameLoss, LossInvariant, RevisionsPast
  <2>. QED BY <1>0, <2>2, <2>3, <2>4, <2>5, LossFrame
<1>3. CASE Refused(work[w], state)
  <2>1. Move(w, After(w)) /\ After(w) \notin {"evaluate", "write"}
    BY <1>3 DEF ReadState, After
  <2>2. CASE overlooked' \/ w \notin Client \/ ~Counts(w)
    <3>. DEFINE x == [Free EXCEPT !.at = After(w)]
    <3>1. x.at = After(w) /\ x.kind = "observation" /\ x.seen = 0
      BY DEF Free
    <3>2. work' = [work EXCEPT ![w] = x]
      BY <2>1 DEF Move
    <3>. HIDE DEF x
    <3>3. work'[w] = x /\ \A v \in Worker \ {w} : work'[v] = work[v]
      BY <1>1, <3>2
    <3>4. ~Counts(w)'
      BY <2>1, <3>1, <3>3 DEF Counts, Evaluating, AtStep
    <3>5. /\ SameLoss /\ counted' >= counted /\ Correct(status') = Correct(status)
          /\ work'[w].seen <= counted' /\ (w \in Client => work'[w].kind = "observation")
      BY <1>0, <1>1, <3>1, <3>3 DEF SameLoss
    <3>. QED BY <1>0, <2>2, <3>3, <3>4, <3>5, LossFrame
  <2>3. CASE ~overlooked' /\ w \in Client /\ Counts(w)
    <3>1. /\ state # NoRow /\ Shown /\ ~(state.seen < work[w].seen) /\ ~overlooked
      <4>1. ~Overlooks(work[w], state) /\ ~overlooked
        BY <1>0, <2>3
      <4>2. work[w].kind = "observation"
        BY <2>3 DEF LossInvariant, RevisionsPast
      <4>3. TooEarly(work[w], state) \/ Overtaken(work[w], state)
        BY <1>3, <4>2 DEF Refused, Outdated
      <4>4. Overtaken(work[w], state) /\ state.version = version
        BY <4>1, <4>3 DEF Overlooks
      <4>. QED BY <1>1, <4>1, <4>4 DEF Overtaken, Shown
    <3>2. /\ work'[w].at = After(w) /\ work'[w].seen = 0 /\ work'[w].kind = "observation"
          /\ \A v \in Worker \ {w} : work'[v] = work[v]
      <4>. DEFINE x == [Free EXCEPT !.at = After(w)]
      <4>1. x.at = After(w) /\ x.kind = "observation" /\ x.seen = 0
        BY DEF Free
      <4>2. work' = [work EXCEPT ![w] = x]
        BY <2>1 DEF Move
      <4>. HIDE DEF x
      <4>. QED BY <1>1, <4>1, <4>2
    <3>3. ~Counts(w)' /\ \A v \in Worker \ {w} : Counts(v)' <=> Counts(v)
      BY <1>0, <2>1, <3>2 DEF Counts, Evaluating, AtStep
    <3>4. WrongOvertaken /\ NewestTrue
      BY <3>1 DEF LossInvariant
    <3>5. ASSUME NEW seen \in Nat, Surpassed(seen), ~Passed(seen)
          PROVE  state.seen > seen
      <4>1. PICK c \in Client : Counts(c) /\ work[c].correct = Correct(status) /\ work[c].seen > seen
        BY <3>5 DEF Surpassed
      <4>2. c = w
        BY <1>0, <1>1, <3>2, <3>3, <3>5, <4>1 DEF Passed
      <4>. QED BY <1>1, <3>1, <4>1, <4>2
    <3>6. Shown => state'.peak - state'.lost = Correct(status) \/ Passed(state.seen)
      <4>. SUFFICES ASSUME state.peak - state.lost # Correct(status) PROVE Passed(state.seen)
        BY <1>0, <3>1
      <4>1. Surpassed(state.seen) /\ state.seen \in Nat
        BY <1>1, <3>1, <3>4 DEF WrongOvertaken
      <4>. QED BY <3>5, <4>1
    <3>7. ASSUME NEW v \in Worker, Counts(v)', work'[v].correct # Correct(status)
          PROVE  Passed(work'[v].seen) \/ (state' # NoRow /\ state'.seen > work'[v].seen)
      <4>1. v # w /\ work'[v] = work[v] /\ Counts(v)
        BY <3>2, <3>3, <3>7
      <4>2. Surpassed(work[v].seen) \/ state.seen > work[v].seen
        BY <3>4, <3>7, <4>1 DEF WrongOvertaken
      <4>. QED BY <1>0, <1>1, <3>1, <3>5, <4>1, <4>2
    <3>8. Correct(status') = Correct(status) /\ (Shown' <=> Shown) /\ state'.seen = state.seen
      BY <1>0 DEF Shown
    <3>9. WrongOvertaken'
      BY <3>6, <3>7, <3>8, WrongPassed
    <3>10. RevisionsPast'
      <4>1. \A c \in Client : work'[c].kind = "observation"
        BY <1>1, <3>2 DEF LossInvariant, RevisionsPast
      <4>2. \A v \in Worker : work'[v].seen <= counted
        BY <1>1, <3>2
      <4>. QED BY <1>0, <1>1, <4>1, <4>2 DEF RevisionsPast
    <3>11. NewestTrue'
      <4>1. (Correct(status))' = Correct(status)
        BY <1>0 DEF Correct
      <4>2. \A v \in Worker : Counts(v)' /\ work'[v].seen = counted => work'[v].correct = Correct(status)
        BY <3>2, <3>3, <3>4 DEF NewestTrue
      <4>. QED BY <1>0, <3>4, <3>8, <4>1, <4>2 DEF NewestTrue
    <3>. QED BY <3>9, <3>10, <3>11 DEF LossInvariant
  <2>. QED BY <2>2, <2>3
<1>. QED BY <1>2, <1>3

\* What is written shows the count, and its revision is no older than what it
\* replaces: so who told somebody else still does.
LEMMA WriteLoss ==
  ASSUME RowTyped, RowTyped', LossInvariant, NEW w \in Worker, WriteState(w)
  PROVE  LossInvariant'
<1>0. AtStep(w, "write") /\ UNCHANGED <<version, status, counted>>
  BY DEF WriteState
<1>1. /\ work \in [Worker -> Work] /\ Client \subseteq Worker /\ counted \in Nat
      /\ \A v \in Worker : work[v].seen \in Nat /\ work[v].seen <= counted /\ work[v].correct \in Nat
      /\ state # NoRow => state.seen \in Nat /\ state.seen <= counted
      /\ (Correct(status))' = Correct(status) /\ Correct(status') = Correct(status)
      /\ overlooked \in BOOLEAN
  BY <1>0, LossTypes DEF LossInvariant, RevisionsPast, Correct
<1>2. CASE ~SameRow(w)
  <2>1. work' = [work EXCEPT ![w].at = "evaluate", ![w].was = NoRow] /\ UNCHANGED <<state, overlooked>>
    BY <1>2 DEF WriteState
  <2>2. /\ \A v \in Worker \ {w} : work'[v] = work[v]
        /\ work'[w].at = "evaluate" /\ work'[w].kind = work[w].kind
        /\ work'[w].version = work[w].version /\ work'[w].correct = work[w].correct
        /\ work'[w].seen = work[w].seen
    BY <1>1, <2>1 DEF Work
  <2>3. Counts(w)' => SameCount(w)
    BY <1>0, <2>2 DEF SameCount, Counts, Evaluating, AtStep
  <2>4. Counts(w) => SameCount(w)
    BY <1>0, <2>2 DEF SameCount, Counts, Evaluating, AtStep
  <2>5. /\ SameLoss /\ counted' >= counted /\ Correct(status') = Correct(status)
        /\ work'[w].seen <= counted' /\ (w \in Client => work'[w].kind = "observation")
    BY <1>0, <1>1, <2>1, <2>2 DEF SameLoss, LossInvariant, RevisionsPast
  <2>. QED BY <1>0, <2>1, <2>2, <2>3, <2>4, <2>5, LossFrame
<1>3. CASE SameRow(w)
  <2>1. /\ state' = Decided(work[w], work[w].was) /\ Move(w, After(w))
        /\ overlooked' = (overlooked /\ ~(work[w].seen = counted /\ work[w].version = version))
    BY <1>3 DEF WriteState
  <2>2. /\ state' \in AlarmRow /\ state' # NoRow /\ state'.version = work[w].version
        /\ state'.seen = work[w].seen /\ state'.peak - state'.lost = work[w].correct
    <3>1. work[w] \in Work /\ work[w].was \in AlarmRow \cup {NoRow} /\ episodes \in Nat
      BY <1>1 DEF RowTyped, AlarmsTypeOK, Work
    <3>2. /\ state' \in AlarmRow /\ state'.version = work[w].version /\ state'.seen = work[w].seen
      BY <2>1, <3>1, DecidedType
    <3>3. state' # NoRow
      <4>1. \A r \in AlarmRow : r.version # 0
        BY ConstantTypes DEF AlarmRow
      <4>. QED BY <3>2, <4>1 DEF NoRow
    <3>4. /\ state'.peak = Peak(work[w], work[w].was)
          /\ state'.lost = Peak(work[w], work[w].was) - work[w].correct
      BY <2>1 DEF Decided, Lost
    <3>5. state'.peak \in Nat
      <4>1. \A r \in AlarmRow : r.peak \in Nat
        BY ConstantTypes DEF AlarmRow, Pixels
      <4>. QED BY <3>2, <4>1
    <3>. QED BY <1>1, <3>2, <3>3, <3>4, <3>5
  <2>3. state # NoRow => ~(state.seen > work[w].seen)
    BY <1>0, <1>3, AdmittedSeen
  <2>4. /\ work'[w].at = After(w) /\ work'[w].seen = 0 /\ work'[w].kind = "observation"
        /\ \A v \in Worker \ {w} : work'[v] = work[v]
    <3>. DEFINE x == [Free EXCEPT !.at = After(w)]
    <3>1. x.at = After(w) /\ x.kind = "observation" /\ x.seen = 0
      BY DEF Free
    <3>2. work' = [work EXCEPT ![w] = x]
      BY <2>1 DEF Move
    <3>. HIDE DEF x
    <3>. QED BY <1>1, <3>1, <3>2
  <2>5. /\ ~Counts(w)'
        /\ Shown' <=> Counts(w)
        /\ \A v \in Worker \ {w} : Counts(v)' <=> Counts(v)
    BY <1>0, <2>2, <2>4 DEF Counts, Shown, Evaluating, AtStep, After
  <2>6. RevisionsPast'
    <3>1. \A c \in Client : work'[c].kind = "observation"
      BY <1>1, <2>4 DEF LossInvariant, RevisionsPast
    <3>2. \A v \in Worker : work'[v].seen <= counted
      BY <1>1, <2>4
    <3>. QED BY <1>0, <1>1, <2>2, <3>1, <3>2 DEF RevisionsPast
  <2>7. NewestTrue'
    <3>1. \A v \in Worker : Counts(v)' /\ work'[v].seen = counted => work'[v].correct = Correct(status)
      BY <2>4, <2>5 DEF LossInvariant, NewestTrue
    <3>2. Shown' /\ state'.seen = counted => state'.peak - state'.lost = Correct(status)
      BY <2>2, <2>5 DEF LossInvariant, NewestTrue
    <3>. QED BY <1>0, <1>1, <3>1, <3>2 DEF NewestTrue
  <2>8. ASSUME ~overlooked' PROVE WrongOvertaken'
    <3>1. CASE work[w].seen = counted /\ work[w].version = version
      <4>1. Counts(w) /\ work[w].correct = Correct(status)
        BY <1>0, <3>1 DEF Counts, Evaluating, LossInvariant, NewestTrue
      <4>2. Shown' => state'.peak - state'.lost = Correct(status')
        BY <1>1, <2>2, <4>1
      <4>3. ASSUME NEW v \in Worker, Counts(v)', work'[v].correct # Correct(status')
            PROVE  state'.seen > work'[v].seen
        <5>1. work'[v] = work[v] /\ Counts(v) /\ work[v].seen # counted
          BY <1>1, <2>4, <2>5, <4>3 DEF LossInvariant, NewestTrue
        <5>. QED BY <1>1, <2>2, <3>1, <5>1
      <4>. QED BY <2>2, <4>2, <4>3, WrongPassed
    <3>2. CASE ~(work[w].seen = counted /\ work[w].version = version)
      <4>1. WrongOvertaken
        BY <2>1, <2>8, <3>2 DEF LossInvariant
      <4>2. ASSUME NEW seen \in Nat, Surpassed(seen), ~Passed(seen)
            PROVE  Counts(w) /\ work[w].correct = Correct(status) /\ state'.seen > seen
        <5>1. PICK c \in Client : Counts(c) /\ work[c].correct = Correct(status) /\ work[c].seen > seen
          BY <4>2 DEF Surpassed
        <5>2. c = w
          BY <1>1, <2>4, <2>5, <4>2, <5>1 DEF Passed
        <5>. QED BY <2>2, <5>1, <5>2
      <4>3. ASSUME Shown', state'.peak - state'.lost # Correct(status') PROVE Passed(state'.seen)
        <5>1. Counts(w) /\ work[w].correct # Correct(status)
          BY <1>1, <2>2, <2>5, <4>3
        <5>2. Surpassed(work[w].seen)
          BY <1>1, <2>3, <4>1, <5>1 DEF WrongOvertaken
        <5>. QED BY <1>1, <2>2, <4>2, <5>1, <5>2
      <4>4. ASSUME NEW v \in Worker, Counts(v)', work'[v].correct # Correct(status')
            PROVE  Passed(work'[v].seen) \/ (state' # NoRow /\ state'.seen > work'[v].seen)
        <5>1. work'[v] = work[v] /\ Counts(v) /\ work[v].correct # Correct(status)
          BY <1>1, <2>4, <2>5, <4>4
        <5>2. CASE Surpassed(work[v].seen)
          BY <1>1, <2>2, <4>2, <5>1, <5>2
        <5>3. CASE state # NoRow /\ state.seen > work[v].seen
          BY <1>1, <2>2, <2>3, <5>1, <5>3
        <5>. QED BY <4>1, <5>1, <5>2, <5>3 DEF WrongOvertaken
      <4>. QED BY <4>3, <4>4, WrongPassed
    <3>. QED BY <3>1, <3>2
  <2>. QED BY <2>6, <2>7, <2>8 DEF LossInvariant
<1>. QED BY <1>2, <1>3

\* Steps between counts: who goes on to its hint, sets the alarm, or is done.
LEMMA HintLoss ==
  ASSUME RowTyped, RowTyped', LossInvariant, NEW w \in Worker,
         HintStep(w) \/ (w \in Client /\ Dismiss(w)) \/ Throw(w)
  PROVE  LossInvariant'
<1>0. /\ UNCHANGED <<version, status, counted>> /\ overlooked \in BOOLEAN
      /\ overlooked => overlooked'
  BY LossTypes DEF HintStep, ReadSchedule, SetSchedule, Dismiss, Throw
<1>1. CASE ReadSchedule(w)
  <2>. DEFINE x == [Free EXCEPT !.at = "set", !.follows.due = NextProbe]
  <2>1. x.at = "set" /\ x.kind = "observation" /\ x.seen = 0
    BY DEF Free
  <2>2. work' = [work EXCEPT ![w] = x]
    BY <1>1 DEF ReadSchedule
  <2>3. x.seen <= counted /\ SameLoss /\ ~Evaluating(w)
    BY <1>1, <2>1, LossTypes DEF ReadSchedule, SameLoss, Evaluating, AtStep
  <2>4. Correct(status') = Correct(status)
    BY <1>0
  <2>. HIDE DEF x
  <2>. QED BY <1>0, <2>1, <2>2, <2>3, <2>4, LossMove
<1>2. CASE SetSchedule(w)
  <2>1. Move(w, "free") /\ SameLoss /\ ~Evaluating(w)
    BY <1>2 DEF SetSchedule, Finish, SameLoss, Evaluating, AtStep
  <2>. QED BY <1>0, <2>1, LossGone
<1>3. CASE w \in Client /\ Dismiss(w)
  <2>1. Move(w, "hint") /\ ~Evaluating(w) /\ state # NoRow /\ state.version \in 1 .. MaxVersions
    BY <1>3, LossTypes DEF Dismiss, Open, Evaluating, AtStep, AlarmRow
  <2>2. /\ state'.version = state.version /\ state'.seen = state.seen
        /\ state'.peak = state.peak - state.lost /\ state'.lost = 0
    <3>1. state \in AlarmRow
      BY <2>1, LossTypes
    <3>. QED BY <1>3, <3>1 DEF Dismiss, AlarmRow
  <2>3. state.peak - state.lost = state'.peak - state'.lost
    BY <2>1, <2>2, LossTypes
  <2>4. state' # NoRow
    BY <2>1, <2>2, ConstantTypes DEF NoRow
  <2>5. SameLoss
    BY <2>1, <2>2, <2>3, <2>4 DEF SameLoss
  <2>. QED BY <1>0, <2>1, <2>5, LossGone
<1>4. CASE Throw(w)
  <2>1. Move(w, "retry") \/ Move(w, "free") \/ Move(w, "hint")
    BY <1>4 DEF Throw, Finish
  <2>2. SameLoss
    BY <1>4 DEF Throw, SameLoss
  <2>3. overlooked' \/ w \notin Client \/ ~Evaluating(w)
    BY <1>4, LossTypes DEF Throw, Evaluating
  <2>. QED BY <1>0, <2>1, <2>2, <2>3, LossGone
<1>. QED BY <1>1, <1>2, <1>3, <1>4 DEF HintStep

\* The mirror counts what the statuses count.
LEMMA MirrorLoss ==
  ASSUME RowTyped, RowTyped', LossInvariant, NEW w \in Worker, w \notin Client, Countable, Evaluate(w),
         UNCHANGED <<version, status, counted, state, overlooked>>
  PROVE  LossInvariant'
<1>1. /\ \A v \in Worker \ {w} : work'[v] = work[v]
      /\ work'[w].correct = Correct(status) /\ work'[w].seen = counted
  BY LossTypes DEF Evaluate, Countable, CountsAgree, Work
<1>2. /\ SameLoss /\ counted' >= counted /\ Correct(status') = Correct(status)
      /\ work'[w].seen <= counted'
  BY <1>1, LossTypes DEF SameLoss
<1>. QED BY <1>1, <1>2, LossFrame

LEMMA ScanLoss ==
  ASSUME RowTyped, RowTyped', LossInvariant, ScanBegins \/ ScanCounts \/ ScanMisses
  PROVE  LossInvariant'
<1>0. /\ UNCHANGED <<version, status, counted, state, overlooked>> /\ SameLoss
      /\ "scan" \in Worker /\ "scan" \notin Client /\ work["scan"].seen <= counted
      /\ Correct(status') = Correct(status)
  BY LossTypes DEF ScanBegins, ScanCounts, ScanMisses, SameLoss, LossInvariant, RevisionsPast
<1>1. CASE ScanBegins
  <2>. DEFINE x == [Free EXCEPT !.at = "tiles", !.kind = "scan", !.now = clock,
                                !.version = version, !.todo = Tile]
  <2>1. x.at = "tiles" /\ x.seen = 0 /\ work' = [work EXCEPT !["scan"] = x]
    BY <1>1 DEF ScanBegins, Free
  <2>2. x.seen <= counted
    BY <2>1, LossTypes
  <2>. HIDE DEF x
  <2>. QED BY <1>0, <2>1, <2>2, LossMove
<1>2. CASE ScanCounts
  <2>1. CASE work["scan"].fresh /\ Countable
    BY <1>0, <1>2, <2>1, MirrorLoss DEF ScanCounts
  <2>2. CASE ~(work["scan"].fresh /\ Countable)
    BY <1>0, <1>2, <2>2, LossGone DEF ScanCounts
  <2>. QED BY <2>1, <2>2
<1>3. CASE ScanMisses
  <2>1. PICK t : work' = [work EXCEPT !["scan"].todo = @ \ {t}, !["scan"].fresh = FALSE]
    BY <1>3 DEF ScanMisses
  <2>. DEFINE x == [work["scan"] EXCEPT !.todo = @ \ {t}, !.fresh = FALSE]
  <2>2. /\ x.at = "tiles" /\ x.seen = work["scan"].seen
    <3>1. work["scan"].at = "tiles" /\ work["scan"] \in Work
      BY <1>0, <1>3, LossTypes DEF ScanMisses, AtStep
    <3>. QED BY <3>1 DEF Work
  <2>3. work' = [work EXCEPT !["scan"] = x]
    BY <1>0, <2>1, LossTypes
  <2>. HIDE DEF x
  <2>. QED BY <1>0, <2>2, <2>3, LossMove
<1>. QED BY <1>1, <1>2, <1>3

\* A probe put off or cleared is the same row otherwise.
LEMMA ProbeLoss ==
  ASSUME RowTyped, state' = Deferred \/ (SameProbe /\ state' = [state EXCEPT !.probe = NoProbe])
  PROVE  SameLoss
<1>1. CASE SameProbe
  <2>1. state \in AlarmRow /\ state # NoRow
    BY <1>1, LossTypes DEF SameProbe, Open
  <2>2. /\ state'.version = state.version /\ state'.seen = state.seen
        /\ state'.peak = state.peak /\ state'.lost = state.lost
    <3>1. CASE state' = [state EXCEPT !.probe = NoProbe]
      BY <2>1, <3>1 DEF AlarmRow
    <3>2. CASE state' = Deferred
      <4>. DEFINE due == Later(work["watcher"].now, RetryDelay)
      <4>1. state' = [state EXCEPT !.probe.due = due]
        BY <1>1, <3>2 DEF Deferred
      <4>. HIDE DEF due
      <4>. QED BY <2>1, <4>1 DEF AlarmRow
    <3>. QED BY <3>1, <3>2
  <2>3. state' # NoRow
    <3>1. state.version \in 1 .. MaxVersions
      BY <2>1 DEF AlarmRow
    <3>. QED BY <2>2, <3>1, ConstantTypes DEF NoRow
  <2>. QED BY <2>1, <2>2, <2>3 DEF SameLoss
<1>2. CASE ~SameProbe
  BY <1>2 DEF Deferred, SameLoss
<1>. QED BY <1>1, <1>2

LEMMA WatcherLoss ==
  ASSUME RowTyped, RowTyped', LossInvariant,
         Wake \/ ListProbes \/ BeginFollowUp \/ FollowUp \/ FollowUpMisses \/ ReadNext \/ SetNext
           \/ SetRetry \/ WatcherCrash
  PROVE  LossInvariant'
<1>. DEFINE me == work["watcher"]
<1>0. /\ UNCHANGED <<version, status, counted, overlooked>> /\ Correct(status') = Correct(status)
      /\ "watcher" \in Worker /\ "watcher" \notin Client /\ me.seen <= counted /\ me \in Work
      /\ counted \in Nat /\ work \in [Worker -> Work]
  <2>1. UNCHANGED <<version, status, counted, overlooked>>
    BY DEF Wake, ListProbes, BeginFollowUp, FollowUp, FollowUpMisses, ReadNext, SetNext, SetRetry,
           WatcherCrash
  <2>. QED BY <2>1, LossTypes DEF LossInvariant, RevisionsPast
<1>1. SameLoss
  <2>1. CASE state' = state
    BY <2>1 DEF SameLoss
  <2>2. CASE state' # state
    <3>1. state' = Deferred \/ (SameProbe /\ state' = [state EXCEPT !.probe = NoProbe])
      BY <2>2 DEF Wake, ListProbes, BeginFollowUp, FollowUp, FollowUpMisses, DeferProbe, ReadNext,
                  SetNext, SetRetry, WatcherCrash
    <3>. QED BY <3>1, ProbeLoss
  <2>. QED BY <2>1, <2>2
<1>2. ASSUME NEW x, work' = [work EXCEPT !["watcher"] = x], x.at \notin {"evaluate", "write"},
             x.seen <= counted
      PROVE  LossInvariant'
  BY <1>0, <1>1, <1>2, LossMove
<1>3. ASSUME NEW step \in {"next", "retry", "free"}, Move("watcher", step)
      PROVE  LossInvariant'
  BY <1>0, <1>1, <1>3, LossGone
<1>4. CASE \E step \in {"next", "retry", "free"} : Move("watcher", step)
  BY <1>3, <1>4
<1>5. CASE SetNext \/ SetRetry \/ WatcherCrash
  BY <1>4, <1>5 DEF SetNext, SetRetry, WatcherCrash, Finish
<1>6. CASE Wake
  <2>. DEFINE x == [Free EXCEPT !.at = "list", !.kind = "follow-up", !.now = clock]
  <2>1. x.at = "list" /\ x.seen = 0 /\ work' = [work EXCEPT !["watcher"] = x]
    BY <1>6 DEF Wake, Free
  <2>. HIDE DEF x, me
  <2>2. x.seen <= counted
    BY <1>0, <2>1
  <2>. QED BY <1>2, <2>1, <2>2
<1>7. CASE ReadNext
  <2>. DEFINE x == [Free EXCEPT !.at = "set", !.follows.due = NextProbe, !.fresh = me.fresh]
  <2>1. x.at = "set" /\ x.seen = 0 /\ work' = [work EXCEPT !["watcher"] = x]
    BY <1>7 DEF ReadNext, Free
  <2>. HIDE DEF x, me
  <2>2. x.seen <= counted
    BY <1>0, <2>1
  <2>. QED BY <1>2, <2>1, <2>2
<1>8. CASE ListProbes /\ ~Move("watcher", "next")
  <2>. DEFINE x == [me EXCEPT !.at = "probe", !.version = version, !.follows = state.probe,
                              !.episode = state.episode]
  <2>1. x.at = "probe" /\ x.seen = me.seen
    BY <1>0 DEF Work
  <2>2. work' = [work EXCEPT !["watcher"] = x]
    BY <1>0, <1>8 DEF ListProbes
  <2>. HIDE DEF x, me
  <2>. QED BY <1>0, <1>2, <2>1, <2>2
<1>9. CASE BeginFollowUp /\ ~Move("watcher", "retry")
  <2>1. PICK stale : work' = [work EXCEPT !["watcher"].at = "tiles", !["watcher"].todo = stale,
                                          !["watcher"].fresh = stale = {}]
    BY <1>9 DEF BeginFollowUp
  <2>. DEFINE x == [me EXCEPT !.at = "tiles", !.todo = stale, !.fresh = stale = {}]
  <2>2. x.at = "tiles" /\ x.seen = me.seen
    BY <1>0 DEF Work
  <2>3. work' = [work EXCEPT !["watcher"] = x]
    BY <1>0, <2>1
  <2>. HIDE DEF x, me
  <2>. QED BY <1>0, <1>2, <2>2, <2>3
<1>10. CASE (FollowUp \/ FollowUpMisses) /\ ~Move("watcher", "retry")
  <2>1. CASE Countable /\ Evaluate("watcher") /\ UNCHANGED state
    BY <1>0, <2>1, MirrorLoss
  <2>2. CASE ~(Countable /\ Evaluate("watcher") /\ UNCHANGED state)
    <3>. DEFINE x == [Free EXCEPT !.at = "next", !.fresh = FALSE]
    <3>1. x.at = "next" /\ x.seen = 0
      BY DEF Free
    <3>2. work' = [work EXCEPT !["watcher"] = x]
      BY <1>10, <2>2 DEF FollowUp, FollowUpMisses, DeferProbe
    <3>. HIDE DEF x, me
    <3>3. x.seen <= counted
      BY <1>0, <3>1
    <3>. QED BY <1>2, <3>1, <3>2, <3>3
  <2>. QED BY <2>1, <2>2
<1>. QED BY <1>4, <1>5, <1>6, <1>7, <1>8, <1>9, <1>10

\* Nobody has counted a version that is new.
LEMMA VersionLoss ==
  ASSUME RowTyped, LossInvariant, ReplaceVersion \/ Tick \/ UNCHANGED alarmVars
  PROVE  LossInvariant'
<1>1. CASE ReplaceVersion
  <2>1. version' = version + 1 /\ UNCHANGED <<counted, state, work, overlooked>>
    BY <1>1 DEF ReplaceVersion
  <2>2. RevisionsPast'
    BY <2>1 DEF LossInvariant, RevisionsPast
  <2>3. \A w \in Worker : ~Counts(w)'
    <3>. SUFFICES ASSUME NEW w \in Worker PROVE work[w].version # version + 1
      BY <2>1 DEF Counts
    <3>1. work[w].version <= version
      BY DEF RowTyped, VersionsPast
    <3>. QED BY <3>1, LossTypes
  <2>4. ~Shown'
    <3>1. state # NoRow => state.version <= version
      BY DEF RowTyped, VersionsPast
    <3>2. state # NoRow => state.version # version + 1
      BY <3>1, LossTypes
    <3>. QED BY <2>1, <3>2 DEF Shown
  <2>. QED BY <2>2, <2>3, <2>4 DEF LossInvariant, NewestTrue, WrongOvertaken
<1>2. CASE Tick \/ UNCHANGED alarmVars
  <2>1. UNCHANGED <<version, status, counted, state, work, overlooked>>
    BY <1>2 DEF Tick, alarmVars
  <2>2. (Correct(status))' = Correct(status)
    BY <2>1 DEF Correct
  <2>3. RevisionsPast' /\ NewestTrue'
    BY <2>1, <2>2 DEF LossInvariant, RevisionsPast, NewestTrue, Counts, Evaluating, AtStep, Shown
  <2>4. WrongOvertaken => WrongOvertaken'
    BY <2>1, <2>2 DEF WrongOvertaken, Surpassed, Counts, Evaluating, AtStep, Shown
  <2>. QED BY <2>1, <2>3, <2>4 DEF LossInvariant
<1>. QED BY <1>1, <1>2

LEMMA LossAtFirst == AlarmsInit => LossInvariant
<1>. SUFFICES ASSUME AlarmsInit PROVE LossInvariant
  OBVIOUS
<1>1. RowTyped
  BY RowTypedInit
<1>2. \A w \in Worker : work[w].at = "free" /\ work[w].kind = "observation" /\ work[w].seen = 0
  BY DEF AlarmsInit, Free
<1>3. \A w \in Worker : ~Counts(w)
  BY <1>2 DEF Counts, Evaluating, AtStep
<1>4. state # NoRow => state.seen = counted /\ state.peak - state.lost = Correct(status)
  <2>. SUFFICES ASSUME state # NoRow
                PROVE  state.seen = counted /\ state.peak - state.lost = Correct(status)
    OBVIOUS
  <2>1. /\ status = [t \in Tile |-> [correct |-> 1, at |-> 1, server |-> TRUE]]
        /\ counted = Cardinality(Tile) /\ state.peak = counted /\ state.lost = 0 /\ state.seen = counted
    BY DEF AlarmsInit
  <2>2. {t \in Tile : status[t].correct = 1} = Tile
    BY <2>1
  <2>3. Correct(status) = Cardinality(Tile)
    BY <2>2 DEF Correct
  <2>. QED BY <2>1, <2>3, ConstantTypes
<1>5. RevisionsPast
  BY <1>1, <1>2, <1>4, LossTypes DEF RevisionsPast
<1>. QED BY <1>3, <1>4, <1>5 DEF LossInvariant, NewestTrue, WrongOvertaken, Shown

LEMMA LossNext == RowTyped /\ LossInvariant /\ [AlarmsNext]_alarmVars => LossInvariant'
<1>. SUFFICES ASSUME RowTyped, LossInvariant, [AlarmsNext]_alarmVars PROVE LossInvariant'
  OBVIOUS
<1>0. /\ RowTyped' /\ Client \subseteq Worker /\ {"scan", "watcher"} \subseteq Worker \ Client
  BY RowTypedNext, LossTypes
<1>1. ASSUME NEW c \in Client, Observe(c) \/ Dismiss(c) \/ EvaluateStep(c) \/ HintStep(c)
      PROVE  LossInvariant'
  BY <1>0, <1>1, ObserveLoss, HintLoss, ReadLoss, WriteLoss DEF EvaluateStep
<1>2. CASE ScanStep \/ ScanMisses
  BY <1>0, <1>2, ScanLoss, FetchLoss, ReadLoss, WriteLoss, HintLoss DEF ScanStep, EvaluateStep
<1>3. CASE WatcherStep
  BY <1>0, <1>3, WatcherLoss, FetchLoss, ReadLoss, WriteLoss DEF WatcherStep, EvaluateStep
<1>4. CASE AlarmFault
  BY <1>0, <1>2, <1>4, WatcherLoss, HintLoss DEF AlarmFault
<1>5. CASE ReplaceVersion \/ Tick \/ UNCHANGED alarmVars
  BY <1>5, VersionLoss
<1>. QED BY <1>1, <1>2, <1>3, <1>4, <1>5 DEF AlarmsNext

\* The row shows what the template lost, or some client is still to tell it, or
\* the scan has it left: with any number of clients that observe and evaluate at
\* once, over each other's rows, while the mirror scans and the watcher follows up.
THEOREM LossIsShown == AlarmsSpec => []AlarmShowsLoss
<1>1. AlarmsInit => RowTyped /\ LossInvariant
  BY RowTypedInit, LossAtFirst
<1>2. RowTyped /\ LossInvariant /\ [AlarmsNext]_alarmVars => RowTyped' /\ LossInvariant'
  BY RowTypedNext, LossNext
<1>3. RowTyped /\ LossInvariant => AlarmShowsLoss
  <2>. SUFFICES ASSUME RowTyped, LossInvariant, Shown, state.peak - state.lost # Correct(status)
                PROVE  /\ state.seen # counted
                       /\ overlooked \/ \E c \in Client : AtStep(c, "evaluate") \/ AtStep(c, "write")
    BY DEF AlarmShowsLoss, Shown
  <2>1. state.seen # counted
    BY DEF LossInvariant, NewestTrue
  <2>2. ~overlooked => Surpassed(state.seen)
    BY DEF LossInvariant, WrongOvertaken
  <2>. QED BY <2>1, <2>2 DEF Surpassed, Counts, Evaluating
<1>. QED BY <1>1, <1>2, <1>3, PTL DEF AlarmsSpec
=============================================================================
