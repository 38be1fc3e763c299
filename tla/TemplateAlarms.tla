--------------------------- MODULE TemplateAlarms ---------------------------
(***************************************************************************)
(* telemetry/alarm-policy.ts for ONE template, its row in                  *)
(* adapters/relational-sql-store.ts, and the three that evaluate it: the   *)
(* requests that report a tile (telemetry/ingest.ts), the mirror's scan    *)
(* and the follow-ups of the alarm watcher (telemetry/fetcher.ts,          *)
(* alarm-watcher.ts, alarm-watcher-cycle.ts).  They count at different     *)
(* times and write one row, which stores the probe that the watcher's      *)
(* alarm must wake it for.                                                 *)
(*                                                                         *)
(* Every tile of the template has one pixel.  Time is counted in seconds,  *)
(* and stops at MaxTime: what would come later comes then.                 *)
(***************************************************************************)
EXTENDS Naturals, FiniteSets

CONSTANTS
    Client,         \* requests under way: each slot makes one after another
    Tile,           \* the tiles that the template covers
    FollowUpDelay,  \* ALARM_FOLLOW_UP_DELAY_MILLISECONDS
    RetryDelay,     \* ALARM_RETRY_DELAY_MILLISECONDS
    BatchDelay,     \* ALARM_BATCH_DELAY_MILLISECONDS
    Skew,           \* MAX_TILE_FUTURE_SKEW_SECONDS
    MaxTime,        \* bound: the clock
    MaxFlips,       \* bound: observations that find other pixels than the last
    MaxVersions,    \* bound: versions of the template
    MaxBreaks       \* bound: failed fetches and calls, lost hints, crashes

ASSUME TemplateAlarmsAssumption ==
    /\ IsFiniteSet(Tile) /\ Tile # {}
    /\ FollowUpDelay \in Nat \ {0} /\ RetryDelay \in Nat \ {0} /\ BatchDelay \in Nat /\ Skew \in Nat
    /\ MaxTime \in Nat \ {0, 1} /\ MaxFlips \in Nat /\ MaxVersions \in Nat \ {0} /\ MaxBreaks \in Nat
    /\ "scan" \notin Client /\ "watcher" \notin Client

VARIABLES
    clock,
    version,    \* current_version_id of the template
    status,     \* template_tile_statuses of that version
    mirrored,   \* template_alarm_tile_statuses of that version
    counted,    \* the season's revision in status_read_model_revisions
    state,      \* the template's row of template_alarm_states
    wakeup,     \* the watcher's alarm: when, or Never
    work,       \* per request, and for the scan and the watcher: what it is at
    flips, breaks, episodes,
    unhinted,   \* history: a hint to schedule was lost, and none came since
    overlooked  \* history: some count that the row has not seen is nobody's to
                \* evaluate, before the next scan or follow-up

alarmVars == <<clock, version, status, mirrored, counted, state, wakeup, work,
               flips, breaks, episodes, unhinted, overlooked>>

Never == 0
Time == Never .. MaxTime
Later(t, delay) == IF t + delay > MaxTime THEN MaxTime ELSE t + delay
Latest(t, u) == IF t > u THEN t ELSE u
Pixels == 0 .. Cardinality(Tile)

Unseen == [correct |-> 0, at |-> Never, server |-> FALSE]
TileStatus == [correct : 0 .. 1, at : Time, server : BOOLEAN]
NoProbe == [due |-> Never, lost |-> 0]
Probe == [due : Time, lost : Pixels]
\* lost = 0: no episode is open.
NoRow == [version |-> 0]
AlarmRow == [version : 1 .. MaxVersions, peak : Pixels, lost : Pixels, episode : Nat,
             sustained : BOOLEAN, probe : Probe, evaluated : Time, seen : Nat]

\* What is evaluated: kind is the phase; before is previousCorrect, follows the
\* probe that is followed up; was is the row as the evaluation read it.  fresh:
\* no tile was missed, and for the watcher that nothing is pending.
Free == [at |-> "free", kind |-> "observation", now |-> Never, version |-> 1, todo |-> {},
         fresh |-> TRUE, correct |-> 0, before |-> 0, seen |-> 0, follows |-> NoProbe,
         episode |-> 0, was |-> NoRow]
Work == [at : {"free", "tiles", "evaluate", "write", "hint", "set", "list", "probe", "next",
              "retry"},
         kind : {"observation", "scan", "follow-up"}, now : Time, version : 1 .. MaxVersions,
         todo : SUBSET Tile, fresh : BOOLEAN, correct : Pixels, before : Pixels, seen : Nat,
         follows : Probe, episode : Nat, was : AlarmRow \cup {NoRow}]
Worker == Client \cup {"scan", "watcher"}

AlarmsTypeOK ==
    /\ clock \in 1 .. MaxTime /\ version \in 1 .. MaxVersions
    /\ status \in [Tile -> TileStatus] /\ mirrored \in [Tile -> TileStatus]
    /\ counted \in Nat /\ state \in AlarmRow \cup {NoRow} /\ wakeup \in Time
    /\ work \in [Worker -> Work]
    /\ flips \in 0 .. MaxFlips /\ breaks \in 0 .. MaxBreaks /\ episodes \in Nat
    /\ unhinted \in BOOLEAN /\ overlooked \in BOOLEAN

Correct(s) == Cardinality({t \in Tile : s[t].correct = 1})

\* A template nobody looked at, or one that was complete when the mirror did.
AlarmsInit ==
    /\ clock \in 1 .. MaxTime /\ version \in 1 .. MaxVersions
    /\ \/ /\ status = [t \in Tile |-> Unseen] /\ counted = 0 /\ state = NoRow
       \/ /\ status = [t \in Tile |-> [correct |-> 1, at |-> 1, server |-> TRUE]]
          /\ counted = Cardinality(Tile)
          /\ state = [version |-> version, peak |-> counted, lost |-> 0, episode |-> 0, sustained |-> FALSE,
                      probe |-> NoProbe, evaluated |-> 1, seen |-> counted]
    /\ mirrored = status
    /\ wakeup = Never /\ work = [w \in Worker |-> Free]
    /\ flips \in 0 .. MaxFlips /\ breaks \in 0 .. MaxBreaks /\ episodes = 0
    /\ unhinted = FALSE /\ overlooked = FALSE

Break == breaks < MaxBreaks /\ breaks' = breaks + 1
AtStep(w, step) == work[w].at = step
\* On to a step that needs nothing of what it was at.
Move(w, step) == work' = [work EXCEPT ![w] = [Free EXCEPT !.at = step]]
Finish(w) == Move(w, "free")

-----------------------------------------------------------------------------
(* The commit of an observed tile.                                         *)

\* What the WHERE clauses of the commit let through.
Accepted(t, at, server) == (server /\ ~status[t].server) \/ status[t].at <= at
Changed(t, correct, at, server) ==
    Accepted(t, at, server) /\ (status[t].at # at \/ status[t].correct # correct)

CommitTile(t, correct, at, server) ==
    /\ flips' = flips + (IF correct = status[t].correct THEN 0 ELSE 1)
    /\ flips' <= MaxFlips
    /\ status' = IF Accepted(t, at, server)
                 THEN [status EXCEPT ![t] = [correct |-> correct, at |-> at, server |-> server]]
                 ELSE status
    /\ mirrored' = IF server /\ mirrored[t].at <= at
                   THEN [mirrored EXCEPT ![t] = [correct |-> correct, at |-> at, server |-> TRUE]]
                   ELSE mirrored
    /\ counted' = IF Changed(t, correct, at, server) THEN counted + 1 ELSE counted

\* recordObservation: only a changed count is evaluated.
AlarmChange(t, correct) == status[t].at = Never \/ status[t].correct # correct

\* A request reports a tile, as its client saw it: at most Skew ahead of the clock.
Observe(c) ==
    /\ AtStep(c, "free")
    /\ \E t \in Tile, correct \in 0 .. 1, at \in 1 .. Later(clock, Skew) :
         /\ at < MaxTime /\ Changed(t, correct, at, FALSE)
         /\ CommitTile(t, correct, at, FALSE)
         /\ IF AlarmChange(t, correct)
            THEN \E newest \in {at} \cup {status[s].at : s \in Tile} :
                   /\ newest >= at /\ \A s \in Tile : newest >= status[s].at
                   /\ work' = [work EXCEPT ![c] =
                        [Free EXCEPT !.at = "evaluate", !.version = version, !.seen = counted',
                                     !.correct = Correct(status'), !.before = Correct(status),
                                     !.now = newest]]
            ELSE UNCHANGED work
    /\ UNCHANGED <<clock, version, state, wakeup, breaks, episodes, unhinted, overlooked>>

-----------------------------------------------------------------------------
(* evaluateTemplateAlarm: reads the row, decides, and writes if it is      *)
(* still the row it read.                                                  *)

Open(row) == row # NoRow /\ row.lost > 0
\* A follow-up of another probe or episode than the stored one.
Outdated(w, row) ==
    /\ w.kind = "follow-up"
    /\ \/ ~Open(row) \/ row.version # w.version \/ row.episode # w.episode
       \/ row.probe # w.follows
\* Its evidence is older than what the row was decided on.
TooEarly(w, row) == row # NoRow /\ w.now < row.evaluated
OnlyRepeated(w, row) == row # NoRow /\ w.kind = "observation" /\ w.seen = row.seen
Overtaken(w, row) ==
    row # NoRow /\ (w.seen < row.seen \/ (w.kind = "observation" /\ w.seen = row.seen))
Refused(w, row) == Outdated(w, row) \/ TooEarly(w, row) \/ Overtaken(w, row)

\* evaluateAlarmSnapshot; a version begins with the count of its first evaluation.
Base(w, row) ==
    IF row # NoRow /\ row.version = w.version THEN row
    ELSE [version |-> w.version, peak |-> IF w.kind = "observation" THEN w.before ELSE w.correct,
          lost |-> 0, episode |-> 0, sustained |-> FALSE, probe |-> NoProbe]
Peak(w, row) == Latest(Base(w, row).peak, w.correct)
Lost(w, row) == Peak(w, row) - w.correct
Sustained(w, row) ==
    \/ Base(w, row).sustained
    \/ w.kind = "follow-up" /\ Lost(w, row) > w.follows.lost
WantedUntilSustained(w, row) == ~Open(Base(w, row)) \/ ~Sustained(w, row)
FollowUpWanted(w, row) ==
    IF Open(Base(w, row))
    THEN /\ ~Sustained(w, row)
         /\ w.kind = "scan" \/ (w.kind = "observation" /\ Lost(w, row) > Base(w, row).lost)
    ELSE w.kind # "follow-up"
ProbeAfter(w, row) ==
    IF Lost(w, row) = 0 THEN NoProbe
    ELSE IF w.kind = "observation" /\ Base(w, row).probe # NoProbe THEN Base(w, row).probe
    ELSE IF FollowUpWanted(w, row)
         THEN [due |-> Later(w.now, FollowUpDelay), lost |-> Lost(w, row)] ELSE NoProbe
Opens(w, row) == Lost(w, row) > 0 /\ ~Open(Base(w, row))
Decided(w, row) ==
    [version |-> w.version, peak |-> Peak(w, row), lost |-> Lost(w, row),
     episode |-> IF Lost(w, row) = 0 THEN 0
                 ELSE IF Opens(w, row) THEN episodes + 1 ELSE Base(w, row).episode,
     sustained |-> Lost(w, row) > 0 /\ Sustained(w, row),
     probe |-> ProbeAfter(w, row), evaluated |-> w.now, seen |-> w.seen]

\* A client's evaluation is followed by the hint to schedule, the scan's by its
\* own, and a follow-up's by the look at the next probe.
After(w) == IF w = "watcher" THEN "next" ELSE "hint"

\* Refused, although the row has not counted what it found.
Overlooks(w, row) ==
    \/ TooEarly(w, row) /\ ~Overtaken(w, row)
    \/ Overtaken(w, row) /\ row.version # version

ReadState(w) ==
    /\ AtStep(w, "evaluate")
    /\ IF Refused(work[w], state) THEN Move(w, After(w))
       ELSE work' = [work EXCEPT ![w].at = "write", ![w].was = state]
    /\ overlooked' = (overlooked \/ Overlooks(work[w], state))
    /\ UNCHANGED <<clock, version, status, mirrored, counted, state, wakeup, flips, breaks,
                   episodes, unhinted>>

\* WHERE revision: the row is the one that was read.
AnyRow(w) == TRUE
SameRow(w) == state = work[w].was

WriteState(w) ==
    /\ AtStep(w, "write")
    /\ IF SameRow(w)
       THEN /\ state' = Decided(work[w], work[w].was)
            /\ episodes' = episodes + (IF Opens(work[w], work[w].was) THEN 1 ELSE 0)
            /\ Move(w, After(w))
            /\ overlooked' = (overlooked /\ ~(work[w].seen = counted /\ work[w].version = version))
       ELSE /\ work' = [work EXCEPT ![w].at = "evaluate", ![w].was = NoRow]
            /\ UNCHANGED <<state, episodes, overlooked>>
    /\ UNCHANGED <<clock, version, status, mirrored, counted, wakeup, flips, breaks, unhinted>>

\* dismissTemplateAlarm: the loss becomes the baseline, and what was observed
\* until now is not evaluated any more.
Dismiss(c) ==
    /\ AtStep(c, "free") /\ Open(state)
    /\ state' = [state EXCEPT !.peak = @ - state.lost, !.lost = 0, !.episode = 0,
                              !.sustained = FALSE, !.probe = NoProbe,
                              !.evaluated = Later(Latest(@, clock), 1)]
    /\ Move(c, "hint")
    /\ UNCHANGED <<clock, version, status, mirrored, counted, wakeup, flips, breaks, episodes,
                   unhinted, overlooked>>

-----------------------------------------------------------------------------
(* The mirror's scan.                                                      *)

ScanBegins ==
    /\ AtStep("scan", "free")
    /\ work' = [work EXCEPT !["scan"] = [Free EXCEPT !.at = "tiles", !.kind = "scan", !.now = clock,
                                                     !.version = version, !.todo = Tile]]
    /\ UNCHANGED <<clock, version, status, mirrored, counted, state, wakeup, flips, breaks,
                   episodes, unhinted, overlooked>>

\* A tile fetched from the canvas; what it changes is evaluated with the rest.
FetchTile(w) ==
    /\ AtStep(w, "tiles")
    /\ \E t \in work[w].todo, correct \in 0 .. 1 :
         /\ CommitTile(t, correct, work[w].now, TRUE)
         /\ work' = [work EXCEPT ![w].todo = @ \ {t}]
    /\ overlooked' = (overlooked \/ Correct(status') # Correct(status))
    /\ UNCHANGED <<clock, version, state, wakeup, breaks, episodes, unhinted>>

ScanMisses ==
    /\ AtStep("scan", "tiles") /\ Break
    /\ \E t \in work["scan"].todo :
         work' = [work EXCEPT !["scan"].todo = @ \ {t}, !["scan"].fresh = FALSE]
    /\ UNCHANGED <<clock, version, status, mirrored, counted, state, wakeup, flips, episodes,
                   unhinted, overlooked>>

\* readAlarmStatusSnapshot, complete: the mirror knows every tile, and what it
\* counts is what the statuses count.
CountsAnyway == TRUE
CountsAgree == Correct(mirrored) = Correct(status)
Countable == (\A t \in Tile : mirrored[t].at # Never) /\ CountsAgree
Evaluate(w) ==
    work' = [work EXCEPT ![w].at = "evaluate", ![w].correct = Correct(mirrored), ![w].seen = counted,
                         ![w].fresh = TRUE]

ScanCounts ==
    /\ AtStep("scan", "tiles") /\ work["scan"].todo = {}
    /\ IF work["scan"].fresh /\ Countable THEN Evaluate("scan") ELSE Move("scan", "hint")
    /\ UNCHANGED <<clock, version, status, mirrored, counted, state, wakeup, flips, breaks,
                   episodes, unhinted, overlooked>>

-----------------------------------------------------------------------------
(* The watcher.                                                            *)

\* nextAlarmProbeAt; follow-ups join the current version.
NextProbe == IF Open(state) /\ state.version = version THEN state.probe.due ELSE Never

\* schedule, in two steps: it reads when, and sets the alarm.
ReadSchedule(w) ==
    /\ AtStep(w, "hint")
    /\ work' = [work EXCEPT ![w] = [Free EXCEPT !.at = "set", !.follows.due = NextProbe]]
    /\ UNCHANGED <<clock, version, status, mirrored, counted, state, wakeup, flips, breaks,
                   episodes, unhinted, overlooked>>

\* No probe leaves the alarm as it is: another call may have set it meanwhile.
ClearedWakeup == Never
KeptWakeup == wakeup
SetSchedule(w) ==
    /\ AtStep(w, "set") /\ w # "watcher"
    /\ wakeup' = IF work[w].follows.due = Never THEN KeptWakeup ELSE work[w].follows.due
    /\ unhinted' = (unhinted /\ wakeup' = Never)
    /\ Finish(w)
    /\ UNCHANGED <<clock, version, status, mirrored, counted, state, flips, breaks, episodes,
                   overlooked>>

\* The alarm is consumed when its handler starts.
Wake ==
    /\ wakeup # Never /\ wakeup <= clock /\ AtStep("watcher", "free")
    /\ wakeup' = Never
    /\ work' = [work EXCEPT !["watcher"] = [Free EXCEPT !.at = "list", !.kind = "follow-up", !.now = clock]]
    /\ UNCHANGED <<clock, version, status, mirrored, counted, state, flips, breaks, episodes,
                   unhinted, overlooked>>

\* listDueAlarmProbes.
ListProbes ==
    /\ AtStep("watcher", "list")
    /\ IF NextProbe # Never /\ NextProbe <= work["watcher"].now
       THEN work' = [work EXCEPT !["watcher"].at = "probe", !["watcher"].version = version,
                                 !["watcher"].follows = state.probe,
                                 !["watcher"].episode = state.episode]
       ELSE Move("watcher", "next")
    /\ UNCHANGED <<clock, version, status, mirrored, counted, state, wakeup, flips, breaks,
                   episodes, unhinted, overlooked>>

\* The row still has the probe that was listed.
SameProbe ==
    /\ Open(state) /\ state.episode = work["watcher"].episode
    /\ state.probe.due = work["watcher"].follows.due

\* The tiles that nobody mirrored since the probe fell due (fresh: there is
\* none); clearAlarmProbe when the probe's version is replaced.
BeginFollowUp ==
    /\ AtStep("watcher", "probe")
    /\ IF work["watcher"].version = version
       THEN /\ LET stale == {t \in Tile : mirrored[t].at < work["watcher"].follows.due}
               IN work' = [work EXCEPT !["watcher"].at = "tiles", !["watcher"].todo = stale,
                                       !["watcher"].fresh = stale = {}]
            /\ UNCHANGED state
       ELSE /\ state' = IF SameProbe THEN [state EXCEPT !.probe = NoProbe] ELSE state
            /\ Move("watcher", "retry")
    /\ UNCHANGED <<clock, version, status, mirrored, counted, wakeup, flips, breaks, episodes,
                   unhinted, overlooked>>

\* deferAlarmProbe: only the probe that was listed.
Deferred ==
    IF SameProbe THEN [state EXCEPT !.probe.due = Later(work["watcher"].now, RetryDelay)]
    ELSE state

DeferProbe == state' = Deferred /\ Move("watcher", "retry")

FollowUpMisses ==
    /\ AtStep("watcher", "tiles") /\ work["watcher"].todo # {} /\ Break
    /\ DeferProbe
    /\ UNCHANGED <<clock, version, status, mirrored, counted, wakeup, flips, episodes, unhinted,
                   overlooked>>

\* The listing after the fetches names the probe's version: when that is not
\* the current one any more, no tile is missing in it.
Mirrored ==
    work["watcher"].version = version =>
        \A t \in Tile : mirrored[t].at >= work["watcher"].follows.due

FollowUp ==
    /\ AtStep("watcher", "tiles") /\ work["watcher"].todo = {}
    /\ IF Countable /\ Mirrored THEN Evaluate("watcher") /\ UNCHANGED state
       ELSE IF work["watcher"].fresh THEN DeferProbe
       ELSE /\ work' = [work EXCEPT !["watcher"] = [Free EXCEPT !.at = "next", !.fresh = FALSE]]
            /\ UNCHANGED state
    /\ UNCHANGED <<clock, version, status, mirrored, counted, wakeup, flips, breaks, episodes,
                   unhinted, overlooked>>

ReadNext ==
    /\ AtStep("watcher", "next")
    /\ work' = [work EXCEPT !["watcher"] = [Free EXCEPT !.at = "set", !.follows.due = NextProbe,
                                                        !.fresh = work["watcher"].fresh]]
    /\ UNCHANGED <<clock, version, status, mirrored, counted, state, wakeup, flips, breaks,
                   episodes, unhinted, overlooked>>

\* The end of runAlarmWatcherCycle: the next probe, paced while one is pending,
\* or a retry after a failure.
SetNext ==
    /\ AtStep("watcher", "set")
    /\ LET due == work["watcher"].follows.due
       IN wakeup' = IF due = Never THEN KeptWakeup
                    ELSE IF work["watcher"].fresh THEN due
                    ELSE Latest(due, Later(clock, BatchDelay))
    /\ unhinted' = (unhinted /\ wakeup' = Never)
    /\ Finish("watcher")
    /\ UNCHANGED <<clock, version, status, mirrored, counted, state, flips, breaks, episodes,
                   overlooked>>

SetRetry ==
    /\ AtStep("watcher", "retry")
    /\ wakeup' = Later(clock, RetryDelay) /\ unhinted' = FALSE
    /\ Finish("watcher")
    /\ UNCHANGED <<clock, version, status, mirrored, counted, state, flips, breaks, episodes,
                   overlooked>>

-----------------------------------------------------------------------------
(* Faults, time and the template.                                          *)

\* A call throws.  A request or a scan that ends before its evaluation leaves
\* its count to the next one; before its hint, the watcher unaware.  The cycle
\* catches and retries.
Throw(w) ==
    /\ work[w].at \notin {"free", "retry"} /\ Break
    /\ IF w = "watcher" THEN Move(w, "retry") /\ UNCHANGED <<unhinted, overlooked>>
       ELSE /\ IF AtStep(w, "hint") \/ AtStep(w, "set") \/ w \in Client
               THEN Finish(w) ELSE Move(w, "hint")
            /\ unhinted' = (unhinted \/ AtStep(w, "hint") \/ AtStep(w, "set"))
            /\ overlooked' = (overlooked \/ AtStep(w, "evaluate") \/ AtStep(w, "write"))
    /\ UNCHANGED <<clock, version, status, mirrored, counted, state, wakeup, flips, episodes>>

\* An alarm whose handler dies is delivered again.
WatcherCrash ==
    /\ ~AtStep("watcher", "free") /\ Break
    /\ wakeup' = IF wakeup = Never THEN clock ELSE wakeup
    /\ Finish("watcher")
    /\ UNCHANGED <<clock, version, status, mirrored, counted, state, flips, episodes, unhinted,
                   overlooked>>

\* Another version of the template, as many pixels.
ReplaceVersion ==
    /\ version < MaxVersions /\ version' = version + 1
    /\ status' = [t \in Tile |-> Unseen] /\ mirrored' = status'
    /\ UNCHANGED <<clock, counted, state, wakeup, work, flips, breaks, episodes, unhinted, overlooked>>

Tick ==
    /\ clock < MaxTime /\ clock' = clock + 1
    /\ UNCHANGED <<version, status, mirrored, counted, state, wakeup, work, flips, breaks, episodes,
                   unhinted, overlooked>>

EvaluateStep(w) == ReadState(w) \/ WriteState(w)
HintStep(w) == ReadSchedule(w) \/ SetSchedule(w)
ScanStep ==
    ScanBegins \/ FetchTile("scan") \/ ScanCounts \/ EvaluateStep("scan") \/ HintStep("scan")
WatcherStep ==
    \/ Wake \/ ListProbes \/ BeginFollowUp \/ FetchTile("watcher") \/ FollowUp
    \/ EvaluateStep("watcher") \/ ReadNext \/ SetNext \/ SetRetry
AlarmFault == ScanMisses \/ FollowUpMisses \/ WatcherCrash \/ \E w \in Worker : Throw(w)

AlarmsNext ==
    \/ \E c \in Client : Observe(c) \/ Dismiss(c) \/ EvaluateStep(c) \/ HintStep(c)
    \/ ScanStep \/ WatcherStep \/ AlarmFault \/ ReplaceVersion \/ Tick

AlarmsSpec == AlarmsInit /\ [][AlarmsNext]_alarmVars

\* Time passes, alarms are delivered, and the mirror's cron comes again.
AlarmsFair == WF_alarmVars(Tick) /\ WF_alarmVars(WatcherStep) /\ WF_alarmVars(ScanStep)
AlarmsFairSpec == AlarmsSpec /\ AlarmsFair

-----------------------------------------------------------------------------
\* What the alarm says is what the template has lost: when the row has seen the
\* newest revision, and when everything that changed the count was evaluated.
AlarmShowsLoss ==
    state # NoRow /\ state.version = version =>
        \/ state.peak - state.lost = Correct(status)
        \/ /\ state.seen # counted
           /\ overlooked \/ \E c \in Client : AtStep(c, "evaluate") \/ AtStep(c, "write")

\* A stored probe has a wakeup, or someone who is about to see to it, unless a
\* hint was lost; the scan and the cycle of the watcher see to those.
ProbeHasWakeup ==
    NextProbe # Never =>
        \/ wakeup # Never \/ unhinted \/ ~AtStep("watcher", "free")
        \/ \E w \in Worker : AtStep(w, "hint") \/ (AtStep(w, "set") /\ work[w].follows.due # Never)

\* Whoever evaluates late does not take the row back to what it counted, nor
\* before a dismissal.
EvaluatesForward ==
    [][state # NoRow => /\ state' # NoRow /\ state'.seen >= state.seen
                        /\ state'.evaluated >= state.evaluated]_alarmVars

\* Every probe is followed up at last, whatever hints were lost, unless its
\* episode ends before.
ProbesDecided == (NextProbe # Never) ~> (NextProbe = Never)
=============================================================================
