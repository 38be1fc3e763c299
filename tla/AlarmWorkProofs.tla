--------------------------- MODULE AlarmWorkProofs ---------------------------
(***************************************************************************)
(* The work that alarms carry, for any value of the constants.             *)
(*                                                                         *)
(* The portable scheduler keeps its promises for any number of processes,  *)
(* coordinators, concurrent jobs, alarms and retries, and any faults.      *)
(*                                                                         *)
(* The backfill of a template is sound for any number of tiles, snapshots  *)
(* and bounds: its samples and its end tell the truth, an archive reads    *)
(* keys that stand, and a discarded restore leaves nothing.                *)
(***************************************************************************)
EXTENDS DurableScheduler, TemplateBackfill, TLAPS

(***************************************************************************)
(* coordination/scheduler.ts.                                              *)
(***************************************************************************)

By == Owner \cup {Nobody, Gone}
Job == [at : {"none", "dispatch", "complete", "retry", "release"},
        gen : 0 .. MaxSets, tries : 0 .. MaxTries]

(***************************************************************************)
(* Rows of runtime_alarms and what the statements make of them.            *)
(***************************************************************************)
LEMMA RowFields ==
  ASSUME NEW r \in Alarm
  PROVE  /\ r.gen \in 1 .. MaxSets /\ r.tries \in 0 .. MaxTries
         /\ r.due \in BOOLEAN /\ r.by \in By /\ r.live \in BOOLEAN
  BY DEF Alarm, By

LEMMA RowIsNoNoAlarm == ASSUME NEW r \in Alarm PROVE r # NoAlarm
  BY DEF Alarm, NoAlarm

LEMMA RowSetDue == ASSUME NEW r \in Alarm, NEW d \in BOOLEAN PROVE [r EXCEPT !.due = d] \in Alarm
  BY DEF Alarm

LEMMA RowSetLive == ASSUME NEW r \in Alarm, NEW l \in BOOLEAN PROVE [r EXCEPT !.live = l] \in Alarm
  BY DEF Alarm

LEMMA RowSetBy == ASSUME NEW r \in Alarm, NEW b \in By PROVE [r EXCEPT !.by = b] \in Alarm
  BY DEF Alarm, By

LEMMA RowReplaced ==
  ASSUME NEW r \in Alarm, NEW g \in 1 .. MaxSets
  PROVE  [r EXCEPT !.gen = g, !.tries = 0, !.due = FALSE] \in Alarm
<1>1. 0 \in 0 .. MaxTries
  BY SchedulerAssumption
<1>. QED BY <1>1 DEF Alarm

LEMMA RowTaken ==
  ASSUME NEW r \in Alarm, NEW b \in By, NEW l \in BOOLEAN
  PROVE  [r EXCEPT !.by = b, !.live = l] \in Alarm
  BY DEF Alarm, By

LEMMA RowPutOff ==
  ASSUME NEW r \in Alarm, r.tries < MaxTries
  PROVE  [r EXCEPT !.tries = @ + 1, !.due = FALSE, !.by = Nobody, !.live = FALSE] \in Alarm
<1>1. r.tries + 1 \in 0 .. MaxTries
  BY SchedulerAssumption DEF Alarm
<1>. QED BY <1>1 DEF Alarm

\* One row changes; one job changes.
LEMMA AlarmChange ==
  ASSUME TypeOK, NEW a \in Actor, NEW r \in Alarm \cup {NoAlarm}, alarm' = [alarm EXCEPT ![a] = r]
  PROVE  /\ alarm' \in [Actor -> Alarm \cup {NoAlarm}]
         /\ \A b \in Actor : alarm'[b] = IF b = a THEN r ELSE alarm[b]
  BY DEF TypeOK

LEMMA JobChange ==
  ASSUME TypeOK, NEW o \in Owner, NEW a \in Actor, NEW k \in Job, job' = [job EXCEPT ![o][a] = k]
  PROVE  /\ job' \in [Owner -> [Actor -> Job]]
         /\ \A p \in Owner, b \in Actor :
              job'[p][b] = IF p = o /\ b = a THEN k ELSE job[p][b]
<1>1. job \in [Owner -> [Actor -> Job]]
  BY DEF TypeOK, Job
<1>. QED BY <1>1

(***************************************************************************)
(* What each action does to the rows and the jobs, row by row.             *)
(***************************************************************************)
RowSame(a) == alarm'[a] = alarm[a]
JobSame(o, a) == job'[o][a] = job[o][a]

LEMMA SetAlarmStep ==
  ASSUME TypeOK, NEW a \in Actor, SetAlarm(a)
  PROVE  /\ TypeOK'
         /\ \A b \in Actor \ {a} : RowSame(b) /\ sets'[b] = sets[b] /\ ended'[b] = ended[b]
         /\ alarm'[a] \in Alarm /\ alarm'[a].gen = sets'[a] /\ sets'[a] = sets[a] + 1
<1> DEFINE r == IF alarm[a] = NoAlarm
                THEN [gen |-> sets'[a], tries |-> 0, due |-> FALSE, by |-> Nobody, live |-> FALSE]
                ELSE [alarm[a] EXCEPT !.gen = sets'[a], !.tries = 0, !.due = FALSE]
<1>1. sets'[a] = sets[a] + 1 /\ sets'[a] \in 1 .. MaxSets /\ sets' \in [Actor -> 0 .. MaxSets]
  BY SchedulerAssumption DEF SetAlarm, TypeOK
<1>2. alarm' = [alarm EXCEPT ![a] = r]
  BY DEF SetAlarm, TypeOK
<1>3. r \in Alarm /\ r.gen = sets'[a]
  <2>1. CASE alarm[a] = NoAlarm
    BY <1>1, <2>1, SchedulerAssumption DEF Alarm
  <2>2. CASE alarm[a] # NoAlarm
    <3>1. alarm[a] \in Alarm
      BY <2>2 DEF TypeOK
    <3>2. r = [alarm[a] EXCEPT !.gen = sets'[a], !.tries = 0, !.due = FALSE]
      BY <2>2
    <3>. QED BY <1>1, <3>1, <3>2, RowReplaced DEF Alarm
  <2>. QED BY <2>1, <2>2
<1>. HIDE DEF r
<1>4. /\ alarm' \in [Actor -> Alarm \cup {NoAlarm}]
      /\ \A b \in Actor : alarm'[b] = IF b = a THEN r ELSE alarm[b]
  BY <1>2, <1>3, AlarmChange
<1>5. \A b \in Actor \ {a} : RowSame(b) /\ sets'[b] = sets[b] /\ ended'[b] = ended[b]
  BY <1>4 DEF RowSame, SetAlarm, TypeOK
<1>6. ended' \in [Actor -> {"none", "forgotten", "settled"}]
  BY DEF SetAlarm, TypeOK
<1>. QED BY <1>1, <1>3, <1>4, <1>5, <1>6 DEF SetAlarm, TypeOK

LEMMA DeleteAlarmStep ==
  ASSUME TypeOK, NEW a \in Actor, DeleteAlarm(a)
  PROVE  /\ TypeOK'
         /\ \A b \in Actor \ {a} : RowSame(b) /\ ended'[b] = ended[b]
         /\ alarm'[a] = NoAlarm /\ ended'[a] = "forgotten"
<1>1. /\ alarm' \in [Actor -> Alarm \cup {NoAlarm}]
      /\ \A b \in Actor : alarm'[b] = IF b = a THEN NoAlarm ELSE alarm[b]
  BY AlarmChange DEF DeleteAlarm
<1>. QED BY <1>1 DEF DeleteAlarm, RowSame, TypeOK

\* Time and renewal change only what no statement compares.
Aged(r, s) == s.gen = r.gen /\ s.tries = r.tries /\ s.by = r.by

LEMMA BecomeDueStep ==
  ASSUME TypeOK, NEW a \in Actor, BecomeDue(a)
  PROVE  /\ TypeOK'
         /\ \A b \in Actor \ {a} : RowSame(b)
         /\ alarm[a] \in Alarm /\ alarm'[a] \in Alarm
         /\ Aged(alarm[a], alarm'[a]) /\ alarm'[a].live = alarm[a].live
<1> DEFINE r == [alarm[a] EXCEPT !.due = TRUE]
<1>1. alarm[a] \in Alarm
  BY DEF BecomeDue, TypeOK
<1>2. r \in Alarm /\ Aged(alarm[a], r) /\ r.live = alarm[a].live
  BY <1>1, RowSetDue DEF Aged, Alarm
<1>3. alarm' = [alarm EXCEPT ![a] = r]
  BY DEF BecomeDue
<1>. HIDE DEF r
<1>4. /\ alarm' \in [Actor -> Alarm \cup {NoAlarm}]
      /\ \A b \in Actor : alarm'[b] = IF b = a THEN r ELSE alarm[b]
  BY <1>2, <1>3, AlarmChange
<1>. QED BY <1>1, <1>2, <1>4 DEF BecomeDue, RowSame, TypeOK

LEMMA LiveChange ==
  ASSUME TypeOK, NEW a \in Actor, alarm[a] # NoAlarm, NEW l \in BOOLEAN,
         alarm' = [alarm EXCEPT ![a].live = l]
  PROVE  /\ alarm' \in [Actor -> Alarm \cup {NoAlarm}]
         /\ \A b \in Actor \ {a} : RowSame(b)
         /\ alarm[a] \in Alarm /\ alarm'[a] \in Alarm
         /\ Aged(alarm[a], alarm'[a]) /\ alarm'[a].live = l
<1> DEFINE r == [alarm[a] EXCEPT !.live = l]
<1>1. alarm[a] \in Alarm
  BY DEF TypeOK
<1>2. r \in Alarm
  BY <1>1, RowSetLive
<1>3. Aged(alarm[a], r)
  BY <1>1 DEF Aged, Alarm
<1>4. r.live = l
  BY <1>1 DEF Alarm
<1>5. alarm' = [alarm EXCEPT ![a] = r]
  OBVIOUS
<1>. HIDE DEF r
<1>6. /\ alarm' \in [Actor -> Alarm \cup {NoAlarm}]
      /\ \A b \in Actor : alarm'[b] = IF b = a THEN r ELSE alarm[b]
  BY <1>2, <1>5, AlarmChange
<1>. QED BY <1>1, <1>2, <1>3, <1>4, <1>6 DEF RowSame

LEMMA ExpireStep ==
  ASSUME TypeOK, NEW a \in Actor, Expire(a)
  PROVE  /\ TypeOK'
         /\ \A b \in Actor \ {a} : RowSame(b)
         /\ alarm[a] \in Alarm /\ alarm'[a] \in Alarm
         /\ Aged(alarm[a], alarm'[a])
         /\ overrun \subseteq overrun'
         /\ alarm[a].by \in Owner /\ a \in Active(alarm[a].by) => a \in overrun'
<1>1. /\ alarm' \in [Actor -> Alarm \cup {NoAlarm}]
      /\ \A b \in Actor \ {a} : RowSame(b)
      /\ alarm[a] \in Alarm /\ alarm'[a] \in Alarm /\ Aged(alarm[a], alarm'[a])
  BY LiveChange DEF Expire
<1>2. /\ overrun \subseteq overrun' /\ overrun' \subseteq Actor
      /\ alarm[a].by \in Owner /\ a \in Active(alarm[a].by) => a \in overrun'
  BY DEF Expire, TypeOK
<1>. QED BY <1>1, <1>2 DEF Expire, TypeOK

LEMMA RenewStep ==
  ASSUME TypeOK, NEW o \in Owner, NEW a \in Actor, Renew(o, a)
  PROVE  /\ TypeOK'
         /\ \A b \in Actor \ {a} : RowSame(b)
         /\ alarm[a] \in Alarm /\ alarm'[a] \in Alarm
         /\ Aged(alarm[a], alarm'[a]) /\ alarm'[a].live = TRUE
<1>1. alarm[a] # NoAlarm /\ alarm' = [alarm EXCEPT ![a].live = TRUE]
  BY DEF Renew
<1>2. /\ alarm' \in [Actor -> Alarm \cup {NoAlarm}]
      /\ \A b \in Actor \ {a} : RowSame(b)
      /\ alarm[a] \in Alarm /\ alarm'[a] \in Alarm
      /\ Aged(alarm[a], alarm'[a]) /\ alarm'[a].live = TRUE
  BY <1>1, LiveChange
<1>. QED BY <1>2 DEF Renew, TypeOK

LEMMA ScanStep ==
  ASSUME TypeOK, NEW o \in Owner, Scan(o) \/ PassOver(o)
  PROVE  TypeOK' /\ UNCHANGED <<alarm, sets, ended, job, up, overrun>>
<1> DEFINE due == {a \in Actor : alarm[a] # NoAlarm /\ alarm[a].due /\ Unclaimed(alarm[a])}
<1>1. CASE Scan(o)
  <2>1. \A a \in due : [actor |-> a, gen |-> alarm[a].gen, tries |-> alarm[a].tries] \in Seen
    BY DEF TypeOK, Seen, Alarm
  <2>2. queue' \in [Owner -> SUBSET Seen]
    BY <1>1, <2>1 DEF Scan, TypeOK
  <2>. QED BY <1>1, <2>2 DEF Scan, TypeOK
<1>2. CASE PassOver(o)
  <2>1. queue' \in [Owner -> SUBSET Seen]
    BY <1>2 DEF PassOver, TypeOK
  <2>. QED BY <1>2, <2>1 DEF PassOver, TypeOK
<1>. QED BY <1>1, <1>2

\* The claim's UPDATE.
LEMMA TakeStep ==
  ASSUME TypeOK, NEW o \in Owner, NEW v \in Seen, MayTake(alarm[v.actor], v), Take(o, v)
  PROVE  /\ v.actor \in Actor /\ v.gen \in 1 .. MaxSets /\ v.tries \in 0 .. MaxTries
         /\ alarm' \in [Actor -> Alarm \cup {NoAlarm}]
         /\ \A b \in Actor \ {v.actor} : RowSame(b)
         /\ alarm[v.actor] \in Alarm /\ alarm'[v.actor] \in Alarm
         /\ alarm[v.actor].gen = v.gen /\ alarm[v.actor].tries = v.tries
         /\ alarm'[v.actor].gen = v.gen /\ alarm'[v.actor].tries = v.tries
         /\ alarm'[v.actor].by = o /\ alarm'[v.actor].live = TRUE
<1> DEFINE a == v.actor
           r == [alarm[a] EXCEPT !.by = o, !.live = TRUE]
<1>1. a \in Actor /\ v.gen \in 1 .. MaxSets /\ v.tries \in 0 .. MaxTries
  BY DEF Seen
<1>2. alarm[a] \in Alarm /\ alarm[a].gen = v.gen /\ alarm[a].tries = v.tries
  BY <1>1 DEF TypeOK, MayTake, IsStill
<1>3. r \in Alarm
  BY <1>2, RowTaken DEF By
<1>4. r.gen = v.gen /\ r.tries = v.tries /\ r.by = o
  BY <1>2 DEF Alarm
<1>5. r.live = TRUE
  BY <1>2 DEF Alarm
<1>6. alarm' = [alarm EXCEPT ![a] = r]
  BY <1>1 DEF Take, TypeOK
<1>. HIDE DEF r
<1>7. /\ alarm' \in [Actor -> Alarm \cup {NoAlarm}]
      /\ \A b \in Actor : alarm'[b] = IF b = a THEN r ELSE alarm[b]
  BY <1>1, <1>3, <1>6, AlarmChange
<1>. QED BY <1>1, <1>2, <1>3, <1>4, <1>5, <1>7 DEF RowSame

\* A claim that this process runs, and one that it lost or never learned of.
LEMMA ClaimStep ==
  ASSUME TypeOK, NEW o \in Owner, NEW v \in queue[o], Claim(o, v)
  PROVE  /\ TypeOK'
         /\ \/ UNCHANGED <<alarm, job>>
            \/ /\ MayTake(alarm[v.actor], v) /\ Take(o, v) /\ v \in Seen
               /\ \A p \in Owner, b \in Actor : p # o \/ b # v.actor => JobSame(p, b)
               /\ job'[o][v.actor] = [at |-> "dispatch", gen |-> v.gen, tries |-> v.tries]
<1> DEFINE k == [at |-> "dispatch", gen |-> v.gen, tries |-> v.tries]
<1>1. v \in Seen
  BY DEF TypeOK
<1>2. queue' \in [Owner -> SUBSET Seen]
  BY DEF Claim, TypeOK
<1>3. CASE UNCHANGED <<alarm, job>>
  BY <1>2, <1>3 DEF Claim, TypeOK
<1>4. CASE MayTake(alarm[v.actor], v) /\ Take(o, v) /\ job' = [job EXCEPT ![o][v.actor] = k]
  <2>9. /\ v.actor \in Actor /\ v.gen \in 1 .. MaxSets /\ v.tries \in 0 .. MaxTries
        /\ alarm' \in [Actor -> Alarm \cup {NoAlarm}]
    BY <1>1, <1>4, TakeStep
  <2>1. v.actor \in Actor /\ k \in Job /\ alarm' \in [Actor -> Alarm \cup {NoAlarm}]
    BY <2>9 DEF Job
  <2>. HIDE DEF k
  <2>2. /\ job' \in [Owner -> [Actor -> Job]]
        /\ \A p \in Owner, b \in Actor :
             job'[p][b] = IF p = o /\ b = v.actor THEN k ELSE job[p][b]
    BY <1>4, <2>1, JobChange
  <2>3. TypeOK'
    BY <1>2, <2>1, <2>2 DEF Claim, TypeOK, Job
  <2>. QED BY <1>1, <1>4, <2>1, <2>2, <2>3 DEF JobSame, k
<1>. QED BY <1>3, <1>4 DEF Claim

LEMMA ClaimFailsStep ==
  ASSUME TypeOK, NEW o \in Owner, NEW v \in queue[o], ClaimFails(o, v)
  PROVE  /\ TypeOK' /\ UNCHANGED job
         /\ \/ UNCHANGED alarm
            \/ /\ MayTake(alarm[v.actor], v) /\ Take(o, v) /\ v \in Seen
               /\ v.actor \notin Active(o)
<1>1. v \in Seen
  BY DEF TypeOK
<1>2. queue' \in [Owner -> SUBSET Seen]
  BY DEF ClaimFails, TypeOK
<1>3. CASE UNCHANGED alarm
  BY <1>2, <1>3 DEF ClaimFails, TypeOK
<1>4. CASE MayTake(alarm[v.actor], v) /\ Take(o, v)
  <2>1. alarm' \in [Actor -> Alarm \cup {NoAlarm}]
    BY <1>1, <1>4, TakeStep
  <2>. QED BY <1>1, <1>2, <1>4, <2>1 DEF ClaimFails, TypeOK
<1>. QED BY <1>3, <1>4 DEF ClaimFails

\* A delivery goes from one step to the next for the row it claimed.
MovesJob(o, a, from, to) ==
    /\ \A p \in Owner, b \in Actor : p # o \/ b # a => JobSame(p, b)
    /\ job[o][a].at = from /\ job'[o][a].at = to
    /\ job'[o][a].gen = job[o][a].gen /\ job'[o][a].tries = job[o][a].tries

LEMMA JobAtStep ==
  ASSUME TypeOK, NEW o \in Owner, NEW a \in Actor, NEW from,
         NEW to \in {"dispatch", "complete", "retry", "release"}, JobAt(o, a, from, to)
  PROVE  job' \in [Owner -> [Actor -> Job]] /\ MovesJob(o, a, from, to)
<1> DEFINE k == [job[o][a] EXCEPT !.at = to]
<1>1. job[o][a] \in Job
  BY DEF TypeOK, Job
<1>2. k \in Job /\ k.at = to /\ k.gen = job[o][a].gen /\ k.tries = job[o][a].tries
  BY <1>1 DEF Job
<1>3. job' = [job EXCEPT ![o][a] = k]
  BY DEF JobAt, TypeOK
<1>. HIDE DEF k
<1>4. /\ job' \in [Owner -> [Actor -> Job]]
      /\ \A p \in Owner, b \in Actor : job'[p][b] = IF p = o /\ b = a THEN k ELSE job[p][b]
  BY <1>2, <1>3, JobChange
<1>. QED BY <1>2, <1>4 DEF MovesJob, JobSame, JobAt

LEMMA HandlerEndsStep ==
  ASSUME TypeOK, NEW o \in Owner, NEW a \in Actor, HandlerEnds(o, a)
  PROVE  /\ TypeOK' /\ UNCHANGED <<alarm, sets, ended, overrun>>
         /\ MovesJob(o, a, "dispatch", "complete") \/ MovesJob(o, a, "dispatch", "retry")
<1>1. /\ job' \in [Owner -> [Actor -> Job]]
      /\ MovesJob(o, a, "dispatch", "complete") \/ MovesJob(o, a, "dispatch", "retry")
  BY JobAtStep DEF HandlerEnds
<1>. QED BY <1>1 DEF HandlerEnds, TypeOK, Job

LEMMA CompleteStep ==
  ASSUME TypeOK, NEW o \in Owner, NEW a \in Actor, Complete(o, a)
  PROVE  /\ TypeOK' /\ UNCHANGED <<sets, overrun>>
         /\ MovesJob(o, a, "complete", "release") \/ MovesJob(o, a, "complete", "retry")
         /\ \/ UNCHANGED <<alarm, ended>>
            \/ /\ Owns(o, a) /\ alarm'[a] = NoAlarm /\ ended'[a] = "settled"
               /\ \A b \in Actor \ {a} : RowSame(b) /\ ended'[b] = ended[b]
<1>1. /\ job' \in [Owner -> [Actor -> Job]]
      /\ MovesJob(o, a, "complete", "release") \/ MovesJob(o, a, "complete", "retry")
  BY JobAtStep DEF Complete
<1>2. CASE UNCHANGED <<alarm, ended>>
  BY <1>1, <1>2 DEF Complete, TypeOK, Job
<1>3. CASE Owns(o, a) /\ Consume(a)
  <2>1. /\ alarm' \in [Actor -> Alarm \cup {NoAlarm}]
        /\ \A b \in Actor : alarm'[b] = IF b = a THEN NoAlarm ELSE alarm[b]
    BY <1>3, AlarmChange DEF Consume
  <2>2. /\ ended' \in [Actor -> {"none", "forgotten", "settled"}]
        /\ ended'[a] = "settled" /\ \A b \in Actor \ {a} : ended'[b] = ended[b]
    BY <1>3 DEF Consume, TypeOK
  <2>3. TypeOK'
    BY <1>1, <2>1, <2>2 DEF Complete, TypeOK, Job
  <2>. QED BY <1>1, <1>3, <2>1, <2>2, <2>3 DEF Complete, RowSame
<1>. QED BY <1>2, <1>3 DEF Complete

LEMMA RetryStep ==
  ASSUME TypeOK, NEW o \in Owner, NEW a \in Actor, Retry(o, a)
  PROVE  /\ TypeOK' /\ UNCHANGED <<sets, ended, overrun>>
         /\ MovesJob(o, a, "retry", "release")
         /\ \/ UNCHANGED alarm
            \/ /\ Owns(o, a) /\ alarm[a] \in Alarm /\ alarm'[a] \in Alarm
               /\ \A b \in Actor \ {a} : RowSame(b)
               /\ alarm'[a].gen = alarm[a].gen /\ alarm'[a].tries = alarm[a].tries + 1
               /\ alarm'[a].by = Nobody
<1>1. job' \in [Owner -> [Actor -> Job]] /\ MovesJob(o, a, "retry", "release")
  BY JobAtStep DEF Retry
<1>2. CASE UNCHANGED alarm
  BY <1>1, <1>2 DEF Retry, TypeOK, Job
<1>3. CASE Owns(o, a) /\ PutOff(a)
  <2> DEFINE r == [alarm[a] EXCEPT !.tries = @ + 1, !.due = FALSE, !.by = Nobody, !.live = FALSE]
  <2>1. alarm[a] \in Alarm /\ alarm[a].tries < MaxTries
    BY <1>3 DEF Owns, IsStill, PutOff, TypeOK
  <2>2. r \in Alarm
    BY <2>1, RowPutOff
  <2>3. r.gen = alarm[a].gen /\ r.tries = alarm[a].tries + 1 /\ r.by = Nobody
    BY <2>1 DEF Alarm
  <2>4. alarm' = [alarm EXCEPT ![a] = r]
    BY <1>3, <2>1 DEF PutOff, TypeOK
  <2>. HIDE DEF r
  <2>5. /\ alarm' \in [Actor -> Alarm \cup {NoAlarm}]
        /\ \A b \in Actor : alarm'[b] = IF b = a THEN r ELSE alarm[b]
    BY <2>2, <2>4, AlarmChange
  <2>6. TypeOK'
    BY <1>1, <2>5 DEF Retry, TypeOK, Job
  <2>. QED BY <1>1, <1>3, <2>1, <2>2, <2>3, <2>5, <2>6 DEF Retry, RowSame
<1>. QED BY <1>2, <1>3 DEF Retry

LEMMA ReleaseStep ==
  ASSUME TypeOK, NEW o \in Owner, NEW a \in Actor, Release(o, a)
  PROVE  /\ TypeOK' /\ UNCHANGED <<sets, ended, overrun>>
         /\ \A p \in Owner, b \in Actor : p # o \/ b # a => JobSame(p, b)
         /\ job[o][a].at = "release" /\ job'[o][a] = NoJob
         /\ \/ UNCHANGED alarm
            \/ /\ alarm[a] \in Alarm /\ alarm[a].by = o /\ alarm'[a] \in Alarm
               /\ \A b \in Actor \ {a} : RowSame(b)
               /\ alarm'[a].gen = alarm[a].gen /\ alarm'[a].tries = alarm[a].tries
               /\ alarm'[a].by = Nobody
<1>1. NoJob \in Job
  BY SchedulerAssumption DEF NoJob, Job
<1>2. /\ job' \in [Owner -> [Actor -> Job]]
      /\ \A p \in Owner, b \in Actor : job'[p][b] = IF p = o /\ b = a THEN NoJob ELSE job[p][b]
  BY <1>1, JobChange DEF Release
<1>3. CASE UNCHANGED alarm
  BY <1>2, <1>3 DEF Release, TypeOK, Job, JobSame
<1>4. CASE /\ alarm[a] # NoAlarm /\ alarm[a].by = o
           /\ alarm' = [alarm EXCEPT ![a].by = Nobody, ![a].live = FALSE]
  <2> DEFINE r == [alarm[a] EXCEPT !.by = Nobody, !.live = FALSE]
  <2>1. alarm[a] \in Alarm
    BY <1>4 DEF TypeOK
  <2>2. r \in Alarm
    BY <2>1, RowTaken DEF By
  <2>3. r.gen = alarm[a].gen /\ r.tries = alarm[a].tries /\ r.by = Nobody
    BY <2>1 DEF Alarm
  <2>4. alarm' = [alarm EXCEPT ![a] = r]
    BY <1>4 DEF TypeOK
  <2>. HIDE DEF r
  <2>5. /\ alarm' \in [Actor -> Alarm \cup {NoAlarm}]
        /\ \A b \in Actor : alarm'[b] = IF b = a THEN r ELSE alarm[b]
    BY <2>2, <2>4, AlarmChange
  <2>6. TypeOK'
    BY <1>2, <2>5 DEF Release, TypeOK, Job
  <2>. QED BY <1>2, <1>4, <2>1, <2>2, <2>3, <2>5, <2>6 DEF Release, RowSame, JobSame
<1>. QED BY <1>3, <1>4 DEF Release

\* A process goes away, and with it the deliveries it had under way.
LEMMA DisownedStep ==
  ASSUME TypeOK, NEW o \in Owner, alarm' = Disowned(o)
  PROVE  /\ alarm' \in [Actor -> Alarm \cup {NoAlarm}]
         /\ \A a \in Actor :
              \/ RowSame(a) /\ (alarm[a] # NoAlarm => alarm[a].by # o)
              \/ /\ alarm[a] \in Alarm /\ alarm[a].by = o /\ alarm'[a] \in Alarm
                 /\ alarm'[a].gen = alarm[a].gen /\ alarm'[a].tries = alarm[a].tries
                 /\ alarm'[a].by = Gone
<1>1. ASSUME NEW a \in Actor, alarm[a] # NoAlarm, alarm[a].by = o
      PROVE  /\ alarm[a] \in Alarm /\ alarm'[a] \in Alarm
             /\ alarm'[a].gen = alarm[a].gen /\ alarm'[a].tries = alarm[a].tries
             /\ alarm'[a].by = Gone
  <2>1. alarm[a] \in Alarm /\ alarm'[a] = [alarm[a] EXCEPT !.by = Gone]
    BY <1>1 DEF Disowned, TypeOK
  <2>. QED BY <2>1, RowSetBy DEF Alarm, By
<1>2. ASSUME NEW a \in Actor, ~(alarm[a] # NoAlarm /\ alarm[a].by = o) PROVE RowSame(a)
  BY <1>2 DEF Disowned, RowSame
<1>3. alarm' \in [Actor -> Alarm \cup {NoAlarm}]
  <2>1. \A a \in Actor : alarm'[a] \in Alarm \cup {NoAlarm}
    BY <1>1, <1>2 DEF RowSame, TypeOK
  <2>. QED BY <2>1 DEF Disowned
<1>. QED BY <1>1, <1>2, <1>3

LEMMA ProcessStep ==
  ASSUME TypeOK, NEW o \in Owner, Start(o) \/ Crash(o)
  PROVE  /\ TypeOK' /\ UNCHANGED <<sets, ended, overrun>>
         /\ alarm' = Disowned(o)
         /\ \A a \in Actor : job'[o][a].at = "none" /\ job'[o][a].gen \in {0, job[o][a].gen}
                             /\ job'[o][a].tries \in {0, job[o][a].tries}
         /\ \A p \in Owner \ {o}, a \in Actor : JobSame(p, a)
<1>1. alarm' \in [Actor -> Alarm \cup {NoAlarm}]
  BY DisownedStep DEF Start, Crash
<1>2. CASE Start(o)
  <2>1. \A a \in Actor : job[o][a].at = "none"
    BY <1>2 DEF Start, Active
  <2>. QED BY <1>1, <1>2, <2>1 DEF Start, TypeOK, JobSame
<1>3. CASE Crash(o)
  <2>1. NoJob \in Job /\ NoJob.at = "none" /\ NoJob.gen = 0 /\ NoJob.tries = 0
    BY SchedulerAssumption DEF NoJob, Job
  <2>2. job' \in [Owner -> [Actor -> Job]]
    BY <1>3, <2>1 DEF Crash, TypeOK, Job
  <2>3. /\ \A a \in Actor : job'[o][a] = NoJob
        /\ \A p \in Owner \ {o}, a \in Actor : JobSame(p, a)
    BY <1>3 DEF Crash, TypeOK, JobSame
  <2>. QED BY <1>1, <1>3, <2>1, <2>2, <2>3 DEF Crash, TypeOK, Job
<1>. QED BY <1>2, <1>3

(***************************************************************************)
(* Type correctness.                                                       *)
(***************************************************************************)
LEMMA TypeInit == Init => TypeOK
  BY SchedulerAssumption DEF Init, TypeOK, NoJob, NoAlarm

LEMMA StopStep ==
  ASSUME TypeOK, NEW o \in Owner, Stop(o)
  PROVE  TypeOK' /\ UNCHANGED <<alarm, sets, ended, queue, job, overrun>>
  BY DEF Stop, TypeOK

LEMMA TypeStep == TypeOK /\ [Next]_vars => TypeOK'
<1>. SUFFICES ASSUME TypeOK, [Next]_vars PROVE TypeOK'
  OBVIOUS
<1>1. ASSUME NEW a \in Actor, SetAlarm(a) PROVE TypeOK'
  BY <1>1, SetAlarmStep
<1>2. ASSUME NEW a \in Actor, DeleteAlarm(a) PROVE TypeOK'
  BY <1>2, DeleteAlarmStep
<1>3. ASSUME NEW a \in Actor, BecomeDue(a) PROVE TypeOK'
  BY <1>3, BecomeDueStep
<1>4. ASSUME NEW a \in Actor, Expire(a) PROVE TypeOK'
  BY <1>4, ExpireStep
<1>5. ASSUME NEW o \in Owner, NEW a \in Actor, Renew(o, a) PROVE TypeOK'
  BY <1>5, RenewStep
<1>6. ASSUME NEW o \in Owner, Scan(o) \/ PassOver(o) PROVE TypeOK'
  BY <1>6, ScanStep
<1>7. ASSUME NEW o \in Owner, NEW v \in queue[o], Claim(o, v) PROVE TypeOK'
  BY <1>7, ClaimStep
<1>8. ASSUME NEW o \in Owner, NEW v \in queue[o], ClaimFails(o, v) PROVE TypeOK'
  BY <1>8, ClaimFailsStep
<1>9. ASSUME NEW o \in Owner, NEW a \in Actor, HandlerEnds(o, a) PROVE TypeOK'
  BY <1>9, HandlerEndsStep
<1>10. ASSUME NEW o \in Owner, NEW a \in Actor, Complete(o, a) PROVE TypeOK'
  BY <1>10, CompleteStep
<1>11. ASSUME NEW o \in Owner, NEW a \in Actor, Retry(o, a) PROVE TypeOK'
  BY <1>11, RetryStep
<1>12. ASSUME NEW o \in Owner, NEW a \in Actor, Release(o, a) PROVE TypeOK'
  BY <1>12, ReleaseStep
<1>13. ASSUME NEW o \in Owner, Stop(o) PROVE TypeOK'
  BY <1>13, StopStep
<1>14. ASSUME NEW o \in Owner, Start(o) \/ Crash(o) PROVE TypeOK'
  BY <1>14, ProcessStep
<1>15. CASE UNCHANGED vars
  BY <1>15 DEF vars, TypeOK
<1>. QED
  BY <1>1, <1>2, <1>3, <1>4, <1>5, <1>6, <1>7, <1>8, <1>9,
     <1>10, <1>11, <1>12, <1>13, <1>14, <1>15
  DEF Next, Coordinate, Deliver, Poll

\* In every behaviour the rows, scans and deliveries of the scheduler have
\* their types, whatever processes fail, stop and die.
THEOREM SchedulerTypeCorrect == Spec => []TypeOK
  BY TypeInit, TypeStep, PTL DEF Spec

(***************************************************************************)
(* A delivery is never ahead of its alarm: generations come from sets, and *)
(* of one generation only retries lead on.  So a row that was replaced is  *)
(* never taken for the one a delivery claimed.                             *)
(***************************************************************************)
GenInv ==
    /\ \A a \in Actor : alarm[a] # NoAlarm => alarm[a].gen = sets[a]
    /\ \A o \in Owner, a \in Actor : job[o][a].gen <= sets[a]
    /\ \A o \in Owner, a \in Actor :
         alarm[a] # NoAlarm /\ job[o][a].gen = alarm[a].gen => job[o][a].tries <= alarm[a].tries

LEMMA GenInit == Init => GenInv
  BY DEF Init, GenInv, NoJob

\* Row by row: what a step that sets no alarm must not do.
RowOnward(a) ==
    \/ alarm'[a] = NoAlarm
    \/ /\ alarm[a] # NoAlarm /\ alarm'[a].gen = alarm[a].gen
       /\ alarm'[a].tries >= alarm[a].tries
GenKept(a) ==
    /\ RowOnward(a)
    /\ \A o \in Owner :
         \/ job'[o][a].gen = job[o][a].gen /\ job'[o][a].tries = job[o][a].tries
         \/ job'[o][a].gen = 0 /\ job'[o][a].tries = 0
         \/ /\ alarm[a] # NoAlarm
            /\ job'[o][a].gen = alarm[a].gen /\ job'[o][a].tries = alarm[a].tries

LEMMA GenKeep ==
  ASSUME TypeOK, TypeOK', GenInv, UNCHANGED sets, \A a \in Actor : GenKept(a)
  PROVE  GenInv'
<1>1. \A a \in Actor : alarm'[a] # NoAlarm => alarm'[a].gen = sets'[a]
  BY DEF GenInv, GenKept, RowOnward
<1>2. ASSUME NEW o \in Owner, NEW a \in Actor PROVE job'[o][a].gen <= sets'[a]
  <2>1. job[o][a].gen <= sets[a] /\ sets[a] \in Nat
    BY SchedulerAssumption DEF GenInv, TypeOK
  <2>. QED BY <2>1 DEF GenInv, GenKept
<1>3. ASSUME NEW o \in Owner, NEW a \in Actor, alarm'[a] # NoAlarm, job'[o][a].gen = alarm'[a].gen
      PROVE  job'[o][a].tries <= alarm'[a].tries
  <2>1. /\ alarm[a] # NoAlarm /\ alarm'[a].gen = alarm[a].gen /\ alarm'[a].tries >= alarm[a].tries
    BY <1>3 DEF GenKept, RowOnward
  <2>2. alarm[a] \in Alarm /\ alarm'[a] \in Alarm
    BY <1>3, <2>1 DEF TypeOK
  <2>3. alarm[a].gen \in 1 .. MaxSets /\ alarm[a].tries \in Nat /\ alarm'[a].tries \in Nat
    BY <2>2, SchedulerAssumption DEF Alarm
  <2>4. job[o][a].tries \in Nat
    BY SchedulerAssumption DEF TypeOK
  <2>5. job[o][a].gen = alarm[a].gen => job[o][a].tries <= alarm[a].tries
    BY <2>1 DEF GenInv
  <2>. QED BY <1>3, <2>1, <2>3, <2>4, <2>5 DEF GenKept
<1>. QED BY <1>1, <1>2, <1>3 DEF GenInv

\* A row that no statement touched, or whose compared columns stay.
LEMMA RowGenKept ==
  ASSUME TypeOK, NEW a \in Actor,
         RowSame(a) \/ (/\ alarm[a] \in Alarm /\ alarm'[a] \in Alarm
                        /\ alarm'[a].gen = alarm[a].gen /\ alarm'[a].tries = alarm[a].tries)
  PROVE  RowOnward(a)
<1>. USE DEF RowOnward
<1>1. CASE RowSame(a)
  <2>1. alarm[a] = NoAlarm \/ alarm[a] \in Alarm
    BY DEF TypeOK
  <2>2. CASE alarm[a] \in Alarm
    BY <1>1, <2>2, RowIsNoNoAlarm, SchedulerAssumption DEF RowSame, Alarm
  <2>. QED BY <1>1, <2>1, <2>2 DEF RowSame
<1>2. CASE ~RowSame(a)
  BY <1>2, RowIsNoNoAlarm, SchedulerAssumption DEF Alarm
<1>. QED BY <1>1, <1>2

LEMMA TakeOnward ==
  ASSUME TypeOK, NEW o \in Owner, NEW v \in Seen, MayTake(alarm[v.actor], v), Take(o, v)
  PROVE  \A b \in Actor : RowOnward(b)
<1>1. ASSUME NEW b \in Actor, b # v.actor PROVE RowOnward(b)
  BY <1>1, TakeStep, RowGenKept
<1>2. RowOnward(v.actor)
  BY TakeStep, RowGenKept
<1>. QED BY <1>1, <1>2

LEMMA GenStep == TypeOK /\ GenInv /\ [Next]_vars => GenInv'
<1>. SUFFICES ASSUME TypeOK, GenInv, [Next]_vars PROVE GenInv'
  OBVIOUS
<1>. USE TypeStep
<1>1. ASSUME NEW a \in Actor, SetAlarm(a) PROVE GenInv'
  <2>1. /\ \A b \in Actor \ {a} : RowSame(b) /\ sets'[b] = sets[b]
        /\ alarm'[a].gen = sets'[a] /\ sets'[a] = sets[a] + 1 /\ UNCHANGED job
    BY <1>1, SetAlarmStep DEF SetAlarm
  <2>2. \A o \in Owner : job[o][a].gen <= sets[a] /\ job[o][a].gen \in Nat /\ sets[a] \in Nat
    BY SchedulerAssumption DEF GenInv, TypeOK
  <2>. QED BY <2>1, <2>2 DEF GenInv, RowSame
<1>2. ASSUME NEW a \in Actor, DeleteAlarm(a) PROVE GenInv'
  <2>1. \A b \in Actor : GenKept(b)
    BY <1>2, DeleteAlarmStep, RowGenKept DEF DeleteAlarm, GenKept, RowOnward
  <2>. QED BY <1>2, <2>1, GenKeep DEF DeleteAlarm
<1>3. ASSUME NEW a \in Actor, BecomeDue(a) PROVE GenInv'
  <2>1. \A b \in Actor : GenKept(b)
    BY <1>3, BecomeDueStep, RowGenKept DEF BecomeDue, GenKept, Aged
  <2>. QED BY <1>3, <2>1, GenKeep DEF BecomeDue
<1>4. ASSUME NEW a \in Actor, Expire(a) PROVE GenInv'
  <2>1. \A b \in Actor : GenKept(b)
    BY <1>4, ExpireStep, RowGenKept DEF Expire, GenKept, Aged
  <2>. QED BY <1>4, <2>1, GenKeep DEF Expire
<1>5. ASSUME NEW o \in Owner, NEW a \in Actor, Renew(o, a) PROVE GenInv'
  <2>1. \A b \in Actor : GenKept(b)
    BY <1>5, RenewStep, RowGenKept DEF Renew, GenKept, Aged
  <2>. QED BY <1>5, <2>1, GenKeep DEF Renew
<1>6. ASSUME NEW o \in Owner, Scan(o) \/ PassOver(o) PROVE GenInv'
  BY <1>6, ScanStep DEF GenInv
<1>7. ASSUME NEW o \in Owner, NEW v \in queue[o], Claim(o, v) PROVE GenInv'
  <2>1. CASE UNCHANGED <<alarm, job>>
    BY <1>7, <2>1 DEF Claim, GenInv
  <2>2. CASE /\ MayTake(alarm[v.actor], v) /\ Take(o, v) /\ v \in Seen
             /\ \A p \in Owner, b \in Actor : p # o \/ b # v.actor => JobSame(p, b)
             /\ job'[o][v.actor] = [at |-> "dispatch", gen |-> v.gen, tries |-> v.tries]
    <3>1. \A b \in Actor : RowOnward(b)
      BY <2>2, TakeOnward
    <3>2. /\ job'[o][v.actor].gen = v.gen /\ job'[o][v.actor].tries = v.tries
          /\ alarm[v.actor] # NoAlarm
          /\ v.gen = alarm[v.actor].gen /\ v.tries = alarm[v.actor].tries
      BY <2>2 DEF MayTake, IsStill
    <3>3. \A b \in Actor : GenKept(b)
      BY <2>2, <3>1, <3>2 DEF GenKept, JobSame
    <3>. QED BY <1>7, <3>3, GenKeep DEF Claim
  <2>. QED BY <1>7, <2>1, <2>2, ClaimStep
<1>8. ASSUME NEW o \in Owner, NEW v \in queue[o], ClaimFails(o, v) PROVE GenInv'
  <2>1. \A b \in Actor : GenKept(b)
    <3>1. UNCHANGED job
      BY <1>8, ClaimFailsStep
    <3>2. \A b \in Actor : RowOnward(b)
      BY <1>8, ClaimFailsStep, TakeOnward, RowGenKept DEF RowSame
    <3>. QED BY <3>1, <3>2 DEF GenKept
  <2>. QED BY <1>8, <2>1, GenKeep DEF ClaimFails
<1>9. ASSUME NEW o \in Owner, NEW a \in Actor, HandlerEnds(o, a) PROVE GenInv'
  <2>1. \A b \in Actor : GenKept(b)
    BY <1>9, HandlerEndsStep, RowGenKept DEF GenKept, MovesJob, RowSame, JobSame
  <2>. QED BY <1>9, <2>1, GenKeep, HandlerEndsStep
<1>10. ASSUME NEW o \in Owner, NEW a \in Actor, Complete(o, a) PROVE GenInv'
  <2>1. \A b \in Actor : GenKept(b)
    <3>1. \A b \in Actor : RowSame(b) \/ alarm'[b] = NoAlarm
      BY <1>10, CompleteStep DEF RowSame
    <3>2. \A p \in Owner, b \in Actor :
            job'[p][b].gen = job[p][b].gen /\ job'[p][b].tries = job[p][b].tries
      BY <1>10, CompleteStep DEF MovesJob, JobSame
    <3>. QED BY <3>1, <3>2, RowGenKept DEF GenKept, RowOnward
  <2>. QED BY <1>10, <2>1, GenKeep, CompleteStep
<1>11. ASSUME NEW o \in Owner, NEW a \in Actor, Retry(o, a) PROVE GenInv'
  <2>1. \A p \in Owner, b \in Actor :
          job'[p][b].gen = job[p][b].gen /\ job'[p][b].tries = job[p][b].tries
    BY <1>11, RetryStep DEF MovesJob, JobSame
  <2>2. \A b \in Actor \ {a} : RowSame(b)
    BY <1>11, RetryStep DEF RowSame
  <2>3. RowSame(a) \/ RowOnward(a)
    BY <1>11, RetryStep, RowIsNoNoAlarm, SchedulerAssumption DEF RowSame, Alarm, RowOnward
  <2>4. \A b \in Actor : GenKept(b)
    BY <2>1, <2>2, <2>3, RowGenKept DEF GenKept
  <2>. QED BY <1>11, <2>4, GenKeep, RetryStep
<1>12. ASSUME NEW o \in Owner, NEW a \in Actor, Release(o, a) PROVE GenInv'
  <2>1. NoJob.gen = 0 /\ NoJob.tries = 0
    BY DEF NoJob
  <2>2. \A b \in Actor : GenKept(b)
    BY <1>12, <2>1, ReleaseStep, RowGenKept DEF GenKept, RowSame, JobSame
  <2>. QED BY <1>12, <2>2, GenKeep, ReleaseStep
<1>13. ASSUME NEW o \in Owner, Stop(o) PROVE GenInv'
  BY <1>13, StopStep DEF GenInv
<1>14. ASSUME NEW o \in Owner, Start(o) \/ Crash(o) PROVE GenInv'
  <2>1. \A b \in Actor : RowOnward(b)
    BY <1>14, ProcessStep, DisownedStep, RowGenKept
  <2>2. \A p \in Owner, b \in Actor :
          \/ job'[p][b].gen = job[p][b].gen /\ job'[p][b].tries = job[p][b].tries
          \/ job'[p][b].gen = 0 /\ job'[p][b].tries = 0
    <3>1. CASE Start(o)
      BY <3>1 DEF Start
    <3>2. CASE Crash(o)
      <4>1. \A p \in Owner, b \in Actor : job'[p][b] = IF p = o THEN NoJob ELSE job[p][b]
        BY <3>2 DEF Crash, TypeOK
      <4>. QED BY <4>1 DEF NoJob
    <3>. QED BY <1>14, <3>1, <3>2
  <2>3. \A b \in Actor : GenKept(b)
    BY <2>1, <2>2 DEF GenKept
  <2>. QED BY <1>14, <2>3, GenKeep, ProcessStep
<1>15. CASE UNCHANGED vars
  BY <1>15 DEF vars, GenInv
<1>. QED
  BY <1>1, <1>2, <1>3, <1>4, <1>5, <1>6, <1>7, <1>8, <1>9,
     <1>10, <1>11, <1>12, <1>13, <1>14, <1>15
  DEF Next, Coordinate, Deliver, Poll

(***************************************************************************)
(* RunsOnce.  While the handler of an alarm runs for the row as it still   *)
(* is, and the claim has not expired under it, that claim is live and its  *)
(* own; so no other process may take the row.                              *)
(***************************************************************************)
RunInv ==
    \A a \in Actor \ overrun, o \in Owner :
        job[o][a].at = "dispatch" /\ IsStill(alarm[a], job[o][a]) =>
            alarm[a].by = o /\ alarm[a].live

LEMMA RunInit == Init => RunInv /\ RunsOnce
  BY DEF Init, RunInv, RunsOnce, NoJob

\* A step that starts no handler of this alarm, and takes no row from one.
RunKept(a) ==
    \A o \in Owner :
        job'[o][a].at = "dispatch" =>
            /\ job[o][a].at = "dispatch"
            /\ job'[o][a].gen = job[o][a].gen /\ job'[o][a].tries = job[o][a].tries
            /\ IsStill(alarm'[a], job[o][a]) =>
                 /\ IsStill(alarm[a], job[o][a])
                 /\ alarm[a].by = o /\ alarm[a].live => alarm'[a].by = o /\ alarm'[a].live

LEMMA RunKeep ==
  ASSUME RunInv, RunsOnce, overrun \subseteq overrun', \A a \in Actor \ overrun' : RunKept(a)
  PROVE  RunInv' /\ RunsOnce'
<1>1. ASSUME NEW a \in Actor \ overrun', NEW o \in Owner,
             job'[o][a].at = "dispatch", IsStill(alarm'[a], job'[o][a])
      PROVE  alarm'[a].by = o /\ alarm'[a].live
  BY <1>1 DEF RunInv, RunKept, IsStill
<1>2. ASSUME NEW a \in Actor \ overrun', NEW o \in Owner, NEW p \in Owner,
             job'[o][a].at = "dispatch", job'[p][a].at = "dispatch",
             job'[o][a].gen = job'[p][a].gen, job'[o][a].tries = job'[p][a].tries
      PROVE  o = p
  BY <1>2 DEF RunsOnce, RunKept
<1>. QED BY <1>1, <1>2 DEF RunInv, RunsOnce

\* While a handler runs for the row as it is, nobody else may take it.
LEMMA TakenFromNobody ==
  ASSUME TypeOK, RunInv, NEW v \in Seen, v.actor \notin overrun, MayTake(alarm[v.actor], v)
  PROVE  \A p \in Owner : ~(job[p][v.actor].at = "dispatch" /\ IsStill(alarm[v.actor], job[p][v.actor]))
  BY SchedulerAssumption DEF RunInv, MayTake, Unclaimed, Seen

LEMMA RunStep == TypeOK /\ GenInv /\ RunInv /\ RunsOnce /\ [Next]_vars => RunInv' /\ RunsOnce'
<1>. SUFFICES ASSUME TypeOK, GenInv, RunInv, RunsOnce, [Next]_vars PROVE RunInv' /\ RunsOnce'
  OBVIOUS
<1>1. ASSUME NEW a \in Actor, SetAlarm(a) PROVE RunInv' /\ RunsOnce'
  <2>1. \A b \in Actor \ {a} : RunKept(b)
    BY <1>1, SetAlarmStep DEF SetAlarm, RunKept, RowSame
  <2>2. \A o \in Owner : ~IsStill(alarm'[a], job[o][a])
    <3>1. \A o \in Owner : job[o][a].gen <= sets[a] /\ job[o][a].gen \in Nat /\ sets[a] \in Nat
      BY SchedulerAssumption DEF GenInv, TypeOK
    <3>. QED BY <1>1, <3>1, SetAlarmStep DEF IsStill
  <2>3. RunKept(a)
    BY <1>1, <2>2 DEF SetAlarm, RunKept
  <2>. QED BY <1>1, <2>1, <2>3, RunKeep DEF SetAlarm
<1>2. ASSUME NEW a \in Actor, DeleteAlarm(a) PROVE RunInv' /\ RunsOnce'
  <2>1. \A b \in Actor : RunKept(b)
    BY <1>2, DeleteAlarmStep DEF DeleteAlarm, RunKept, RowSame, IsStill
  <2>. QED BY <1>2, <2>1, RunKeep DEF DeleteAlarm
<1>3. ASSUME NEW a \in Actor, BecomeDue(a) PROVE RunInv' /\ RunsOnce'
  <2>1. \A b \in Actor : RunKept(b)
    BY <1>3, BecomeDueStep, RowIsNoNoAlarm DEF BecomeDue, RunKept, RowSame, IsStill, Aged
  <2>. QED BY <1>3, <2>1, RunKeep DEF BecomeDue
<1>4. ASSUME NEW a \in Actor, Expire(a) PROVE RunInv' /\ RunsOnce'
  <2>1. \A b \in Actor \ {a} : RunKept(b)
    BY <1>4, ExpireStep DEF Expire, RunKept, RowSame
  <2>2. ASSUME a \notin overrun' PROVE RunKept(a)
    <3>1. \A o \in Owner : job[o][a].at = "dispatch" => a \in Active(o)
      BY DEF Active
    <3>2. a \notin overrun /\ ~(alarm[a].by \in Owner /\ a \in Active(alarm[a].by))
      BY <1>4, <2>2, ExpireStep
    <3>3. \A o \in Owner : ~(job[o][a].at = "dispatch" /\ IsStill(alarm[a], job[o][a]))
      BY <3>1, <3>2 DEF RunInv
    <3>. QED BY <1>4, <3>3, ExpireStep, RowIsNoNoAlarm DEF Expire, RunKept, IsStill, Aged
  <2>. QED BY <1>4, <2>1, <2>2, ExpireStep, RunKeep
<1>5. ASSUME NEW o \in Owner, NEW a \in Actor, Renew(o, a) PROVE RunInv' /\ RunsOnce'
  <2>1. \A b \in Actor : RunKept(b)
    BY <1>5, RenewStep, RowIsNoNoAlarm DEF Renew, RunKept, RowSame, IsStill, Aged
  <2>. QED BY <1>5, <2>1, RunKeep DEF Renew
<1>6. ASSUME NEW o \in Owner, Scan(o) \/ PassOver(o) PROVE RunInv' /\ RunsOnce'
  BY <1>6, ScanStep DEF RunInv, RunsOnce
<1>7. ASSUME NEW o \in Owner, NEW v \in queue[o], Claim(o, v) PROVE RunInv' /\ RunsOnce'
  <2>1. CASE UNCHANGED <<alarm, job>>
    BY <1>7, <2>1 DEF Claim, RunInv, RunsOnce
  <2>2. CASE /\ MayTake(alarm[v.actor], v) /\ Take(o, v) /\ v \in Seen
             /\ \A p \in Owner, b \in Actor : p # o \/ b # v.actor => JobSame(p, b)
             /\ job'[o][v.actor] = [at |-> "dispatch", gen |-> v.gen, tries |-> v.tries]
    <3>1. UNCHANGED overrun
      BY <1>7 DEF Claim
    <3>2. /\ job'[o][v.actor].at = "dispatch"
          /\ job'[o][v.actor].gen = v.gen /\ job'[o][v.actor].tries = v.tries
      BY <2>2
    <3>3. ASSUME v.actor \notin overrun, NEW p \in Owner, p # o,
                 job'[p][v.actor].at = "dispatch"
          PROVE  ~IsStill(alarm[v.actor], job'[p][v.actor])
      <4>1. v.actor \in Actor
        BY <2>2, TakeStep
      <4>2. JobSame(p, v.actor)
        BY <2>2, <3>3, <4>1
      <4>. QED BY <2>2, <3>3, <4>2, TakenFromNobody DEF JobSame
    <3>6. /\ v.actor \in Actor /\ \A b \in Actor \ {v.actor} : RowSame(b)
          /\ alarm'[v.actor].by = o /\ alarm'[v.actor].live = TRUE
          /\ alarm[v.actor] # NoAlarm
          /\ alarm'[v.actor].gen = alarm[v.actor].gen /\ alarm'[v.actor].tries = alarm[v.actor].tries
      <4>1. MayTake(alarm[v.actor], v) /\ Take(o, v) /\ v \in Seen
        BY <2>2
      <4>2. /\ alarm[v.actor] \in Alarm
            /\ alarm'[v.actor].gen = v.gen /\ alarm'[v.actor].tries = v.tries
            /\ alarm[v.actor].gen = v.gen /\ alarm[v.actor].tries = v.tries
        BY <4>1, TakeStep
      <4>3. /\ v.actor \in Actor /\ \A b \in Actor \ {v.actor} : RowSame(b)
            /\ alarm'[v.actor].by = o /\ alarm'[v.actor].live = TRUE
        BY <4>1, TakeStep
      <4>. QED BY <4>2, <4>3, RowIsNoNoAlarm
    <3>4. ASSUME NEW a \in Actor \ overrun', NEW p \in Owner,
                 job'[p][a].at = "dispatch", IsStill(alarm'[a], job'[p][a])
          PROVE  alarm'[a].by = p /\ alarm'[a].live
      <4>1. CASE a # v.actor
        <5>1. RowSame(a) /\ JobSame(p, a)
          BY <2>2, <3>6, <4>1
        <5>. QED BY <3>1, <3>4, <5>1 DEF RunInv, RowSame, JobSame
      <4>2. CASE a = v.actor /\ p # o
        <5>1. ~IsStill(alarm[a], job'[p][a])
          BY <3>1, <3>3, <3>4, <4>2
        <5>. QED BY <3>6, <3>4, <4>2, <5>1 DEF IsStill
      <4>. QED BY <3>6, <4>1, <4>2
    <3>5. RunsOnce'
      BY <2>2, <3>1, <3>2, <3>3, TakeStep DEF RunsOnce, JobSame, IsStill, MayTake
    <3>. QED BY <3>4, <3>5 DEF RunInv
  <2>. QED BY <1>7, <2>1, <2>2, ClaimStep
<1>8. ASSUME NEW o \in Owner, NEW v \in queue[o], ClaimFails(o, v) PROVE RunInv' /\ RunsOnce'
  <2>1. \A b \in Actor \ overrun : RunKept(b)
    <3>1. UNCHANGED job
      BY <1>8, ClaimFailsStep
    <3>2. CASE UNCHANGED alarm
      BY <3>1, <3>2 DEF RunKept
    <3>3. CASE MayTake(alarm[v.actor], v) /\ Take(o, v) /\ v \in Seen
      <4>3. /\ v.actor \in Actor /\ \A b \in Actor \ {v.actor} : RowSame(b)
            /\ alarm[v.actor] # NoAlarm
            /\ alarm'[v.actor].gen = alarm[v.actor].gen
            /\ alarm'[v.actor].tries = alarm[v.actor].tries
        BY <3>3, TakeStep, RowIsNoNoAlarm
      <4>1. ASSUME NEW b \in Actor, b # v.actor PROVE RunKept(b)
        BY <3>1, <4>3, <4>1 DEF RunKept, RowSame
      <4>2. ASSUME v.actor \notin overrun PROVE RunKept(v.actor)
        <5>1. \A p \in Owner :
                ~(job[p][v.actor].at = "dispatch" /\ IsStill(alarm[v.actor], job[p][v.actor]))
          BY <3>3, <4>2, TakenFromNobody
        <5>. QED BY <3>1, <4>3, <5>1 DEF RunKept, IsStill
      <4>. QED BY <4>1, <4>2
    <3>. QED BY <1>8, <3>2, <3>3, ClaimFailsStep
  <2>. QED BY <1>8, <2>1, RunKeep DEF ClaimFails
<1>9. ASSUME NEW o \in Owner, NEW a \in Actor, HandlerEnds(o, a) PROVE RunInv' /\ RunsOnce'
  <2>1. \A b \in Actor : RunKept(b)
    BY <1>9, HandlerEndsStep DEF RunKept, MovesJob, JobSame
  <2>. QED BY <1>9, <2>1, RunKeep, HandlerEndsStep
<1>10. ASSUME NEW o \in Owner, NEW a \in Actor, Complete(o, a) PROVE RunInv' /\ RunsOnce'
  <2>1. \A b \in Actor : RowSame(b) \/ alarm'[b] = NoAlarm
    BY <1>10, CompleteStep DEF RowSame
  <2>2. \A b \in Actor : RunKept(b)
    BY <1>10, <2>1, CompleteStep DEF RunKept, MovesJob, RowSame, JobSame, IsStill
  <2>. QED BY <1>10, <2>2, RunKeep, CompleteStep
<1>11. ASSUME NEW o \in Owner, NEW a \in Actor, Retry(o, a) PROVE RunInv' /\ RunsOnce'
  <2>1. \A b \in Actor : RowSame(b) \/ \A p \in Owner : ~IsStill(alarm'[b], job[p][b])
    <3>1. ASSUME ~RowSame(a), NEW p \in Owner PROVE ~IsStill(alarm'[a], job[p][a])
      <4>1. /\ alarm[a] \in Alarm /\ alarm'[a].gen = alarm[a].gen
            /\ alarm'[a].tries = alarm[a].tries + 1
        BY <1>11, <3>1, RetryStep DEF RowSame
      <4>2. alarm[a] # NoAlarm /\ alarm[a].tries \in Nat
        BY <4>1, RowIsNoNoAlarm, SchedulerAssumption DEF Alarm
      <4>3. job[p][a].gen = alarm[a].gen => job[p][a].tries <= alarm[a].tries
        BY <4>2 DEF GenInv
      <4>4. job[p][a].tries \in Nat
        BY SchedulerAssumption DEF TypeOK
      <4>. QED BY <4>1, <4>2, <4>3, <4>4 DEF IsStill
    <3>2. \A b \in Actor \ {a} : RowSame(b)
      BY <1>11, RetryStep DEF RowSame
    <3>. QED BY <3>1, <3>2
  <2>2. \A b \in Actor : RunKept(b)
    BY <1>11, <2>1, RetryStep DEF RunKept, MovesJob, RowSame, JobSame
  <2>. QED BY <1>11, <2>2, RunKeep, RetryStep
<1>12. ASSUME NEW o \in Owner, NEW a \in Actor, Release(o, a) PROVE RunInv' /\ RunsOnce'
  <2>1. NoJob.at = "none"
    BY DEF NoJob
  <2>2. \A b \in Actor \ {a} : RunKept(b)
    BY <1>12, ReleaseStep DEF RunKept, RowSame, JobSame
  <2>3. a \notin overrun => RunKept(a)
    BY <1>12, <2>1, ReleaseStep, RowIsNoNoAlarm DEF RunInv, RunKept, RowSame, JobSame, IsStill
  <2>. QED BY <1>12, <2>2, <2>3, RunKeep, ReleaseStep
<1>13. ASSUME NEW o \in Owner, Stop(o) PROVE RunInv' /\ RunsOnce'
  BY <1>13, StopStep DEF RunInv, RunsOnce
<1>14. ASSUME NEW o \in Owner, Start(o) \/ Crash(o) PROVE RunInv' /\ RunsOnce'
  <2>1. \A a \in Actor \ overrun : RunKept(a)
    BY <1>14, ProcessStep, DisownedStep, RowIsNoNoAlarm DEF RunInv, RunKept, RowSame, JobSame, IsStill
  <2>. QED BY <1>14, <2>1, RunKeep, ProcessStep
<1>15. CASE UNCHANGED vars
  BY <1>15 DEF vars, RunInv, RunsOnce
<1>. QED
  BY <1>1, <1>2, <1>3, <1>4, <1>5, <1>6, <1>7, <1>8, <1>9,
     <1>10, <1>11, <1>12, <1>13, <1>14, <1>15
  DEF Next, Coordinate, Deliver, Poll

\* Unless its claim expires under a stalled process, the handler of one alarm
\* never runs in two processes at once.
THEOREM RunsOnceAlways == Spec => []RunsOnce
<1>1. Init => TypeOK /\ GenInv /\ RunInv /\ RunsOnce
  BY TypeInit, GenInit, RunInit
<1>2. TypeOK /\ GenInv /\ RunInv /\ RunsOnce /\ [Next]_vars
        => (TypeOK /\ GenInv /\ RunInv /\ RunsOnce)'
  BY TypeStep, GenStep, RunStep
<1>. QED BY <1>1, <1>2, PTL DEF Spec

(***************************************************************************)
(* DurableScheduler implements AlarmPromise.  What a coordinator asked for *)
(* is the generation counter, its fate is the row and how the last one     *)
(* went away, and it is served by deliveries that still own their row.     *)
(* Setting, deleting and consuming a row are Want, Forget and Settle, a    *)
(* claim that starts a handler is Serve, and every other step at most ends *)
(* the service of some alarms.                                             *)
(***************************************************************************)
LEMMA PromiseInit == Init => Promise!Init
<1>. SUFFICES ASSUME Init PROVE Promise!Init
  OBVIOUS
<1>1. Fate = [a \in Actor |-> "none"]
  BY DEF Init, Fate
<1>2. Served = {}
  BY DEF Init, Served
<1>. QED BY <1>1, <1>2 DEF Init, Promise!Init

\* A delivery that still owns its row is at most going on.
ServesNoMore(a) == \A o \in Owner : Serving(o, a)' => Serving(o, a)

\* Steps that keep every row, and start no delivery, let service lapse.
LEMMA LapseStep ==
  ASSUME UNCHANGED <<sets, ended>>,
         \A a \in Actor : (alarm'[a] = NoAlarm) <=> (alarm[a] = NoAlarm),
         \A a \in Actor : ServesNoMore(a)
  PROVE  Promise!Lapse
<1>1. Fate' = Fate
  BY DEF Fate
<1>2. Served' \in SUBSET Served
  BY DEF Served, ServesNoMore
<1>. QED BY <1>1, <1>2 DEF Promise!Lapse

LEMMA Unserved ==
  ASSUME NEW a \in Actor, alarm'[a] = NoAlarm \/ \A o \in Owner : ~Serving(o, a)'
  PROVE  a \notin Served'
  BY DEF Served

\* The alarms whose row and deliveries stay.
LEMMA ServedSame ==
  ASSUME NEW a \in Actor, RowSame(a), \A o \in Owner : JobSame(o, a)
  PROVE  a \in Served' <=> a \in Served
  BY DEF Served, Serving, Owns, IsStill, RowSame, JobSame

LEMMA WantStep ==
  ASSUME TypeOK, GenInv, NEW a \in Actor, SetAlarm(a)
  PROVE  Promise!Want(a)
<1>1. /\ \A b \in Actor \ {a} : RowSame(b) /\ sets'[b] = sets[b] /\ ended'[b] = ended[b]
      /\ alarm'[a] \in Alarm /\ alarm'[a].gen = sets'[a] /\ sets'[a] = sets[a] + 1
  BY SetAlarmStep
<1>2. UNCHANGED job /\ alarm'[a] # NoAlarm
  BY <1>1, RowIsNoNoAlarm DEF SetAlarm
<1>3. sets' = [sets EXCEPT ![a] = @ + 1]
  BY DEF SetAlarm
<1>4. Fate' = [Fate EXCEPT ![a] = "wanted"]
  BY <1>1, <1>2 DEF Fate, RowSame
<1>5. a \notin Served'
  <2>1. \A o \in Owner : job[o][a].gen <= sets[a] /\ job[o][a].gen \in Nat /\ sets[a] \in Nat
    BY SchedulerAssumption DEF GenInv, TypeOK
  <2>2. \A o \in Owner : ~IsStill(alarm'[a], job'[o][a])
    BY <1>1, <1>2, <2>1 DEF IsStill
  <2>. QED BY <2>2 DEF Served, Serving, Owns
<1>6. \A b \in Actor \ {a} : b \in Served' <=> b \in Served
  BY <1>1, <1>2, ServedSame DEF JobSame
<1>7. Served' = Served \ {a}
  BY <1>5, <1>6 DEF Served
<1>. QED BY <1>3, <1>4, <1>7 DEF Promise!Want

LEMMA ForgetStep ==
  ASSUME TypeOK, NEW a \in Actor, DeleteAlarm(a)
  PROVE  Promise!Forget(a)
<1>1. /\ \A b \in Actor \ {a} : RowSame(b) /\ ended'[b] = ended[b]
      /\ alarm'[a] = NoAlarm /\ ended'[a] = "forgotten"
  BY DeleteAlarmStep
<1>2. alarm[a] # NoAlarm /\ UNCHANGED <<sets, job>>
  BY DEF DeleteAlarm
<1>3. Fate[a] = "wanted" /\ Fate' = [Fate EXCEPT ![a] = "forgotten"]
  BY <1>1, <1>2 DEF Fate, RowSame
<1>4. a \notin Served'
  BY <1>1, Unserved
<1>5. \A b \in Actor \ {a} : b \in Served' <=> b \in Served
  BY <1>1, <1>2, ServedSame DEF JobSame
<1>6. Served' = Served \ {a}
  BY <1>4, <1>5 DEF Served
<1>. QED BY <1>2, <1>3, <1>6 DEF Promise!Forget

LEMMA ServeStep ==
  ASSUME TypeOK, NEW o \in Owner, NEW v \in Seen, UNCHANGED <<sets, ended>>,
         MayTake(alarm[v.actor], v), Take(o, v),
         \A p \in Owner, b \in Actor : p # o \/ b # v.actor => JobSame(p, b),
         job'[o][v.actor] = [at |-> "dispatch", gen |-> v.gen, tries |-> v.tries]
  PROVE  Promise!Serve(v.actor)
<1>1. /\ v.actor \in Actor /\ \A b \in Actor \ {v.actor} : RowSame(b)
      /\ alarm[v.actor] \in Alarm /\ alarm'[v.actor] \in Alarm
      /\ alarm'[v.actor].gen = v.gen /\ alarm'[v.actor].tries = v.tries
      /\ alarm'[v.actor].by = o
  BY TakeStep
<1>2. alarm[v.actor] # NoAlarm /\ alarm'[v.actor] # NoAlarm
  BY <1>1, RowIsNoNoAlarm
<1>3. Fate[v.actor] = "wanted" /\ Fate' = Fate
  BY <1>1, <1>2 DEF Fate, RowSame
<1>4. /\ job'[o][v.actor].at = "dispatch"
      /\ job'[o][v.actor].gen = v.gen /\ job'[o][v.actor].tries = v.tries
  OBVIOUS
<1>5. v.actor \in Served'
  BY <1>1, <1>2, <1>4 DEF Served, Serving, Owns, IsStill
<1>6. \A b \in Actor \ {v.actor} : b \in Served' <=> b \in Served
  BY <1>1, ServedSame
<1>7. Served' = Served \cup {v.actor}
  BY <1>1, <1>5, <1>6 DEF Served
<1>. QED BY <1>3, <1>7 DEF Promise!Serve

LEMMA SettleStep ==
  ASSUME TypeOK, NEW o \in Owner, NEW a \in Actor, Complete(o, a), Owns(o, a),
         alarm'[a] = NoAlarm, ended'[a] = "settled",
         \A b \in Actor \ {a} : RowSame(b) /\ ended'[b] = ended[b]
  PROVE  Promise!Settle(a)
<1>1. /\ job[o][a].at = "complete" /\ UNCHANGED sets
      /\ \A p \in Owner, b \in Actor : p # o \/ b # a => JobSame(p, b)
  BY CompleteStep DEF MovesJob
<1>2. alarm[a] # NoAlarm
  BY DEF Owns, IsStill
<1>3. a \in Served
  BY <1>1, <1>2 DEF Served, Serving
<1>4. Fate' = [Fate EXCEPT ![a] = "settled"]
  BY <1>2 DEF Fate, RowSame
<1>5. a \notin Served'
  BY Unserved
<1>6. \A b \in Actor \ {a} : b \in Served' <=> b \in Served
  BY <1>1, ServedSame
<1>7. Served' = Served \ {a}
  BY <1>5, <1>6 DEF Served
<1>. QED BY <1>1, <1>3, <1>4, <1>7 DEF Promise!Settle

\* Rows that keep what a delivery compares, when no delivery starts.
LEMMA ServesKept ==
  ASSUME NEW a \in Actor,
         \A o \in Owner : Serving(o, a)' => job[o][a].at \in {"dispatch", "complete"},
         \A o \in Owner : Serving(o, a)' => job'[o][a].gen = job[o][a].gen
                                            /\ job'[o][a].tries = job[o][a].tries,
         RowSame(a) \/ (/\ alarm[a] \in Alarm /\ alarm'[a] \in Alarm
                        /\ Aged(alarm[a], alarm'[a]))
  PROVE  ServesNoMore(a) /\ ((alarm'[a] = NoAlarm) <=> (alarm[a] = NoAlarm))
  BY RowIsNoNoAlarm DEF ServesNoMore, Serving, Owns, IsStill, RowSame, Aged

\* A row that is now nobody's serves no delivery.
LEMMA ServesNobody ==
  ASSUME NEW a \in Actor, alarm[a] \in Alarm, alarm'[a] \in Alarm,
         alarm'[a].by \notin Owner
  PROVE  ServesNoMore(a) /\ ((alarm'[a] = NoAlarm) <=> (alarm[a] = NoAlarm))
  BY RowIsNoNoAlarm DEF ServesNoMore, Serving, Owns

LEMMA PromiseStep ==
  TypeOK /\ GenInv /\ [Next]_vars => [Promise!Next]_(Promise!vars)
<1>. SUFFICES ASSUME TypeOK, GenInv, [Next]_vars PROVE Promise!Next \/ UNCHANGED Promise!vars
  OBVIOUS
<1>0. Nobody \notin Owner /\ Gone \notin Owner
  BY SchedulerAssumption
<1>1. ASSUME NEW a \in Actor, SetAlarm(a) PROVE Promise!Next
  BY <1>1, WantStep DEF Promise!Next
<1>2. ASSUME NEW a \in Actor, DeleteAlarm(a) PROVE Promise!Next
  BY <1>2, ForgetStep DEF Promise!Next
<1>3. ASSUME NEW a \in Actor, BecomeDue(a) \/ Expire(a) PROVE Promise!Lapse
  <2>1. /\ \A b \in Actor \ {a} : RowSame(b)
        /\ alarm[a] \in Alarm /\ alarm'[a] \in Alarm /\ Aged(alarm[a], alarm'[a])
        /\ UNCHANGED <<sets, ended, job>>
    BY <1>3, BecomeDueStep, ExpireStep DEF BecomeDue, Expire
  <2>2. \A b \in Actor : ServesNoMore(b) /\ ((alarm'[b] = NoAlarm) <=> (alarm[b] = NoAlarm))
    BY <2>1, ServesKept DEF Serving
  <2>. QED BY <2>1, <2>2, LapseStep
<1>4. ASSUME NEW o \in Owner, NEW a \in Actor, Renew(o, a) PROVE Promise!Lapse
  <2>1. /\ \A b \in Actor \ {a} : RowSame(b)
        /\ alarm[a] \in Alarm /\ alarm'[a] \in Alarm /\ Aged(alarm[a], alarm'[a])
        /\ UNCHANGED <<sets, ended, job>>
    BY <1>4, RenewStep DEF Renew
  <2>2. \A b \in Actor : ServesNoMore(b) /\ ((alarm'[b] = NoAlarm) <=> (alarm[b] = NoAlarm))
    BY <2>1, ServesKept DEF Serving
  <2>. QED BY <2>1, <2>2, LapseStep
<1>5. ASSUME NEW o \in Owner, Scan(o) \/ PassOver(o) \/ Stop(o) PROVE UNCHANGED Promise!vars
  <2>1. UNCHANGED <<alarm, sets, ended, job>>
    BY <1>5, ScanStep, StopStep
  <2>. QED BY <2>1 DEF Promise!vars, Fate, Served, Serving, Owns, IsStill
<1>6. ASSUME NEW o \in Owner, NEW v \in queue[o], Claim(o, v)
      PROVE  Promise!Next \/ UNCHANGED Promise!vars
  <2>1. UNCHANGED <<sets, ended>>
    BY <1>6 DEF Claim
  <2>2. CASE UNCHANGED <<alarm, job>>
    BY <2>1, <2>2 DEF Promise!vars, Fate, Served, Serving, Owns, IsStill
  <2>3. CASE /\ MayTake(alarm[v.actor], v) /\ Take(o, v) /\ v \in Seen
             /\ \A p \in Owner, b \in Actor : p # o \/ b # v.actor => JobSame(p, b)
             /\ job'[o][v.actor] = [at |-> "dispatch", gen |-> v.gen, tries |-> v.tries]
    BY <2>1, <2>3, ServeStep DEF Promise!Next, Seen
  <2>. QED BY <1>6, <2>2, <2>3, ClaimStep
<1>7. ASSUME NEW o \in Owner, NEW v \in queue[o], ClaimFails(o, v) PROVE Promise!Lapse
  <2>1. UNCHANGED <<sets, ended, job>>
    BY <1>7 DEF ClaimFails
  <2>2. CASE UNCHANGED alarm
    BY <2>1, <2>2, LapseStep DEF ServesNoMore, Serving, Owns, IsStill
  <2>3. CASE /\ MayTake(alarm[v.actor], v) /\ Take(o, v) /\ v \in Seen
             /\ v.actor \notin Active(o)
    <3>1. /\ v.actor \in Actor /\ \A b \in Actor \ {v.actor} : RowSame(b)
          /\ alarm[v.actor] \in Alarm /\ alarm'[v.actor] \in Alarm /\ alarm'[v.actor].by = o
      BY <2>3, TakeStep
    <3>2. \A b \in Actor \ {v.actor} :
            ServesNoMore(b) /\ ((alarm'[b] = NoAlarm) <=> (alarm[b] = NoAlarm))
      BY <2>1, <3>1, ServesKept DEF Serving
    <3>3. job'[o][v.actor].at = "none"
      BY <2>1, <2>3, <3>1 DEF Active
    <3>4. ServesNoMore(v.actor)
      BY <3>1, <3>3 DEF ServesNoMore, Serving, Owns
    <3>5. alarm[v.actor] # NoAlarm /\ alarm'[v.actor] # NoAlarm
      BY <3>1, RowIsNoNoAlarm
    <3>. QED BY <2>1, <3>2, <3>4, <3>5, LapseStep
  <2>. QED BY <1>7, <2>2, <2>3, ClaimFailsStep
<1>8. ASSUME NEW o \in Owner, NEW a \in Actor, HandlerEnds(o, a) PROVE Promise!Lapse
  <2>1. UNCHANGED <<alarm, sets, ended>>
    BY <1>8, HandlerEndsStep
  <2>2. \A b \in Actor : ServesNoMore(b)
    BY <1>8, HandlerEndsStep DEF ServesNoMore, Serving, Owns, IsStill, MovesJob, JobSame
  <2>. QED BY <2>1, <2>2, LapseStep
<1>9. ASSUME NEW o \in Owner, NEW a \in Actor, Complete(o, a) PROVE Promise!Next
  <2>1. CASE UNCHANGED <<alarm, ended>>
    <3>1. \A b \in Actor : ServesNoMore(b)
      BY <1>9, <2>1, CompleteStep DEF ServesNoMore, Serving, Owns, IsStill, MovesJob, JobSame
    <3>2. UNCHANGED sets
      BY <1>9, CompleteStep
    <3>. QED BY <2>1, <3>1, <3>2, LapseStep DEF Promise!Next
  <2>2. CASE /\ Owns(o, a) /\ alarm'[a] = NoAlarm /\ ended'[a] = "settled"
             /\ \A b \in Actor \ {a} : RowSame(b) /\ ended'[b] = ended[b]
    BY <1>9, <2>2, SettleStep DEF Promise!Next
  <2>. QED BY <1>9, <2>1, <2>2, CompleteStep
<1>10. ASSUME NEW o \in Owner, NEW a \in Actor, Retry(o, a) PROVE Promise!Lapse
  <2>1. UNCHANGED <<sets, ended>> /\ MovesJob(o, a, "retry", "release")
    BY <1>10, RetryStep
  <2>2. \A p \in Owner, b \in Actor :
          Serving(p, b)' => /\ job[p][b].at \in {"dispatch", "complete"}
                            /\ job'[p][b].gen = job[p][b].gen /\ job'[p][b].tries = job[p][b].tries
    BY <2>1 DEF Serving, MovesJob, JobSame
  <2>3. \A b \in Actor \ {a} :
          ServesNoMore(b) /\ ((alarm'[b] = NoAlarm) <=> (alarm[b] = NoAlarm))
    <3>1. \A b \in Actor \ {a} : RowSame(b)
      BY <1>10, RetryStep DEF RowSame
    <3>. QED BY <2>2, <3>1, ServesKept
  <2>4. ServesNoMore(a) /\ ((alarm'[a] = NoAlarm) <=> (alarm[a] = NoAlarm))
    <3>1. CASE UNCHANGED alarm
      BY <2>2, <3>1, ServesKept DEF RowSame
    <3>2. CASE alarm[a] \in Alarm /\ alarm'[a] \in Alarm /\ alarm'[a].by = Nobody
      BY <1>0, <3>2, ServesNobody
    <3>. QED BY <1>10, <3>1, <3>2, RetryStep
  <2>. QED BY <2>1, <2>3, <2>4, LapseStep
<1>11. ASSUME NEW o \in Owner, NEW a \in Actor, Release(o, a) PROVE Promise!Lapse
  <2>1. /\ UNCHANGED <<sets, ended>> /\ job'[o][a].at = "none"
        /\ \A p \in Owner, b \in Actor : p # o \/ b # a => JobSame(p, b)
    BY <1>11, ReleaseStep DEF NoJob
  <2>2. \A p \in Owner, b \in Actor :
          Serving(p, b)' => /\ job[p][b].at \in {"dispatch", "complete"}
                            /\ job'[p][b].gen = job[p][b].gen /\ job'[p][b].tries = job[p][b].tries
    BY <2>1 DEF Serving, JobSame
  <2>3. \A b \in Actor \ {a} :
          ServesNoMore(b) /\ ((alarm'[b] = NoAlarm) <=> (alarm[b] = NoAlarm))
    <3>1. \A b \in Actor \ {a} : RowSame(b)
      BY <1>11, ReleaseStep DEF RowSame
    <3>. QED BY <2>2, <3>1, ServesKept
  <2>4. ServesNoMore(a) /\ ((alarm'[a] = NoAlarm) <=> (alarm[a] = NoAlarm))
    <3>1. CASE UNCHANGED alarm
      BY <2>2, <3>1, ServesKept DEF RowSame
    <3>2. CASE alarm[a] \in Alarm /\ alarm'[a] \in Alarm /\ alarm'[a].by = Nobody
      BY <1>0, <3>2, ServesNobody
    <3>. QED BY <1>11, <3>1, <3>2, ReleaseStep
  <2>. QED BY <2>1, <2>3, <2>4, LapseStep
<1>12. ASSUME NEW o \in Owner, Start(o) \/ Crash(o) PROVE Promise!Lapse
  <2>1. /\ UNCHANGED <<sets, ended>> /\ alarm' = Disowned(o)
        /\ \A a \in Actor : job'[o][a].at = "none"
        /\ \A p \in Owner \ {o}, a \in Actor : JobSame(p, a)
    BY <1>12, ProcessStep
  <2>2. \A p \in Owner, b \in Actor :
          Serving(p, b)' => /\ job[p][b].at \in {"dispatch", "complete"}
                            /\ job'[p][b].gen = job[p][b].gen /\ job'[p][b].tries = job[p][b].tries
    BY <2>1 DEF Serving, JobSame
  <2>3. ASSUME NEW a \in Actor
        PROVE  ServesNoMore(a) /\ ((alarm'[a] = NoAlarm) <=> (alarm[a] = NoAlarm))
    <3>1. CASE RowSame(a)
      BY <2>2, <3>1, ServesKept
    <3>2. CASE alarm[a] \in Alarm /\ alarm'[a] \in Alarm /\ alarm'[a].by = Gone
      BY <1>0, <3>2, ServesNobody
    <3>. QED BY <2>1, <3>1, <3>2, DisownedStep
  <2>. QED BY <2>1, <2>3, LapseStep
<1>13. CASE UNCHANGED vars
  BY <1>13 DEF vars, Promise!vars, Fate, Served, Serving, Owns, IsStill
<1>. QED
  BY <1>1, <1>2, <1>3, <1>4, <1>5, <1>6, <1>7, <1>8, <1>9,
     <1>10, <1>11, <1>12, <1>13
  DEF Next, Coordinate, Deliver, Poll, Promise!Next

\* The scheduler keeps the promise of durable alarms: whatever processes do,
\* and however they fail, a wakeup is consumed only by a successful handler run
\* that began after it was asked for, or forgotten by its own coordinator.
THEOREM SchedulerKeepsPromise == Spec => KeepsPromise
<1>1. Init => TypeOK /\ GenInv
  BY TypeInit, GenInit
<1>2. TypeOK /\ GenInv /\ [Next]_vars => (TypeOK /\ GenInv)'
  BY TypeStep, GenStep
<1>. QED
  BY <1>1, <1>2, PromiseInit, PromiseStep, PTL DEF Spec, KeepsPromise, Promise!Spec

(***************************************************************************)
(* backfill/import.ts.                                                     *)
(***************************************************************************)

LEMMA Sizes == MaxTiles \in Int /\ MaxTiles > 0 /\ MaxSnapshots \in Int /\ MaxSnapshots > 0
  BY TemplateBackfillAssumption

(***************************************************************************)
(* Division.                                                               *)
(***************************************************************************)
LEMMA Division ==
  ASSUME NEW m \in Int, m > 0, NEW n \in Nat
  PROVE  /\ n \div m \in Nat /\ n % m \in Nat /\ n % m < m
         /\ n = m * (n \div m) + (n % m)
<1>1. n = m * (n \div m) + (n % m)
  BY Z3
<1>2. n \div m \in Nat /\ n % m \in Nat /\ n % m < m
  BY SMT
<1>. QED BY <1>1, <1>2

LEMMA MultiplesGrow ==
  ASSUME NEW m \in Int, m > 0, NEW p \in Int, NEW q \in Int, p < q
  PROVE  m * p + m <= m * q
<1>1. (q - p - 1) * m >= 0
  BY Z3
<1>. QED BY <1>1, Z3

LEMMA DivisionUnique ==
  ASSUME NEW m \in Int, m > 0, NEW p \in Int, NEW q \in Int, NEW r \in Int, NEW s \in Int,
         0 <= r, r < m, 0 <= s, s < m, m * p + r = m * q + s
  PROVE  p = q /\ r = s
<1>1. ~(p < q)
  BY MultiplesGrow
<1>2. ~(q < p)
  BY MultiplesGrow
<1>3. p = q
  BY <1>1, <1>2
<1>. QED BY <1>3

LEMMA DivisionNext ==
  ASSUME NEW m \in Int, m > 0, NEW n \in Nat
  PROVE  /\ (n + 1) % m # 0 => (n + 1) \div m = n \div m /\ (n + 1) % m = (n % m) + 1
         /\ (n + 1) % m = 0 => (n + 1) \div m = n \div m + 1 /\ (n % m) + 1 = m
<1>. DEFINE q == n \div m  r == n % m  u == (n + 1) \div m  v == (n + 1) % m
<1>1. q \in Int /\ r \in Int /\ 0 <= r /\ r < m /\ n = m * q + r
  BY Division
<1>2. u \in Int /\ v \in Int /\ 0 <= v /\ v < m /\ n + 1 = m * u + v
  BY Division
<1>. HIDE DEF q, r, u, v
<1>3. CASE r + 1 < m
  <2>1. m * q + (r + 1) = m * u + v
    BY <1>1, <1>2
  <2>2. q = u /\ r + 1 = v
    BY <2>1, <1>1, <1>2, <1>3, DivisionUnique
  <2>. QED BY <2>2, <1>1 DEF q, r, u, v
<1>4. CASE r + 1 = m
  <2>1. m * (q + 1) = m * q + m
    BY <1>1, Z3
  <2>2. m * (q + 1) + 0 = m * u + v
    BY <1>1, <1>2, <1>4, <2>1
  <2>3. q + 1 = u /\ 0 = v
    BY <2>2, <1>1, <1>2, <1>4, DivisionUnique
  <2>. QED BY <2>3, <1>4, <1>1 DEF q, r, u, v
<1>. QED BY <1>1, <1>3, <1>4

LEMMA QuotientBelow ==
  ASSUME NEW m \in Int, m > 0, NEW n \in Nat, NEW k \in Int, n < k * m
  PROVE  n \div m < k
<1>. DEFINE q == n \div m  r == n % m
<1>1. q \in Int /\ r \in Int /\ 0 <= r /\ n = m * q + r
  BY Division
<1>. HIDE DEF q, r
<1>2. SUFFICES ASSUME k <= q PROVE FALSE
  BY <1>1 DEF q
<1>3. m * k <= m * q
  BY MultiplesGrow, <1>1, <1>2, Z3
<1>4. k * m = m * k
  BY Z3
<1>. QED BY <1>1, <1>3, <1>4

-----------------------------------------------------------------------------
(* The invariant.                                                          *)

Jobs == [status : {"none", "running", "completed", "failed", "cancelled"},
         from : Snapshot, to : Snapshot, completed : Nat, failed : BOOLEAN, counted : Nat,
         incomplete : BOOLEAN]
Frames == [Cell -> {"none", "gap", "image"}]
Samples == [Snapshot -> {NoSample, Unknown} \cup Nat]
Keys == [job : Jobs, samples : Samples, frames : Frames]
Commands == [at : {"idle", "gate", "read", "fetch", "sample", "save", "rearm", "schedule",
                   "start", "wake", "forget"},
             held : Jobs, seen : {"none", "gap", "image"}, failed : BOOLEAN]

\* A job stays among its snapshots, a running one has a place left, and one that
\* failed did not complete.
JobFits(j) ==
    /\ j.from <= j.to /\ j.completed <= Total(j)
    /\ j.status = "running" => j.completed < Total(j)
    /\ j.status = "completed" => ~j.failed

Typed ==
    /\ kept \in Keys /\ armed \in BOOLEAN /\ command \in Commands
    /\ admitted \subseteq {"start", "cancel"}
    /\ template \in [there : BOOLEAN, live : 1 .. MaxSnapshots + 1, cut : 1 .. MaxSnapshots + 1]
    /\ operation \in {"none", "export", "import", "discard", "discarded"}
    /\ archive \in [pages : SUBSET Page, keys : Keys] /\ late \in BOOLEAN
    /\ JobFits(kept.job) /\ JobFits(archive.keys.job) /\ JobFits(command.held)

\* The n-th place of a job.
Place(j, n) == <<j.from + n \div MaxTiles, (n % MaxTiles) + 1>>

\* lost: the frames that were counted and not stored.
Imaged(frames, lost, c) == frames[c] = "image" \/ c \in lost
\* Without a failure, every place the job has passed was observed.
Observed(j, frames) == ~j.failed => \A n \in 0 .. j.completed - 1 : frames[Place(j, n)] # "none"
\* A snapshot with no gap so far has counted its tiles so far.
Tallied(j, frames, lost) ==
    ~j.incomplete =>
        /\ j.counted = j.completed % MaxTiles
        /\ \A t \in 1 .. j.completed % MaxTiles :
             Imaged(frames, lost, <<j.from + j.completed \div MaxTiles, t>>)
JobTrue(j, frames, lost) == Observed(j, frames) /\ Tallied(j, frames, lost)
SamplesCounted(samples, frames, lost) ==
    \A s \in Snapshot : samples[s] >= 0 =>
        samples[s] = MaxTiles /\ \A t \in Planned : Imaged(frames, lost, <<s, t>>)
KeysTrue(k, lost) == JobTrue(k.job, k.frames, lost) /\ SamplesCounted(k.samples, k.frames, lost)

\* A step past the gate holds the job that is kept, and an export has read
\* nothing yet; what it has observed is there.
Working == {"read", "fetch", "sample", "save"}
StepFits ==
    /\ command.at \in Working \cup {"gate"} => command.held = kept.job /\ kept.job.status = "running"
    /\ command.at \in Working => Settled /\ (operation = "export" => archive.pages = {})
    /\ command.at = "fetch" => kept.frames[At(kept.job)] = "none"
    /\ command.at \in {"sample", "save"} =>
         /\ command.seen = "image" => Imaged(kept.frames, unsaved, At(kept.job))
         /\ ~command.failed => kept.frames[At(kept.job)] # "none"
OtherFits ==
    /\ command.at \in {"schedule", "start"} =>
         Settled /\ command.held.completed = 0 /\ command.held.counted = 0
    /\ command.at = "wake" =>
         /\ operation \in {"import", "discard"}
         /\ operation = "import" => kept.job = archive.keys.job /\ "job" \notin archive.pages
    /\ command.at = "forget" => operation = "discard" /\ kept = Nothing

\* What an export has read goes with the frames that stand, and is what is kept,
\* but for a late command's job.
ExportTrue == operation = "export" =>
    /\ "job" \in archive.pages =>
         JobTrue(archive.keys.job, kept.frames, unsaved) /\ (late \/ archive.keys.job = kept.job)
    /\ "samples" \in archive.pages => archive.keys.samples = kept.samples
    /\ "frames" \in archive.pages => archive.keys.frames = kept.frames
ImportTrue == operation = "import" =>
    /\ KeysTrue(archive.keys, unsaved)
    /\ "job" \in archive.pages => kept.job = archive.keys.job
    /\ "samples" \in archive.pages => kept.samples = archive.keys.samples
    /\ "frames" \in archive.pages => kept.frames = archive.keys.frames

KeptTrue == Settled => KeysTrue(kept, unsaved)
Gated == ~Settled => admitted = {}
NotBegun == operation = "none" => archive.pages = {}
Emptied == operation = "discarded" => kept = Nothing /\ ~armed /\ command.at = "idle"

BackfillInvariant ==
    /\ Typed /\ StepFits /\ OtherFits /\ KeptTrue /\ Gated /\ NotBegun
    /\ ExportTrue /\ ImportTrue /\ Emptied

-----------------------------------------------------------------------------
(* Records.                                                                *)

LEMMA NoImportFits == NoImport \in Jobs /\ JobFits(NoImport)
<1>1. 1 \in Snapshot
  BY Sizes DEF Snapshot
<1>2. Total(NoImport) = MaxTiles
  BY Sizes DEF Total, NoImport
<1>. QED BY <1>1, <1>2, Sizes DEF NoImport, Jobs, JobFits

LEMMA NothingIsKeys ==
  /\ Nothing \in Keys /\ Nothing.job = NoImport
  /\ \A c \in Cell : Nothing.frames[c] = "none"
  /\ \A s \in Snapshot : Nothing.samples[s] = NoSample
  BY NoImportFits DEF Nothing, Keys, Frames, Samples

LEMMA NoCommandIdle ==
  NoCommand \in Commands /\ NoCommand.at = "idle" /\ JobFits(NoCommand.held)
  BY NoImportFits DEF NoCommand, Commands

LEMMA KeysFields ==
  ASSUME NEW k \in Keys
  PROVE  k.job \in Jobs /\ k.samples \in Samples /\ k.frames \in Frames
  BY DEF Keys

LEMMA KeysWithJob ==
  ASSUME NEW k \in Keys, NEW j \in Jobs
  PROVE  LET n == [k EXCEPT !.job = j]
         IN  n \in Keys /\ n.job = j /\ n.samples = k.samples /\ n.frames = k.frames
  BY DEF Keys

LEMMA KeysPut ==
  ASSUME NEW a \in Keys, NEW b \in Keys, NEW p \in Page
  PROVE  LET n == [a EXCEPT ![p] = b[p]]
         IN  /\ n \in Keys
             /\ n.job = (IF p = "job" THEN b.job ELSE a.job)
             /\ n.samples = (IF p = "samples" THEN b.samples ELSE a.samples)
             /\ n.frames = (IF p = "frames" THEN b.frames ELSE a.frames)
<1>1. CASE p = "job"
  BY <1>1 DEF Keys
<1>2. CASE p = "samples"
  BY <1>2 DEF Keys
<1>3. CASE p = "frames"
  BY <1>3 DEF Keys
<1>. QED BY <1>1, <1>2, <1>3 DEF Page

LEMMA CommandAt ==
  ASSUME NEW c \in Commands,
         NEW a \in {"idle", "gate", "read", "fetch", "sample", "save", "rearm", "schedule",
                    "start", "wake", "forget"}
  PROVE  LET n == [c EXCEPT !.at = a]
         IN  n \in Commands /\ n.at = a /\ n.held = c.held /\ n.seen = c.seen /\ n.failed = c.failed
  BY DEF Commands

LEMMA NextPageIsLeft ==
  ASSUME NEW pages \in SUBSET Page, pages # Page
  PROVE  NextPage(pages) \in Page \ pages
<1>. DEFINE P(p) == (p = "samples" => "job" \in pages) /\ (p = "frames" => "samples" \in pages)
<1>1. \E p \in Page \ pages : P(p)
  <2>1. CASE "job" \notin pages
    BY <2>1 DEF Page
  <2>2. CASE "job" \in pages /\ "samples" \notin pages
    BY <2>2 DEF Page
  <2>3. CASE "job" \in pages /\ "samples" \in pages
    BY <2>3 DEF Page
  <2>. QED BY <2>1, <2>2, <2>3
<1>. QED BY <1>1 DEF NextPage

-----------------------------------------------------------------------------
(* Places.                                                                 *)

LEMMA JobFields ==
  ASSUME NEW j \in Jobs
  PROVE  /\ j.from \in Int /\ j.from >= 1 /\ j.to \in Int /\ j.to <= MaxSnapshots
         /\ j.completed \in Nat /\ j.counted \in Nat
         /\ j.failed \in BOOLEAN /\ j.incomplete \in BOOLEAN
         /\ j.status \in {"none", "running", "completed", "failed", "cancelled"}
  BY Sizes DEF Jobs, Snapshot

LEMMA TotalBound ==
  ASSUME NEW j \in Jobs, JobFits(j)
  PROVE  Total(j) \in Int /\ j.completed \in 0 .. MaxSnapshots * MaxTiles
<1>1. j.to - j.from + 1 <= MaxSnapshots /\ j.to - j.from + 1 \in Int
  BY JobFields, Sizes
<1>. DEFINE k == j.to - j.from + 1
<1>2. k \in Int /\ k <= MaxSnapshots
  BY <1>1
<1>. HIDE DEF k
<1>3. k * MaxTiles <= MaxSnapshots * MaxTiles /\ k * MaxTiles \in Int /\ MaxSnapshots * MaxTiles \in Int
  <2>1. (MaxSnapshots - k) * MaxTiles >= 0
    BY <1>2, Sizes
  <2>. QED BY <2>1, <1>2, Sizes
<1>4. Total(j) = k * MaxTiles
  BY DEF Total, k
<1>5. j.completed \in Nat /\ j.completed <= k * MaxTiles
  BY <1>4, JobFields DEF JobFits
<1>. QED BY <1>3, <1>4, <1>5

LEMMA AtIsPlace == ASSUME NEW j PROVE At(j) = Place(j, j.completed)
  BY DEF At, Place

\* The places before the end of a job are among its snapshots' tiles.
LEMMA PlaceInCell ==
  ASSUME NEW j \in Jobs, NEW n \in Nat, n < Total(j)
  PROVE  /\ j.from + n \div MaxTiles \in Snapshot /\ (n % MaxTiles) + 1 \in Planned
         /\ Place(j, n) \in Cell
<1>1. n \div MaxTiles \in Nat /\ n % MaxTiles \in Nat /\ n % MaxTiles < MaxTiles
  BY Division, Sizes
<1>. DEFINE k == j.to - j.from + 1
<1>2. k \in Int /\ n < k * MaxTiles
  BY JobFields DEF Total
<1>. HIDE DEF k
<1>3. n \div MaxTiles < k
  BY <1>2, QuotientBelow, Sizes
<1>4. j.from + n \div MaxTiles \in 1 .. MaxSnapshots
  BY <1>1, <1>3, JobFields, Sizes DEF k
<1>5. (n % MaxTiles) + 1 \in 1 .. MaxTiles
  BY <1>1, Sizes
<1>. QED BY <1>4, <1>5 DEF Snapshot, Planned, Cell, Place

\* At the end of a job no tile of a snapshot is counted.
LEMMA NothingLeftOver ==
  ASSUME NEW k \in Int, NEW n \in Nat, n = k * MaxTiles
  PROVE  n % MaxTiles = 0
<1>1. n = MaxTiles * (n \div MaxTiles) + (n % MaxTiles) /\ n % MaxTiles \in Nat /\ n % MaxTiles < MaxTiles
      /\ n \div MaxTiles \in Nat
  BY Division, Sizes
<1>2. k * MaxTiles = MaxTiles * k + 0
  BY Sizes
<1>3. MaxTiles * k + 0 = MaxTiles * (n \div MaxTiles) + (n % MaxTiles)
  BY <1>1, <1>2
<1>. QED BY <1>1, <1>3, DivisionUnique, Sizes

LEMMA TalliedCells ==
  ASSUME NEW j \in Jobs, JobFits(j), NEW t \in 1 .. j.completed % MaxTiles
  PROVE  <<j.from + j.completed \div MaxTiles, t>> \in Cell
<1>1. j.completed % MaxTiles \in Nat /\ j.completed % MaxTiles < MaxTiles
  BY Division, Sizes, JobFields
<1>2. t \in Planned
  BY <1>1, Sizes DEF Planned
<1>3. j.completed # Total(j)
  <2>1. j.to - j.from + 1 \in Int
    BY JobFields
  <2>2. j.completed = Total(j) => j.completed % MaxTiles = 0
    BY <2>1, JobFields, NothingLeftOver DEF Total
  <2>. QED BY <2>2, <1>1
<1>4. j.completed < Total(j)
  BY <1>3, JobFields, TotalBound DEF JobFits
<1>. QED BY <1>2, <1>4, PlaceInCell, JobFields DEF Cell

\* Frames that show no less keep what is said of a job and of samples.
ShowsAsMuch(frames, lost, next, more) ==
    \A c \in Cell : /\ frames[c] # "none" => next[c] # "none"
                    /\ Imaged(frames, lost, c) => Imaged(next, more, c)

LEMMA TrueStays ==
  ASSUME NEW frames, NEW lost, NEW next, NEW more, ShowsAsMuch(frames, lost, next, more),
         NEW j \in Jobs, JobFits(j), JobTrue(j, frames, lost)
  PROVE  JobTrue(j, next, more)
<1>1. Observed(j, next)
  <2>1. \A n \in 0 .. j.completed - 1 : Place(j, n) \in Cell
    <3>1. TAKE n \in 0 .. j.completed - 1
    <3>2. n \in Nat /\ n < Total(j)
      BY JobFields, TotalBound DEF JobFits
    <3>. QED BY <3>2, PlaceInCell
  <2>. QED BY <2>1 DEF Observed, JobTrue, ShowsAsMuch
<1>2. Tallied(j, next, more)
  BY TalliedCells DEF Tallied, JobTrue, ShowsAsMuch
<1>. QED BY <1>1, <1>2 DEF JobTrue

LEMMA CountedStays ==
  ASSUME NEW frames, NEW lost, NEW next, NEW more, ShowsAsMuch(frames, lost, next, more),
         NEW samples, SamplesCounted(samples, frames, lost)
  PROVE  SamplesCounted(samples, next, more)
  BY DEF SamplesCounted, ShowsAsMuch, Cell

\* A job that begins has passed no place.
LEMMA FreshIsTrue ==
  ASSUME NEW j \in Jobs, j.completed = 0, j.counted = 0, NEW frames, NEW lost
  PROVE  JobTrue(j, frames, lost)
<1>1. j.completed % MaxTiles = 0
  BY Sizes, NothingLeftOver
<1>2. \A t \in 1 .. 0 : FALSE
  OBVIOUS
<1>3. Tallied(j, frames, lost)
  BY <1>1, <1>2 DEF Tallied
<1>4. \A n \in 0 .. j.completed - 1 : FALSE
  OBVIOUS
<1>5. Observed(j, frames)
  BY <1>4 DEF Observed
<1>. QED BY <1>3, <1>5 DEF JobTrue

LEMMA NothingIsTrue ==
  ASSUME NEW lost
  PROVE  KeysTrue(Nothing, lost)
<1>1. SamplesCounted(Nothing.samples, Nothing.frames, lost)
  BY NothingIsKeys DEF SamplesCounted, NoSample
<1>2. NoImport.completed = 0 /\ NoImport.counted = 0 /\ NoImport \in Jobs
  BY NoImportFits DEF NoImport
<1>4. JobTrue(Nothing.job, Nothing.frames, lost)
  BY <1>2, NothingIsKeys, FreshIsTrue
<1>. QED BY <1>1, <1>4 DEF KeysTrue

\* A job that differs in its end alone.
LEMMA EndIsTrue ==
  ASSUME NEW j \in Jobs, NEW s, NEW frames, NEW lost, JobTrue(j, frames, lost)
  PROVE  JobTrue([j EXCEPT !.status = s], frames, lost)
<1>. DEFINE e == [j EXCEPT !.status = s]
<1>1. /\ e.from = j.from /\ e.completed = j.completed /\ e.failed = j.failed
      /\ e.counted = j.counted /\ e.incomplete = j.incomplete
  BY DEF Jobs
<1>. HIDE DEF e
<1>2. JobTrue(e, frames, lost)
  BY <1>1 DEF JobTrue, Observed, Tallied, Place
<1>. QED BY <1>2 DEF e

LEMMA CancelledFits ==
  ASSUME NEW j \in Jobs, JobFits(j)
  PROVE  /\ Cancelled(j) \in Jobs /\ JobFits(Cancelled(j))
         /\ \A frames, lost : JobTrue(j, frames, lost) => JobTrue(Cancelled(j), frames, lost)
<1>1. Cancelled(j) \in Jobs
  BY DEF Cancelled, Jobs
<1>2. JobFits(Cancelled(j))
  BY DEF Cancelled, Jobs, JobFits, Total
<1>3. \A frames, lost : JobTrue(j, frames, lost) => JobTrue(Cancelled(j), frames, lost)
  BY EndIsTrue DEF Cancelled
<1>. QED BY <1>1, <1>2, <1>3

LEMMA EndedFits ==
  ASSUME NEW j \in Jobs, j.from <= j.to, j.completed <= Total(j)
  PROVE  /\ Ended(j, j.failed) \in Jobs /\ JobFits(Ended(j, j.failed))
         /\ \A frames, lost : JobTrue(j, frames, lost) => JobTrue(Ended(j, j.failed), frames, lost)
<1>1. Ended(j, j.failed) \in Jobs
  BY DEF Ended, Jobs
<1>2. JobFits(Ended(j, j.failed))
  BY DEF Ended, Jobs, JobFits, Total
<1>3. \A frames, lost : JobTrue(j, frames, lost) => JobTrue(Ended(j, j.failed), frames, lost)
  BY EndIsTrue DEF Ended
<1>. QED BY <1>1, <1>2, <1>3

-----------------------------------------------------------------------------
(* Actions that leave the keys, the archive and the operation alone.       *)

Still == UNCHANGED <<kept, operation, archive, unsaved, late>>

LEMMA StillTrue ==
  ASSUME BackfillInvariant, Still
  PROVE  KeptTrue' /\ NotBegun' /\ ExportTrue' /\ ImportTrue'
  BY DEF BackfillInvariant, Still, KeptTrue, NotBegun, ExportTrue, ImportTrue, Settled

\* A command that is none of those the invariant is about.
LEMMA IdleFits ==
  ASSUME command'.at \in {"idle", "rearm"}
  PROVE  StepFits' /\ OtherFits'
  BY DEF StepFits, OtherFits, Working

LEMMA CommandStays ==
  ASSUME BackfillInvariant, Still, UNCHANGED command
  PROVE  StepFits' /\ OtherFits'
  BY DEF BackfillInvariant, Still, StepFits, OtherFits, Settled

LEMMA ChangeTemplateKeeps == ASSUME BackfillInvariant, ChangeTemplate PROVE BackfillInvariant'
<1>1. Still /\ UNCHANGED <<armed, command, admitted>>
  BY DEF ChangeTemplate, Still
<1>2. Typed'
  <2>1. \A s \in Snapshot : s \in 1 .. MaxSnapshots + 1
    BY Sizes DEF Snapshot
  <2>2. template' \in [there : BOOLEAN, live : 1 .. MaxSnapshots + 1, cut : 1 .. MaxSnapshots + 1]
    BY <2>1 DEF ChangeTemplate, BackfillInvariant, Typed
  <2>. QED BY <1>1, <2>2 DEF BackfillInvariant, Typed, Still
<1>. QED BY <1>1, <1>2, StillTrue, CommandStays DEF BackfillInvariant, Gated, Settled, Emptied, Still

LEMMA AdmitKeeps == ASSUME BackfillInvariant, Admit PROVE BackfillInvariant'
<1>1. Still /\ UNCHANGED <<armed, command, template>> /\ operation = "none"
  BY DEF Admit, Still
<1>2. Typed'
  BY <1>1 DEF BackfillInvariant, Typed, Still, Admit
<1>. QED BY <1>1, <1>2, StillTrue, CommandStays DEF BackfillInvariant, Gated, Settled, Emptied, Still

LEMMA StartArmsKeeps == ASSUME BackfillInvariant, StartArms PROVE BackfillInvariant'
<1>1. Still /\ UNCHANGED <<admitted, template>> /\ armed' = TRUE /\ command.at = "schedule"
  BY DEF StartArms, Still, outside
<1>2. /\ command' \in Commands /\ command'.at = "start" /\ command'.held = command.held
  BY CommandAt DEF StartArms, BackfillInvariant, Typed
<1>3. Typed'
  BY <1>1, <1>2 DEF BackfillInvariant, Typed, Still
<1>4. StepFits' /\ OtherFits'
  BY <1>1, <1>2 DEF StepFits, OtherFits, Working, BackfillInvariant, Settled, Still
<1>5. Emptied' /\ Gated'
  BY <1>1 DEF BackfillInvariant, OtherFits, Settled, Emptied, Still, Gated
<1>. QED BY <1>3, <1>4, <1>5, <1>1, StillTrue DEF BackfillInvariant

LEMMA RearmKeeps == ASSUME BackfillInvariant, Rearm PROVE BackfillInvariant'
<1>1. Still /\ UNCHANGED <<admitted, template>> /\ armed' = TRUE /\ command.at = "rearm"
      /\ command' = NoCommand
  BY DEF Rearm, Still, outside, stepRest
<1>2. Typed'
  BY <1>1, NoCommandIdle DEF BackfillInvariant, Typed, Still
<1>3. Emptied' /\ Gated'
  BY <1>1 DEF BackfillInvariant, Settled, Emptied, Still, Gated
<1>. QED BY <1>1, <1>2, <1>3, StillTrue, IdleFits, NoCommandIdle DEF BackfillInvariant

LEMMA ThrowsKeeps == ASSUME BackfillInvariant, Throws PROVE BackfillInvariant'
<1>1. Still /\ UNCHANGED <<admitted, template, armed>> /\ command' = NoCommand
  BY DEF Throws, Still
<1>2. Typed'
  BY <1>1, NoCommandIdle DEF BackfillInvariant, Typed, Still
<1>3. Emptied' /\ Gated'
  BY <1>1, NoCommandIdle DEF BackfillInvariant, Settled, Emptied, Still, Gated
<1>. QED BY <1>1, <1>2, <1>3, StillTrue, IdleFits, NoCommandIdle DEF BackfillInvariant

LEMMA StepBeginsKeeps == ASSUME BackfillInvariant, StepBegins PROVE BackfillInvariant'
<1>1. Still /\ UNCHANGED <<admitted, template>> /\ armed /\ armed' \in BOOLEAN
  BY DEF StepBegins, Still, outside, stepRest, BackfillInvariant, Typed
<1>2. /\ command' \in Commands /\ JobFits(command'.held)
      /\ command'.at \in {"idle", "gate"}
      /\ command'.at = "gate" => command'.held = kept.job /\ kept.job.status = "running"
  <2>1. CASE kept.job.status = "running"
    <3>. DEFINE c == [NoCommand EXCEPT !.at = "gate", !.held = kept.job]
    <3>1. command' = c
      BY <2>1 DEF StepBegins
    <3>2. kept.job \in Jobs /\ JobFits(kept.job)
      BY KeysFields DEF BackfillInvariant, Typed
    <3>3. c \in Commands /\ c.at = "gate" /\ c.held = kept.job
      BY <3>2, NoCommandIdle DEF Commands
    <3>. HIDE DEF c
    <3>. QED BY <2>1, <3>1, <3>2, <3>3
  <2>2. CASE kept.job.status # "running"
    BY <2>2 DEF StepBegins, BackfillInvariant, Typed
  <2>. QED BY <2>1, <2>2
<1>3. Typed'
  BY <1>1, <1>2 DEF BackfillInvariant, Typed, Still
<1>4. StepFits' /\ OtherFits'
  BY <1>1, <1>2 DEF StepFits, OtherFits, Working, Still
<1>5. Emptied' /\ Gated'
  BY <1>1 DEF BackfillInvariant, Settled, Emptied, Still, Gated
<1>. QED BY <1>1, <1>3, <1>4, <1>5, StillTrue DEF BackfillInvariant

LEMMA ReadGateKeeps == ASSUME BackfillInvariant, ReadGate PROVE BackfillInvariant'
<1>1. Still /\ UNCHANGED <<admitted, template, armed>> /\ command.at = "gate"
  BY DEF ReadGate, Still, outside, stepRest
<1>2. CASE operation = "none"
  <2>1. command' \in Commands /\ command'.at = "read" /\ command'.held = command.held
    <3>1. command' = [command EXCEPT !.at = "read"]
      BY <1>2 DEF ReadGate, StepTo
    <3>. QED BY <3>1, CommandAt DEF BackfillInvariant, Typed
  <2>2. StepFits' /\ OtherFits'
    BY <1>1, <1>2, <2>1 DEF StepFits, OtherFits, Working, Still, BackfillInvariant, Settled
  <2>3. Typed' /\ Emptied' /\ Gated'
    BY <1>1, <1>2, <2>1 DEF BackfillInvariant, Settled, Emptied, Still, Gated, Typed
  <2>. QED BY <1>1, <2>2, <2>3, StillTrue DEF BackfillInvariant
<1>3. CASE operation # "none"
  <2>1. command' = NoCommand
    BY <1>3 DEF ReadGate
  <2>2. Typed' /\ Emptied' /\ Gated'
    BY <1>1, <2>1, NoCommandIdle DEF BackfillInvariant, Settled, Emptied, Still, Gated, Typed
  <2>. QED BY <1>1, <2>1, <2>2, StillTrue, IdleFits, NoCommandIdle DEF BackfillInvariant
<1>. QED BY <1>2, <1>3

-----------------------------------------------------------------------------
(* Archive operations.                                                     *)

LEMMA ArchiveFields ==
  ASSUME Typed
  PROVE  /\ archive.pages \in SUBSET Page /\ archive.keys \in Keys
         /\ JobFits(archive.keys.job) /\ kept \in Keys /\ kept.job \in Jobs /\ JobFits(kept.job)
  BY KeysFields DEF Typed

LEMMA BeginExportKeeps == ASSUME BackfillInvariant, BeginExport PROVE BackfillInvariant'
<1>1. /\ operation = "none" /\ operation' = "export" /\ archive.pages = {}
      /\ UNCHANGED <<kept, armed, command, admitted, template, archive, unsaved, late>>
  BY DEF BeginExport, BackfillInvariant, NotBegun
<1>2. Typed'
  BY <1>1 DEF BackfillInvariant, Typed
<1>3. StepFits' /\ OtherFits'
  BY <1>1 DEF BackfillInvariant, StepFits, OtherFits, Settled
<1>4. KeptTrue' /\ Gated' /\ NotBegun' /\ ExportTrue' /\ ImportTrue' /\ Emptied'
  BY <1>1 DEF BackfillInvariant, KeptTrue, Gated, NotBegun, ExportTrue, ImportTrue, Emptied, Settled
<1>. QED BY <1>2, <1>3, <1>4 DEF BackfillInvariant

LEMMA EndsKeep ==
  ASSUME BackfillInvariant, operation' = "none", archive' = NoArchive, Settled \/ command.at \in {"idle", "gate", "rearm"},
         Settled \/ admitted = {}, KeysTrue(kept, unsaved), late' \in BOOLEAN,
         UNCHANGED <<kept, armed, command, admitted, template, unsaved>>
  PROVE  BackfillInvariant'
<1>1. NoArchive.pages = {} /\ NoArchive \in [pages : SUBSET Page, keys : Keys] /\ JobFits(NoArchive.keys.job)
  BY NothingIsKeys, NoImportFits DEF NoArchive
<1>2. Typed'
  BY <1>1 DEF BackfillInvariant, Typed
<1>3. StepFits' /\ OtherFits'
  BY <1>1 DEF BackfillInvariant, StepFits, OtherFits, Settled, Working
<1>4. KeptTrue' /\ Gated' /\ NotBegun' /\ ExportTrue' /\ ImportTrue' /\ Emptied'
  BY <1>1 DEF BackfillInvariant, KeptTrue, Gated, NotBegun, ExportTrue, ImportTrue, Emptied, Settled
<1>. QED BY <1>2, <1>3, <1>4 DEF BackfillInvariant

LEMMA EndExportKeeps == ASSUME BackfillInvariant, EndExport PROVE BackfillInvariant'
<1>1. Settled /\ KeysTrue(kept, unsaved)
  BY DEF EndExport, Settled, BackfillInvariant, KeptTrue
<1>. QED BY <1>1, EndsKeep DEF EndExport

LEMMA ActivateKeeps == ASSUME BackfillInvariant, Activate PROVE BackfillInvariant'
<1>1. /\ operation = "import" /\ archive.pages = Page /\ ~Settled
      /\ UNCHANGED <<kept, armed, command, admitted, template, unsaved, late>>
      /\ operation' = "none" /\ archive' = NoArchive
  BY DEF Activate, Settled
<1>2. kept.job = archive.keys.job /\ kept.samples = archive.keys.samples /\ kept.frames = archive.keys.frames
  BY <1>1 DEF BackfillInvariant, ImportTrue, Page
<1>3. KeysTrue(kept, unsaved)
  BY <1>1, <1>2 DEF BackfillInvariant, ImportTrue, KeysTrue
<1>4. admitted = {} /\ late' \in BOOLEAN
  BY <1>1 DEF BackfillInvariant, Gated, Typed
<1>5. command.at \in {"idle", "gate", "rearm"}
  BY <1>1 DEF BackfillInvariant, StepFits, OtherFits, Working, Typed, Commands, Page
<1>. QED BY <1>1, <1>3, <1>4, <1>5, EndsKeep

LEMMA ReadPageKeeps == ASSUME BackfillInvariant, ReadPage PROVE BackfillInvariant'
<1>. DEFINE p == NextPage(archive.pages)
            keys == [archive.keys EXCEPT ![p] = kept[p]]
<1>1. /\ operation = "export" /\ command.at = "idle" /\ archive.pages # Page
      /\ UNCHANGED <<kept, armed, command, admitted, template, operation, unsaved, late>>
      /\ archive' = [pages |-> archive.pages \cup {p}, keys |-> keys]
  BY DEF ReadPage
<1>2. p \in Page \ archive.pages
  BY <1>1, ArchiveFields, NextPageIsLeft DEF BackfillInvariant
<1>3. /\ keys \in Keys
      /\ keys.job = (IF p = "job" THEN kept.job ELSE archive.keys.job)
      /\ keys.samples = (IF p = "samples" THEN kept.samples ELSE archive.keys.samples)
      /\ keys.frames = (IF p = "frames" THEN kept.frames ELSE archive.keys.frames)
  BY <1>2, ArchiveFields, KeysPut DEF BackfillInvariant
<1>4. archive'.pages = archive.pages \cup {p} /\ archive'.keys = keys
  BY <1>1
<1>5. archive' \in [pages : SUBSET Page, keys : Keys]
  BY <1>1, <1>2, <1>3, ArchiveFields DEF BackfillInvariant
<1>. HIDE DEF p, keys
<1>6. Typed'
  <2>1. JobFits(keys.job)
    BY <1>3, ArchiveFields DEF BackfillInvariant
  <2>. QED BY <1>1, <1>4, <1>5, <2>1 DEF BackfillInvariant, Typed
<1>7. StepFits' /\ OtherFits'
  BY <1>1, IdleFits
<1>8. ExportTrue'
  <2>1. JobTrue(kept.job, kept.frames, unsaved)
    BY <1>1 DEF BackfillInvariant, KeptTrue, Settled, KeysTrue
  <2>2. "job" \in archive.pages \cup {p} =>
          JobTrue(keys.job, kept.frames, unsaved) /\ (late \/ keys.job = kept.job)
    BY <1>1, <1>3, <2>1 DEF BackfillInvariant, ExportTrue
  <2>3. /\ "samples" \in archive.pages \cup {p} => keys.samples = kept.samples
        /\ "frames" \in archive.pages \cup {p} => keys.frames = kept.frames
    BY <1>1, <1>3 DEF BackfillInvariant, ExportTrue
  <2>. QED BY <1>1, <1>4, <2>2, <2>3 DEF ExportTrue
<1>9. KeptTrue' /\ Gated' /\ NotBegun' /\ ImportTrue' /\ Emptied'
  BY <1>1 DEF BackfillInvariant, KeptTrue, Gated, NotBegun, ImportTrue, Emptied, Settled
<1>. QED BY <1>6, <1>7, <1>8, <1>9 DEF BackfillInvariant

LEMMA BeginImportKeeps == ASSUME BackfillInvariant, BeginImport PROVE BackfillInvariant'
<1>1. /\ operation = "export" /\ operation' = "import" /\ archive.pages = Page
      /\ archive' = [archive EXCEPT !.pages = {}]
      /\ kept' = Nothing /\ armed' = FALSE /\ command' = NoCommand /\ admitted' = {} /\ late' = FALSE
      /\ UNCHANGED <<template, unsaved>>
  BY DEF BeginImport
<1>2. archive' \in [pages : SUBSET Page, keys : Keys] /\ archive'.pages = {} /\ archive'.keys = archive.keys
  BY <1>1 DEF BackfillInvariant, Typed
<1>3. KeysTrue(archive.keys, unsaved)
  <2>1. /\ JobTrue(archive.keys.job, kept.frames, unsaved) /\ archive.keys.samples = kept.samples
        /\ archive.keys.frames = kept.frames
    BY <1>1 DEF BackfillInvariant, ExportTrue, Page
  <2>2. SamplesCounted(kept.samples, kept.frames, unsaved)
    BY <1>1 DEF BackfillInvariant, KeptTrue, Settled, KeysTrue
  <2>. QED BY <2>1, <2>2 DEF KeysTrue
<1>4. Typed'
  BY <1>1, <1>2, NothingIsKeys, NoImportFits, NoCommandIdle DEF BackfillInvariant, Typed
<1>5. StepFits' /\ OtherFits'
  BY <1>1, IdleFits, NoCommandIdle
<1>6. ImportTrue'
  BY <1>1, <1>2, <1>3 DEF ImportTrue
<1>7. KeptTrue' /\ Gated' /\ NotBegun' /\ ExportTrue' /\ Emptied'
  BY <1>1 DEF KeptTrue, Gated, NotBegun, ExportTrue, Emptied, Settled
<1>. QED BY <1>4, <1>5, <1>6, <1>7 DEF BackfillInvariant

LEMMA ImportPageKeeps == ASSUME BackfillInvariant, ImportPage PROVE BackfillInvariant'
<1>. DEFINE p == NextPage(archive.pages)
            k == [kept EXCEPT ![p] = archive.keys[p]]
<1>1. /\ operation = "import" /\ command.at = "idle" /\ archive.pages # Page
      /\ UNCHANGED <<armed, admitted, template, operation, unsaved, late>>
      /\ kept' = k
      /\ \/ p = "job" /\ command' = [NoCommand EXCEPT !.at = "wake"] /\ archive' = archive
         \/ archive' = [archive EXCEPT !.pages = @ \cup {p}] /\ command' = command
  BY DEF ImportPage
<1>2. p \in Page \ archive.pages
  BY <1>1, ArchiveFields, NextPageIsLeft DEF BackfillInvariant
<1>3. /\ k \in Keys
      /\ k.job = (IF p = "job" THEN archive.keys.job ELSE kept.job)
      /\ k.samples = (IF p = "samples" THEN archive.keys.samples ELSE kept.samples)
      /\ k.frames = (IF p = "frames" THEN archive.keys.frames ELSE kept.frames)
  BY <1>2, ArchiveFields, KeysPut DEF BackfillInvariant
<1>4. /\ archive' \in [pages : SUBSET Page, keys : Keys] /\ archive'.keys = archive.keys
      /\ archive'.pages \subseteq archive.pages \cup {p}
      /\ command'.at = "wake" => "job" \notin archive'.pages /\ p = "job"
      /\ command' \in Commands /\ JobFits(command'.held) /\ command'.at \in {"idle", "wake"}
  <2>1. CASE p = "job" /\ command' = [NoCommand EXCEPT !.at = "wake"] /\ archive' = archive
    <3>. DEFINE c == [NoCommand EXCEPT !.at = "wake"]
    <3>1. c \in Commands /\ c.at = "wake" /\ c.held = NoCommand.held
      BY NoCommandIdle, CommandAt
    <3>. HIDE DEF c
    <3>2. command' = c
      BY <2>1 DEF c
    <3>. QED BY <1>2, <2>1, <3>1, <3>2, NoCommandIdle DEF BackfillInvariant, Typed
  <2>2. CASE archive' = [archive EXCEPT !.pages = @ \cup {p}] /\ command' = command
    <3>1. archive' \in [pages : SUBSET Page, keys : Keys] /\ archive'.keys = archive.keys
          /\ archive'.pages = archive.pages \cup {p}
      BY <2>2, <1>2 DEF BackfillInvariant, Typed
    <3>. QED BY <1>1, <2>2, <3>1 DEF BackfillInvariant, Typed
  <2>. QED BY <1>1, <2>1, <2>2
<1>. HIDE DEF p, k
<1>5. Typed'
  <2>1. JobFits(k.job)
    BY <1>3, ArchiveFields DEF BackfillInvariant
  <2>. QED BY <1>1, <1>3, <1>4, <2>1 DEF BackfillInvariant, Typed
<1>6. StepFits' /\ OtherFits'
  BY <1>1, <1>3, <1>4 DEF StepFits, OtherFits, Working
<1>7. ImportTrue'
  <2>1. KeysTrue(archive.keys, unsaved)
    BY <1>1 DEF BackfillInvariant, ImportTrue
  <2>2. /\ "job" \in archive'.pages => k.job = archive.keys.job
        /\ "samples" \in archive'.pages => k.samples = archive.keys.samples
        /\ "frames" \in archive'.pages => k.frames = archive.keys.frames
    BY <1>1, <1>3, <1>4 DEF BackfillInvariant, ImportTrue
  <2>. QED BY <1>1, <1>4, <2>1, <2>2 DEF ImportTrue
<1>8. KeptTrue' /\ Gated' /\ NotBegun' /\ ExportTrue' /\ Emptied'
  BY <1>1 DEF BackfillInvariant, KeptTrue, Gated, NotBegun, ExportTrue, Emptied, Settled
<1>. QED BY <1>5, <1>6, <1>7, <1>8 DEF BackfillInvariant

LEMMA WakeImportedKeeps == ASSUME BackfillInvariant, WakeImported PROVE BackfillInvariant'
<1>1. /\ command.at = "wake" /\ armed' = TRUE /\ command' = NoCommand
      /\ archive' = [archive EXCEPT !.pages = @ \cup {"job"}]
      /\ UNCHANGED <<kept, admitted, template, operation, unsaved, late>>
  BY DEF WakeImported
<1>2. /\ archive' \in [pages : SUBSET Page, keys : Keys] /\ archive'.keys = archive.keys
      /\ archive'.pages = archive.pages \cup {"job"}
  BY <1>1 DEF BackfillInvariant, Typed, Page
<1>3. operation \in {"import", "discard"} /\ (operation = "import" => kept.job = archive.keys.job)
  BY <1>1 DEF BackfillInvariant, OtherFits
<1>4. Typed'
  BY <1>1, <1>2, NoCommandIdle DEF BackfillInvariant, Typed
<1>5. StepFits' /\ OtherFits'
  BY <1>1, IdleFits, NoCommandIdle
<1>6. ImportTrue'
  BY <1>1, <1>2, <1>3 DEF BackfillInvariant, ImportTrue
<1>7. KeptTrue' /\ Gated' /\ NotBegun' /\ ExportTrue' /\ Emptied'
  BY <1>1, <1>3 DEF BackfillInvariant, KeptTrue, Gated, NotBegun, ExportTrue, Emptied, Settled
<1>. QED BY <1>4, <1>5, <1>6, <1>7 DEF BackfillInvariant

LEMMA BeginDiscardKeeps == ASSUME BackfillInvariant, BeginDiscard PROVE BackfillInvariant'
<1>1. /\ operation = "import" /\ operation' = "discard" /\ archive' = NoArchive
      /\ template' = [template EXCEPT !.there = FALSE]
      /\ UNCHANGED <<kept, armed, command, admitted, unsaved, late>>
  BY DEF BeginDiscard
<1>2. NoArchive \in [pages : SUBSET Page, keys : Keys] /\ JobFits(NoArchive.keys.job)
  BY NothingIsKeys, NoImportFits DEF NoArchive
<1>3. Typed'
  BY <1>1, <1>2 DEF BackfillInvariant, Typed
<1>4. StepFits' /\ OtherFits'
  BY <1>1 DEF BackfillInvariant, StepFits, OtherFits, Settled
<1>5. KeptTrue' /\ Gated' /\ NotBegun' /\ ExportTrue' /\ ImportTrue' /\ Emptied'
  BY <1>1 DEF BackfillInvariant, KeptTrue, Gated, NotBegun, ExportTrue, ImportTrue, Emptied, Settled
<1>. QED BY <1>3, <1>4, <1>5 DEF BackfillInvariant

LEMMA DiscardPageKeeps == ASSUME BackfillInvariant, DiscardPage PROVE BackfillInvariant'
<1>1. /\ operation = "discard" /\ command.at = "idle"
      /\ UNCHANGED <<armed, admitted, template, operation, archive, unsaved, late>>
  BY DEF DiscardPage
<1>2. /\ kept' \in Keys /\ JobFits(kept'.job)
      /\ command' \in Commands /\ JobFits(command'.held)
      /\ \/ command'.at = "idle"
         \/ command'.at = "forget" /\ kept' = Nothing
  <2>1. CASE kept' = [kept EXCEPT !.job = NoImport] /\ UNCHANGED command
    BY <1>1, <2>1, KeysWithJob, NoImportFits DEF BackfillInvariant, Typed
  <2>2. CASE kept' = [Nothing EXCEPT !.frames = kept.frames] /\ UNCHANGED command
    <3>1. kept' \in Keys /\ kept'.job = NoImport
      BY <2>2, NothingIsKeys, KeysFields DEF BackfillInvariant, Typed, Keys
    <3>. QED BY <1>1, <2>2, <3>1, NoImportFits DEF BackfillInvariant, Typed
  <2>3. CASE kept' = Nothing /\ command' = [NoCommand EXCEPT !.at = "forget"]
    <3>. DEFINE c == [NoCommand EXCEPT !.at = "forget"]
    <3>1. c \in Commands /\ c.at = "forget" /\ c.held = NoCommand.held
      BY NoCommandIdle, CommandAt
    <3>. HIDE DEF c
    <3>2. command' = c
      BY <2>3 DEF c
    <3>. QED BY <2>3, <3>1, <3>2, NoCommandIdle, NothingIsKeys, NoImportFits
  <2>. QED BY <2>1, <2>2, <2>3 DEF DiscardPage
<1>3. Typed'
  BY <1>1, <1>2 DEF BackfillInvariant, Typed
<1>4. StepFits' /\ OtherFits'
  BY <1>1, <1>2 DEF StepFits, OtherFits, Working
<1>5. KeptTrue' /\ Gated' /\ NotBegun' /\ ExportTrue' /\ ImportTrue' /\ Emptied'
  BY <1>1 DEF BackfillInvariant, KeptTrue, Gated, NotBegun, ExportTrue, ImportTrue, Emptied, Settled
<1>. QED BY <1>3, <1>4, <1>5 DEF BackfillInvariant

LEMMA ForgetAlarmKeeps == ASSUME BackfillInvariant, ForgetAlarm PROVE BackfillInvariant'
<1>1. /\ operation = "discard" /\ kept = Nothing
      /\ armed' = FALSE /\ command' = NoCommand /\ operation' = "discarded"
      /\ UNCHANGED <<kept, admitted, template, archive, unsaved, late>>
  BY DEF ForgetAlarm, BackfillInvariant, OtherFits
<1>2. Typed'
  BY <1>1, NoCommandIdle DEF BackfillInvariant, Typed
<1>3. KeptTrue' /\ Gated' /\ NotBegun' /\ ExportTrue' /\ ImportTrue' /\ Emptied'
  BY <1>1, NoCommandIdle DEF BackfillInvariant, KeptTrue, Gated, NotBegun, ExportTrue, ImportTrue, Emptied, Settled
<1>. QED BY <1>1, <1>2, <1>3, IdleFits, NoCommandIdle DEF BackfillInvariant

-----------------------------------------------------------------------------
(* start and cancel.                                                       *)

LEMMA OneTileAtLeast ==
  ASSUME NEW k \in Int, k > 0
  PROVE  0 < k * MaxTiles
  BY Sizes

LEMMA StartReadsKeeps == ASSUME BackfillInvariant, StartReads PROVE BackfillInvariant'
<1>1. /\ Still /\ UNCHANGED template /\ armed' \in BOOLEAN
      /\ "start" \in admitted /\ command.at = "idle" /\ admitted' = admitted \ {"start"}
  BY DEF StartReads, Still, BackfillInvariant, Typed
<1>2. Settled
  BY <1>1 DEF BackfillInvariant, Gated
<1>3. /\ command' \in Commands /\ JobFits(command'.held)
      /\ command'.at \in {"idle", "schedule"}
      /\ command'.at = "schedule" => command'.held.completed = 0 /\ command'.held.counted = 0
  <2>1. CASE UNCHANGED command
    BY <1>1, <2>1 DEF BackfillInvariant, Typed
  <2>2. CASE command' # command
    <3>. DEFINE last == (IF template.live < template.cut THEN template.live ELSE template.cut) - 1
                j(s) == [NoImport EXCEPT !.status = "running", !.from = s, !.to = last]
    <3>1. \E s \in 1 .. last : command' = [NoCommand EXCEPT !.at = "schedule", !.held = j(s)]
      BY <2>2 DEF StartReads
    <3>2. last \in Int /\ last <= MaxSnapshots
      BY Sizes DEF BackfillInvariant, Typed
    <3>. HIDE DEF last
    <3>3. PICK s \in 1 .. last : command' = [NoCommand EXCEPT !.at = "schedule", !.held = j(s)]
      BY <3>1
    <3>4. s \in Snapshot /\ last \in Snapshot /\ last - s + 1 \in Int /\ last - s + 1 > 0
      BY <3>2, Sizes DEF Snapshot
    <3>5. /\ j(s) \in Jobs /\ j(s).completed = 0 /\ j(s).counted = 0 /\ j(s).status = "running"
          /\ j(s).from = s /\ j(s).to = last
      BY <3>4, NoImportFits DEF NoImport, Jobs
    <3>. HIDE DEF j
    <3>6. JobFits(j(s))
      <4>1. Total(j(s)) = (last - s + 1) * MaxTiles /\ s <= last
        BY <3>4, <3>5 DEF Total
      <4>2. 0 < Total(j(s)) /\ Total(j(s)) \in Int
        BY <4>1, <3>4, OneTileAtLeast, Sizes
      <4>. QED BY <4>1, <4>2, <3>5 DEF JobFits
    <3>7. /\ command' \in Commands /\ command'.at = "schedule" /\ command'.held = j(s)
      BY <3>3, <3>5, NoCommandIdle DEF Commands
    <3>. QED BY <3>5, <3>6, <3>7
  <2>. QED BY <2>1, <2>2
<1>4. Typed'
  BY <1>1, <1>3 DEF BackfillInvariant, Typed, Still
<1>5. StepFits' /\ OtherFits'
  BY <1>1, <1>2, <1>3 DEF StepFits, OtherFits, Working, Still, Settled
<1>6. Emptied' /\ Gated'
  BY <1>1, <1>2 DEF Settled, Emptied, Still, Gated
<1>. QED BY <1>1, <1>4, <1>5, <1>6, StillTrue DEF BackfillInvariant

\* The job of the keys changes, and an export that has read it knows.
LEMMA JobChanges ==
  ASSUME BackfillInvariant, Settled, NEW j \in Jobs, JobFits(j), JobTrue(j, kept.frames, unsaved),
         kept' = [kept EXCEPT !.job = j], UNCHANGED <<operation, archive, unsaved>>,
         operation = "export" /\ "job" \in archive.pages => (late' = TRUE \/ (kept' = kept /\ late' = late))
  PROVE  /\ kept' \in Keys /\ kept'.job = j /\ kept'.samples = kept.samples /\ kept'.frames = kept.frames
         /\ KeptTrue' /\ NotBegun' /\ ExportTrue' /\ ImportTrue'
<1>1. kept' \in Keys /\ kept'.job = j /\ kept'.samples = kept.samples /\ kept'.frames = kept.frames
  BY KeysWithJob DEF BackfillInvariant, Typed
<1>2. KeptTrue'
  BY <1>1 DEF BackfillInvariant, KeptTrue, KeysTrue, Settled
<1>3. ExportTrue'
  BY <1>1 DEF BackfillInvariant, ExportTrue
<1>4. NotBegun' /\ ImportTrue'
  BY DEF BackfillInvariant, NotBegun, ImportTrue, Settled
<1>. QED BY <1>1, <1>2, <1>3, <1>4

LEMMA LateIs ==
  ASSUME NEW l \in BOOLEAN, NEW o, NEW n, n = (l \/ o = "export")
  PROVE  n \in BOOLEAN /\ (o = "export" => n = TRUE)
  OBVIOUS

LEMMA StartPutsKeeps == ASSUME BackfillInvariant, StartPuts PROVE BackfillInvariant'
<1>1. /\ command.at = "start" /\ kept' = [kept EXCEPT !.job = command.held] /\ command' = NoCommand
      /\ late' = (late \/ operation = "export")
      /\ UNCHANGED <<armed, admitted, template, operation, archive, unsaved>>
  BY DEF StartPuts, Late, outside
<1>2. Settled /\ command.held.completed = 0 /\ command.held.counted = 0
  BY <1>1 DEF BackfillInvariant, OtherFits
<1>3. command.held \in Jobs /\ JobFits(command.held)
  BY DEF BackfillInvariant, Typed, Commands
<1>4. JobTrue(command.held, kept.frames, unsaved)
  BY <1>2, <1>3, FreshIsTrue
<1>5. late' \in BOOLEAN /\ (operation = "export" => late' = TRUE)
  BY <1>1, LateIs DEF BackfillInvariant, Typed
<1>. DEFINE j == command.held
<1>0. kept' = [kept EXCEPT !.job = j] /\ j \in Jobs /\ JobFits(j) /\ JobTrue(j, kept.frames, unsaved)
  BY <1>1, <1>3, <1>4
<1>. HIDE DEF j
<1>6. /\ kept' \in Keys /\ kept'.job = j
      /\ KeptTrue' /\ NotBegun' /\ ExportTrue' /\ ImportTrue'
  <2>1. operation = "export" /\ "job" \in archive.pages => (late' = TRUE \/ (kept' = kept /\ late' = late))
    BY <1>5
  <2>2. UNCHANGED <<operation, archive, unsaved>>
    BY <1>1
  <2>. QED BY <1>0, <1>2, <2>1, <2>2, JobChanges
<1>7. Typed'
  BY <1>0, <1>1, <1>5, <1>6, NoCommandIdle DEF BackfillInvariant, Typed
<1>8. Emptied' /\ Gated'
  BY <1>1, <1>2 DEF Settled, Emptied, Gated
<1>. QED BY <1>1, <1>6, <1>7, <1>8, IdleFits, NoCommandIdle DEF BackfillInvariant

LEMMA CancelKeeps == ASSUME BackfillInvariant, Cancel PROVE BackfillInvariant'
<1>. DEFINE j == Cancelled(kept.job)
<1>0. /\ "cancel" \in admitted /\ command.at = "idle" /\ admitted' = admitted \ {"cancel"}
      /\ UNCHANGED <<armed, command, template, operation, archive, unsaved>>
  BY DEF Cancel
<1>1. /\ late' \in BOOLEAN
      /\ operation = "export" => (late' = TRUE \/ (kept' = kept /\ late' = late))
  <2>1. CASE kept' = kept
    BY <2>1 DEF Cancel, BackfillInvariant, Typed
  <2>2. CASE kept' # kept
    <3>1. late' = (late \/ operation = "export")
      BY <2>2 DEF Cancel, Late
    <3>. QED BY <3>1, LateIs DEF BackfillInvariant, Typed
  <2>. QED BY <2>1, <2>2
<1>2. Settled
  BY <1>0 DEF BackfillInvariant, Gated
<1>3. kept' = [kept EXCEPT !.job = j]
  BY DEF Cancel
<1>4. j \in Jobs /\ JobFits(j) /\ JobTrue(j, kept.frames, unsaved)
  BY <1>2, ArchiveFields, CancelledFits DEF BackfillInvariant, KeptTrue, KeysTrue
<1>. HIDE DEF j
<1>5. /\ kept' \in Keys /\ kept'.job = j
      /\ KeptTrue' /\ NotBegun' /\ ExportTrue' /\ ImportTrue'
  BY <1>0, <1>1, <1>2, <1>3, <1>4, JobChanges
<1>6. Typed'
  BY <1>0, <1>1, <1>4, <1>5 DEF BackfillInvariant, Typed
<1>7. Emptied' /\ Gated'
  BY <1>0, <1>2 DEF Settled, Emptied, Gated
<1>. QED BY <1>0, <1>5, <1>6, <1>7, IdleFits DEF BackfillInvariant

-----------------------------------------------------------------------------
(* step.                                                                   *)

\* What is known past the gate.
LEMMA StepKnows ==
  ASSUME BackfillInvariant, command.at \in Working
  PROVE  /\ Settled /\ (operation = "export" => archive.pages = {})
         /\ command.held = kept.job /\ kept \in Keys /\ kept.job \in Jobs /\ JobFits(kept.job)
         /\ kept.job.status = "running" /\ kept.job.completed \in Nat /\ kept.job.completed < Total(kept.job)
         /\ At(kept.job) = Place(kept.job, kept.job.completed) /\ At(kept.job) \in Cell
         /\ At(kept.job)[1] = kept.job.from + kept.job.completed \div MaxTiles
         /\ At(kept.job)[1] \in Snapshot
         /\ JobTrue(kept.job, kept.frames, unsaved) /\ SamplesCounted(kept.samples, kept.frames, unsaved)
<1>1. /\ Settled /\ (operation = "export" => archive.pages = {})
      /\ command.held = kept.job /\ kept \in Keys /\ kept.job \in Jobs /\ JobFits(kept.job)
      /\ kept.job.status = "running"
  BY ArchiveFields DEF BackfillInvariant, StepFits
<1>2. kept.job.completed \in Nat /\ kept.job.completed < Total(kept.job)
  BY <1>1, JobFields DEF JobFits
<1>3. At(kept.job) = Place(kept.job, kept.job.completed) /\ At(kept.job) \in Cell
  BY <1>1, <1>2, AtIsPlace, PlaceInCell
<1>4. At(kept.job)[1] = kept.job.from + kept.job.completed \div MaxTiles /\ At(kept.job)[1] \in Snapshot
  BY <1>1, <1>2, PlaceInCell DEF At
<1>5. JobTrue(kept.job, kept.frames, unsaved) /\ SamplesCounted(kept.samples, kept.frames, unsaved)
  BY <1>1 DEF BackfillInvariant, KeptTrue, KeysTrue
<1>. QED BY <1>1, <1>2, <1>3, <1>4, <1>5

\* A step that changes the keys, of which no export has read any.
LEMMA StepTrue ==
  ASSUME BackfillInvariant, command.at \in Working, UNCHANGED <<admitted, operation, archive>>,
         KeysTrue(kept', unsaved')
  PROVE  KeptTrue' /\ Gated' /\ NotBegun' /\ ExportTrue' /\ ImportTrue' /\ Emptied'
<1>1. Settled /\ (operation = "export" => archive.pages = {})
  BY StepKnows
<1>. QED BY <1>1 DEF BackfillInvariant, KeptTrue, Gated, NotBegun, ExportTrue, ImportTrue, Emptied, Settled

LEMMA StepReadsKeeps == ASSUME BackfillInvariant, StepReads PROVE BackfillInvariant'
<1>. DEFINE j == kept.job
<1>1. /\ command.at = "read" /\ command.at \in Working
      /\ UNCHANGED <<armed, admitted, template, operation, archive, unsaved, late>>
  BY DEF StepReads, outside, stepRest, Working
<1>2. /\ command.held = j /\ kept \in Keys /\ j \in Jobs /\ JobFits(j) /\ At(j) \in Cell
      /\ JobTrue(j, kept.frames, unsaved) /\ SamplesCounted(kept.samples, kept.frames, unsaved)
  BY <1>1, StepKnows
<1>3. \/ \E n \in {Cancelled(j), Ended(j, j.failed)} :
           kept' = [kept EXCEPT !.job = n] /\ command' = NoCommand
      \/ /\ kept' = kept
         /\ command' = [command EXCEPT !.seen = kept.frames[At(j)],
                          !.at = IF kept.frames[At(j)] = "none" THEN "fetch" ELSE "sample"]
  BY <1>2 DEF StepReads
<1>4. ASSUME NEW n \in {Cancelled(j), Ended(j, j.failed)},
             kept' = [kept EXCEPT !.job = n], command' = NoCommand
      PROVE  BackfillInvariant'
  <2>1. n \in Jobs /\ JobFits(n) /\ JobTrue(n, kept.frames, unsaved)
    BY <1>2, CancelledFits, EndedFits DEF JobFits
  <2>2. kept' \in Keys /\ kept'.job = n /\ kept'.samples = kept.samples /\ kept'.frames = kept.frames
    BY <1>2, <1>4, <2>1, KeysWithJob
  <2>3. KeysTrue(kept', unsaved')
    BY <1>1, <1>2, <2>1, <2>2 DEF KeysTrue
  <2>4. Typed'
    BY <1>1, <1>4, <2>1, <2>2, NoCommandIdle DEF BackfillInvariant, Typed
  <2>. QED BY <1>1, <1>4, <2>3, <2>4, StepTrue, IdleFits, NoCommandIdle DEF BackfillInvariant
<1>5. ASSUME kept' = kept,
             command' = [command EXCEPT !.seen = kept.frames[At(j)],
                          !.at = IF kept.frames[At(j)] = "none" THEN "fetch" ELSE "sample"]
      PROVE  BackfillInvariant'
  <2>1. kept.frames[At(j)] \in {"none", "gap", "image"}
    BY <1>2 DEF Keys, Frames
  <2>2. /\ command' \in Commands /\ command'.held = j /\ command'.seen = kept.frames[At(j)]
        /\ command'.at = (IF kept.frames[At(j)] = "none" THEN "fetch" ELSE "sample")
    BY <1>2, <1>5, <2>1 DEF BackfillInvariant, Typed, Commands
  <2>3. KeysTrue(kept', unsaved')
    BY <1>1, <1>2, <1>5 DEF KeysTrue
  <2>4. Typed'
    BY <1>1, <1>2, <1>5, <2>2 DEF BackfillInvariant, Typed
  <2>5. StepFits' /\ OtherFits'
    <3>1. Settled /\ (operation = "export" => archive.pages = {}) /\ j.status = "running"
      BY <1>1, StepKnows
    <3>. QED BY <1>1, <1>5, <2>2, <3>1 DEF StepFits, OtherFits, Working, Settled, Imaged
  <2>. QED BY <1>1, <2>3, <2>4, <2>5, StepTrue DEF BackfillInvariant
<1>. QED BY <1>3, <1>4, <1>5

LEMMA KeysWithSample ==
  ASSUME NEW k \in Keys, NEW s \in Snapshot, NEW v \in {NoSample, Unknown} \cup Nat
  PROVE  LET n == [k EXCEPT !.samples[s] = v]
         IN  /\ n \in Keys /\ n.job = k.job /\ n.frames = k.frames
             /\ n.samples[s] = v /\ \A r \in Snapshot : r # s => n.samples[r] = k.samples[r]
  BY DEF Keys, Samples

\* The tile's observation is there, if it was stored, and what was there stays.
LEMMA FetchTileFrameKeeps == ASSUME BackfillInvariant, FetchTileFrame PROVE BackfillInvariant'
<1>. DEFINE j == kept.job  c == At(kept.job)
<1>1. /\ command.at = "fetch" /\ command.at \in Working
      /\ UNCHANGED <<armed, admitted, template, operation, archive, late>>
  BY DEF FetchTileFrame, outside, Working
<1>2. /\ Settled /\ (operation = "export" => archive.pages = {}) /\ j.status = "running"
      /\ command.held = j /\ kept \in Keys /\ j \in Jobs /\ JobFits(j) /\ c \in Cell
      /\ JobTrue(j, kept.frames, unsaved) /\ SamplesCounted(kept.samples, kept.frames, unsaved)
  BY <1>1, StepKnows
<1>3. kept.frames[c] = "none"
  BY <1>1 DEF BackfillInvariant, StepFits
<1>4. command \in Commands
  BY DEF BackfillInvariant, Typed
<1>5. PICK seen \in {"none", "gap", "image"}, failed \in BOOLEAN :
        /\ \/ /\ ~failed /\ seen # "none" /\ unsaved' = unsaved
              /\ kept' = [kept EXCEPT !.frames[c] = seen]
              /\ command' = [command EXCEPT !.at = "sample", !.seen = seen]
           \/ /\ failed /\ kept' = kept
              /\ command' = [command EXCEPT !.at = "sample", !.seen = seen, !.failed = TRUE]
              /\ unsaved' = IF seen = "none" THEN unsaved ELSE unsaved \cup {c}
  BY <1>2 DEF FetchTileFrame
<1>6. /\ kept' \in Keys /\ kept'.job = j /\ kept'.samples = kept.samples
      /\ ShowsAsMuch(kept.frames, unsaved, kept'.frames, unsaved')
      /\ seen = "image" => Imaged(kept'.frames, unsaved', c)
      /\ ~failed => kept'.frames[c] # "none"
  <2>1. CASE ~failed /\ seen # "none" /\ unsaved' = unsaved /\ kept' = [kept EXCEPT !.frames[c] = seen]
    <3>1. /\ kept' \in Keys /\ kept'.job = j /\ kept'.samples = kept.samples
          /\ kept'.frames[c] = seen /\ \A d \in Cell : d # c => kept'.frames[d] = kept.frames[d]
      <4>1. kept \in Keys /\ c \in Cell /\ seen \in {"none", "gap", "image"}
        BY <1>2
      <4>2. kept' = [kept EXCEPT !.frames[c] = seen]
        BY <2>1
      <4>. HIDE DEF c
      <4>3. /\ kept' \in Keys /\ kept'.job = kept.job /\ kept'.samples = kept.samples
            /\ kept'.frames[c] = seen /\ \A d \in Cell : d # c => kept'.frames[d] = kept.frames[d]
        BY <4>1, <4>2 DEF Keys, Frames
      <4>. QED BY <4>3
    <3>. QED BY <1>3, <2>1, <3>1 DEF ShowsAsMuch, Imaged
  <2>2. CASE failed /\ kept' = kept /\ unsaved' = IF seen = "none" THEN unsaved ELSE unsaved \cup {c}
    BY <1>2, <2>2 DEF ShowsAsMuch, Imaged
  <2>. QED BY <1>5, <2>1, <2>2
<1>7. /\ command' \in Commands /\ command'.at = "sample" /\ command'.held = j /\ command'.seen = seen
      /\ ~command'.failed => ~failed
  <2>1. CASE ~failed /\ command' = [command EXCEPT !.at = "sample", !.seen = seen]
    BY <2>1, <1>2, <1>4 DEF Commands
  <2>2. CASE failed /\ command' = [command EXCEPT !.at = "sample", !.seen = seen, !.failed = TRUE]
    BY <2>2, <1>2, <1>4 DEF Commands
  <2>. QED BY <1>5, <2>1, <2>2
<1>8. KeysTrue(kept', unsaved')
  BY <1>2, <1>6, TrueStays, CountedStays DEF KeysTrue
<1>9. Typed'
  BY <1>1, <1>2, <1>6, <1>7 DEF BackfillInvariant, Typed
<1>10. StepFits' /\ OtherFits'
  <2>1. At(kept'.job) = c
    BY <1>6
  <2>. HIDE DEF c, j
  <2>2. kept'.job.status = "running" /\ Settled' /\ (operation' = "export" => archive'.pages = {})
    BY <1>1, <1>2, <1>6 DEF Settled
  <2>3. command'.held = kept'.job
    BY <1>6, <1>7
  <2>. QED BY <2>1, <2>2, <2>3, <1>6, <1>7 DEF StepFits, OtherFits, Working
<1>. QED BY <1>1, <1>8, <1>9, <1>10, StepTrue DEF BackfillInvariant

\* The job with the counts of its tile.
LEMMA CountedFields ==
  ASSUME NEW j \in Jobs, command.held = j, command \in Commands
  PROVE  /\ Counted \in Jobs /\ Counted.from = j.from /\ Counted.to = j.to
         /\ Counted.status = j.status /\ Counted.completed = j.completed
         /\ Counted.counted = j.counted + (IF command.seen = "image" THEN 1 ELSE 0)
         /\ ~Counted.incomplete => ~j.incomplete /\ command.seen = "image"
         /\ ~Counted.failed => ~j.failed /\ ~command.failed
<1>1. j.counted + (IF command.seen = "image" THEN 1 ELSE 0) \in Nat
  BY JobFields
<1>2. (j.incomplete \/ command.seen # "image") \in BOOLEAN /\ (j.failed \/ command.failed) \in BOOLEAN
  OBVIOUS
<1>. DEFINE n == j.counted + (IF command.seen = "image" THEN 1 ELSE 0)
            i == (j.incomplete \/ command.seen # "image")
            f == (j.failed \/ command.failed)
<1>3. Counted = [j EXCEPT !.counted = n, !.incomplete = i, !.failed = f]
  BY DEF Counted
<1>4. ~i => (~j.incomplete /\ command.seen = "image")
  OBVIOUS
<1>5. ~f => (~j.failed /\ ~command.failed)
  OBVIOUS
<1>6. n \in Nat /\ i \in BOOLEAN /\ f \in BOOLEAN
  BY <1>1, <1>2
<1>. HIDE DEF n, i, f
<1>7. /\ Counted \in Jobs /\ Counted.from = j.from /\ Counted.to = j.to
      /\ Counted.status = j.status /\ Counted.completed = j.completed
      /\ Counted.counted = n /\ Counted.incomplete = i /\ Counted.failed = f
  BY <1>3, <1>6 DEF Jobs
<1>8. Counted.counted = j.counted + (IF command.seen = "image" THEN 1 ELSE 0)
  BY <1>7 DEF n
<1>. QED BY <1>4, <1>5, <1>7, <1>8

LEMMA PutSampleKeeps == ASSUME BackfillInvariant, PutSample PROVE BackfillInvariant'
<1>. DEFINE j == kept.job  c == At(kept.job)
<1>1. /\ command.at = "sample" /\ command.at \in Working
      /\ UNCHANGED <<armed, admitted, template, operation, archive, unsaved, late>>
      /\ command' = [command EXCEPT !.at = "save"]
  BY DEF PutSample, outside, stepRest, Working, StepTo
<1>2. /\ Settled /\ (operation = "export" => archive.pages = {}) /\ j.status = "running"
      /\ command.held = j /\ kept \in Keys /\ j \in Jobs /\ JobFits(j)
      /\ j.completed \in Nat /\ c = Place(j, j.completed)
      /\ c[1] = j.from + j.completed \div MaxTiles /\ c[1] \in Snapshot
      /\ JobTrue(j, kept.frames, unsaved) /\ SamplesCounted(kept.samples, kept.frames, unsaved)
  BY <1>1, StepKnows
<1>3. command \in Commands
  BY DEF BackfillInvariant, Typed
<1>4. /\ command' \in Commands /\ command'.at = "save" /\ command'.held = j
      /\ command'.seen = command.seen /\ command'.failed = command.failed
  BY <1>1, <1>2, <1>3, CommandAt
<1>5. /\ kept' \in Keys /\ kept'.job = j /\ kept'.frames = kept.frames
      /\ SamplesCounted(kept'.samples, kept.frames, unsaved)
  <2>1. CASE ~LastTile(j)
    BY <1>2, <2>1 DEF PutSample
  <2>2. CASE LastTile(j)
    <3>. DEFINE v == IF Counted.incomplete THEN Unknown ELSE Counted.counted
    <3>1. kept' = [kept EXCEPT !.samples[c[1]] = v]
      BY <1>2, <2>2 DEF PutSample
    <3>2. v \in {NoSample, Unknown} \cup Nat
      BY <1>2, <1>3, CountedFields, JobFields
    <3>3. v >= 0 => v = MaxTiles /\ \A t \in Planned : Imaged(kept.frames, unsaved, <<c[1], t>>)
      <4>1. SUFFICES ASSUME v >= 0
                     PROVE  v = MaxTiles /\ \A t \in Planned : Imaged(kept.frames, unsaved, <<c[1], t>>)
        OBVIOUS
      <4>2. ~Counted.incomplete /\ v = Counted.counted
        BY <4>1 DEF Unknown
      <4>3. ~j.incomplete /\ command.seen = "image" /\ v = j.counted + 1
        BY <1>2, <1>3, <4>2, CountedFields
      <4>4. (j.completed % MaxTiles) + 1 = MaxTiles
        BY <1>2, <2>2, DivisionNext, Sizes DEF LastTile
      <4>5. /\ j.counted = j.completed % MaxTiles
            /\ \A t \in 1 .. j.completed % MaxTiles : Imaged(kept.frames, unsaved, <<c[1], t>>)
        BY <1>2, <4>3 DEF JobTrue, Tallied
      <4>6. c = <<c[1], MaxTiles>>
        BY <1>2, <4>4 DEF Place
      <4>7. Imaged(kept.frames, unsaved, <<c[1], MaxTiles>>)
        BY <1>1, <4>3, <4>6 DEF BackfillInvariant, StepFits
      <4>8. \A t \in Planned : t = MaxTiles \/ t \in 1 .. j.completed % MaxTiles
        <5>1. j.completed % MaxTiles \in Nat
          BY <1>2, Division, Sizes
        <5>. QED BY <5>1, <4>4, Sizes DEF Planned
      <4>. QED BY <4>3, <4>4, <4>5, <4>7, <4>8
    <3>. HIDE DEF v
    <3>4. /\ kept' \in Keys /\ kept'.job = j /\ kept'.frames = kept.frames
          /\ kept'.samples[c[1]] = v
          /\ \A r \in Snapshot : r # c[1] => kept'.samples[r] = kept.samples[r]
      BY <1>2, <3>1, <3>2, KeysWithSample
    <3>. QED BY <1>2, <3>3, <3>4 DEF SamplesCounted
  <2>. QED BY <2>1, <2>2
<1>6. KeysTrue(kept', unsaved')
  BY <1>1, <1>2, <1>5 DEF KeysTrue
<1>7. Typed'
  BY <1>1, <1>2, <1>4, <1>5 DEF BackfillInvariant, Typed
<1>8. StepFits' /\ OtherFits'
  <2>1. /\ command.seen = "image" => Imaged(kept.frames, unsaved, c)
        /\ ~command.failed => kept.frames[c] # "none"
    BY <1>1 DEF BackfillInvariant, StepFits
  <2>2. At(kept'.job) = c
    BY <1>5
  <2>. HIDE DEF c, j
  <2>3. kept'.job.status = "running" /\ Settled' /\ (operation' = "export" => archive'.pages = {})
    BY <1>1, <1>2, <1>5 DEF Settled
  <2>4. command'.held = kept'.job
    BY <1>4, <1>5
  <2>. QED BY <1>1, <1>4, <1>5, <2>1, <2>2, <2>3, <2>4 DEF StepFits, OtherFits, Working
<1>. QED BY <1>1, <1>6, <1>7, <1>8, StepTrue DEF BackfillInvariant

\* The job that is saved passed one place more, which the step observed.
LEMMA NextJobFits ==
  ASSUME BackfillInvariant, command.at = "save"
  PROVE  NextJob \in Jobs /\ JobFits(NextJob) /\ JobTrue(NextJob, kept.frames, unsaved)
<1>. DEFINE j == kept.job
            g == [Counted EXCEPT !.completed = @ + 1]
            n == IF LastTile(j) THEN [g EXCEPT !.counted = 0, !.incomplete = FALSE] ELSE g
<1>1. /\ command.held = j /\ kept \in Keys /\ j \in Jobs /\ JobFits(j) /\ j.status = "running"
      /\ j.completed \in Nat /\ j.completed < Total(j)
      /\ At(j) = Place(j, j.completed) /\ JobTrue(j, kept.frames, unsaved)
  BY StepKnows DEF Working
<1>2. command \in Commands
  BY DEF BackfillInvariant, Typed
<1>3. /\ command.seen = "image" => Imaged(kept.frames, unsaved, At(j))
      /\ ~command.failed => kept.frames[At(j)] # "none"
  BY DEF BackfillInvariant, StepFits
<1>4. /\ Counted \in Jobs /\ Counted.from = j.from /\ Counted.to = j.to
      /\ Counted.status = j.status /\ Counted.completed = j.completed
      /\ Counted.counted = j.counted + (IF command.seen = "image" THEN 1 ELSE 0)
      /\ ~Counted.incomplete => ~j.incomplete /\ command.seen = "image"
      /\ ~Counted.failed => ~j.failed /\ ~command.failed
  BY <1>1, <1>2, CountedFields
<1>5. /\ g \in Jobs /\ g.from = j.from /\ g.to = j.to /\ g.status = j.status
      /\ g.completed = j.completed + 1 /\ g.failed = Counted.failed
      /\ g.counted = Counted.counted /\ g.incomplete = Counted.incomplete
  BY <1>1, <1>4 DEF Jobs
<1>. HIDE DEF g
<1>6. /\ n \in Jobs /\ n.from = j.from /\ n.to = j.to /\ n.status = j.status
      /\ n.completed = j.completed + 1 /\ n.failed = Counted.failed
      /\ LastTile(j) => n.counted = 0
      /\ ~LastTile(j) => n.counted = Counted.counted /\ n.incomplete = Counted.incomplete
  BY <1>5 DEF Jobs
<1>7. NextJob = IF g.completed = Total(g) THEN Ended(n, g.failed) ELSE n
  BY <1>1 DEF NextJob, g
<1>8. Total(g) = Total(j) /\ Total(n) = Total(j) /\ n.failed = g.failed
  BY <1>5, <1>6 DEF Total
<1>. HIDE DEF n
<1>9. Observed(n, kept.frames)
  <2>1. SUFFICES ASSUME ~n.failed, NEW m \in 0 .. n.completed - 1
                 PROVE  kept.frames[Place(n, m)] # "none"
    BY DEF Observed
  <2>2. Place(n, m) = Place(j, m)
    BY <1>6 DEF Place
  <2>3. ~j.failed /\ ~command.failed
    BY <1>4, <1>6, <2>1
  <2>4. CASE m = j.completed
    BY <1>1, <1>3, <2>2, <2>3, <2>4
  <2>5. CASE m # j.completed
    <3>1. m \in 0 .. j.completed - 1
      BY <1>1, <1>6, <2>1, <2>5
    <3>. QED BY <1>1, <2>2, <2>3, <3>1 DEF JobTrue, Observed
  <2>. QED BY <2>4, <2>5
<1>10. Tallied(n, kept.frames, unsaved)
  <2>1. CASE LastTile(j)
    <3>1. n.completed % MaxTiles = 0 /\ n.counted = 0
      BY <1>6, <2>1 DEF LastTile
    <3>2. \A t \in 1 .. 0 : FALSE
      OBVIOUS
    <3>. QED BY <3>1, <3>2 DEF Tallied
  <2>2. CASE ~LastTile(j)
    <3>1. SUFFICES ASSUME ~n.incomplete
                   PROVE  /\ n.counted = n.completed % MaxTiles
                          /\ \A t \in 1 .. n.completed % MaxTiles :
                               Imaged(kept.frames, unsaved, <<n.from + n.completed \div MaxTiles, t>>)
      BY DEF Tallied
    <3>2. ~j.incomplete /\ command.seen = "image" /\ n.counted = j.counted + 1
      BY <1>4, <1>6, <2>2, <3>1
    <3>3. /\ n.completed \div MaxTiles = j.completed \div MaxTiles
          /\ n.completed % MaxTiles = (j.completed % MaxTiles) + 1
          /\ j.completed % MaxTiles \in Nat
      BY <1>1, <1>6, <2>2, DivisionNext, Division, Sizes DEF LastTile
    <3>4. /\ j.counted = j.completed % MaxTiles
          /\ \A t \in 1 .. j.completed % MaxTiles :
               Imaged(kept.frames, unsaved, <<j.from + j.completed \div MaxTiles, t>>)
      BY <1>1, <3>2 DEF JobTrue, Tallied
    <3>5. Imaged(kept.frames, unsaved,
                 <<j.from + j.completed \div MaxTiles, (j.completed % MaxTiles) + 1>>)
      BY <1>1, <1>3, <3>2 DEF Place
    <3>6. \A t \in 1 .. (j.completed % MaxTiles) + 1 :
            t \in 1 .. j.completed % MaxTiles \/ t = (j.completed % MaxTiles) + 1
      BY <3>3
    <3>7. n.counted = n.completed % MaxTiles
      BY <3>2, <3>3, <3>4
    <3>8. n.from = j.from
      BY <1>6
    <3>. QED BY <3>3, <3>4, <3>5, <3>6, <3>7, <3>8
  <2>. QED BY <2>1, <2>2
<1>11. JobTrue(n, kept.frames, unsaved) /\ n.from <= n.to /\ n.completed <= Total(n)
  <2>1. Total(j) \in Int
    BY <1>1, TotalBound
  <2>2. n.completed <= Total(n)
    BY <1>1, <1>6, <1>8, <2>1
  <2>3. n.from <= n.to
    BY <1>1, <1>6 DEF JobFits
  <2>. QED BY <1>9, <1>10, <2>2, <2>3 DEF JobTrue
<1>12. CASE g.completed = Total(g)
  BY <1>6, <1>7, <1>8, <1>11, <1>12, EndedFits
<1>13. CASE g.completed # Total(g)
  <2>1. Total(j) \in Int
    BY <1>1, TotalBound
  <2>2. JobFits(n)
    BY <1>1, <1>5, <1>6, <1>8, <1>11, <1>13, <2>1 DEF JobFits
  <2>. QED BY <1>6, <1>7, <1>11, <1>13, <2>2
<1>. QED BY <1>12, <1>13

LEMMA SaveJobKeeps == ASSUME BackfillInvariant, SaveJob PROVE BackfillInvariant'
<1>. DEFINE n == NextJob
<1>1. /\ command.at = "save" /\ command.at \in Working
      /\ UNCHANGED <<armed, admitted, template, operation, archive, unsaved, late>>
      /\ kept' = [kept EXCEPT !.job = n]
      /\ command' = [NoCommand EXCEPT !.at = IF n.status = "running" THEN "rearm" ELSE "idle"]
  BY DEF SaveJob, outside, stepRest, Working
<1>2. n \in Jobs /\ JobFits(n) /\ JobTrue(n, kept.frames, unsaved)
  BY <1>1, NextJobFits
<1>. HIDE DEF n
<1>3. /\ kept \in Keys /\ SamplesCounted(kept.samples, kept.frames, unsaved)
  BY <1>1, StepKnows
<1>4. kept' \in Keys /\ kept'.job = n /\ kept'.samples = kept.samples /\ kept'.frames = kept.frames
  BY <1>1, <1>2, <1>3, KeysWithJob
<1>5. KeysTrue(kept', unsaved')
  BY <1>1, <1>2, <1>3, <1>4 DEF KeysTrue
<1>6. /\ command' \in Commands /\ command'.at \in {"idle", "rearm"} /\ JobFits(command'.held)
  <2>. DEFINE a == IF n.status = "running" THEN "rearm" ELSE "idle"
  <2>1. a \in {"idle", "rearm"} /\ command' = [NoCommand EXCEPT !.at = a]
    BY <1>1
  <2>. HIDE DEF a
  <2>2. command' \in Commands /\ command'.at = a /\ command'.held = NoCommand.held
    BY <2>1, NoCommandIdle DEF Commands
  <2>. QED BY <2>1, <2>2, NoCommandIdle
<1>7. Typed'
  BY <1>1, <1>2, <1>4, <1>6 DEF BackfillInvariant, Typed
<1>. QED BY <1>1, <1>5, <1>6, <1>7, StepTrue, IdleFits DEF BackfillInvariant

-----------------------------------------------------------------------------
LEMMA InvariantAtFirst == BackfillInit => BackfillInvariant
<1>. SUFFICES ASSUME BackfillInit PROVE BackfillInvariant
  OBVIOUS
<1>1. /\ kept = Nothing /\ armed = FALSE /\ command = NoCommand /\ admitted = {}
      /\ operation = "none" /\ archive = NoArchive /\ late = FALSE
      /\ template \in [there : {TRUE}, live : {MaxSnapshots + 1}, cut : {MaxSnapshots + 1}]
  BY DEF BackfillInit
<1>2. /\ NoArchive.pages = {} /\ NoArchive \in [pages : SUBSET Page, keys : Keys]
      /\ JobFits(NoArchive.keys.job)
  BY NothingIsKeys, NoImportFits DEF NoArchive
<1>3. template \in [there : BOOLEAN, live : 1 .. MaxSnapshots + 1, cut : 1 .. MaxSnapshots + 1]
  <2>1. MaxSnapshots + 1 \in 1 .. MaxSnapshots + 1
    BY Sizes
  <2>. QED BY <1>1, <2>1
<1>4. Typed
  BY <1>1, <1>2, <1>3, NothingIsKeys, NoImportFits, NoCommandIdle DEF Typed
<1>5. StepFits /\ OtherFits
  BY <1>1, NoCommandIdle DEF StepFits, OtherFits, Working
<1>6. KeptTrue
  BY <1>1, NothingIsTrue DEF KeptTrue
<1>. QED BY <1>1, <1>2, <1>4, <1>5, <1>6 DEF BackfillInvariant, Gated, NotBegun, ExportTrue,
            ImportTrue, Emptied

LEMMA InvariantNext == BackfillInvariant /\ [BackfillNext]_backfillVars => BackfillInvariant'
<1>. SUFFICES ASSUME BackfillInvariant, [BackfillNext]_backfillVars PROVE BackfillInvariant'
  OBVIOUS
<1>1. CASE CommandStep
  BY <1>1, WakeImportedKeeps, ForgetAlarmKeeps, StartArmsKeeps, StartPutsKeeps, ReadGateKeeps,
     StepReadsKeeps, FetchTileFrameKeeps, PutSampleKeeps, SaveJobKeeps, RearmKeeps DEF CommandStep
<1>2. CASE ChangeTemplate \/ Admit \/ BeginExport \/ ReadPage \/ EndExport
  BY <1>2, ChangeTemplateKeeps, AdmitKeeps, BeginExportKeeps, ReadPageKeeps, EndExportKeeps
<1>3. CASE BeginImport \/ ImportPage \/ Activate \/ BeginDiscard \/ DiscardPage
  BY <1>3, BeginImportKeeps, ImportPageKeeps, ActivateKeeps, BeginDiscardKeeps, DiscardPageKeeps
<1>4. CASE StartReads \/ Cancel \/ StepBegins \/ Throws
  BY <1>4, StartReadsKeeps, CancelKeeps, StepBeginsKeeps, ThrowsKeeps
<1>5. CASE UNCHANGED backfillVars
  <2>1. Still /\ UNCHANGED <<armed, command, admitted, template>>
    BY <1>5 DEF backfillVars, Still
  <2>2. Typed' /\ Gated' /\ Emptied'
    BY <2>1 DEF BackfillInvariant, Typed, Gated, Emptied, Settled, Still
  <2>. QED BY <2>1, <2>2, StillTrue, CommandStays DEF BackfillInvariant
<1>. QED BY <1>1, <1>2, <1>3, <1>4, <1>5 DEF BackfillNext

LEMMA InvariantSuffices == BackfillInvariant => BackfillSound
<1>. SUFFICES ASSUME BackfillInvariant PROVE BackfillSound
  OBVIOUS
<1>1. kept \in Keys /\ kept.job \in Jobs /\ JobFits(kept.job) /\ archive.pages \in SUBSET Page
  BY ArchiveFields DEF BackfillInvariant
<1>2. BackfillTypeOK
  <2>1. kept.job.completed \in 0 .. MaxSnapshots * MaxTiles
    BY <1>1, TotalBound
  <2>2. /\ kept.job.status \in {"none", "running", "completed", "failed", "cancelled"}
        /\ kept.job.counted \in Nat
    BY <1>1, JobFields
  <2>3. /\ kept.samples \in [Snapshot -> {NoSample, Unknown} \cup Nat]
        /\ kept.frames \in [Cell -> {"none", "gap", "image"}]
    BY <1>1, KeysFields DEF Samples, Frames
  <2>4. command.at \in {"idle", "gate", "read", "fetch", "sample", "save", "rearm", "schedule",
                        "start", "wake", "forget"} /\ command.seen \in {"none", "gap", "image"}
    BY DEF BackfillInvariant, Typed, Commands
  <2>. QED BY <1>1, <2>1, <2>2, <2>3, <2>4 DEF BackfillTypeOK, BackfillInvariant, Typed
<1>3. SamplesTrue
  BY DEF SamplesTrue, BackfillInvariant, KeptTrue, KeysTrue, SamplesCounted, Imaged
<1>4. CompletedMeansAll
  <2>1. SUFFICES ASSUME Settled, kept.job.status = "completed", NEW n \in 0 .. kept.job.completed - 1
                 PROVE  kept.frames[At([kept.job EXCEPT !.completed = n])] # "none"
    BY DEF CompletedMeansAll
  <2>2. ~kept.job.failed
    BY <1>1, <2>1 DEF JobFits
  <2>3. At([kept.job EXCEPT !.completed = n]) = Place(kept.job, n)
    BY <1>1 DEF At, Place, Jobs
  <2>. QED BY <2>1, <2>2, <2>3 DEF BackfillInvariant, KeptTrue, KeysTrue, JobTrue, Observed
<1>5. ArchivedStands
  <2>1. SUFFICES ASSUME operation = "export", ~late, NEW p \in archive.pages
                 PROVE  archive.keys[p] = kept[p]
    BY DEF ArchivedStands
  <2>2. p \in Page
    BY <1>1
  <2>3. CASE p = "job"
    BY <2>1, <2>3 DEF BackfillInvariant, ExportTrue
  <2>4. CASE p = "samples"
    BY <2>1, <2>4 DEF BackfillInvariant, ExportTrue
  <2>5. CASE p = "frames"
    BY <2>1, <2>5 DEF BackfillInvariant, ExportTrue
  <2>. QED BY <2>2, <2>3, <2>4, <2>5 DEF Page
<1>6. DiscardedClean
  BY DEF BackfillInvariant, Emptied, DiscardedClean
<1>. QED BY <1>2, <1>3, <1>4, <1>5, <1>6 DEF BackfillSound

\* For any number of tiles, snapshots and bounds: the samples and the end of a
\* job tell the truth, an export reads keys that stand still, and a discarded
\* restore leaves no key and no alarm.
THEOREM BackfillIsSound == BackfillSpec => []BackfillSound
<1>1. BackfillSpec => []BackfillInvariant
  BY InvariantAtFirst, InvariantNext, PTL DEF BackfillSpec
<1>. QED BY <1>1, InvariantSuffices, PTL
==============================================================================
