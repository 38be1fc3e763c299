---------------------- MODULE TelemetryCountersProofs ----------------------
(***************************************************************************)
(* Totals, keys, the cap and the alarm of the live counters, for any       *)
(* events, callers, windows and faults.                                    *)
(***************************************************************************)
EXTENDS TelemetryCounters, FiniteSetTheorems, TLAPS

(***************************************************************************)
(* Sums over finite sets.  The library's induction theorems take an        *)
(* operator; here induction is over a set of counterexamples, which has a  *)
(* minimal element.                                                        *)
(***************************************************************************)
Pick(s) == CHOOSE x \in s : TRUE

\* h adds up f over every subset of S.
Sums(h, f, S) ==
    h = [s \in SUBSET S |-> IF s = {} THEN 0 ELSE f[Pick(s)] + h[s \ {Pick(s)}]]

LEMMA PickIn == ASSUME NEW s, s # {} PROVE Pick(s) \in s
  BY DEF Pick

LEMMA SubsetInduction ==
    ASSUME NEW S, IsFiniteSet(S), NEW Bad \in SUBSET (SUBSET S), Bad # {}
    PROVE  \E s \in Bad : \A t \in Bad : t \subseteq s => t = s
<1>. DEFINE R == StrictSubsetOrdering(S)
<1>1. FiniteSubsetsOf(S) = SUBSET S
  BY FS_FiniteSubsetsOfFinite
<1>2. IsWellFoundedOn(R, SUBSET S)
  BY <1>1, FS_StrictSubsetOrderingWellFounded
<1>3. PICK s \in Bad : \A t \in Bad : <<t, s>> \notin R
  <2>. HIDE DEF R
  <2>. QED BY <1>2, WFMin
<1>. QED BY <1>3 DEF StrictSubsetOrdering
LEMMA LeastNat ==
    ASSUME NEW Bad \in SUBSET Nat, NEW n \in Bad
    PROVE  \E m \in Bad : \A k \in Bad : m <= k
<1>. DEFINE All == 0 .. n
            Initials == {0 .. k : k \in {j \in Bad : j <= n}}
<1>1. PICK s \in Initials : \A t \in Initials : t \subseteq s => t = s
  <2>1. IsFiniteSet(All) BY FS_Interval
  <2>2. Initials \in SUBSET (SUBSET All) OBVIOUS
  <2>3. Initials # {} OBVIOUS
  <2>. HIDE DEF Initials, All
  <2>. QED BY <2>1, <2>2, <2>3, SubsetInduction
<1>2. PICK m \in Bad : m <= n /\ s = 0 .. m OBVIOUS
<1>3. ASSUME NEW k \in Bad, k < m PROVE FALSE
  <2>1. 0 .. k \in Initials BY <1>2, <1>3
  <2>2. 0 .. k \subseteq s BY <1>2, <1>3
  <2>3. 0 .. k = 0 .. m BY <1>1, <1>2, <2>1, <2>2
  <2>4. m \in 0 .. k BY <2>3
  <2>. QED BY <2>4, <1>3
<1>. QED BY <1>2, <1>3

\* h adds up f over every subset of S with at most n elements.
SumsUpTo(h, f, S, n) ==
    \A s \in SUBSET S : Cardinality(s) <= n =>
        h[s] = IF s = {} THEN 0 ELSE f[Pick(s)] + h[s \ {Pick(s)}]

LEMMA SumsMore ==
    ASSUME NEW S, IsFiniteSet(S), NEW f, NEW h, NEW n \in Nat, SumsUpTo(h, f, S, n)
    PROVE  \E g : SumsUpTo(g, f, S, n + 1)
<1>. DEFINE g == [s \in SUBSET S |-> IF Cardinality(s) <= n THEN h[s]
                                     ELSE f[Pick(s)] + h[s \ {Pick(s)}]]
<1>1. ASSUME NEW s \in SUBSET S, Cardinality(s) <= n + 1
      PROVE  g[s] = IF s = {} THEN 0 ELSE f[Pick(s)] + g[s \ {Pick(s)}]
  <2>1. CASE s = {}
    BY <2>1, FS_EmptySet DEF SumsUpTo
  <2>2. CASE s # {}
    <3>1. Pick(s) \in s BY <2>2, PickIn
    <3>2. IsFiniteSet(s) BY FS_Subset
    <3>3. Cardinality(s \ {Pick(s)}) = Cardinality(s) - 1 /\ Cardinality(s) \in Nat
      BY <3>1, <3>2, FS_RemoveElement, FS_CardinalityType
    <3>4. g[s \ {Pick(s)}] = h[s \ {Pick(s)}] BY <1>1, <3>3
    <3>5. g[s] = f[Pick(s)] + h[s \ {Pick(s)}] BY <2>2, <3>3 DEF SumsUpTo
    <3>. QED BY <2>2, <3>4, <3>5
  <2>. QED BY <2>1, <2>2
<1>. HIDE DEF g
<1>. QED BY <1>1 DEF SumsUpTo

LEMMA SumExists ==
    ASSUME NEW S, IsFiniteSet(S), NEW f
    PROVE  \E h : Sums(h, f, S)
<1>. DEFINE Short == {n \in Nat : ~ \E h : SumsUpTo(h, f, S, n)}
<1>1. 0 \notin Short
  <2>. DEFINE h == [s \in SUBSET S |-> 0]
  <2>1. SumsUpTo(h, f, S, 0)
    <3>1. ASSUME NEW s \in SUBSET S, Cardinality(s) <= 0 PROVE s = {}
      <4>1. IsFiniteSet(s) BY FS_Subset
      <4>2. Cardinality(s) \in Nat BY <4>1, FS_CardinalityType
      <4>. QED BY <4>1, <4>2, <3>1, FS_EmptySet
    <3>. QED BY <3>1 DEF SumsUpTo
  <2>. QED BY <2>1
<1>2. ASSUME NEW n \in Nat, n \notin Short PROVE n + 1 \notin Short
  BY <1>2, SumsMore
<1>3. ASSUME NEW n \in Short PROVE FALSE
  <2>. HIDE DEF Short
  <2>0. Short \in SUBSET Nat BY DEF Short
  <2>1. PICK m \in Short : \A k \in Short : m <= k BY <2>0, <1>3, LeastNat
  <2>2. m # 0 BY <1>1, <2>1
  <2>3. m - 1 \in Nat /\ m - 1 \notin Short BY <2>0, <2>1, <2>2
  <2>. QED BY <1>2, <2>0, <2>1, <2>3
<1>4. Cardinality(S) \in Nat BY FS_CardinalityType
<1>5. PICK h : SumsUpTo(h, f, S, Cardinality(S)) BY <1>3, <1>4
<1>. DEFINE g == [s \in SUBSET S |-> h[s]]
<1>6. \A s \in SUBSET S : h[s] = IF s = {} THEN 0 ELSE f[Pick(s)] + h[s \ {Pick(s)}]
  <2>1. \A s \in SUBSET S : Cardinality(s) <= Cardinality(S) BY FS_Subset
  <2>. QED BY <1>5, <2>1 DEF SumsUpTo
<1>7. Sums(g, f, S) BY <1>6 DEF Sums
<1>. QED BY <1>7

\* What holds of {} and of every set that holds of a set with one element less.
LEMMA SumStep ==
    ASSUME NEW S, IsFiniteSet(S), NEW Good \in SUBSET (SUBSET S), {} \in Good,
           \A s \in SUBSET S : s # {} /\ s \ {Pick(s)} \in Good => s \in Good
    PROVE  S \in Good
<1>. DEFINE Bad == (SUBSET S) \ Good
<1>1. CASE Bad # {}
  <2>1. PICK s \in Bad : \A t \in Bad : t \subseteq s => t = s
    <3>. HIDE DEF Bad
    <3>1. Bad \in SUBSET (SUBSET S) BY DEF Bad
    <3>. QED BY <1>1, <3>1, SubsetInduction
  <2>2. s # {} /\ Pick(s) \in s
    BY <2>1, PickIn
  <2>3. s \ {Pick(s)} \in Good
    BY <2>1, <2>2
  <2>. QED BY <2>1, <2>2, <2>3
<1>. QED BY <1>1

LEMMA SumIsInt ==
    ASSUME NEW S, IsFiniteSet(S), NEW f, NEW h, Sums(h, f, S), \A x \in S : f[x] \in Int
    PROVE  h[S] \in Int
<1>. DEFINE Good == {s \in SUBSET S : h[s] \in Int}
<1>1. {} \in Good
  BY DEF Sums
<1>2. ASSUME NEW s \in SUBSET S, s # {}, s \ {Pick(s)} \in Good PROVE s \in Good
  <2>1. f[Pick(s)] \in Int BY <1>2, PickIn
  <2>2. h[s] = f[Pick(s)] + h[s \ {Pick(s)}] BY <1>2 DEF Sums
  <2>. QED BY <1>2, <2>1, <2>2
<1>3. S \in Good
  <2>. HIDE DEF Good
  <2>1. Good \in SUBSET (SUBSET S) BY DEF Good
  <2>. QED BY <1>1, <1>2, <2>1, SumStep
<1>. QED BY <1>3

\* One summand grows by k.
LEMMA SumGrows ==
    ASSUME NEW S, IsFiniteSet(S), NEW f, NEW g, NEW h, NEW i,
           Sums(h, f, S), Sums(i, g, S), NEW a, NEW k \in Int,
           \A x \in S : f[x] \in Int /\ g[x] = f[x] + (IF x = a THEN k ELSE 0)
    PROVE  h[S] \in Int /\ i[S] = h[S] + (IF a \in S THEN k ELSE 0)
<1>. DEFINE Good == {s \in SUBSET S : h[s] \in Int /\ i[s] = h[s] + (IF a \in s THEN k ELSE 0)}
<1>1. {} \in Good
  BY DEF Sums
<1>2. ASSUME NEW s \in SUBSET S, s # {}, s \ {Pick(s)} \in Good PROVE s \in Good
  <2>. DEFINE p == Pick(s)
  <2>1. p \in S /\ p \in s BY <1>2, PickIn
  <2>2. f[p] \in Int /\ g[p] = f[p] + (IF p = a THEN k ELSE 0) BY <2>1
  <2>3. h[s] = f[p] + h[s \ {p}] /\ i[s] = g[p] + i[s \ {p}] BY <1>2 DEF Sums
  <2>4. h[s \ {p}] \in Int /\ i[s \ {p}] = h[s \ {p}] + (IF a \in s \ {p} THEN k ELSE 0)
    BY <1>2
  <2>. HIDE DEF p
  <2>5. CASE a = p
    BY <2>1, <2>2, <2>3, <2>4, <2>5
  <2>6. CASE a # p
    <3>1. a \in s <=> a \in s \ {p} BY <2>6
    <3>. QED BY <2>2, <2>3, <2>4, <2>6, <3>1
  <2>. QED BY <2>5, <2>6
<1>3. S \in Good
  <2>. HIDE DEF Good
  <2>1. Good \in SUBSET (SUBSET S) BY DEF Good
  <2>. QED BY <1>1, <1>2, <2>1, SumStep
<1>. QED BY <1>3

\* No summand grows.
LEMMA SumShrinks ==
    ASSUME NEW S, IsFiniteSet(S), NEW f, NEW g, NEW h, NEW i,
           Sums(h, f, S), Sums(i, g, S),
           \A x \in S : f[x] \in Int /\ g[x] \in Int /\ g[x] <= f[x]
    PROVE  h[S] \in Int /\ i[S] \in Int /\ i[S] <= h[S]
<1>. DEFINE Good == {s \in SUBSET S : h[s] \in Int /\ i[s] \in Int /\ i[s] <= h[s]}
<1>1. {} \in Good
  BY DEF Sums
<1>2. ASSUME NEW s \in SUBSET S, s # {}, s \ {Pick(s)} \in Good PROVE s \in Good
  <2>. DEFINE p == Pick(s)
  <2>1. p \in S /\ p \in s BY <1>2, PickIn
  <2>2. f[p] \in Int /\ g[p] \in Int /\ g[p] <= f[p] BY <2>1
  <2>3. h[s] = f[p] + h[s \ {p}] /\ i[s] = g[p] + i[s \ {p}] BY <1>2 DEF Sums
  <2>4. h[s \ {p}] \in Int /\ i[s \ {p}] \in Int /\ i[s \ {p}] <= h[s \ {p}]
    BY <1>2
  <2>. HIDE DEF p
  <2>. QED BY <2>2, <2>3, <2>4
<1>3. S \in Good
  <2>. HIDE DEF Good
  <2>1. Good \in SUBSET (SUBSET S) BY DEF Good
  <2>. QED BY <1>1, <1>2, <2>1, SumStep
<1>. QED BY <1>3

LEMMA SumOfZeros ==
    ASSUME NEW S, IsFiniteSet(S), NEW f, NEW h, Sums(h, f, S), \A x \in S : f[x] = 0
    PROVE  h[S] = 0
<1>. DEFINE Good == {s \in SUBSET S : h[s] = 0}
<1>1. {} \in Good
  BY DEF Sums
<1>2. ASSUME NEW s \in SUBSET S, s # {}, s \ {Pick(s)} \in Good PROVE s \in Good
  <2>1. f[Pick(s)] = 0 BY <1>2, PickIn
  <2>2. h[s] = f[Pick(s)] + h[s \ {Pick(s)}] BY <1>2 DEF Sums
  <2>. QED BY <1>2, <2>1, <2>2
<1>3. S \in Good
  <2>. HIDE DEF Good
  <2>1. Good \in SUBSET (SUBSET S) BY DEF Good
  <2>. QED BY <1>1, <1>2, <2>1, SumStep
<1>. QED BY <1>3

-----------------------------------------------------------------------------
(* Constants, buckets and alarms.                                          *)

LEMMA Windows ==
    /\ Resolution \in Nat \ {0} /\ Grace \in Nat \ {0} /\ Retention \in Nat \ {0}
    /\ BatchLimit \in Nat \ {0} /\ Cap \in Nat \ {0} /\ MaxTime \in Nat /\ MaxSends \in Nat
    /\ FlushableAfter \in Nat /\ ExpiresAfter \in Nat
    /\ IdempotencyRetention = ExpiresAfter + Grace
  BY CountersAssumption DEF FlushableAfter, ExpiresAfter, IdempotencyRetention

LEMMA StartBelow ==
    ASSUME NEW t \in Nat
    PROVE  Start(t) \in Nat /\ Start(t) <= t
<1>1. Resolution \in Nat /\ Resolution > 0
  BY Windows
<1>. DEFINE q == t \div Resolution
            m == t % Resolution
<1>2. q \in Int /\ 0 <= m /\ m < Resolution /\ t = Resolution * q + m /\ m \in Int
  BY <1>1
<1>3. q >= 0
  BY <1>1
<1>4. q * Resolution \in Int /\ q * Resolution >= 0 /\ q * Resolution = Resolution * q
  <2>. HIDE DEF q
  <2>. QED BY <1>1, <1>2, <1>3
<1>. QED BY <1>2, <1>4 DEF Start

LEMMA BucketOfEvent ==
    ASSUME NEW e \in Event
    PROVE  /\ BucketOf(e) \in Bucket /\ Occurred[e] \in Nat
           /\ BucketOf(e) \in Nat /\ BucketOf(e) <= Occurred[e]
  BY CountersAssumption, StartBelow DEF Bucket, BucketOf

LEMMA BucketsNat == Bucket \subseteq Nat
  BY BucketOfEvent DEF Bucket

LEMMA BucketsFinite == IsFiniteSet(Event) /\ IsFiniteSet(Bucket)
<1>1. IsFiniteSet(Event)
  BY CountersAssumption
<1>. DEFINE of == [e \in Event |-> BucketOf(e)]
<1>2. of \in Surjection(Event, Bucket)
  BY DEF Surjection, Bucket
<1>. QED BY <1>1, <1>2, FS_Surjection

LEMMA Agents ==
    /\ Flusher \in Agent /\ Request \subseteq Agent /\ Flusher \notin Request
    /\ Nobody \notin Agent /\ NoEvent \notin Event
    /\ \A a \in Agent : a # Flusher => a \in Request
  BY CountersAssumption DEF Agent, Flusher, Nobody

LEMMA AlarmAtTyped ==
    ASSUME NEW t \in Nat
    PROVE  /\ AlarmAt(t) \in Alarms /\ AlarmAt(t).at # NoTime /\ ~AlarmAt(t).fired
           /\ NoAlarm \in Alarms /\ ~NoAlarm.fired
  BY Windows DEF AlarmAt, NoAlarm, Alarms, Time, NoTime

LEMMA NextAlarmTyped ==
    ASSUME NEW now \in Nat, pending \in [Bucket -> Nat]
    PROVE  /\ NextAlarm(now) \in Alarms /\ ~NextAlarm(now).fired
           /\ Rows(pending) # {} => NextAlarm(now).at # NoTime
<1>1. CASE Rows(pending) = {}
  BY <1>1, AlarmAtTyped DEF NextAlarm
<1>2. CASE Rows(pending) # {}
  <2>1. Rows(pending) \in SUBSET Nat
    BY BucketsNat DEF Rows
  <2>2. Min(Rows(pending)) \in Nat
    <3>1. PICK m \in Rows(pending) : \A k \in Rows(pending) : m <= k
      BY <1>2, <2>1, LeastNat
    <3>2. Min(Rows(pending)) \in Rows(pending)
      BY <3>1 DEF Min
    <3>. QED BY <2>1, <3>2
  <2>. DEFINE x == Min(Rows(pending)) + FlushableAfter
  <2>3. x \in Nat
    BY <2>2, Windows
  <2>4. Max({now, x}) \in Nat
    <3>. HIDE DEF x
    <3>1. \E y \in {now, x} : \A z \in {now, x} : y >= z
      BY <2>3
    <3>2. Max({now, x}) \in {now, x}
      BY <3>1 DEF Max
    <3>. QED BY <2>3, <3>2
  <2>5. NextAlarm(now) = AlarmAt(Max({now, x}))
    BY <1>2 DEF NextAlarm
  <2>. HIDE DEF x
  <2>. QED BY <2>4, <2>5, AlarmAtTyped
<1>. QED BY <1>1, <1>2

-----------------------------------------------------------------------------
(***************************************************************************)
(* Types, and what the step of a call says: only the alarm handler         *)
(* flushes, whoever is inside updateAlarm is the one that arming names, a  *)
(* coordinator that is down serves no call.                                *)
(***************************************************************************)
Calls == [at : Steps, now : Time, event : Event \cup {NoEvent}, rows : SUBSET Bucket, to : Alarms]
Chain == {"armBatch", "armPending", "armSet"}

Fits(a, k) ==
    /\ k.now <= clock
    /\ a = Flusher => k.at # "commit"
    /\ a # Flusher => k.at \in {"idle", "prune", "commit", "arm"} \cup Chain
    /\ a # Flusher /\ k.at \in {"prune", "commit"} => k.event \in Event
    /\ k.at \in Chain <=> arming = a
    /\ k.at = "armSet" => ~k.to.fired
    /\ ~up => k.at = "idle"

CallsFit == \A a \in Agent : Fits(a, call[a])

CountsTyped ==
    /\ clock \in Time
    /\ pending \in [Bucket -> Nat] /\ batch \in [Bucket -> Nat]
    /\ retained \in [Bucket -> Nat] /\ series \in [Bucket -> Nat]
    /\ seen \in [Event -> Time \cup {NoTime}]
    /\ counted \in [Event -> Nat] /\ raced \subseteq Bucket
CallsTyped ==
    /\ alarm \in Alarms /\ arming \in Agent \cup {Nobody}
    /\ call \in [Agent -> Calls]
    /\ up \in BOOLEAN /\ sends \in 0 .. MaxSends /\ missed \in BOOLEAN

TypeInv == CountsTyped /\ CallsTyped /\ CallsFit

LEMMA TypeInvTypeOK == TypeInv => TypeOK
  BY DEF TypeInv, TypeOK, CountsTyped, CallsTyped, Calls

LEMMA IdleTyped ==
    /\ Idle \in Calls /\ Idle.at = "idle" /\ Idle.now = 0
    /\ Idle.rows = {} /\ Idle.event = NoEvent
  BY AlarmAtTyped, Windows DEF Idle, Calls, Steps, Time

LEMMA TimesAreNat == Time \subseteq Nat /\ (\A t \in Time : t <= MaxTime) /\ NoTime \notin Time
  BY Windows DEF Time, NoTime

\* One call moves, and enters or leaves the chain as arming says.
LEMMA CallMoves ==
    ASSUME TypeInv, NEW a \in Agent, NEW k \in Calls,
           call' = [call EXCEPT ![a] = k],
           Fits(a, k)', clock' = clock, up' = up,
           arming' \in Agent \cup {Nobody},
           \A o \in Agent \ {a} : (arming' = o) <=> (arming = o)
    PROVE  call' \in [Agent -> Calls] /\ CallsFit'
<1>1. call' \in [Agent -> Calls]
  BY DEF TypeInv, CallsTyped
<1>2. ASSUME NEW o \in Agent PROVE Fits(o, call[o])'
  <2>1. CASE o = a
    <3>1. call'[o] = k
      BY <2>1 DEF TypeInv, CallsTyped
    <3>. QED BY <2>1, <3>1 DEF Fits
  <2>2. CASE o # a
    <3>1. call'[o] = call[o]
      BY <2>2 DEF TypeInv, CallsTyped
    <3>2. Fits(o, call[o])
      BY DEF TypeInv, CallsFit
    <3>. QED BY <2>2, <3>1, <3>2 DEF Fits
  <2>. QED BY <2>1, <2>2
<1>. QED BY <1>1, <1>2 DEF CallsFit

\* The call that is to move.
LEMMA CallOf ==
    ASSUME TypeInv, NEW a \in Agent
    PROVE  /\ call[a] \in Calls /\ Fits(a, call[a])
           /\ call[a].now \in Time /\ call[a].now \in Nat /\ clock \in Nat
  BY TimesAreNat DEF TypeInv, CountsTyped, CallsTyped, CallsFit, Calls

LEMMA BeginTyped ==
    ASSUME TypeInv, NEW r \in Request, NEW k \in Calls, Begin(r, k),
           k.now = clock, k.at \in {"prune", "arm"}, k.at = "prune" => k.event \in Event
    PROVE  TypeInv'
<1>1. r \in Agent /\ r # Flusher /\ arming # r
  BY Agents, CallOf DEF Begin, Fits, Chain
<1>2. Fits(r, k)'
  BY <1>1, CallOf DEF Begin, Fits, Chain
<1>3. call' \in [Agent -> Calls] /\ CallsFit'
  BY <1>1, <1>2, CallMoves DEF Begin, TypeInv, CallsTyped
<1>4. sends' \in 0 .. MaxSends
  BY Windows DEF Begin, TypeInv, CallsTyped
<1>. QED BY <1>3, <1>4 DEF Begin, TypeInv, CallsTyped, CountsTyped, tables, history

LEMMA RecordTyped ==
    ASSUME TypeInv, NEW r \in Request, (\E e \in Event : Record(r, e)) \/ ReadPending(r)
    PROVE  TypeInv'
<1>1. CASE \E e \in Event : Record(r, e)
  <2>1. PICK e \in Event : Record(r, e) BY <1>1
  <2>. DEFINE k == [Idle EXCEPT !.at = "prune", !.now = clock, !.event = e]
  <2>2. k \in Calls /\ k.now = clock /\ k.at = "prune" /\ k.event = e
    BY AlarmAtTyped DEF TypeInv, CountsTyped, Idle, Calls, Steps
  <2>3. Begin(r, k) BY <2>1, Zenon DEF Record
  <2>. HIDE DEF k
  <2>. QED BY <2>2, <2>3, BeginTyped
<1>2. CASE ReadPending(r)
  <2>. DEFINE k == [Idle EXCEPT !.at = "arm", !.now = clock]
  <2>2. k \in Calls /\ k.now = clock /\ k.at = "arm"
    BY AlarmAtTyped DEF TypeInv, CountsTyped, Idle, Calls, Steps
  <2>3. Begin(r, k) BY <1>2 DEF ReadPending
  <2>. HIDE DEF k
  <2>. QED BY <2>2, <2>3, BeginTyped
<1>. QED BY <1>1, <1>2

LEMMA FireTyped == ASSUME TypeInv, Fire PROVE TypeInv'
<1>1. [Idle EXCEPT !.at = "prune", !.now = clock] \in Calls
  BY AlarmAtTyped DEF TypeInv, CountsTyped, Idle, Calls, Steps
<1>2. PICK k \in Calls : /\ k.now = clock /\ k.at = "prune"
                         /\ call' = [call EXCEPT ![Flusher] = k]
  BY <1>1 DEF Fire, Idle
<1>3. Flusher \in Agent /\ arming # Flusher
  BY Agents, CallOf DEF Fire, Fits, Chain
<1>4. Fits(Flusher, k)'
  BY <1>2, <1>3, CallOf DEF Fire, Fits, Chain
<1>5. call' \in [Agent -> Calls] /\ CallsFit'
  BY <1>2, <1>3, <1>4, CallMoves DEF Fire, TypeInv, CallsTyped
<1>6. alarm' \in Alarms
  BY DEF Fire, TypeInv, CallsTyped, Alarms
<1>. QED BY <1>5, <1>6 DEF Fire, TypeInv, CallsTyped, CountsTyped, tables, history

LEMMA TickTyped == ASSUME TypeInv, Tick PROVE TypeInv'
<1>1. clock' \in Time /\ clock <= clock'
  BY TimesAreNat, Windows DEF Tick, TypeInv, CountsTyped, Time
<1>2. CallsFit'
  <2>. SUFFICES ASSUME NEW a \in Agent PROVE Fits(a, call[a])'
    BY DEF CallsFit
  <2>1. call[a].now <= clock'
    BY <1>1, CallOf, TimesAreNat DEF Fits
  <2>. QED BY <2>1, CallOf DEF Fits, Tick
<1>. QED BY <1>1, <1>2 DEF Tick, TypeInv, CallsTyped, CountsTyped, tables, history

\* A call takes a new step with what it knows.
LEMMA StepTyped ==
    ASSUME TypeInv, NEW a \in Agent, NEW step \in Steps, Goto(a, step)
    PROVE  \E k \in Calls :
              /\ k.at = step /\ k.now = call[a].now /\ k.to = call[a].to
              /\ k.event = call[a].event /\ k.rows = call[a].rows
              /\ call' = [call EXCEPT ![a] = k]
<1>. DEFINE k == [call[a] EXCEPT !.at = step]
<1>1. /\ k \in Calls /\ k.at = step /\ k.now = call[a].now /\ k.to = call[a].to
      /\ k.event = call[a].event /\ k.rows = call[a].rows
  BY CallOf DEF Calls
<1>2. call' = [call EXCEPT ![a] = k]
  BY DEF Goto, TypeInv, CallsTyped
<1>. HIDE DEF k
<1>. QED BY <1>1, <1>2

LEMMA PrunedTyped ==
    ASSUME TypeInv, NEW now
    PROVE  Pruned(now) \in [Bucket -> Nat]
  BY DEF Pruned, TypeInv, CountsTyped

LEMMA PruneTyped == ASSUME TypeInv, NEW a \in Agent, Prune(a) PROVE TypeInv'
<1>. DEFINE step == IF call[a].at = "lastPrune" THEN "arm"
                    ELSE IF a = Flusher THEN "load" ELSE "commit"
<1>1. step \in Steps /\ Goto(a, step)
  BY DEF Steps, Prune
<1>2. PICK k \in Calls : /\ k.at = step /\ k.now = call[a].now /\ k.event = call[a].event
                         /\ call' = [call EXCEPT ![a] = k]
  <2>. HIDE DEF step
  <2>. QED BY <1>1, StepTyped
<1>3. Fits(a, k)'
  BY <1>2, CallOf, Agents DEF Prune, Fits, Chain
<1>4. call' \in [Agent -> Calls] /\ CallsFit'
  BY <1>2, <1>3, CallMoves DEF Prune, TypeInv, CallsTyped
<1>. QED BY <1>4, PrunedTyped DEF Prune, TypeInv, CallsTyped, CountsTyped, history

LEMMA KeptTyped ==
    ASSUME TypeInv, NEW now
    PROVE  Kept(now) \in [Event -> Time \cup {NoTime}]
  BY DEF Kept, TypeInv, CountsTyped

LEMMA CommitTyped == ASSUME TypeInv, NEW r \in Request, Commit(r) PROVE TypeInv'
<1>1. r \in Agent /\ r # Flusher /\ call[r].event \in Event /\ arming # r
  BY Agents, CallOf DEF Commit, Fits, Chain
<1>2. [call[r] EXCEPT !.at = "arm", !.event = NoEvent] \in Calls
  BY <1>1, CallOf DEF Calls, Steps
<1>3. PICK k \in Calls : /\ k.at = "arm" /\ k.now = call[r].now
                         /\ call' = [call EXCEPT ![r] = k]
  BY <1>1, <1>2, CallOf DEF Commit, TypeInv, CallsTyped, Calls
<1>4. Fits(r, k)'
  BY <1>1, <1>3, CallOf DEF Commit, Fits, Chain
<1>5. call' \in [Agent -> Calls] /\ CallsFit'
  BY <1>1, <1>3, <1>4, CallMoves DEF Commit, TypeInv, CallsTyped
<1>6. seen' \in [Event -> Time \cup {NoTime}]
  BY <1>1, CallOf, KeptTyped DEF Commit
<1>7. pending' \in [Bucket -> Nat] /\ counted' \in [Event -> Nat]
  BY <1>1, BucketOfEvent DEF Commit, TypeInv, CountsTyped
<1>8. raced' \subseteq Bucket
  BY <1>1, BucketOfEvent DEF Commit, TypeInv, CountsTyped
<1>. QED BY <1>5, <1>6, <1>7, <1>8 DEF Commit, TypeInv, CallsTyped, CountsTyped

LEMMA ArmTyped == ASSUME TypeInv, NEW a \in Agent, Arm(a) PROVE TypeInv'
<1>. DEFINE step == IF Rows(batch) # {} THEN "armBatch" ELSE "armPending"
<1>1. step \in Steps /\ Goto(a, step)
  BY DEF Steps, Arm
<1>2. PICK k \in Calls : /\ k.at = step /\ k.now = call[a].now
                         /\ call' = [call EXCEPT ![a] = k]
  <2>. HIDE DEF step
  <2>. QED BY <1>1, StepTyped
<1>3. Fits(a, k)'
  BY <1>2, CallOf, Agents DEF Arm, Fits, Chain
<1>4. call' \in [Agent -> Calls] /\ CallsFit'
  BY <1>2, <1>3, CallMoves, Agents DEF Arm, MayArm, TypeInv, CallsTyped
<1>. QED BY <1>4 DEF Arm, TypeInv, CallsTyped, CountsTyped, tables, history

\* The call of a setAlarm or deleteAlarm.
LEMMA SetToTyped ==
    ASSUME TypeInv, NEW a \in Agent, NEW to \in Alarms, ~to.fired, SetTo(a, to), arming = a,
           UNCHANGED <<clock, tables, series, seen, alarm, arming, up, sends, history, missed>>
    PROVE  TypeInv'
<1>1. [Idle EXCEPT !.at = "armSet", !.to = to] \in Calls
  BY IdleTyped DEF Calls, Steps
<1>2. PICK k \in Calls : /\ k.at = "armSet" /\ k.now = 0 /\ k.to = to
                         /\ call' = [call EXCEPT ![a] = k]
  BY <1>1, IdleTyped DEF SetTo, Calls
<1>3. Fits(a, k)'
  BY <1>2, CallOf, Agents DEF Fits, Chain
<1>4. call' \in [Agent -> Calls] /\ CallsFit'
  BY <1>2, <1>3, CallMoves DEF TypeInv, CallsTyped
<1>. QED BY <1>4 DEF TypeInv, CallsTyped, CountsTyped, tables, history

LEMMA ReturnedTyped ==
    ASSUME TypeInv, NEW a \in Agent, Return(a)
    PROVE  \E k \in Calls : /\ k.at = (IF a = Flusher THEN "finish" ELSE "idle")
                            /\ k.now = 0 /\ call' = [call EXCEPT ![a] = k]
<1>1. [Idle EXCEPT !.at = "finish"] \in Calls
  BY IdleTyped DEF Calls, Steps
<1>. QED BY <1>1, IdleTyped DEF Return, Calls

\* An answer, after which nobody is inside updateAlarm but who was before.
LEMMA ReturnTyped ==
    ASSUME TypeInv, NEW a \in Agent, Return(a), up, arming \in {a, Nobody}, arming' = Nobody,
           alarm' \in Alarms, missed' \in BOOLEAN,
           UNCHANGED <<clock, tables, series, seen, up, sends, history>>
    PROVE  TypeInv'
<1>1. PICK k \in Calls : /\ k.at = (IF a = Flusher THEN "finish" ELSE "idle")
                         /\ k.now = 0 /\ call' = [call EXCEPT ![a] = k]
  BY ReturnedTyped
<1>2. Fits(a, k)'
  BY <1>1, CallOf, Agents DEF Fits, Chain
<1>3. call' \in [Agent -> Calls] /\ CallsFit'
  BY <1>1, <1>2, CallMoves, Agents DEF TypeInv, CallsTyped
<1>. QED BY <1>3 DEF TypeInv, CallsTyped, CountsTyped, tables, history

LEMMA ArmingTyped ==
    ASSUME TypeInv, NEW a \in Agent, ArmBatch(a) \/ ArmPending(a) \/ ArmSet(a)
    PROVE  TypeInv'
<1>1. arming = a /\ up
  BY CallOf DEF ArmBatch, ArmPending, ArmSet, Fits, Chain
<1>2. CASE ArmBatch(a)
  <2>1. CASE NeedsAlarm(call[a].now)
    <3>1. AlarmAt(call[a].now) \in Alarms /\ ~AlarmAt(call[a].now).fired
      BY CallOf, AlarmAtTyped
    <3>. QED BY <1>1, <1>2, <2>1, <3>1, SetToTyped DEF ArmBatch
  <2>2. CASE ~NeedsAlarm(call[a].now)
    BY <1>1, <1>2, <2>2, ReturnTyped DEF ArmBatch, TypeInv, CallsTyped
  <2>. QED BY <2>1, <2>2
<1>3. CASE ArmPending(a)
  <2>1. NextAlarm(call[a].now) \in Alarms /\ ~NextAlarm(call[a].now).fired
    BY CallOf, NextAlarmTyped DEF TypeInv, CountsTyped
  <2>. QED BY <1>1, <1>3, <2>1, SetToTyped DEF ArmPending
<1>4. CASE ArmSet(a)
  <2>1. alarm' \in Alarms
    BY <1>4, CallOf DEF ArmSet, Calls
  <2>. QED BY <1>1, <1>4, <2>1, ReturnTyped DEF ArmSet, TypeInv, CallsTyped
<1>. QED BY <1>2, <1>3, <1>4

-----------------------------------------------------------------------------
(* The types over a flush, over faults, and over every step.               *)

\* The handler moves on; what it did to the stored counts is given.
LEMMA FlusherTyped ==
    ASSUME TypeInv, NEW k \in Calls, call' = [call EXCEPT ![Flusher] = k],
           k.now <= clock, k.at \notin Chain \cup {"commit"},
           call[Flusher].at \notin Chain, up, alarm' \in Alarms, missed' \in BOOLEAN,
           pending' \in [Bucket -> Nat], batch' \in [Bucket -> Nat],
           retained' \in [Bucket -> Nat], series' \in [Bucket -> Nat],
           UNCHANGED <<clock, seen, arming, up, sends, history>>
    PROVE  TypeInv'
<1>1. Flusher \in Agent /\ arming # Flusher
  BY Agents, CallOf DEF Fits
<1>2. Fits(Flusher, k)'
  BY <1>1 DEF Fits, Chain
<1>3. call' \in [Agent -> Calls] /\ CallsFit'
  BY <1>1, <1>2, CallMoves DEF TypeInv, CallsTyped
<1>. QED BY <1>3 DEF TypeInv, CallsTyped, CountsTyped, history

LEMMA FlusherUp ==
    ASSUME TypeInv, call[Flusher].at # "idle"
    PROVE  up /\ Flusher \in Agent /\ call[Flusher] \in Calls /\ call[Flusher].now <= clock
  BY Agents, CallOf DEF Fits

LEMMA LoadTyped == ASSUME TypeInv, Load PROVE TypeInv'
<1>1. up /\ Flusher \in Agent /\ call[Flusher] \in Calls /\ call[Flusher].now <= clock
  BY FlusherUp DEF Load
<1>. DEFINE loaded == {b \in Rows(batch) : Cardinality({x \in Rows(batch) : x < b}) < BatchLimit}
<1>2. PICK k \in Calls : /\ k.now = call[Flusher].now
                         /\ k.at \in {"append", "promote", "lastPrune"}
                         /\ call' = [call EXCEPT ![Flusher] = k]
  <2>1. CASE Rows(batch) # {}
    <3>. DEFINE k == [call[Flusher] EXCEPT !.at = "append", !.rows = loaded]
    <3>1. loaded \subseteq Bucket
      BY DEF Rows
    <3>. HIDE DEF loaded
    <3>2. k \in Calls /\ k.now = call[Flusher].now /\ k.at = "append"
      BY <1>1, <3>1 DEF Calls, Steps
    <3>3. call' = [call EXCEPT ![Flusher] = k]
      BY <2>1, <1>1 DEF Load, TypeInv, CallsTyped, loaded
    <3>. QED BY <3>2, <3>3
  <2>2. CASE Rows(batch) = {}
    <3>. DEFINE step == IF call[Flusher].at = "load" THEN "promote" ELSE "lastPrune"
    <3>1. step \in Steps /\ Goto(Flusher, step) /\ step \in {"promote", "lastPrune"}
      BY <2>2 DEF Load, Steps
    <3>. HIDE DEF step
    <3>. QED BY <1>1, <3>1, StepTyped
  <2>. QED BY <2>1, <2>2
<1>. QED BY <1>1, <1>2, FlusherTyped DEF Load, TypeInv, CountsTyped, CallsTyped, Chain, tables

LEMMA PromoteTyped == ASSUME TypeInv, Promote PROVE TypeInv'
<1>1. up /\ Flusher \in Agent /\ call[Flusher] \in Calls /\ call[Flusher].now <= clock
  BY FlusherUp DEF Promote
<1>2. PICK k \in Calls : /\ k.now = call[Flusher].now /\ k.at = "reload"
                         /\ call' = [call EXCEPT ![Flusher] = k]
  BY <1>1, StepTyped DEF Promote, Steps
<1>3. batch' \in [Bucket -> Nat] /\ pending' \in [Bucket -> Nat]
  BY DEF Promote, Promoted, TypeInv, CountsTyped
<1>. QED BY <1>1, <1>2, <1>3, FlusherTyped DEF Promote, TypeInv, CountsTyped, CallsTyped, Chain

LEMMA LandedTyped == ASSUME TypeInv PROVE Landed \in [Bucket -> Nat]
  BY DEF Landed, TypeInv, CountsTyped

LEMMA AppendTyped == ASSUME TypeInv, AppendRows \/ AppendFails PROVE TypeInv'
<1>1. up /\ Flusher \in Agent /\ call[Flusher] \in Calls /\ call[Flusher].now <= clock
  BY FlusherUp DEF AppendRows, AppendFails
<1>2. PICK k \in Calls : /\ k.now <= clock /\ k.at \in {"settle", "backoff"}
                         /\ call' = [call EXCEPT ![Flusher] = k]
  <2>1. CASE AppendRows
    BY <1>1, <2>1, StepTyped DEF AppendRows, Steps
  <2>2. CASE AppendFails
    <3>1. [Idle EXCEPT !.at = "backoff"] \in Calls
      BY IdleTyped DEF Calls, Steps
    <3>2. PICK k \in Calls : k.now = 0 /\ k.at = "backoff" /\ call' = [call EXCEPT ![Flusher] = k]
      BY <2>2, <3>1, IdleTyped DEF AppendFails, Calls
    <3>3. 0 <= clock
      BY TimesAreNat DEF TypeInv, CountsTyped
    <3>. QED BY <3>2, <3>3
  <2>. QED BY <2>1, <2>2
<1>3. series' \in [Bucket -> Nat]
  BY LandedTyped DEF AppendRows, AppendFails, TypeInv, CountsTyped
<1>. QED BY <1>1, <1>2, <1>3, FlusherTyped
         DEF AppendRows, AppendFails, TypeInv, CountsTyped, CallsTyped, Chain, tables

LEMMA DelayedTyped ==
    ASSUME TypeInv, NEW delay \in RetryDelays
    PROVE  /\ AlarmAt(clock + delay) \in Alarms /\ AlarmAt(clock + delay).at # NoTime
           /\ ~AlarmAt(clock + delay).fired
<1>1. clock + delay \in Nat
  BY TimesAreNat DEF TypeInv, CountsTyped, RetryDelays
<1>. QED BY <1>1, AlarmAtTyped

LEMMA BackoffTyped == ASSUME TypeInv, Backoff PROVE TypeInv'
<1>1. up /\ Flusher \in Agent
  BY FlusherUp DEF Backoff
<1>2. alarm' \in Alarms
  BY DelayedTyped DEF Backoff
<1>. QED BY <1>1, <1>2, ReturnTyped DEF Backoff

LEMMA SettleTyped == ASSUME TypeInv, Settle PROVE TypeInv'
<1>1. up /\ Flusher \in Agent /\ call[Flusher] \in Calls /\ call[Flusher].now <= clock
  BY FlusherUp DEF Settle
<1>2. PICK k \in Calls : /\ k.now = call[Flusher].now /\ k.at = "lastPrune"
                         /\ call' = [call EXCEPT ![Flusher] = k]
  <2>. DEFINE k == [call[Flusher] EXCEPT !.at = "lastPrune", !.rows = {}]
  <2>1. k \in Calls /\ k.now = call[Flusher].now /\ k.at = "lastPrune"
    BY <1>1 DEF Calls, Steps
  <2>2. call' = [call EXCEPT ![Flusher] = k]
    BY <1>1 DEF Settle, TypeInv, CallsTyped
  <2>. HIDE DEF k
  <2>. QED BY <2>1, <2>2
<1>3. batch' \in [Bucket -> Nat] /\ retained' \in [Bucket -> Nat]
  BY DEF Settle, TypeInv, CountsTyped
<1>. QED BY <1>1, <1>2, <1>3, FlusherTyped DEF Settle, TypeInv, CountsTyped, CallsTyped, Chain

LEMMA FinishTyped == ASSUME TypeInv, Finish PROVE TypeInv'
<1>1. up /\ Flusher \in Agent /\ call[Flusher] \in Calls /\ call[Flusher].now <= clock
  BY FlusherUp DEF Finish
<1>2. alarm' \in Alarms
  BY AlarmAtTyped DEF Finish, TypeInv, CallsTyped
<1>3. Idle \in Calls /\ Idle.now <= clock /\ Idle.at = "idle"
  BY <1>1, IdleTyped, CallOf
<1>4. PICK k \in Calls : k = Idle
  BY <1>3
<1>. QED BY <1>1, <1>2, <1>3, <1>4, FlusherTyped
         DEF Finish, TypeInv, CountsTyped, CallsTyped, Chain, tables

\* A call that fails leaves updateAlarm, if it was inside.
LEMMA FailedTyped ==
    ASSUME TypeInv, NEW a \in Agent, call' = [call EXCEPT ![a] = Idle], LeaveArming(a),
           alarm' \in Alarms, missed' \in BOOLEAN,
           UNCHANGED <<clock, tables, series, seen, up, sends, history>>
    PROVE  TypeInv'
<1>1. PICK k \in Calls : k = Idle
  BY IdleTyped
<1>2. arming' # a /\ arming' \in Agent \cup {Nobody}
  BY Agents DEF LeaveArming, TypeInv, CallsTyped
<1>3. Fits(a, k)'
  BY <1>1, <1>2, IdleTyped, CallOf DEF Fits, Chain
<1>4. \A o \in Agent \ {a} : (arming' = o) <=> (arming = o)
  BY Agents DEF LeaveArming
<1>5. call' \in [Agent -> Calls] /\ CallsFit'
  BY <1>1, <1>2, <1>3, <1>4, CallMoves
<1>. QED BY <1>2, <1>5 DEF TypeInv, CallsTyped, CountsTyped, tables, history

LEMMA RecordFailsTyped == ASSUME TypeInv, NEW r \in Request, RecordFails(r) PROVE TypeInv'
<1>1. missed' \in BOOLEAN
  BY DEF RecordFails, TypeInv, CallsTyped
<1>. QED BY <1>1, FailedTyped, Agents DEF RecordFails, TypeInv, CallsTyped

LEMMA FlushFailsTyped == ASSUME TypeInv, FlushFails PROVE TypeInv'
<1>1. alarm' \in Alarms
  BY DelayedTyped DEF FlushFails, TypeInv, CallsTyped
<1>2. missed' \in BOOLEAN
  BY DEF FlushFails, TypeInv, CallsTyped
<1>. QED BY <1>1, <1>2, FailedTyped, Agents DEF FlushFails

LEMMA CrashTyped == ASSUME TypeInv, Crash PROVE TypeInv'
<1>1. call' \in [Agent -> Calls]
  BY IdleTyped DEF Crash
<1>2. \A a \in Agent : Fits(a, call[a])'
  BY IdleTyped, Agents, TimesAreNat DEF Crash, Fits, Chain, TypeInv, CountsTyped
<1>3. series' \in [Bucket -> Nat]
  BY LandedTyped DEF Crash, TypeInv, CountsTyped
<1>4. alarm' \in Alarms
  BY DEF Crash, TypeInv, CallsTyped, Alarms
<1>. QED BY <1>1, <1>2, <1>3, <1>4 DEF Crash, TypeInv, CallsTyped, CountsTyped, CallsFit, tables, history

LEMMA InitializeTyped == ASSUME TypeInv, Initialize PROVE TypeInv'
<1>1. clock \in Nat
  BY TimesAreNat DEF TypeInv, CountsTyped
<1>2. alarm' \in Alarms
  BY <1>1, NextAlarmTyped, AlarmAtTyped DEF Initialize, TypeInv, CountsTyped, CallsTyped
<1>3. \A a \in Agent : Fits(a, call[a])'
  BY DEF Initialize, Fits, TypeInv, CallsFit
<1>. QED BY <1>2, <1>3, PrunedTyped DEF Initialize, TypeInv, CallsTyped, CountsTyped, CallsFit, history

LEMMA TypeStep == TypeInv /\ [Next]_vars => TypeInv'
<1>. SUFFICES ASSUME TypeInv, [Next]_vars PROVE TypeInv'
  OBVIOUS
<1>1. ASSUME NEW r \in Request, (\E e \in Event : Record(r, e)) \/ ReadPending(r) PROVE TypeInv'
  BY <1>1, RecordTyped
<1>2. ASSUME NEW a \in Agent, Prune(a) \/ Reconcile(a) PROVE TypeInv'
  BY <1>2, PruneTyped, ArmTyped, ArmingTyped DEF Reconcile
<1>3. ASSUME NEW r \in Request, Proceed(r) \/ RecordFails(r) PROVE TypeInv'
  BY <1>2, <1>3, Agents, CommitTyped, RecordFailsTyped DEF Proceed
<1>4. CASE Flush
  BY <1>2, <1>4, Agents, LoadTyped, PromoteTyped, AppendTyped, SettleTyped, BackoffTyped,
     FinishTyped DEF Flush
<1>5. CASE Fire \/ Tick \/ FlushFails \/ Crash \/ Initialize
  BY <1>5, FireTyped, TickTyped, FlushFailsTyped, CrashTyped, InitializeTyped
<1>6. CASE UNCHANGED vars
  BY <1>6 DEF vars, tables, history, TypeInv, CountsTyped, CallsTyped, CallsFit, Fits
<1>. QED BY <1>1, <1>3, <1>4, <1>5, <1>6 DEF Next

LEMMA TypeInit == Init => TypeInv
<1>. SUFFICES ASSUME Init PROVE TypeInv
  OBVIOUS
<1>1. CountsTyped
  BY Windows DEF Init, CountsTyped, Time, NoTime
<1>2. CallsTyped
  <2>1. NoAlarm \in Alarms
    BY AlarmAtTyped
  <2>2. call \in [Agent -> Calls]
    BY IdleTyped DEF Init
  <2>3. 0 \in 0 .. MaxSends
    BY Windows
  <2>. QED BY <2>1, <2>2, <2>3 DEF Init, CallsTyped
<1>3. CallsFit
  BY IdleTyped, Agents DEF Init, CallsFit, Fits, Chain
<1>. QED BY <1>1, <1>2, <1>3 DEF TypeInv

\* Every variable has its type, and every call is at a step that fits its caller.
THEOREM CountersTypeCorrect == Spec => []TypeOK
<1>1. Spec => []TypeInv
  BY TypeInit, TypeStep, PTL DEF Spec
<1>. QED BY <1>1, TypeInvTypeOK, PTL

-----------------------------------------------------------------------------
(***************************************************************************)
(* A repeated event counts once.  A key is forgotten only when its bucket  *)
(* has expired, whoever's clock decides.                                   *)
(***************************************************************************)
Expired(b) == b + ExpiresAfter <= clock

Once(e) ==
    BucketOf(e) \notin raced /\ counted[e] > 0 =>
        /\ counted[e] = 1
        /\ \/ seen[e] # NoTime /\ BucketOf(e) <= seen[e] + Grace
           \/ Expired(BucketOf(e))
KeyInv == \A e \in Event : Once(e)

\* What a step is.
StepOf ==
    \/ Fire \/ Tick \/ Load \/ Promote \/ AppendRows \/ AppendFails \/ Settle \/ Backoff
    \/ Finish \/ FlushFails \/ Crash \/ Initialize
    \/ UNCHANGED vars
    \/ \E a \in Agent : Prune(a) \/ Arm(a) \/ ArmBatch(a) \/ ArmPending(a) \/ ArmSet(a)
    \/ \E r \in Request : Commit(r) \/ RecordFails(r)
    \/ \E r \in Request, k \in Calls :
         Begin(r, k) /\ k.at \in {"prune", "arm"}

LEMMA NextIsStep == ASSUME TypeInv, [Next]_vars PROVE StepOf
<1>1. ASSUME NEW r \in Request, NEW e \in Event, Record(r, e)
      PROVE  \E k \in Calls : Begin(r, k) /\ k.at \in {"prune", "arm"}
  <2>. DEFINE k == [Idle EXCEPT !.at = "prune", !.now = clock, !.event = e]
  <2>1. k \in Calls /\ k.at = "prune"
    BY AlarmAtTyped DEF TypeInv, CountsTyped, Idle, Calls, Steps
  <2>2. Begin(r, k) BY <1>1, Zenon DEF Record
  <2>. HIDE DEF k
  <2>. QED BY <2>1, <2>2
<1>2. ASSUME NEW r \in Request, ReadPending(r)
      PROVE  \E k \in Calls : Begin(r, k) /\ k.at \in {"prune", "arm"}
  <2>. DEFINE k == [Idle EXCEPT !.at = "arm", !.now = clock]
  <2>1. k \in Calls /\ k.at = "arm"
    BY AlarmAtTyped DEF TypeInv, CountsTyped, Idle, Calls, Steps
  <2>2. Begin(r, k) BY <1>2 DEF ReadPending
  <2>. HIDE DEF k
  <2>. QED BY <2>1, <2>2
<1>. QED BY <1>1, <1>2, Agents DEF StepOf, Next, Proceed, Reconcile, Flush

\* The clock never goes back.
LEMMA ClockForward ==
    ASSUME TypeInv, [Next]_vars
    PROVE  clock \in Nat /\ clock' \in Nat /\ clock <= clock'
<1>1. StepOf /\ TypeInv'
  BY NextIsStep, TypeStep
<1>2. clock \in Nat /\ clock' \in Nat
  BY <1>1, TimesAreNat DEF TypeInv, CountsTyped
<1>3. CASE Tick
  BY <1>2, <1>3 DEF Tick
<1>4. CASE ~Tick
  <2>1. clock' = clock
    BY <1>1, <1>4 DEF StepOf, vars, Begin, RecordFails, Prune, Commit, Arm, ArmBatch, ArmPending,
       ArmSet, Fire, Load, Promote, AppendRows, AppendFails, Settle, Backoff, Finish,
       FlushFails, Crash, Initialize
  <2>. QED BY <1>2, <2>1
<1>. QED BY <1>3, <1>4

\* Only a record's transaction touches keys and counts.
LEMMA KeysStand ==
    ASSUME TypeInv, [Next]_vars
    PROVE  UNCHANGED <<seen, counted, raced>> \/ \E r \in Request : Commit(r)
<1>1. StepOf
  BY NextIsStep
<1>2. CASE \E r \in Request : Commit(r)
  BY <1>2
<1>3. CASE ~ \E r \in Request : Commit(r)
  <2>1. UNCHANGED <<seen, history>>
    BY <1>1, <1>3 DEF StepOf, vars, Begin, RecordFails, Prune, Arm, ArmBatch, ArmPending,
       ArmSet, Fire, Tick, Load, Promote, AppendRows, AppendFails, Settle, Backoff, Finish,
       FlushFails, Crash, Initialize
  <2>. QED BY <2>1 DEF history
<1>. QED BY <1>2, <1>3

\* A record that reads clock now: what it knows of its event.
LEMMA CommitOf ==
    ASSUME TypeInv, NEW r \in Request, Commit(r)
    PROVE  /\ call[r].event \in Event /\ call[r].now \in Nat /\ call[r].now <= clock
           /\ call[r].now # NoTime
<1>1. r \in Agent /\ r # Flusher
  BY Agents
<1>2. call[r].now \in Time
  BY <1>1, CallOf
<1>. QED BY <1>1, <1>2, CallOf, TimesAreNat DEF Commit, Fits

\* A key that is gone by the clock of a record belongs to an expired bucket.
LEMMA ForgottenExpired ==
    ASSUME TypeInv, KeyInv, NEW e \in Event, NEW now \in Nat, now <= clock,
           BucketOf(e) \notin raced, counted[e] > 0, Kept(now)[e] = NoTime
    PROVE  Expired(BucketOf(e))
<1>1. Once(e)
  BY DEF KeyInv
<1>2. CASE seen[e] # NoTime /\ BucketOf(e) <= seen[e] + Grace
  <2>1. seen[e] \in Nat /\ clock \in Nat
    BY <1>2, TimesAreNat DEF TypeInv, CountsTyped
  <2>2. seen[e] + IdempotencyRetention <= now
    BY <1>2 DEF Kept
  <2>. QED BY <1>2, <2>1, <2>2, Windows, BucketOfEvent DEF Expired
<1>. QED BY <1>1, <1>2 DEF Once

LEMMA CommitOnce ==
    ASSUME TypeInv, KeyInv, NEW r \in Request, Commit(r), NEW e \in Event
    PROVE  Once(e)'
<1>. DEFINE x == call[r].event
            now == call[r].now
<1>1. x \in Event /\ now \in Nat /\ now <= clock /\ now # NoTime /\ clock \in Nat /\ clock' = clock
  BY CommitOf, TimesAreNat DEF Commit, TypeInv, CountsTyped
<1>2. seen \in [Event -> Time \cup {NoTime}] /\ Kept(now) \in [Event -> Time \cup {NoTime}]
      /\ counted \in [Event -> Nat]
  BY KeptTyped DEF TypeInv, CountsTyped
<1>. DEFINE fresh == Kept(now)[x] = NoTime
            added == fresh /\ Valid(x, now) /\ CanAccumulate(BucketOf(x))
<1>3. /\ seen' = IF fresh THEN [Kept(now) EXCEPT ![x] = now] ELSE Kept(now)
      /\ counted' = IF added THEN [counted EXCEPT ![x] = @ + 1] ELSE counted
      /\ raced' = IF added /\ Expired(BucketOf(x)) THEN raced \cup {BucketOf(x)} ELSE raced
  BY DEF Commit, Expired
<1>. SUFFICES ASSUME BucketOf(e) \notin raced', counted'[e] > 0
              PROVE  /\ counted'[e] = 1
                     /\ \/ seen'[e] # NoTime /\ BucketOf(e) <= seen'[e] + Grace
                        \/ Expired(BucketOf(e))
  BY <1>1 DEF Once, Expired
<1>4. BucketOf(e) \notin raced /\ Once(e)
  BY <1>3 DEF KeyInv
<1>5. CASE e = x /\ added
  <2>1. ~Expired(BucketOf(e))
    BY <1>3, <1>5
  <2>2. counted[e] = 0
    <3>1. counted[e] \in Nat BY <1>2
    <3>. HIDE DEF now
    <3>2. ~(counted[e] > 0)
      BY <1>1, <1>4, <1>5, <2>1, ForgottenExpired
    <3>. QED BY <3>1, <3>2
  <2>3. seen'[e] = now /\ counted'[e] = 1
    BY <1>1, <1>2, <1>3, <1>5, <2>2
  <2>4. BucketOf(e) <= Occurred[e] /\ Occurred[e] <= now + Grace
    BY <1>5, BucketOfEvent DEF Valid
  <2>5. BucketOf(e) <= now + Grace
    BY <1>1, <2>4, BucketOfEvent, Windows
  <2>. QED BY <1>1, <2>3, <2>5
<1>6. CASE ~(e = x /\ added)
  <2>1. counted'[e] = counted[e]
    BY <1>1, <1>2, <1>3, <1>6
  <2>2. counted[e] = 1
    BY <1>4, <2>1 DEF Once
  <2>3. CASE Kept(now)[e] = NoTime
    <3>. HIDE DEF now
    <3>. QED BY <1>1, <1>4, <2>1, <2>2, <2>3, ForgottenExpired
  <2>4. CASE Kept(now)[e] # NoTime
    <3>1. Kept(now)[e] = seen[e]
      BY <2>4 DEF Kept
    <3>2. seen'[e] = seen[e]
      BY <1>1, <1>2, <1>3, <2>4, <3>1
    <3>. QED BY <1>4, <2>1, <2>2, <3>2 DEF Once
  <2>. QED BY <2>3, <2>4
<1>. QED BY <1>5, <1>6

LEMMA KeyStep == TypeInv /\ KeyInv /\ [Next]_vars => KeyInv'
<1>. SUFFICES ASSUME TypeInv, KeyInv, [Next]_vars, NEW e \in Event PROVE Once(e)'
  BY DEF KeyInv
<1>1. CASE UNCHANGED <<seen, counted, raced>>
  <2>1. Expired(BucketOf(e)) => Expired(BucketOf(e))'
    BY ClockForward, BucketOfEvent, Windows DEF Expired
  <2>. QED BY <1>1, <2>1 DEF KeyInv, Once
<1>2. CASE \E r \in Request : Commit(r)
  BY <1>2, CommitOnce
<1>. QED BY <1>1, <1>2, KeysStand

\* No event is counted twice, however often and late it is repeated, unless its
\* bucket was entered after it had expired.
THEOREM EventsCountOnce == Spec => []AtMostOnce
<1>1. Init => TypeInv /\ KeyInv
  BY TypeInit DEF Init, KeyInv, Once
<1>2. TypeInv /\ KeyInv /\ [Next]_vars => (TypeInv /\ KeyInv)'
  BY TypeStep, KeyStep
<1>3. TypeInv /\ KeyInv => AtMostOnce
  BY DEF TypeInv, CountsTyped, KeyInv, Once, AtMostOnce
<1>. QED BY <1>1, <1>2, <1>3, PTL DEF Spec

-----------------------------------------------------------------------------
(***************************************************************************)
(* The flush batch.  Only the handler changes it, so what it loaded stays  *)
(* there until it settles it; a batch row is more than what was retained.  *)
(***************************************************************************)
BatchInv ==
    /\ \A b \in Bucket : batch[b] > 0 => retained[b] < batch[b]
    /\ call[Flusher].at = "promote" => Rows(batch) = {}
    /\ call[Flusher].at \in {"append", "settle"} => call[Flusher].rows \subseteq Rows(batch)
    /\ call[Flusher].at = "settle" => \A b \in call[Flusher].rows : series[b] = batch[b]

\* The handler stays where it is, or leaves the part that handles a batch.
HandlerAside ==
    \/ call'[Flusher] = call[Flusher]
    \/ call'[Flusher].at \notin {"promote", "append", "settle"}

LEMMA BatchKept ==
    ASSUME TypeInv, BatchInv, UNCHANGED <<batch, series>>, HandlerAside,
           retained' \in [Bucket -> Nat], \A b \in Bucket : retained'[b] <= retained[b]
    PROVE  BatchInv'
<1>1. \A b \in Bucket : batch'[b] > 0 => retained'[b] < batch'[b]
  BY DEF BatchInv, TypeInv, CountsTyped
<1>. QED BY <1>1 DEF BatchInv, HandlerAside, Rows

LEMMA PrunedLess ==
    ASSUME TypeInv, NEW now
    PROVE  \A b \in Bucket : Pruned(now)[b] \in Nat /\ Pruned(now)[b] <= retained[b]
  BY DEF Pruned, TypeInv, CountsTyped

LEMMA RequestAside ==
    ASSUME TypeInv, NEW r \in Request, NEW k, call' = [call EXCEPT ![r] = k]
    PROVE  call'[Flusher] = call[Flusher]
  BY Agents DEF TypeInv, CallsTyped

LEMMA GotoAside ==
    ASSUME TypeInv, NEW a \in Agent, NEW step, Goto(a, step),
           step \notin {"promote", "append", "settle"}
    PROVE  HandlerAside
<1>1. Flusher \in Agent
  BY Agents
<1>2. CASE a = Flusher
  BY <1>1, <1>2 DEF Goto, HandlerAside, TypeInv, CallsTyped, Calls
<1>3. CASE a # Flusher
  BY <1>1, <1>3 DEF Goto, HandlerAside, TypeInv, CallsTyped
<1>. QED BY <1>2, <1>3

LEMMA ReturnAside ==
    ASSUME TypeInv, NEW a \in Agent, Return(a)
    PROVE  HandlerAside
  BY Agents, IdleTyped DEF Return, HandlerAside, TypeInv, CallsTyped, Idle

LEMMA SetToAside ==
    ASSUME TypeInv, NEW a \in Agent, NEW to, SetTo(a, to)
    PROVE  HandlerAside
  BY Agents DEF SetTo, HandlerAside, TypeInv, CallsTyped, Idle

\* The steps that neither promote, append nor settle.
LEMMA OtherStepAside ==
    ASSUME TypeInv, StepOf, ~Load, ~Promote, ~AppendRows, ~AppendFails, ~Settle
    PROVE  HandlerAside
<1>0. Flusher \in Agent /\ call \in [Agent -> Calls]
  BY Agents DEF TypeInv, CallsTyped
<1>1. CASE Fire
  BY <1>0, <1>1 DEF Fire, HandlerAside, Idle
<1>2. CASE Tick \/ Initialize \/ UNCHANGED vars
  BY <1>2 DEF Tick, Initialize, HandlerAside, vars
<1>3. CASE Backoff
  BY <1>0, <1>3, ReturnAside DEF Backoff
<1>4. CASE Finish \/ FlushFails \/ Crash
  BY <1>0, <1>4 DEF Finish, FlushFails, Crash, HandlerAside, Idle
<1>5. ASSUME NEW a \in Agent, Prune(a) PROVE HandlerAside
  <2>. DEFINE step == IF call[a].at = "lastPrune" THEN "arm"
                      ELSE IF a = Flusher THEN "load" ELSE "commit"
  <2>1. Goto(a, step) /\ step \notin {"promote", "append", "settle"}
    BY <1>5 DEF Prune
  <2>. HIDE DEF step
  <2>. QED BY <2>1, GotoAside
<1>6. ASSUME NEW a \in Agent, Arm(a) PROVE HandlerAside
  <2>. DEFINE step == IF Rows(batch) # {} THEN "armBatch" ELSE "armPending"
  <2>1. Goto(a, step) /\ step \notin {"promote", "append", "settle"}
    BY <1>6 DEF Arm
  <2>. HIDE DEF step
  <2>. QED BY <2>1, GotoAside
<1>7. ASSUME NEW a \in Agent, ArmBatch(a) \/ ArmPending(a) \/ ArmSet(a) PROVE HandlerAside
  BY <1>7, SetToAside, ReturnAside DEF ArmBatch, ArmPending, ArmSet
<1>8. ASSUME NEW r \in Request, Commit(r) PROVE HandlerAside
  BY <1>0, <1>8, Agents DEF Commit, HandlerAside
<1>9. ASSUME NEW r \in Request, RecordFails(r) PROVE HandlerAside
  BY <1>9, RequestAside DEF RecordFails, HandlerAside
<1>10. ASSUME NEW r \in Request, NEW k \in Calls, Begin(r, k) PROVE HandlerAside
  BY <1>10, RequestAside DEF Begin, HandlerAside
<1>. QED BY <1>1, <1>2, <1>3, <1>4, <1>5, <1>6, <1>7, <1>8, <1>9, <1>10 DEF StepOf

\* What they do to the tables and the series.
LEMMA OtherStepTables ==
    ASSUME TypeInv, StepOf, ~Load, ~Promote, ~AppendRows, ~AppendFails, ~Settle
    PROVE  /\ batch' = batch
           /\ series' = series \/ (series' = Landed /\ Crash)
           /\ retained' = retained
              \/ \E now \in Nat : now <= clock /\ retained' = Pruned(now)
<1>1. ASSUME NEW a \in Agent, Prune(a)
      PROVE  batch' = batch /\ series' = series
             /\ \E now \in Nat : now <= clock /\ retained' = Pruned(now)
  BY <1>1, CallOf DEF Prune, Fits
<1>2. CASE Initialize
  <2>1. clock \in Nat
    BY TimesAreNat DEF TypeInv, CountsTyped
  <2>2. batch' = batch /\ series' = series /\ retained' = Pruned(clock)
    BY <1>2 DEF Initialize
  <2>. QED BY <2>1, <2>2
<1>3. CASE Crash
  BY <1>3 DEF Crash, tables
<1>4. CASE ~Initialize /\ ~Crash /\ ~ \E a \in Agent : Prune(a)
  <2>1. batch' = batch /\ retained' = retained /\ series' = series
    BY <1>4 DEF StepOf, vars, tables, Begin, RecordFails, Commit, Arm, ArmBatch, ArmPending,
       ArmSet, Fire, Tick, Backoff, Finish, FlushFails
  <2>. QED BY <2>1
<1>. QED BY <1>1, <1>2, <1>3, <1>4

LEMMA LoadBatch == ASSUME TypeInv, BatchInv, Load PROVE BatchInv'
<1>0. Flusher \in Agent /\ call \in [Agent -> Calls]
  BY Agents DEF TypeInv, CallsTyped
<1>1. UNCHANGED <<batch, series, retained>>
  BY DEF Load, tables
<1>2. CASE Rows(batch) # {}
  <2>1. call'[Flusher].at = "append" /\ call'[Flusher].rows \subseteq Rows(batch)
    <3>. DEFINE loaded == {b \in Rows(batch) :
                             Cardinality({x \in Rows(batch) : x < b}) < BatchLimit}
    <3>1. loaded \subseteq Rows(batch)
      OBVIOUS
    <3>2. call' = [call EXCEPT ![Flusher].at = "append", ![Flusher].rows = loaded]
      BY <1>2 DEF Load
    <3>. HIDE DEF loaded
    <3>. QED BY <1>0, <3>1, <3>2 DEF Calls
  <2>. QED BY <1>1, <2>1 DEF BatchInv, Rows
<1>3. CASE Rows(batch) = {}
  <2>1. call'[Flusher].at \in {"promote", "lastPrune"}
    BY <1>0, <1>3 DEF Load, Goto, Calls
  <2>. QED BY <1>1, <1>3, <2>1 DEF BatchInv, Rows
<1>. QED BY <1>2, <1>3

LEMMA PromoteBatch == ASSUME TypeInv, BatchInv, Promote PROVE BatchInv'
<1>0. Flusher \in Agent /\ call \in [Agent -> Calls]
  BY Agents DEF TypeInv, CallsTyped
<1>1. call'[Flusher].at = "reload"
  BY <1>0 DEF Promote, Goto, Calls
<1>2. ASSUME NEW b \in Bucket, batch'[b] > 0 PROVE retained'[b] < batch'[b]
  BY <1>2 DEF Promote, Promoted, Due, Rows, BatchInv, TypeInv, CountsTyped
<1>. QED BY <1>1, <1>2 DEF BatchInv

LEMMA AppendBatch == ASSUME TypeInv, BatchInv, AppendRows \/ AppendFails PROVE BatchInv'
<1>0. Flusher \in Agent /\ call \in [Agent -> Calls]
  BY Agents DEF TypeInv, CallsTyped
<1>1. UNCHANGED <<batch, retained>>
  BY DEF AppendRows, AppendFails, tables
<1>2. CASE AppendFails
  <2>1. call'[Flusher].at = "backoff"
    BY <1>0, <1>2 DEF AppendFails, Idle
  <2>. QED BY <1>1, <2>1 DEF BatchInv
<1>3. CASE AppendRows
  <2>1. call'[Flusher].at = "settle" /\ call'[Flusher].rows = call[Flusher].rows
    BY <1>0, <1>3 DEF AppendRows, Goto, Calls
  <2>2. call[Flusher].rows \subseteq Rows(batch)
    BY <1>3 DEF AppendRows, BatchInv
  <2>3. \A b \in call[Flusher].rows : series'[b] = batch'[b]
    BY <1>1, <1>3, <2>2 DEF AppendRows, Landed, Rows
  <2>. QED BY <1>1, <2>1, <2>2, <2>3 DEF BatchInv, Rows
<1>. QED BY <1>2, <1>3

LEMMA SettleBatch == ASSUME TypeInv, BatchInv, Settle PROVE BatchInv'
<1>0. Flusher \in Agent /\ call \in [Agent -> Calls]
  BY Agents DEF TypeInv, CallsTyped
<1>1. call'[Flusher].at = "lastPrune"
  BY <1>0 DEF Settle, Calls
<1>2. ASSUME NEW b \in Bucket, batch'[b] > 0 PROVE retained'[b] < batch'[b]
  BY <1>2 DEF Settle, BatchInv, TypeInv, CountsTyped
<1>. QED BY <1>1, <1>2 DEF BatchInv

LEMMA BatchStep == TypeInv /\ BatchInv /\ [Next]_vars => BatchInv'
<1>. SUFFICES ASSUME TypeInv, BatchInv, [Next]_vars PROVE BatchInv'
  OBVIOUS
<1>1. StepOf
  BY NextIsStep
<1>2. CASE Load \/ Promote \/ AppendRows \/ AppendFails \/ Settle
  BY <1>2, LoadBatch, PromoteBatch, AppendBatch, SettleBatch
<1>3. CASE ~Load /\ ~Promote /\ ~AppendRows /\ ~AppendFails /\ ~Settle
  <2>1. HandlerAside
    BY <1>1, <1>3, OtherStepAside
  <2>2. /\ batch' = batch
        /\ series' = series \/ (series' = Landed /\ Crash)
        /\ retained' = retained
           \/ \E now \in Nat : now <= clock /\ retained' = Pruned(now)
    BY <1>1, <1>3, OtherStepTables
  <2>3. retained' \in [Bucket -> Nat] /\ \A b \in Bucket : retained'[b] <= retained[b]
    BY <2>2, PrunedLess, PrunedTyped DEF TypeInv, CountsTyped
  <2>4. CASE series' = series
    BY <2>1, <2>2, <2>3, <2>4, BatchKept
  <2>5. CASE Crash
    <3>1. call'[Flusher].at = "idle"
      BY <2>5, Agents, IdleTyped DEF Crash
    <3>2. UNCHANGED <<batch, retained>>
      BY <2>5 DEF Crash, tables
    <3>. QED BY <3>1, <3>2 DEF BatchInv
  <2>. QED BY <2>2, <2>4, <2>5
<1>. QED BY <1>2, <1>3

LEMMA BatchInit == Init => BatchInv
  BY Agents, IdleTyped DEF Init, BatchInv

-----------------------------------------------------------------------------
(***************************************************************************)
(* Live totals.  While its batch is not settled the series holds a bucket  *)
(* as it was before or after; a bucket that was pruned is in the series.   *)
(***************************************************************************)
Counting(b) ==
    \/ /\ batch[b] = 0 /\ series[b] = retained[b]
       /\ pending[b] + retained[b] = Accepted(b)
    \/ /\ batch[b] > 0 /\ series[b] \in {retained[b], batch[b]}
       /\ pending[b] + batch[b] = Accepted(b)
    \/ /\ Expired(b) /\ series[b] = Accepted(b)
       /\ pending[b] = 0 /\ batch[b] = 0 /\ retained[b] = 0
CountsInv == \A b \in Bucket \ raced : Counting(b)

EventsOf(b) == {e \in Event : BucketOf(e) = b}

\* Accepted as a sum over every set of events, now and after a step.
LEMMA AcceptedSum ==
    ASSUME NEW b
    PROVE  /\ IsFiniteSet(EventsOf(b))
           /\ \E h : Sums(h, counted, EventsOf(b)) /\ Accepted(b) = h[EventsOf(b)]
           /\ \E h : Sums(h, counted', EventsOf(b)) /\ Accepted(b)' = h[EventsOf(b)]
<1>1. IsFiniteSet(EventsOf(b))
  BY BucketsFinite, FS_Subset DEF EventsOf
<1>2. \E h : Sums(h, counted, EventsOf(b)) /\ Accepted(b) = h[EventsOf(b)]
  <2>1. \E h : Sums(h, counted, EventsOf(b))
    BY <1>1, SumExists
  <2>. QED BY <2>1 DEF Accepted, MapThenSumSet, MapThenFoldSet, Sums, Pick, EventsOf
<1>3. \E h : Sums(h, counted', EventsOf(b)) /\ Accepted(b)' = h[EventsOf(b)]
  <2>1. \E h : Sums(h, counted', EventsOf(b))
    BY <1>1, SumExists
  <2>. QED BY <2>1 DEF Accepted, MapThenSumSet, MapThenFoldSet, Sums, Pick, EventsOf
<1>. QED BY <1>1, <1>2, <1>3

LEMMA AcceptedTyped ==
    ASSUME TypeInv, NEW b
    PROVE  /\ Accepted(b) \in Int
           /\ counted' = counted => Accepted(b)' = Accepted(b)
<1>1. \A e \in EventsOf(b) : counted[e] \in Int
  BY DEF TypeInv, CountsTyped, EventsOf
<1>2. Accepted(b) \in Int
  <2>1. PICK h : Sums(h, counted, EventsOf(b)) /\ Accepted(b) = h[EventsOf(b)]
    BY AcceptedSum
  <2>. QED BY <1>1, <2>1, AcceptedSum, SumIsInt
<1>3. ASSUME counted' = counted PROVE Accepted(b)' = Accepted(b)
  <2>1. PICK h : Sums(h, counted, EventsOf(b)) /\ Accepted(b) = h[EventsOf(b)]
    BY AcceptedSum
  <2>2. PICK i : Sums(i, counted', EventsOf(b)) /\ Accepted(b)' = i[EventsOf(b)]
    BY AcceptedSum
  <2>3. IsFiniteSet(EventsOf(b)) /\ Sums(i, counted, EventsOf(b))
    BY <1>3, <2>2, AcceptedSum
  <2>4. \A e \in EventsOf(b) : counted[e] \in Int /\ counted[e] <= counted[e]
    BY <1>1
  <2>. DEFINE S == EventsOf(b)
  <2>. HIDE DEF S
  <2>5. h[S] \in Int /\ i[S] \in Int /\ i[S] <= h[S] /\ h[S] <= i[S]
    BY <2>1, <2>3, <2>4, SumShrinks DEF S
  <2>. QED BY <2>1, <2>2, <2>5 DEF S
<1>. QED BY <1>2, <1>3

LEMMA AcceptedGrows ==
    ASSUME TypeInv, NEW b, NEW e \in Event, counted' = [counted EXCEPT ![e] = @ + 1]
    PROVE  Accepted(b)' = Accepted(b) + (IF BucketOf(e) = b THEN 1 ELSE 0)
<1>1. PICK h : Sums(h, counted, EventsOf(b)) /\ Accepted(b) = h[EventsOf(b)]
  BY AcceptedSum
<1>2. PICK i : Sums(i, counted', EventsOf(b)) /\ Accepted(b)' = i[EventsOf(b)]
  BY AcceptedSum
<1>3. \A x \in EventsOf(b) : counted[x] \in Int
                             /\ counted'[x] = counted[x] + (IF x = e THEN 1 ELSE 0)
  BY DEF TypeInv, CountsTyped, EventsOf
<1>4. i[EventsOf(b)] = h[EventsOf(b)] + (IF e \in EventsOf(b) THEN 1 ELSE 0)
  <2>. DEFINE S == EventsOf(b)
              one == 1
  <2>1. IsFiniteSet(S) /\ Sums(h, counted, S) /\ Sums(i, counted', S) /\ one \in Int
    BY <1>1, <1>2, AcceptedSum
  <2>2. \A x \in S : counted[x] \in Int /\ counted'[x] = counted[x] + (IF x = e THEN one ELSE 0)
    BY <1>3
  <2>3. i[S] = h[S] + (IF e \in S THEN one ELSE 0)
    <3>1. PICK f : f = counted
      OBVIOUS
    <3>2. PICK g : g = counted'
      OBVIOUS
    <3>. HIDE DEF S, one
    <3>3. IsFiniteSet(S) /\ Sums(h, f, S) /\ Sums(i, g, S) /\ one \in Int
      BY <2>1, <3>1, <3>2
    <3>4. \A x \in S : f[x] \in Int /\ g[x] = f[x] + (IF x = e THEN one ELSE 0)
      BY <2>2, <3>1, <3>2
    <3>. QED BY <3>3, <3>4, SumGrows
  <2>. QED BY <2>3
<1>5. e \in EventsOf(b) <=> BucketOf(e) = b
  BY DEF EventsOf
<1>. QED BY <1>1, <1>2, <1>4, <1>5

\* The steps that neither record, promote, append nor settle.
LEMMA QuietTables ==
    ASSUME TypeInv, StepOf, ~Promote, ~AppendRows, ~AppendFails, ~Settle, ~Crash,
           ~ \E r \in Request : Commit(r)
    PROVE  /\ UNCHANGED <<pending, batch, series, counted, raced>>
           /\ retained' = retained
              \/ \E now \in Nat : now <= clock /\ retained' = Pruned(now)
<1>1. UNCHANGED <<pending, counted, raced>>
  BY DEF StepOf, vars, tables, history, Begin, RecordFails, Prune, Arm, ArmBatch, ArmPending,
     ArmSet, Fire, Tick, Load, Backoff, Finish, FlushFails, Initialize
<1>2. CASE Load
  BY <1>1, <1>2 DEF Load, tables
<1>3. CASE ~Load
  BY <1>1, <1>3, OtherStepTables
<1>. QED BY <1>2, <1>3

LEMMA QuietCounts ==
    ASSUME TypeInv, CountsInv, NEW b \in Bucket \ raced, clock' \in Nat, clock <= clock',
           UNCHANGED <<pending, batch, series, counted>>,
           \/ retained' = retained
           \/ \E now \in Nat : now <= clock /\ retained' = Pruned(now)
    PROVE  Counting(b)'
<1>1. Accepted(b)' = Accepted(b)
  BY AcceptedTyped
<1>2. Counting(b)
  BY DEF CountsInv
<1>3. clock \in Nat /\ b \in Nat /\ ExpiresAfter \in Nat /\ Accepted(b) \in Int
  BY TimesAreNat, BucketsNat, Windows, AcceptedTyped DEF TypeInv, CountsTyped
<1>4. Expired(b) => Expired(b)'
  BY <1>3 DEF Expired
<1>5. CASE retained'[b] = retained[b]
  BY <1>1, <1>2, <1>4, <1>5 DEF Counting
<1>6. CASE retained'[b] # retained[b]
  <2>1. PICK now \in Nat : now <= clock /\ retained' = Pruned(now)
    BY <1>6
  <2>2. b + ExpiresAfter <= now /\ pending[b] = 0 /\ batch[b] = 0 /\ retained'[b] = 0
    BY <1>6, <2>1 DEF Pruned
  <2>3. Expired(b)'
    BY <1>3, <2>1, <2>2 DEF Expired
  <2>4. series[b] = Accepted(b)
    BY <1>2, <1>3, <2>2 DEF Counting, TypeInv, CountsTyped
  <2>. QED BY <1>1, <2>2, <2>3, <2>4 DEF Counting
<1>. QED BY <1>5, <1>6

LEMMA LandingCounts ==
    ASSUME TypeInv, BatchInv, CountsInv, NEW b \in Bucket \ raced,
           UNCHANGED <<clock, pending, batch, retained, counted>>, series' \in {series, Landed},
           call[Flusher].at = "append" \/ series' = series
    PROVE  Counting(b)'
<1>1. Accepted(b)' = Accepted(b)
  BY AcceptedTyped
<1>2. Counting(b)
  BY DEF CountsInv
<1>3. series'[b] = series[b] \/ (series'[b] = batch[b] /\ batch[b] > 0)
  BY DEF Landed, BatchInv, Rows
<1>. QED BY <1>1, <1>2, <1>3 DEF Counting, Expired

LEMMA PromoteCounts ==
    ASSUME TypeInv, BatchInv, CountsInv, Promote, NEW b \in Bucket \ raced
    PROVE  Counting(b)'
<1>1. Accepted(b)' = Accepted(b)
  BY AcceptedTyped DEF Promote, history
<1>2. Counting(b)
  BY DEF CountsInv
<1>3. batch[b] = 0
  BY DEF Promote, BatchInv, Rows, TypeInv, CountsTyped
<1>4. UNCHANGED <<clock, series, retained>>
  BY DEF Promote
<1>5. CASE b \in Due(call[Flusher].now)
  <2>1. pending[b] > 0 /\ pending'[b] = 0 /\ batch'[b] = pending[b] + retained[b]
    BY <1>5 DEF Promote, Promoted, Due, Rows
  <2>. QED BY <1>1, <1>2, <1>3, <1>4, <2>1 DEF Counting, TypeInv, CountsTyped
<1>6. CASE b \notin Due(call[Flusher].now)
  <2>1. pending'[b] = pending[b] /\ batch'[b] = batch[b]
    BY <1>6 DEF Promote
  <2>. QED BY <1>1, <1>2, <1>4, <2>1 DEF Counting, Expired
<1>. QED BY <1>5, <1>6

LEMMA SettleCounts ==
    ASSUME TypeInv, BatchInv, CountsInv, Settle, NEW b \in Bucket \ raced
    PROVE  Counting(b)'
<1>1. Accepted(b)' = Accepted(b)
  BY AcceptedTyped DEF Settle, history
<1>2. Counting(b)
  BY DEF CountsInv
<1>3. UNCHANGED <<clock, series, pending>>
  BY DEF Settle
<1>4. CASE b \in call[Flusher].rows
  <2>1. batch[b] > 0 /\ series[b] = batch[b]
    BY <1>4 DEF Settle, BatchInv, Rows
  <2>2. batch'[b] = 0 /\ retained'[b] = batch[b]
    BY <1>4 DEF Settle
  <2>. QED BY <1>1, <1>2, <1>3, <2>1, <2>2 DEF Counting, TypeInv, CountsTyped
<1>5. CASE b \notin call[Flusher].rows
  <2>1. batch'[b] = batch[b] /\ retained'[b] = retained[b]
    BY <1>5 DEF Settle
  <2>. QED BY <1>1, <1>2, <1>3, <2>1 DEF Counting, Expired
<1>. QED BY <1>4, <1>5

\* A record adds one to a bucket that has not expired, or marks it as raced.
LEMMA CommitCounts ==
    ASSUME TypeInv, CountsInv, NEW r \in Request, Commit(r), NEW b \in Bucket \ raced'
    PROVE  Counting(b)'
<1>. DEFINE x == call[r].event
<1>1. x \in Event /\ BucketOf(x) \in Bucket
  BY CommitOf, BucketOfEvent
<1>2. UNCHANGED <<clock, batch, retained, series>>
  BY DEF Commit
<1>3. b \notin raced /\ Counting(b) /\ Accepted(b) \in Int
  BY AcceptedTyped DEF Commit, CountsInv
<1>4. CASE counted' = counted /\ pending' = pending
  BY <1>2, <1>3, <1>4, AcceptedTyped DEF Counting, Expired
<1>5. CASE /\ counted' = [counted EXCEPT ![x] = @ + 1]
           /\ pending' = [pending EXCEPT ![BucketOf(x)] = @ + 1]
           /\ Expired(BucketOf(x)) => BucketOf(x) \in raced'
  <2>. HIDE DEF x
  <2>1. Accepted(b)' = Accepted(b) + (IF BucketOf(x) = b THEN 1 ELSE 0)
    BY <1>1, <1>5, AcceptedGrows
  <2>2. CASE BucketOf(x) = b
    <3>1. ~Expired(b) /\ pending'[b] = pending[b] + 1 /\ Accepted(b)' = Accepted(b) + 1
      BY <1>1, <1>5, <2>1, <2>2 DEF TypeInv, CountsTyped
    <3>. QED BY <1>2, <1>3, <3>1 DEF Counting, TypeInv, CountsTyped
  <2>3. CASE BucketOf(x) # b
    <3>1. pending'[b] = pending[b] /\ Accepted(b)' = Accepted(b)
      BY <1>1, <1>3, <1>5, <2>1, <2>3 DEF TypeInv, CountsTyped
    <3>. QED BY <1>2, <1>3, <3>1 DEF Counting, Expired
  <2>. QED BY <2>2, <2>3
<1>. QED BY <1>4, <1>5 DEF Commit, Expired

LEMMA CountsStep == TypeInv /\ BatchInv /\ CountsInv /\ [Next]_vars => CountsInv'
<1>. SUFFICES ASSUME TypeInv, BatchInv, CountsInv, [Next]_vars, NEW b \in Bucket \ raced'
              PROVE  Counting(b)'
  BY DEF CountsInv
<1>1. StepOf /\ clock' \in Nat /\ clock <= clock'
  BY NextIsStep, ClockForward
<1>2. CASE \E r \in Request : Commit(r)
  BY <1>2, CommitCounts
<1>3. CASE ~ \E r \in Request : Commit(r)
  <2>1. raced' = raced
    BY <1>3, KeysStand
  <2>2. CASE AppendRows \/ AppendFails \/ Crash
    <3>1. UNCHANGED <<clock, pending, batch, retained, counted>>
      BY <2>2 DEF AppendRows, AppendFails, Crash, tables, history
    <3>2. series' \in {series, Landed} /\ (call[Flusher].at = "append" \/ series' = series)
      BY <2>2 DEF AppendRows, AppendFails, Crash
    <3>. QED BY <2>1, <3>1, <3>2, LandingCounts
  <2>3. CASE Promote \/ Settle
    BY <2>1, <2>3, PromoteCounts, SettleCounts
  <2>4. CASE ~Promote /\ ~AppendRows /\ ~AppendFails /\ ~Settle /\ ~Crash
    <3>1. /\ UNCHANGED <<pending, batch, series, counted, raced>>
          /\ retained' = retained
             \/ \E now \in Nat : now <= clock /\ retained' = Pruned(now)
      BY <1>1, <1>3, <2>4, QuietTables
    <3>. QED BY <1>1, <3>1, QuietCounts
  <2>. QED BY <2>2, <2>3, <2>4
<1>. QED BY <1>2, <1>3

LEMMA CountsInit == Init => CountsInv
<1>. SUFFICES ASSUME Init, NEW b \in Bucket PROVE Counting(b)
  BY DEF CountsInv
<1>1. PICK h : Sums(h, counted, EventsOf(b)) /\ Accepted(b) = h[EventsOf(b)]
  BY AcceptedSum
<1>2. \A e \in EventsOf(b) : counted[e] = 0
  BY DEF Init, EventsOf
<1>3. Accepted(b) = 0
  BY <1>1, <1>2, AcceptedSum, SumOfZeros
<1>. QED BY <1>3 DEF Init, Counting

\* Live totals are exact, but for a batch that the series holds already and that
\* is not settled, and for buckets entered after they had expired.
LEMMA CountsAreExact == TypeInv /\ BatchInv /\ CountsInv => CountsExact
<1>. SUFFICES ASSUME TypeInv, BatchInv, CountsInv, NEW b \in Bucket \ raced
              PROVE  \/ LiveTotal(b) = Accepted(b)
                     \/ batch[b] > 0 /\ series[b] = batch[b] /\ LiveTotal(b) > Accepted(b)
  BY DEF CountsExact
<1>1. Counting(b) /\ Accepted(b) \in Int /\ (batch[b] > 0 => retained[b] < batch[b])
  BY AcceptedTyped DEF CountsInv, BatchInv
<1>. QED BY <1>1 DEF Counting, LiveTotal, Unflushed, TypeInv, CountsTyped

-----------------------------------------------------------------------------
(***************************************************************************)
(* The cap.  A record adds one below it; every other step moves counts.    *)
(***************************************************************************)
Unflusheds == [b \in Bucket |-> Unflushed(b)]
OutstandingSum == MapThenSumSet(Unflushed, Bucket)

LEMMA UnflushedTyped ==
    ASSUME TypeInv
    PROVE  \A b \in Bucket : Unflushed(b) \in Int
  BY DEF TypeInv, CountsTyped, Unflushed

LEMMA UnflushedSum ==
    /\ \E h : Sums(h, Unflusheds, Bucket) /\ OutstandingSum = h[Bucket]
    /\ \E h : Sums(h, Unflusheds', Bucket) /\ OutstandingSum' = h[Bucket]
<1>. DEFINE Adds(h) == h = [s \in SUBSET Bucket |->
                 IF s = {} THEN 0 ELSE Unflushed(Pick(s)) + h[s \ {Pick(s)}]]
            AddsNext(h) == h = [s \in SUBSET Bucket |->
                 IF s = {} THEN 0 ELSE Unflushed(Pick(s))' + h[s \ {Pick(s)}]]
<1>1. ASSUME NEW s \in SUBSET Bucket, s # {}
      PROVE  /\ Unflusheds[Pick(s)] = Unflushed(Pick(s))
             /\ Unflusheds'[Pick(s)] = Unflushed(Pick(s))'
  <2>1. Pick(s) \in Bucket
    BY <1>1, PickIn
  <2>. QED BY <2>1 DEF Unflusheds
<1>2. ASSUME NEW h PROVE Sums(h, Unflusheds, Bucket) <=> Adds(h)
  <2>1. ASSUME NEW s \in SUBSET Bucket
        PROVE  (IF s = {} THEN 0 ELSE Unflusheds[Pick(s)] + h[s \ {Pick(s)}])
             = (IF s = {} THEN 0 ELSE Unflushed(Pick(s)) + h[s \ {Pick(s)}])
    BY <1>1
  <2>. QED BY <2>1 DEF Sums
<1>3. ASSUME NEW h PROVE Sums(h, Unflusheds', Bucket) <=> AddsNext(h)
  <2>1. ASSUME NEW s \in SUBSET Bucket
        PROVE  (IF s = {} THEN 0 ELSE Unflusheds'[Pick(s)] + h[s \ {Pick(s)}])
             = (IF s = {} THEN 0 ELSE Unflushed(Pick(s))' + h[s \ {Pick(s)}])
    BY <1>1
  <2>. QED BY <2>1 DEF Sums
<1>4. \E h : Adds(h) /\ OutstandingSum = h[Bucket]
  <2>1. PICK h : Sums(h, Unflusheds, Bucket)
    BY BucketsFinite, SumExists
  <2>2. Adds(h)
    BY <1>2, <2>1
  <2>. QED BY <2>2 DEF OutstandingSum, MapThenSumSet, MapThenFoldSet, Pick
<1>5. \E h : AddsNext(h) /\ OutstandingSum' = h[Bucket]
  <2>1. PICK h : Sums(h, Unflusheds', Bucket)
    BY BucketsFinite, SumExists
  <2>2. AddsNext(h)
    BY <1>3, <2>1
  <2>. QED BY <2>2 DEF OutstandingSum, MapThenSumSet, MapThenFoldSet, Pick
<1>. QED BY <1>2, <1>3, <1>4, <1>5

\* What moves within and out of the tables leaves the sum where it was or below.
LEMMA OutstandingShrinks ==
    ASSUME TypeInv, TypeInv', \A b \in Bucket : Unflushed(b)' <= Unflushed(b)
    PROVE  OutstandingSum \in Int /\ OutstandingSum' \in Int /\ OutstandingSum' <= OutstandingSum
<1>1. PICK h : Sums(h, Unflusheds, Bucket) /\ OutstandingSum = h[Bucket]
  BY UnflushedSum
<1>2. PICK i : Sums(i, Unflusheds', Bucket) /\ OutstandingSum' = i[Bucket]
  BY UnflushedSum
<1>3. PICK f : f = Unflusheds
  OBVIOUS
<1>4. PICK g : g = Unflusheds'
  OBVIOUS
<1>5. \A b \in Bucket : f[b] = Unflushed(b) /\ g[b] = Unflushed(b)'
  BY <1>3, <1>4 DEF Unflusheds
<1>6. \A b \in Bucket : Unflushed(b) \in Int /\ Unflushed(b)' \in Int
  BY DEF TypeInv, CountsTyped, Unflushed
<1>7. \A b \in Bucket : f[b] \in Int /\ g[b] \in Int /\ g[b] <= f[b]
  BY <1>5, <1>6
<1>8. Sums(h, f, Bucket) /\ Sums(i, g, Bucket)
  BY <1>1, <1>2, <1>3, <1>4
<1>9. h[Bucket] \in Int /\ i[Bucket] \in Int /\ i[Bucket] <= h[Bucket]
  BY <1>7, <1>8, BucketsFinite, SumShrinks
<1>. QED BY <1>1, <1>2, <1>9

LEMMA OutstandingGrows ==
    ASSUME TypeInv, NEW x \in Bucket,
           \A b \in Bucket : Unflushed(b)' = Unflushed(b) + (IF b = x THEN 1 ELSE 0)
    PROVE  OutstandingSum \in Int /\ OutstandingSum' = OutstandingSum + 1
<1>1. PICK h : Sums(h, Unflusheds, Bucket) /\ OutstandingSum = h[Bucket]
  BY UnflushedSum
<1>2. PICK i : Sums(i, Unflusheds', Bucket) /\ OutstandingSum' = i[Bucket]
  BY UnflushedSum
<1>3. PICK f : f = Unflusheds
  OBVIOUS
<1>4. PICK g : g = Unflusheds'
  OBVIOUS
<1>5. PICK one \in Int : one = 1
  OBVIOUS
<1>6. \A b \in Bucket : f[b] = Unflushed(b) /\ g[b] = Unflushed(b)'
  BY <1>3, <1>4 DEF Unflusheds
<1>7. \A b \in Bucket : f[b] \in Int /\ g[b] = f[b] + (IF b = x THEN one ELSE 0)
  BY <1>5, <1>6, UnflushedTyped
<1>8. Sums(h, f, Bucket) /\ Sums(i, g, Bucket)
  BY <1>1, <1>2, <1>3, <1>4
<1>9. h[Bucket] \in Int /\ i[Bucket] = h[Bucket] + (IF x \in Bucket THEN one ELSE 0)
  BY <1>7, <1>8, BucketsFinite, SumGrows
<1>. QED BY <1>1, <1>2, <1>5, <1>9

LEMMA CapKept ==
    ASSUME TypeInv, TypeInv', WithinCap,
           \A b \in Bucket : /\ Unflushed(b)' <= Unflushed(b)
                             /\ pending'[b] + Flushed(b)' <= pending[b] + Flushed(b)
                             /\ series'[b] <= Cap
    PROVE  WithinCap'
<1>1. OutstandingSum \in Int /\ OutstandingSum' \in Int /\ OutstandingSum' <= OutstandingSum
  BY OutstandingShrinks
<1>2. OutstandingSum <= Cap
  BY DEF WithinCap, OutstandingSum
<1>3. OutstandingSum' <= Cap
  BY <1>1, <1>2, Windows
<1>4. MapThenSumSet(Unflushed, Bucket)' <= Cap
  BY <1>3 DEF OutstandingSum
<1>5. \A b \in Bucket : pending'[b] + Flushed(b)' <= Cap /\ series'[b] <= Cap
  <2>1. \A b \in Bucket : pending[b] + Flushed(b) \in Nat /\ pending'[b] + Flushed(b)' \in Nat
    BY DEF TypeInv, CountsTyped, Flushed
  <2>. QED BY <2>1, Windows DEF WithinCap
<1>. QED BY <1>4, <1>5 DEF WithinCap

LEMMA SeriesWithin == WithinCap => \A b \in Bucket : series[b] <= Cap
  BY DEF WithinCap

\* The time series takes values of the batch, which are within the cap.
LEMMA LandedWithin ==
    ASSUME TypeInv, BatchInv, WithinCap, call[Flusher].at = "append"
    PROVE  \A b \in Bucket : Landed[b] <= Cap
  BY Windows DEF BatchInv, Rows, Landed, WithinCap, Flushed, TypeInv, CountsTyped

LEMMA CommitCap == ASSUME TypeInv, WithinCap, NEW r \in Request, Commit(r) PROVE WithinCap'
<1>0. TypeInv'
  BY CommitTyped
<1>. DEFINE x == BucketOf(call[r].event)
<1>1. x \in Bucket
  BY CommitOf, BucketOfEvent
<1>2. UNCHANGED <<batch, retained, series>>
  BY DEF Commit
<1>3. CASE pending' = pending
  <2>1. \A b \in Bucket : /\ Unflushed(b)' <= Unflushed(b)
                          /\ pending'[b] + Flushed(b)' <= pending[b] + Flushed(b)
                          /\ series'[b] <= Cap
    BY <1>2, <1>3, SeriesWithin DEF Unflushed, Flushed, TypeInv, CountsTyped
  <2>. QED BY <1>0, <2>1, CapKept
<1>4. CASE pending' = [pending EXCEPT ![x] = @ + 1] /\ CanAccumulate(x)
  <2>. HIDE DEF x
  <2>1. \A b \in Bucket : Unflushed(b)' = Unflushed(b) + (IF b = x THEN 1 ELSE 0)
    BY <1>1, <1>2, <1>4 DEF Unflushed, TypeInv, CountsTyped
  <2>2. OutstandingSum \in Int /\ OutstandingSum' = OutstandingSum + 1
    BY <1>1, <2>1, OutstandingGrows
  <2>3. OutstandingSum' <= Cap
    BY <1>4, <2>2, Windows DEF CanAccumulate, OutstandingSum
  <2>4. MapThenSumSet(Unflushed, Bucket)' <= Cap
    BY <2>3 DEF OutstandingSum
  <2>5. \A b \in Bucket : pending'[b] + Flushed(b)' <= Cap /\ series'[b] <= Cap
    BY <1>1, <1>2, <1>4, Windows DEF CanAccumulate, Flushed, WithinCap, TypeInv, CountsTyped
  <2>. QED BY <2>4, <2>5 DEF WithinCap
<1>. QED BY <1>3, <1>4 DEF Commit

LEMMA PromoteCap == ASSUME TypeInv, BatchInv, WithinCap, Promote PROVE WithinCap'
<1>0. TypeInv'
  BY PromoteTyped
<1>1. \A b \in Bucket : batch[b] = 0
  BY DEF Promote, BatchInv, Rows, TypeInv, CountsTyped
<1>2. UNCHANGED <<retained, series>>
  BY DEF Promote
<1>3. ASSUME NEW b \in Bucket
      PROVE  /\ Unflushed(b)' <= Unflushed(b)
             /\ pending'[b] + Flushed(b)' <= pending[b] + Flushed(b)
             /\ series'[b] <= Cap
  <2>1. CASE b \in Due(call[Flusher].now)
    <3>1. pending[b] > 0 /\ pending'[b] = 0 /\ batch'[b] = pending[b] + retained[b]
      BY <2>1 DEF Promote, Promoted, Due, Rows
    <3>. QED BY <1>1, <1>2, <3>1, SeriesWithin DEF Unflushed, Flushed, TypeInv, CountsTyped
  <2>2. CASE b \notin Due(call[Flusher].now)
    <3>1. pending'[b] = pending[b] /\ batch'[b] = batch[b]
      BY <2>2 DEF Promote
    <3>. QED BY <1>2, <3>1, SeriesWithin DEF Unflushed, Flushed, TypeInv, CountsTyped
  <2>. QED BY <2>1, <2>2
<1>. QED BY <1>0, <1>3, CapKept

LEMMA SettleCap == ASSUME TypeInv, BatchInv, WithinCap, Settle PROVE WithinCap'
<1>0. TypeInv'
  BY SettleTyped
<1>1. UNCHANGED <<pending, series>>
  BY DEF Settle
<1>2. ASSUME NEW b \in Bucket
      PROVE  /\ Unflushed(b)' <= Unflushed(b)
             /\ pending'[b] + Flushed(b)' <= pending[b] + Flushed(b)
             /\ series'[b] <= Cap
  <2>1. CASE b \in call[Flusher].rows
    <3>1. batch[b] > 0 /\ retained[b] < batch[b] /\ batch'[b] = 0 /\ retained'[b] = batch[b]
      BY <2>1 DEF Settle, BatchInv, Rows
    <3>. QED BY <1>1, <3>1, SeriesWithin DEF Unflushed, Flushed, TypeInv, CountsTyped
  <2>2. CASE b \notin call[Flusher].rows
    <3>1. batch'[b] = batch[b] /\ retained'[b] = retained[b]
      BY <2>2 DEF Settle
    <3>. QED BY <1>1, <3>1, SeriesWithin DEF Unflushed, Flushed, TypeInv, CountsTyped
  <2>. QED BY <2>1, <2>2
<1>. QED BY <1>0, <1>2, CapKept

\* A pruned row has neither a pending nor a batch part.
LEMMA QuietCap ==
    ASSUME TypeInv, TypeInv', WithinCap, UNCHANGED <<pending, batch>>,
           \/ retained' = retained
           \/ \E now \in Nat : now <= clock /\ retained' = Pruned(now),
           \A b \in Bucket : series'[b] <= Cap
    PROVE  WithinCap'
<1>1. ASSUME NEW b \in Bucket
      PROVE  /\ Unflushed(b)' <= Unflushed(b)
             /\ pending'[b] + Flushed(b)' <= pending[b] + Flushed(b)
  <2>1. retained'[b] = retained[b] \/ (retained'[b] = 0 /\ batch[b] = 0)
    BY DEF Pruned
  <2>. QED BY <2>1 DEF Unflushed, Flushed, TypeInv, CountsTyped
<1>. QED BY <1>1, CapKept

LEMMA CapStep == TypeInv /\ BatchInv /\ WithinCap /\ [Next]_vars => WithinCap'
<1>. SUFFICES ASSUME TypeInv, BatchInv, WithinCap, [Next]_vars PROVE WithinCap'
  OBVIOUS
<1>1. StepOf /\ TypeInv'
  BY NextIsStep, TypeStep
<1>2. CASE \E r \in Request : Commit(r)
  BY <1>2, CommitCap
<1>3. CASE Promote \/ Settle
  BY <1>3, PromoteCap, SettleCap
<1>4. CASE AppendRows \/ AppendFails \/ Crash
  <2>1. UNCHANGED <<pending, batch, retained>>
    BY <1>4 DEF AppendRows, AppendFails, Crash, tables
  <2>2. series' = series \/ (series' = Landed /\ call[Flusher].at = "append")
    BY <1>4 DEF AppendRows, AppendFails, Crash
  <2>3. \A b \in Bucket : series'[b] <= Cap
    BY <2>2, LandedWithin DEF WithinCap
  <2>. QED BY <1>1, <2>1, <2>3, QuietCap
<1>5. CASE /\ ~Promote /\ ~AppendRows /\ ~AppendFails /\ ~Settle /\ ~Crash
           /\ ~ \E r \in Request : Commit(r)
  <2>1. /\ UNCHANGED <<pending, batch, series>>
        /\ retained' = retained
           \/ \E now \in Nat : now <= clock /\ retained' = Pruned(now)
    BY <1>1, <1>5, QuietTables
  <2>2. \A b \in Bucket : series'[b] <= Cap
    BY <2>1 DEF WithinCap
  <2>. QED BY <1>1, <2>1, <2>2, QuietCap
<1>. QED BY <1>2, <1>3, <1>4, <1>5

LEMMA CapInit == Init => WithinCap
<1>. SUFFICES ASSUME Init PROVE WithinCap
  OBVIOUS
<1>1. PICK h : Sums(h, Unflusheds, Bucket) /\ OutstandingSum = h[Bucket]
  BY UnflushedSum
<1>2. \A b \in Bucket : Unflusheds[b] = 0
  BY DEF Init, Unflusheds, Unflushed
<1>3. OutstandingSum = 0
  BY <1>1, <1>2, BucketsFinite, SumOfZeros
<1>4. MapThenSumSet(Unflushed, Bucket) <= Cap
  BY <1>3, Windows DEF OutstandingSum
<1>5. \A b \in Bucket : pending[b] + Flushed(b) <= Cap /\ series[b] <= Cap
  BY Windows DEF Init, Flushed
<1>. QED BY <1>4, <1>5 DEF WithinCap

\* No sum that is stored, flushed or promised leaves the exact integers, whatever
\* order records, flushes and failures come in.
THEOREM SumsStayExact == Spec => []WithinCap
<1>1. Init => TypeInv /\ BatchInv /\ WithinCap
  BY TypeInit, BatchInit, CapInit
<1>2. TypeInv /\ BatchInv /\ WithinCap /\ [Next]_vars => (TypeInv /\ BatchInv /\ WithinCap)'
  BY TypeStep, BatchStep, CapStep
<1>. QED BY <1>1, <1>2, PTL DEF Spec

-----------------------------------------------------------------------------
(***************************************************************************)
(* The wakeup.  Whoever left work outstanding still has to arm, is arming  *)
(* for it, or has left an alarm that no running handler owns.              *)
(***************************************************************************)
Working == {"prune", "load", "reload", "promote", "append", "settle", "backoff", "lastPrune"}

\* A fired alarm belongs to the handler it woke, until the handler replaces it.
FiredInv ==
    alarm.fired =>
        /\ up /\ alarm.at # NoTime /\ call[Flusher].at \notin {"idle", "finish"}
        /\ call[Flusher].at \notin {"armSet", "backoff"} => alarm.at <= call[Flusher].now

WillArm == call[Flusher].at \in Working \/ \E a \in Agent : call[a].at = "arm"
ArmsWell ==
    /\ arming # Nobody
    /\ \/ call[arming].at = "armBatch"
       \/ call[arming].at = "armPending" /\ Rows(pending) # {}
       \/ call[arming].at = "armSet" /\ call[arming].to.at # NoTime
AlarmWaits == arming = Nobody /\ alarm.at # NoTime /\ ~alarm.fired
ArmInv == up /\ Outstanding /\ ~missed => WillArm \/ ArmsWell \/ AlarmWaits

AlarmInv == FiredInv /\ ArmInv

\* What a step of one caller leaves alone.
OnlyMoves(a) ==
    /\ call' \in [Agent -> Calls]
    /\ \A b \in Agent \ {a} : call'[b] = call[b]

LEMMA GotoIs ==
    ASSUME TypeInv, NEW a \in Agent, NEW step \in Steps, Goto(a, step)
    PROVE  /\ OnlyMoves(a)
           /\ call'[a].at = step /\ call'[a].now = call[a].now /\ call'[a].to = call[a].to
  BY DEF TypeInv, CallsTyped, Calls, Goto, OnlyMoves

LEMMA ReturnIs ==
    ASSUME TypeInv, NEW a \in Agent, Return(a)
    PROVE  OnlyMoves(a) /\ call'[a].at = IF a = Flusher THEN "finish" ELSE "idle"
<1>1. [Idle EXCEPT !.at = "finish"] \in Calls /\ [Idle EXCEPT !.at = "finish"].at = "finish"
  BY IdleTyped DEF Calls, Steps
<1>. QED BY <1>1, IdleTyped DEF TypeInv, CallsTyped, Return, OnlyMoves

LEMMA SetToIs ==
    ASSUME TypeInv, NEW a \in Agent, NEW to \in Alarms, SetTo(a, to)
    PROVE  OnlyMoves(a) /\ call'[a].at = "armSet" /\ call'[a].to = to
<1>. DEFINE k == [Idle EXCEPT !.at = "armSet", !.to = to]
<1>1. k \in Calls /\ k.at = "armSet" /\ k.to = to
  BY IdleTyped DEF Calls, Steps
<1>2. call' = [call EXCEPT ![a] = k]
  BY DEF SetTo
<1>. HIDE DEF k
<1>. QED BY <1>1, <1>2 DEF TypeInv, CallsTyped, OnlyMoves

\* The chain has one caller in it, whom arming names.
LEMMA InChain ==
    ASSUME TypeInv, NEW a \in Agent
    PROVE  call[a].at \in Chain <=> arming = a
  BY DEF TypeInv, CallsFit, Fits

\* A caller that is outside updateAlarm, and need not arm, moves.
LEMMA AsideArmed ==
    ASSUME TypeInv, ArmInv, NEW a \in Agent, OnlyMoves(a), arming # a, call[a].at # "arm",
           a = Flusher => call[a].at \notin Working \/ call'[a].at \in Working \cup {"arm"},
           UNCHANGED <<alarm, arming, up, missed, pending>>, Rows(batch)' = Rows(batch)
    PROVE  ArmInv'
<1>1. Outstanding' = Outstanding /\ Rows(pending)' = Rows(pending)
  BY DEF Outstanding, Rows
<1>2. WillArm => WillArm'
  BY Agents DEF WillArm, OnlyMoves
<1>3. ArmsWell => ArmsWell'
  <2>1. arming \in Agent \cup {Nobody}
    BY DEF TypeInv, CallsTyped
  <2>. QED BY <1>1, <2>1 DEF ArmsWell, OnlyMoves
<1>4. AlarmWaits => AlarmWaits'
  BY DEF AlarmWaits
<1>. QED BY <1>1, <1>2, <1>3, <1>4 DEF ArmInv

\* The handler's alarm, while the handler keeps its clock.
LEMMA FiredKept ==
    ASSUME TypeInv, FiredInv, NEW a \in Agent, OnlyMoves(a), UNCHANGED <<alarm, up>>,
           a = Flusher => /\ call'[a].at \notin {"idle", "finish"}
                          /\ call[a].at \notin {"armSet", "backoff"}
                          /\ call'[a].now = call[a].now \/ call'[a].at \in {"armSet", "backoff"}
    PROVE  FiredInv'
<1>1. CASE a = Flusher
  BY <1>1 DEF FiredInv
<1>2. CASE a # Flusher
  BY <1>2, Agents DEF FiredInv, OnlyMoves
<1>. QED BY <1>1, <1>2

LEMMA BeginAlarm ==
    ASSUME TypeInv, AlarmInv, NEW r \in Request, NEW k \in Calls, Begin(r, k)
    PROVE  AlarmInv'
<1>1. r \in Agent /\ r # Flusher /\ call[r].at = "idle"
  BY Agents DEF Begin
<1>2. OnlyMoves(r)
  BY <1>1 DEF Begin, OnlyMoves, TypeInv, CallsTyped
<1>3. arming # r
  BY <1>1, InChain DEF Chain
<1>4. UNCHANGED <<alarm, arming, up, missed, pending, batch>>
  BY DEF Begin, tables
<1>5. Rows(batch)' = Rows(batch)
  BY <1>4 DEF Rows
<1>. QED BY <1>1, <1>2, <1>3, <1>4, <1>5, AsideArmed, FiredKept DEF AlarmInv

LEMMA FireAlarm == ASSUME TypeInv, AlarmInv, Fire PROVE AlarmInv'
<1>1. Flusher \in Agent /\ call \in [Agent -> Calls] /\ alarm \in Alarms
  BY Agents DEF TypeInv, CallsTyped
<1>2. call'[Flusher].at = "prune" /\ call'[Flusher].now = clock
  BY <1>1 DEF Fire, Idle
<1>3. alarm'.at = alarm.at /\ alarm.at # NoTime /\ alarm.at <= clock /\ up'
  BY <1>1 DEF Fire, Alarms
<1>. QED BY <1>2, <1>3 DEF AlarmInv, FiredInv, ArmInv, WillArm, Working

LEMMA TickAlarm == ASSUME AlarmInv, Tick \/ UNCHANGED vars PROVE AlarmInv'
<1>1. UNCHANGED <<alarm, arming, up, missed, pending, batch, call>>
  BY DEF Tick, vars, tables
<1>. QED BY <1>1 DEF AlarmInv, FiredInv, ArmInv, WillArm, ArmsWell, AlarmWaits, Outstanding, Rows

LEMMA PruneAlarm ==
    ASSUME TypeInv, AlarmInv, NEW a \in Agent, Prune(a)
    PROVE  AlarmInv'
<1>. DEFINE step == IF call[a].at = "lastPrune" THEN "arm"
                    ELSE IF a = Flusher THEN "load" ELSE "commit"
<1>1. PICK s : s = step
  OBVIOUS
<1>2. Goto(a, s) /\ call[a].at \in {"prune", "lastPrune"}
      /\ UNCHANGED <<alarm, arming, up, missed, pending, batch>>
  BY <1>1 DEF Prune
<1>3. s \in Steps /\ s \notin {"idle", "finish"} /\ (a = Flusher => s \in {"load", "arm"})
  BY <1>1 DEF Steps
<1>. HIDE DEF step
<1>4. OnlyMoves(a) /\ call'[a].at = s /\ call'[a].now = call[a].now
  BY <1>2, <1>3, GotoIs
<1>5. arming # a
  BY <1>2, InChain DEF Chain
<1>6. Rows(batch)' = Rows(batch)
  BY <1>2 DEF Rows
<1>7. ArmInv'
  BY <1>2, <1>3, <1>4, <1>5, <1>6, AsideArmed DEF AlarmInv, Working
<1>8. FiredInv'
  BY <1>2, <1>3, <1>4, FiredKept DEF AlarmInv
<1>. QED BY <1>7, <1>8 DEF AlarmInv

LEMMA CommitAlarm ==
    ASSUME TypeInv, AlarmInv, NEW r \in Request, Commit(r)
    PROVE  AlarmInv'
<1>1. r \in Agent /\ r # Flusher
  BY Agents
<1>2. call'[r].at = "arm" /\ OnlyMoves(r)
  BY <1>1, CommitTyped DEF Commit, OnlyMoves, TypeInv, CallsTyped, Calls
<1>3. UNCHANGED <<alarm, up>>
  BY DEF Commit
<1>4. FiredInv'
  BY <1>1, <1>2, <1>3, FiredKept DEF AlarmInv
<1>. QED BY <1>1, <1>2, <1>4 DEF AlarmInv, ArmInv, WillArm

LEMMA ArmAlarm ==
    ASSUME TypeInv, AlarmInv, NEW a \in Agent, Arm(a)
    PROVE  AlarmInv'
<1>1. PICK s : s = IF Rows(batch) # {} THEN "armBatch" ELSE "armPending"
  OBVIOUS
<1>2. /\ Goto(a, s) /\ call[a].at = "arm" /\ arming' = a
      /\ UNCHANGED <<alarm, up, pending, batch>>
  BY <1>1 DEF Arm, tables
<1>3. s \in {"armBatch", "armPending"} /\ s \in Steps
  BY <1>1 DEF Steps
<1>4. OnlyMoves(a) /\ call'[a].at = s /\ call'[a].now = call[a].now
  BY <1>2, <1>3, GotoIs
<1>5. FiredInv'
  BY <1>2, <1>3, <1>4, FiredKept DEF AlarmInv
<1>6. a # Nobody
  BY Agents
<1>7. Outstanding' => s = "armBatch" \/ Rows(pending)' # {}
  BY <1>1, <1>2 DEF Outstanding, Rows
<1>. QED BY <1>2, <1>3, <1>4, <1>5, <1>6, <1>7 DEF AlarmInv, ArmInv, ArmsWell

\* The clock of a call.
LEMMA NowIsNat ==
    ASSUME TypeInv, NEW a \in Agent
    PROVE  call[a].now \in Nat /\ call[a].at \in Steps
  BY TimesAreNat DEF TypeInv, CallsTyped, Calls

LEMMA ArmBatchAlarm ==
    ASSUME TypeInv, AlarmInv, NEW a \in Agent, ArmBatch(a)
    PROVE  AlarmInv'
<1>1. arming = a /\ a # Nobody /\ call[a].at = "armBatch"
  BY InChain, Agents DEF ArmBatch, Chain
<1>2. UNCHANGED <<alarm, up>>
  BY DEF ArmBatch
<1>3. CASE NeedsAlarm(call[a].now)
  <2>1. PICK t : t = AlarmAt(call[a].now)
    OBVIOUS
  <2>2. t \in Alarms /\ t.at # NoTime
    BY <2>1, NowIsNat, AlarmAtTyped
  <2>3. SetTo(a, t) /\ arming' = a
    BY <1>1, <1>3, <2>1 DEF ArmBatch
  <2>4. OnlyMoves(a) /\ call'[a].at = "armSet" /\ call'[a].to = t
    BY <2>2, <2>3, SetToIs
  <2>5. FiredInv'
    BY <1>1, <1>2, <2>4, FiredKept DEF AlarmInv
  <2>. QED BY <1>1, <2>2, <2>3, <2>4, <2>5 DEF AlarmInv, ArmInv, ArmsWell
<1>4. CASE ~NeedsAlarm(call[a].now)
  <2>1. alarm.at # NoTime /\ ~(alarm.at <= call[a].now)
    BY <1>4 DEF NeedsAlarm
  <2>2. arming' = Nobody /\ OnlyMoves(a)
    BY <1>4, ReturnIs DEF ArmBatch
  <2>3. CASE ~alarm.fired
    BY <1>2, <2>1, <2>2, <2>3 DEF AlarmInv, FiredInv, ArmInv, AlarmWaits
  <2>4. CASE alarm.fired
    <3>1. a # Flusher
      BY <1>1, <2>1, <2>4 DEF AlarmInv, FiredInv
    <3>2. call[Flusher].at \notin Chain /\ call[Flusher].at \notin {"idle", "finish", "commit"}
      BY <1>1, <2>4, <3>1, Agents, InChain DEF AlarmInv, FiredInv, TypeInv, CallsFit, Fits
    <3>3. call[Flusher].at \in Working \cup {"arm"}
      BY <3>2, Agents, NowIsNat DEF Steps, Working, Chain
    <3>4. call'[Flusher] = call[Flusher]
      BY <2>2, <3>1, Agents DEF OnlyMoves
    <3>5. FiredInv'
      BY <1>2, <2>2, <3>1, FiredKept DEF AlarmInv
    <3>. QED BY <3>3, <3>4, <3>5, Agents DEF AlarmInv, ArmInv, WillArm
  <2>. QED BY <2>3, <2>4
<1>. QED BY <1>3, <1>4

\* Whoever is inside updateAlarm, the others that still have to arm stay.
LEMMA WillArmStays ==
    ASSUME TypeInv, NEW a \in Agent, OnlyMoves(a), arming = a, WillArm
    PROVE  WillArm'
<1>1. call[a].at \in Chain
  BY InChain
<1>. QED BY <1>1, Agents DEF WillArm, OnlyMoves, Chain, Working

LEMMA ArmPendingAlarm ==
    ASSUME TypeInv, AlarmInv, NEW a \in Agent, ArmPending(a)
    PROVE  AlarmInv'
<1>1. arming = a /\ a # Nobody /\ call[a].at = "armPending"
  BY InChain, Agents DEF ArmPending, Chain
<1>2. UNCHANGED <<alarm, up, arming, missed, pending, batch>>
  BY DEF ArmPending, tables
<1>3. PICK t : t = NextAlarm(call[a].now)
  OBVIOUS
<1>4. t \in Alarms /\ (Rows(pending) # {} => t.at # NoTime)
  BY <1>3, NowIsNat, NextAlarmTyped DEF TypeInv, CountsTyped
<1>5. SetTo(a, t)
  BY <1>3 DEF ArmPending
<1>6. OnlyMoves(a) /\ call'[a].at = "armSet" /\ call'[a].to = t
  BY <1>4, <1>5, SetToIs
<1>7. FiredInv'
  BY <1>1, <1>2, <1>6, FiredKept DEF AlarmInv
<1>8. Outstanding' = Outstanding
  BY <1>2 DEF Outstanding, Rows
<1>9. WillArm => WillArm'
  BY <1>1, <1>6, WillArmStays
<1>10. ArmsWell => ArmsWell'
  BY <1>1, <1>2, <1>4, <1>6 DEF ArmsWell
<1>11. ~AlarmWaits
  BY <1>1 DEF AlarmWaits
<1>. QED BY <1>2, <1>7, <1>8, <1>9, <1>10, <1>11 DEF AlarmInv, ArmInv

LEMMA ArmSetAlarm ==
    ASSUME TypeInv, AlarmInv, NEW a \in Agent, ArmSet(a)
    PROVE  AlarmInv'
<1>1. arming = a /\ a # Nobody /\ call[a].at = "armSet"
  BY InChain, Agents DEF ArmSet, Chain
<1>2. UNCHANGED <<up, missed, pending, batch>> /\ arming' = Nobody /\ alarm' = call[a].to
  BY DEF ArmSet, tables
<1>3. ~call[a].to.fired
  BY <1>1 DEF TypeInv, CallsFit, Fits
<1>4. OnlyMoves(a)
  BY ReturnIs DEF ArmSet
<1>5. FiredInv'
  BY <1>2, <1>3 DEF FiredInv
<1>6. Outstanding' = Outstanding
  BY <1>2 DEF Outstanding, Rows
<1>7. WillArm => WillArm'
  BY <1>1, <1>4, WillArmStays
<1>8. ArmsWell => AlarmWaits'
  BY <1>1, <1>2, <1>3 DEF ArmsWell, AlarmWaits
<1>9. ~AlarmWaits
  BY <1>1 DEF AlarmWaits
<1>. QED BY <1>2, <1>5, <1>6, <1>7, <1>8, <1>9 DEF AlarmInv, ArmInv

\* The handler at work will come to arm.
LEMMA WorkAlarm ==
    ASSUME TypeInv, AlarmInv, Load \/ Promote \/ AppendRows \/ AppendFails \/ Settle
    PROVE  AlarmInv'
<1>1. /\ Flusher \in Agent /\ call \in [Agent -> Calls] /\ call' \in [Agent -> Calls]
      /\ call[Flusher].at \in {"load", "reload", "promote", "append", "settle"}
  BY Agents, LoadTyped, PromoteTyped, AppendTyped, SettleTyped
     DEF TypeInv, CallsTyped, Load, Promote, AppendRows, AppendFails, Settle
<1>2. UNCHANGED <<alarm, up>>
  BY DEF Load, Promote, AppendRows, AppendFails, Settle
<1>3. /\ OnlyMoves(Flusher)
      /\ call'[Flusher].at \in Working
      /\ call'[Flusher].now = call[Flusher].now \/ call'[Flusher].at = "backoff"
  <2>1. CASE AppendFails
    BY <1>1, <2>1 DEF AppendFails, Idle, OnlyMoves, Working
  <2>2. CASE AppendRows \/ Promote
    BY <1>1, <2>2 DEF AppendRows, Promote, Goto, OnlyMoves, Working, Calls
  <2>3. CASE Settle
    BY <1>1, <2>3 DEF Settle, OnlyMoves, Working, Calls
  <2>4. CASE Load
    <3>1. PICK k : k = {b \in Rows(batch) :
                          Cardinality({x \in Rows(batch) : x < b}) < BatchLimit}
      OBVIOUS
    <3>2. \/ call' = [call EXCEPT ![Flusher].at = "append", ![Flusher].rows = k]
          \/ \E s \in {"promote", "lastPrune"} : call' = [call EXCEPT ![Flusher].at = s]
      BY <2>4, <3>1 DEF Load, Goto
    <3>. QED BY <1>1, <3>2 DEF OnlyMoves, Working, Calls
  <2>. QED BY <2>1, <2>2, <2>3, <2>4
<1>4. FiredInv'
  BY <1>1, <1>2, <1>3, FiredKept DEF AlarmInv, Working
<1>. QED BY <1>3, <1>4 DEF AlarmInv, ArmInv, WillArm

LEMMA BackoffAlarm == ASSUME TypeInv, AlarmInv, Backoff PROVE AlarmInv'
<1>1. PICK delay \in RetryDelays : alarm' = AlarmAt(clock + delay)
  BY DEF Backoff
<1>2. clock + delay \in Nat
  BY TimesAreNat DEF TypeInv, CountsTyped, RetryDelays
<1>3. alarm'.at # NoTime /\ ~alarm'.fired
  BY <1>1, <1>2, AlarmAtTyped
<1>4. arming' = Nobody
  BY DEF Backoff
<1>. QED BY <1>3, <1>4 DEF AlarmInv, FiredInv, ArmInv, AlarmWaits

LEMMA FinishAlarm == ASSUME TypeInv, AlarmInv, Finish PROVE AlarmInv'
<1>1. Flusher \in Agent /\ call[Flusher].at = "finish"
  BY Agents DEF Finish
<1>2. ~alarm.fired
  BY <1>1 DEF AlarmInv, FiredInv
<1>3. UNCHANGED <<alarm, arming, up, missed, pending, batch>>
  BY <1>2 DEF Finish, tables
<1>4. OnlyMoves(Flusher)
  BY <1>1, IdleTyped DEF Finish, OnlyMoves, TypeInv, CallsTyped
<1>5. arming # Flusher
  BY <1>1, InChain DEF Chain
<1>6. Rows(batch)' = Rows(batch)
  BY <1>3 DEF Rows
<1>7. ArmInv'
  BY <1>1, <1>3, <1>4, <1>5, <1>6, AsideArmed DEF AlarmInv, Working
<1>. QED BY <1>2, <1>3, <1>7 DEF AlarmInv, FiredInv

LEMMA RecordFailsAlarm ==
    ASSUME TypeInv, AlarmInv, NEW r \in Request, RecordFails(r)
    PROVE  AlarmInv'
<1>1. r \in Agent /\ r # Flusher
  BY Agents
<1>2. OnlyMoves(r) /\ UNCHANGED <<alarm, up, pending, batch>>
  BY <1>1, IdleTyped DEF RecordFails, OnlyMoves, TypeInv, CallsTyped, tables
<1>3. FiredInv'
  BY <1>1, <1>2, FiredKept DEF AlarmInv
<1>4. CASE call[r].at \in Arming
  BY <1>3, <1>4 DEF RecordFails, AlarmInv, ArmInv
<1>5. CASE call[r].at \notin Arming
  <2>1. arming # r /\ call[r].at # "arm"
    BY <1>1, <1>5, InChain DEF Arming, Chain
  <2>2. arming' = arming /\ missed' = missed
    BY <1>5, <2>1 DEF RecordFails, LeaveArming, TypeInv, CallsTyped
  <2>3. Rows(batch)' = Rows(batch)
    BY <1>2 DEF Rows
  <2>4. ArmInv'
    BY <1>1, <1>2, <2>1, <2>2, <2>3, AsideArmed DEF AlarmInv
  <2>. QED BY <1>3, <2>4 DEF AlarmInv
<1>. QED BY <1>4, <1>5

LEMMA FlushFailsAlarm == ASSUME TypeInv, AlarmInv, FlushFails PROVE AlarmInv'
<1>1. CASE alarm.fired
  <2>1. PICK delay \in RetryDelays : alarm' = AlarmAt(clock + delay)
    BY <1>1 DEF FlushFails
  <2>2. clock + delay \in Nat
    BY TimesAreNat DEF TypeInv, CountsTyped, RetryDelays
  <2>3. alarm'.at # NoTime /\ ~alarm'.fired
    BY <2>1, <2>2, AlarmAtTyped
  <2>4. missed' \/ arming' = Nobody
    BY DEF FlushFails, LeaveArming, TypeInv, CallsTyped, Agent
  <2>. QED BY <2>3, <2>4 DEF AlarmInv, FiredInv, ArmInv, AlarmWaits
<1>2. CASE ~alarm.fired
  BY <1>2 DEF FlushFails, AlarmInv, FiredInv, ArmInv
<1>. QED BY <1>1, <1>2

LEMMA CrashAlarm == ASSUME TypeInv, Crash PROVE AlarmInv'
<1>1. ~alarm'.fired /\ ~up'
  BY DEF Crash, TypeInv, CallsTyped, Alarms
<1>. QED BY <1>1 DEF AlarmInv, FiredInv, ArmInv

LEMMA InitializeAlarm == ASSUME TypeInv, AlarmInv, Initialize PROVE AlarmInv'
<1>1. clock \in Nat /\ pending \in [Bucket -> Nat]
  BY TimesAreNat DEF TypeInv, CountsTyped
<1>2. arming' = Nobody
  <2>1. \A a \in Agent : call[a].at = "idle"
    BY DEF Initialize, TypeInv, CallsFit, Fits
  <2>2. arming \in Agent \cup {Nobody}
    BY DEF TypeInv, CallsTyped
  <2>. QED BY <2>1, <2>2, InChain DEF Initialize, Chain
<1>3. ~alarm.fired
  BY DEF Initialize, AlarmInv, FiredInv
<1>4. ~alarm'.fired /\ (Outstanding => alarm'.at # NoTime)
  <2>1. CASE Rows(batch) = {}
    BY <1>1, <2>1, NextAlarmTyped DEF Initialize, Outstanding
  <2>2. CASE Rows(batch) # {} /\ NeedsAlarm(clock)
    BY <1>1, <2>2, AlarmAtTyped DEF Initialize
  <2>3. CASE Rows(batch) # {} /\ ~NeedsAlarm(clock)
    BY <1>3, <2>3 DEF Initialize, NeedsAlarm
  <2>. QED BY <2>1, <2>2, <2>3
<1>5. Outstanding' = Outstanding
  BY DEF Initialize, Outstanding, Rows
<1>. QED BY <1>2, <1>4, <1>5 DEF AlarmInv, FiredInv, ArmInv, AlarmWaits

LEMMA AlarmStep == TypeInv /\ AlarmInv /\ [Next]_vars => AlarmInv'
<1>. SUFFICES ASSUME TypeInv, AlarmInv, [Next]_vars PROVE AlarmInv'
  OBVIOUS
<1>1. StepOf
  BY NextIsStep
<1>. QED BY <1>1, BeginAlarm, FireAlarm, TickAlarm, PruneAlarm, CommitAlarm, ArmAlarm,
            ArmBatchAlarm, ArmPendingAlarm, ArmSetAlarm, WorkAlarm, BackoffAlarm, FinishAlarm,
            RecordFailsAlarm, FlushFailsAlarm, CrashAlarm, InitializeAlarm DEF StepOf

LEMMA AlarmInit == Init => AlarmInv
  BY AlarmAtTyped DEF Init, AlarmInv, FiredInv, ArmInv, Outstanding, Rows

\* Outstanding work has a wakeup whenever nothing is in flight, unless a call
\* failed before it could arm the alarm.
LEMMA WorkIsWoken == TypeInv /\ AlarmInv => AlarmArmed
<1>. SUFFICES ASSUME TypeInv, AlarmInv, up, Outstanding, ~missed,
                     \A a \in Agent : call[a].at = "idle"
              PROVE  alarm.at # NoTime
  BY DEF AlarmArmed
<1>1. ~WillArm
  BY Agents DEF WillArm, Working
<1>2. ~ArmsWell
  BY InChain DEF ArmsWell, Chain, TypeInv, CallsTyped
<1>. QED BY <1>1, <1>2 DEF AlarmInv, ArmInv, AlarmWaits

\* Every total read shows what was accepted, and outstanding work has a wakeup, over
\* any interleaving of records, flushes, failures and restarts.
THEOREM TotalsExactAndArmed == Spec => []ExactAndArmed
<1>. DEFINE IInv == TypeInv /\ BatchInv /\ CountsInv /\ AlarmInv
<1>1. Init => IInv
  BY TypeInit, BatchInit, CountsInit, AlarmInit
<1>2. IInv /\ [Next]_vars => IInv'
  BY TypeStep, BatchStep, CountsStep, AlarmStep
<1>3. IInv => ExactAndArmed
  BY CountsAreExact, WorkIsWoken DEF ExactAndArmed
<1>. QED BY <1>1, <1>2, <1>3, PTL DEF Spec
=============================================================================
