------------------------- MODULE OfferDeliveryProofs -------------------------
(***************************************************************************)
(* The tile offers of the userscript, for any tiles, deliveries, limits,   *)
(* lifetimes of the connection and manifests.                              *)
(* What a fold over a list computes comes first, then what each operation  *)
(* makes of an outbox: deliveries go (Less), tiles are offered (Offered),  *)
(* answers are settled (Settles), receipts are forgotten (Fades).  From    *)
(* these every step keeps OffersInv, and OffersInv gives the properties.   *)
(***************************************************************************)
EXTENDS MCReports, TelemetryCountersProofs

(***************************************************************************)
(* Folds.  The library's induction theorems take an operator; here         *)
(* induction is over a set of numbers, and a fold is reasoned about by a   *)
(* set that its steps do not leave.                                        *)
(***************************************************************************)
LEMMA Upward ==
    ASSUME NEW n \in Nat, NEW S, 0 \in S, \A k \in 0 .. n - 1 : k \in S => k + 1 \in S
    PROVE  n \in S
<1>. DEFINE Bad == {k \in 0 .. n : k \notin S}
<1>1. ASSUME NEW k \in Bad PROVE FALSE
  <2>1. Bad \in SUBSET Nat OBVIOUS
  <2>2. PICK m \in Bad : \A j \in Bad : m <= j
    <3>. HIDE DEF Bad
    <3>. QED BY <1>1, <2>1, LeastNat
  <2>3. m # 0 /\ m \in 1 .. n BY <2>2
  <2>4. m - 1 \in 0 .. n - 1 /\ m - 1 \notin Bad BY <2>2, <2>3
  <2>5. m - 1 \in S BY <2>4
  <2>6. (m - 1) + 1 \in S BY <2>4, <2>5
  <2>. QED BY <2>2, <2>3, <2>6
<1>. QED BY <1>1

LEMMA MaxIn ==
    ASSUME NEW n \in Nat, NEW s \in SUBSET (1 .. n), s # {}
    PROVE  Max(s) \in s /\ \A x \in s : x <= Max(s)
<1>. DEFINE Above == {k \in Nat : \A x \in s : x <= k}
<1>1. n \in Above /\ Above \in SUBSET Nat
  OBVIOUS
<1>2. PICK m \in Above : \A k \in Above : m <= k
  <2>. HIDE DEF Above
  <2>. QED BY <1>1, LeastNat
<1>3. m \in Nat /\ \A x \in s : x \in Nat /\ 1 <= x /\ x <= m
  BY <1>2
<1>4. \A k \in Nat : (\A x \in s : x <= k) => m <= k
  BY <1>2
<1>5. m \in s
  <2>1. CASE m \notin s
    <3>1. m # 0
      <4>1. PICK x \in s : TRUE OBVIOUS
      <4>. QED BY <1>3, <4>1
    <3>2. m - 1 \in Nat /\ \A x \in s : x <= m - 1 BY <1>3, <2>1, <3>1
    <3>. QED BY <1>3, <1>4, <3>2
  <2>. QED BY <2>1
<1>. QED BY <1>3, <1>5 DEF Max

\* The indices up to n + 1, with the last of them and without it.
LEMMA LastIndex ==
    ASSUME NEW n \in Nat
    PROVE  /\ 1 .. 0 = {} /\ 1 .. n + 1 # {}
           /\ Max(1 .. n + 1) = n + 1 /\ (1 .. n + 1) \ {n + 1} = 1 .. n
<1>1. Max(1 .. n + 1) \in 1 .. n + 1 /\ \A x \in 1 .. n + 1 : x <= Max(1 .. n + 1)
  <2>. DEFINE m == n + 1
  <2>1. m \in Nat /\ 1 .. m \in SUBSET (1 .. m) /\ 1 .. m # {} OBVIOUS
  <2>. HIDE DEF m
  <2>2. Max(1 .. m) \in 1 .. m /\ \A x \in 1 .. m : x <= Max(1 .. m) BY <2>1, MaxIn
  <2>. QED BY <2>2 DEF m
<1>. QED BY <1>1

\* h folds g from b over every set of indices of s, within Good; or over those
\* of at most n of them.
FoldsTo(h, g, b, s, Good, t) ==
    /\ h[t] = IF t = {} THEN b ELSE g[<<h[t \ {Max(t)}], s[Max(t)]>>]
    /\ h[t] \in Good
Folds(h, g, b, s, Good) == \A t \in SUBSET DOMAIN s : FoldsTo(h, g, b, s, Good, t)
FoldsUpTo(h, g, b, s, Good, n) ==
    \A t \in SUBSET DOMAIN s : Cardinality(t) <= n => FoldsTo(h, g, b, s, Good, t)

LEMMA Indices ==
    ASSUME NEW D, NEW s \in Seq(D)
    PROVE  /\ IsFiniteSet(DOMAIN s) /\ DOMAIN s = 1 .. Len(s) /\ Len(s) \in Nat
           /\ \A t \in SUBSET DOMAIN s : t # {} => Max(t) \in t /\ s[Max(t)] \in D
<1>1. DOMAIN s = 1 .. Len(s) /\ Len(s) \in Nat
  OBVIOUS
<1>2. IsFiniteSet(DOMAIN s)
  BY <1>1, FS_Interval
<1>3. ASSUME NEW t \in SUBSET DOMAIN s, t # {} PROVE Max(t) \in t /\ s[Max(t)] \in D
  <2>1. Max(t) \in t BY <1>1, <1>3, MaxIn
  <2>. QED BY <2>1
<1>. QED BY <1>1, <1>2, <1>3

LEMMA FoldsMore ==
    ASSUME NEW D, NEW s \in Seq(D), NEW Good, NEW g \in [Good \X D -> Good], NEW b \in Good,
           NEW h, NEW n \in Nat, FoldsUpTo(h, g, b, s, Good, n)
    PROVE  \E i : FoldsUpTo(i, g, b, s, Good, n + 1)
<1>. DEFINE i == [t \in SUBSET DOMAIN s |-> IF Cardinality(t) <= n THEN h[t]
                                            ELSE g[<<h[t \ {Max(t)}], s[Max(t)]>>]]
<1>1. ASSUME NEW t \in SUBSET DOMAIN s, Cardinality(t) <= n + 1
      PROVE  FoldsTo(i, g, b, s, Good, t)
  <2>1. CASE t = {}
    <3>1. i[t] = h[t] BY <2>1, FS_EmptySet
    <3>2. FoldsTo(h, g, b, s, Good, t) BY <2>1, FS_EmptySet DEF FoldsUpTo
    <3>. HIDE DEF i
    <3>. QED BY <2>1, <3>1, <3>2 DEF FoldsTo
  <2>2. CASE t # {}
    <3>1. Max(t) \in t /\ s[Max(t)] \in D BY <2>2, Indices
    <3>2. IsFiniteSet(t) BY Indices, FS_Subset
    <3>3. Cardinality(t \ {Max(t)}) = Cardinality(t) - 1 /\ Cardinality(t) \in Nat
      BY <3>1, <3>2, FS_RemoveElement, FS_CardinalityType
    <3>4. i[t \ {Max(t)}] = h[t \ {Max(t)}] BY <1>1, <3>3
    <3>5. FoldsTo(h, g, b, s, Good, t \ {Max(t)}) BY <1>1, <3>3 DEF FoldsUpTo
    <3>6. i[t] = g[<<h[t \ {Max(t)}], s[Max(t)]>>]
      <4>1. CASE Cardinality(t) <= n
        <5>1. FoldsTo(h, g, b, s, Good, t) BY <4>1 DEF FoldsUpTo
        <5>2. i[t] = h[t] BY <4>1
        <5>. HIDE DEF i
        <5>. QED BY <2>2, <5>1, <5>2 DEF FoldsTo
      <4>2. CASE ~(Cardinality(t) <= n)
        BY <4>2
      <4>. QED BY <4>1, <4>2
    <3>. HIDE DEF i
    <3>7. h[t \ {Max(t)}] \in Good BY <3>5 DEF FoldsTo
    <3>8. g[<<h[t \ {Max(t)}], s[Max(t)]>>] \in Good BY <3>1, <3>7
    <3>. QED BY <2>2, <3>4, <3>6, <3>8 DEF FoldsTo
  <2>. QED BY <2>1, <2>2
<1>. HIDE DEF i
<1>. QED BY <1>1 DEF FoldsUpTo

LEMMA FoldExists ==
    ASSUME NEW D, NEW s \in Seq(D), NEW Good, NEW g \in [Good \X D -> Good], NEW b \in Good
    PROVE  \E h : h = [t \in SUBSET DOMAIN s |-> h[t]] /\ Folds(h, g, b, s, Good)
<1>. DEFINE Reached == {n \in Nat : \E h : FoldsUpTo(h, g, b, s, Good, n)}
<1>1. 0 \in Reached
  <2>. DEFINE h == [t \in SUBSET DOMAIN s |-> b]
  <2>1. FoldsUpTo(h, g, b, s, Good, 0)
    <3>1. ASSUME NEW t \in SUBSET DOMAIN s, Cardinality(t) <= 0 PROVE t = {}
      <4>1. IsFiniteSet(t) BY Indices, FS_Subset
      <4>2. Cardinality(t) \in Nat BY <4>1, FS_CardinalityType
      <4>. QED BY <4>1, <4>2, <3>1, FS_EmptySet
    <3>. QED BY <3>1 DEF FoldsUpTo, FoldsTo
  <2>. QED BY <2>1
<1>2. ASSUME NEW n \in Nat, n \in Reached PROVE n + 1 \in Reached
  <2>1. PICK h : FoldsUpTo(h, g, b, s, Good, n) BY <1>2
  <2>2. \E i : FoldsUpTo(i, g, b, s, Good, n + 1) BY <2>1, FoldsMore
  <2>. QED BY <2>2
<1>3. Cardinality(DOMAIN s) \in Reached
  <2>1. Cardinality(DOMAIN s) \in Nat BY Indices, FS_CardinalityType
  <2>. HIDE DEF Reached
  <2>. QED BY <1>1, <1>2, <2>1, Upward
<1>4. PICK h : FoldsUpTo(h, g, b, s, Good, Cardinality(DOMAIN s)) BY <1>3
<1>. DEFINE i == [t \in SUBSET DOMAIN s |-> h[t]]
<1>5. \A t \in SUBSET DOMAIN s : FoldsTo(h, g, b, s, Good, t)
  <2>1. \A t \in SUBSET DOMAIN s : Cardinality(t) <= Cardinality(DOMAIN s)
    BY Indices, FS_Subset
  <2>. QED BY <1>4, <2>1 DEF FoldsUpTo
<1>6. Folds(i, g, b, s, Good)
  BY <1>5 DEF Folds, FoldsTo
<1>. QED BY <1>6

\* h folds g from b as long as it stays in Good.
Follows(h, g, b, s, D, Good) ==
    /\ s \in Seq(D) /\ b \in Good /\ g \in [Good \X D -> Good]
    /\ h[{}] = b
    /\ \A t \in SUBSET DOMAIN s :
           t # {} /\ h[t \ {Max(t)}] \in Good => h[t] = g[<<h[t \ {Max(t)}], s[Max(t)]>>]

\* What a fold makes of a list, step by step, as long as g is told of what
\* it does with members of Good.
Trace(f, g, b, s, Good) ==
    /\ f \in [0 .. Len(s) -> Good] /\ f[0] = b
    /\ \A n \in 0 .. Len(s) - 1 : f[n + 1] = g[<<f[n], s[n + 1]>>]

LEMMA FoldTrace ==
    ASSUME NEW D, NEW s, NEW Good, NEW b, NEW g, NEW h, Follows(h, g, b, s, D, Good)
    PROVE  \E f : Trace(f, g, b, s, Good) /\ h[DOMAIN s] = f[Len(s)]
<1>. DEFINE f == [n \in 0 .. Len(s) |-> h[1 .. n]]
            S == {n \in 0 .. Len(s) : h[1 .. n] \in Good}
<1>0. s \in Seq(D) /\ b \in Good /\ g \in [Good \X D -> Good]
  BY DEF Follows
<1>1. DOMAIN s = 1 .. Len(s) /\ Len(s) \in Nat /\ \A n \in 1 .. Len(s) : s[n] \in D
  BY <1>0
<1>2. ASSUME NEW n \in 0 .. Len(s) - 1, n \in S
      PROVE  h[1 .. n + 1] = g[<<h[1 .. n], s[n + 1]>>] /\ h[1 .. n + 1] \in Good
  <2>1. 1 .. n + 1 \in SUBSET DOMAIN s /\ n \in Nat BY <1>1
  <2>2. h[1 .. n + 1] = g[<<h[1 .. n], s[n + 1]>>] BY <1>2, <2>1, LastIndex DEF Follows
  <2>3. s[n + 1] \in D BY <1>1
  <2>. QED BY <1>0, <1>2, <2>2, <2>3
<1>3. 0 \in S
  BY <1>1, LastIndex DEF Follows
<1>4. ASSUME NEW n \in 0 .. Len(s) PROVE n \in S
  <2>1. ASSUME NEW k \in 0 .. n - 1, k \in S PROVE k + 1 \in S
    <3>1. k \in 0 .. Len(s) - 1 /\ k + 1 \in 0 .. Len(s) BY <1>1
    <3>. QED BY <1>2, <2>1, <3>1
  <2>2. n \in Nat BY <1>1
  <2>. HIDE DEF S
  <2>. QED BY <1>3, <2>1, <2>2, Upward
<1>5. Trace(f, g, b, s, Good)
  <2>1. f \in [0 .. Len(s) -> Good] BY <1>4
  <2>2. f[0] = b BY <1>1, LastIndex DEF Follows
  <2>3. \A n \in 0 .. Len(s) - 1 : f[n + 1] = g[<<f[n], s[n + 1]>>]
    BY <1>1, <1>2, <1>4
  <2>. HIDE DEF f
  <2>. QED BY <2>1, <2>2, <2>3 DEF Trace
<1>. QED BY <1>1, <1>5

-----------------------------------------------------------------------------
(* The folds of the model.                                                 *)

DeleteAll(x, s) == FoldLeft(Delete, x, s)
AcknowledgeAll(x, s) == FoldLeft(Acknowledge, x, s)
GiveBackAll(x, s) == FoldLeft(GiveBack, x, s)
SettleAll(x, s) == FoldLeft(Settled, x, s)
OfferAll(x, s, tiles) == FoldLeft(LAMBDA y, d : Offer(y, d, tiles), x, s)
RotateAll(x, s) == FoldLeft(LAMBDA y, d : Rotate(Write(y, d, NoReceipt), d), x, s)
PutSettled(s, d, put) == IF d \in put THEN [s EXCEPT !.x = Acknowledge(@, d)]
                             ELSE IF flush.verdict[d] = "wanted" THEN Failed(s, d) ELSE Settled(s, d)
PutAll(x, s, put) == FoldLeft(LAMBDA y, d : PutSettled(y, d, put), x, s)

DeleteSteps(f, x, s, Good) ==
    /\ f \in [0 .. Len(s) -> Good] /\ f[0] = x /\ DeleteAll(x, s) = f[Len(s)]
    /\ \A n \in 0 .. Len(s) - 1 : f[n + 1] = Delete(f[n], s[n + 1])

LEMMA DeleteFold ==
    ASSUME NEW D, NEW s \in Seq(D), NEW Good, NEW x \in Good,
           \A y \in Good : \A d \in D : Delete(y, d) \in Good
    PROVE  \E f : DeleteSteps(f, x, s, Good)
<1>. DEFINE g == [p \in Good \X D |-> Delete(p[1], p[2])]
            Step(h, t) == IF t = {} THEN x ELSE Delete(h[t \ {Max(t)}], s[Max(t)])
<1>1. g \in [Good \X D -> Good]
  OBVIOUS
<1>2. PICK i : i = [t \in SUBSET DOMAIN s |-> i[t]] /\ Folds(i, g, x, s, Good)
  BY <1>1, FoldExists
<1>3. \A t \in SUBSET DOMAIN s : i[t] = Step(i, t)
  BY <1>2, Indices DEF Folds, FoldsTo
<1>4. \E h : h = [t \in SUBSET DOMAIN s |-> Step(h, t)]
  <2>. HIDE DEF Step
  <2>. QED BY <1>2, <1>3
<1>5. PICK h : /\ h = [t \in SUBSET DOMAIN s |-> Step(h, t)]
               /\ DeleteAll(x, s) = h[DOMAIN s]
  BY <1>4 DEF DeleteAll, FoldLeft, MapThenFoldSet
<1>6. Follows(h, g, x, s, D, Good)
  <2>1. h[{}] = x BY <1>5
  <2>2. ASSUME NEW t \in SUBSET DOMAIN s, t # {}, h[t \ {Max(t)}] \in Good
        PROVE  h[t] = g[<<h[t \ {Max(t)}], s[Max(t)]>>]
    BY <1>5, <2>2, Indices
  <2>. HIDE DEF g, Step
  <2>. QED BY <1>1, <2>1, <2>2 DEF Follows
<1>. HIDE DEF g
<1>7. PICK f : Trace(f, g, x, s, Good) /\ h[DOMAIN s] = f[Len(s)]
  BY <1>6, FoldTrace
<1>8. ASSUME NEW n \in 0 .. Len(s) - 1 PROVE f[n + 1] = Delete(f[n], s[n + 1])
  <2>1. s[n + 1] \in D /\ n \in 0 .. Len(s) BY <1>8
  <2>2. f[n] \in Good BY <1>7, <2>1 DEF Trace
  <2>3. f[n + 1] = g[<<f[n], s[n + 1]>>] BY <1>7 DEF Trace
  <2>. QED BY <2>1, <2>2, <2>3 DEF g
<1>9. f \in [0 .. Len(s) -> Good] /\ f[0] = x /\ DeleteAll(x, s) = f[Len(s)]
  BY <1>5, <1>7 DEF Trace
<1>. QED BY <1>8, <1>9 DEF DeleteSteps

AcknowledgeSteps(f, x, s, Good) ==
    /\ f \in [0 .. Len(s) -> Good] /\ f[0] = x /\ AcknowledgeAll(x, s) = f[Len(s)]
    /\ \A n \in 0 .. Len(s) - 1 : f[n + 1] = Acknowledge(f[n], s[n + 1])

LEMMA AcknowledgeFold ==
    ASSUME NEW D, NEW s \in Seq(D), NEW Good, NEW x \in Good,
           \A y \in Good : \A d \in D : Acknowledge(y, d) \in Good
    PROVE  \E f : AcknowledgeSteps(f, x, s, Good)
<1>. DEFINE g == [p \in Good \X D |-> Acknowledge(p[1], p[2])]
            Step(h, t) == IF t = {} THEN x ELSE Acknowledge(h[t \ {Max(t)}], s[Max(t)])
<1>1. g \in [Good \X D -> Good]
  OBVIOUS
<1>2. PICK i : i = [t \in SUBSET DOMAIN s |-> i[t]] /\ Folds(i, g, x, s, Good)
  BY <1>1, FoldExists
<1>3. \A t \in SUBSET DOMAIN s : i[t] = Step(i, t)
  BY <1>2, Indices DEF Folds, FoldsTo
<1>4. \E h : h = [t \in SUBSET DOMAIN s |-> Step(h, t)]
  <2>. HIDE DEF Step
  <2>. QED BY <1>2, <1>3
<1>5. PICK h : /\ h = [t \in SUBSET DOMAIN s |-> Step(h, t)]
               /\ AcknowledgeAll(x, s) = h[DOMAIN s]
  BY <1>4 DEF AcknowledgeAll, FoldLeft, MapThenFoldSet
<1>6. Follows(h, g, x, s, D, Good)
  <2>1. h[{}] = x BY <1>5
  <2>2. ASSUME NEW t \in SUBSET DOMAIN s, t # {}, h[t \ {Max(t)}] \in Good
        PROVE  h[t] = g[<<h[t \ {Max(t)}], s[Max(t)]>>]
    BY <1>5, <2>2, Indices
  <2>. HIDE DEF g, Step
  <2>. QED BY <1>1, <2>1, <2>2 DEF Follows
<1>. HIDE DEF g
<1>7. PICK f : Trace(f, g, x, s, Good) /\ h[DOMAIN s] = f[Len(s)]
  BY <1>6, FoldTrace
<1>8. ASSUME NEW n \in 0 .. Len(s) - 1 PROVE f[n + 1] = Acknowledge(f[n], s[n + 1])
  <2>1. s[n + 1] \in D /\ n \in 0 .. Len(s) BY <1>8
  <2>2. f[n] \in Good BY <1>7, <2>1 DEF Trace
  <2>3. f[n + 1] = g[<<f[n], s[n + 1]>>] BY <1>7 DEF Trace
  <2>. QED BY <2>1, <2>2, <2>3 DEF g
<1>9. f \in [0 .. Len(s) -> Good] /\ f[0] = x /\ AcknowledgeAll(x, s) = f[Len(s)]
  BY <1>5, <1>7 DEF Trace
<1>. QED BY <1>8, <1>9 DEF AcknowledgeSteps

GiveBackSteps(f, x, s, Good) ==
    /\ f \in [0 .. Len(s) -> Good] /\ f[0] = x /\ GiveBackAll(x, s) = f[Len(s)]
    /\ \A n \in 0 .. Len(s) - 1 : f[n + 1] = GiveBack(f[n], s[n + 1])

LEMMA GiveBackFold ==
    ASSUME NEW D, NEW s \in Seq(D), NEW Good, NEW x \in Good,
           \A y \in Good : \A d \in D : GiveBack(y, d) \in Good
    PROVE  \E f : GiveBackSteps(f, x, s, Good)
<1>. DEFINE g == [p \in Good \X D |-> GiveBack(p[1], p[2])]
            Step(h, t) == IF t = {} THEN x ELSE GiveBack(h[t \ {Max(t)}], s[Max(t)])
<1>1. g \in [Good \X D -> Good]
  OBVIOUS
<1>2. PICK i : i = [t \in SUBSET DOMAIN s |-> i[t]] /\ Folds(i, g, x, s, Good)
  BY <1>1, FoldExists
<1>3. \A t \in SUBSET DOMAIN s : i[t] = Step(i, t)
  BY <1>2, Indices DEF Folds, FoldsTo
<1>4. \E h : h = [t \in SUBSET DOMAIN s |-> Step(h, t)]
  <2>. HIDE DEF Step
  <2>. QED BY <1>2, <1>3
<1>5. PICK h : /\ h = [t \in SUBSET DOMAIN s |-> Step(h, t)]
               /\ GiveBackAll(x, s) = h[DOMAIN s]
  BY <1>4 DEF GiveBackAll, FoldLeft, MapThenFoldSet
<1>6. Follows(h, g, x, s, D, Good)
  <2>1. h[{}] = x BY <1>5
  <2>2. ASSUME NEW t \in SUBSET DOMAIN s, t # {}, h[t \ {Max(t)}] \in Good
        PROVE  h[t] = g[<<h[t \ {Max(t)}], s[Max(t)]>>]
    BY <1>5, <2>2, Indices
  <2>. HIDE DEF g, Step
  <2>. QED BY <1>1, <2>1, <2>2 DEF Follows
<1>. HIDE DEF g
<1>7. PICK f : Trace(f, g, x, s, Good) /\ h[DOMAIN s] = f[Len(s)]
  BY <1>6, FoldTrace
<1>8. ASSUME NEW n \in 0 .. Len(s) - 1 PROVE f[n + 1] = GiveBack(f[n], s[n + 1])
  <2>1. s[n + 1] \in D /\ n \in 0 .. Len(s) BY <1>8
  <2>2. f[n] \in Good BY <1>7, <2>1 DEF Trace
  <2>3. f[n + 1] = g[<<f[n], s[n + 1]>>] BY <1>7 DEF Trace
  <2>. QED BY <2>1, <2>2, <2>3 DEF g
<1>9. f \in [0 .. Len(s) -> Good] /\ f[0] = x /\ GiveBackAll(x, s) = f[Len(s)]
  BY <1>5, <1>7 DEF Trace
<1>. QED BY <1>8, <1>9 DEF GiveBackSteps

SettledSteps(f, x, s, Good) ==
    /\ f \in [0 .. Len(s) -> Good] /\ f[0] = x /\ SettleAll(x, s) = f[Len(s)]
    /\ \A n \in 0 .. Len(s) - 1 : f[n + 1] = Settled(f[n], s[n + 1])

LEMMA SettledFold ==
    ASSUME NEW D, NEW s \in Seq(D), NEW Good, NEW x \in Good,
           \A y \in Good : \A d \in D : Settled(y, d) \in Good
    PROVE  \E f : SettledSteps(f, x, s, Good)
<1>. DEFINE g == [p \in Good \X D |-> Settled(p[1], p[2])]
            Step(h, t) == IF t = {} THEN x ELSE Settled(h[t \ {Max(t)}], s[Max(t)])
<1>1. g \in [Good \X D -> Good]
  OBVIOUS
<1>2. PICK i : i = [t \in SUBSET DOMAIN s |-> i[t]] /\ Folds(i, g, x, s, Good)
  BY <1>1, FoldExists
<1>3. \A t \in SUBSET DOMAIN s : i[t] = Step(i, t)
  BY <1>2, Indices DEF Folds, FoldsTo
<1>4. \E h : h = [t \in SUBSET DOMAIN s |-> Step(h, t)]
  <2>. HIDE DEF Step
  <2>. QED BY <1>2, <1>3
<1>5. PICK h : /\ h = [t \in SUBSET DOMAIN s |-> Step(h, t)]
               /\ SettleAll(x, s) = h[DOMAIN s]
  BY <1>4 DEF SettleAll, FoldLeft, MapThenFoldSet
<1>6. Follows(h, g, x, s, D, Good)
  <2>1. h[{}] = x BY <1>5
  <2>2. ASSUME NEW t \in SUBSET DOMAIN s, t # {}, h[t \ {Max(t)}] \in Good
        PROVE  h[t] = g[<<h[t \ {Max(t)}], s[Max(t)]>>]
    BY <1>5, <2>2, Indices
  <2>. HIDE DEF g, Step
  <2>. QED BY <1>1, <2>1, <2>2 DEF Follows
<1>. HIDE DEF g
<1>7. PICK f : Trace(f, g, x, s, Good) /\ h[DOMAIN s] = f[Len(s)]
  BY <1>6, FoldTrace
<1>8. ASSUME NEW n \in 0 .. Len(s) - 1 PROVE f[n + 1] = Settled(f[n], s[n + 1])
  <2>1. s[n + 1] \in D /\ n \in 0 .. Len(s) BY <1>8
  <2>2. f[n] \in Good BY <1>7, <2>1 DEF Trace
  <2>3. f[n + 1] = g[<<f[n], s[n + 1]>>] BY <1>7 DEF Trace
  <2>. QED BY <2>1, <2>2, <2>3 DEF g
<1>9. f \in [0 .. Len(s) -> Good] /\ f[0] = x /\ SettleAll(x, s) = f[Len(s)]
  BY <1>5, <1>7 DEF Trace
<1>. QED BY <1>8, <1>9 DEF SettledSteps

OfferSteps(f, x, s, Good, tiles) ==
    /\ f \in [0 .. Len(s) -> Good] /\ f[0] = x /\ OfferAll(x, s, tiles) = f[Len(s)]
    /\ \A n \in 0 .. Len(s) - 1 : f[n + 1] = Offer(f[n], s[n + 1], tiles)

LEMMA OfferFold ==
    ASSUME NEW D, NEW s \in Seq(D), NEW Good, NEW x \in Good, NEW tiles,
           \A y \in Good : \A d \in D : Offer(y, d, tiles) \in Good
    PROVE  \E f : OfferSteps(f, x, s, Good, tiles)
<1>. DEFINE g == [p \in Good \X D |-> Offer(p[1], p[2], tiles)]
            Step(h, t) == IF t = {} THEN x ELSE Offer(h[t \ {Max(t)}], s[Max(t)], tiles)
<1>1. g \in [Good \X D -> Good]
  OBVIOUS
<1>2. PICK i : i = [t \in SUBSET DOMAIN s |-> i[t]] /\ Folds(i, g, x, s, Good)
  BY <1>1, FoldExists
<1>3. \A t \in SUBSET DOMAIN s : i[t] = Step(i, t)
  BY <1>2, Indices DEF Folds, FoldsTo
<1>4. \E h : h = [t \in SUBSET DOMAIN s |-> Step(h, t)]
  <2>. HIDE DEF Step
  <2>. QED BY <1>2, <1>3
<1>5. PICK h : /\ h = [t \in SUBSET DOMAIN s |-> Step(h, t)]
               /\ OfferAll(x, s, tiles) = h[DOMAIN s]
  BY <1>4 DEF OfferAll, FoldLeft, MapThenFoldSet
<1>6. Follows(h, g, x, s, D, Good)
  <2>1. h[{}] = x BY <1>5
  <2>2. ASSUME NEW t \in SUBSET DOMAIN s, t # {}, h[t \ {Max(t)}] \in Good
        PROVE  h[t] = g[<<h[t \ {Max(t)}], s[Max(t)]>>]
    BY <1>5, <2>2, Indices
  <2>. HIDE DEF g, Step
  <2>. QED BY <1>1, <2>1, <2>2 DEF Follows
<1>. HIDE DEF g
<1>7. PICK f : Trace(f, g, x, s, Good) /\ h[DOMAIN s] = f[Len(s)]
  BY <1>6, FoldTrace
<1>8. ASSUME NEW n \in 0 .. Len(s) - 1 PROVE f[n + 1] = Offer(f[n], s[n + 1], tiles)
  <2>1. s[n + 1] \in D /\ n \in 0 .. Len(s) BY <1>8
  <2>2. f[n] \in Good BY <1>7, <2>1 DEF Trace
  <2>3. f[n + 1] = g[<<f[n], s[n + 1]>>] BY <1>7 DEF Trace
  <2>. QED BY <2>1, <2>2, <2>3 DEF g
<1>9. f \in [0 .. Len(s) -> Good] /\ f[0] = x /\ OfferAll(x, s, tiles) = f[Len(s)]
  BY <1>5, <1>7 DEF Trace
<1>. QED BY <1>8, <1>9 DEF OfferSteps

RotateSteps(f, x, s, Good) ==
    /\ f \in [0 .. Len(s) -> Good] /\ f[0] = x /\ RotateAll(x, s) = f[Len(s)]
    /\ \A n \in 0 .. Len(s) - 1 : f[n + 1] = Rotate(Write(f[n], s[n + 1], NoReceipt), s[n + 1])

LEMMA RotateFold ==
    ASSUME NEW D, NEW s \in Seq(D), NEW Good, NEW x \in Good,
           \A y \in Good : \A d \in D : Rotate(Write(y, d, NoReceipt), d) \in Good
    PROVE  \E f : RotateSteps(f, x, s, Good)
<1>. DEFINE g == [p \in Good \X D |-> Rotate(Write(p[1], p[2], NoReceipt), p[2])]
            Step(h, t) == IF t = {} THEN x ELSE Rotate(Write(h[t \ {Max(t)}], s[Max(t)], NoReceipt), s[Max(t)])
<1>1. g \in [Good \X D -> Good]
  OBVIOUS
<1>2. PICK i : i = [t \in SUBSET DOMAIN s |-> i[t]] /\ Folds(i, g, x, s, Good)
  BY <1>1, FoldExists
<1>3. \A t \in SUBSET DOMAIN s : i[t] = Step(i, t)
  BY <1>2, Indices DEF Folds, FoldsTo
<1>4. \E h : h = [t \in SUBSET DOMAIN s |-> Step(h, t)]
  <2>. HIDE DEF Step
  <2>. QED BY <1>2, <1>3
<1>5. PICK h : /\ h = [t \in SUBSET DOMAIN s |-> Step(h, t)]
               /\ RotateAll(x, s) = h[DOMAIN s]
  BY <1>4 DEF RotateAll, FoldLeft, MapThenFoldSet
<1>6. Follows(h, g, x, s, D, Good)
  <2>1. h[{}] = x BY <1>5
  <2>2. ASSUME NEW t \in SUBSET DOMAIN s, t # {}, h[t \ {Max(t)}] \in Good
        PROVE  h[t] = g[<<h[t \ {Max(t)}], s[Max(t)]>>]
    BY <1>5, <2>2, Indices
  <2>. HIDE DEF g, Step
  <2>. QED BY <1>1, <2>1, <2>2 DEF Follows
<1>. HIDE DEF g
<1>7. PICK f : Trace(f, g, x, s, Good) /\ h[DOMAIN s] = f[Len(s)]
  BY <1>6, FoldTrace
<1>8. ASSUME NEW n \in 0 .. Len(s) - 1 PROVE f[n + 1] = Rotate(Write(f[n], s[n + 1], NoReceipt), s[n + 1])
  <2>1. s[n + 1] \in D /\ n \in 0 .. Len(s) BY <1>8
  <2>2. f[n] \in Good BY <1>7, <2>1 DEF Trace
  <2>3. f[n + 1] = g[<<f[n], s[n + 1]>>] BY <1>7 DEF Trace
  <2>. QED BY <2>1, <2>2, <2>3 DEF g
<1>9. f \in [0 .. Len(s) -> Good] /\ f[0] = x /\ RotateAll(x, s) = f[Len(s)]
  BY <1>5, <1>7 DEF Trace
<1>. QED BY <1>8, <1>9 DEF RotateSteps

PutSteps(f, x, s, Good, put) ==
    /\ f \in [0 .. Len(s) -> Good] /\ f[0] = x /\ PutAll(x, s, put) = f[Len(s)]
    /\ \A n \in 0 .. Len(s) - 1 : f[n + 1] = PutSettled(f[n], s[n + 1], put)

LEMMA PutFold ==
    ASSUME NEW D, NEW s \in Seq(D), NEW Good, NEW x \in Good, NEW put,
           \A y \in Good : \A d \in D : PutSettled(y, d, put) \in Good
    PROVE  \E f : PutSteps(f, x, s, Good, put)
<1>. DEFINE g == [p \in Good \X D |-> PutSettled(p[1], p[2], put)]
            Step(h, t) == IF t = {} THEN x ELSE PutSettled(h[t \ {Max(t)}], s[Max(t)], put)
<1>1. g \in [Good \X D -> Good]
  OBVIOUS
<1>2. PICK i : i = [t \in SUBSET DOMAIN s |-> i[t]] /\ Folds(i, g, x, s, Good)
  BY <1>1, FoldExists
<1>3. \A t \in SUBSET DOMAIN s : i[t] = Step(i, t)
  BY <1>2, Indices DEF Folds, FoldsTo
<1>4. \E h : h = [t \in SUBSET DOMAIN s |-> Step(h, t)]
  <2>. HIDE DEF Step
  <2>. QED BY <1>2, <1>3
<1>5. PICK h : /\ h = [t \in SUBSET DOMAIN s |-> Step(h, t)]
               /\ PutAll(x, s, put) = h[DOMAIN s]
  BY <1>4 DEF PutAll, FoldLeft, MapThenFoldSet
<1>6. Follows(h, g, x, s, D, Good)
  <2>1. h[{}] = x BY <1>5
  <2>2. ASSUME NEW t \in SUBSET DOMAIN s, t # {}, h[t \ {Max(t)}] \in Good
        PROVE  h[t] = g[<<h[t \ {Max(t)}], s[Max(t)]>>]
    BY <1>5, <2>2, Indices
  <2>. HIDE DEF g, Step
  <2>. QED BY <1>1, <2>1, <2>2 DEF Follows
<1>. HIDE DEF g
<1>7. PICK f : Trace(f, g, x, s, Good) /\ h[DOMAIN s] = f[Len(s)]
  BY <1>6, FoldTrace
<1>8. ASSUME NEW n \in 0 .. Len(s) - 1 PROVE f[n + 1] = PutSettled(f[n], s[n + 1], put)
  <2>1. s[n + 1] \in D /\ n \in 0 .. Len(s) BY <1>8
  <2>2. f[n] \in Good BY <1>7, <2>1 DEF Trace
  <2>3. f[n + 1] = g[<<f[n], s[n + 1]>>] BY <1>7 DEF Trace
  <2>. QED BY <2>1, <2>2, <2>3 DEF g
<1>9. f \in [0 .. Len(s) -> Good] /\ f[0] = x /\ PutAll(x, s, put) = f[Len(s)]
  BY <1>5, <1>7 DEF Trace
<1>. QED BY <1>8, <1>9 DEF PutSteps

LEMMA ReplayIsOffer ==
    ASSUME NEW x, NEW tiles
    PROVE  Replay(x, tiles) =
               OfferAll(x, recent \o Among(IF Current(x.heldFor) THEN x.held ELSE <<>>,
                                           Delivery \ ToSet(recent)), tiles)
BY DEF Replay, OfferAll

LEMMA PutOffIs == PutOff = RotateAll(outbox, flush.todo)
BY DEF PutOff, RotateAll

LEMMA PutsEndIs ==
  ASSUME PutsEnd
  PROVE \E put \in SUBSET {d \in ToSet(flush.todo) : flush.verdict[d] = "wanted"} :
         LET t == PutAll([x |-> outbox, retry |-> FALSE, now |-> flush.now], flush.todo, put)
         IN  End(t.x, t.retry, t.now)
BY DEF PutsEnd, PutAll, PutSettled

-----------------------------------------------------------------------------
(* Lists without repetition.                                               *)

Lists(D) == {s \in Seq(D) : \A i, j \in DOMAIN s : s[i] = s[j] => i = j}

LEMMA ListIsListed ==
    ASSUME NEW D, NEW s \in Lists(D)
    PROVE  /\ s \in Seq(D) /\ s \in Seq(ToSet(s)) /\ s \in Lists(ToSet(s)) /\ ToSet(s) \subseteq D
           /\ IsFiniteSet(ToSet(s)) /\ Cardinality(ToSet(s)) = Len(s)
<1>1. s \in Seq(D) /\ DOMAIN s = 1 .. Len(s) /\ Len(s) \in Nat /\ ToSet(s) \subseteq D
  BY DEF Lists, ToSet
<1>2. s \in Seq(ToSet(s)) /\ s \in Lists(ToSet(s))
  BY <1>1 DEF Lists, ToSet
<1>3. s \in Bijection(1 .. Len(s), ToSet(s))
  <2>1. s \in [1 .. Len(s) -> ToSet(s)] BY <1>1, <1>2
  <2>2. \A i, j \in 1 .. Len(s) : s[i] = s[j] => i = j BY <1>1 DEF Lists
  <2>3. \A x \in ToSet(s) : \E i \in 1 .. Len(s) : s[i] = x BY <1>1 DEF ToSet
  <2>. QED BY <2>1, <2>2, <2>3 DEF Bijection, Injection, Surjection, IsInjective
<1>4. IsFiniteSet(1 .. Len(s)) /\ Cardinality(1 .. Len(s)) = Len(s)
  <2>1. Len(s) \in Int /\ (1 > Len(s) => Len(s) = 0) /\ Len(s) - 1 + 1 = Len(s) BY <1>1
  <2>2. 1 \in Int OBVIOUS
  <2>. HIDE <1>1
  <2>. QED BY <2>1, <2>2, FS_Interval
<1>5. ExistsBijection(1 .. Len(s), ToSet(s))
  BY <1>3 DEF ExistsBijection
<1>. QED BY <1>1, <1>2, <1>4, <1>5, FS_Bijection

LEMMA EmptyList ==
    ASSUME NEW D
    PROVE  <<>> \in Lists(D) /\ ToSet(<<>>) = {} /\ \A s \in Lists(D) : s = <<>> <=> ToSet(s) = {}
  BY DEF Lists, ToSet

LEMMA ListIn ==
    ASSUME NEW D, NEW s \in Lists(D), NEW E, ToSet(s) \subseteq E
    PROVE  s \in Lists(E)
  BY DEF Lists, ToSet

LEMMA ListAppend ==
    ASSUME NEW D, NEW s \in Lists(D), NEW d \in D
    PROVE  /\ ToSet(Append(s, d)) = ToSet(s) \cup {d} /\ Append(s, d) \in Seq(D)
           /\ Append(s, d) # <<>>
           /\ d \notin ToSet(s) => Append(s, d) \in Lists(D)
<1>1. s \in Seq(D) /\ DOMAIN s = 1 .. Len(s) /\ Len(s) \in Nat
  BY DEF Lists
<1>. DEFINE t == Append(s, d)
<1>2. /\ t \in Seq(D) /\ DOMAIN t = 1 .. Len(s) + 1 /\ Len(t) = Len(s) + 1
      /\ \A i \in 1 .. Len(s) : t[i] = s[i]
      /\ t[Len(s) + 1] = d
  BY <1>1
<1>. HIDE DEF t
<1>3. ToSet(t) = ToSet(s) \cup {d}
  BY <1>1, <1>2 DEF ToSet
<1>4. t # <<>>
  BY <1>1, <1>2
<1>5. ASSUME d \notin ToSet(s) PROVE t \in Lists(D)
  BY <1>1, <1>2, <1>5 DEF Lists, ToSet
<1>. QED BY <1>2, <1>3, <1>4, <1>5 DEF t

LEMMA ListSub ==
    ASSUME NEW D, NEW s \in Lists(D), NEW m \in Int, NEW n \in Int, m >= 1, n <= Len(s)
    PROVE  /\ SubSeq(s, m, n) \in Lists(D)
           /\ ToSet(SubSeq(s, m, n)) = {s[i] : i \in m .. n}
<1>1. s \in Seq(D) /\ DOMAIN s = 1 .. Len(s) /\ Len(s) \in Nat
  BY DEF Lists
<1>. DEFINE t == SubSeq(s, m, n)
            k == IF m <= n THEN n - m + 1 ELSE 0
<1>2. /\ t \in Seq(D) /\ DOMAIN t = 1 .. k /\ k \in Nat
      /\ \A i \in 1 .. k : t[i] = s[i + m - 1]
  BY <1>1
<1>3. ASSUME NEW i \in 1 .. k, NEW j \in 1 .. k, t[i] = t[j] PROVE i = j
  <2>1. i + m - 1 \in DOMAIN s /\ j + m - 1 \in DOMAIN s BY <1>1
  <2>. HIDE DEF t, k
  <2>. QED BY <1>2, <1>3, <2>1 DEF Lists
<1>4. ToSet(t) \subseteq {s[i] : i \in m .. n}
  BY <1>1, <1>2 DEF ToSet
<1>5. ASSUME NEW i \in m .. n PROVE s[i] \in ToSet(t)
  <2>1. i - m + 1 \in 1 .. k BY <1>1
  <2>2. t[i - m + 1] = s[(i - m + 1) + m - 1] BY <1>2, <2>1
  <2>3. (i - m + 1) + m - 1 = i OBVIOUS
  <2>. HIDE DEF t, k
  <2>. QED BY <1>2, <2>1, <2>2, <2>3 DEF ToSet
<1>. HIDE DEF t, k
<1>6. t \in Lists(D)
  BY <1>2, <1>3 DEF Lists
<1>. QED BY <1>4, <1>5, <1>6 DEF t

LEMMA ListConcat ==
    ASSUME NEW D, NEW s \in Lists(D), NEW t \in Lists(D), ToSet(s) \cap ToSet(t) = {}
    PROVE  s \o t \in Lists(D) /\ ToSet(s \o t) = ToSet(s) \cup ToSet(t)
<1>1. /\ s \in Seq(D) /\ DOMAIN s = 1 .. Len(s) /\ Len(s) \in Nat
      /\ t \in Seq(D) /\ DOMAIN t = 1 .. Len(t) /\ Len(t) \in Nat
  BY DEF Lists
<1>. DEFINE u == s \o t
<1>2. /\ u \in Seq(D) /\ DOMAIN u = 1 .. Len(s) + Len(t)
      /\ \A i \in 1 .. Len(s) : u[i] = s[i]
      /\ \A i \in 1 .. Len(t) : u[Len(s) + i] = t[i]
  BY <1>1
<1>. HIDE DEF u
<1>3. ASSUME NEW i \in DOMAIN u
      PROVE  i \in 1 .. Len(s) \/ (i - Len(s) \in 1 .. Len(t) /\ u[i] = t[i - Len(s)])
  BY <1>1, <1>2
<1>4. ASSUME NEW i \in DOMAIN u, NEW j \in DOMAIN u, u[i] = u[j] PROVE i = j
  <2>1. CASE i \in 1 .. Len(s) /\ j \in 1 .. Len(s)
    BY <1>1, <1>2, <1>4, <2>1 DEF Lists
  <2>2. CASE i \notin 1 .. Len(s) /\ j \notin 1 .. Len(s)
    <3>1. i - Len(s) = j - Len(s) BY <1>1, <1>2, <1>3, <1>4, <2>2 DEF Lists
    <3>. QED BY <1>1, <1>2, <3>1
  <2>3. CASE i \in 1 .. Len(s) /\ j \notin 1 .. Len(s)
    BY <1>1, <1>2, <1>3, <1>4, <2>3 DEF ToSet
  <2>4. CASE i \notin 1 .. Len(s) /\ j \in 1 .. Len(s)
    BY <1>1, <1>2, <1>3, <1>4, <2>4 DEF ToSet
  <2>. QED BY <2>1, <2>2, <2>3, <2>4
<1>5. ToSet(u) \subseteq ToSet(s) \cup ToSet(t)
  BY <1>1, <1>2, <1>3 DEF ToSet
<1>6. ToSet(s) \subseteq ToSet(u)
  BY <1>1, <1>2 DEF ToSet
<1>7. ToSet(t) \subseteq ToSet(u)
  <2>1. \A i \in 1 .. Len(t) : Len(s) + i \in DOMAIN u BY <1>1, <1>2
  <2>. QED BY <1>1, <1>2, <2>1 DEF ToSet
<1>8. u \in Lists(D)
  BY <1>2, <1>4 DEF Lists
<1>. QED BY <1>5, <1>6, <1>7, <1>8 DEF u

LEMMA ListWithout ==
    ASSUME NEW D, NEW s \in Lists(D), NEW d
    PROVE  Without(s, d) \in Lists(D) /\ ToSet(Without(s, d)) = ToSet(s) \ {d}
<1>1. s \in Seq(D) /\ DOMAIN s = 1 .. Len(s) /\ Len(s) \in Nat
  BY DEF Lists
<1>2. CASE d \notin ToSet(s)
  BY <1>2 DEF Without
<1>3. CASE d \in ToSet(s)
  <2>. DEFINE i == Index(s, d)
              a == SubSeq(s, 1, i - 1)
              b == SubSeq(s, i + 1, Len(s))
  <2>1. i \in DOMAIN s /\ s[i] = d
    BY <1>3 DEF Index, ToSet
  <2>2. \A j \in DOMAIN s : s[j] = d => j = i
    BY <2>1 DEF Lists
  <2>3. Without(s, d) = a \o b
    BY <1>3 DEF Without, RemoveAt
  <2>. HIDE DEF i
  <2>4. /\ a \in Lists(D) /\ ToSet(a) = {s[j] : j \in 1 .. i - 1}
        /\ b \in Lists(D) /\ ToSet(b) = {s[j] : j \in i + 1 .. Len(s)}
    <3>1. i - 1 <= Len(s) /\ i + 1 >= 1 /\ i - 1 \in Int /\ i + 1 \in Int BY <1>1, <2>1
    <3>. QED BY <1>1, <3>1, ListSub
  <2>. HIDE DEF a, b
  <2>5. ToSet(a) \cap ToSet(b) = {}
    <3>1. ASSUME NEW j \in 1 .. i - 1, NEW k \in i + 1 .. Len(s), s[j] = s[k] PROVE FALSE
      <4>1. j \in DOMAIN s /\ k \in DOMAIN s /\ j # k BY <1>1, <2>1
      <4>. QED BY <3>1, <4>1 DEF Lists
    <3>. QED BY <2>4, <3>1
  <2>6. a \o b \in Lists(D) /\ ToSet(a \o b) = ToSet(a) \cup ToSet(b)
    BY <2>4, <2>5, ListConcat
  <2>7. ToSet(a) \cup ToSet(b) = {s[j] : j \in DOMAIN s \ {i}}
    BY <1>1, <2>1, <2>4
  <2>8. {s[j] : j \in DOMAIN s \ {i}} = ToSet(s) \ {d}
    BY <2>1, <2>2 DEF ToSet
  <2>. QED BY <2>3, <2>6, <2>7, <2>8
<1>. QED BY <1>2, <1>3

LEMMA AmongTrace ==
    ASSUME NEW D, NEW s \in Seq(D), NEW S
    PROVE  \E f : /\ f \in [0 .. Len(s) -> Seq(D)] /\ f[0] = <<>> /\ Among(s, S) = f[Len(s)]
                  /\ \A n \in 0 .. Len(s) - 1 :
                         f[n + 1] = IF s[n + 1] \in S THEN Append(f[n], s[n + 1]) ELSE f[n]
<1>. DEFINE Good == Seq(D)
            x == <<>>
            g == [p \in Good \X D |-> (IF p[2] \in S THEN Append(p[1], p[2]) ELSE p[1])]
            Step(h, t) == IF t = {} THEN x ELSE (IF s[Max(t)] \in S THEN Append(h[t \ {Max(t)}], s[Max(t)]) ELSE h[t \ {Max(t)}])
<1>1. g \in [Good \X D -> Good] /\ x \in Good
  OBVIOUS
<1>2. PICK i : i = [t \in SUBSET DOMAIN s |-> i[t]] /\ Folds(i, g, x, s, Good)
  BY <1>1, FoldExists
<1>3. \A t \in SUBSET DOMAIN s : i[t] = Step(i, t)
  BY <1>2, Indices DEF Folds, FoldsTo
<1>4. \E h : h = [t \in SUBSET DOMAIN s |-> Step(h, t)]
  <2>. HIDE DEF Step
  <2>. QED BY <1>2, <1>3
<1>5. PICK h : /\ h = [t \in SUBSET DOMAIN s |-> Step(h, t)]
               /\ Among(s, S) = h[DOMAIN s]
  BY <1>4 DEF Among, FoldLeft, MapThenFoldSet
<1>6. Follows(h, g, x, s, D, Good)
  <2>1. h[{}] = x BY <1>5
  <2>2. ASSUME NEW t \in SUBSET DOMAIN s, t # {}, h[t \ {Max(t)}] \in Good
        PROVE  h[t] = g[<<h[t \ {Max(t)}], s[Max(t)]>>]
    BY <1>5, <2>2, Indices
  <2>. HIDE DEF g, Step
  <2>. QED BY <1>1, <2>1, <2>2 DEF Follows
<1>7. PICK f : Trace(f, g, x, s, Good) /\ h[DOMAIN s] = f[Len(s)]
  <2>. HIDE DEF g, x, Good
  <2>. QED BY <1>6, FoldTrace
<1>8. ASSUME NEW n \in 0 .. Len(s) - 1
      PROVE  f[n + 1] = IF s[n + 1] \in S THEN Append(f[n], s[n + 1]) ELSE f[n]
  <2>1. s[n + 1] \in D /\ n \in 0 .. Len(s) BY <1>8
  <2>2. f[n] \in Good BY <1>7, <2>1 DEF Trace
  <2>3. f[n + 1] = g[<<f[n], s[n + 1]>>] BY <1>7 DEF Trace
  <2>. QED BY <2>1, <2>2, <2>3
<1>9. f \in [0 .. Len(s) -> Seq(D)] /\ f[0] = <<>>
  BY <1>7 DEF Trace
<1>. QED BY <1>5, <1>7, <1>8, <1>9

LEMMA ListAmong ==
    ASSUME NEW D, NEW s \in Lists(D), NEW S
    PROVE  Among(s, S) \in Lists(D) /\ ToSet(Among(s, S)) = ToSet(s) \cap S
<1>1. s \in Seq(D) /\ DOMAIN s = 1 .. Len(s) /\ Len(s) \in Nat /\ \A i \in 1 .. Len(s) : s[i] \in D
  BY DEF Lists
<1>2. PICK f : /\ f \in [0 .. Len(s) -> Seq(D)] /\ f[0] = <<>> /\ Among(s, S) = f[Len(s)]
               /\ \A n \in 0 .. Len(s) - 1 :
                      f[n + 1] = IF s[n + 1] \in S THEN Append(f[n], s[n + 1]) ELSE f[n]
  <2>. HIDE <1>1
  <2>1. s \in Seq(D) BY DEF Lists
  <2>. QED BY <2>1, AmongTrace
<1>. DEFINE So(n) == {s[i] : i \in 1 .. n}
            Ok == {n \in 0 .. Len(s) : f[n] \in Lists(D) /\ ToSet(f[n]) = So(n) \cap S}
<1>3. 0 \in Ok
  BY <1>1, <1>2, EmptyList
<1>4. ASSUME NEW n \in 0 .. Len(s) - 1, n \in Ok PROVE n + 1 \in Ok
  <2>. DEFINE d == s[n + 1]
  <2>1. d \in D /\ n + 1 \in DOMAIN s BY <1>1
  <2>2. So(n + 1) = So(n) \cup {d} BY <1>1
  <2>3. d \notin So(n)
    <3>1. ASSUME NEW i \in 1 .. n, s[i] = s[n + 1] PROVE FALSE
      <4>1. i \in DOMAIN s /\ i # n + 1 BY <1>1
      <4>. QED BY <2>1, <3>1, <4>1 DEF Lists
    <3>. QED BY <3>1
  <2>4. f[n] \in Lists(D) /\ ToSet(f[n]) = So(n) \cap S BY <1>4
  <2>5. f[n + 1] = IF d \in S THEN Append(f[n], d) ELSE f[n] BY <1>2
  <2>. HIDE DEF d, So
  <2>6. f[n + 1] \in Lists(D) /\ ToSet(f[n + 1]) = So(n + 1) \cap S
    BY <2>1, <2>2, <2>3, <2>4, <2>5, ListAppend
  <2>. QED BY <1>1, <2>6
<1>5. Len(s) \in Ok
  <2>. HIDE DEF Ok
  <2>. QED BY <1>1, <1>3, <1>4, Upward
<1>6. So(Len(s)) = ToSet(s)
  BY <1>1 DEF ToSet
<1>. QED BY <1>2, <1>5, <1>6

Selects(r, d) ==
    IF Len(r) < MaxOffers /\ \A e \in ToSet(r) : TileOf[e] # TileOf[d] THEN Append(r, d) ELSE r

SelectedSteps(f, x, s, Good) ==
    /\ f \in [0 .. Len(s) -> Good] /\ f[0] = x /\ Selected(s) = f[Len(s)]
    /\ \A n \in 0 .. Len(s) - 1 : f[n + 1] = Selects(f[n], s[n + 1])

LEMMA SelectedFold ==
    ASSUME NEW D, NEW s \in Seq(D), NEW Good, NEW x \in Good, x = <<>>,
           \A y \in Good : \A d \in D : Selects(y, d) \in Good
    PROVE  \E f : SelectedSteps(f, x, s, Good)
<1>. DEFINE g == [p \in Good \X D |-> Selects(p[1], p[2])]
            Step(h, t) == IF t = {} THEN x ELSE Selects(h[t \ {Max(t)}], s[Max(t)])
<1>1. g \in [Good \X D -> Good]
  OBVIOUS
<1>2. PICK i : i = [t \in SUBSET DOMAIN s |-> i[t]] /\ Folds(i, g, x, s, Good)
  BY <1>1, FoldExists
<1>3. \A t \in SUBSET DOMAIN s : i[t] = Step(i, t)
  BY <1>2, Indices DEF Folds, FoldsTo
<1>4. \E h : h = [t \in SUBSET DOMAIN s |-> Step(h, t)]
  <2>. HIDE DEF Step
  <2>. QED BY <1>2, <1>3
<1>5. PICK h : /\ h = [t \in SUBSET DOMAIN s |-> Step(h, t)]
               /\ Selected(s) = h[DOMAIN s]
  BY <1>4 DEF Selected, Selects, FoldLeft, MapThenFoldSet
<1>6. Follows(h, g, x, s, D, Good)
  <2>1. h[{}] = x BY <1>5
  <2>2. ASSUME NEW t \in SUBSET DOMAIN s, t # {}, h[t \ {Max(t)}] \in Good
        PROVE  h[t] = g[<<h[t \ {Max(t)}], s[Max(t)]>>]
    BY <1>5, <2>2, Indices
  <2>. HIDE DEF g, Step
  <2>. QED BY <1>1, <2>1, <2>2 DEF Follows
<1>. HIDE DEF g
<1>7. PICK f : Trace(f, g, x, s, Good) /\ h[DOMAIN s] = f[Len(s)]
  BY <1>6, FoldTrace
<1>8. ASSUME NEW n \in 0 .. Len(s) - 1 PROVE f[n + 1] = Selects(f[n], s[n + 1])
  <2>1. s[n + 1] \in D /\ n \in 0 .. Len(s) BY <1>8
  <2>2. f[n] \in Good BY <1>7, <2>1 DEF Trace
  <2>3. f[n + 1] = g[<<f[n], s[n + 1]>>] BY <1>7 DEF Trace
  <2>. QED BY <2>1, <2>2, <2>3 DEF g
<1>9. f \in [0 .. Len(s) -> Good] /\ f[0] = x /\ Selected(s) = f[Len(s)]
  BY <1>5, <1>7 DEF Trace
<1>. QED BY <1>8, <1>9 DEF SelectedSteps

LEMMA ListSelected ==
    ASSUME NEW D, NEW s \in Lists(D)
    PROVE  Selected(s) \in Lists(ToSet(s)) /\ Len(Selected(s)) <= MaxOffers
<1>. DEFINE Good == {r \in Lists(ToSet(s)) : Len(r) <= MaxOffers}
            x == <<>>
<1>1. s \in Seq(ToSet(s))
  BY ListIsListed
<1>2. x \in Good
  BY EmptyList, OfferDeliveryAssumption
<1>3. ASSUME NEW r \in Good, NEW d \in ToSet(s)
      PROVE  Selects(r, d) \in Good
  <2>1. CASE Len(r) < MaxOffers /\ \A e \in ToSet(r) : TileOf[e] # TileOf[d]
    <3>1. Append(r, d) \in Lists(ToSet(s)) BY <2>1, ListAppend
    <3>2. Len(Append(r, d)) = Len(r) + 1 /\ Len(r) \in Nat BY DEF Lists
    <3>. QED BY <2>1, <3>1, <3>2, OfferDeliveryAssumption DEF Selects
  <2>2. CASE ~(Len(r) < MaxOffers /\ \A e \in ToSet(r) : TileOf[e] # TileOf[d])
    BY <2>2 DEF Selects
  <2>. QED BY <2>1, <2>2
<1>4. Selected(s) \in Good
  <2>0. Len(s) \in Nat BY <1>1
  <2>. HIDE DEF Good
  <2>1. \A r \in Good : \A d \in ToSet(s) : Selects(r, d) \in Good
    BY <1>3
  <2>2. x = <<>> OBVIOUS
  <2>. HIDE DEF x
  <2>3. PICK f : SelectedSteps(f, x, s, Good)
    BY <1>1, <1>2, <2>1, <2>2, SelectedFold
  <2>. QED BY <2>0, <2>3 DEF SelectedSteps
<1>. QED BY <1>4


-----------------------------------------------------------------------------
(***************************************************************************)
(* The outbox: its type, with deliveries of D, and what the operations on  *)
(* it do.                                                                  *)
(***************************************************************************)
Boxes(D) ==
    [held : Lists(D), heldFor : Owner, attempted : SUBSET D, queue : Lists(D), queueFor : Owner,
     timer : {"none", "soon", "late"}, paced : BOOLEAN,
     receipts : [Delivery -> Receipt], receiptsFor : Owner]
Owners(x) ==
    /\ x.heldFor = NoOwner <=> x.held = <<>>
    /\ x.queueFor = NoOwner <=> x.queue = <<>>
Outboxes(D) == {x \in Boxes(D) : Owners(x)}

\* From x to y no delivery goes but those of E, and none comes.
Less(x, y, E) ==
    /\ ToSet(y.held) \subseteq ToSet(x.held) /\ ToSet(x.held) \ E \subseteq ToSet(y.held)
    /\ y.heldFor \in {x.heldFor, NoOwner}
    /\ y.attempted \subseteq x.attempted /\ x.attempted \ E \subseteq y.attempted
    /\ ToSet(y.queue) \subseteq ToSet(x.queue) /\ ToSet(x.queue) \ E \subseteq ToSet(y.queue)
    /\ ToSet(x.queue) \cap ToSet(y.held) \subseteq ToSet(y.queue)
    /\ y.queueFor \in {x.queueFor, NoOwner}
    /\ y.timer = x.timer /\ y.paced = x.paced
    /\ y.receipts = x.receipts /\ y.receiptsFor = x.receiptsFor

LEMMA LessChains ==
    ASSUME NEW x, NEW y, NEW z, NEW E, NEW F, Less(x, y, E), Less(y, z, F)
    PROVE  Less(x, x, E) /\ Less(x, z, E \cup F)
  BY DEF Less

LEMMA Numbers ==
    /\ MaxOwners \in Nat \ {0} /\ Owner = 0 .. MaxOwners /\ NoOwner = 0 /\ NoOwner \in Owner
    /\ MaxManifests \in Nat \ {0} /\ MaxHeld \in Nat \ {0} /\ MaxOffers \in Nat \ {0}
    /\ MaxRecent \in Nat \ {0} /\ MaxExpiries \in Nat
    /\ IsFiniteSet(Delivery) /\ Delivery \subseteq Nat
  BY OfferDeliveryAssumption, FS_Interval DEF Owner, NoOwner, Delivery

LEMMA ReceiptTyped ==
    /\ NoReceipt \in Receipt /\ ~NoReceipt.live /\ ~NoReceipt.current /\ NoReceipt.state = "none"
    /\ \A state \in {"none", "in-flight", "acknowledged", "rejected"}, asOf \in 0 .. MaxManifests,
          current \in BOOLEAN :
         Live(state, asOf, current) \in Receipt
    /\ Live("acknowledged", 0, FALSE) \in Receipt /\ Live("in-flight", 0, TRUE) \in Receipt
  BY Numbers DEF Receipt, NoReceipt, Live

LEMMA OwnedDoes ==
    ASSUME NEW D, NEW x \in Boxes(D),
           x.held # <<>> => x.heldFor # NoOwner, x.queue # <<>> => x.queueFor # NoOwner
    PROVE  /\ Owned(x) \in Outboxes(D)
           /\ Owned(x).held = x.held /\ Owned(x).queue = x.queue
           /\ Owned(x).heldFor \in {x.heldFor, NoOwner} /\ Owned(x).queueFor \in {x.queueFor, NoOwner}
           /\ Owned(x).attempted = x.attempted
           /\ Owned(x).timer = x.timer /\ Owned(x).paced = x.paced
           /\ Owned(x).receipts = x.receipts /\ Owned(x).receiptsFor = x.receiptsFor
<1>. DEFINE y == Owned(x)
<1>1. /\ y.heldFor = (IF x.held = <<>> THEN NoOwner ELSE x.heldFor)
      /\ y.queueFor = (IF x.queue = <<>> THEN NoOwner ELSE x.queueFor)
      /\ y.held = x.held /\ y.queue = x.queue /\ y.attempted = x.attempted
      /\ y.timer = x.timer /\ y.paced = x.paced
      /\ y.receipts = x.receipts /\ y.receiptsFor = x.receiptsFor
  BY DEF Owned, Boxes
<1>2. y \in Boxes(D)
  BY Numbers DEF Owned, Boxes
<1>. HIDE DEF y
<1>3. Owners(y)
  BY <1>1 DEF Owners
<1>. QED BY <1>1, <1>2, <1>3 DEF y, Outboxes

LEMMA DeleteDoes ==
    ASSUME NEW D, NEW x \in Outboxes(D), NEW d
    PROVE  /\ Delete(x, d) \in Outboxes(D) /\ Less(x, Delete(x, d), {d})
           /\ d \notin ToSet(Delete(x, d).held)
<1>. DEFINE y == [x EXCEPT !.attempted = @ \ {d}, !.held = Without(@, d),
                           !.queue = IF d \in ToSet(x.held) THEN Without(@, d) ELSE @]
<1>1. x \in Boxes(D) /\ x.held \in Lists(D) /\ x.queue \in Lists(D) /\ Owners(x)
  BY DEF Outboxes, Boxes
<1>2. /\ Without(x.held, d) \in Lists(D) /\ ToSet(Without(x.held, d)) = ToSet(x.held) \ {d}
      /\ Without(x.queue, d) \in Lists(D) /\ ToSet(Without(x.queue, d)) = ToSet(x.queue) \ {d}
  BY <1>1, ListWithout
<1>3. y \in Boxes(D)
  BY <1>1, <1>2 DEF Boxes
<1>4. /\ y.held = Without(x.held, d) /\ y.heldFor = x.heldFor /\ y.attempted = x.attempted \ {d}
      /\ y.queue \in {x.queue, Without(x.queue, d)} /\ y.queueFor = x.queueFor
      /\ y.timer = x.timer /\ y.paced = x.paced
      /\ y.receipts = x.receipts /\ y.receiptsFor = x.receiptsFor
  BY <1>1 DEF Boxes
<1>5. Delete(x, d) = Owned(y)
  BY DEF Delete
<1>. HIDE DEF y
<1>6. y.held # <<>> => y.heldFor # NoOwner
  <2>1. x.held = <<>> => y.held = <<>> BY <1>1, <1>2, <1>4, EmptyList
  <2>. QED BY <1>1, <1>4, <2>1 DEF Owners
<1>7. y.queue # <<>> => y.queueFor # NoOwner
  <2>1. x.queue = <<>> => y.queue = <<>> BY <1>1, <1>2, <1>4, EmptyList
  <2>. QED BY <1>1, <1>4, <2>1 DEF Owners
<1>. DEFINE z == Owned(y)
<1>8. /\ z \in Outboxes(D) /\ z.held = y.held /\ z.queue = y.queue
      /\ z.heldFor \in {x.heldFor, NoOwner} /\ z.queueFor \in {x.queueFor, NoOwner}
      /\ z.attempted = y.attempted /\ z.timer = x.timer /\ z.paced = x.paced
      /\ z.receipts = x.receipts /\ z.receiptsFor = x.receiptsFor
  BY <1>3, <1>4, <1>6, <1>7, OwnedDoes
<1>. HIDE DEF z
<1>9. Less(x, z, {d}) /\ d \notin ToSet(z.held)
  BY <1>2, <1>4, <1>8 DEF Less
<1>. QED BY <1>5, <1>8, <1>9 DEF z

LEMMA DeleteAllDoes ==
    ASSUME NEW D, NEW x \in Outboxes(D), NEW E, NEW s \in Seq(E)
    PROVE  /\ DeleteAll(x, s) \in Outboxes(D) /\ Less(x, DeleteAll(x, s), E)
           /\ ToSet(DeleteAll(x, s).held) \cap ToSet(s) = {}
<1>. DEFINE Good == {y \in Outboxes(D) : Less(x, y, E)}
<1>1. x \in Good
  BY DEF Less
<1>2. ASSUME NEW y \in Good, NEW d \in E PROVE Delete(y, d) \in Good
  <2>1. Delete(y, d) \in Outboxes(D) /\ Less(y, Delete(y, d), {d}) BY DeleteDoes
  <2>2. Less(x, Delete(y, d), E \cup {d}) BY <2>1, LessChains
  <2>3. E \cup {d} = E OBVIOUS
  <2>. QED BY <2>1, <2>2, <2>3
<1>3. PICK f : DeleteSteps(f, x, s, Good)
  <2>1. \A y \in Good : \A d \in E : Delete(y, d) \in Good BY <1>2
  <2>. HIDE DEF Good
  <2>. QED BY <1>1, <2>1, DeleteFold
<1>. DEFINE Ok == {n \in 0 .. Len(s) : \A i \in 1 .. n : s[i] \notin ToSet(f[n].held)}
<1>4. Len(s) \in Nat /\ DOMAIN s = 1 .. Len(s)
  OBVIOUS
<1>5. ASSUME NEW n \in 0 .. Len(s) - 1, n \in Ok PROVE n + 1 \in Ok
  <2>1. f[n] \in Outboxes(D) /\ f[n + 1] = Delete(f[n], s[n + 1]) BY <1>3, <1>4 DEF DeleteSteps
  <2>2. Less(f[n], f[n + 1], {s[n + 1]}) /\ s[n + 1] \notin ToSet(f[n + 1].held)
    BY <2>1, DeleteDoes
  <2>3. \A i \in 1 .. n + 1 : i \in 1 .. n \/ i = n + 1 BY <1>4
  <2>4. \A i \in 1 .. n + 1 : s[i] \notin ToSet(f[n + 1].held)
    BY <1>5, <2>2, <2>3 DEF Less
  <2>. QED BY <1>4, <2>4
<1>6. Len(s) \in Ok
  <2>1. 0 \in Ok BY <1>4
  <2>. HIDE DEF Ok
  <2>. QED BY <1>4, <1>5, <2>1, Upward
<1>7. f[Len(s)] \in Good
  BY <1>3, <1>4 DEF DeleteSteps
<1>. QED BY <1>3, <1>4, <1>6, <1>7 DEF ToSet, DeleteSteps

LEMMA ClearHeldDoes ==
    ASSUME NEW D, NEW x \in Outboxes(D)
    PROVE  /\ ClearHeld(x) \in Outboxes(D) /\ Less(x, ClearHeld(x), ToSet(x.held))
           /\ ClearHeld(x).held = <<>> /\ ClearHeld(x).heldFor = NoOwner
<1>. DEFINE y == ClearHeld(x)
<1>1. x.held \in Lists(D)
  BY DEF Outboxes, Boxes
<1>2. x.held \in Seq(ToSet(x.held))
  BY <1>1, ListIsListed
<1>3. /\ y \in Outboxes(D) /\ Less(x, y, ToSet(x.held))
      /\ ToSet(y.held) \cap ToSet(x.held) = {}
  BY <1>2, DeleteAllDoes DEF ClearHeld, DeleteAll
<1>. HIDE DEF y
<1>4. ToSet(y.held) = {}
  BY <1>3 DEF Less
<1>5. y.held \in Lists(D) /\ Owners(y)
  BY <1>3 DEF Outboxes, Boxes
<1>6. y.held = <<>>
  BY <1>4, <1>5, EmptyList
<1>. QED BY <1>3, <1>5, <1>6 DEF y, Owners

LEMMA ClearDoes ==
    ASSUME NEW D, NEW x \in Outboxes(D)
    PROVE  /\ Clear(x) \in Outboxes(D)
           /\ Clear(x).held = <<>> /\ Clear(x).queue = <<>> /\ Clear(x).heldFor = NoOwner
           /\ Clear(x).attempted \subseteq x.attempted
           /\ Clear(x).receipts = x.receipts /\ Clear(x).receiptsFor = x.receiptsFor
<1>. DEFINE y == ClearHeld(x)
            z == [y EXCEPT !.timer = "none", !.queue = <<>>, !.paced = FALSE]
<1>1. y \in Outboxes(D) /\ Less(x, y, ToSet(x.held)) /\ y.held = <<>>
  BY ClearHeldDoes
<1>2. Clear(x) = Owned(z)
  BY DEF Clear
<1>. HIDE DEF y
<1>3. y \in Boxes(D)
  BY <1>1 DEF Outboxes
<1>4. z \in Boxes(D)
  BY <1>3, EmptyList DEF Boxes
<1>5. /\ z.held = y.held /\ z.heldFor = y.heldFor /\ z.attempted = y.attempted /\ z.queue = <<>>
      /\ z.receipts = y.receipts /\ z.receiptsFor = y.receiptsFor
  BY <1>3 DEF Boxes
<1>. HIDE DEF z
<1>. DEFINE w == Owned(z)
<1>6. /\ w \in Outboxes(D) /\ w.held = <<>> /\ w.queue = <<>> /\ w.attempted = y.attempted
      /\ w.receipts = y.receipts /\ w.receiptsFor = y.receiptsFor
  BY <1>1, <1>4, <1>5, OwnedDoes
<1>. HIDE DEF w
<1>7. w.heldFor = NoOwner
  BY <1>6 DEF Outboxes, Owners
<1>. QED BY <1>1, <1>2, <1>6, <1>7 DEF w, Less

LEMMA MinOfTwo ==
    ASSUME NEW a \in Int, NEW b \in Int
    PROVE  Min({a, b}) \in Int /\ Min({a, b}) <= a /\ Min({a, b}) <= b
<1>1. \E x \in {a, b} : \A y \in {a, b} : x <= y
  OBVIOUS
<1>2. Min({a, b}) \in {a, b} /\ \A y \in {a, b} : Min({a, b}) <= y
  BY <1>1 DEF Min
<1>. QED BY <1>2

LEMMA TrimDoes ==
    ASSUME NEW D, NEW x \in Outboxes(D)
    PROVE  Trim(x) \in Outboxes(D) /\ Less(x, Trim(x), x.attempted)
<1>. DEFINE victims == Among(x.held, x.attempted)
            n == Min({Len(victims), Len(x.held) - MaxHeld})
            first == SubSeq(victims, 1, n)
<1>1. x.held \in Lists(D)
  BY DEF Outboxes, Boxes
<1>2. victims \in Lists(D) /\ ToSet(victims) = ToSet(x.held) \cap x.attempted
  BY <1>1, ListAmong
<1>3. Trim(x) = DeleteAll(x, first)
  BY DEF Trim, DeleteAll
<1>. HIDE DEF victims
<1>4. n \in Int /\ n <= Len(victims)
  <2>1. Len(victims) \in Int /\ Len(x.held) - MaxHeld \in Int
    BY <1>1, <1>2, Numbers DEF Lists
  <2>. QED BY <2>1, MinOfTwo
<1>. HIDE DEF n
<1>5. first \in Lists(D) /\ ToSet(first) = {victims[i] : i \in 1 .. n}
  <2>1. 1 \in Int /\ 1 >= 1 OBVIOUS
  <2>2. victims \in Lists(D) BY <1>2
  <2>. HIDE DEF first
  <2>3. SubSeq(victims, 1, n) \in Lists(D) /\ ToSet(SubSeq(victims, 1, n)) = {victims[i] : i \in 1 .. n}
    BY <1>4, <2>1, <2>2, ListSub
  <2>. QED BY <2>3 DEF first
<1>6. {victims[i] : i \in 1 .. n} \subseteq ToSet(victims)
  BY <1>2, <1>4 DEF Lists, ToSet
<1>. HIDE DEF first
<1>7. first \in Seq(x.attempted)
  <2>1. ToSet(first) \subseteq x.attempted BY <1>2, <1>5, <1>6
  <2>2. first \in Lists(x.attempted) BY <1>5, <2>1, ListIn
  <2>. QED BY <2>2 DEF Lists
<1>. QED BY <1>3, <1>7, DeleteAllDoes

\* Another connection than the one before has been made: the connection of
\* the moment has an owner.
Mine(x) == x.heldFor \in {NoOwner, server.owner}

LEMMA RetainDoes ==
    ASSUME NEW D, NEW x \in Outboxes(D), NEW d \in D, server.owner \in Owner \ {NoOwner}
    PROVE  /\ Retain(x, d) \in Outboxes(D)
           /\ ToSet(Retain(x, d).held) = (IF Mine(x) THEN ToSet(x.held) ELSE {}) \cup {d}
           /\ Retain(x, d).heldFor = server.owner
           /\ Mine(x) => /\ Retain(x, d).attempted = x.attempted /\ Retain(x, d).queue = x.queue
                         /\ Retain(x, d).queueFor = x.queueFor
           /\ Retain(x, d).attempted \subseteq x.attempted
           /\ ToSet(Retain(x, d).queue) \subseteq ToSet(x.queue)
           /\ Retain(x, d).queueFor \in {x.queueFor, NoOwner}
           /\ Retain(x, d).timer = x.timer /\ Retain(x, d).paced = x.paced
           /\ Retain(x, d).receipts = x.receipts /\ Retain(x, d).receiptsFor = x.receiptsFor
<1>. DEFINE m == IF Mine(x) THEN x ELSE ClearHeld(x)
            held == IF d \in ToSet(m.held) THEN m.held ELSE Append(m.held, d)
            y == [m EXCEPT !.heldFor = server.owner, !.held = held]
<1>1. Retain(x, d) = y
  BY DEF Retain, Mine
<1>2. /\ m \in Outboxes(D) /\ ToSet(m.held) = (IF Mine(x) THEN ToSet(x.held) ELSE {})
      /\ Mine(x) => m = x
      /\ Less(x, m, ToSet(x.held))
  <2>1. CASE Mine(x)
    BY <2>1 DEF Less
  <2>2. CASE ~Mine(x)
    <3>1. /\ ClearHeld(x) \in Outboxes(D) /\ Less(x, ClearHeld(x), ToSet(x.held))
          /\ ClearHeld(x).held = <<>>
      BY ClearHeldDoes
    <3>. QED BY <2>2, <3>1, EmptyList
  <2>. QED BY <2>1, <2>2
<1>. HIDE DEF m
<1>3. m \in Boxes(D) /\ m.held \in Lists(D) /\ Owners(m)
  BY <1>2 DEF Outboxes, Boxes
<1>4. held \in Lists(D) /\ ToSet(held) = ToSet(m.held) \cup {d} /\ held # <<>>
  <2>1. CASE d \in ToSet(m.held)
    BY <1>3, <2>1, EmptyList
  <2>2. CASE d \notin ToSet(m.held)
    BY <1>3, <2>2, ListAppend
  <2>. QED BY <2>1, <2>2
<1>. HIDE DEF held
<1>5. /\ y.held = held /\ y.heldFor = server.owner /\ y.attempted = m.attempted
      /\ y.queue = m.queue /\ y.queueFor = m.queueFor /\ y.timer = m.timer /\ y.paced = m.paced
      /\ y.receipts = m.receipts /\ y.receiptsFor = m.receiptsFor
  BY <1>3 DEF Boxes
<1>6. y \in Boxes(D)
  BY <1>3, <1>4 DEF Boxes
<1>. HIDE DEF y
<1>7. y \in Outboxes(D)
  BY <1>3, <1>4, <1>5, <1>6 DEF Outboxes, Owners
<1>. QED BY <1>1, <1>2, <1>4, <1>5, <1>7 DEF Less

LEMMA RotateDoes ==
    ASSUME NEW D, NEW x \in Outboxes(D), NEW d
    PROVE  /\ Rotate(x, d) \in Outboxes(D) /\ Less(x, Rotate(x, d), {})
           /\ Rotate(x, d).heldFor = x.heldFor
<1>1. CASE d \notin ToSet(x.held)
  BY <1>1 DEF Rotate, Less
<1>2. CASE d \in ToSet(x.held)
  <2>. DEFINE other == Without(x.held, d)
              held == Append(other, d)
              y == [x EXCEPT !.held = held]
  <2>1. x \in Boxes(D) /\ x.held \in Lists(D) /\ Owners(x)
    BY DEF Outboxes, Boxes
  <2>2. d \in D
    BY <1>2, <2>1, ListIsListed
  <2>3. other \in Lists(D) /\ ToSet(other) = ToSet(x.held) \ {d}
    BY <2>1, ListWithout
  <2>. HIDE DEF other
  <2>4. held \in Lists(D) /\ ToSet(held) = ToSet(x.held) /\ held # <<>>
    <3>1. held \in Lists(D) /\ ToSet(held) = ToSet(other) \cup {d} /\ held # <<>>
      BY <2>2, <2>3, ListAppend
    <3>. QED BY <1>2, <2>3, <3>1
  <2>5. Rotate(x, d) = y
    BY <1>2 DEF Rotate, other
  <2>. HIDE DEF held
  <2>6. /\ y.held = held /\ y.heldFor = x.heldFor /\ y.attempted = x.attempted
        /\ y.queue = x.queue /\ y.queueFor = x.queueFor /\ y.timer = x.timer /\ y.paced = x.paced
        /\ y.receipts = x.receipts /\ y.receiptsFor = x.receiptsFor
    BY <2>1 DEF Boxes
  <2>7. y \in Boxes(D)
    BY <2>1, <2>4 DEF Boxes
  <2>. HIDE DEF y
  <2>8. x.held # <<>>
    BY <1>2, EmptyList
  <2>9. y \in Outboxes(D)
    BY <2>1, <2>4, <2>6, <2>7, <2>8 DEF Outboxes, Owners
  <2>. QED BY <2>4, <2>5, <2>6, <2>9 DEF Less
<1>. QED BY <1>1, <1>2

LEMMA WriteDoes ==
    ASSUME NEW D, NEW x \in Outboxes(D), NEW d, NEW r \in Receipt
    PROVE  /\ Write(x, d, r) \in Outboxes(D) /\ Write(x, d, r).receiptsFor = x.receiptsFor
           /\ Write(x, d, r).held = x.held /\ Write(x, d, r).heldFor = x.heldFor
           /\ Write(x, d, r).attempted = x.attempted
           /\ Write(x, d, r).queue = x.queue /\ Write(x, d, r).queueFor = x.queueFor
           /\ Write(x, d, r).timer = x.timer /\ Write(x, d, r).paced = x.paced
           /\ \A e \in Delivery : Write(x, d, r).receipts[e] =
                 IF e = d /\ x.receiptsFor = flush.owner THEN r ELSE x.receipts[e]
<1>1. CASE x.receiptsFor = flush.owner
  <2>. DEFINE y == [x EXCEPT !.receipts[d] = r]
  <2>1. Write(x, d, r) = y
    BY <1>1 DEF Write
  <2>2. x \in Boxes(D) /\ Owners(x)
    BY DEF Outboxes
  <2>3. /\ y.receiptsFor = x.receiptsFor /\ y.held = x.held /\ y.heldFor = x.heldFor
        /\ y.attempted = x.attempted /\ y.queue = x.queue /\ y.queueFor = x.queueFor
        /\ y.timer = x.timer /\ y.paced = x.paced /\ y.receipts = [x.receipts EXCEPT ![d] = r]
    BY <2>2 DEF Boxes
  <2>4. y \in Boxes(D)
    BY <2>2 DEF Boxes
  <2>5. x.receipts \in [Delivery -> Receipt]
    BY <2>2 DEF Boxes
  <2>. HIDE DEF y
  <2>6. y \in Outboxes(D)
    BY <2>2, <2>3, <2>4 DEF Outboxes, Owners
  <2>. QED BY <1>1, <2>1, <2>3, <2>5, <2>6
<1>2. CASE x.receiptsFor # flush.owner
  BY <1>2 DEF Write
<1>. QED BY <1>1, <1>2

\* What one delivery's receipt says once it is rejected.
Rejected(r, asOf) ==
    IF r.state = "in-flight" /\ ~r.current THEN NoReceipt
    ELSE Live("rejected", asOf, r.state = "in-flight")

LEMMA RejectDoes ==
    ASSUME NEW D, NEW x \in Outboxes(D), NEW d \in Delivery, NEW asOf \in 0 .. MaxManifests
    PROVE  /\ Reject(x, d, asOf) = Write(x, d, Rejected(x.receipts[d], asOf))
           /\ Rejected(x.receipts[d], asOf) \in Receipt
<1>1. x.receipts[d] \in Receipt
  BY DEF Outboxes, Boxes
<1>2. (x.receipts[d].state = "in-flight") \in BOOLEAN
  OBVIOUS
<1>3. Rejected(x.receipts[d], asOf) \in Receipt
  <2>1. Live("rejected", asOf, x.receipts[d].state = "in-flight") \in Receipt
    BY <1>2, ReceiptTyped
  <2>. QED BY <2>1, ReceiptTyped DEF Rejected
<1>4. Reject(x, d, asOf) = Write(x, d, Rejected(x.receipts[d], asOf))
  BY DEF Reject, Rejected, Superseded
<1>. QED BY <1>3, <1>4

LEMMA EnqueueDoes ==
    ASSUME NEW D \in SUBSET Delivery, NEW x \in Outboxes(D), NEW s \in Lists(D), server.owner \in Owner \ {NoOwner}
    PROVE  /\ Enqueue(x, s) \in Outboxes(D)
           /\ Enqueue(x, s).held = x.held /\ Enqueue(x, s).heldFor = x.heldFor
           /\ Enqueue(x, s).attempted = x.attempted
           /\ Enqueue(x, s).timer = x.timer /\ Enqueue(x, s).paced = x.paced
           /\ Enqueue(x, s).receipts = x.receipts /\ Enqueue(x, s).receiptsFor = x.receiptsFor
           /\ ToSet(s) \subseteq ToSet(Enqueue(x, s).queue)
           /\ Enqueue(x, s).queueFor \in {x.queueFor, server.owner}
           /\ s # <<>> => Enqueue(x, s).queueFor = server.owner
           /\ Current(x.queueFor) => /\ ToSet(x.queue) \subseteq ToSet(Enqueue(x, s).queue)
                                     /\ Current(Enqueue(x, s).queueFor)
<1>. DEFINE before == IF Current(x.queueFor) THEN x.queue ELSE <<>>
            new == Among(s, Delivery \ ToSet(before))
            next == before \o new
            y == [x EXCEPT !.queue = next, !.queueFor = server.owner]
<1>1. x \in Boxes(D) /\ x.queue \in Lists(D) /\ Owners(x)
  BY DEF Outboxes, Boxes
<1>2. before \in Lists(D) /\ (Current(x.queueFor) => before = x.queue)
  BY <1>1, EmptyList
<1>3. Enqueue(x, s) = IF next = <<>> THEN x ELSE y
  BY DEF Enqueue
<1>. HIDE DEF before
<1>4. new \in Lists(D) /\ ToSet(new) = ToSet(s) \cap (Delivery \ ToSet(before))
  BY ListAmong
<1>. HIDE DEF new
<1>5. next \in Lists(D) /\ ToSet(next) = ToSet(before) \cup ToSet(new)
  BY <1>2, <1>4, ListConcat
<1>. HIDE DEF next
<1>6. /\ y.queue = next /\ y.queueFor = server.owner /\ y.held = x.held /\ y.heldFor = x.heldFor
      /\ y.attempted = x.attempted /\ y.timer = x.timer /\ y.paced = x.paced
      /\ y.receipts = x.receipts /\ y.receiptsFor = x.receiptsFor
  BY <1>1 DEF Boxes
<1>7. y \in Boxes(D)
  BY <1>1, <1>5 DEF Boxes
<1>. HIDE DEF y
<1>8. ToSet(s) \subseteq ToSet(next) /\ (s # <<>> => next # <<>>)
  <2>1. ToSet(s) \subseteq Delivery
    BY ListIsListed
  <2>2. ToSet(s) \subseteq ToSet(next)
    BY <1>4, <1>5, <2>1
  <2>. QED BY <1>5, <2>2, EmptyList
<1>9. CASE next = <<>>
  <2>1. s = <<>> BY <1>8, <1>9
  <2>. QED BY <1>3, <1>8, <1>9, <2>1, EmptyList
<1>10. CASE next # <<>>
  <2>1. y \in Outboxes(D)
    BY <1>1, <1>6, <1>7, <1>10 DEF Outboxes, Owners
  <2>2. Current(x.queueFor) => ToSet(x.queue) \subseteq ToSet(next) /\ Current(y.queueFor)
    BY <1>2, <1>5, <1>6 DEF Current
  <2>. QED BY <1>3, <1>6, <1>8, <1>10, <2>1, <2>2
<1>. QED BY <1>9, <1>10

LEMMA OwnReceiptsDoes ==
    ASSUME NEW D, NEW x \in Outboxes(D), server.owner \in Owner \ {NoOwner}
    PROVE  /\ OwnReceipts(x) \in Outboxes(D) /\ OwnReceipts(x).receiptsFor = server.owner
           /\ OwnReceipts(x).held = x.held /\ OwnReceipts(x).heldFor = x.heldFor
           /\ OwnReceipts(x).attempted = x.attempted
           /\ OwnReceipts(x).queue = x.queue /\ OwnReceipts(x).queueFor = x.queueFor
           /\ OwnReceipts(x).timer = x.timer /\ OwnReceipts(x).paced = x.paced
           /\ \A e \in Delivery : OwnReceipts(x).receipts[e] =
                 IF x.receiptsFor = server.owner THEN x.receipts[e] ELSE NoReceipt
<1>1. CASE x.receiptsFor = server.owner
  BY <1>1 DEF OwnReceipts
<1>2. CASE x.receiptsFor # server.owner
  <2>. DEFINE none == [d \in Delivery |-> NoReceipt]
              y == [x EXCEPT !.receiptsFor = server.owner, !.receipts = none]
  <2>1. OwnReceipts(x) = y
    BY <1>2 DEF OwnReceipts
  <2>2. x \in Boxes(D) /\ Owners(x)
    BY DEF Outboxes
  <2>3. none \in [Delivery -> Receipt] /\ \A e \in Delivery : none[e] = NoReceipt
    BY ReceiptTyped
  <2>. HIDE DEF none
  <2>4. /\ y.receiptsFor = server.owner /\ y.held = x.held /\ y.heldFor = x.heldFor
        /\ y.attempted = x.attempted /\ y.queue = x.queue /\ y.queueFor = x.queueFor
        /\ y.timer = x.timer /\ y.paced = x.paced /\ y.receipts = none
    BY <2>2 DEF Boxes
  <2>5. y \in Boxes(D)
    BY <2>2, <2>3 DEF Boxes
  <2>. HIDE DEF y
  <2>6. y \in Outboxes(D)
    BY <2>2, <2>4, <2>5 DEF Outboxes, Owners
  <2>. QED BY <1>2, <2>1, <2>3, <2>4, <2>6
<1>. QED BY <1>1, <1>2

LEMMA ScheduleDoes ==
    ASSUME NEW D, NEW x \in Outboxes(D), NEW delay \in {"soon", "late"}
    PROVE  /\ Schedule(x, delay) \in Outboxes(D) /\ Schedule(x, delay).timer # "none"
           /\ Schedule(x, delay).held = x.held /\ Schedule(x, delay).heldFor = x.heldFor
           /\ Schedule(x, delay).attempted = x.attempted
           /\ Schedule(x, delay).queue = x.queue /\ Schedule(x, delay).queueFor = x.queueFor
           /\ Schedule(x, delay).receipts = x.receipts
           /\ Schedule(x, delay).receiptsFor = x.receiptsFor
<1>. DEFINE timer == IF x.timer = "none" \/ delay = "soon" THEN delay ELSE x.timer
            y == [x EXCEPT !.timer = timer]
<1>1. Schedule(x, delay) = y
  BY DEF Schedule
<1>2. x \in Boxes(D) /\ Owners(x)
  BY DEF Outboxes
<1>3. timer \in {"soon", "late"}
  BY <1>2 DEF Boxes
<1>. HIDE DEF timer
<1>4. /\ y.timer = timer /\ y.held = x.held /\ y.heldFor = x.heldFor
      /\ y.attempted = x.attempted /\ y.queue = x.queue /\ y.queueFor = x.queueFor
      /\ y.receipts = x.receipts /\ y.receiptsFor = x.receiptsFor
  BY <1>2 DEF Boxes
<1>5. y \in Boxes(D)
  BY <1>2, <1>3 DEF Boxes
<1>. HIDE DEF y
<1>6. y \in Outboxes(D)
  BY <1>2, <1>4, <1>5 DEF Outboxes, Owners
<1>. QED BY <1>1, <1>3, <1>4, <1>6

\* From x to y receipts are forgotten, each or all for another owner's, and
\* none is written.
Fades(x, y) ==
    /\ y.receiptsFor \in {x.receiptsFor, server.owner}
    /\ \A d \in Delivery :
          y.receipts[d] = NoReceipt \/ (y.receiptsFor = x.receiptsFor /\ y.receipts[d] = x.receipts[d])

\* What is held although a receipt of it decides something.
HeldLive(x) ==
    {d \in ToSet(x.held) :
        x.heldFor = server.owner /\ x.receiptsFor = server.owner /\ x.receipts[d].live}

\* What is held for a connection that covers it, and waits for no flush.
Stuck(x, tiles) ==
    {d \in ToSet(x.held) :
        /\ server.up /\ x.heldFor = server.owner /\ TileOf[d] \in tiles
        /\ ~(x.timer # "none" /\ Current(x.queueFor) /\ d \in ToSet(x.queue))}

\* What offers make of x.
Offered(x, y) ==
    /\ Fades(x, y)
    /\ y.attempted \subseteq x.attempted
    /\ Mine(x) => Mine(y) /\ ToSet(x.held) \ x.attempted \subseteq ToSet(y.held)
    /\ HeldLive(y) \subseteq HeldLive(x)

LEMMA OfferedChains ==
    ASSUME NEW x, NEW y, NEW z, Offered(x, y), Offered(y, z)
    PROVE  Offered(x, z)
<1>1. Fades(x, z)
  BY DEF Offered, Fades
<1>2. Mine(x) => Mine(z) /\ ToSet(x.held) \ x.attempted \subseteq ToSet(z.held)
  BY DEF Offered
<1>. QED BY <1>1, <1>2 DEF Offered

LEMMA OfferedSame ==
    ASSUME NEW x
    PROVE  Offered(x, x)
  BY DEF Offered, Fades

LEMMA ForgetDoes ==
    ASSUME NEW D, NEW x \in Outboxes(D), NEW d \in Delivery
    PROVE  LET y == [x EXCEPT !.receipts[d] = NoReceipt]
           IN  /\ y \in Outboxes(D) /\ y.receiptsFor = x.receiptsFor
               /\ y.held = x.held /\ y.heldFor = x.heldFor /\ y.attempted = x.attempted
               /\ y.queue = x.queue /\ y.queueFor = x.queueFor
               /\ y.timer = x.timer /\ y.paced = x.paced
               /\ \A e \in Delivery :
                     y.receipts[e] = IF e = d THEN NoReceipt ELSE x.receipts[e]
<1>. DEFINE y == [x EXCEPT !.receipts[d] = NoReceipt]
<1>1. x \in Boxes(D) /\ Owners(x)
  BY DEF Outboxes
<1>2. /\ y.receiptsFor = x.receiptsFor /\ y.held = x.held /\ y.heldFor = x.heldFor
      /\ y.attempted = x.attempted /\ y.queue = x.queue /\ y.queueFor = x.queueFor
      /\ y.timer = x.timer /\ y.paced = x.paced /\ y.receipts = [x.receipts EXCEPT ![d] = NoReceipt]
  BY <1>1 DEF Boxes
<1>3. y \in Boxes(D)
  BY <1>1, ReceiptTyped DEF Boxes
<1>4. x.receipts \in [Delivery -> Receipt]
  BY <1>1 DEF Boxes
<1>. HIDE DEF y
<1>5. y \in Outboxes(D)
  BY <1>1, <1>2, <1>3 DEF Outboxes, Owners
<1>. QED BY <1>2, <1>4, <1>5 DEF y

\* The part of Offer that holds d and queues it.
Queued(x, d) == Enqueue(Trim(Retain([OwnReceipts(x) EXCEPT !.receipts[d] = NoReceipt], d)), <<d>>)

LEMMA QueuedDoes ==
    ASSUME NEW D \in SUBSET Delivery, NEW x \in Outboxes(D), NEW d \in D,
           server.owner \in Owner \ {NoOwner}
    PROVE  /\ Queued(x, d) \in Outboxes(D) /\ Offered(x, Queued(x, d))
           /\ d \in ToSet(Queued(x, d).queue) /\ Queued(x, d).queueFor = server.owner
           /\ Queued(x, d).timer = x.timer
           /\ ToSet(Queued(x, d).held) \subseteq (IF Mine(x) THEN ToSet(x.held) ELSE {}) \cup {d}
           /\ Mine(x) /\ Current(x.queueFor) =>
                 ToSet(x.queue) \cap ToSet(Queued(x, d).held) \subseteq ToSet(Queued(x, d).queue)
<1>. DEFINE a == OwnReceipts(x)
            b == [a EXCEPT !.receipts[d] = NoReceipt]
            c == Retain(b, d)
            k == Trim(c)
            y == Enqueue(k, <<d>>)
<1>0. d \in Delivery /\ Queued(x, d) = y
  BY DEF Queued
<1>1. /\ a \in Outboxes(D) /\ a.receiptsFor = server.owner
      /\ a.held = x.held /\ a.heldFor = x.heldFor /\ a.attempted = x.attempted
      /\ a.queue = x.queue /\ a.queueFor = x.queueFor /\ a.timer = x.timer
      /\ \A e \in Delivery :
            a.receipts[e] = IF x.receiptsFor = server.owner THEN x.receipts[e] ELSE NoReceipt
  BY OwnReceiptsDoes
<1>. HIDE DEF a
<1>2. /\ b \in Outboxes(D) /\ b.receiptsFor = server.owner
      /\ b.held = x.held /\ b.heldFor = x.heldFor /\ b.attempted = x.attempted
      /\ b.queue = x.queue /\ b.queueFor = x.queueFor /\ b.timer = x.timer
      /\ \A e \in Delivery : b.receipts[e] = IF e = d THEN NoReceipt ELSE a.receipts[e]
  BY <1>0, <1>1, ForgetDoes
<1>. HIDE DEF b
<1>3. /\ c \in Outboxes(D)
      /\ ToSet(c.held) = (IF Mine(b) THEN ToSet(b.held) ELSE {}) \cup {d}
      /\ c.heldFor = server.owner
      /\ Mine(b) => c.attempted = b.attempted /\ c.queue = b.queue /\ c.queueFor = b.queueFor
      /\ c.attempted \subseteq b.attempted
      /\ c.timer = b.timer /\ c.receipts = b.receipts /\ c.receiptsFor = b.receiptsFor
  <2>1. b \in Outboxes(D) BY <1>2
  <2>. HIDE <1>1, <1>2
  <2>. QED BY <2>1, RetainDoes
<1>. HIDE DEF c
<1>4. k \in Outboxes(D) /\ Less(c, k, c.attempted)
  BY <1>3, TrimDoes
<1>. HIDE DEF k
<1>5. <<d>> \in Lists(D) /\ ToSet(<<d>>) = {d} /\ <<d>> # <<>>
  BY DEF Lists, ToSet
<1>6. /\ y \in Outboxes(D)
      /\ y.held = k.held /\ y.heldFor = k.heldFor /\ y.attempted = k.attempted /\ y.timer = k.timer
      /\ y.receipts = k.receipts /\ y.receiptsFor = k.receiptsFor
      /\ d \in ToSet(y.queue) /\ y.queueFor = server.owner
      /\ Current(k.queueFor) => ToSet(k.queue) \subseteq ToSet(y.queue)
  <2>. DEFINE one == <<d>>
  <2>1. one \in Lists(D) /\ ToSet(one) = {d} /\ one # <<>> BY <1>5
  <2>. HIDE DEF one
  <2>. DEFINE z == Enqueue(k, one)
  <2>2. /\ z \in Outboxes(D)
        /\ z.held = k.held /\ z.heldFor = k.heldFor /\ z.attempted = k.attempted
        /\ z.timer = k.timer /\ z.receipts = k.receipts /\ z.receiptsFor = k.receiptsFor
        /\ ToSet(one) \subseteq ToSet(z.queue) /\ z.queueFor = server.owner
        /\ Current(k.queueFor) => ToSet(k.queue) \subseteq ToSet(z.queue)
    BY <1>4, <2>1, EnqueueDoes
  <2>. HIDE DEF z
  <2>3. d \in ToSet(z.queue) BY <2>1, <2>2
  <2>. QED BY <2>2, <2>3 DEF z, one
<1>. HIDE DEF y
<1>7. Mine(b) <=> Mine(x)
  BY <1>2 DEF Mine
<1>8. Fades(x, y)
  <2>1. y.receiptsFor = server.owner
    BY <1>2, <1>3, <1>4, <1>6 DEF Less
  <2>2. ASSUME NEW e \in Delivery
        PROVE  y.receipts[e] = NoReceipt
               \/ (y.receiptsFor = x.receiptsFor /\ y.receipts[e] = x.receipts[e])
    <3>1. y.receipts[e] = IF e = d THEN NoReceipt ELSE a.receipts[e]
      BY <1>2, <1>3, <1>4, <1>6 DEF Less
    <3>. QED BY <1>1, <2>1, <3>1
  <2>. QED BY <2>1, <2>2 DEF Fades
<1>9. y.attempted \subseteq x.attempted
  BY <1>2, <1>3, <1>4, <1>6 DEF Less
<1>10. ToSet(y.held) \subseteq (IF Mine(x) THEN ToSet(x.held) ELSE {}) \cup {d}
  BY <1>2, <1>3, <1>4, <1>6, <1>7 DEF Less
<1>11. Mine(x) => Mine(y) /\ ToSet(x.held) \ x.attempted \subseteq ToSet(y.held)
  BY <1>2, <1>3, <1>4, <1>6, <1>7 DEF Less, Mine
<1>12. HeldLive(y) \subseteq HeldLive(x)
  <2>1. ASSUME NEW e \in HeldLive(y) PROVE e \in HeldLive(x)
    <3>1. e \in ToSet(y.held) /\ e \in Delivery /\ y.receipts[e].live
      <4>1. y.held \in Lists(D) BY <1>6 DEF Outboxes, Boxes
      <4>2. ToSet(y.held) \subseteq D BY <4>1, ListIsListed
      <4>. QED BY <2>1, <4>2 DEF HeldLive
    <3>2. y.receipts[e] = IF e = d THEN NoReceipt ELSE a.receipts[e]
      BY <1>2, <1>3, <1>4, <1>6, <3>1 DEF Less
    <3>3. e # d /\ x.receiptsFor = server.owner /\ x.receipts[e].live
      BY <1>1, <3>1, <3>2, ReceiptTyped
    <3>4. Mine(x) /\ e \in ToSet(x.held)
      BY <1>10, <3>1, <3>3
    <3>5. x.heldFor = server.owner
      <4>1. x.held # <<>> BY <3>4, EmptyList
      <4>. QED BY <3>4, <4>1 DEF Mine, Outboxes, Owners
    <3>. QED BY <3>3, <3>4, <3>5 DEF HeldLive
  <2>. QED BY <2>1
<1>13. Offered(x, y)
  BY <1>8, <1>9, <1>11, <1>12 DEF Offered
<1>14. Mine(x) /\ Current(x.queueFor) =>
           ToSet(x.queue) \cap ToSet(y.held) \subseteq ToSet(y.queue)
  <2>. SUFFICES ASSUME Mine(x), Current(x.queueFor), NEW e \in ToSet(x.queue) \cap ToSet(y.held)
                PROVE  e \in ToSet(y.queue)
    OBVIOUS
  <2>1. e \in ToSet(k.queue)
    BY <1>2, <1>3, <1>4, <1>6, <1>7 DEF Less
  <2>2. k.queue # <<>> /\ Owners(k)
    BY <1>4, <2>1, EmptyList DEF Outboxes
  <2>3. k.queueFor = x.queueFor
    BY <1>2, <1>3, <1>4, <1>7, <2>2 DEF Less, Owners
  <2>. QED BY <1>6, <2>1, <2>3
<1>. QED BY <1>0, <1>2, <1>3, <1>4, <1>6, <1>10, <1>13, <1>14 DEF Less

LEMMA OfferedLike ==
    ASSUME NEW x, NEW y, NEW z, Offered(x, y),
           z.held = y.held, z.heldFor = y.heldFor, z.attempted = y.attempted,
           z.receipts = y.receipts, z.receiptsFor = y.receiptsFor
    PROVE  Offered(x, z)
  BY DEF Offered, Fades, Mine, HeldLive

LEMMA OfferDoes ==
    ASSUME NEW D \in SUBSET Delivery, NEW x \in Outboxes(D), NEW d \in D, NEW tiles,
           server.owner \in Owner \ {NoOwner}
    PROVE  /\ Offer(x, d, tiles) \in Outboxes(D) /\ Offered(x, Offer(x, d, tiles))
           /\ flush.at = "idle" =>
                 /\ Stuck(Offer(x, d, tiles), tiles) \subseteq Stuck(x, tiles)
                 /\ d \in Stuck(Offer(x, d, tiles), tiles) => d \in HeldLive(x)
<1>. DEFINE a == OwnReceipts(x)
            q == Queued(x, d)
            y == Offer(x, d, tiles)
            delay == IF account = "unknown" /\ q.paced THEN "late" ELSE "soon"
            z == Schedule(q, delay)
<1>0. y = IF TileOf[d] \notin tiles THEN x ELSE IF a.receipts[d].live THEN a
          ELSE IF flush.at # "idle" THEN q ELSE z
  BY DEF Offer, Queued
<1>1. /\ a \in Outboxes(D) /\ a.receiptsFor = server.owner
      /\ a.held = x.held /\ a.heldFor = x.heldFor /\ a.attempted = x.attempted
      /\ a.queue = x.queue /\ a.queueFor = x.queueFor /\ a.timer = x.timer
      /\ \A e \in Delivery :
            a.receipts[e] = IF x.receiptsFor = server.owner THEN x.receipts[e] ELSE NoReceipt
  BY OwnReceiptsDoes
<1>2. /\ q \in Outboxes(D) /\ Offered(x, q)
      /\ d \in ToSet(q.queue) /\ q.queueFor = server.owner /\ q.timer = x.timer
      /\ ToSet(q.held) \subseteq (IF Mine(x) THEN ToSet(x.held) ELSE {}) \cup {d}
      /\ Mine(x) /\ Current(x.queueFor) =>
            ToSet(x.queue) \cap ToSet(q.held) \subseteq ToSet(q.queue)
  BY QueuedDoes
<1>. HIDE DEF a, q
<1>3. delay \in {"soon", "late"}
  OBVIOUS
<1>. HIDE DEF delay
<1>4. /\ z \in Outboxes(D) /\ z.timer # "none"
      /\ z.held = q.held /\ z.heldFor = q.heldFor /\ z.attempted = q.attempted
      /\ z.queue = q.queue /\ z.queueFor = q.queueFor
      /\ z.receipts = q.receipts /\ z.receiptsFor = q.receiptsFor
  BY <1>2, <1>3, ScheduleDoes
<1>. HIDE DEF z, y
<1>5. x.held \in Lists(D) /\ ToSet(x.held) \subseteq Delivery /\ (x.heldFor = NoOwner <=> x.held = <<>>)
  <2>1. x.held \in Lists(D) BY DEF Outboxes, Boxes
  <2>2. ToSet(x.held) \subseteq D BY <2>1, ListIsListed
  <2>. QED BY <2>1, <2>2 DEF Outboxes, Owners
<1>6. CASE TileOf[d] \notin tiles
  <2>1. d \notin Stuck(x, tiles) BY <1>6 DEF Stuck
  <2>. QED BY <1>0, <1>6, <2>1, OfferedSame DEF y
<1>7. CASE TileOf[d] \in tiles /\ a.receipts[d].live
  <2>1. y = a BY <1>0, <1>7
  <2>2. x.receiptsFor = server.owner /\ x.receipts[d].live
    BY <1>1, <1>7, ReceiptTyped
  <2>3. HeldLive(a) = HeldLive(x)
    BY <1>1, <1>5, <2>2 DEF HeldLive
  <2>4. Fades(x, a) /\ (Mine(x) => Mine(a))
    BY <1>1, <2>2 DEF Fades, Mine
  <2>5. Offered(x, a)
    BY <1>1, <2>3, <2>4 DEF Offered
  <2>6. Stuck(a, tiles) = Stuck(x, tiles)
    BY <1>1 DEF Stuck
  <2>7. d \in Stuck(x, tiles) => d \in HeldLive(x)
    BY <2>2 DEF Stuck, HeldLive
  <2>. QED BY <1>1, <2>1, <2>5, <2>6, <2>7 DEF y
<1>8. CASE TileOf[d] \in tiles /\ ~a.receipts[d].live /\ flush.at # "idle"
  BY <1>0, <1>2, <1>8 DEF y
<1>9. CASE TileOf[d] \in tiles /\ ~a.receipts[d].live /\ flush.at = "idle"
  <2>1. y = z BY <1>0, <1>9
  <2>2. Offered(x, z)
    BY <1>2, <1>4, OfferedLike
  <2>3. ASSUME NEW e \in Stuck(z, tiles) PROVE e \in Stuck(x, tiles) /\ e # d
    <3>1. /\ server.up /\ e \in ToSet(q.held) /\ TileOf[e] \in tiles
          /\ e \notin ToSet(q.queue)
      BY <1>2, <1>4, <2>3 DEF Stuck, Current
    <3>2. e # d /\ Mine(x) /\ e \in ToSet(x.held)
      BY <1>2, <3>1
    <3>3. x.heldFor = server.owner
      <4>1. x.held # <<>> BY <3>2, EmptyList
      <4>. QED BY <1>5, <3>2, <4>1 DEF Mine
    <3>4. ~(Current(x.queueFor) /\ e \in ToSet(x.queue))
      BY <1>2, <3>1, <3>2
    <3>. QED BY <3>1, <3>2, <3>3, <3>4 DEF Stuck
  <2>. QED BY <1>4, <2>1, <2>2, <2>3 DEF y
<1>. QED BY <1>6, <1>7, <1>8, <1>9

LEMMA OfferAllDoes ==
    ASSUME NEW D \in SUBSET Delivery, NEW x \in Outboxes(D), NEW s \in Seq(D), NEW tiles,
           server.owner \in Owner \ {NoOwner}
    PROVE  /\ OfferAll(x, s, tiles) \in Outboxes(D) /\ Offered(x, OfferAll(x, s, tiles))
           /\ flush.at = "idle" /\ HeldLive(x) = {} =>
                 Stuck(OfferAll(x, s, tiles), tiles) \subseteq Stuck(x, tiles) \ ToSet(s)
<1>. DEFINE Good == {y \in Outboxes(D) : Offered(x, y)}
<1>1. x \in Good
  BY OfferedSame
<1>2. ASSUME NEW y \in Good, NEW d \in D PROVE Offer(y, d, tiles) \in Good
  <2>. DEFINE z == Offer(y, d, tiles)
  <2>1. z \in Outboxes(D) /\ Offered(y, z) BY OfferDoes
  <2>. HIDE DEF z
  <2>2. Offered(x, z) BY <2>1, OfferedChains
  <2>. QED BY <2>1, <2>2 DEF z
<1>3. PICK f : OfferSteps(f, x, s, Good, tiles)
  <2>1. \A y \in Good : \A d \in D : Offer(y, d, tiles) \in Good BY <1>2
  <2>. HIDE DEF Good
  <2>. QED BY <1>1, <2>1, OfferFold
<1>4. Len(s) \in Nat /\ DOMAIN s = 1 .. Len(s)
  OBVIOUS
<1>5. \A n \in 0 .. Len(s) : f[n] \in Outboxes(D) /\ Offered(x, f[n])
  BY <1>3 DEF OfferSteps
<1>6. ASSUME flush.at = "idle", HeldLive(x) = {}
      PROVE  Stuck(f[Len(s)], tiles) \subseteq Stuck(x, tiles) \ ToSet(s)
  <2>. DEFINE Ok == {n \in 0 .. Len(s) :
                       Stuck(f[n], tiles) \subseteq Stuck(x, tiles) \ {s[i] : i \in 1 .. n}}
  <2>1. 0 \in Ok
    BY <1>3, <1>4 DEF OfferSteps
  <2>2. ASSUME NEW n \in 0 .. Len(s) - 1, n \in Ok PROVE n + 1 \in Ok
    <3>. DEFINE y == f[n]
                d == s[n + 1]
                z == f[n + 1]
    <3>1. n \in 0 .. Len(s) /\ n + 1 \in 0 .. Len(s) /\ d \in D BY <1>4
    <3>2. y \in Outboxes(D) /\ HeldLive(y) = {} BY <1>5, <1>6, <3>1 DEF Offered
    <3>3. z = Offer(y, d, tiles) BY <1>3 DEF OfferSteps
    <3>. HIDE DEF y, d, z
    <3>4. Stuck(z, tiles) \subseteq Stuck(y, tiles) /\ d \notin Stuck(z, tiles)
      BY <1>6, <3>1, <3>2, <3>3, OfferDoes
    <3>5. Stuck(y, tiles) \subseteq Stuck(x, tiles) \ {s[i] : i \in 1 .. n} BY <2>2 DEF y
    <3>6. {s[i] : i \in 1 .. n + 1} \subseteq {s[i] : i \in 1 .. n} \cup {d} BY <1>4 DEF d
    <3>7. Stuck(z, tiles) \subseteq Stuck(x, tiles) \ {s[i] : i \in 1 .. n + 1}
      BY <3>4, <3>5, <3>6
    <3>. QED BY <3>1, <3>7 DEF z
  <2>3. Len(s) \in Ok
    <3>. HIDE DEF Ok
    <3>. QED BY <1>4, <2>1, <2>2, Upward
  <2>4. ToSet(s) = {s[i] : i \in 1 .. Len(s)}
    BY <1>4 DEF ToSet
  <2>. QED BY <2>3, <2>4
<1>7. OfferAll(x, s, tiles) = f[Len(s)]
  BY <1>3 DEF OfferSteps
<1>8. f[Len(s)] \in Outboxes(D) /\ Offered(x, f[Len(s)])
  BY <1>4, <1>5
<1>. HIDE DEF Good
<1>. QED BY <1>6, <1>7, <1>8

LEMMA ReplayDoes ==
    ASSUME NEW D \in SUBSET Delivery, NEW x \in Outboxes(D), NEW tiles, recent \in Lists(D),
           server.owner \in Owner \ {NoOwner}
    PROVE  /\ Replay(x, tiles) \in Outboxes(D) /\ Offered(x, Replay(x, tiles))
           /\ flush.at = "idle" /\ HeldLive(x) = {} => Stuck(Replay(x, tiles), tiles) = {}
<1>. DEFINE mine == IF Current(x.heldFor) THEN x.held ELSE <<>>
            rest == Among(mine, Delivery \ ToSet(recent))
            s == recent \o rest
<1>1. Replay(x, tiles) = OfferAll(x, s, tiles)
  BY DEF Replay, OfferAll
<1>2. x.held \in Lists(D)
  BY DEF Outboxes, Boxes
<1>3. mine \in Lists(D) /\ (Current(x.heldFor) => ToSet(mine) = ToSet(x.held))
  BY <1>2, EmptyList
<1>. HIDE DEF mine
<1>4. rest \in Lists(D) /\ ToSet(rest) = ToSet(mine) \cap (Delivery \ ToSet(recent))
  BY <1>3, ListAmong
<1>. HIDE DEF rest
<1>5. s \in Lists(D) /\ ToSet(s) = ToSet(recent) \cup ToSet(rest)
  BY <1>4, ListConcat
<1>. HIDE DEF s
<1>6. Stuck(x, tiles) \subseteq ToSet(s)
  <2>1. ToSet(x.held) \subseteq Delivery BY <1>2, ListIsListed
  <2>2. Stuck(x, tiles) \subseteq ToSet(x.held) BY DEF Stuck
  <2>3. Stuck(x, tiles) # {} => Current(x.heldFor) BY DEF Stuck, Current
  <2>. QED BY <1>3, <1>4, <1>5, <2>1, <2>2, <2>3
<1>7. s \in Seq(D)
  BY <1>5, ListIsListed
<1>8. /\ OfferAll(x, s, tiles) \in Outboxes(D) /\ Offered(x, OfferAll(x, s, tiles))
      /\ flush.at = "idle" /\ HeldLive(x) = {} =>
            Stuck(OfferAll(x, s, tiles), tiles) \subseteq Stuck(x, tiles) \ ToSet(s)
  BY <1>7, OfferAllDoes
<1>. QED BY <1>1, <1>6, <1>8

-----------------------------------------------------------------------------
(***************************************************************************)
(* Settlements.                                                            *)
(*                                                                         *)
(* Sound is what makes RejectionsCurrent hold: a receipt that was written  *)
(* under the coverage generation of now is no older than the coverage, or, *)
(* while it is in flight, will not be, once the flush has its answer.      *)
(***************************************************************************)
Answered == flush.at \in {"answered", "upload", "puts"}
UpToDate(r) ==
    r.current =>
        /\ r.state = "rejected" => r.asOf >= covers.revision
        /\ r.state = "in-flight" /\ Answered => flush.asOf >= covers.revision
Sound(x) ==
    /\ x.receiptsFor <= server.owner
    /\ x.receiptsFor = server.owner /\ covers.owner = server.owner =>
          \A d \in Delivery : UpToDate(x.receipts[d])

\* From x to y some deliveries of E are settled.
Settles(x, y, E) ==
    /\ y.attempted \subseteq x.attempted
    /\ Mine(x) => Mine(y) /\ (ToSet(x.held) \ x.attempted) \ E \subseteq ToSet(y.held)
    /\ ~share => ToSet(y.held) \subseteq ToSet(x.held)
    /\ HeldLive(y) \subseteq HeldLive(x)
    /\ Sound(x) => Sound(y)

\* What the flush leaves of a delivery when it is done with it.
Handled(x, d) == flush.owner = server.owner => d \notin HeldLive(x)
Forgotten(x, d) ==
    x.receiptsFor = server.owner /\ flush.owner = server.owner => ~x.receipts[d].live

LEMMA SettlesChains ==
    ASSUME NEW x, NEW y, NEW z, NEW E, NEW F, Settles(x, y, E), Settles(y, z, F)
    PROVE  Settles(x, z, E \cup F)
<1>1. Mine(x) => Mine(z) /\ (ToSet(x.held) \ x.attempted) \ (E \cup F) \subseteq ToSet(z.held)
  BY DEF Settles
<1>. QED BY <1>1 DEF Settles

LEMMA SettlesMore ==
    ASSUME NEW x, NEW y, NEW E, NEW F, Settles(x, y, E), E \subseteq F
    PROVE  Settles(x, y, F)
  BY DEF Settles

LEMMA SettlesSame ==
    ASSUME NEW x, NEW E
    PROVE  Settles(x, x, E)
  BY DEF Settles

LEMMA HandledStays ==
    ASSUME NEW x, NEW y, NEW E, NEW d, Settles(x, y, E), Handled(x, d)
    PROVE  Handled(y, d)
  BY DEF Settles, Handled

LEMMA FadesSound ==
    ASSUME NEW D, NEW x \in Outboxes(D), NEW y, Fades(x, y), Sound(x),
           server.owner \in Owner \ {NoOwner}
    PROVE  Sound(y)
<1>1. y.receiptsFor <= server.owner
  BY Numbers DEF Fades, Sound
<1>2. UpToDate(NoReceipt)
  BY ReceiptTyped DEF UpToDate
<1>. QED BY <1>1, <1>2 DEF Fades, Sound

LEMMA LessSettles ==
    ASSUME NEW D, NEW x \in Outboxes(D), NEW y, NEW E, Less(x, y, E),
           server.owner \in Owner \ {NoOwner}
    PROVE  Settles(x, y, E)
<1>1. HeldLive(y) \subseteq HeldLive(x)
  BY DEF HeldLive, Less
<1>2. Mine(x) => Mine(y) /\ (ToSet(x.held) \ x.attempted) \ E \subseteq ToSet(y.held)
  BY DEF Mine, Less
<1>3. Sound(x) => Sound(y)
  BY DEF Sound, Less
<1>. QED BY <1>1, <1>2, <1>3 DEF Settles, Less

LEMMA OfferedSettles ==
    ASSUME NEW D, NEW x \in Outboxes(D), NEW y, NEW E, Offered(x, y), share,
           server.owner \in Owner \ {NoOwner}
    PROVE  Settles(x, y, E)
<1>1. Sound(x) => Sound(y)
  BY FadesSound DEF Offered
<1>. QED BY <1>1 DEF Offered, Settles

LEMMA WriteSound ==
    ASSUME NEW D, NEW x \in Outboxes(D), NEW d, NEW r \in Receipt, UpToDate(r), Sound(x)
    PROVE  Sound(Write(x, d, r))
<1>. DEFINE y == Write(x, d, r)
<1>1. y.receiptsFor = x.receiptsFor
      /\ \A e \in Delivery :
            y.receipts[e] = IF e = d /\ x.receiptsFor = flush.owner THEN r ELSE x.receipts[e]
  BY WriteDoes
<1>. HIDE DEF y
<1>2. Sound(y)
  BY <1>1 DEF Sound
<1>. QED BY <1>2 DEF y

LEMMA ForgottenDoes ==
    ASSUME NEW D \in SUBSET Delivery, NEW x \in Outboxes(D), NEW d \in Delivery
    PROVE  LET y == Write(x, d, NoReceipt)
           IN  y \in Outboxes(D) /\ Settles(x, y, {}) /\ Handled(y, d) /\ Forgotten(y, d)
<1>. DEFINE y == Write(x, d, NoReceipt)
<1>1. /\ y \in Outboxes(D) /\ y.receiptsFor = x.receiptsFor
      /\ y.held = x.held /\ y.heldFor = x.heldFor /\ y.attempted = x.attempted
      /\ \A e \in Delivery : y.receipts[e] =
            IF e = d /\ x.receiptsFor = flush.owner THEN NoReceipt ELSE x.receipts[e]
  BY WriteDoes, ReceiptTyped
<1>2. Sound(x) => Sound(y)
  <2>1. UpToDate(NoReceipt) BY ReceiptTyped DEF UpToDate
  <2>. QED BY <2>1, ReceiptTyped, WriteSound
<1>. HIDE DEF y
<1>3. ToSet(x.held) \subseteq Delivery
  <2>1. x.held \in Lists(D) BY DEF Outboxes, Boxes
  <2>2. ToSet(x.held) \subseteq D BY <2>1, ListIsListed
  <2>. QED BY <2>2
<1>4. HeldLive(y) \subseteq HeldLive(x)
  BY <1>1, <1>3, ReceiptTyped DEF HeldLive
<1>5. Settles(x, y, {})
  BY <1>1, <1>2, <1>4 DEF Settles, Mine
<1>6. Handled(y, d)
  BY <1>1, <1>3, ReceiptTyped DEF Handled, HeldLive
<1>7. Forgotten(y, d)
  BY <1>1, ReceiptTyped DEF Forgotten
<1>. QED BY <1>1, <1>5, <1>6, <1>7 DEF y

\* A receipt is written for what is then no longer held.
LEMMA DecidedDoes ==
    ASSUME NEW D \in SUBSET Delivery, NEW x \in Outboxes(D), NEW d, NEW r \in Receipt,
           Sound(x) => Sound(Write(x, d, r)), server.owner \in Owner \ {NoOwner}
    PROVE  LET y == Delete(Write(x, d, r), d)
           IN  y \in Outboxes(D) /\ Settles(x, y, {d}) /\ Handled(y, d)
<1>. DEFINE w == Write(x, d, r)
            y == Delete(w, d)
<1>1. /\ w \in Outboxes(D) /\ w.receiptsFor = x.receiptsFor
      /\ w.held = x.held /\ w.heldFor = x.heldFor /\ w.attempted = x.attempted
      /\ \A e \in Delivery : w.receipts[e] =
            IF e = d /\ x.receiptsFor = flush.owner THEN r ELSE x.receipts[e]
  BY WriteDoes
<1>2. Sound(x) => Sound(w)
  OBVIOUS
<1>. HIDE DEF w
<1>3. y \in Outboxes(D) /\ Less(w, y, {d}) /\ d \notin ToSet(y.held)
  BY <1>1, DeleteDoes
<1>. HIDE DEF y
<1>4. Settles(w, y, {d})
  BY <1>1, <1>3, LessSettles
<1>5. ToSet(x.held) \subseteq Delivery
  <2>1. x.held \in Lists(D) BY DEF Outboxes, Boxes
  <2>2. ToSet(x.held) \subseteq D BY <2>1, ListIsListed
  <2>. QED BY <2>2
<1>6. HeldLive(y) \subseteq HeldLive(x)
  BY <1>1, <1>3, <1>4, <1>5 DEF Settles, HeldLive
<1>7. Mine(x) => Mine(y) /\ (ToSet(x.held) \ x.attempted) \ {d} \subseteq ToSet(y.held)
  BY <1>1, <1>4 DEF Settles, Mine
<1>8. Settles(x, y, {d})
  BY <1>1, <1>2, <1>4, <1>6, <1>7 DEF Settles
<1>9. Handled(y, d)
  BY <1>3 DEF Handled, HeldLive
<1>. QED BY <1>3, <1>8, <1>9 DEF y, w

LEMMA AcknowledgeDoes ==
    ASSUME NEW D \in SUBSET Delivery, NEW x \in Outboxes(D), NEW d,
           server.owner \in Owner \ {NoOwner}
    PROVE  /\ Acknowledge(x, d) \in Outboxes(D) /\ Settles(x, Acknowledge(x, d), {d})
           /\ Handled(Acknowledge(x, d), d)
<1>. DEFINE r == Live("acknowledged", 0, FALSE)
<1>1. r \in Receipt
  BY ReceiptTyped
<1>2. UpToDate(r)
  BY DEF UpToDate, Live
<1>3. Acknowledge(x, d) = Delete(Write(x, d, r), d)
  BY DEF Acknowledge
<1>. HIDE DEF r
<1>4. Sound(x) => Sound(Write(x, d, r))
  BY <1>1, <1>2, WriteSound
<1>. QED BY <1>1, <1>3, <1>4, DecidedDoes

LEMMA RetryUnsettledDoes ==
    ASSUME NEW D \in SUBSET Delivery, NEW x \in Outboxes(D), NEW d \in D, Forgotten(x, d),
           server.owner \in Owner \ {NoOwner}
    PROVE  /\ RetryUnsettled(x, d) \in Outboxes(D) /\ Settles(x, RetryUnsettled(x, d), {d})
           /\ Handled(RetryUnsettled(x, d), d)
<1>. DEFINE y == RetryUnsettled(x, d)
<1>0. Handled(x, d)
  BY DEF Handled, Forgotten, HeldLive
<1>1. CASE ~share \/ ~Current(flush.owner)
  <2>1. y = x BY <1>1 DEF RetryUnsettled
  <2>. QED BY <1>0, <2>1, SettlesSame
<1>2. CASE share /\ Current(flush.owner) /\ d \notin ToSet(recent)
  <2>1. y = Delete(x, d) BY <1>2 DEF RetryUnsettled
  <2>2. y \in Outboxes(D) /\ Less(x, y, {d}) BY <2>1, DeleteDoes
  <2>. HIDE DEF y
  <2>3. Settles(x, y, {d}) BY <2>2, LessSettles
  <2>4. Handled(y, d) BY <1>0, <2>3, HandledStays
  <2>. QED BY <2>2, <2>3, <2>4 DEF y
<1>3. CASE share /\ Current(flush.owner) /\ d \in ToSet(recent) /\ d \in ToSet(x.held)
  <2>1. y = Rotate(x, d) BY <1>3 DEF RetryUnsettled
  <2>2. y \in Outboxes(D) /\ Less(x, y, {}) BY <2>1, RotateDoes
  <2>. HIDE DEF y
  <2>3. Settles(x, y, {}) BY <2>2, LessSettles
  <2>4. Settles(x, y, {d}) BY <2>3, SettlesMore
  <2>5. Handled(y, d) BY <1>0, <2>3, HandledStays
  <2>. QED BY <2>2, <2>4, <2>5 DEF y
<1>4. CASE share /\ Current(flush.owner) /\ d \in ToSet(recent) /\ d \notin ToSet(x.held)
  <2>1. y = Retain(x, d) BY <1>4 DEF RetryUnsettled
  <2>2. /\ y \in Outboxes(D)
        /\ ToSet(y.held) = (IF Mine(x) THEN ToSet(x.held) ELSE {}) \cup {d}
        /\ y.heldFor = server.owner /\ y.attempted \subseteq x.attempted
        /\ Mine(x) => y.attempted = x.attempted
        /\ y.receipts = x.receipts /\ y.receiptsFor = x.receiptsFor
    BY <2>1, RetainDoes
  <2>. HIDE DEF y
  <2>3. x.heldFor = NoOwner <=> ToSet(x.held) = {}
    <3>1. x.held \in Lists(D) BY DEF Outboxes, Boxes
    <3>2. x.held = <<>> <=> ToSet(x.held) = {} BY <3>1, EmptyList
    <3>. QED BY <3>2 DEF Outboxes, Owners
  <2>4. flush.owner = server.owner
    BY <1>4 DEF Current
  <2>5. d \notin HeldLive(y)
    BY <2>2, <2>4 DEF Forgotten, HeldLive
  <2>6. HeldLive(y) \subseteq HeldLive(x)
    <3>1. ASSUME NEW e \in HeldLive(y) PROVE e \in HeldLive(x)
      <4>1. /\ e \in ToSet(y.held) /\ e # d /\ x.receiptsFor = server.owner
            /\ x.receipts[e].live
        BY <2>2, <2>5, <3>1 DEF HeldLive
      <4>2. Mine(x) /\ e \in ToSet(x.held) BY <2>2, <4>1
      <4>3. x.heldFor = server.owner BY <2>3, <4>2 DEF Mine
      <4>. QED BY <4>1, <4>2, <4>3 DEF HeldLive
    <3>. QED BY <3>1
  <2>7. Settles(x, y, {d})
    BY <1>4, <2>2, <2>6 DEF Settles, Mine, Sound
  <2>8. Handled(y, d)
    BY <2>5 DEF Handled
  <2>. QED BY <2>2, <2>7, <2>8 DEF y
<1>. QED BY <1>1, <1>2, <1>3, <1>4

LEMMA GiveBackDoes ==
    ASSUME NEW D \in SUBSET Delivery, NEW x \in Outboxes(D), NEW d \in D,
           server.owner \in Owner \ {NoOwner}
    PROVE  /\ GiveBack(x, d) \in Outboxes(D) /\ Settles(x, GiveBack(x, d), {d})
           /\ Handled(GiveBack(x, d), d)
<1>. DEFINE w == Write(x, d, NoReceipt)
            y == RetryUnsettled(w, d)
<1>0. GiveBack(x, d) = y /\ d \in Delivery
  BY DEF GiveBack
<1>1. w \in Outboxes(D) /\ Settles(x, w, {}) /\ Forgotten(w, d)
  BY <1>0, ForgottenDoes
<1>. HIDE DEF w
<1>2. y \in Outboxes(D) /\ Settles(w, y, {d}) /\ Handled(y, d)
  BY <1>1, RetryUnsettledDoes
<1>. HIDE DEF y
<1>3. Settles(x, y, {} \cup {d})
  BY <1>1, <1>2, SettlesChains
<1>4. {} \cup {d} = {d}
  OBVIOUS
<1>. QED BY <1>0, <1>2, <1>3, <1>4

\* A rejection by an answer that is as new as the coverage.
Recent(asOf) == asOf \in 0 .. MaxManifests /\ (asOf >= covers.revision \/ (Answered /\ asOf = flush.asOf))

LEMMA RejectSound ==
    ASSUME NEW D, NEW x \in Outboxes(D), NEW d \in Delivery, NEW asOf, Recent(asOf),
           Sound(x), server.owner \in Owner \ {NoOwner}, flush.owner \in Owner
    PROVE  Sound(Reject(x, d, asOf))
<1>. DEFINE r == Rejected(x.receipts[d], asOf)
            y == Write(x, d, r)
<1>1. Reject(x, d, asOf) = y /\ r \in Receipt
  BY RejectDoes DEF Recent
<1>2. y.receiptsFor = x.receiptsFor
      /\ \A e \in Delivery :
            y.receipts[e] = IF e = d /\ x.receiptsFor = flush.owner THEN r ELSE x.receipts[e]
  BY <1>1, WriteDoes
<1>3. ASSUME UpToDate(x.receipts[d]) PROVE UpToDate(r)
  <2>1. CASE x.receipts[d].state = "in-flight" /\ x.receipts[d].current
    <3>1. r = Live("rejected", asOf, TRUE)
      BY <2>1 DEF Rejected
    <3>2. asOf >= covers.revision
      BY <1>3, <2>1 DEF Recent, UpToDate
    <3>. QED BY <3>1, <3>2 DEF UpToDate, Live
  <2>2. CASE ~(x.receipts[d].state = "in-flight" /\ x.receipts[d].current)
    <3>1. ~r.current
      <4>1. CASE x.receipts[d].state = "in-flight"
        BY <2>2, <4>1, ReceiptTyped DEF Rejected
      <4>2. CASE x.receipts[d].state # "in-flight"
        BY <4>2 DEF Rejected, Live
      <4>. QED BY <4>1, <4>2
    <3>. QED BY <3>1 DEF UpToDate
  <2>. QED BY <2>1, <2>2
<1>. HIDE DEF y, r
<1>4. Sound(y)
  BY <1>2, <1>3 DEF Sound
<1>. QED BY <1>1, <1>4

LEMMA RejectedDoes ==
    ASSUME NEW D \in SUBSET Delivery, NEW x \in Outboxes(D), NEW d \in D, NEW asOf, Recent(asOf),
           server.owner \in Owner \ {NoOwner}, flush.owner \in Owner
    PROVE  LET y == Delete(Reject(x, d, asOf), d)
           IN  y \in Outboxes(D) /\ Settles(x, y, {d}) /\ Handled(y, d)
<1>. DEFINE r == Rejected(x.receipts[d], asOf)
<1>1. Reject(x, d, asOf) = Write(x, d, r) /\ r \in Receipt
  BY RejectDoes DEF Recent
<1>2. Sound(x) => Sound(Write(x, d, r))
  BY <1>1, RejectSound
<1>. HIDE DEF r
<1>3. LET y == Delete(Write(x, d, r), d)
      IN  y \in Outboxes(D) /\ Settles(x, y, {d}) /\ Handled(y, d)
  BY <1>1, <1>2, DecidedDoes
<1>. QED BY <1>1, <1>3

\* A rejection that does not stand leaves no receipt.
LEMMA SupersededDoes ==
    ASSUME NEW D \in SUBSET Delivery, NEW x \in Outboxes(D), NEW d \in D, NEW asOf, Recent(asOf),
           ~Stands(x, d), server.owner \in Owner \ {NoOwner}, flush.owner \in Owner
    PROVE  LET y == Reject(x, d, asOf)
           IN  y \in Outboxes(D) /\ Settles(x, y, {}) /\ Handled(y, d)
<1>1. CASE x.receiptsFor # flush.owner
  <2>1. Reject(x, d, asOf) = x BY <1>1 DEF Reject, Write
  <2>2. Handled(x, d) BY <1>1 DEF Handled, HeldLive
  <2>. QED BY <2>1, <2>2, SettlesSame
<1>2. CASE Superseded(x, d)
  <2>1. Reject(x, d, asOf) = Write(x, d, NoReceipt) BY <1>2 DEF Reject
  <2>. QED BY <2>1, ForgottenDoes
<1>. QED BY <1>1, <1>2 DEF Stands

\* A settlement's outbox, retryNeeded and retryImmediately.
States(D) == [x : Outboxes(D), retry : BOOLEAN, now : BOOLEAN]

\* What one settlement of d makes of t.
Settlement(D, t, u, d) == u \in States(D) /\ Settles(t.x, u.x, {d}) /\ Handled(u.x, d)

LEMMA AcknowledgedDoes ==
    ASSUME NEW D \in SUBSET Delivery, NEW t \in States(D), NEW d,
           server.owner \in Owner \ {NoOwner}
    PROVE  Settlement(D, t, [t EXCEPT !.x = Acknowledge(@, d)], d)
<1>. DEFINE y == Acknowledge(t.x, d)
            u == [t EXCEPT !.x = y]
<1>1. t.x \in Outboxes(D)
  BY DEF States
<1>2. y \in Outboxes(D) /\ Settles(t.x, y, {d}) /\ Handled(y, d)
  BY <1>1, AcknowledgeDoes
<1>. HIDE DEF y
<1>3. u \in States(D) /\ u.x = y
  BY <1>2 DEF States
<1>. HIDE DEF u
<1>4. Settlement(D, t, u, d)
  BY <1>2, <1>3 DEF Settlement
<1>. QED BY <1>4 DEF u, y

LEMMA FailedDoes ==
    ASSUME NEW D \in SUBSET Delivery, NEW t \in States(D), NEW d \in D,
           server.owner \in Owner \ {NoOwner}
    PROVE  Settlement(D, t, Failed(t, d), d)
<1>. DEFINE y == GiveBack(t.x, d)
            u == [t EXCEPT !.x = y, !.retry = TRUE]
<1>1. t.x \in Outboxes(D)
  BY DEF States
<1>2. y \in Outboxes(D) /\ Settles(t.x, y, {d}) /\ Handled(y, d)
  BY <1>1, GiveBackDoes
<1>3. Failed(t, d) = u
  BY DEF Failed
<1>. HIDE DEF y
<1>4. u \in States(D) /\ u.x = y
  BY <1>2 DEF States
<1>. HIDE DEF u
<1>5. Settlement(D, t, u, d)
  BY <1>2, <1>4 DEF Settlement
<1>. QED BY <1>3, <1>5

LEMMA RefusedDoes ==
    ASSUME NEW D \in SUBSET Delivery, NEW t \in States(D), NEW d \in D, NEW asOf, Recent(asOf),
           server.owner \in Owner \ {NoOwner}, flush.owner \in Owner
    PROVE  Settlement(D, t, [t EXCEPT !.x = Delete(Reject(@, d, asOf), d)], d)
<1>. DEFINE y == Delete(Reject(t.x, d, asOf), d)
            u == [t EXCEPT !.x = y]
<1>1. t.x \in Outboxes(D)
  BY DEF States
<1>2. y \in Outboxes(D) /\ Settles(t.x, y, {d}) /\ Handled(y, d)
  BY <1>1, RejectedDoes
<1>. HIDE DEF y
<1>3. u \in States(D) /\ u.x = y
  BY <1>2 DEF States
<1>. HIDE DEF u
<1>4. Settlement(D, t, u, d)
  BY <1>2, <1>3 DEF Settlement
<1>. QED BY <1>4 DEF u, y

LEMMA SettledDoes ==
    ASSUME NEW D \in SUBSET Delivery, NEW t \in States(D), NEW d \in D, Recent(flush.asOf),
           server.owner \in Owner \ {NoOwner}, flush.owner \in Owner
    PROVE  Settlement(D, t, Settled(t, d), d)
<1>1. t.x \in Outboxes(D)
  BY DEF States
<1>2. CASE flush.verdict[d] = "acknowledged"
  BY <1>2, AcknowledgedDoes DEF Settled
<1>3. CASE flush.verdict[d] # "acknowledged" /\ Stands(t.x, d)
  BY <1>3, RefusedDoes DEF Settled
<1>4. CASE flush.verdict[d] # "acknowledged" /\ ~Stands(t.x, d)
  <2>. DEFINE w == Reject(t.x, d, flush.asOf)
              o == Offer(w, d, Covered)
              y == IF share THEN o ELSE w
              u == [x |-> y, retry |-> TRUE, now |-> TRUE]
  <2>1. Settled(t, d) = u
    BY <1>4 DEF Settled
  <2>2. w \in Outboxes(D) /\ Settles(t.x, w, {}) /\ Handled(w, d)
    BY <1>1, <1>4, SupersededDoes
  <2>. HIDE DEF w
  <2>3. o \in Outboxes(D) /\ Offered(w, o)
    BY <2>2, OfferDoes
  <2>. HIDE DEF o
  <2>4. ASSUME share PROVE Handled(o, d) /\ Settles(t.x, o, {d})
    <3>1. Settles(w, o, {d}) BY <2>2, <2>3, <2>4, OfferedSettles
    <3>2. Handled(o, d) BY <2>2, <3>1, HandledStays
    <3>3. Settles(t.x, o, {} \cup {d}) BY <2>2, <3>1, SettlesChains
    <3>4. {} \cup {d} = {d} OBVIOUS
    <3>. QED BY <3>2, <3>3, <3>4
  <2>5. Settles(t.x, w, {d})
    BY <2>2, SettlesMore
  <2>6. y \in Outboxes(D) /\ Handled(y, d) /\ Settles(t.x, y, {d})
    BY <2>2, <2>3, <2>4, <2>5
  <2>. HIDE DEF y
  <2>7. u \in States(D) /\ u.x = y
    BY <2>6 DEF States
  <2>. HIDE DEF u
  <2>. QED BY <2>1, <2>6, <2>7 DEF Settlement
<1>. QED BY <1>2, <1>3, <1>4

LEMMA PutSettledDoes ==
    ASSUME NEW D \in SUBSET Delivery, NEW t \in States(D), NEW d \in D, NEW put, Recent(flush.asOf),
           server.owner \in Owner \ {NoOwner}, flush.owner \in Owner
    PROVE  Settlement(D, t, PutSettled(t, d, put), d)
<1>1. CASE d \in put
  BY <1>1, AcknowledgedDoes DEF PutSettled
<1>2. CASE d \notin put /\ flush.verdict[d] = "wanted"
  BY <1>2, FailedDoes DEF PutSettled
<1>3. CASE d \notin put /\ flush.verdict[d] # "wanted"
  BY <1>3, SettledDoes DEF PutSettled
<1>. QED BY <1>1, <1>2, <1>3

\* One after another.
LEMMA AllSettle ==
    ASSUME NEW E, NEW s \in Seq(E), NEW f,
           \A n \in 0 .. Len(s) - 1 :
               Settles(f[n], f[n + 1], {s[n + 1]}) /\ Handled(f[n + 1], s[n + 1])
    PROVE  Settles(f[0], f[Len(s)], E) /\ \A d \in ToSet(s) : Handled(f[Len(s)], d)
<1>. DEFINE Ok == {n \in 0 .. Len(s) :
                     Settles(f[0], f[n], E) /\ \A i \in 1 .. n : Handled(f[n], s[i])}
<1>1. Len(s) \in Nat /\ DOMAIN s = 1 .. Len(s)
  OBVIOUS
<1>2. 0 \in Ok
  BY <1>1, SettlesSame
<1>3. ASSUME NEW n \in 0 .. Len(s) - 1, n \in Ok PROVE n + 1 \in Ok
  <2>1. n + 1 \in 1 .. Len(s) /\ s[n + 1] \in E BY <1>1
  <2>2. Settles(f[n], f[n + 1], E)
    <3>1. Settles(f[n], f[n + 1], {s[n + 1]}) /\ {s[n + 1]} \subseteq E BY <2>1
    <3>. QED BY <3>1, SettlesMore
  <2>3. Settles(f[0], f[n + 1], E)
    <3>1. Settles(f[0], f[n + 1], E \cup E) BY <1>3, <2>2, SettlesChains
    <3>2. E \cup E = E OBVIOUS
    <3>. QED BY <3>1, <3>2
  <2>4. ASSUME NEW i \in 1 .. n + 1 PROVE Handled(f[n + 1], s[i])
    <3>1. CASE i \in 1 .. n
      <4>1. Handled(f[n], s[i]) BY <1>3, <3>1
      <4>. QED BY <2>2, <4>1, HandledStays
    <3>2. CASE i \notin 1 .. n
      <4>1. i = n + 1 BY <1>1, <3>2
      <4>. QED BY <4>1
    <3>. QED BY <3>1, <3>2
  <2>. QED BY <1>1, <2>3, <2>4
<1>4. Len(s) \in Ok
  <2>. HIDE DEF Ok
  <2>. QED BY <1>1, <1>2, <1>3, Upward
<1>. QED BY <1>1, <1>4 DEF ToSet

LEMMA AcknowledgeAllDoes ==
    ASSUME NEW D \in SUBSET Delivery, NEW x \in Outboxes(D), NEW E, NEW s \in Seq(E),
           server.owner \in Owner \ {NoOwner}
    PROVE  LET y == AcknowledgeAll(x, s)
           IN  y \in Outboxes(D) /\ Settles(x, y, E) /\ \A d \in ToSet(s) : Handled(y, d)
<1>. DEFINE Good == Outboxes(D)
<1>1. \A y \in Good : \A d \in E : Acknowledge(y, d) \in Good
  BY AcknowledgeDoes
<1>2. PICK f : AcknowledgeSteps(f, x, s, Good)
  <2>1. x \in Good OBVIOUS
  <2>. HIDE DEF Good
  <2>. QED BY <1>1, <2>1, AcknowledgeFold
<1>3. Len(s) \in Nat
  OBVIOUS
<1>4. ASSUME NEW n \in 0 .. Len(s) - 1
      PROVE  Settles(f[n], f[n + 1], {s[n + 1]}) /\ Handled(f[n + 1], s[n + 1])
  <2>1. n \in 0 .. Len(s) BY <1>3
  <2>2. f[n] \in Outboxes(D) /\ f[n + 1] = Acknowledge(f[n], s[n + 1])
    BY <1>2, <2>1 DEF AcknowledgeSteps
  <2>. QED BY <2>2, AcknowledgeDoes
<1>5. Settles(f[0], f[Len(s)], E) /\ \A d \in ToSet(s) : Handled(f[Len(s)], d)
  BY <1>4, AllSettle
<1>. QED BY <1>2, <1>3, <1>5 DEF AcknowledgeSteps

LEMMA GiveBackAllDoes ==
    ASSUME NEW D \in SUBSET Delivery, NEW x \in Outboxes(D), NEW E \in SUBSET D, NEW s \in Seq(E),
           server.owner \in Owner \ {NoOwner}
    PROVE  LET y == GiveBackAll(x, s)
           IN  y \in Outboxes(D) /\ Settles(x, y, E) /\ \A d \in ToSet(s) : Handled(y, d)
<1>. DEFINE Good == Outboxes(D)
<1>1. \A y \in Good : \A d \in E : GiveBack(y, d) \in Good
  BY GiveBackDoes
<1>2. PICK f : GiveBackSteps(f, x, s, Good)
  <2>1. x \in Good OBVIOUS
  <2>. HIDE DEF Good
  <2>. QED BY <1>1, <2>1, GiveBackFold
<1>3. Len(s) \in Nat
  OBVIOUS
<1>4. ASSUME NEW n \in 0 .. Len(s) - 1
      PROVE  Settles(f[n], f[n + 1], {s[n + 1]}) /\ Handled(f[n + 1], s[n + 1])
  <2>1. n \in 0 .. Len(s) /\ s[n + 1] \in D BY <1>3
  <2>2. f[n] \in Outboxes(D) /\ f[n + 1] = GiveBack(f[n], s[n + 1])
    BY <1>2, <2>1 DEF GiveBackSteps
  <2>. QED BY <2>1, <2>2, GiveBackDoes
<1>5. Settles(f[0], f[Len(s)], E) /\ \A d \in ToSet(s) : Handled(f[Len(s)], d)
  BY <1>4, AllSettle
<1>. QED BY <1>2, <1>3, <1>5 DEF GiveBackSteps

LEMMA PutBackDoes ==
    ASSUME NEW D \in SUBSET Delivery, NEW x \in Outboxes(D), NEW d \in D,
           server.owner \in Owner \ {NoOwner}
    PROVE  LET y == Rotate(Write(x, d, NoReceipt), d)
           IN  y \in Outboxes(D) /\ Settles(x, y, {d}) /\ Handled(y, d)
<1>. DEFINE w == Write(x, d, NoReceipt)
            y == Rotate(w, d)
<1>1. w \in Outboxes(D) /\ Settles(x, w, {}) /\ Handled(w, d)
  <2>1. d \in Delivery OBVIOUS
  <2>. QED BY <2>1, ForgottenDoes
<1>. HIDE DEF w
<1>2. y \in Outboxes(D) /\ Less(w, y, {})
  BY <1>1, RotateDoes
<1>. HIDE DEF y
<1>3. Settles(w, y, {})
  BY <1>1, <1>2, LessSettles
<1>4. Settles(x, y, {} \cup {}) /\ Handled(y, d)
  BY <1>1, <1>3, SettlesChains, HandledStays
<1>5. Settles(x, y, {d})
  BY <1>4, SettlesMore
<1>. QED BY <1>2, <1>4, <1>5 DEF y, w

LEMMA RotateAllDoes ==
    ASSUME NEW D \in SUBSET Delivery, NEW x \in Outboxes(D), NEW E \in SUBSET D, NEW s \in Seq(E),
           server.owner \in Owner \ {NoOwner}
    PROVE  LET y == RotateAll(x, s)
           IN  y \in Outboxes(D) /\ Settles(x, y, E) /\ \A d \in ToSet(s) : Handled(y, d)
<1>. DEFINE Good == Outboxes(D)
<1>1. \A y \in Good : \A d \in E : Rotate(Write(y, d, NoReceipt), d) \in Good
  BY PutBackDoes
<1>2. PICK f : RotateSteps(f, x, s, Good)
  <2>1. x \in Good OBVIOUS
  <2>. HIDE DEF Good
  <2>. QED BY <1>1, <2>1, RotateFold
<1>3. Len(s) \in Nat
  OBVIOUS
<1>4. ASSUME NEW n \in 0 .. Len(s) - 1
      PROVE  Settles(f[n], f[n + 1], {s[n + 1]}) /\ Handled(f[n + 1], s[n + 1])
  <2>1. n \in 0 .. Len(s) /\ s[n + 1] \in D BY <1>3
  <2>2. f[n] \in Outboxes(D) /\ f[n + 1] = Rotate(Write(f[n], s[n + 1], NoReceipt), s[n + 1])
    BY <1>2, <2>1 DEF RotateSteps
  <2>. QED BY <2>1, <2>2, PutBackDoes
<1>5. Settles(f[0], f[Len(s)], E) /\ \A d \in ToSet(s) : Handled(f[Len(s)], d)
  BY <1>4, AllSettle
<1>. QED BY <1>2, <1>3, <1>5 DEF RotateSteps

LEMMA SettleAllDoes ==
    ASSUME NEW D \in SUBSET Delivery, NEW t \in States(D), NEW E \in SUBSET D, NEW s \in Seq(E),
           Recent(flush.asOf), server.owner \in Owner \ {NoOwner}, flush.owner \in Owner
    PROVE  LET u == SettleAll(t, s)
           IN  u \in States(D) /\ Settles(t.x, u.x, E) /\ \A d \in ToSet(s) : Handled(u.x, d)
<1>. DEFINE Good == States(D)
<1>1. \A y \in Good : \A d \in E : Settled(y, d) \in Good
  BY SettledDoes DEF Settlement
<1>2. PICK f : SettledSteps(f, t, s, Good)
  <2>1. t \in Good OBVIOUS
  <2>. HIDE DEF Good
  <2>. QED BY <1>1, <2>1, SettledFold
<1>3. Len(s) \in Nat
  OBVIOUS
<1>. DEFINE h == [n \in 0 .. Len(s) |-> f[n].x]
<1>4. ASSUME NEW n \in 0 .. Len(s) - 1
      PROVE  Settles(h[n], h[n + 1], {s[n + 1]}) /\ Handled(h[n + 1], s[n + 1])
  <2>1. n \in 0 .. Len(s) /\ n + 1 \in 0 .. Len(s) /\ s[n + 1] \in D BY <1>3
  <2>2. f[n] \in States(D) /\ f[n + 1] = Settled(f[n], s[n + 1])
    BY <1>2, <2>1 DEF SettledSteps
  <2>3. Settlement(D, f[n], f[n + 1], s[n + 1]) BY <2>1, <2>2, SettledDoes
  <2>. QED BY <2>1, <2>3 DEF Settlement
<1>5. Settles(h[0], h[Len(s)], E) /\ \A d \in ToSet(s) : Handled(h[Len(s)], d)
  <2>. HIDE DEF h
  <2>. QED BY <1>4, AllSettle
<1>6. h[0] = f[0].x /\ h[Len(s)] = f[Len(s)].x
  BY <1>3
<1>. HIDE DEF h
<1>. QED BY <1>2, <1>3, <1>5, <1>6 DEF SettledSteps

LEMMA PutAllDoes ==
    ASSUME NEW D \in SUBSET Delivery, NEW t \in States(D), NEW E \in SUBSET D, NEW s \in Seq(E), NEW put,
           Recent(flush.asOf), server.owner \in Owner \ {NoOwner}, flush.owner \in Owner
    PROVE  LET u == PutAll(t, s, put)
           IN  u \in States(D) /\ Settles(t.x, u.x, E) /\ \A d \in ToSet(s) : Handled(u.x, d)
<1>. DEFINE Good == States(D)
<1>1. \A y \in Good : \A d \in E : PutSettled(y, d, put) \in Good
  BY PutSettledDoes DEF Settlement
<1>2. PICK f : PutSteps(f, t, s, Good, put)
  <2>1. t \in Good OBVIOUS
  <2>. HIDE DEF Good
  <2>. QED BY <1>1, <2>1, PutFold
<1>3. Len(s) \in Nat
  OBVIOUS
<1>. DEFINE h == [n \in 0 .. Len(s) |-> f[n].x]
<1>4. ASSUME NEW n \in 0 .. Len(s) - 1
      PROVE  Settles(h[n], h[n + 1], {s[n + 1]}) /\ Handled(h[n + 1], s[n + 1])
  <2>1. n \in 0 .. Len(s) /\ n + 1 \in 0 .. Len(s) /\ s[n + 1] \in D BY <1>3
  <2>2. f[n] \in States(D) /\ f[n + 1] = PutSettled(f[n], s[n + 1], put)
    BY <1>2, <2>1 DEF PutSteps
  <2>3. Settlement(D, f[n], f[n + 1], s[n + 1]) BY <2>1, <2>2, PutSettledDoes
  <2>. QED BY <2>1, <2>3 DEF Settlement
<1>5. Settles(h[0], h[Len(s)], E) /\ \A d \in ToSet(s) : Handled(h[Len(s)], d)
  <2>. HIDE DEF h
  <2>. QED BY <1>4, AllSettle
<1>6. h[0] = f[0].x /\ h[Len(s)] = f[Len(s)].x
  BY <1>3
<1>. HIDE DEF h
<1>. QED BY <1>2, <1>3, <1>5, <1>6 DEF PutSteps

-----------------------------------------------------------------------------
(* What a manifest, the start and the end of a flush change.               *)

LEMMA InvalidatedDoes ==
    ASSUME NEW D, NEW x \in Outboxes(D)
    PROVE  /\ Invalidated(x) \in Outboxes(D) /\ Invalidated(x).receiptsFor = x.receiptsFor
           /\ Invalidated(x).held = x.held /\ Invalidated(x).heldFor = x.heldFor
           /\ Invalidated(x).attempted = x.attempted
           /\ \A e \in Delivery :
                 /\ Invalidated(x).receipts[e].live => x.receipts[e].live
                 /\ x.receiptsFor = server.owner => ~Invalidated(x).receipts[e].current
<1>1. CASE x.receiptsFor # server.owner
  BY <1>1 DEF Invalidated
<1>2. CASE x.receiptsFor = server.owner
  <2>. DEFINE r == [d \in Delivery |-> IF x.receipts[d].state = "rejected" THEN NoReceipt
                                      ELSE [x.receipts[d] EXCEPT !.current = FALSE]]
              y == [x EXCEPT !.receipts = r]
  <2>1. x \in Boxes(D) /\ Owners(x) /\ x.receipts \in [Delivery -> Receipt]
    BY DEF Outboxes, Boxes
  <2>2. Invalidated(x) = y
    BY <1>2, <2>1 DEF Invalidated
  <2>3. ASSUME NEW e \in Delivery
        PROVE  r[e] \in Receipt /\ ~r[e].current /\ (r[e].live => x.receipts[e].live)
    <3>1. x.receipts[e] \in Receipt BY <2>1
    <3>2. CASE x.receipts[e].state = "rejected"
      BY <3>2, ReceiptTyped
    <3>3. CASE x.receipts[e].state # "rejected"
      <4>. DEFINE q == [x.receipts[e] EXCEPT !.current = FALSE]
      <4>1. q \in Receipt /\ ~q.current /\ q.live = x.receipts[e].live
        BY <3>1 DEF Receipt
      <4>2. r[e] = q BY <3>3
      <4>. HIDE DEF q, r
      <4>. QED BY <4>1, <4>2
    <3>. QED BY <3>2, <3>3
  <2>4. r \in [Delivery -> Receipt]
    BY <2>3
  <2>. HIDE DEF r
  <2>5. /\ y.receiptsFor = x.receiptsFor /\ y.held = x.held /\ y.heldFor = x.heldFor
        /\ y.attempted = x.attempted /\ y.queue = x.queue /\ y.queueFor = x.queueFor
        /\ y.receipts = r
    BY <2>1 DEF Boxes
  <2>6. y \in Boxes(D)
    BY <2>1, <2>4 DEF Boxes
  <2>. HIDE DEF y
  <2>7. y \in Outboxes(D)
    BY <2>1, <2>5, <2>6 DEF Outboxes, Owners
  <2>. QED BY <2>2, <2>3, <2>5, <2>7
<1>. QED BY <1>1, <1>2

LEMMA CutDoes ==
    ASSUME NEW D \in SUBSET Delivery, NEW x \in Outboxes(D), server.owner \in Owner \ {NoOwner}
    PROVE  /\ Cut(x) \in Outboxes(D)
           /\ Cut(x).receipts = x.receipts /\ Cut(x).receiptsFor = x.receiptsFor
           /\ Cut(x).attempted \subseteq x.attempted
           /\ Mine(x) => Mine(Cut(x))
           /\ ToSet(Cut(x).held) \subseteq ToSet(x.held) /\ HeldLive(Cut(x)) \subseteq HeldLive(x)
           /\ \A d \in ToSet(x.held) :
                 x.heldFor = server.owner /\ TileOf[d] \in served.tiles => d \in ToSet(Cut(x).held)
<1>. DEFINE gone == {d \in ToSet(x.held) : x.heldFor # server.owner \/ TileOf[d] \notin served.tiles}
            s == Among(x.held, gone)
            y == DeleteAll(x, s)
            queue == IF ~Current(y.queueFor) THEN <<>> ELSE Among(y.queue, Of(served.tiles))
            z == [y EXCEPT !.queue = queue]
<1>1. Cut(x) = Owned(z)
  BY DEF Cut, DeleteAll
<1>2. x.held \in Lists(D)
  BY DEF Outboxes, Boxes
<1>3. s \in Lists(D) /\ ToSet(s) = ToSet(x.held) \cap gone
  BY <1>2, ListAmong
<1>4. s \in Seq(gone)
  <2>. HIDE DEF s, gone
  <2>1. s \in Lists(gone) BY <1>3, ListIn
  <2>. QED BY <2>1, ListIsListed
<1>5. y \in Outboxes(D) /\ Less(x, y, gone)
  <2>. HIDE DEF s, gone
  <2>. QED BY <1>4, DeleteAllDoes
<1>6. \A d \in ToSet(x.held) :
        x.heldFor = server.owner /\ TileOf[d] \in served.tiles => d \notin gone
  OBVIOUS
<1>. HIDE DEF y, s, gone
<1>7. y \in Boxes(D) /\ y.queue \in Lists(D) /\ Owners(y)
  BY <1>5 DEF Outboxes, Boxes
<1>8. queue \in Lists(D) /\ (y.queue = <<>> => queue = <<>>)
  <2>1. /\ Among(y.queue, Of(served.tiles)) \in Lists(D)
        /\ ToSet(Among(y.queue, Of(served.tiles))) = ToSet(y.queue) \cap Of(served.tiles)
    BY <1>7, ListAmong
  <2>2. y.queue = <<>> => Among(y.queue, Of(served.tiles)) = <<>>
    BY <1>7, <2>1, EmptyList
  <2>. QED BY <2>1, <2>2, EmptyList
<1>. HIDE DEF queue
<1>9. z \in Boxes(D)
  BY <1>7, <1>8 DEF Boxes
<1>10. /\ z.held = y.held /\ z.heldFor = y.heldFor /\ z.attempted = y.attempted
       /\ z.queue = queue /\ z.queueFor = y.queueFor
       /\ z.receipts = y.receipts /\ z.receiptsFor = y.receiptsFor
  BY <1>7 DEF Boxes
<1>. HIDE DEF z
<1>. DEFINE w == Owned(z)
<1>11. /\ w \in Outboxes(D) /\ w.held = y.held /\ w.heldFor \in {y.heldFor, NoOwner}
       /\ w.attempted = y.attempted /\ w.receipts = y.receipts /\ w.receiptsFor = y.receiptsFor
  <2>1. z.held # <<>> => z.heldFor # NoOwner
    BY <1>7, <1>10 DEF Owners
  <2>2. z.queue # <<>> => z.queueFor # NoOwner
    BY <1>7, <1>8, <1>10 DEF Owners
  <2>. QED BY <1>9, <1>10, <2>1, <2>2, OwnedDoes
<1>. HIDE DEF w
<1>12. HeldLive(w) \subseteq HeldLive(x)
  BY <1>5, <1>11 DEF HeldLive, Less
<1>13. Mine(x) => Mine(w)
  BY <1>5, <1>11 DEF Mine, Less
<1>14. /\ w.receipts = x.receipts /\ w.receiptsFor = x.receiptsFor
       /\ ToSet(w.held) \subseteq ToSet(x.held) /\ w.attempted \subseteq x.attempted
       /\ \A d \in ToSet(x.held) :
             x.heldFor = server.owner /\ TileOf[d] \in served.tiles => d \in ToSet(w.held)
  BY <1>5, <1>6, <1>11 DEF Less
<1>. QED BY <1>1, <1>11, <1>12, <1>13, <1>14 DEF w

LEMMA StartedDoes ==
    ASSUME NEW D, NEW x \in Outboxes(D), NEW todo
    PROVE  /\ Started(x, todo) \in Outboxes(D) /\ Started(x, todo).receiptsFor = x.receiptsFor
           /\ Started(x, todo).held = x.held /\ Started(x, todo).heldFor = x.heldFor
           /\ Started(x, todo).attempted = x.attempted
           /\ \A e \in Delivery : Started(x, todo).receipts[e] =
                 IF e \in ToSet(todo) THEN Live("in-flight", 0, TRUE) ELSE x.receipts[e]
<1>. DEFINE r == [d \in Delivery |-> IF d \in ToSet(todo) THEN Live("in-flight", 0, TRUE)
                                    ELSE x.receipts[d]]
            y == [x EXCEPT !.receipts = r]
<1>1. x \in Boxes(D) /\ Owners(x) /\ x.receipts \in [Delivery -> Receipt]
  BY DEF Outboxes, Boxes
<1>2. Started(x, todo) = y
  BY <1>1 DEF Started
<1>3. r \in [Delivery -> Receipt]
  <2>1. Live("in-flight", 0, TRUE) \in Receipt BY ReceiptTyped
  <2>. QED BY <1>1, <2>1
<1>4. \A e \in Delivery :
          r[e] = IF e \in ToSet(todo) THEN Live("in-flight", 0, TRUE) ELSE x.receipts[e]
  OBVIOUS
<1>. HIDE DEF r
<1>5. /\ y.receiptsFor = x.receiptsFor /\ y.held = x.held /\ y.heldFor = x.heldFor
      /\ y.attempted = x.attempted /\ y.queue = x.queue /\ y.queueFor = x.queueFor
      /\ y.receipts = r
  BY <1>1 DEF Boxes
<1>6. y \in Boxes(D)
  BY <1>1, <1>3 DEF Boxes
<1>. HIDE DEF y
<1>7. y \in Outboxes(D)
  BY <1>1, <1>5, <1>6 DEF Outboxes, Owners
<1>. QED BY <1>2, <1>4, <1>5, <1>7

LEMMA EndedDoes ==
    ASSUME NEW D \in SUBSET Delivery, NEW x \in Outboxes(D), NEW retry, NEW now,
           server.owner \in Owner \ {NoOwner}
    PROVE  /\ Ended(x, retry, now) \in Outboxes(D)
           /\ Ended(x, retry, now).held = x.held /\ Ended(x, retry, now).heldFor = x.heldFor
           /\ Ended(x, retry, now).attempted = x.attempted
           /\ Ended(x, retry, now).receipts = x.receipts
           /\ Ended(x, retry, now).receiptsFor = x.receiptsFor
           /\ share => Stuck(Ended(x, retry, now), Covered) = {}
<1>. DEFINE s == Among(x.held, Of(Covered))
            y == IF share /\ Current(x.heldFor) THEN Enqueue(x, s) ELSE x
            late == IF retry /\ ~now THEN TRUE ELSE FALSE
            delay == IF late THEN "late" ELSE "soon"
            p == [y EXCEPT !.paced = late]
            z == Schedule(p, delay)
<1>1. x.held \in Lists(D) /\ ToSet(x.held) \subseteq Delivery
  <2>1. x.held \in Lists(D) BY DEF Outboxes, Boxes
  <2>2. ToSet(x.held) \subseteq D BY <2>1, ListIsListed
  <2>. QED BY <2>1, <2>2
<1>2. s \in Lists(D) /\ ToSet(s) = ToSet(x.held) \cap Of(Covered)
  BY <1>1, ListAmong
<1>3. Ended(x, retry, now) = IF y.queue = <<>> THEN y ELSE z
  <2>1. (retry /\ ~now) = late
    OBVIOUS
  <2>. QED BY <2>1 DEF Ended
<1>. HIDE DEF s
<1>4. /\ y \in Outboxes(D)
      /\ y.held = x.held /\ y.heldFor = x.heldFor /\ y.attempted = x.attempted
      /\ y.receipts = x.receipts /\ y.receiptsFor = x.receiptsFor
      /\ share /\ Current(x.heldFor) /\ s # <<>> =>
            ToSet(s) \subseteq ToSet(y.queue) /\ y.queueFor = server.owner
  BY <1>2, EnqueueDoes
<1>. HIDE DEF y
<1>5. y \in Boxes(D) /\ Owners(y)
  BY <1>4 DEF Outboxes
<1>6. late \in BOOLEAN /\ delay \in {"soon", "late"}
  OBVIOUS
<1>. HIDE DEF late, delay
<1>7. p \in Boxes(D)
  BY <1>5, <1>6 DEF Boxes
<1>8. /\ p.held = y.held /\ p.heldFor = y.heldFor /\ p.attempted = y.attempted
      /\ p.queue = y.queue /\ p.queueFor = y.queueFor
      /\ p.receipts = y.receipts /\ p.receiptsFor = y.receiptsFor
  BY <1>5 DEF Boxes
<1>. HIDE DEF p
<1>9. p \in Outboxes(D)
  BY <1>5, <1>7, <1>8 DEF Outboxes, Owners
<1>10. /\ z \in Outboxes(D) /\ z.timer # "none"
       /\ z.held = p.held /\ z.heldFor = p.heldFor /\ z.attempted = p.attempted
       /\ z.queue = p.queue /\ z.queueFor = p.queueFor
       /\ z.receipts = p.receipts /\ z.receiptsFor = p.receiptsFor
  BY <1>6, <1>9, ScheduleDoes
<1>. HIDE DEF z
<1>. DEFINE w == IF y.queue = <<>> THEN y ELSE z
<1>11. ASSUME share, NEW d \in Stuck(w, Covered) PROVE FALSE
  <2>1. /\ server.up /\ x.heldFor = server.owner /\ d \in ToSet(x.held) /\ TileOf[d] \in Covered
    BY <1>4, <1>8, <1>10, <1>11 DEF Stuck
  <2>2. d \in ToSet(s)
    BY <1>1, <1>2, <2>1 DEF Of
  <2>3. s # <<>>
    BY <2>2, EmptyList
  <2>4. d \in ToSet(y.queue) /\ y.queueFor = server.owner
    BY <1>4, <1>11, <2>1, <2>2, <2>3 DEF Current
  <2>5. w = z
    BY <2>4, EmptyList
  <2>6. z.timer # "none" /\ Current(z.queueFor) /\ d \in ToSet(z.queue)
    BY <1>8, <1>10, <2>1, <2>4 DEF Current
  <2>. QED BY <1>11, <2>5, <2>6 DEF Stuck
<1>. HIDE DEF w
<1>12. share => Stuck(w, Covered) = {}
  BY <1>11
<1>. QED BY <1>3, <1>4, <1>8, <1>10, <1>12 DEF w

LEMMA MinIn ==
    ASSUME NEW S \in SUBSET Nat, S # {}
    PROVE  Min(S) \in S /\ \A k \in S : Min(S) <= k
<1>1. PICK n \in S : TRUE
  OBVIOUS
<1>2. PICK m \in S : \A k \in S : m <= k
  BY <1>1, LeastNat
<1>. QED BY <1>2 DEF Min

LEMMA RememberedDoes ==
    ASSUME NEW D \in SUBSET Delivery, recent \in Lists(D), Len(recent) <= MaxRecent,
           NEW d \in Delivery \ D
    PROVE  Remembered(d) \in Lists(D \cup {d}) /\ Len(Remembered(d)) <= MaxRecent
<1>. DEFINE E == D \cup {d}
            next == Append(recent, d)
            twice == {e \in ToSet(next) : \E f \in ToSet(next) \ {e} : TileOf[f] = TileOf[e]}
            m == Min(IF twice = {} THEN ToSet(next) ELSE twice)
<1>1. recent \in Lists(E) /\ d \notin ToSet(recent) /\ d \in E
  <2>1. ToSet(recent) \subseteq D BY ListIsListed
  <2>2. ToSet(recent) \subseteq D \cup {d} BY <2>1
  <2>. QED BY <2>1, <2>2, ListIn
<1>2. next \in Lists(E) /\ ToSet(next) = ToSet(recent) \cup {d}
  BY <1>1, ListAppend
<1>3. Len(next) \in Nat /\ Len(next) <= MaxRecent + 1
  BY <1>1, Numbers DEF Lists
<1>4. Remembered(d) = IF Len(next) <= MaxRecent THEN next ELSE Without(next, m)
  BY DEF Remembered
<1>5. m \in ToSet(next)
  <2>1. ToSet(next) \in SUBSET Nat
    <3>1. ToSet(next) \subseteq E BY <1>2, ListIsListed
    <3>. QED BY <3>1, Numbers
  <2>. DEFINE S == IF twice = {} THEN ToSet(next) ELSE twice
  <2>2. S \in SUBSET ToSet(next) /\ S # {} BY <1>2
  <2>. HIDE DEF S
  <2>3. Min(S) \in S
    <3>1. S \in SUBSET Nat BY <2>1, <2>2
    <3>. QED BY <2>2, <3>1, MinIn
  <2>. QED BY <2>2, <2>3 DEF S
<1>. HIDE DEF m, next
<1>. DEFINE rest == Without(next, m)
<1>6. rest \in Lists(E) /\ ToSet(rest) = ToSet(next) \ {m}
  BY <1>2, ListWithout
<1>. HIDE DEF rest
<1>7. Len(rest) = Len(next) - 1
  <2>1. IsFiniteSet(ToSet(next)) /\ Cardinality(ToSet(next)) = Len(next) BY <1>2, ListIsListed
  <2>2. Cardinality(ToSet(rest)) = Len(rest) BY <1>6, ListIsListed
  <2>3. Cardinality(ToSet(next) \ {m}) = Cardinality(ToSet(next)) - 1
    BY <1>5, <2>1, FS_RemoveElement
  <2>. QED BY <1>6, <2>1, <2>2, <2>3
<1>. QED BY <1>2, <1>3, <1>4, <1>6, <1>7, Numbers DEF rest

-----------------------------------------------------------------------------
(***************************************************************************)
(* The inductive invariant.  Beside the types it says that the coverage is *)
(* not ahead of the server, that no receipt is older than it (Sound), that *)
(* nothing is held while sharing is off, that what is held although its    *)
(* receipt decides something is in the hands of the flush under way, and   *)
(* that without one nothing that is held waits for a timer in vain.        *)
(***************************************************************************)
Verdicts ==
    {<<>>} \cup UNION {[E -> {"acknowledged", "wanted", "rejected"}] : E \in SUBSET Delivery}
Flushes(D) ==
    {f \in [at : {"idle", "account", "cache", "sent", "answered", "upload", "puts"}, http : BOOLEAN,
            owner : Owner, todo : Lists(D), verdict : Verdicts, asOf : 0 .. MaxManifests,
            retry : BOOLEAN, now : BOOLEAN] :
        Len(f.todo) <= MaxOffers /\ (f.at = "upload" => f.todo # <<>>)}
InHand == IF flush.at # "idle" /\ flush.owner = server.owner THEN ToSet(flush.todo) ELSE {}

ServerTyped ==
    /\ server \in [owner : Owner \ {NoOwner}, up : BOOLEAN]
    /\ served \in [tiles : SUBSET Tile, revision : 1 .. MaxManifests]
    /\ covers \in [owner : Owner, tiles : SUBSET Tile, revision : 0 .. MaxManifests]
PageTyped ==
    /\ share \in BOOLEAN /\ account \in {"known", "unknown", "unavailable"}
    /\ observed \subseteq Delivery
    /\ recent \in Lists(observed) /\ Len(recent) <= MaxRecent
    /\ expiries \in 0 .. MaxExpiries
DeliveryTyped == outbox \in Outboxes(observed) /\ flush \in Flushes(observed)
Behind == covers.revision <= served.revision /\ covers.owner <= server.owner
HeldWhere ==
    /\ ~share => outbox.held = <<>>
    /\ server.up => HeldLive(outbox) \subseteq InHand
    /\ flush.at = "idle" /\ share => Stuck(outbox, Covered) = {}
OffersInv ==
    ServerTyped /\ PageTyped /\ DeliveryTyped /\ Behind /\ Sound(outbox) /\ HeldWhere

\* The step that FirstDeliveryKept is about.
FirstsKept ==
    \A d \in ToSet(outbox.held) \ ToSet(outbox'.held) :
         \/ d \in outbox.attempted \/ d \in ToSet(flush.todo)
         \/ ~share' \/ ~server'.up \/ outbox.heldFor # server'.owner
         \/ TileOf[d] \notin covers'.tiles \/ account = "unavailable"

\* Deliveries that are observed later leave what is typed as it is.
LEMMA ListsGrow ==
    ASSUME NEW D, NEW E, D \subseteq E
    PROVE  /\ Lists(D) \subseteq Lists(E) /\ Outboxes(D) \subseteq Outboxes(E)
           /\ Flushes(D) \subseteq Flushes(E)
<1>1. ASSUME NEW s \in Lists(D) PROVE s \in Lists(E)
  <2>1. ToSet(s) \subseteq E BY ListIsListed
  <2>. QED BY <2>1, ListIn
<1>2. ASSUME NEW x \in Outboxes(D) PROVE x \in Outboxes(E)
  <2>1. x \in Boxes(E)
    BY <1>1 DEF Outboxes, Boxes
  <2>. QED BY <2>1 DEF Outboxes
<1>3. ASSUME NEW f \in Flushes(D) PROVE f \in Flushes(E)
  BY <1>1 DEF Flushes
<1>. QED BY <1>1, <1>2, <1>3

LEMMA NoFlushTyped ==
    ASSUME NEW D
    PROVE  /\ NoFlush \in Flushes(D) /\ NoFlush.at = "idle" /\ NoFlush.todo = <<>>
           /\ NoFlush.owner = NoOwner /\ NoFlush.asOf = 0
<1>1. <<>> \in Lists(D) /\ Len(<<>>) = 0
  BY EmptyList
<1>. QED BY <1>1, Numbers DEF NoFlush, Flushes, Verdicts

LEMMA OffersBegin == OffersInit => OffersInv
<1>. SUFFICES ASSUME OffersInit PROVE OffersInv
  OBVIOUS
<1>0. 1 .. MaxOwners \subseteq Owner \ {NoOwner}
  BY Numbers
<1>1. ServerTyped
  <2>1. server \in [owner : Owner \ {NoOwner}, up : BOOLEAN]
    BY <1>0 DEF OffersInit
  <2>2. covers \in [owner : Owner, tiles : SUBSET Tile, revision : 0 .. MaxManifests]
    BY Numbers DEF OffersInit
  <2>. QED BY <2>1, <2>2 DEF OffersInit, ServerTyped
<1>2. PageTyped
  BY EmptyList, Numbers DEF OffersInit, PageTyped
<1>3. outbox \in Outboxes(observed) /\ outbox.held = <<>> /\ outbox.receiptsFor = NoOwner
  BY EmptyList, Numbers, ReceiptTyped DEF OffersInit, EmptyOutbox, Outboxes, Boxes, Owners
<1>4. DeliveryTyped
  BY <1>3, NoFlushTyped DEF OffersInit, DeliveryTyped
<1>5. Behind
  BY <1>0, Numbers DEF OffersInit, Behind
<1>6. Sound(outbox)
  BY <1>0, <1>1, <1>3, Numbers DEF Sound, ServerTyped
<1>7. HeldLive(outbox) = {} /\ Stuck(outbox, Covered) = {}
  BY <1>3, EmptyList DEF HeldLive, Stuck
<1>8. HeldWhere
  BY <1>3, <1>7 DEF HeldWhere
<1>. QED BY <1>1, <1>2, <1>4, <1>5, <1>6, <1>8 DEF OffersInv

LEMMA OffersFacts ==
    ASSUME OffersInv
    PROVE  /\ server.owner \in Owner \ {NoOwner} /\ server.up \in BOOLEAN
           /\ observed \in SUBSET Delivery /\ recent \in Lists(observed) /\ share \in BOOLEAN
           /\ outbox \in Outboxes(observed)
           /\ outbox.held \in Lists(observed) /\ outbox.queue \in Lists(observed)
           /\ ToSet(outbox.held) \subseteq observed
           /\ outbox.heldFor = NoOwner <=> ToSet(outbox.held) = {}
           /\ flush \in Flushes(observed)
           /\ flush.owner \in Owner /\ flush.asOf \in 0 .. MaxManifests
           /\ flush.todo \in Lists(observed) /\ Len(flush.todo) <= MaxOffers
           /\ flush.todo \in Seq(ToSet(flush.todo)) /\ flush.todo \in Lists(ToSet(flush.todo))
           /\ ToSet(flush.todo) \in SUBSET observed /\ ToSet(flush.todo) \subseteq observed
           /\ flush.http \in BOOLEAN /\ flush.retry \in BOOLEAN /\ flush.now \in BOOLEAN
<1>1. server.owner \in Owner \ {NoOwner} /\ server.up \in BOOLEAN
  BY DEF OffersInv, ServerTyped
<1>2. observed \in SUBSET Delivery /\ recent \in Lists(observed) /\ share \in BOOLEAN
  BY DEF OffersInv, PageTyped
<1>3. /\ outbox \in Outboxes(observed) /\ flush \in Flushes(observed)
      /\ outbox.held \in Lists(observed) /\ outbox.queue \in Lists(observed)
      /\ outbox.heldFor = NoOwner <=> outbox.held = <<>>
  BY DEF OffersInv, DeliveryTyped, Outboxes, Boxes, Owners
<1>4. /\ flush.owner \in Owner /\ flush.asOf \in 0 .. MaxManifests
      /\ flush.todo \in Lists(observed) /\ Len(flush.todo) <= MaxOffers
      /\ flush.http \in BOOLEAN /\ flush.retry \in BOOLEAN /\ flush.now \in BOOLEAN
  BY <1>3 DEF Flushes
<1>5. ToSet(outbox.held) \subseteq observed /\ (outbox.held = <<>> <=> ToSet(outbox.held) = {})
  BY <1>3, ListIsListed, EmptyList
<1>6. /\ flush.todo \in Seq(ToSet(flush.todo)) /\ flush.todo \in Lists(ToSet(flush.todo))
      /\ ToSet(flush.todo) \subseteq observed
  BY <1>4, ListIsListed
<1>. QED BY <1>1, <1>2, <1>3, <1>4, <1>5, <1>6

\* A step that leaves the connection, the manifests and the flush alone.
LEMMA Undisturbed ==
    ASSUME OffersInv, UNCHANGED <<server, served, covers, flush>>, PageTyped',
           observed \subseteq observed', outbox' \in Outboxes(observed'), Sound(outbox'),
           ~share' => outbox'.held = <<>>,
           server.up => HeldLive(outbox') \subseteq HeldLive(outbox),
           flush.at = "idle" /\ share' => Stuck(outbox', Covered) = {}
    PROVE  OffersInv'
<1>1. ServerTyped' /\ Behind'
  BY DEF OffersInv, ServerTyped, Behind
<1>2. DeliveryTyped'
  BY ListsGrow, OffersFacts DEF DeliveryTyped
<1>3. Sound(outbox)'
  BY DEF Sound, UpToDate, Answered
<1>4. HeldLive(outbox)' = HeldLive(outbox') /\ InHand' = InHand
      /\ Stuck(outbox, Covered)' = Stuck(outbox', Covered)
  BY DEF HeldLive, InHand, Stuck, Covered, Current
<1>5. HeldWhere'
  BY <1>4 DEF OffersInv, HeldWhere
<1>. QED BY <1>1, <1>2, <1>3, <1>5 DEF OffersInv

\* The flush ends, and y is what it leaves.
LEMMA EndKeeps ==
    ASSUME OffersInv, UNCHANGED offerRest, NEW y \in Outboxes(observed), NEW retry, NEW now,
           End(y, retry, now), Sound(y), ~share => y.held = <<>>, server.up => HeldLive(y) = {}
    PROVE  OffersInv' /\ outbox'.held = y.held
<1>1. ServerTyped' /\ Behind' /\ PageTyped'
  BY DEF OffersInv, ServerTyped, Behind, PageTyped, offerRest
<1>2. outbox' = Ended(y, retry, now) /\ flush' = NoFlush
  BY DEF End
<1>. DEFINE z == Ended(y, retry, now)
<1>3. /\ z \in Outboxes(observed) /\ z.held = y.held /\ z.heldFor = y.heldFor
      /\ z.receipts = y.receipts /\ z.receiptsFor = y.receiptsFor
      /\ share => Stuck(z, Covered) = {}
  BY EndedDoes, OffersFacts
<1>. HIDE DEF z
<1>4. DeliveryTyped'
  BY <1>2, <1>3, NoFlushTyped DEF DeliveryTyped, offerRest, z
<1>5. Sound(z)
  BY <1>3 DEF Sound
<1>6. outbox' = z /\ UNCHANGED <<server, covers, share>> /\ flush'.at = "idle"
  BY <1>2, NoFlushTyped DEF offerRest, z
<1>7. Sound(outbox)'
  BY <1>5, <1>6 DEF Sound, UpToDate, Answered
<1>8. HeldLive(z) = HeldLive(y)
  BY <1>3 DEF HeldLive
<1>9. HeldLive(outbox)' = HeldLive(z) /\ Stuck(outbox, Covered)' = Stuck(z, Covered)
  BY <1>6 DEF HeldLive, Stuck, Covered, Current
<1>10. HeldWhere'
  BY <1>3, <1>6, <1>8, <1>9 DEF HeldWhere
<1>. QED BY <1>1, <1>3, <1>4, <1>6, <1>7, <1>10 DEF OffersInv

\* The flush goes on.
LEMMA GoesOn ==
    ASSUME OffersInv, UNCHANGED offerRest, outbox' \in Outboxes(observed),
           flush' \in Flushes(observed), flush'.owner = flush.owner, flush'.at # "idle",
           Sound(outbox'), ~share => outbox'.held = <<>>,
           Answered' => \/ Answered /\ flush'.asOf = flush.asOf
                        \/ flush'.asOf >= covers.revision,
           server.up => HeldLive(outbox') \subseteq
               (IF flush.owner = server.owner THEN ToSet(flush'.todo) ELSE {})
    PROVE  OffersInv'
<1>1. ServerTyped' /\ Behind' /\ PageTyped'
  BY DEF OffersInv, ServerTyped, Behind, PageTyped, offerRest
<1>2. DeliveryTyped'
  BY DEF DeliveryTyped, offerRest
<1>3. UNCHANGED <<server, covers, share>>
  BY DEF offerRest
<1>4. Sound(outbox)'
  BY <1>3 DEF Sound, UpToDate, Answered
<1>5. HeldLive(outbox)' = HeldLive(outbox')
  BY <1>3 DEF HeldLive
<1>6. InHand' = IF flush.owner = server.owner THEN ToSet(flush'.todo) ELSE {}
  BY <1>3 DEF InHand
<1>7. HeldWhere'
  BY <1>3, <1>5, <1>6 DEF HeldWhere
<1>. QED BY <1>1, <1>2, <1>4, <1>7 DEF OffersInv

-----------------------------------------------------------------------------
(* The page, the settings, the connection and the manifest.                *)

LEMMA OfferedKept ==
    ASSUME Offered(outbox, outbox'), server' = server, OffersInv
    PROVE  FirstsKept
<1>. SUFFICES ASSUME NEW d \in ToSet(outbox.held) \ ToSet(outbox'.held), d \notin outbox.attempted,
                     outbox.heldFor = server'.owner
              PROVE  FALSE
  BY DEF FirstsKept
<1>. QED BY DEF Offered, Mine

\* While no flush runs and the connection is up, nothing that is held has a
\* receipt that decides something.
LEMMA IdleHeld ==
    ASSUME OffersInv, flush.at = "idle", server.up
    PROVE  HeldLive(outbox) = {}
  BY DEF OffersInv, HeldWhere, InHand

LEMMA NotUp ==
    ASSUME NEW x, NEW tiles, ~server.up
    PROVE  Stuck(x, tiles) = {}
  BY DEF Stuck

LEMMA ClearedDoes ==
    ASSUME OffersInv
    PROVE  /\ Clear(outbox) \in Outboxes(observed) /\ Sound(Clear(outbox))
           /\ Clear(outbox).held = <<>> /\ HeldLive(Clear(outbox)) = {}
           /\ \A tiles : Stuck(Clear(outbox), tiles) = {}
<1>. DEFINE y == Clear(outbox)
<1>1. /\ y \in Outboxes(observed) /\ y.held = <<>> /\ ToSet(<<>>) = {}
      /\ y.receipts = outbox.receipts /\ y.receiptsFor = outbox.receiptsFor
  BY OffersFacts, ClearDoes, EmptyList
<1>. HIDE DEF y
<1>2. Sound(y)
  BY <1>1 DEF OffersInv, Sound
<1>3. HeldLive(y) = {} /\ \A tiles : Stuck(y, tiles) = {}
  BY <1>1 DEF HeldLive, Stuck
<1>. QED BY <1>1, <1>2, <1>3 DEF y

LEMMA ReplayedDoes ==
    ASSUME OffersInv, NEW on \in BOOLEAN
    PROVE  /\ Replayed(on) \in Outboxes(observed) /\ Sound(Replayed(on))
           /\ HeldLive(Replayed(on)) \subseteq HeldLive(outbox)
           /\ on => Offered(outbox, Replayed(on))
           /\ on /\ flush.at = "idle" => Stuck(Replayed(on), Covered) = {}
           /\ ~on => Replayed(on).held = <<>>
<1>. DEFINE y == Replay(outbox, Covered)
<1>1. /\ y \in Outboxes(observed) /\ Offered(outbox, y)
      /\ flush.at = "idle" /\ HeldLive(outbox) = {} => Stuck(y, Covered) = {}
  BY OffersFacts, ReplayDoes
<1>. HIDE DEF y
<1>2. flush.at = "idle" => Stuck(y, Covered) = {}
  BY <1>1, IdleHeld, NotUp, OffersFacts
<1>3. Sound(y) /\ HeldLive(y) \subseteq HeldLive(outbox)
  <2>1. Sound(outbox) BY DEF OffersInv
  <2>. QED BY <1>1, <2>1, OffersFacts, FadesSound DEF Offered
<1>4. CASE on
  BY <1>1, <1>2, <1>3, <1>4 DEF Replayed, y
<1>5. CASE ~on
  BY <1>5, ClearedDoes DEF Replayed
<1>. QED BY <1>4, <1>5

LEMMA ObserveKeeps ==
    ASSUME OffersInv, NEW d \in Delivery, Observe(d)
    PROVE  OffersInv' /\ FirstsKept
<1>. DEFINE D == observed \cup {d}
            o == Offer(outbox, d, Covered)
            y == IF share THEN o ELSE outbox
<1>1. /\ UNCHANGED <<server, served, covers, flush>> /\ UNCHANGED <<share, account, expiries>>
      /\ observed' = D /\ recent' = Remembered(d) /\ outbox' = y /\ d \notin observed
  BY DEF Observe
<1>2. D \in SUBSET Delivery /\ d \in D /\ outbox \in Outboxes(D) /\ observed \subseteq D
  BY ListsGrow, OffersFacts
<1>3. /\ o \in Outboxes(D) /\ Offered(outbox, o)
      /\ flush.at = "idle" => Stuck(o, Covered) \subseteq Stuck(outbox, Covered)
  <2>. HIDE DEF D
  <2>. QED BY <1>2, OfferDoes, OffersFacts
<1>. HIDE DEF o
<1>4. Sound(o) /\ Sound(outbox)
  <2>1. Sound(outbox) BY DEF OffersInv
  <2>. QED BY <1>3, <2>1, OffersFacts, FadesSound DEF Offered
<1>5. PageTyped'
  <2>1. Remembered(d) \in Lists(D) /\ Len(Remembered(d)) <= MaxRecent
    BY <1>1, OffersFacts, RememberedDoes DEF OffersInv, PageTyped
  <2>. QED BY <1>1, <1>2, <2>1 DEF OffersInv, PageTyped
<1>6. /\ y \in Outboxes(D) /\ Sound(y) /\ (~share => y.held = <<>>)
      /\ HeldLive(y) \subseteq HeldLive(outbox)
      /\ flush.at = "idle" /\ share => Stuck(y, Covered) = {}
  BY <1>2, <1>3, <1>4 DEF OffersInv, HeldWhere, Offered
<1>7. OffersInv'
  <2>. HIDE DEF y, D
  <2>. QED BY <1>1, <1>2, <1>5, <1>6, Undisturbed
<1>8. Offered(outbox, y)
  BY <1>3, OfferedSame
<1>9. FirstsKept
  BY <1>1, <1>8, OfferedKept
<1>. QED BY <1>7, <1>9

LEMMA StateChangeKeeps ==
    ASSUME OffersInv, StateChange \/ SetShare
    PROVE  OffersInv' /\ FirstsKept
<1>1. /\ UNCHANGED <<server, served, covers, flush>>
      /\ UNCHANGED <<account, observed, recent, expiries>>
      /\ outbox' = Replayed(share') /\ share' \in BOOLEAN
  <2>1. share \in BOOLEAN BY OffersFacts
  <2>2. CASE StateChange BY <2>1, <2>2 DEF StateChange
  <2>3. CASE SetShare
    <3>1. /\ share' = ~share /\ outbox' = Replayed(share')
          /\ UNCHANGED <<server, served, covers, account, observed, recent, flush, expiries>>
      BY <2>3 DEF SetShare
    <3>. QED BY <2>1, <3>1
  <2>. QED BY <2>2, <2>3
<1>. DEFINE on == share'
            y == Replayed(on)
<1>2. /\ y \in Outboxes(observed) /\ Sound(y) /\ HeldLive(y) \subseteq HeldLive(outbox)
      /\ on => Offered(outbox, y)
      /\ on /\ flush.at = "idle" => Stuck(y, Covered) = {}
      /\ ~on => y.held = <<>>
  <2>. HIDE DEF on
  <2>1. on \in BOOLEAN BY <1>1 DEF on
  <2>. QED BY <2>1, ReplayedDoes
<1>3. outbox' = y
  BY <1>1
<1>. HIDE DEF y
<1>4. PageTyped'
  BY <1>1 DEF OffersInv, PageTyped
<1>5. OffersInv'
  BY <1>1, <1>2, <1>3, <1>4, Undisturbed
<1>6. FirstsKept
  <2>1. CASE on BY <1>1, <1>2, <1>3, <2>1, OfferedKept
  <2>2. CASE ~on BY <2>2 DEF FirstsKept
  <2>. QED BY <2>1, <2>2
<1>. QED BY <1>5, <1>6

LEMMA DropKeeps ==
    ASSUME OffersInv, Drop
    PROVE  OffersInv' /\ FirstsKept
<1>1. /\ UNCHANGED <<share, served, covers, account, observed, recent, flush, expiries>>
      /\ server' = [server EXCEPT !.up = FALSE]
      /\ outbox' = outbox \/ outbox' = Clear(outbox)
  BY DEF Drop
<1>2. server'.owner = server.owner /\ ~server'.up /\ ServerTyped'
  BY <1>1 DEF OffersInv, ServerTyped
<1>3. PageTyped' /\ Behind'
  BY <1>1, <1>2 DEF OffersInv, PageTyped, Behind
<1>4. /\ outbox' \in Outboxes(observed) /\ Sound(outbox')
      /\ ~share => outbox'.held = <<>>
  <2>1. CASE outbox' = outbox
    <3>1. Sound(outbox) /\ (~share => outbox.held = <<>>) BY DEF OffersInv, HeldWhere
    <3>. QED BY <2>1, <3>1, OffersFacts
  <2>2. CASE outbox' = Clear(outbox) BY <2>2, ClearedDoes
  <2>. QED BY <1>1, <2>1, <2>2
<1>5. DeliveryTyped'
  BY <1>1, <1>4, OffersFacts DEF DeliveryTyped
<1>6. Sound(outbox)'
  BY <1>1, <1>2, <1>4 DEF Sound, UpToDate, Answered
<1>7. HeldWhere'
  BY <1>1, <1>2, <1>4 DEF HeldWhere, Stuck
<1>8. FirstsKept
  BY <1>2 DEF FirstsKept
<1>. QED BY <1>2, <1>3, <1>5, <1>6, <1>7, <1>8 DEF OffersInv

LEMMA ConnectKeeps ==
    ASSUME OffersInv, Connect
    PROVE  OffersInv' /\ FirstsKept
<1>1. /\ UNCHANGED <<share, served, covers, account, observed, recent, outbox, flush, expiries>>
      /\ server' = [owner |-> server.owner + 1, up |-> TRUE] /\ server.owner < MaxOwners
  BY DEF Connect
<1>2. server.owner \in Nat /\ server.owner > 0 /\ covers.owner \in Nat
  BY Numbers DEF OffersInv, ServerTyped
<1>3. server'.owner = server.owner + 1 /\ ServerTyped'
  BY <1>1, <1>2, Numbers DEF OffersInv, ServerTyped
<1>4. PageTyped' /\ Behind' /\ DeliveryTyped'
  BY <1>1, <1>2, <1>3 DEF OffersInv, PageTyped, Behind, DeliveryTyped
<1>5. outbox.receiptsFor \in Nat /\ outbox.receiptsFor <= server.owner /\ covers.owner <= server.owner
  BY Numbers DEF OffersInv, DeliveryTyped, Outboxes, Boxes, Sound, Behind
<1>6. Sound(outbox)'
  BY <1>1, <1>2, <1>3, <1>5 DEF Sound
<1>7. HeldLive(outbox)' = {}
  BY <1>1, <1>2, <1>3, <1>5 DEF HeldLive
<1>8. Covered' = {}
  BY <1>1, <1>2, <1>3, <1>5 DEF Covered, Current
<1>9. Stuck(outbox, Covered)' = {}
  BY <1>8 DEF Stuck
<1>10. HeldWhere'
  BY <1>1, <1>7, <1>9 DEF OffersInv, HeldWhere
<1>11. FirstsKept
  BY <1>1 DEF FirstsKept
<1>. QED BY <1>3, <1>4, <1>6, <1>10, <1>11 DEF OffersInv

LEMMA ChangeManifestKeeps ==
    ASSUME OffersInv, ChangeManifest
    PROVE  OffersInv' /\ FirstsKept
<1>1. UNCHANGED <<share, server, covers, account, observed, recent, outbox, flush, expiries>>
  BY DEF ChangeManifest
<1>2. PICK tiles \in SUBSET Tile : served' = [tiles |-> tiles, revision |-> served.revision + 1]
  BY DEF ChangeManifest
<1>3. served.revision < MaxManifests
  BY DEF ChangeManifest
<1>4. ServerTyped' /\ Behind'
  BY <1>1, <1>2, <1>3, Numbers DEF OffersInv, ServerTyped, Behind
<1>5. PageTyped' /\ DeliveryTyped'
  BY <1>1 DEF OffersInv, PageTyped, DeliveryTyped
<1>6. Sound(outbox)'
  BY <1>1 DEF OffersInv, Sound, UpToDate, Answered
<1>7. HeldWhere'
  BY <1>1 DEF OffersInv, HeldWhere, HeldLive, InHand, Stuck, Covered, Current
<1>8. FirstsKept
  BY <1>1 DEF FirstsKept
<1>. QED BY <1>4, <1>5, <1>6, <1>7, <1>8 DEF OffersInv

LEMMA LoadAccountKeeps ==
    ASSUME OffersInv, LoadAccount
    PROVE  OffersInv' /\ FirstsKept
<1>1. UNCHANGED <<share, server, served, covers, observed, recent, outbox, flush, expiries>>
  BY DEF LoadAccount
<1>2. account' \in {"known", "unknown", "unavailable"}
  BY DEF LoadAccount
<1>3. PageTyped'
  BY <1>1, <1>2 DEF OffersInv, PageTyped
<1>4. OffersInv'
  <2>1. outbox \in Outboxes(observed) BY OffersFacts
  <2>. QED BY <1>1, <1>3, <2>1, Undisturbed DEF OffersInv, HeldWhere
<1>5. FirstsKept
  BY <1>1 DEF FirstsKept
<1>. QED BY <1>4, <1>5

LEMMA ExpireKeeps ==
    ASSUME OffersInv, NEW d \in Delivery, Expire(d)
    PROVE  OffersInv' /\ FirstsKept
<1>. DEFINE r == outbox.receipts[d]
            s == IF r.state = "in-flight" THEN [r EXCEPT !.live = FALSE] ELSE NoReceipt
            y == [outbox EXCEPT !.receipts[d] = s]
<1>1. /\ UNCHANGED <<server, served, covers, flush>>
      /\ UNCHANGED <<share, account, observed, recent>>
      /\ expiries' = expiries \/ (expiries < MaxExpiries /\ expiries' = expiries + 1)
  BY DEF Expire
<1>2. outbox \in Boxes(observed) /\ Owners(outbox) /\ r \in Receipt
  BY OffersFacts DEF Outboxes, Boxes
<1>3. outbox' = y
  BY <1>2 DEF Expire, Boxes
<1>4. s \in Receipt /\ ~s.live /\ (s = NoReceipt \/ (s.state = r.state /\ s.current = r.current /\ s.asOf = r.asOf))
  BY <1>2, ReceiptTyped DEF Receipt
<1>5. UpToDate(r) => UpToDate(s)
  BY <1>4, ReceiptTyped DEF UpToDate
<1>. HIDE DEF s, r
<1>6. /\ y \in Boxes(observed) /\ y.held = outbox.held /\ y.heldFor = outbox.heldFor
      /\ y.attempted = outbox.attempted /\ y.queue = outbox.queue /\ y.queueFor = outbox.queueFor
      /\ y.timer = outbox.timer /\ y.receiptsFor = outbox.receiptsFor
      /\ \A e \in Delivery : y.receipts[e] = IF e = d THEN s ELSE outbox.receipts[e]
  BY <1>2, <1>4 DEF Boxes
<1>. HIDE DEF y
<1>7. y \in Outboxes(observed)
  BY <1>2, <1>6 DEF Outboxes, Owners
<1>8. Sound(y)
  BY <1>5, <1>6 DEF OffersInv, Sound, r
<1>9. HeldLive(y) \subseteq HeldLive(outbox)
  <2>1. ToSet(outbox.held) \subseteq Delivery BY OffersFacts
  <2>. QED BY <1>4, <1>6, <2>1 DEF HeldLive
<1>10. Stuck(y, Covered) = Stuck(outbox, Covered)
  BY <1>6 DEF Stuck
<1>11. PageTyped'
  BY <1>1, Numbers DEF OffersInv, PageTyped
<1>12. OffersInv'
  BY <1>1, <1>3, <1>6, <1>7, <1>8, <1>9, <1>10, <1>11, Undisturbed DEF OffersInv, HeldWhere
<1>13. FirstsKept
  BY <1>3, <1>6 DEF FirstsKept
<1>. QED BY <1>12, <1>13

\* What a manifest leaves of the outbox, before the tiles are replayed.
LEMMA FreshDoes ==
    ASSUME OffersInv, server.up
    PROVE  LET changed == covers.owner # server.owner \/ covers.revision # served.revision
               fresh == IF changed THEN Invalidated(Cut(outbox)) ELSE Cut(outbox)
           IN  /\ fresh \in Outboxes(observed) /\ fresh.attempted \subseteq outbox.attempted
               /\ fresh.receiptsFor = outbox.receiptsFor
               /\ ToSet(fresh.held) \subseteq ToSet(outbox.held)
               /\ Mine(outbox) => Mine(fresh)
               /\ HeldLive(fresh) \subseteq HeldLive(outbox)
               /\ \A d \in ToSet(outbox.held) :
                     outbox.heldFor = server.owner /\ TileOf[d] \in served.tiles
                         => d \in ToSet(fresh.held)
               /\ changed /\ fresh.receiptsFor = server.owner =>
                     \A e \in Delivery : ~fresh.receipts[e].current
               /\ ~changed => fresh.receipts = outbox.receipts
<1>. DEFINE cut == Cut(outbox)
            new == Invalidated(cut)
<1>1. /\ cut \in Outboxes(observed)
      /\ cut.receipts = outbox.receipts /\ cut.receiptsFor = outbox.receiptsFor
      /\ cut.attempted \subseteq outbox.attempted
      /\ Mine(outbox) => Mine(cut)
      /\ ToSet(cut.held) \subseteq ToSet(outbox.held) /\ HeldLive(cut) \subseteq HeldLive(outbox)
      /\ \A d \in ToSet(outbox.held) :
            outbox.heldFor = server.owner /\ TileOf[d] \in served.tiles => d \in ToSet(cut.held)
  BY OffersFacts, CutDoes
<1>. HIDE DEF cut
<1>2. /\ new \in Outboxes(observed) /\ new.receiptsFor = cut.receiptsFor
      /\ new.held = cut.held /\ new.heldFor = cut.heldFor /\ new.attempted = cut.attempted
      /\ \A e \in Delivery :
            /\ new.receipts[e].live => cut.receipts[e].live
            /\ cut.receiptsFor = server.owner => ~new.receipts[e].current
  BY <1>1, InvalidatedDoes
<1>. HIDE DEF new
<1>3. HeldLive(new) \subseteq HeldLive(cut)
  <2>1. ToSet(cut.held) \subseteq Delivery BY <1>1, OffersFacts
  <2>. QED BY <1>2, <2>1 DEF HeldLive
<1>4. Mine(outbox) => Mine(new)
  BY <1>1, <1>2 DEF Mine
<1>. QED BY <1>1, <1>2, <1>3, <1>4 DEF cut, new

LEMMA RememberContentsKeeps ==
    ASSUME OffersInv, RememberContents
    PROVE  OffersInv' /\ FirstsKept
<1>. DEFINE changed == covers.owner # server.owner \/ covers.revision # served.revision
            x == IF changed THEN Invalidated(Cut(outbox)) ELSE Cut(outbox)
            z == Replay(x, served.tiles)
            y == IF share THEN z ELSE x
<1>1. /\ server.up /\ UNCHANGED <<share, server, served, account, observed, recent, flush, expiries>>
      /\ covers' = [owner |-> server.owner, tiles |-> served.tiles, revision |-> served.revision]
      /\ outbox' = y
  BY DEF RememberContents
<1>2. /\ x \in Outboxes(observed) /\ x.attempted \subseteq outbox.attempted
      /\ x.receiptsFor = outbox.receiptsFor
      /\ ToSet(x.held) \subseteq ToSet(outbox.held)
      /\ Mine(outbox) => Mine(x)
      /\ HeldLive(x) \subseteq HeldLive(outbox)
      /\ \A d \in ToSet(outbox.held) :
            outbox.heldFor = server.owner /\ TileOf[d] \in served.tiles => d \in ToSet(x.held)
      /\ changed /\ x.receiptsFor = server.owner => \A e \in Delivery : ~x.receipts[e].current
      /\ ~changed => x.receipts = outbox.receipts
  BY <1>1, FreshDoes
<1>. HIDE DEF x
<1>3. /\ z \in Outboxes(observed) /\ Offered(x, z)
      /\ flush.at = "idle" /\ HeldLive(x) = {} => Stuck(z, served.tiles) = {}
  BY <1>2, ReplayDoes, OffersFacts
<1>. HIDE DEF z
<1>4. /\ covers'.owner = server.owner /\ covers'.tiles = served.tiles
      /\ covers'.revision = served.revision
  BY <1>1
<1>5. ServerTyped' /\ Behind' /\ PageTyped'
  BY <1>1, <1>4, Numbers DEF OffersInv, ServerTyped, Behind, PageTyped
<1>6. /\ y \in Outboxes(observed) /\ Fades(x, y) /\ HeldLive(y) \subseteq HeldLive(outbox)
      /\ share => Offered(x, y)
  BY <1>2, <1>3 DEF Offered, Fades
<1>7. ~share => y.held = <<>>
  <2>1. ASSUME ~share PROVE x.held = <<>>
    <3>1. x.held \in Lists(observed) BY <1>2 DEF Outboxes, Boxes
    <3>2. outbox.held = <<>> BY <2>1 DEF OffersInv, HeldWhere
    <3>3. ToSet(x.held) = {} BY <1>2, <3>2, EmptyList
    <3>. QED BY <3>1, <3>3, EmptyList
  <2>. QED BY <2>1
<1>8. flush.at = "idle" /\ share => Stuck(y, served.tiles) = {}
  <2>1. flush.at = "idle" => HeldLive(x) = {} BY <1>1, <1>2, IdleHeld
  <2>. QED BY <1>3, <2>1
<1>9. y.receiptsFor <= server.owner
  <2>1. outbox.receiptsFor <= server.owner BY DEF OffersInv, Sound
  <2>. QED BY <1>2, <1>6, <2>1, OffersFacts, Numbers DEF Fades
<1>10. ASSUME changed, y.receiptsFor = server.owner, NEW e \in Delivery
       PROVE  ~y.receipts[e].current
  BY <1>2, <1>6, <1>10, ReceiptTyped DEF Fades
<1>11. ASSUME ~changed PROVE Sound(y)
  <2>1. Sound(x) BY <1>2, <1>11 DEF OffersInv, Sound
  <2>. QED BY <1>2, <1>6, <2>1, FadesSound, OffersFacts
<1>. HIDE DEF y
<1>12. Sound(outbox)'
  <2>1. CASE changed
    <3>. HIDE DEF changed
    <3>. QED BY <1>1, <1>9, <1>10, <2>1 DEF Sound, UpToDate
  <2>2. CASE ~changed
    <3>1. covers'.owner = covers.owner /\ covers'.revision = covers.revision
      BY <1>4, <2>2
    <3>. HIDE DEF changed
    <3>. QED BY <1>1, <1>11, <2>2, <3>1 DEF Sound, UpToDate, Answered
  <2>. QED BY <2>1, <2>2
<1>13. DeliveryTyped'
  BY <1>1, <1>6 DEF OffersInv, DeliveryTyped
<1>14. /\ HeldLive(outbox)' = HeldLive(y) /\ InHand' = InHand
       /\ Stuck(outbox, Covered)' = Stuck(y, served.tiles)
  BY <1>1, <1>4 DEF HeldLive, InHand, Stuck, Covered, Current
<1>15. HeldWhere'
  BY <1>1, <1>6, <1>7, <1>8, <1>14 DEF OffersInv, HeldWhere
<1>16. FirstsKept
  <2>. SUFFICES ASSUME NEW d \in ToSet(outbox.held) \ ToSet(y.held), d \notin outbox.attempted,
                       share, outbox.heldFor = server.owner, TileOf[d] \in served.tiles
                PROVE  FALSE
    BY <1>1, <1>4 DEF FirstsKept
  <2>1. d \in ToSet(x.held) /\ d \notin x.attempted /\ Mine(x)
    BY <1>2 DEF Mine
  <2>. QED BY <1>6, <2>1 DEF Offered
<1>. QED BY <1>5, <1>12, <1>13, <1>15, <1>16 DEF OffersInv

-----------------------------------------------------------------------------
(* The flush.                                                              *)

LEMMA FlushBeginsKeeps ==
    ASSUME OffersInv, FlushBegins
    PROVE  OffersInv' /\ FirstsKept
<1>. DEFINE emptied == [outbox EXCEPT !.timer = "none", !.queue = <<>>]
            taken == Owned(emptied)
            todo == Selected(outbox.queue)
            own == OwnReceipts(taken)
            y == Started(own, todo)
            now == \E d \in ToSet(outbox.queue) \ ToSet(todo) : d \notin outbox.attempted
            f == [NoFlush EXCEPT !.at = "account", !.owner = server.owner, !.todo = todo, !.now = now]
<1>1. /\ flush.at = "idle" /\ UNCHANGED <<server, served, covers>>
      /\ UNCHANGED <<share, account, observed, recent, expiries>>
      /\ PageTyped'
  BY DEF FlushBegins, OffersInv, PageTyped
<1>2. /\ emptied \in Boxes(observed) /\ emptied.held = outbox.held /\ emptied.heldFor = outbox.heldFor
      /\ emptied.queue = <<>> /\ emptied.attempted = outbox.attempted
      /\ emptied.receipts = outbox.receipts /\ emptied.receiptsFor = outbox.receiptsFor
      /\ Owners(outbox)
  <2>1. outbox \in Boxes(observed) /\ Owners(outbox) BY OffersFacts DEF Outboxes
  <2>. QED BY <2>1, EmptyList DEF Boxes
<1>. HIDE DEF emptied
<1>3. /\ taken \in Outboxes(observed) /\ taken.held = outbox.held
      /\ taken.heldFor \in {outbox.heldFor, NoOwner} /\ taken.attempted = outbox.attempted
      /\ taken.receipts = outbox.receipts /\ taken.receiptsFor = outbox.receiptsFor
  <2>1. emptied.held # <<>> => emptied.heldFor # NoOwner BY <1>2 DEF Owners
  <2>. QED BY <1>2, <2>1, OwnedDoes
<1>. HIDE DEF taken
<1>4. /\ Sound(taken) /\ HeldLive(taken) \subseteq HeldLive(outbox)
      /\ ~share => taken.held = <<>>
  <2>1. Sound(outbox) /\ (~share => outbox.held = <<>>) BY DEF OffersInv, HeldWhere
  <2>2. server.owner # NoOwner BY OffersFacts
  <2>. QED BY <1>3, <2>1, <2>2 DEF Sound, HeldLive
<1>5. CASE ~share
  <2>1. outbox' = Clear(outbox) /\ flush' = flush
    BY <1>5 DEF FlushBegins
  <2>. DEFINE c == Clear(outbox)
  <2>2. c \in Outboxes(observed) /\ Sound(c) /\ c.held = <<>> /\ HeldLive(c) = {}
    BY ClearedDoes
  <2>. HIDE DEF c
  <2>3. outbox' = c BY <2>1 DEF c
  <2>4. OffersInv'
    BY <1>1, <1>5, <2>1, <2>2, <2>3, Undisturbed
  <2>5. FirstsKept BY <1>1, <1>5 DEF FirstsKept
  <2>. QED BY <2>4, <2>5
<1>6. CASE share /\ (outbox.queue = <<>> \/ ~Current(outbox.queueFor))
  <2>1. outbox' = taken /\ flush' = flush
    BY <1>6 DEF FlushBegins, taken, emptied
  <2>2. Stuck(taken, Covered) = {}
    <3>1. Stuck(outbox, Covered) = {} BY <1>1, <1>6 DEF OffersInv, HeldWhere
    <3>2. ASSUME NEW d \in Stuck(taken, Covered) PROVE FALSE
      <4>1. /\ d \in ToSet(outbox.held) /\ server.up /\ outbox.heldFor = server.owner
            /\ TileOf[d] \in Covered
        BY <1>3, <3>2, OffersFacts DEF Stuck
      <4>2. Current(outbox.queueFor) /\ d \in ToSet(outbox.queue)
        BY <3>1, <4>1 DEF Stuck
      <4>3. ToSet(outbox.queue) = {} BY <1>6, <4>2, EmptyList
      <4>. QED BY <4>2, <4>3
    <3>. QED BY <3>2
  <2>3. OffersInv'
    BY <1>1, <1>3, <1>4, <2>1, <2>2, Undisturbed, <1>6
  <2>4. FirstsKept BY <1>3, <2>1 DEF FirstsKept
  <2>. QED BY <2>3, <2>4
<1>7. CASE share /\ outbox.queue # <<>> /\ Current(outbox.queueFor)
  <2>1. outbox' = y /\ flush' = f
    BY <1>7 DEF FlushBegins, taken, emptied
  <2>2. /\ todo \in Lists(observed) /\ Len(todo) <= MaxOffers
    <3>1. todo \in Lists(ToSet(outbox.queue)) /\ Len(todo) <= MaxOffers
      BY OffersFacts, ListSelected
    <3>2. ToSet(outbox.queue) \subseteq observed
      BY OffersFacts, ListIsListed
    <3>. QED BY <3>1, <3>2, ListsGrow
  <2>. HIDE DEF todo
  <2>3. /\ own \in Outboxes(observed) /\ own.receiptsFor = server.owner
        /\ own.held = taken.held /\ own.heldFor = taken.heldFor /\ own.attempted = taken.attempted
        /\ \A e \in Delivery : own.receipts[e] =
              IF taken.receiptsFor = server.owner THEN taken.receipts[e] ELSE NoReceipt
    BY <1>3, OffersFacts, OwnReceiptsDoes
  <2>. HIDE DEF own
  <2>4. /\ y \in Outboxes(observed) /\ y.receiptsFor = own.receiptsFor
        /\ y.held = own.held /\ y.heldFor = own.heldFor /\ y.attempted = own.attempted
        /\ \A e \in Delivery : y.receipts[e] =
              IF e \in ToSet(todo) THEN Live("in-flight", 0, TRUE) ELSE own.receipts[e]
    <3>. HIDE DEF now, f
    <3>1. own \in Outboxes(observed) BY <2>3
    <3>. HIDE <2>1, <2>2, <2>3
    <3>. QED BY <3>1, StartedDoes
  <2>. HIDE DEF y
  <2>5. /\ f \in Flushes(observed) /\ f.at = "account" /\ f.owner = server.owner /\ f.todo = todo
    <3>1. now \in BOOLEAN
      OBVIOUS
    <3>. HIDE DEF now
    <3>2. NoFlush \in Flushes(observed) BY NoFlushTyped
    <3>. QED BY <2>2, <3>1, <3>2, OffersFacts DEF Flushes
  <2>. HIDE DEF f
  <2>6. ServerTyped' /\ Behind'
    BY <1>1 DEF OffersInv, ServerTyped, Behind
  <2>7. DeliveryTyped'
    BY <1>1, <2>1, <2>4, <2>5 DEF DeliveryTyped
  <2>8. Sound(own)
    <3>1. Fades(taken, own) BY <2>3 DEF Fades
    <3>. QED BY <1>3, <1>4, <3>1, FadesSound, OffersFacts
  <2>9. ~Answered'
    BY <2>1, <2>5 DEF Answered
  <2>10. \A e \in Delivery : y.receipts[e].current /\ covers.owner = server.owner =>
            (y.receipts[e].state = "rejected" => y.receipts[e].asOf >= covers.revision)
    BY <2>3, <2>4, <2>8 DEF Sound, UpToDate, Live
  <2>11. Sound(outbox)'
    BY <1>1, <2>1, <2>3, <2>4, <2>9, <2>10, OffersFacts, Numbers DEF Sound, UpToDate
  <2>12. HeldLive(y) \subseteq ToSet(todo)
    <3>1. ASSUME NEW d \in HeldLive(y), d \notin ToSet(todo) PROVE FALSE
      <4>1. /\ d \in ToSet(outbox.held) /\ taken.heldFor = server.owner /\ d \in Delivery
            /\ y.receipts[d].live
        BY <1>3, <2>3, <2>4, <3>1, OffersFacts DEF HeldLive
      <4>2. own.receipts[d].live BY <2>4, <3>1, <4>1
      <4>3. taken.receiptsFor = server.owner /\ taken.receipts[d].live
        BY <2>3, <4>1, <4>2, ReceiptTyped
      <4>4. d \in HeldLive(outbox)
        BY <1>3, <1>4, <4>1, <4>3 DEF HeldLive
      <4>5. server.up BY <1>7 DEF Current
      <4>. QED BY <1>1, <4>4, <4>5, IdleHeld
    <3>. QED BY <3>1
  <2>13. HeldLive(outbox)' = HeldLive(y)
    BY <1>1, <2>1 DEF HeldLive
  <2>14. InHand' = ToSet(todo)
    BY <1>1, <2>1, <2>5 DEF InHand
  <2>15. HeldWhere'
    BY <1>1, <1>7, <2>1, <2>5, <2>12, <2>13, <2>14 DEF HeldWhere
  <2>16. FirstsKept
    BY <1>3, <2>1, <2>3, <2>4 DEF FirstsKept
  <2>. QED BY <1>1, <2>6, <2>7, <2>11, <2>15, <2>16 DEF OffersInv
<1>. QED BY <1>5, <1>6, <1>7

LEMMA SettledKept ==
    ASSUME OffersInv, NEW y, NEW E, Settles(outbox, y, E), E \subseteq ToSet(flush.todo),
           outbox'.held = y.held, server' = server
    PROVE  FirstsKept
<1>. SUFFICES ASSUME NEW d \in ToSet(outbox.held) \ ToSet(y.held), d \notin outbox.attempted,
                     d \notin ToSet(flush.todo), outbox.heldFor = server.owner
              PROVE  FALSE
  BY DEF FirstsKept
<1>. QED BY DEF Settles, Mine

LEMMA SettledHeld ==
    ASSUME OffersInv, NEW y \in Outboxes(observed), NEW E, Settles(outbox, y, E)
    PROVE  /\ Sound(y) /\ (~share => y.held = <<>>)
           /\ server.up => HeldLive(y) \subseteq InHand
<1>1. Sound(y)
  BY DEF OffersInv, Settles
<1>2. ASSUME ~share PROVE y.held = <<>>
  <2>1. outbox.held = <<>> BY <1>2 DEF OffersInv, HeldWhere
  <2>2. ToSet(y.held) = {} BY <1>2, <2>1, EmptyList DEF Settles
  <2>3. y.held \in Lists(observed) BY DEF Outboxes, Boxes
  <2>. QED BY <2>2, <2>3, EmptyList
<1>3. server.up => HeldLive(y) \subseteq InHand
  BY DEF OffersInv, HeldWhere, Settles
<1>. QED BY <1>1, <1>2, <1>3

\* The flush ends with all of it settled.
LEMMA EndSettled ==
    ASSUME OffersInv, UNCHANGED offerRest, NEW y \in Outboxes(observed), NEW retry, NEW now,
           End(y, retry, now), NEW E, E \subseteq ToSet(flush.todo), Settles(outbox, y, E),
           \A d \in ToSet(flush.todo) : Handled(y, d)
    PROVE  OffersInv' /\ FirstsKept
<1>1. Sound(y) /\ (~share => y.held = <<>>) /\ (server.up => HeldLive(y) \subseteq InHand)
  BY SettledHeld
<1>2. server.up => HeldLive(y) = {}
  BY <1>1 DEF Handled, InHand
<1>3. OffersInv' /\ outbox'.held = y.held
  BY <1>1, <1>2, EndKeeps
<1>4. FirstsKept
  BY <1>3, SettledKept DEF offerRest
<1>. QED BY <1>3, <1>4

\* It ends because sharing was switched off, or the identity is unavailable.
LEMMA EndCleared ==
    ASSUME OffersInv, UNCHANGED offerRest, NEW retry, NEW now, End(Clear(outbox), retry, now),
           ~share \/ account = "unavailable"
    PROVE  OffersInv' /\ FirstsKept
<1>. DEFINE y == Clear(outbox)
<1>1. y \in Outboxes(observed) /\ Sound(y) /\ y.held = <<>> /\ HeldLive(y) = {}
  BY ClearedDoes
<1>2. End(y, retry, now)
  OBVIOUS
<1>. HIDE DEF y
<1>3. OffersInv'
  BY <1>1, <1>2, EndKeeps
<1>4. FirstsKept
  BY DEF FirstsKept, offerRest
<1>. QED BY <1>3, <1>4

\* It ends because sharing was switched off, or the connection is another's.
LEMMA EndStopped ==
    ASSUME OffersInv, UNCHANGED offerRest, NEW retry, NEW now, End(outbox, retry, now),
           ~share \/ ~Current(flush.owner)
    PROVE  OffersInv' /\ FirstsKept
<1>1. outbox \in Outboxes(observed)
  BY OffersFacts
<1>2. Sound(outbox) /\ (~share => outbox.held = <<>>)
  BY DEF OffersInv, HeldWhere
<1>3. server.up => HeldLive(outbox) = {}
  <2>1. CASE ~share BY <1>2, <2>1, EmptyList DEF HeldLive
  <2>2. CASE ~Current(flush.owner) BY <2>2 DEF OffersInv, HeldWhere, InHand, Current
  <2>. QED BY <2>1, <2>2
<1>4. OffersInv' /\ outbox'.held = outbox.held
  BY <1>1, <1>2, <1>3, EndKeeps
<1>5. FirstsKept
  BY <1>4 DEF FirstsKept
<1>. QED BY <1>4, <1>5

\* It goes on, with some of it settled.
LEMMA GoesOnSettled ==
    ASSUME OffersInv, UNCHANGED offerRest, NEW y \in Outboxes(observed), outbox' = y,
           NEW f \in Flushes(observed), flush' = f, f.owner = flush.owner, f.at # "idle",
           f.asOf = flush.asOf, f.at \in {"answered", "upload", "puts"} => Answered,
           NEW E, E \subseteq ToSet(flush.todo), Settles(outbox, y, E),
           \A d \in ToSet(flush.todo) : d \in ToSet(f.todo) \/ Handled(y, d)
    PROVE  OffersInv' /\ FirstsKept
<1>1. Sound(y) /\ (~share => y.held = <<>>) /\ (server.up => HeldLive(y) \subseteq InHand)
  BY SettledHeld
<1>2. server.up => HeldLive(y) \subseteq
          (IF flush.owner = server.owner THEN ToSet(f.todo) ELSE {})
  BY <1>1 DEF Handled, InHand
<1>3. Answered' => Answered
  BY DEF Answered
<1>4. OffersInv'
  BY <1>1, <1>2, <1>3, GoesOn
<1>5. FirstsKept
  BY SettledKept DEF offerRest
<1>. QED BY <1>4, <1>5

LEMMA AccountLoadedKeeps ==
    ASSUME OffersInv, AccountLoaded
    PROVE  OffersInv' /\ FirstsKept
<1>1. flush.at = "account" /\ UNCHANGED offerRest
  BY DEF AccountLoaded
<1>2. CASE ~share \/ account = "unavailable"
  <2>1. End(Clear(outbox), FALSE, flush.now) BY <1>2 DEF AccountLoaded
  <2>. QED BY <1>1, <1>2, <2>1, EndCleared
<1>3. CASE share /\ account # "unavailable" /\ (account = "unknown" \/ ~Current(flush.owner))
  <2>. DEFINE y == RotateAll(outbox, flush.todo)
  <2>1. End(y, TRUE, FALSE)
    BY <1>3, PutOffIs DEF AccountLoaded
  <2>2. /\ y \in Outboxes(observed) /\ Settles(outbox, y, ToSet(flush.todo))
        /\ \A d \in ToSet(flush.todo) : Handled(y, d)
    BY OffersFacts, RotateAllDoes
  <2>. HIDE DEF y
  <2>. QED BY <1>1, <2>1, <2>2, EndSettled
<1>4. CASE share /\ account = "known" /\ Current(flush.owner)
  <2>. DEFINE x == [outbox EXCEPT !.attempted = @ \cup ToSet(flush.todo)]
              y == Trim(x)
  <2>1. outbox' = y
    BY <1>4 DEF AccountLoaded
  <2>2. PICK http \in BOOLEAN :
            flush' = [flush EXCEPT !.http = http, !.at = IF http THEN "cache" ELSE "sent"]
    BY <1>4 DEF AccountLoaded
  <2>3. /\ x \in Boxes(observed) /\ x.held = outbox.held /\ x.heldFor = outbox.heldFor
        /\ x.queue = outbox.queue /\ x.queueFor = outbox.queueFor
        /\ x.attempted = outbox.attempted \cup ToSet(flush.todo)
        /\ x.receipts = outbox.receipts /\ x.receiptsFor = outbox.receiptsFor
        /\ Owners(outbox)
    BY OffersFacts DEF Outboxes, Boxes
  <2>. HIDE DEF x
  <2>4. x \in Outboxes(observed)
    BY <2>3 DEF Outboxes, Owners
  <2>5. y \in Outboxes(observed) /\ Less(x, y, x.attempted)
    BY <2>4, TrimDoes
  <2>. HIDE DEF y
  <2>6. Sound(y) /\ HeldLive(y) \subseteq HeldLive(outbox)
    <3>1. Sound(outbox) BY DEF OffersInv
    <3>2. y.receipts = outbox.receipts /\ y.receiptsFor = outbox.receiptsFor
      BY <2>3, <2>5 DEF Less
    <3>3. Sound(y) BY <3>1, <3>2 DEF Sound
    <3>4. ToSet(y.held) \subseteq ToSet(outbox.held) /\ y.heldFor \in {outbox.heldFor, NoOwner}
      BY <2>3, <2>5 DEF Less
    <3>5. server.owner # NoOwner BY OffersFacts
    <3>6. HeldLive(y) \subseteq HeldLive(outbox) BY <3>2, <3>4, <3>5 DEF HeldLive
    <3>. QED BY <3>3, <3>6
  <2>. DEFINE f == [flush EXCEPT !.http = http, !.at = IF http THEN "cache" ELSE "sent"]
  <2>7. /\ f \in Flushes(observed) /\ f.at \in {"cache", "sent"} /\ f.todo = flush.todo
        /\ f.owner = flush.owner
    BY OffersFacts DEF Flushes
  <2>8. flush' = f
    BY <2>2
  <2>. HIDE DEF f
  <2>9. ~Answered'
    BY <2>7, <2>8 DEF Answered
  <2>10. server.up => HeldLive(y) \subseteq ToSet(flush.todo)
    BY <1>1, <1>4, <2>6 DEF OffersInv, HeldWhere, InHand
  <2>11. flush.owner = server.owner
    BY <1>4 DEF Current
  <2>12. OffersInv'
    BY <1>1, <1>4, <2>1, <2>5, <2>6, <2>7, <2>8, <2>9, <2>10, <2>11, GoesOn
  <2>13. FirstsKept
    BY <2>1, <2>3, <2>5 DEF FirstsKept, Less
  <2>. QED BY <2>12, <2>13
<1>. QED BY <1>2, <1>3, <1>4 DEF OffersInv, PageTyped

LEMMA CacheAnswersKeeps ==
    ASSUME OffersInv, CacheAnswers
    PROVE  OffersInv' /\ FirstsKept
<1>1. flush.at = "cache" /\ UNCHANGED offerRest
  BY DEF CacheAnswers
<1>2. CASE ~share
  <2>1. End(Clear(outbox), FALSE, flush.now) BY <1>2 DEF CacheAnswers
  <2>. QED BY <1>1, <1>2, <2>1, EndCleared
<1>3. CASE share /\ ~Current(flush.owner)
  <2>1. End(outbox, FALSE, flush.now) BY <1>3 DEF CacheAnswers
  <2>. QED BY <1>1, <1>3, <2>1, EndStopped
<1>4. CASE share /\ Current(flush.owner)
  <2>1. PICK cached \in SUBSET ToSet(flush.todo) :
           LET x == AcknowledgeAll(outbox, Among(flush.todo, cached))
               todo == Among(flush.todo, Delivery \ cached)
           IN  IF todo = <<>> THEN End(x, FALSE, flush.now)
               ELSE outbox' = x /\ flush' = [flush EXCEPT !.at = "sent", !.todo = todo]
    BY <1>4 DEF CacheAnswers, AcknowledgeAll
  <2>. DEFINE settled == Among(flush.todo, cached)
              todo == Among(flush.todo, Delivery \ cached)
              y == AcknowledgeAll(outbox, settled)
              f == [flush EXCEPT !.at = "sent", !.todo = todo]
  <2>2. IF todo = <<>> THEN End(y, FALSE, flush.now) ELSE outbox' = y /\ flush' = f
    BY <2>1
  <2>3. /\ settled \in Lists(ToSet(flush.todo)) /\ settled \in Seq(ToSet(flush.todo))
        /\ ToSet(settled) = cached
    <3>1. /\ settled \in Lists(ToSet(flush.todo))
          /\ ToSet(settled) = ToSet(flush.todo) \cap cached
      BY OffersFacts, ListAmong
    <3>. QED BY <3>1 DEF Lists
  <2>4. todo \in Lists(observed) /\ ToSet(todo) = ToSet(flush.todo) \ cached
    <3>1. /\ todo \in Lists(observed)
          /\ ToSet(todo) = ToSet(flush.todo) \cap (Delivery \ cached)
      BY OffersFacts, ListAmong
    <3>2. ToSet(flush.todo) \subseteq Delivery BY OffersFacts
    <3>. QED BY <3>1, <3>2
  <2>5. Len(todo) <= MaxOffers
    <3>1. /\ IsFiniteSet(ToSet(flush.todo)) /\ Cardinality(ToSet(flush.todo)) = Len(flush.todo)
          /\ Cardinality(ToSet(todo)) = Len(todo) /\ Len(flush.todo) \in Nat /\ Len(todo) \in Nat
      <4>1. flush.todo \in Seq(observed) /\ todo \in Seq(observed)
        BY <2>4, OffersFacts DEF Lists
      <4>. QED BY <2>4, <4>1, OffersFacts, ListIsListed
    <3>2. Cardinality(ToSet(todo)) <= Cardinality(ToSet(flush.todo))
      BY <2>4, <3>1, FS_Subset
    <3>. QED BY <3>1, <3>2, OffersFacts, Numbers
  <2>. HIDE DEF settled
  <2>6. /\ y \in Outboxes(observed) /\ Settles(outbox, y, ToSet(flush.todo))
        /\ \A d \in ToSet(settled) : Handled(y, d)
    BY <2>3, OffersFacts, AcknowledgeAllDoes
  <2>. HIDE DEF y, todo
  <2>7. CASE todo = <<>>
    <3>1. \A d \in ToSet(flush.todo) : Handled(y, d)
      BY <2>3, <2>4, <2>6, <2>7, EmptyList
    <3>. QED BY <1>1, <2>2, <2>6, <2>7, <3>1, EndSettled
  <2>8. CASE todo # <<>>
    <3>1. /\ f \in Flushes(observed) /\ f.owner = flush.owner /\ f.at = "sent" /\ f.todo = todo
          /\ f.asOf = flush.asOf
      BY <2>4, <2>5, OffersFacts DEF Flushes
    <3>2. outbox' = y /\ flush' = f BY <2>2, <2>8
    <3>3. \A d \in ToSet(flush.todo) : d \in ToSet(f.todo) \/ Handled(y, d)
      BY <2>3, <2>4, <2>6, <3>1
    <3>. HIDE DEF f
    <3>. QED BY <1>1, <2>6, <3>1, <3>2, <3>3, GoesOnSettled
  <2>. QED BY <2>7, <2>8
<1>. QED BY <1>2, <1>3, <1>4

LEMMA ServerAnswersKeeps ==
    ASSUME OffersInv, ServerAnswers
    PROVE  OffersInv' /\ FirstsKept
<1>1. flush.at = "sent" /\ UNCHANGED offerRest /\ outbox' = outbox
  BY DEF ServerAnswers
<1>2. PICK verdict \in [ToSet(flush.todo) -> {"acknowledged", "wanted", "rejected"}] :
         flush' = [flush EXCEPT !.at = "answered", !.verdict = verdict, !.asOf = served.revision]
  BY DEF ServerAnswers
<1>. DEFINE f == [flush EXCEPT !.at = "answered", !.verdict = verdict, !.asOf = served.revision]
<1>3. verdict \in Verdicts
  <2>1. ToSet(flush.todo) \in SUBSET Delivery BY OffersFacts
  <2>. QED BY <2>1 DEF Verdicts
<1>4. served.revision \in 0 .. MaxManifests /\ served.revision >= covers.revision
  BY Numbers DEF OffersInv, ServerTyped, Behind
<1>5. /\ f \in Flushes(observed) /\ f.at = "answered" /\ f.owner = flush.owner
      /\ f.todo = flush.todo /\ f.asOf = served.revision
  BY <1>3, <1>4, OffersFacts DEF Flushes
<1>6. flush' = f
  BY <1>2
<1>. HIDE DEF f
<1>7. /\ outbox \in Outboxes(observed) /\ Sound(outbox) /\ (~share => outbox.held = <<>>)
      /\ server.up => HeldLive(outbox) \subseteq
            (IF flush.owner = server.owner THEN ToSet(f.todo) ELSE {})
  BY <1>1, <1>5, OffersFacts DEF OffersInv, HeldWhere, InHand
<1>8. OffersInv'
  BY <1>1, <1>4, <1>5, <1>6, <1>7, GoesOn
<1>9. FirstsKept
  BY <1>1 DEF FirstsKept
<1>. QED BY <1>8, <1>9

LEMMA RequestFailsKeeps ==
    ASSUME OffersInv, RequestFails
    PROVE  OffersInv' /\ FirstsKept
<1>. DEFINE y == GiveBackAll(outbox, flush.todo)
<1>1. UNCHANGED offerRest /\ End(y, TRUE, flush.now)
  BY DEF RequestFails, GiveBackAll
<1>2. /\ y \in Outboxes(observed) /\ Settles(outbox, y, ToSet(flush.todo))
      /\ \A d \in ToSet(flush.todo) : Handled(y, d)
  BY OffersFacts, GiveBackAllDoes
<1>. HIDE DEF y
<1>. QED BY <1>1, <1>2, EndSettled

LEMMA RefusedKeeps ==
    ASSUME OffersInv, Refused
    PROVE  OffersInv' /\ FirstsKept
<1>. DEFINE y == DeleteAll(outbox, flush.todo)
<1>1. UNCHANGED offerRest /\ End(y, FALSE, flush.now)
  BY DEF Refused, DeleteAll
<1>2. /\ y \in Outboxes(observed) /\ Less(outbox, y, ToSet(flush.todo))
      /\ ToSet(y.held) \cap ToSet(flush.todo) = {}
  BY OffersFacts, DeleteAllDoes
<1>. HIDE DEF y
<1>3. Settles(outbox, y, ToSet(flush.todo))
  BY <1>2, OffersFacts, LessSettles
<1>4. \A d \in ToSet(flush.todo) : Handled(y, d)
  BY <1>2 DEF Handled, HeldLive
<1>. QED BY <1>1, <1>2, <1>3, <1>4, EndSettled

\* Settlements one after another, up to the first that waits for its upload.
LEMMA AdvanceKeeps ==
    ASSUME OffersInv, UNCHANGED offerRest, Answered, NEW s \in States(observed),
           NEW todo \in Lists(observed), Len(todo) <= MaxOffers,
           ToSet(todo) \subseteq ToSet(flush.todo), Settles(outbox, s.x, ToSet(flush.todo)),
           \A d \in ToSet(flush.todo) : d \in ToSet(todo) \/ Handled(s.x, d),
           Advance(s, todo)
    PROVE  OffersInv' /\ FirstsKept
<1>. DEFINE wanted == {i \in DOMAIN todo : flush.verdict[todo[i]] = "wanted"}
            next == Min(wanted \cup {Len(todo) + 1})
            now == SubSeq(todo, 1, next - 1)
            later == SubSeq(todo, next, Len(todo))
            t == SettleAll(s, now)
            f == [flush EXCEPT !.at = "upload", !.todo = later, !.retry = t.retry, !.now = t.now]
<1>1. IF wanted = {} THEN End(t.x, t.retry, t.now) ELSE outbox' = t.x /\ flush' = f
  BY DEF Advance, SettleAll
<1>2. Len(todo) \in Nat /\ DOMAIN todo = 1 .. Len(todo) /\ todo \in Seq(observed)
  BY DEF Lists
<1>3. /\ next \in 1 .. Len(todo) + 1 /\ (wanted = {} => next = Len(todo) + 1)
      /\ wanted # {} => next \in 1 .. Len(todo)
  <2>. DEFINE S == wanted \cup {Len(todo) + 1}
  <2>1. S \in SUBSET Nat /\ S # {} /\ wanted \subseteq 1 .. Len(todo) BY <1>2
  <2>. HIDE DEF wanted
  <2>2. Min(S) \in S /\ \A k \in S : Min(S) <= k
    <3>. HIDE DEF S
    <3>. QED BY <2>1, MinIn
  <2>3. next = Min(S) OBVIOUS
  <2>. HIDE DEF next
  <2>4. /\ next \in wanted \cup {Len(todo) + 1}
        /\ \A k \in wanted : next <= k
    BY <2>2, <2>3
  <2>5. CASE wanted = {}
    BY <1>2, <2>4, <2>5
  <2>6. CASE wanted # {}
    <3>1. PICK k \in wanted : TRUE BY <2>6
    <3>2. k \in 1 .. Len(todo) /\ next <= k BY <2>1, <2>4
    <3>3. next \in 1 .. Len(todo) BY <1>2, <2>1, <2>4, <3>2
    <3>. QED BY <1>2, <2>6, <3>3
  <2>. QED BY <2>5, <2>6
<1>. HIDE DEF next, wanted
<1>4. /\ now \in Lists(observed) /\ ToSet(now) = {todo[i] : i \in 1 .. next - 1}
      /\ later \in Lists(observed) /\ ToSet(later) = {todo[i] : i \in next .. Len(todo)}
  BY <1>2, <1>3, ListSub
<1>5. ToSet(todo) = {todo[i] : i \in 1 .. Len(todo)}
  BY <1>2 DEF ToSet
<1>6. \A d \in ToSet(todo) : d \in ToSet(now) \/ d \in ToSet(later)
  BY <1>2, <1>3, <1>4, <1>5
<1>7. ToSet(now) \subseteq ToSet(flush.todo) /\ now \in Seq(ToSet(flush.todo))
  <2>1. ToSet(now) \subseteq ToSet(flush.todo) BY <1>2, <1>3, <1>4, <1>5
  <2>2. now \in Lists(ToSet(flush.todo)) BY <1>4, <2>1, ListIn
  <2>. QED BY <2>1, <2>2 DEF Lists
<1>8. Len(later) <= MaxOffers
  BY <1>2, <1>3, Numbers
<1>. HIDE DEF now, later
<1>9. Recent(flush.asOf)
  BY OffersFacts DEF Recent
<1>10. /\ t \in States(observed) /\ Settles(s.x, t.x, ToSet(flush.todo))
       /\ \A d \in ToSet(now) : Handled(t.x, d)
  BY <1>7, <1>9, OffersFacts, SettleAllDoes
<1>11. t.x \in Outboxes(observed) /\ t.retry \in BOOLEAN /\ t.now \in BOOLEAN
  BY <1>10 DEF States
<1>. HIDE DEF t
<1>12. Settles(outbox, t.x, ToSet(flush.todo))
  <2>1. Settles(outbox, t.x, ToSet(flush.todo) \cup ToSet(flush.todo))
    BY <1>10, SettlesChains
  <2>2. ToSet(flush.todo) \cup ToSet(flush.todo) = ToSet(flush.todo)
    OBVIOUS
  <2>. QED BY <2>1, <2>2
<1>13. \A d \in ToSet(flush.todo) : d \in ToSet(later) \/ Handled(t.x, d)
  <2>1. ASSUME NEW d \in ToSet(flush.todo), d \notin ToSet(later) PROVE Handled(t.x, d)
    <3>1. CASE d \in ToSet(todo) BY <1>6, <1>10, <2>1, <3>1
    <3>2. CASE d \notin ToSet(todo)
      <4>1. Handled(s.x, d) BY <3>2
      <4>. QED BY <1>10, <4>1, HandledStays
    <3>. QED BY <3>1, <3>2
  <2>. QED BY <2>1
<1>14. CASE wanted = {}
  <2>1. ToSet(later) = {}
    BY <1>2, <1>3, <1>4, <1>14
  <2>2. End(t.x, t.retry, t.now)
    BY <1>1, <1>14
  <2>3. \A d \in ToSet(flush.todo) : Handled(t.x, d)
    BY <1>13, <2>1
  <2>. DEFINE y == t.x
              retry == t.retry
              soon == t.now
  <2>4. /\ End(y, retry, soon) /\ y \in Outboxes(observed)
        /\ Settles(outbox, y, ToSet(flush.todo)) /\ \A d \in ToSet(flush.todo) : Handled(y, d)
    BY <1>11, <1>12, <2>2, <2>3
  <2>. HIDE DEF y, retry, soon
  <2>. QED BY <2>4, EndSettled
<1>15. CASE wanted # {}
  <2>1. ToSet(later) # {}
    <3>1. next \in next .. Len(todo) BY <1>2, <1>3, <1>15
    <3>2. todo[next] \in {todo[i] : i \in next .. Len(todo)} BY <3>1
    <3>3. ToSet(later) = {todo[i] : i \in next .. Len(todo)} BY <1>4
    <3>. QED BY <3>2, <3>3
  <2>2. later # <<>>
    BY <2>1, EmptyList
  <2>3. outbox' = t.x /\ flush' = f
    BY <1>1, <1>15
  <2>4. /\ f \in Flushes(observed) /\ f.owner = flush.owner /\ f.at = "upload"
        /\ f.todo = later /\ f.asOf = flush.asOf
    BY <1>4, <1>8, <1>11, <2>2, OffersFacts DEF Flushes
  <2>. HIDE DEF f
  <2>5. \A d \in ToSet(flush.todo) : d \in ToSet(f.todo) \/ Handled(t.x, d)
    BY <1>13, <2>4
  <2>. DEFINE y == t.x
  <2>6. /\ outbox' = y /\ y \in Outboxes(observed) /\ Settles(outbox, y, ToSet(flush.todo))
        /\ \A d \in ToSet(flush.todo) : d \in ToSet(f.todo) \/ Handled(y, d)
    BY <1>11, <1>12, <2>3, <2>5
  <2>. HIDE DEF y
  <2>. QED BY <2>3, <2>4, <2>6, GoesOnSettled
<1>. QED BY <1>14, <1>15

LEMMA ReceiveKeeps ==
    ASSUME OffersInv, Receive
    PROVE  OffersInv' /\ FirstsKept
<1>1. flush.at = "answered" /\ UNCHANGED offerRest /\ Answered
  BY DEF Receive, Answered
<1>2. CASE ~share /\ ~flush.http
  <2>1. End(Clear(outbox), FALSE, flush.now) BY <1>2 DEF Receive
  <2>. QED BY <1>1, <1>2, <2>1, EndCleared
<1>3. CASE (~share /\ flush.http) \/ (share /\ ~Current(flush.owner))
  <2>1. End(outbox, FALSE, flush.now) BY <1>3 DEF Receive
  <2>. QED BY <1>1, <1>3, <2>1, EndStopped
<1>4. CASE share /\ Current(flush.owner) /\ flush.http
  <2>. DEFINE f == [flush EXCEPT !.at = "puts"]
  <2>1. outbox' = outbox /\ flush' = f BY <1>4 DEF Receive
  <2>2. /\ f \in Flushes(observed) /\ f.at = "puts" /\ f.owner = flush.owner
        /\ f.todo = flush.todo /\ f.asOf = flush.asOf
    BY OffersFacts DEF Flushes
  <2>. HIDE DEF f
  <2>3. outbox \in Outboxes(observed) /\ Settles(outbox, outbox, {})
    BY OffersFacts, SettlesSame
  <2>. QED BY <1>1, <2>1, <2>2, <2>3, GoesOnSettled
<1>5. CASE share /\ Current(flush.owner) /\ ~flush.http
  <2>. DEFINE s == [x |-> outbox, retry |-> FALSE, now |-> flush.now]
  <2>1. Advance(s, flush.todo) BY <1>5 DEF Receive
  <2>2. s \in States(observed) /\ s.x = outbox BY OffersFacts DEF States
  <2>. HIDE DEF s
  <2>3. Settles(outbox, s.x, ToSet(flush.todo)) BY <2>2, SettlesSame
  <2>. DEFINE todo == flush.todo
  <2>4. /\ Advance(s, todo) /\ todo \in Lists(observed) /\ Len(todo) <= MaxOffers
        /\ ToSet(todo) \subseteq ToSet(flush.todo)
        /\ \A d \in ToSet(flush.todo) : d \in ToSet(todo) \/ Handled(s.x, d)
    BY <2>1, OffersFacts
  <2>. HIDE DEF todo
  <2>. QED BY <1>1, <2>2, <2>3, <2>4, AdvanceKeeps
<1>. QED BY <1>2, <1>3, <1>4, <1>5

\* What the end of an upload makes of d.
Uploaded(s, d) ==
    {[s EXCEPT !.x = Acknowledge(@, d)], Failed(s, d),
     [s EXCEPT !.x = Delete(Reject(@, d, served.revision), d)]}

LEMMA UploadEndsKeeps ==
    ASSUME OffersInv, UploadEnds
    PROVE  OffersInv' /\ FirstsKept
<1>. DEFINE d == Head(flush.todo)
            todo == Tail(flush.todo)
            s == [x |-> outbox, retry |-> flush.retry, now |-> flush.now]
<1>1. flush.at = "upload" /\ UNCHANGED offerRest /\ Answered
  BY DEF UploadEnds, Answered
<1>2. PICK t \in Uploaded(s, d) : Advance(t, todo)
  BY DEF UploadEnds, Uploaded
<1>3. /\ flush.todo # <<>> /\ flush.todo \in Seq(observed) /\ Len(flush.todo) \in Nat
      /\ DOMAIN flush.todo = 1 .. Len(flush.todo)
  <2>1. flush.todo # <<>> BY <1>1, OffersFacts DEF Flushes
  <2>2. flush.todo \in Seq(observed) BY OffersFacts DEF Lists
  <2>. QED BY <2>1, <2>2
<1>4. d \in observed /\ d = flush.todo[1] /\ Len(flush.todo) >= 1
  BY <1>3
<1>5. todo \in Lists(observed) /\ ToSet(todo) = {flush.todo[i] : i \in 2 .. Len(flush.todo)}
  <2>1. todo = SubSeq(flush.todo, 2, Len(flush.todo)) BY <1>3
  <2>2. flush.todo \in Lists(observed) BY OffersFacts
  <2>3. 2 \in Int /\ 2 >= 1 /\ Len(flush.todo) \in Int /\ Len(flush.todo) <= Len(flush.todo)
    BY <1>3
  <2>. HIDE DEF todo
  <2>. QED BY <2>1, <2>2, <2>3, ListSub
<1>6. ToSet(flush.todo) = {flush.todo[i] : i \in 1 .. Len(flush.todo)}
  BY <1>3 DEF ToSet
<1>7. ToSet(todo) \subseteq ToSet(flush.todo) /\ d \in ToSet(flush.todo)
  BY <1>4, <1>5, <1>6
<1>8. \A e \in ToSet(flush.todo) : e \in ToSet(todo) \/ e = d
  BY <1>3, <1>4, <1>5, <1>6
<1>9. Len(todo) <= MaxOffers
  BY <1>3, OffersFacts, Numbers
<1>. HIDE DEF todo, d
<1>10. s \in States(observed) /\ s.x = outbox
  BY OffersFacts DEF States
<1>. HIDE DEF s
<1>11. Recent(served.revision)
  BY Numbers DEF OffersInv, ServerTyped, Behind, Recent
<1>12. Settlement(observed, s, t, d)
  <2>1. CASE t = [s EXCEPT !.x = Acknowledge(@, d)]
    BY <1>10, <2>1, AcknowledgedDoes, OffersFacts
  <2>2. CASE t = Failed(s, d)
    BY <1>4, <1>10, <2>2, FailedDoes, OffersFacts
  <2>3. CASE t = [s EXCEPT !.x = Delete(Reject(@, d, served.revision), d)]
    BY <1>4, <1>10, <1>11, <2>3, RefusedDoes, OffersFacts
  <2>. QED BY <2>1, <2>2, <2>3 DEF Uploaded
<1>13. t \in States(observed) /\ Settles(outbox, t.x, {d}) /\ Handled(t.x, d)
  BY <1>10, <1>12 DEF Settlement
<1>14. Settles(outbox, t.x, ToSet(flush.todo))
  <2>1. {d} \subseteq ToSet(flush.todo) BY <1>7
  <2>. QED BY <1>13, <2>1, SettlesMore
<1>15. \A e \in ToSet(flush.todo) : e \in ToSet(todo) \/ Handled(t.x, e)
  BY <1>8, <1>13
<1>. QED BY <1>1, <1>2, <1>5, <1>7, <1>9, <1>13, <1>14, <1>15, AdvanceKeeps

LEMMA PutsEndKeeps ==
    ASSUME OffersInv, PutsEnd
    PROVE  OffersInv' /\ FirstsKept
<1>1. flush.at = "puts" /\ UNCHANGED offerRest /\ Answered
  BY DEF PutsEnd, Answered
<1>. DEFINE s == [x |-> outbox, retry |-> FALSE, now |-> flush.now]
<1>2. PICK put : LET t == PutAll(s, flush.todo, put) IN End(t.x, t.retry, t.now)
  BY PutsEndIs
<1>3. s \in States(observed) /\ s.x = outbox
  BY OffersFacts DEF States
<1>. HIDE DEF s
<1>4. Recent(flush.asOf)
  BY <1>1, OffersFacts DEF Recent
<1>. DEFINE t == PutAll(s, flush.todo, put)
            y == t.x
            retry == t.retry
            soon == t.now
<1>5. /\ t \in States(observed) /\ Settles(s.x, t.x, ToSet(flush.todo))
      /\ \A d \in ToSet(flush.todo) : Handled(t.x, d)
  BY <1>3, <1>4, OffersFacts, PutAllDoes
<1>6. End(y, retry, soon)
  BY <1>2
<1>. HIDE DEF t
<1>7. /\ y \in Outboxes(observed) /\ Settles(outbox, y, ToSet(flush.todo))
      /\ \A d \in ToSet(flush.todo) : Handled(y, d)
  BY <1>3, <1>5 DEF States
<1>. HIDE DEF y, retry, soon
<1>. QED BY <1>1, <1>6, <1>7, EndSettled

-----------------------------------------------------------------------------
(* Theorems.                                                               *)

LEMMA OffersStep == OffersInv /\ OffersNext => OffersInv' /\ FirstsKept
<1>. SUFFICES ASSUME OffersInv, OffersNext PROVE OffersInv' /\ FirstsKept
  OBVIOUS
<1>1. CASE \E d \in Delivery : Observe(d) \/ Expire(d)
  BY <1>1, ObserveKeeps, ExpireKeeps
<1>2. CASE StateChange \/ SetShare
  BY <1>2, StateChangeKeeps
<1>3. CASE Drop \/ Connect \/ ChangeManifest \/ RememberContents \/ LoadAccount
  BY <1>3, DropKeeps, ConnectKeeps, ChangeManifestKeeps, RememberContentsKeeps, LoadAccountKeeps
<1>4. CASE FlushBegins
  BY <1>4, FlushBeginsKeeps
<1>5. CASE FlushStep
  BY <1>5, AccountLoadedKeeps, CacheAnswersKeeps, ServerAnswersKeeps, RequestFailsKeeps,
     RefusedKeeps, ReceiveKeeps, UploadEndsKeeps, PutsEndKeeps DEF FlushStep
<1>. QED BY <1>1, <1>2, <1>3, <1>4, <1>5 DEF OffersNext

LEMMA OffersStutter == OffersInv /\ UNCHANGED offerVars => OffersInv'
<1>. SUFFICES ASSUME OffersInv, UNCHANGED offerVars PROVE OffersInv'
  OBVIOUS
<1>1. /\ UNCHANGED <<server, served, covers, flush>>
      /\ UNCHANGED <<share, account, observed, recent, outbox, expiries>>
  BY DEF offerVars
<1>2. PageTyped'
  BY <1>1 DEF OffersInv, PageTyped
<1>3. outbox \in Outboxes(observed)
  BY OffersFacts
<1>. QED BY <1>1, <1>2, <1>3, Undisturbed DEF OffersInv, HeldWhere

LEMMA OffersAlways == OffersSpec => []OffersInv
<1>1. OffersInit => OffersInv
  BY OffersBegin
<1>2. OffersInv /\ [OffersNext]_offerVars => OffersInv'
  BY OffersStep, OffersStutter
<1>. QED BY <1>1, <1>2, PTL DEF OffersSpec

LEMMA ListedDoes ==
    ASSUME NEW D \in SUBSET Delivery, NEW s \in Lists(D)
    PROVE  Listed(s) /\ ToSet(s) \subseteq D
  BY ListIsListed DEF Listed

LEMMA OffersWellTyped == OffersInv => OffersTypeOK
<1>. SUFFICES ASSUME OffersInv PROVE OffersTypeOK
  OBVIOUS
<1>1. /\ share \in BOOLEAN /\ account \in {"known", "unknown", "unavailable"}
      /\ observed \in SUBSET Delivery /\ recent \in Lists(observed) /\ Len(recent) <= MaxRecent
      /\ expiries \in 0 .. MaxExpiries
  BY DEF OffersInv, PageTyped
<1>2. Listed(recent) /\ ToSet(recent) \subseteq observed
  BY <1>1, ListedDoes
<1>3. /\ server \in [owner : Owner, up : BOOLEAN]
      /\ served \in [tiles : SUBSET Tile, revision : 1 .. MaxManifests]
      /\ covers \in [owner : Owner, tiles : SUBSET Tile, revision : 0 .. MaxManifests]
  BY DEF OffersInv, ServerTyped
<1>4. /\ outbox.held \in Lists(observed) /\ outbox.queue \in Lists(observed)
      /\ outbox.heldFor \in Owner /\ outbox.queueFor \in Owner
      /\ outbox.attempted \subseteq observed
      /\ outbox.timer \in {"none", "soon", "late"} /\ outbox.paced \in BOOLEAN
      /\ outbox.receipts \in [Delivery -> Receipt] /\ outbox.receiptsFor \in Owner
      /\ Owners(outbox)
  BY DEF OffersInv, DeliveryTyped, Outboxes, Boxes
<1>5. Listed(outbox.held) /\ Listed(outbox.queue)
  BY <1>1, <1>4, ListedDoes
<1>6. /\ (outbox.heldFor = NoOwner) = (outbox.held = <<>>)
      /\ (outbox.queueFor = NoOwner) = (outbox.queue = <<>>)
  BY <1>4 DEF Owners
<1>7. /\ flush.at \in {"idle", "account", "cache", "sent", "answered", "upload", "puts"}
      /\ flush.todo \in Lists(observed) /\ Len(flush.todo) <= MaxOffers
  BY DEF OffersInv, DeliveryTyped, Flushes
<1>8. Listed(flush.todo)
  BY <1>1, <1>7, ListedDoes
<1>. QED BY <1>1, <1>2, <1>3, <1>4, <1>5, <1>6, <1>7, <1>8 DEF OffersTypeOK

\* Whatever the page, the connection, the manifests and the flushes do: the
\* lists that the userscript keeps hold no delivery twice, and each that becomes
\* empty loses its owner.
THEOREM OffersTypeCorrect == OffersSpec => []OffersTypeOK
  BY OffersAlways, OffersWellTyped, PTL

LEMMA SoundIsCurrent == OffersInv => RejectionsCurrent
<1>. SUFFICES ASSUME OffersInv, NEW d \in Delivery,
                     outbox.receipts[d].state = "rejected", outbox.receipts[d].current,
                     Current(outbox.receiptsFor), TileOf[d] \in Covered
              PROVE  outbox.receipts[d].asOf >= covers.revision
  BY DEF RejectionsCurrent
<1>1. outbox.receiptsFor = server.owner /\ covers.owner = server.owner
  BY DEF Current, Covered
<1>. QED BY <1>1 DEF OffersInv, Sound, UpToDate

\* A rejection that suppresses an observation is of the coverage that the
\* userscript has, or newer.
THEOREM RejectionsAreCurrent == OffersSpec => []RejectionsCurrent
  BY OffersAlways, SoundIsCurrent, PTL

LEMMA WhereHeldGoes == OffersInv => HeldGoes
<1>. SUFFICES ASSUME OffersInv, NEW d \in Delivery, Deliverable(d), flush.at = "idle"
              PROVE  /\ outbox.timer # "none" /\ Current(outbox.queueFor)
                     /\ d \in ToSet(outbox.queue)
  BY DEF HeldGoes
<1>1. /\ share /\ server.up /\ outbox.heldFor = server.owner
      /\ d \in ToSet(outbox.held) /\ TileOf[d] \in Covered
  BY DEF Deliverable, Current
<1>2. Stuck(outbox, Covered) = {}
  BY <1>1 DEF OffersInv, HeldWhere
<1>. QED BY <1>1, <1>2 DEF Stuck

\* A first delivery is never the eviction victim, and what is held is in a
\* flush's hands or queued with a timer.
THEOREM OffersAreKept == OffersSpec => OffersKept
<1>1. OffersInv /\ [OffersNext]_offerVars => [FirstsKept]_offerVars
  BY OffersStep
<1>2. OffersSpec => [][FirstsKept]_offerVars
  BY <1>1, OffersAlways, PTL DEF OffersSpec
<1>3. OffersSpec => []HeldGoes
  BY OffersAlways, WhereHeldGoes, PTL
<1>. QED BY <1>2, <1>3, PTL DEF OffersKept, FirstDeliveryKept, FirstsKept

-----------------------------------------------------------------------------
(* The two kinds of report next to each other.                             *)

LEMMA EachReports == ReportsSpec => Spec /\ OffersSpec
<1>1. ReportsInit => Init /\ OffersInit
  BY DEF ReportsInit
<1>2. /\ [ReportsNext]_reportVars => [Next]_vars
      /\ [ReportsNext]_reportVars => [OffersNext]_offerVars
  BY DEF ReportsNext, reportVars
<1>. QED BY <1>1, <1>2, PTL DEF ReportsSpec, Spec, OffersSpec

\* The counters and the offers hold values of their types together.
THEOREM ReportsTypeCorrect == ReportsSpec => []ReportsTypesOK
<1>1. TypeOK /\ OffersTypeOK => ReportsTypesOK
  BY DEF ReportsTypesOK
<1>. QED BY <1>1, EachReports, CountersTypeCorrect, OffersTypeCorrect, PTL
=============================================================================
