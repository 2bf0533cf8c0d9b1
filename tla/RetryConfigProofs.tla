-------------------------- MODULE RetryConfigProofs --------------------------
(***************************************************************************)
(* Theorems about RetryConfig, for any environment and any bound of a      *)
(* bigint.                                                                 *)
(*                                                                         *)
(* The principles of induction of the library take an operator, which the  *)
(* provers cannot instantiate; the ones below take a set and a function.   *)
(***************************************************************************)
EXTENDS RetryConfig, WellFoundedInduction, TLAPS

-----------------------------------------------------------------------------
(* Induction and recursion on the naturals. *)

LEMMA LeastElement ==
    ASSUME NEW T \in SUBSET Nat, T # {}
    PROVE  \E least \in T : \A n \in T : least <= n
<1> DEFINE R == OpToRel(<, Nat)
<1>1. R = {p \in Nat \X Nat : p[1] < p[2]}
  BY DEF OpToRel
<1>2. IsWellFoundedOn(R, Nat)
  BY NatLessThanWellFounded
<1>3. \A m, n \in Nat : <<m, n>> \in R <=> m < n
  BY <1>1
<1> HIDE DEF R
<1>4. PICK least \in T : \A n \in T : <<n, least>> \notin R
  BY <1>2, WFMin
<1>5. \A n \in T : least <= n
  <2> TAKE n \in T
  <2>1. n \in Nat /\ least \in Nat
    OBVIOUS
  <2>2. ~(n < least)
    BY <1>3, <1>4, <2>1
  <2>3. QED
    BY <2>1, <2>2
<1>6. QED
  BY <1>5

LEMMA Induction ==
    ASSUME NEW T \in SUBSET Nat, 0 \in T, \A n \in T : n + 1 \in T
    PROVE  T = Nat
<1> SUFFICES ASSUME Nat \ T # {} PROVE FALSE
  OBVIOUS
<1>1. PICK least \in Nat \ T : \A n \in Nat \ T : least <= n
  BY LeastElement
<1>2. least - 1 \in T
  BY <1>1
<1>3. QED
  BY <1>1, <1>2

\* The first n + 1 values of the function that starts with c and goes on with s.
Begins(h, n, S, c, s) ==
    /\ h \in [0 .. n -> S] /\ h[0] = c
    /\ \A i \in 0 .. n - 1 : h[i + 1] = s[h[i]]

LEMMA BeginningExists ==
    ASSUME NEW S, NEW c \in S, NEW s \in [S -> S]
    PROVE  \A n \in Nat : \E h : Begins(h, n, S, c, s)
<1> DEFINE T == {n \in Nat : \E h : Begins(h, n, S, c, s)}
<1>1. 0 \in T
  <2>1. Begins([i \in 0 .. 0 |-> c], 0, S, c, s)
    BY DEF Begins
  <2>2. QED
    BY <2>1
<1>2. ASSUME NEW n \in T PROVE n + 1 \in T
  <2>1. n \in Nat
    OBVIOUS
  <2>2. PICK h : Begins(h, n, S, c, s)
    OBVIOUS
  <2> DEFINE k == [i \in 0 .. n + 1 |-> IF i = n + 1 THEN s[h[n]] ELSE h[i]]
  <2>3. h[n] \in S /\ s[h[n]] \in S
    BY <2>1, <2>2 DEF Begins
  <2>4. k \in [0 .. n + 1 -> S]
    BY <2>1, <2>2, <2>3 DEF Begins
  <2>5. k[0] = c
    BY <2>1, <2>2 DEF Begins
  <2>6. ASSUME NEW i \in 0 .. n PROVE k[i + 1] = s[k[i]]
    <3>1. CASE i = n
      BY <2>1, <3>1
    <3>2. CASE i # n
      <4>1. i \in 0 .. n - 1 /\ i + 1 \in 0 .. n + 1 /\ i + 1 # n + 1 /\ i # n + 1
        BY <2>1, <3>2
      <4>2. QED
        BY <2>1, <2>2, <4>1 DEF Begins
    <3>3. QED
      BY <3>1, <3>2
  <2>7. n + 1 - 1 = n
    BY <2>1
  <2> HIDE DEF k
  <2>8. Begins(k, n + 1, S, c, s)
    BY <2>4, <2>5, <2>6, <2>7 DEF Begins
  <2>9. QED
    BY <2>1, <2>8
<1> HIDE DEF T
<1>3. T = Nat
  <2>1. T \in SUBSET Nat
    BY DEF T
  <2>2. QED
    BY <1>1, <1>2, <2>1, Induction
<1>4. QED
  BY <1>3 DEF T

LEMMA BeginningsAgree ==
    ASSUME NEW S, NEW c, NEW s, NEW m \in Nat, NEW n \in Nat, m <= n,
           NEW h, Begins(h, m, S, c, s), NEW k, Begins(k, n, S, c, s)
    PROVE  h[m] = k[m]
<1> DEFINE T == {i \in Nat : i <= m => h[i] = k[i]}
<1>1. 0 \in T
  BY DEF Begins
<1>2. ASSUME NEW i \in T PROVE i + 1 \in T
  <2>1. CASE i + 1 <= m
    <3>1. i \in 0 .. m - 1 /\ i \in 0 .. n - 1 /\ h[i] = k[i]
      BY <2>1
    <3>2. h[i + 1] = k[i + 1]
      BY <3>1 DEF Begins
    <3>3. QED
      BY <3>2
  <2>2. QED
    BY <2>1
<1> HIDE DEF T
<1>3. T = Nat
  <2>1. T \in SUBSET Nat
    BY DEF T
  <2>2. QED
    BY <1>1, <1>2, <2>1, Induction
<1>4. QED
  BY <1>3 DEF T

\* A function may be defined by its first value and the step to the next.
LEMMA Recursion ==
    ASSUME NEW S, NEW c \in S, NEW s \in [S -> S]
    PROVE  \E g \in [Nat -> S] :
              g[0] = c /\ \A n \in Nat : g[n + 1] = s[g[n]]
<1> DEFINE H(n) == CHOOSE h : Begins(h, n, S, c, s)
           g == [n \in Nat |-> H(n)[n]]
<1>1. \A n \in Nat : Begins(H(n), n, S, c, s)
  BY BeginningExists
<1> HIDE DEF H
<1>2. g \in [Nat -> S]
  <2>1. \A n \in Nat : H(n)[n] \in S
    BY <1>1 DEF Begins
  <2>2. QED
    BY <2>1
<1>3. g[0] = c
  BY <1>1 DEF Begins
<1>4. ASSUME NEW n \in Nat PROVE g[n + 1] = s[g[n]]
  <2>1. H(n + 1)[n + 1] = s[H(n + 1)[n]]
    <3>1. n + 1 \in Nat /\ n \in 0 .. n + 1 - 1
      OBVIOUS
    <3>2. QED
      BY <1>1, <3>1 DEF Begins
  <2>2. H(n)[n] = H(n + 1)[n]
    BY <1>1, BeginningsAgree
  <2>3. QED
    BY <2>1, <2>2
<1> HIDE DEF g
<1>5. QED
  BY <1>2, <1>3, <1>4

-----------------------------------------------------------------------------
(* The arithmetic of the backoff. *)

LEMMA PowersOfTwo ==
    /\ Pow2[0] = 1
    /\ \A n \in Nat : Pow2[n] \in Nat \ {0} /\ Pow2[n + 1] = 2 * Pow2[n]
<1> DEFINE S == Nat \ {0}
           c == 1
           s == [x \in S |-> 2 * x]
<1>1. c \in S /\ s \in [S -> S]
  OBVIOUS
<1> HIDE DEF S, c, s
<1>2. PICK g \in [Nat -> S] : g[0] = c /\ \A n \in Nat : g[n + 1] = s[g[n]]
  BY <1>1, Recursion
<1> USE DEF S, c, s
<1>3. \A n \in Nat : g[n] \in S /\ g[n + 1] = 2 * g[n]
  BY <1>2
<1>4. g = [n \in Nat |-> IF n = 0 THEN 1 ELSE 2 * g[n - 1]]
  <2>1. ASSUME NEW n \in Nat PROVE g[n] = IF n = 0 THEN 1 ELSE 2 * g[n - 1]
    <3>1. CASE n = 0
      BY <1>2, <3>1
    <3>2. CASE n # 0
      <4>1. n - 1 \in Nat /\ (n - 1) + 1 = n
        BY <3>2
      <4>2. g[(n - 1) + 1] = 2 * g[n - 1]
        BY <1>3, <4>1
      <4>3. QED
        BY <3>2, <4>1, <4>2
    <3>3. QED
      BY <3>1, <3>2
  <2>2. QED
    BY <1>2, <2>1
<1>5. Pow2 = [n \in Nat |-> IF n = 0 THEN 1 ELSE 2 * Pow2[n - 1]]
  BY <1>4 DEF Pow2
<1>6. /\ Pow2[0] = 1
      /\ \A n \in Nat : Pow2[n + 1] = 2 * Pow2[n]
  <2>1. \A n \in Nat : Pow2[n] = IF n = 0 THEN 1 ELSE 2 * Pow2[n - 1]
    BY <1>5
  <2>2. ASSUME NEW n \in Nat PROVE Pow2[n + 1] = 2 * Pow2[n]
    <3>1. n + 1 \in Nat /\ n + 1 # 0 /\ (n + 1) - 1 = n
      OBVIOUS
    <3>2. QED
      BY <2>1, <3>1
  <2>3. QED
    BY <2>1, <2>2
<1>7. \A n \in Nat : Pow2[n] \in S
  <2> DEFINE T == {n \in Nat : Pow2[n] \in S}
  <2>1. 0 \in T
    BY <1>6
  <2>2. \A n \in T : n + 1 \in T
    BY <1>6
  <2>3. T \in SUBSET Nat
    OBVIOUS
  <2> HIDE DEF T
  <2>4. T = Nat
    BY <2>1, <2>2, <2>3, Induction
  <2>5. QED
    BY <2>4 DEF T
<1>8. QED
  BY <1>6, <1>7

\* The numbers in use.
LEMMA NumbersInUse ==
    ASSUME env \in Environments
    PROVE  /\ EffectiveMaxAttempts \in Int /\ BigintMax \in Nat
           /\ InitialSec \in Nat \ {0} /\ MaxSec \in Nat \ {0}
           /\ Base = InitialSec /\ Cap = MaxSec /\ InitialSec <= MaxSec
<1>1. \A v \in Variables : Loaded(v) \in Int
  BY EnvironmentsAssumption, UnsetAssumption DEF Loaded
<1>2. EffectiveMaxAttempts \in Int
  BY <1>1 DEF EffectiveMaxAttempts, Variables
<1>3. InitialSec \in Nat \ {0}
  BY <1>1 DEF InitialSec, PositiveOr, Variables
<1>4. PositiveOr(3600, "RetryBackoffMaxSec") \in Nat \ {0}
  BY <1>1 DEF PositiveOr, Variables
<1>5. MaxSec \in Nat \ {0} /\ InitialSec <= MaxSec
  BY <1>3, <1>4 DEF MaxSec, AtLeast
<1>6. Base = InitialSec
  BY <1>3 DEF Base, AtLeast
<1>7. Cap = MaxSec
  BY <1>3, <1>5, <1>6 DEF Cap, AtLeast
<1>8. QED
  BY <1>2, <1>3, <1>5, <1>6, <1>7, BigintAssumption

\* From one failure to the next the double doubles.
LEMMA UncappedDoubles ==
    ASSUME env \in Environments
    PROVE  /\ Uncapped(0) = InitialSec
           /\ \A n \in Nat : /\ Uncapped(n) \in Nat \ {0}
                            /\ Uncapped(n + 1) = 2 * Uncapped(n)
<1>1. Base \in Nat \ {0} /\ Base = InitialSec
  BY NumbersInUse
<1>2. \A x, y \in Nat \ {0} : x * y \in Nat \ {0} /\ x * (2 * y) = 2 * (x * y)
  OBVIOUS
<1>3. Uncapped(0) = Base
  BY <1>1, PowersOfTwo DEF Uncapped
<1>4. \A n \in Nat : Uncapped(n) \in Nat \ {0} /\ Uncapped(n + 1) = 2 * Uncapped(n)
  BY <1>1, <1>2, PowersOfTwo DEF Uncapped
<1>5. QED
  BY <1>1, <1>3, <1>4

\* Capping the double of RecordSendFailure once is capping every doubling.
LEMMA CappedOnce ==
    ASSUME env \in Environments
    PROVE  \A n \in Nat : Capped[n] = AtMost(MaxSec, Uncapped(n))
<1> DEFINE g == [n \in Nat |-> AtMost(MaxSec, Uncapped(n))]
<1>1. MaxSec \in Nat \ {0}
  BY NumbersInUse
<1>2. \A x \in Nat : AtMost(MaxSec, 2 * AtMost(MaxSec, x)) = AtMost(MaxSec, 2 * x)
  BY <1>1 DEF AtMost
<1>3. \A n \in Nat : g[n + 1] = AtMost(MaxSec, 2 * g[n])
  BY <1>2, UncappedDoubles
<1>4. g[0] = AtMost(MaxSec, InitialSec)
  BY UncappedDoubles
<1> HIDE DEF g
<1>5. \A n \in Nat : g[n] = IF n = 0 THEN AtMost(MaxSec, InitialSec)
                                   ELSE AtMost(MaxSec, 2 * g[n - 1])
  <2> TAKE n \in Nat
  <2>1. CASE n = 0
    BY <1>4, <2>1
  <2>2. CASE n # 0
    <3>1. n - 1 \in Nat /\ (n - 1) + 1 = n
      BY <2>2
    <3>2. g[(n - 1) + 1] = AtMost(MaxSec, 2 * g[n - 1])
      BY <1>3, <3>1
    <3>3. QED
      BY <2>2, <3>1, <3>2
  <2>3. QED
    BY <2>1, <2>2
<1>6. g = [n \in Nat |-> IF n = 0 THEN AtMost(MaxSec, InitialSec)
                                  ELSE AtMost(MaxSec, 2 * g[n - 1])]
  <2>1. g = [n \in Nat |-> g[n]]
    BY DEF g
  <2>2. QED
    BY <1>5, <2>1
<1>7. Capped = [n \in Nat |-> IF n = 0 THEN AtMost(MaxSec, InitialSec)
                                       ELSE AtMost(MaxSec, 2 * Capped[n - 1])]
  BY <1>6 DEF Capped
<1> DEFINE T == {n \in Nat : Capped[n] = g[n]}
<1>8. 0 \in T
  BY <1>4, <1>7
<1>9. ASSUME NEW n \in T PROVE n + 1 \in T
  <2>1. n \in Nat /\ n + 1 \in Nat /\ n + 1 # 0 /\ (n + 1) - 1 = n
    OBVIOUS
  <2>2. Capped[n + 1] = AtMost(MaxSec, 2 * Capped[n])
    BY <1>7, <2>1
  <2>3. QED
    BY <1>3, <2>1, <2>2
<1>10. T \in SUBSET Nat
  OBVIOUS
<1> HIDE DEF T
<1>11. T = Nat
  BY <1>8, <1>9, <1>10, Induction
<1>12. QED
  BY <1>11 DEF T, g

-----------------------------------------------------------------------------
(* How often a notification is sent. *)

\* What a notification has seen, as far as its row tells: as long as the
\* backoff of the last failure can be computed, and as soon as the next
\* failure is the last, every send is counted.
Counted ==
    row.status = "PENDING" /\ (Exhausted \/ Uncapped(row.attempts) <= BigintMax)
        => sends = row.attempts

\* The row is a record, whatever its backoff is.
RowShape ==
    row = [status |-> row.status, attempts |-> row.attempts, backoff |-> row.backoff]

CountInv ==
    /\ RowShape
    /\ row.attempts \in Nat /\ sends \in Nat
    /\ sends = 0 => row.attempts = 0
    /\ Counted
    /\ OnlyOverflowExceedsMax

\* The same expressions in the next state, where env has not changed.
LEMMA EnvStays ==
    ASSUME env' = env
    PROVE  /\ EffectiveMaxAttempts' = EffectiveMaxAttempts
           /\ \A n : Uncapped(n)' = Uncapped(n)
BY DEF EffectiveMaxAttempts, Uncapped, Base, InitialSec, PositiveOr, Loaded

LEMMA CountInit == Init => env \in Environments /\ CountInv
<1> SUFFICES ASSUME Init PROVE env \in Environments /\ CountInv
  OBVIOUS
<1>1. EffectiveMaxAttempts \in Int /\ row.attempts = 0 /\ sends = 0
  BY NumbersInUse, UncappedDoubles DEF Init
<1>2. QED
  BY <1>1 DEF Init, CountInv, RowShape, Counted, OnlyOverflowExceedsMax, AtLeast

LEMMA CountStep ==
    ASSUME env \in Environments, CountInv, [Next]_vars
    PROVE  env' \in Environments /\ CountInv'
<1> DEFINE M == EffectiveMaxAttempts
           a == row.attempts
<1>0. /\ M \in Int /\ BigintMax \in Int /\ a \in Nat /\ sends \in Nat
      /\ \A n \in Nat : Uncapped(n) \in Int
  BY NumbersInUse, UncappedDoubles DEF CountInv
<1>1. env' = env
  BY DEF Next, SendFails, SendSucceeds, vars
<1>2. M' = M /\ \A n : Uncapped(n)' = Uncapped(n)
  BY <1>1, EnvStays
<1>3. CASE UNCHANGED vars
  BY <1>1, <1>2, <1>3 DEF vars, CountInv, RowShape, Counted, Exhausted, OnlyOverflowExceedsMax
<1>4. CASE Next
  <2>1. /\ row.status = "PENDING" /\ sends' = sends + 1
        /\ sends = 0 \/ (a >= 1 /\ a < M)
    BY <1>4 DEF Next, SendFails, SendSucceeds, Sendable
  <2>2. sends = 0 => a = 0
    BY DEF CountInv
  <2>3. Exhausted \/ Uncapped(a) <= BigintMax => sends = a
    BY <2>1 DEF CountInv, Counted
  <2>4. \/ /\ Exhausted /\ row'.status = "FAILED" /\ row'.attempts = a + 1
        \/ /\ Uncapped(a) <= BigintMax /\ ~Exhausted /\ row'.attempts = a + 1
        \/ /\ ~Exhausted /\ Uncapped(a) > BigintMax /\ row' = row
        \/ /\ row'.status = "COMPLETED"
           /\ row'.attempts = IF sends = 0 THEN 1 ELSE a
    <3>1. CASE SendFails
      BY <3>1 DEF SendFails, RecordSendFailure, Fail
    <3>2. CASE SendSucceeds
      <4> DEFINE t == IF sends = 0 THEN 1 ELSE a
      <4>1. row' = [[row EXCEPT !.status = "COMPLETED"] EXCEPT !.attempts = t]
        BY <3>2 DEF SendSucceeds
      <4> HIDE DEF t
      <4>2. PICK st, at, b : row = [status |-> st, attempts |-> at, backoff |-> b]
        BY DEF CountInv, RowShape
      <4>3. row' = [status |-> "COMPLETED", attempts |-> t, backoff |-> b]
        BY <4>1, <4>2
      <4>4. row'.status = "COMPLETED" /\ row'.attempts = t
        BY <4>3
      <4>5. QED
        BY <4>4 DEF t
    <3>3. QED
      BY <1>4, <3>1, <3>2 DEF Next
  <2>5. Exhausted <=> a + 1 >= M
    BY DEF Exhausted
  <2> DEFINE U == Uncapped(a)
             L == AtLeast(1, M)
  <2>6. L \in Int /\ 1 <= L /\ M <= L
    BY <1>0 DEF AtLeast
  <2> HIDE DEF M, a, U, L
  <2> SUFFICES /\ RowShape'
               /\ row'.attempts \in Nat /\ sends' \in Nat
               /\ sends' = 0 => row'.attempts = 0
               /\ Counted'
               /\ sends' > L => Uncapped(row'.attempts) > BigintMax
    BY <1>1, <1>2 DEF CountInv, OnlyOverflowExceedsMax, M, L
  <2>7. row'.attempts \in Nat /\ sends' \in Nat /\ sends' # 0
    BY <1>0, <2>1, <2>4 DEF a
  <2>8. Counted'
    <3> SUFFICES ASSUME row'.status = "PENDING",
                        Exhausted' \/ Uncapped(row'.attempts) <= BigintMax
                 PROVE  sends' = row'.attempts
      BY <1>2 DEF Counted
    <3>1. CASE Uncapped(a) <= BigintMax /\ ~Exhausted /\ row'.attempts = a + 1
      BY <1>0, <2>1, <2>3, <3>1
    <3>2. CASE ~Exhausted /\ Uncapped(a) > BigintMax /\ row' = row
      <4>1. ~Exhausted'
        BY <1>2, <3>2 DEF Exhausted, M
      <4>2. row'.attempts = a
        BY <3>2 DEF a
      <4>3. ~(Uncapped(a) <= BigintMax)
        BY <1>0, <3>2
      <4>4. QED
        BY <4>1, <4>2, <4>3
    <3>3. QED
      BY <2>4, <3>1, <3>2
  <2>9. ASSUME sends' > L PROVE Uncapped(row'.attempts) > BigintMax
    <3>1. sends # 0 /\ a >= 1 /\ a < M /\ sends + 1 > L
      BY <1>0, <2>1, <2>6, <2>9
    <3>2. sends # a
      BY <1>0, <2>6, <3>1
    <3>3. ~Exhausted /\ ~(Uncapped(a) <= BigintMax)
      BY <2>3, <3>2
    <3>4. row'.attempts = a
      BY <2>4, <3>1, <3>3 DEF a
    <3>5. Uncapped(a) > BigintMax
      BY <1>0, <3>3
    <3>6. QED
      BY <3>4, <3>5
  <2>10. RowShape'
    <3>1. CASE SendFails
      BY <3>1 DEF SendFails, RecordSendFailure, Fail, RowShape, CountInv
    <3>2. CASE SendSucceeds
      <4>1. PICK st, at, b : row = [status |-> st, attempts |-> at, backoff |-> b]
        BY DEF CountInv, RowShape
      <4>2. \E x, y : row' = [[row EXCEPT !.status = x] EXCEPT !.attempts = y]
        BY <3>2 DEF SendSucceeds
      <4>3. \E x, y : row' = [status |-> x, attempts |-> y, backoff |-> b]
        BY <4>1, <4>2
      <4>4. QED
        BY <4>3 DEF RowShape
    <3>3. QED
      BY <1>4, <3>1, <3>2 DEF Next
  <2>11. QED
    BY <2>7, <2>8, <2>9, <2>10
<1>5. QED
  BY <1>1, <1>3, <1>4

\* However the environment is set, more sends than MaxAttempts are tried only
\* once the double of RecordSendFailure, before the cap, is beyond a bigint.
THEOREM OverflowAloneExceedsMax == Spec => []OnlyOverflowExceedsMax
<1> DEFINE Inv == env \in Environments /\ CountInv
<1>1. Init => Inv
  BY CountInit
<1>2. Inv /\ [Next]_vars => Inv'
  BY CountStep
<1>3. Inv => OnlyOverflowExceedsMax
  BY DEF CountInv
<1>4. QED
  BY <1>1, <1>2, <1>3, PTL DEF Spec

-----------------------------------------------------------------------------
(* What is written for the backoff. *)

\* The same expressions in the next state.
LEMMA CappedStays ==
    ASSUME env' = env
    PROVE  Capped' = Capped
BY DEF Capped, MaxSec, InitialSec, PositiveOr, Loaded

LEMMA BackoffFits ==
    ASSUME env \in Environments, NEW n \in Nat, Uncapped(n) <= BigintMax
    PROVE  AtMost(Cap, Uncapped(n)) \in 0 .. BigintMax
BY NumbersInUse, UncappedDoubles DEF AtMost

LEMMA TypeStep ==
    ASSUME TypeOK, [Next]_vars
    PROVE  TypeOK'
<1>1. row.attempts \in Nat /\ row.backoff \in 0 .. BigintMax /\ env \in Environments
  BY DEF TypeOK, Rows
<1>2. CASE SendFails
  <2>1. row' \in Rows
    <3>1. CASE Fail("FAILED", row.backoff)
      BY <1>1, <3>1 DEF Fail, Rows
    <3>2. CASE /\ Uncapped(row.attempts) <= BigintMax
               /\ Fail("PENDING", AtMost(Cap, Uncapped(row.attempts)))
      BY <1>1, <3>2, BackoffFits DEF Fail, Rows
    <3>3. CASE row' = row
      BY <3>3 DEF TypeOK
    <3>4. QED
      BY <1>2, <3>1, <3>2, <3>3 DEF SendFails, RecordSendFailure
  <2>2. QED
    BY <1>2, <2>1, BigintAssumption DEF SendFails, TypeOK
<1>3. CASE SendSucceeds
  <2>1. row' \in Rows
    BY <1>3 DEF SendSucceeds, TypeOK, Rows
  <2>2. QED
    BY <1>3, <2>1, BigintAssumption DEF SendSucceeds, TypeOK
<1>4. CASE UNCHANGED vars
  BY <1>4 DEF vars, TypeOK
<1>5. QED
  BY <1>2, <1>3, <1>4 DEF Next

LEMMA TypeInit == Init => TypeOK
BY BigintAssumption DEF Init, TypeOK, Rows

\* However the environment is set and however often sends fail, what is written
\* for the backoff is never beyond a bigint.
THEOREM TypeCorrect == Spec => []TypeOK
<1>1. QED
  BY TypeInit, TypeStep, PTL DEF Spec

LEMMA BackoffStep ==
    ASSUME TypeOK, BackoffIsCappedDoubling, [Next]_vars
    PROVE  BackoffIsCappedDoubling'
<1>0. /\ row.attempts \in Nat /\ env \in Environments /\ row \in Rows
      /\ env' = env
  BY DEF TypeOK, Rows, Next, SendFails, SendSucceeds, vars
<1>1. Capped' = Capped
  BY <1>0, CappedStays
<1>2. CASE row' = row
  BY <1>1, <1>2 DEF BackoffIsCappedDoubling
<1>3. CASE row'.status # "PENDING"
  BY <1>3 DEF BackoffIsCappedDoubling
<1>4. CASE Fail("PENDING", AtMost(Cap, Uncapped(row.attempts)))
  <2>1. /\ row'.attempts = row.attempts + 1
        /\ row'.backoff = AtMost(MaxSec, Uncapped(row.attempts))
    BY <1>0, <1>4, NumbersInUse DEF Fail
  <2>2. row'.backoff = Capped[row'.attempts - 1]
    BY <1>0, <2>1, CappedOnce
  <2>3. QED
    BY <1>1, <2>2 DEF BackoffIsCappedDoubling
<1>5. CASE Fail("FAILED", row.backoff)
  BY <1>5 DEF Fail, BackoffIsCappedDoubling
<1>6. CASE SendSucceeds
  BY <1>0, <1>3, <1>6 DEF SendSucceeds, Rows
<1>7. QED
  BY <1>2, <1>4, <1>5, <1>6 DEF Next, SendFails, RecordSendFailure, vars

\* However the environment is set, a row that waits for a retry has the backoff
\* that is documented: RecordSendFailure, which caps a power of two once, and
\* only then, writes what doubling from failure to failure and capping does.
THEOREM BackoffDoubles == Spec => []BackoffIsCappedDoubling
<1>1. Init => BackoffIsCappedDoubling
  BY DEF Init, BackoffIsCappedDoubling
<1>2. TypeOK /\ BackoffIsCappedDoubling /\ [Next]_vars => BackoffIsCappedDoubling'
  BY BackoffStep
<1>3. QED
  BY <1>1, <1>2, TypeCorrect, PTL DEF Spec

\* The next retry of a row is always in the future, and no further away than the
\* cap, which is what the pipeline's modules assume of Backoff.
BackoffTakesTime ==
    row.status = "PENDING" /\ row.attempts >= 1 => row.backoff \in 1 .. MaxSec

\* However the environment is set, RecordSendFailure never writes a retry that is
\* due at once: a row that has failed is left alone for a second at least.
THEOREM RetryIsLater == Spec => []BackoffTakesTime
<1>1. TypeOK /\ BackoffIsCappedDoubling => BackoffTakesTime
  <2> SUFFICES ASSUME TypeOK, BackoffIsCappedDoubling,
                      row.status = "PENDING", row.attempts >= 1
               PROVE  row.backoff \in 1 .. MaxSec
    BY DEF BackoffTakesTime
  <2>1. env \in Environments /\ row.attempts - 1 \in Nat
    BY DEF TypeOK, Rows
  <2>2. /\ row.backoff = AtMost(MaxSec, Uncapped(row.attempts - 1))
        /\ Uncapped(row.attempts - 1) \in Nat \ {0} /\ MaxSec \in Nat \ {0}
    BY <2>1, CappedOnce, UncappedDoubles, NumbersInUse DEF BackoffIsCappedDoubling
  <2>3. QED
    BY <2>2 DEF AtMost
<1>2. QED
  BY <1>1, TypeCorrect, BackoffDoubles, PTL

=============================================================================
