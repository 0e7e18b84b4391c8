-------------------------- MODULE Recurrence_proofs --------------------------
(***************************************************************************)
(* Facts about the operators of Recurrence, for every calendar, offset and *)
(* rule: what they return, and how the occurrences a cron turns into a     *)
(* backlog relate to the next due date it computes at the same instant.    *)
(***************************************************************************)
EXTENDS Recurrence, FiniteSetTheorems, SequenceTheorems,
        WellFoundedInduction, TLAPS

\* A non-empty set of numbers has a least one: the first in calendar order, or
\* the first row of an ORDER BY id.
LEMMA LeastExists ==
  ASSUME NEW S, S \subseteq Nat, S # {}
  PROVE  \E x \in S : \A y \in S : x <= y
<1> DEFINE R == {ss \in Nat \X Nat : ss[1] < ss[2]}
<1>1. IsWellFoundedOn(R, Nat)
  BY NatLessThanWellFounded DEF OpToRel
<1>2. \E x \in S : \A y \in S : <<y, x>> \notin R
  <2> HIDE DEF R
  <2> QED BY <1>1, WFMin
<1>3. PICK x \in S : \A y \in S : <<y, x>> \notin R
  BY <1>2
<1>4. ASSUME NEW y \in S PROVE x <= y
  <2>1. x \in Nat /\ y \in Nat /\ <<y, x>> \notin R
    BY <1>3
  <2>2. ~ (y < x)
    BY <2>1
  <2> QED BY <2>1, <2>2
<1> QED BY <1>3, <1>4

\* Least returns that element.
LEMMA LeastProperty ==
  ASSUME NEW S, S \subseteq Nat, S # {}
  PROVE  Least(S) \in S /\ \A y \in S : Least(S) <= y
BY LeastExists DEF Least

\* Earliest returns a day of the set, or no day exactly when it is empty.
LEMMA EarliestProperty ==
  ASSUME NEW S, S \subseteq Days
  PROVE  /\ Earliest(S) \in Days \cup {NoDay}
         /\ Earliest(S) = NoDay <=> S = {}
         /\ S # {} => Earliest(S) \in S /\ \A e \in S : Earliest(S) <= e
<1>1. S \subseteq Nat
  BY CalendarAssumption DEF Days
<1>2. CASE S = {}
  BY <1>2 DEF Earliest
<1>3. CASE S # {}
  <2>1. Least(S) \in S /\ \A y \in S : Least(S) <= y
    BY <1>1, <1>3, LeastProperty
  <2>2. Earliest(S) = Least(S)
    BY <1>3 DEF Earliest
  <2>3. Earliest(S) \in Days /\ NoDay \notin Days
    <3>1. Earliest(S) \in Days
      BY <2>1, <2>2
    <3>2. NoDay \notin Days
      BY CalendarAssumption DEF Days, NoDay
    <3> QED BY <3>1, <3>2
  <2> QED BY <1>3, <2>1, <2>2, <2>3
<1> QED BY <1>2, <1>3

\* The UTC date of an instant the model knows is a day it knows.
LEMMA UTCDateType ==
  ASSUME NEW t \in Times
  PROVE  UTCDate(t) \in Days
<1>1. /\ LastDay \in Nat /\ DayLen \in Nat /\ DayLen > 0
      /\ t \in Nat /\ t < (LastDay + 1) * DayLen
  <2>1. (LastDay + 1) * DayLen \in Int
    BY CalendarAssumption
  <2> QED BY <2>1, CalendarAssumption DEF Times
<1> DEFINE q == t \div DayLen
<1>2. q \in Nat /\ q * DayLen <= t
  BY <1>1
<1>3. ASSUME q > LastDay PROVE FALSE
  <2>1. q >= LastDay + 1
    BY <1>1, <1>2, <1>3
  <2>2. q * DayLen >= (LastDay + 1) * DayLen
    <3> HIDE DEF q
    <3> QED BY <1>1, <1>2, <2>1
  <2> QED BY <1>1, <1>2, <2>2
<1> QED BY <1>1, <1>2, <1>3 DEF UTCDate, Days

\* Both sets of occurrences are sets of days.
LEMMA OccurrencesType ==
  ASSUME NEW r \in RRules, NEW d \in Days \cup {NoDay}, NEW t \in Times
  PROVE  /\ LaterOccurrences(r, d, t) \subseteq Days
         /\ d # NoDay => MissedOccurrences(r, d, t) \subseteq Days
<1>1. UTCDate(t) \in Days
  BY UTCDateType
<1> QED
  BY <1>1, CalendarAssumption DEF LaterOccurrences, MissedOccurrences

\* ComputeNextDueAt returns a day of the calendar or none.
LEMMA NextDueType ==
  ASSUME NEW r \in RRules, NEW d \in Days \cup {NoDay}, NEW t \in Times
  PROVE  NextDue(r, d, t) \in Days \cup {NoDay}
BY OccurrencesType, EarliestProperty DEF NextDue

LEMMA AfterCompletionType ==
  ASSUME NEW r \in RRules, NEW d \in Days \cup {NoDay}, NEW t \in Times
  PROVE  AfterCompletion(r, d, t) \in Days \cup {NoDay}
<1> DEFINE today == IF d = NoDay THEN UTCDate(t) ELSE LocalDate(t)
           later == {e \in Days : today \in Days /\ e \in Occurs[r][today] /\ e > today}
<1>1. later \subseteq Days
  OBVIOUS
<1>2. AfterCompletion(r, d, t) = Earliest(later)
  BY DEF AfterCompletion
<1> HIDE DEF later
<1> QED BY <1>1, <1>2, EarliestProperty

LEMMA NextType ==
  ASSUME NEW type, NEW r, type \in Recurring => r \in RRules,
         NEW d \in Days \cup {NoDay}, NEW t \in Times
  PROVE  ComputeNextDueAt(type, r, d, t) \in Days \cup {NoDay}
<1>1. CASE type \in {Fixed, Accumulating}
  BY <1>1, NextDueType
     DEF ComputeNextDueAt, Recurring, InPlace, Completion, Fixed, Accumulating
<1>2. CASE type = Completion
  BY <1>2, AfterCompletionType
     DEF ComputeNextDueAt, Recurring, InPlace, Completion, Fixed, Accumulating
<1>3. CASE type \notin {Fixed, Accumulating, Completion}
  BY <1>3 DEF ComputeNextDueAt
<1> QED BY <1>1, <1>2, <1>3

\* Numbers of days: a set of days is finite.
LEMMA DaysFinite ==
  ASSUME NEW S, S \subseteq Days
  PROVE  IsFiniteSet(S) /\ Cardinality(S) \in Nat
<1>1. IsFiniteSet(Days)
  BY CalendarAssumption, FS_Interval DEF Days
<1>2. IsFiniteSet(S)
  BY <1>1, FS_Subset
<1> QED BY <1>2, FS_CardinalityType

LEMMA NthDayType ==
  ASSUME NEW S, S \subseteq Days, NEW k
  PROVE  NthDay(S, k) \in Days \cup {NoDay}
BY EarliestProperty DEF NthDay

\* The turn of a rotation pool is one of its users, and none only if it is
\* empty.
LEMMA AdvanceRotationType ==
  ASSUME NEW U, U \subseteq Nat, NEW pool \in Seq(U),
         NEW current \in SUBSET U, NEW step \in Nat
  PROVE  /\ AdvanceRotation(pool, current, step) \subseteq U
         /\ pool # <<>> => \E u \in U :
              AdvanceRotation(pool, current, step) = {u}
<1> DEFINE known == {u \in current : \E i \in DOMAIN pool : pool[i] = u}
           base  == IF known = {} THEN 0 ELSE PlaceOf(pool, Least(known))
<1>1. CASE pool = <<>>
  BY <1>1 DEF AdvanceRotation
<1>2. CASE pool # <<>>
  <2>1. Len(pool) \in Nat \ {0} /\ DOMAIN pool = 1 .. Len(pool)
    BY <1>2, EmptySeq, LenProperties
  <2>2. base \in Nat
    <3>1. CASE known # {}
      <4>1. Least(known) \in known
        <5> HIDE DEF known
        <5>1. known \subseteq Nat
          BY DEF known
        <5> QED BY <3>1, <5>1, LeastProperty
      <4>2. PlaceOf(pool, Least(known)) \in DOMAIN pool
        BY <4>1 DEF PlaceOf
      <4> QED BY <3>1, <4>2, <2>1
    <3> QED BY <3>1
  <2> HIDE DEF base
  <2>3. 1 + ((base + step) % Len(pool)) \in 1 .. Len(pool)
    BY <2>1, <2>2
  <2>4. pool[1 + ((base + step) % Len(pool))] \in U
    BY <2>3, ElementOfSeq
  <2>5. AdvanceRotation(pool, current, step)
          = {pool[1 + ((base + step) % Len(pool))]}
    BY <1>2 DEF AdvanceRotation, base, known
  <2> QED BY <2>4, <2>5
<1> QED BY <1>1, <1>2

-----------------------------------------------------------------------------
(***************************************************************************)
(* The turns of a pool come one after the other.                           *)
(***************************************************************************)
LEMMA DivMod ==
  ASSUME NEW x \in Nat, NEW n \in Nat \ {0}
  PROVE  x \div n \in Nat /\ x % n \in 0 .. n-1 /\ x = (n * (x \div n)) + (x % n)
OBVIOUS

LEMMA ModUnique ==
  ASSUME NEW q \in Nat, NEW r \in Nat, NEW n \in Nat \ {0}, r < n
  PROVE  (n * q + r) % n = r
<1> DEFINE x == n * q + r
<1>1. x \in Nat
  OBVIOUS
<1> DEFINE p == x \div n
           s == x % n
<1>2. p \in Nat /\ s \in 0 .. n - 1 /\ x = n * p + s
  BY <1>1, DivMod
<1> HIDE DEF p, s
<1>3. n * q + r = n * p + s
  BY <1>2
<1>4. n * (q - p) = s - r
  BY <1>2, <1>3
<1>5. q - p = 0
  <2> DEFINE d == q - p
  <2>1. d \in Int /\ n * d = s - r /\ n * d < n /\ n * d > - n
    BY <1>2, <1>4
  <2> HIDE DEF d
  <2>2. CASE d >= 1
    BY <2>1, <2>2
  <2>3. CASE d <= -1
    BY <2>1, <2>3
  <2> QED BY <2>1, <2>2, <2>3 DEF d
<1>6. s = r
  BY <1>2, <1>4, <1>5
<1> QED BY <1>6 DEF s

LEMMA NextMod ==
  ASSUME NEW x \in Nat, NEW n \in Nat \ {0}
  PROVE  (x + 1) % n = IF x % n = n - 1 THEN 0 ELSE (x % n) + 1
<1> DEFINE q == x \div n
           r == x % n
<1>1. q \in Nat /\ r \in 0 .. n - 1 /\ x = n * q + r
  BY DivMod
<1> HIDE DEF q, r
<1>2. CASE r = n - 1
  <2>1. x + 1 = n * (q + 1) + 0 /\ q + 1 \in Nat /\ 0 \in Nat /\ 0 < n
    BY <1>1, <1>2
  <2>2. (n * (q + 1) + 0) % n = 0
    BY <2>1, ModUnique
  <2> QED BY <2>1, <2>2, <1>2 DEF r
<1>3. CASE r # n - 1
  <2>1. x + 1 = n * q + (r + 1) /\ r + 1 \in Nat /\ r + 1 < n
    BY <1>1, <1>3
  <2>2. (n * q + (r + 1)) % n = r + 1
    BY <1>1, <2>1, ModUnique
  <2> QED BY <2>1, <2>2, <1>3 DEF r
<1> QED BY <1>2, <1>3

\* The turn of one more step is the next place, or the first after the last.
LEMMA NextPlace ==
  ASSUME NEW n \in Nat \ {0}, NEW x \in Nat
  PROVE  LET p == 1 + (x % n)
         IN  p \in 1 .. n /\ 1 + ((x + 1) % n) = IF p = n THEN 1 ELSE p + 1
<1>1. x % n \in 0 .. n - 1
  BY DivMod
<1>2. (x + 1) % n = IF x % n = n - 1 THEN 0 ELSE (x % n) + 1
  BY NextMod
<1> DEFINE r == x % n
           q == (x + 1) % n
<1>3. r \in 0 .. n - 1 /\ q = IF r = n - 1 THEN 0 ELSE r + 1
  BY <1>1, <1>2
<1> HIDE DEF r, q
<1>4. 1 + r \in 1 .. n /\ 1 + q = IF 1 + r = n THEN 1 ELSE (1 + r) + 1
  BY <1>3
<1> QED BY <1>4 DEF r, q

LEMMA FirstPlace ==
  ASSUME NEW n \in Nat \ {0}, NEW b \in 1 .. n
  PROVE  1 + (b % n) = IF b = n THEN 1 ELSE b + 1
<1>1. CASE b = n
  <2>1. b = n * 1 + 0 /\ 0 \in Nat /\ 1 \in Nat /\ 0 < n
    BY <1>1
  <2> QED BY <1>1, <2>1, ModUnique
<1>2. CASE b # n
  <2>1. b = n * 0 + b /\ 0 \in Nat /\ b \in Nat /\ b < n
    BY <1>2
  <2>2. b % n = b
    BY <2>1, ModUnique
  <2> QED BY <1>2, <2>2
<1> QED BY <1>1, <1>2

\* The turns are the places after that of somebody who has the task now, or
\* from the first if none of those is in the pool.
TurnsAfter(pool, current, b) ==
  /\ IF b = 0 THEN \A q \in DOMAIN pool : pool[q] \notin current
     ELSE pool[b] \in current
  /\ \A step \in Nat : AdvanceRotation(pool, current, step)
                         = {pool[1 + ((b + step) % Len(pool))]}

LEMMA RotationGoesOn ==
  ASSUME NEW U, U \subseteq Nat, NEW pool \in Seq(U), pool # <<>>,
         NEW current \in SUBSET U
  PROVE  \E b \in 0 .. Len(pool) : TurnsAfter(pool, current, b)
<1> DEFINE known == {u \in current : \E i \in DOMAIN pool : pool[i] = u}
           b == IF known = {} THEN 0 ELSE PlaceOf(pool, Least(known))
<1>1. DOMAIN pool = 1 .. Len(pool) /\ Len(pool) \in Nat \ {0}
  BY LenProperties, EmptySeq
<1>2. \A step \in Nat : AdvanceRotation(pool, current, step)
                         = {pool[1 + ((b + step) % Len(pool))]}
  BY DEF AdvanceRotation
<1>3. CASE known = {}
  <2>1. \A q \in DOMAIN pool : pool[q] \notin current
    BY <1>3
  <2>2. b = 0 /\ 0 \in 0 .. Len(pool)
    BY <1>1, <1>3
  <2> HIDE DEF b
  <2> QED BY <1>2, <2>1, <2>2 DEF TurnsAfter
<1>4. CASE known # {}
  <2>1. Least(known) \in known
    <3> HIDE DEF known
    <3>1. known \subseteq Nat
      BY DEF known
    <3> QED BY <1>4, <3>1, LeastProperty
  <2>2. b \in DOMAIN pool /\ pool[b] = Least(known)
    BY <1>4, <2>1 DEF PlaceOf
  <2>3. b \in 0 .. Len(pool) /\ b # 0 /\ pool[b] \in current
    BY <1>1, <2>1, <2>2
  <2> HIDE DEF b
  <2> QED BY <1>2, <2>3 DEF TurnsAfter
<1> QED BY <1>3, <1>4

\* Of n numbers in a row exactly one has a given remainder modulo n.
HitOnce(n, x, r) ==
  \E k \in 0 .. n - 1 : \A m \in 0 .. n - 1 : (x + m) % n = r <=> m = k

LEMMA OneInARow ==
  ASSUME NEW n \in Nat \ {0}, NEW x \in Nat, NEW r \in 0 .. n - 1
  PROVE  HitOnce(n, x, r)
<1> DEFINE q == x \div n
           o == x % n
<1>1. q \in Nat /\ o \in 0 .. n - 1 /\ x = n * q + o
  BY DivMod
<1> HIDE DEF q, o
<1>2. ASSUME NEW m \in 0 .. n - 1
      PROVE  (x + m) % n = IF o + m < n THEN o + m ELSE o + m - n
  <2>1. CASE o + m < n
    <3>1. x + m = n * q + (o + m) /\ o + m \in Nat
      BY <1>1
    <3>2. (n * q + (o + m)) % n = o + m
      BY <1>1, <2>1, <3>1, ModUnique
    <3> QED BY <2>1, <3>1, <3>2
  <2>2. CASE ~ (o + m < n)
    <3>1. /\ x + m = n * (q + 1) + (o + m - n)
          /\ o + m - n \in Nat /\ o + m - n < n /\ q + 1 \in Nat
      BY <1>1, <2>2
    <3>2. (n * (q + 1) + (o + m - n)) % n = o + m - n
      BY <3>1, ModUnique
    <3> QED BY <2>2, <3>1, <3>2
  <2> QED BY <2>1, <2>2
<1> DEFINE k == IF o <= r THEN r - o ELSE r - o + n
<1>3. k \in 0 .. n - 1
  BY <1>1
<1>4. ASSUME NEW m \in 0 .. n - 1 PROVE (x + m) % n = r <=> m = k
  <2> DEFINE y == (x + m) % n
  <2>1. y = IF o + m < n THEN o + m ELSE o + m - n
    BY <1>2
  <2> HIDE DEF y
  <2>2. y = r <=> m = k
    BY <1>1, <2>1
  <2> QED BY <2>2 DEF y
<1> QED BY <1>3, <1>4 DEF HitOnce

\* Rotation is fair: whoever the task is assigned to now, and however many
\* turns a tick skips first, in as many turns as the pool has members each of
\* them has exactly one.
THEOREM RotationIsFair ==
  ASSUME NEW U, U \subseteq Nat, NEW pool \in Seq(U),
         \A i, j \in 1 .. Len(pool) : pool[i] = pool[j] => i = j,
         NEW current \in SUBSET U, NEW first \in Nat,
         NEW member \in 1 .. Len(pool)
  PROVE  \E k \in 0 .. Len(pool) - 1 :
           \A m \in 0 .. Len(pool) - 1 :
             AdvanceRotation(pool, current, first + m) = {pool[member]} <=> m = k
<1> DEFINE known == {u \in current : \E i \in DOMAIN pool : pool[i] = u}
           base  == IF known = {} THEN 0 ELSE PlaceOf(pool, Least(known))
           n     == Len(pool)
<1>1. n \in Nat \ {0} /\ DOMAIN pool = 1 .. n /\ pool # <<>>
  BY EmptySeq, LenProperties
<1>2. base \in Nat
  <2>1. CASE known # {}
    <3>1. Least(known) \in known
      <4> HIDE DEF known
      <4>1. known \subseteq Nat
        BY DEF known
      <4> QED BY <2>1, <4>1, LeastProperty
    <3>2. PlaceOf(pool, Least(known)) \in DOMAIN pool
      BY <3>1 DEF PlaceOf
    <3> QED BY <1>1, <2>1, <3>2
  <2> QED BY <2>1
<1>3. ASSUME NEW m \in 0 .. n - 1
      PROVE  AdvanceRotation(pool, current, first + m)
               = {pool[1 + ((base + (first + m)) % n)]}
  BY <1>1 DEF AdvanceRotation
<1> HIDE DEF base, n
<1> DEFINE x == base + first
<1>4. x \in Nat /\ member - 1 \in 0 .. n - 1
      /\ \A m \in 0 .. n - 1 : base + (first + m) = x + m
  BY <1>1, <1>2 DEF n
<1> HIDE DEF x
<1>5. PICK k \in 0 .. n - 1 :
        \A m \in 0 .. n - 1 : (x + m) % n = member - 1 <=> m = k
  <2> DEFINE s == member - 1
  <2>1. s \in 0 .. n - 1
    BY <1>4
  <2> HIDE DEF s
  <2>2. n \in Nat \ {0} /\ x \in Nat
    BY <1>1, <1>4
  <2>3. HitOnce(n, x, s)
    BY <2>1, <2>2, OneInARow
  <2> QED BY <2>3 DEF HitOnce, s
<1>6. ASSUME NEW m \in 0 .. n - 1
      PROVE  AdvanceRotation(pool, current, first + m) = {pool[member]} <=> m = k
  <2> DEFINE y == (x + m) % n
  <2>1. AdvanceRotation(pool, current, first + m) = {pool[1 + y]}
    BY <1>3, <1>4
  <2>2. y \in 0 .. n - 1
    <3>1. x + m \in Nat
      BY <1>1, <1>4
    <3> QED BY <1>1, <3>1, DivMod
  <2> HIDE DEF y
  <2>3. pool[1 + y] = pool[member] <=> y = member - 1
    <3>1. 1 + y \in 1 .. Len(pool)
      BY <1>1, <2>2 DEF n
    <3>2. pool[1 + y] = pool[member] => 1 + y = member
      BY <3>1
    <3> QED BY <2>2, <3>2, <1>1
  <2>4. y = member - 1 <=> m = k
    BY <1>5 DEF y
  <2> QED BY <2>1, <2>3, <2>4
<1> QED BY <1>6 DEF n

-----------------------------------------------------------------------------
(***************************************************************************)
(* The days of a set in calendar order.                                    *)
(***************************************************************************)
\* A non-empty set of days has a last one.
LEMMA LastExists ==
  ASSUME NEW S, S \subseteq Days, S # {}
  PROVE  \E x \in S : \A y \in S : y <= x
<1> DEFINE R == {LastDay - x : x \in S}
<1>1. LastDay \in Nat /\ \A x \in S : x \in Nat /\ x <= LastDay
  BY CalendarAssumption DEF Days
<1>2. R \subseteq Nat /\ R # {}
  BY <1>1
<1> HIDE DEF R
<1>3. PICK r \in R : \A q \in R : r <= q
  BY <1>2, LeastExists
<1>4. PICK x \in S : r = LastDay - x
  BY DEF R
<1>5. ASSUME NEW y \in S PROVE y <= x
  <2>1. LastDay - y \in R
    BY DEF R
  <2>2. LastDay - x <= LastDay - y
    BY <1>3, <1>4, <2>1
  <2> QED BY <1>1, <2>2
<1> QED BY <1>5

\* The k-th day is a day of the set, and k of its days come no later.
LEMMA NthDayRank ==
  ASSUME NEW S, S \subseteq Days, NEW k \in 1 .. Cardinality(S)
  PROVE  /\ NthDay(S, k) \in S
         /\ Cardinality({e \in S : e <= NthDay(S, k)}) = k
<1> DEFINE UpTo(d) == {e \in S : e <= d}
           D == {d \in S : Cardinality(UpTo(d)) >= k}
           m == NthDay(S, k)
<1>1. /\ \A x \in S : x \in Nat
      /\ IsFiniteSet(S) /\ Cardinality(S) \in Nat /\ k \in Nat \ {0}
      /\ \A d : IsFiniteSet(UpTo(d)) /\ Cardinality(UpTo(d)) \in Nat
  <2>1. \A x \in S : x \in Nat
    BY CalendarAssumption DEF Days
  <2>2. IsFiniteSet(S) /\ Cardinality(S) \in Nat
    BY DaysFinite
  <2>3. ASSUME NEW d
        PROVE  IsFiniteSet(UpTo(d)) /\ Cardinality(UpTo(d)) \in Nat
    <3>1. UpTo(d) \subseteq Days
      OBVIOUS
    <3> HIDE DEF UpTo
    <3> QED BY <3>1, DaysFinite
  <2> QED BY <2>1, <2>2, <2>3
<1>2. D # {}
  <2>1. S # {}
    BY <1>1, FS_EmptySet
  <2>2. PICK x \in S : \A y \in S : y <= x
    BY <2>1, LastExists
  <2>3. UpTo(x) = S
    BY <2>2
  <2>4. x \in D
    BY <1>1, <2>3
  <2> QED BY <2>4
<1>3. D \subseteq Days /\ D \subseteq S
  OBVIOUS
<1>4. m \in D /\ \A e \in D : m <= e
  <2>1. m = Earliest(D)
    BY DEF NthDay
  <2> HIDE DEF m, D
  <2> QED BY <1>2, <1>3, <2>1, EarliestProperty
<1> HIDE DEF m
<1>5. m \in S /\ m \in Nat /\ Cardinality(UpTo(m)) >= k
  <2>1. m \in S /\ Cardinality(UpTo(m)) >= k
    BY <1>4
  <2> QED BY <1>1, <2>1
<1>6. ASSUME Cardinality(UpTo(m)) # k PROVE FALSE
  <2> DEFINE T == UpTo(m) \ {m}
  <2>1. m \in UpTo(m) /\ T = {e \in S : e < m}
    <3>1. m \in S /\ m \in Nat /\ \A x \in S : x \in Nat
      BY <1>1, <1>5
    <3>2. ASSUME NEW e \in S PROVE e < m <=> e <= m /\ e # m
      BY <3>1
    <3>3. m <= m
      BY <3>1
    <3> QED BY <3>1, <3>2, <3>3
  <2>2. IsFiniteSet(T) /\ Cardinality(T) = Cardinality(UpTo(m)) - 1
    <3> HIDE DEF UpTo
    <3> QED BY <1>1, <2>1, FS_RemoveElement
  <2>3. Cardinality(T) >= k /\ Cardinality(T) \in Nat
    <3> DEFINE c == Cardinality(UpTo(m))
               b == Cardinality(T)
    <3>1. c \in Nat /\ c >= k /\ c # k /\ b = c - 1 /\ k \in Nat \ {0}
      <4> HIDE DEF UpTo
      <4> QED BY <1>1, <1>5, <1>6, <2>2
    <3> HIDE DEF c, b
    <3>2. b >= k /\ b \in Nat
      BY <3>1
    <3> QED BY <3>2 DEF b
  <2>4. T # {} /\ T \subseteq Days
    <3>1. T \subseteq Days
      BY <2>1
    <3>2. Cardinality(T) # 0
      BY <1>1, <2>3
    <3> HIDE DEF T
    <3> QED BY <3>1, <3>2, FS_EmptySet
  <2>5. PICK p \in T : \A y \in T : y <= p
    <3> HIDE DEF T
    <3> QED BY <2>4, LastExists
  <2>6. p \in S /\ p < m /\ UpTo(p) = T
    <3>1. p \in S /\ p < m /\ p \in T
      BY <2>1, <2>5
    <3>2. ASSUME NEW e \in S PROVE e <= p <=> e < m
      <4>1. e < m => e <= p
        BY <2>1, <2>5
      <4> QED BY <1>1, <1>5, <3>1, <4>1
    <3> QED BY <2>1, <3>1, <3>2
  <2>7. p \in D
    BY <2>3, <2>6
  <2> QED BY <1>1, <1>4, <1>5, <2>6, <2>7
<1> QED BY <1>5, <1>6 DEF m

\* A higher number is a later day.
LEMMA NthDayOrder ==
  ASSUME NEW S, S \subseteq Days, NEW k \in 1 .. Cardinality(S),
         NEW m \in 1 .. Cardinality(S), k < m
  PROVE  NthDay(S, k) < NthDay(S, m)
<1> DEFINE UpTo(d) == {e \in S : e <= d}
           a == NthDay(S, k)
           b == NthDay(S, m)
<1>1. /\ a \in S /\ Cardinality(UpTo(a)) = k
      /\ b \in S /\ Cardinality(UpTo(b)) = m
  BY NthDayRank
<1>2. /\ IsFiniteSet(S) /\ Cardinality(S) \in Nat
      /\ \A x \in S : x \in Nat
  <2>1. \A x \in S : x \in Nat
    BY CalendarAssumption DEF Days
  <2> QED BY <2>1, DaysFinite
<1> HIDE DEF a, b
<1>3. ASSUME b <= a PROVE FALSE
  <2>1. UpTo(a) \in SUBSET S /\ UpTo(b) \in SUBSET UpTo(a)
    BY <1>1, <1>2, <1>3
  <2> HIDE DEF UpTo
  <2>2. IsFiniteSet(UpTo(a))
    BY <1>2, <2>1, FS_Subset
  <2>3. Cardinality(UpTo(b)) <= Cardinality(UpTo(a))
    BY <2>1, <2>2, FS_Subset
  <2> QED BY <1>1, <1>2, <2>3
<1> QED BY <1>1, <1>2, <1>3 DEF a, b

\* Every day of the set has its number.
LEMMA EveryDayHasItsNumber ==
  ASSUME NEW S, S \subseteq Days, NEW e \in S
  PROVE  \E k \in 1 .. Cardinality(S) : NthDay(S, k) = e
<1> DEFINE UpTo(d) == {x \in S : x <= d}
           k == Cardinality(UpTo(e))
<1>1. /\ \A x \in S : x \in Nat
      /\ IsFiniteSet(S) /\ Cardinality(S) \in Nat
  <2>1. \A x \in S : x \in Nat
    BY CalendarAssumption DEF Days
  <2> QED BY <2>1, DaysFinite
<1>2. e \in UpTo(e) /\ UpTo(e) \in SUBSET S
  BY <1>1
<1> HIDE DEF UpTo
<1>3. IsFiniteSet(UpTo(e)) /\ k \in Nat /\ k <= Cardinality(S) /\ k # 0
  BY <1>1, <1>2, FS_Subset, FS_EmptySet, FS_CardinalityType
<1>4. k \in 1 .. Cardinality(S)
  BY <1>1, <1>3
<1>5. NthDay(S, k) \in S /\ Cardinality(UpTo(NthDay(S, k))) = k
  BY <1>4, NthDayRank DEF UpTo
<1>6. UpTo(NthDay(S, k)) = UpTo(e)
  <2>1. CASE NthDay(S, k) <= e
    <3>1. UpTo(NthDay(S, k)) \in SUBSET UpTo(e)
      BY <1>1, <1>5, <2>1 DEF UpTo
    <3> QED BY <1>3, <1>5, <3>1, FS_Subset
  <2>2. CASE e <= NthDay(S, k)
    <3>1. UpTo(e) \in SUBSET UpTo(NthDay(S, k))
      BY <1>1, <1>5, <2>2 DEF UpTo
    <3>2. UpTo(NthDay(S, k)) \in SUBSET S
      BY DEF UpTo
    <3>3. IsFiniteSet(UpTo(NthDay(S, k)))
      BY <1>1, <3>2, FS_Subset
    <3> QED BY <1>5, <3>1, <3>3, FS_Subset
  <2> QED BY <1>1, <1>5, <2>1, <2>2
<1>7. NthDay(S, k) \in UpTo(e) /\ e \in UpTo(NthDay(S, k))
  <2>1. NthDay(S, k) \in UpTo(NthDay(S, k))
    BY <1>1, <1>5 DEF UpTo
  <2> QED BY <1>2, <1>6, <2>1
<1>8. NthDay(S, k) = e
  BY <1>1, <1>5, <1>7 DEF UpTo
<1> QED BY <1>4, <1>8

-----------------------------------------------------------------------------
\* The rule counts alike from each of its occurrences, as one without COUNT
\* does.
CountsAlike ==
  \A r \in RRules : \A d \in Days : \A e \in Occurs[r][d] :
    Occurs[r][e] = {x \in Occurs[r][d] : x >= e}

\* What ProcessAccumulatingTask spawns at one instant never overlaps: each
\* missed occurrence lies before the due date of the successor.
THEOREM MissedBeforeNext ==
  ASSUME NEW r \in RRules, NEW d \in Days, NEW t \in Times,
         NEW e \in MissedOccurrences(r, d, t), NextDue(r, d, t) # NoDay
  PROVE  d < e /\ e < NextDue(r, d, t)
<1>1. d # NoDay /\ MissedOccurrences(r, d, t) \subseteq Days
      /\ LaterOccurrences(r, d, t) \subseteq Days
  BY OccurrencesType, CalendarAssumption DEF Days, NoDay
<1>2. NextDue(r, d, t) \in LaterOccurrences(r, d, t)
  BY <1>1, EarliestProperty DEF NextDue
<1> DEFINE n == NextDue(r, d, t)
<1>3. /\ d \in Int /\ e \in Int /\ n \in Int
      /\ DayLen \in Nat /\ DayLen > 0 /\ Offset \in Int /\ t \in Int
  BY <1>1, <1>2, CalendarAssumption DEF Days, Times
<1>4. /\ d * DayLen + Offset < e * DayLen + Offset
      /\ e * DayLen + Offset < t /\ n * DayLen + Offset > t
  BY <1>1, <1>2 DEF MissedOccurrences, LaterOccurrences, Midnight
<1> HIDE DEF n
<1>5. \A a, b \in Int : a * DayLen < b * DayLen => a < b
  <2>1. ASSUME NEW a \in Int, NEW b \in Int, b <= a
        PROVE  b * DayLen <= a * DayLen
    BY <2>1, <1>3
  <2> QED BY <2>1, <1>3
<1>6. d * DayLen \in Int /\ e * DayLen \in Int /\ n * DayLen \in Int
  BY <1>3
<1>7. d * DayLen < e * DayLen /\ e * DayLen < n * DayLen
  BY <1>3, <1>4, <1>6
<1>8. d < e /\ e < n
  BY <1>3, <1>5, <1>7
<1> QED BY <1>8 DEF n

\* What is spawned from an overdue task lies after it: its backlog always, its
\* successor where the local midnights are not behind the UTC ones.
LEMMA SpawnedLater ==
  ASSUME NEW r \in RRules, Offset <= 0, NEW d \in Days, NEW t \in Times, IsDue(d, t)
  PROVE  /\ \A e \in MissedOccurrences(r, d, t) : e \in Days /\ d < e
         /\ NextDue(r, d, t) # NoDay => NextDue(r, d, t) \in Days /\ d < NextDue(r, d, t)
<1>1. /\ d # NoDay /\ MissedOccurrences(r, d, t) \subseteq Days
      /\ LaterOccurrences(r, d, t) \subseteq Days
  BY OccurrencesType, CalendarAssumption DEF Days, NoDay
<1>2. /\ d \in Int /\ DayLen \in Nat /\ DayLen > 0 /\ Offset \in Int /\ t \in Int
      /\ \A x \in Days : x \in Int
  BY CalendarAssumption DEF Days, Times
<1>3. ASSUME NEW e \in Days, d * DayLen < e * DayLen PROVE d < e
  <2>1. ASSUME e <= d PROVE e * DayLen <= d * DayLen
    BY <1>2, <2>1
  <2>2. d * DayLen \in Int /\ e * DayLen \in Int
    BY <1>2
  <2> QED BY <1>2, <1>3, <2>1, <2>2
<1>4. ASSUME NEW e \in MissedOccurrences(r, d, t) PROVE e \in Days /\ d < e
  <2>1. e \in Days /\ d * DayLen + Offset < e * DayLen + Offset
    BY <1>1 DEF MissedOccurrences, Midnight
  <2>2. d * DayLen \in Int /\ e * DayLen \in Int
    BY <1>2, <2>1
  <2>3. d * DayLen < e * DayLen
    BY <1>2, <2>1, <2>2
  <2> QED BY <1>3, <2>1, <2>3
<1>5. ASSUME NEW e \in LaterOccurrences(r, d, t) PROVE e \in Days /\ d < e
  <2>1. e \in Days /\ t < e * DayLen + Offset /\ d * DayLen <= t
    BY <1>1, <1>2 DEF LaterOccurrences, Midnight, IsDue
  <2>2. d * DayLen \in Int /\ e * DayLen \in Int
    BY <1>2, <2>1
  <2>3. d * DayLen < e * DayLen
    BY <1>2, <2>1, <2>2
  <2> QED BY <1>3, <2>1, <2>3
<1>6. NextDue(r, d, t) # NoDay => NextDue(r, d, t) \in LaterOccurrences(r, d, t)
  BY <1>1, EarliestProperty DEF NextDue
<1> QED BY <1>4, <1>5, <1>6

\* Nor is an occurrence between the due date and the successor's left out,
\* unless its midnight is the very instant of the tick: both searches are
\* strict, so that occurrence is neither missed nor next.
THEOREM OnlyTheInstantIsLost ==
  ASSUME NEW r \in RRules, NEW d \in Days, NEW t \in Times, NEW e \in Occurs[r][d],
         d < e, e \notin MissedOccurrences(r, d, t),
         NextDue(r, d, t) = NoDay \/ e < NextDue(r, d, t)
  PROVE  Midnight(e) = t
<1>1. d # NoDay /\ LaterOccurrences(r, d, t) \subseteq Days
  BY OccurrencesType, CalendarAssumption DEF Days, NoDay
<1>2. e \in Days
  BY CalendarAssumption
<1>3. /\ d \in Int /\ e \in Int /\ t \in Int
      /\ DayLen \in Nat /\ DayLen > 0 /\ Offset \in Int
  BY <1>2, CalendarAssumption DEF Days, Times
<1>4. Midnight(d) < Midnight(e) /\ Midnight(e) \in Int
  <2>1. d * DayLen < e * DayLen /\ d * DayLen \in Int /\ e * DayLen \in Int
    BY <1>3
  <2> QED BY <1>3, <2>1 DEF Midnight
<1>5. ~ (Midnight(e) < t)
  BY <1>4 DEF MissedOccurrences
<1>6. e \notin LaterOccurrences(r, d, t)
  <2>1. ASSUME e \in LaterOccurrences(r, d, t) PROVE FALSE
    <3>1. NextDue(r, d, t) # NoDay /\ NextDue(r, d, t) <= e
          /\ NextDue(r, d, t) \in Days
      BY <1>1, <2>1, EarliestProperty DEF NextDue
    <3> QED BY <1>3, <3>1, CalendarAssumption DEF Days
  <2> QED BY <2>1
<1>7. ~ (Midnight(e) > t)
  BY <1>1, <1>6 DEF LaterOccurrences
<1> QED BY <1>3, <1>4, <1>5, <1>7
-----------------------------------------------------------------------------
(***************************************************************************)
(* Schedules: the days that a rule yields from one of its own days.        *)
(***************************************************************************)

\* Counted from one of its days, the rule yields what is left of it.
LEMMA WhatIsLeft ==
  ASSUME CountsAlike, NEW r \in RRules, NEW o \in Days,
         NEW d \in Occurs[r][o] \cup {o}
  PROVE  /\ d \in Days /\ Occurs[r][o] \subseteq Days
         /\ Occurs[r][d] \subseteq Occurs[r][o]
         /\ \A e \in Occurs[r][o] : d <= e => e \in Occurs[r][d]
<1>1. Occurs[r][o] \subseteq Days
  BY CalendarAssumption
<1>2. CASE d = o
  BY <1>1, <1>2
<1>3. CASE d \in Occurs[r][o]
  <2>1. Occurs[r][d] = {x \in Occurs[r][o] : x >= d}
    BY <1>3 DEF CountsAlike
  <2>2. d \in Int /\ \A e \in Occurs[r][o] : e \in Int
    BY <1>1, <1>3 DEF Days
  <2>3. \A e \in Occurs[r][o] : d <= e => e >= d
    BY <2>2
  <2> QED BY <1>1, <1>3, <2>1, <2>3
<1> QED BY <1>2, <1>3

\* The next due date is a day of the rule, and none before it is still to come.
LEMMA NextOnRule ==
  ASSUME NEW r \in RRules, NEW d \in Days, NEW t \in Times, NextDue(r, d, t) # NoDay
  PROVE  /\ NextDue(r, d, t) \in Occurs[r][d]
         /\ \A e \in Occurs[r][d] : Midnight(e) > t => NextDue(r, d, t) <= e
<1>1. d # NoDay /\ LaterOccurrences(r, d, t) \subseteq Days
  BY OccurrencesType, CalendarAssumption DEF Days, NoDay
<1>2. /\ NextDue(r, d, t) \in LaterOccurrences(r, d, t)
      /\ \A e \in LaterOccurrences(r, d, t) : NextDue(r, d, t) <= e
  BY <1>1, EarliestProperty DEF NextDue
<1> QED BY <1>1, <1>2 DEF LaterOccurrences
=============================================================================
