--------------------------- MODULE ScheduleProofs ---------------------------
(***************************************************************************)
(* Theorems about Schedule, for every calendar, schedule and moment.       *)
(*                                                                         *)
(* next_run searches by a loop: its definition is a recursive function,    *)
(* chosen as one that satisfies its equation.  That there is one is shown  *)
(* by giving it (SearchExists), that every one has the value of the first  *)
(* candidate that is accepted, by a least counterexample (SearchFinds),    *)
(* and that some candidate of the next Days days is accepted, by           *)
(* arithmetic modulo the week (SomeDayIsAccepted).                         *)
(***************************************************************************)
EXTENDS Schedule, Integers, FiniteSetTheorems, TLAPS

-----------------------------------------------------------------------------
(* Division.                                                               *)

(* Different multiples of n are at least n apart. *)
LEMMA Multiples ==
  ASSUME NEW n \in Nat \ {0}, NEW p \in Int, NEW q \in Int, p < q
  PROVE  n * p \in Int /\ n * q \in Int /\ n * p + n <= n * q
<1>1. n * p + n = n * (p + 1)
  OBVIOUS
<1>2. n * (p + 1) <= n * q
  OBVIOUS
<1> QED
  BY <1>1, <1>2

(* A number is its quotient times n and its remainder. *)
LEMMA DivMod ==
  ASSUME NEW a \in Nat, NEW n \in Nat \ {0}
  PROVE  /\ a \div n \in Nat /\ a % n \in 0..(n - 1)
         /\ n * (a \div n) \in Nat
         /\ a = n * (a \div n) + (a % n)
<1>1. a \div n \in Int /\ a % n \in 0..(n - 1)
  OBVIOUS
<1>2. a = n * (a \div n) + (a % n)
  OBVIOUS
<1>3. a \div n \in Nat
  OBVIOUS
<1> QED
  BY <1>1, <1>2, <1>3

(* There is no other way to write it so. *)
LEMMA DivUnique ==
  ASSUME NEW n \in Nat \ {0}, NEW q \in Nat, NEW r \in 0..(n - 1)
  PROVE  /\ n * q + r \in Nat
         /\ (n * q + r) \div n = q
         /\ (n * q + r) % n = r
OBVIOUS

-----------------------------------------------------------------------------
(* The calendar.                                                           *)

(* A day and an hour have a length. *)
LEMMA DayTicksIs == DayTicks \in Nat \ {0} /\ HourTicks \in Nat \ {0}
<1>1. HourTicks \in Nat \ {0}
  BY ScheduleAssumption DEF HourTicks, MinuteTicks
<1> QED
  BY <1>1, ScheduleAssumption DEF DayTicks

(* The clock times of daily and weekly schedules, within a day. *)
LEMMA AtIs ==
  ASSUME NEW t \in Texts, Parses(t), t.form # "every"
  PROVE  At(t) \in 0..(DayTicks - 1)
<1>1. /\ t.hh \in Nat /\ t.mm \in Nat /\ t.hh <= Hours - 1 /\ t.mm <= Minutes - 1
  BY ScheduleAssumption DEF Texts, Parses
<1>2. t.hh * HourTicks <= (Hours - 1) * HourTicks
  BY <1>1, DayTicksIs, ScheduleAssumption
<1>3. t.mm * MinuteTicks <= HourTicks - 2
  BY <1>1, ScheduleAssumption DEF HourTicks, MinuteTicks
<1>4. DayTicks = (Hours - 1) * HourTicks + HourTicks
  BY DayTicksIs, ScheduleAssumption DEF DayTicks
<1>5. t.hh * HourTicks \in Nat /\ t.mm * MinuteTicks \in Nat /\ (Hours - 1) * HourTicks \in Nat
  BY <1>1, DayTicksIs, ScheduleAssumption DEF MinuteTicks
<1> QED
  BY <1>2, <1>3, <1>4, <1>5, DayTicksIs DEF At

First(t, after) == Midnight(after) + At(t)
Candidate(t, after, k) == First(t, after) + k * DayTicks

(* The day and the time of day of a candidate. *)
LEMMA CandidateIs ==
  ASSUME NEW t \in Texts, Parses(t), t.form # "every",
         NEW after \in Nat, NEW k \in Nat
  PROVE  /\ Candidate(t, after, k) \in Nat
         /\ Candidate(t, after, k) = DayTicks * ((after \div DayTicks) + k) + At(t)
         /\ Candidate(t, after, k) \div DayTicks = (after \div DayTicks) + k
         /\ Candidate(t, after, k) % DayTicks = At(t)
<1> DEFINE D == DayTicks
           day == after \div D
<1>1. D \in Nat \ {0} /\ At(t) \in 0..(D - 1)
  BY DayTicksIs, AtIs
<1>2. day \in Nat /\ after = D * day + (after % D) /\ D * day \in Nat
      /\ after % D \in 0..(D - 1)
  BY <1>1, DivMod
<1>3. Midnight(after) = D * day
  BY <1>1, <1>2 DEF Midnight
<1> HIDE DEF D, day
<1>4. Candidate(t, after, k) = D * (day + k) + At(t)
  BY <1>1, <1>2, <1>3 DEF Candidate, First, D
<1> DEFINE q == day + k
<1>5. q \in Nat
  BY <1>2
<1> HIDE DEF q
<1>6. D * q + At(t) \in Nat /\ (D * q + At(t)) \div D = q /\ (D * q + At(t)) % D = At(t)
  BY <1>1, <1>5, DivUnique
<1>7. Candidate(t, after, k) = D * q + At(t)
  BY <1>4 DEF q
<1>8. /\ Candidate(t, after, k) \in Nat /\ Candidate(t, after, k) \div D = q
      /\ Candidate(t, after, k) % D = At(t)
  BY <1>6, <1>7
<1> QED
  BY <1>7, <1>8 DEF D, day, q

(* The loop that looks for the next run. *)
Searching(t, after, f) ==
    f = [k \in 0..(Days + 1) |->
            IF k <= Days /\ Rejected(t, Candidate(t, after, k), after)
            THEN f[k + 1] ELSE Candidate(t, after, k)]

LEMMA NextRunSearches ==
  ASSUME NEW t, NEW after, t.form # "every",
         \E f : Searching(t, after, f)
  PROVE  \E f : Searching(t, after, f) /\ NextRun(t, after) = f[0]
<1> DEFINE search == CHOOSE f : Searching(t, after, f)
<1>1. Searching(t, after, search)
  OBVIOUS
<1>2. NextRun(t, after) = search[0]
  BY DEF NextRun, Searching, Candidate, First
<1> QED
  BY <1>1, <1>2

(* A set of numbers has a least one. *)
LEMMA LeastNumber ==
  ASSUME NEW S, S \subseteq Nat, S # {}
  PROVE  \E x \in S : \A y \in S : x <= y
<1>1. PICK x \in S : \A y \in S : ~(<<y, x>> \in OpToRel(<, Nat))
  BY NatLessThanWellFounded, WFMin
<1>2. \A y \in S : ~(y < x)
  BY <1>1 DEF OpToRel
<1> QED
  BY <1>2

Accepted(t, after, k) == ~Rejected(t, Candidate(t, after, k), after)

(* A search that can be continued to its end gives some function. *)
LEMMA SearchExists ==
  ASSUME NEW t, NEW after PROVE \E f : Searching(t, after, f)
<1> DEFINE Ends(k) == {m \in k..(Days + 1) : m = Days + 1 \/ Accepted(t, after, m)}
           IsEnd(k, m) == m \in Ends(k) /\ \A y \in Ends(k) : m <= y
           end(k) == CHOOSE m : IsEnd(k, m)
           f == [k \in 0..(Days + 1) |-> Candidate(t, after, end(k))]
<1>0. Days \in Nat
  BY ScheduleAssumption
<1>1. ASSUME NEW k \in 0..(Days + 1) PROVE IsEnd(k, end(k))
  <2>1. Ends(k) \subseteq Nat /\ Days + 1 \in Ends(k)
    BY <1>0
  <2>2. \E m : IsEnd(k, m)
    BY <2>1, LeastNumber
  <2> QED
    BY <2>2
<1>2. ASSUME NEW k \in 0..Days, ~Accepted(t, after, k)
      PROVE  end(k) = end(k + 1)
  <2>1. Ends(k) = Ends(k + 1)
    BY <1>0, <1>2
  <2> QED
    BY <2>1
<1>3. ASSUME NEW k \in 0..(Days + 1), k = Days + 1 \/ Accepted(t, after, k)
      PROVE  end(k) = k
  <2>1. k \in Ends(k) /\ \A y \in Ends(k) : k <= y
    BY <1>0, <1>3
  <2>2. IsEnd(k, end(k))
    BY <1>1
  <2>3. end(k) <= k /\ k <= end(k) /\ end(k) \in Nat
    BY <1>0, <2>1, <2>2
  <2> QED
    BY <1>0, <2>3
<1>4. ASSUME NEW k \in 0..(Days + 1)
      PROVE  f[k] = IF k <= Days /\ Rejected(t, Candidate(t, after, k), after)
                    THEN f[k + 1] ELSE Candidate(t, after, k)
  <2>1. CASE k <= Days /\ Rejected(t, Candidate(t, after, k), after)
    <3>1. k \in 0..Days /\ k + 1 \in 0..(Days + 1) /\ ~Accepted(t, after, k)
      BY <1>0, <2>1 DEF Accepted
    <3>2. end(k) = end(k + 1)
      BY <1>2, <3>1
    <3> HIDE DEF end
    <3> QED
      BY <2>1, <3>1, <3>2
  <2>2. CASE ~(k <= Days /\ Rejected(t, Candidate(t, after, k), after))
    <3>1. k = Days + 1 \/ Accepted(t, after, k)
      BY <1>0, <2>2 DEF Accepted
    <3>2. end(k) = k
      BY <1>3, <3>1
    <3> HIDE DEF end
    <3> QED
      BY <2>2, <3>2
  <2> QED
    BY <2>1, <2>2
<1>5. Searching(t, after, f)
  <2> HIDE DEF end
  <2>1. f = [k \in 0..(Days + 1) |-> f[k]]
    OBVIOUS
  <2> HIDE DEF f
  <2> QED
    BY <1>4, <2>1 DEF Searching
<1> QED
  BY <1>5

(* It gives the first candidate that is accepted. *)
LEMMA SearchFinds ==
  ASSUME NEW t, NEW after, NEW f, Searching(t, after, f),
         NEW n \in 0..Days, \A j \in 0..(n - 1) : ~Accepted(t, after, j),
         Accepted(t, after, n)
  PROVE  f[0] = Candidate(t, after, n)
<1> DEFINE wrong == {m \in 0..n : f[n - m] # Candidate(t, after, n)}
<1>0. Days \in Nat /\ n \in Nat
  BY ScheduleAssumption
<1>1. \A k \in 0..(Days + 1) :
         f[k] = IF k <= Days /\ Rejected(t, Candidate(t, after, k), after)
                THEN f[k + 1] ELSE Candidate(t, after, k)
  BY DEF Searching
<1>2. wrong = {}
  <2> SUFFICES ASSUME wrong # {} PROVE FALSE
    OBVIOUS
  <2>1. wrong \subseteq Nat
    BY <1>0
  <2>2. PICK m \in wrong : \A y \in wrong : m <= y
    BY <2>1, LeastNumber
  <2>3. m \in 0..n /\ n - m \in 0..(Days + 1) /\ f[n - m] # Candidate(t, after, n)
    BY <1>0, <2>2
  <2>4. CASE m = 0
    BY <1>0, <1>1, <2>3, <2>4 DEF Accepted
  <2>5. CASE m # 0
    <3>1. n - m \in 0..(n - 1) /\ n - m <= Days /\ (n - m) + 1 = n - (m - 1)
          /\ m - 1 \in 0..n /\ ~(m <= m - 1)
      BY <1>0, <2>3, <2>5
    <3>2. f[n - m] = f[n - (m - 1)]
      BY <1>1, <2>3, <3>1 DEF Accepted
    <3>3. m - 1 \in wrong
      BY <2>3, <3>1, <3>2
    <3> QED
      BY <2>2, <3>1, <3>3
  <2> QED
    BY <2>4, <2>5
<1>3. n \in 0..n /\ n - n = 0
  BY <1>0
<1> QED
  BY <1>2, <1>3

(* Of n days in a row there is one of each weekday; the next one has that  *)
(* of the first.                                                           *)
LEMMA DayOfWeek ==
  ASSUME NEW n \in Nat \ {0}, NEW d \in Nat, NEW w \in 0..(n - 1)
  PROVE  \E k \in 0..(n - 1) : (d + k) % n = w /\ (d + n) % n = d % n
<1> DEFINE q == d \div n
           r == d % n
           ahead == IF w >= r THEN w - r ELSE (w - r) + n
<1>1. q \in Nat /\ r \in 0..(n - 1) /\ d = n * q + r /\ n * q \in Nat
  BY DivMod
<1> HIDE DEF q, r
<1>2. ahead \in 0..(n - 1) /\ n * (q + 1) = n * q + n /\ q + 1 \in Nat
  BY <1>1
<1>3. d + n = n * (q + 1) + r
  BY <1>1, <1>2
<1>4. (d + n) % n = r
  BY <1>1, <1>2, <1>3, DivUnique
<1>5. d + ahead = n * q + w \/ d + ahead = n * (q + 1) + w
  BY <1>1, <1>2
<1> HIDE DEF ahead
<1>6. (d + ahead) % n = w
  <2>1. (n * q + w) % n = w /\ (n * (q + 1) + w) % n = w
    BY <1>1, <1>2, DivUnique
  <2> QED
    BY <1>5, <2>1
<1>7. r = d % n
  BY DEF r
<1> QED
  BY <1>2, <1>4, <1>6, <1>7

(* The candidate of tomorrow or later is past, that of today perhaps; and  *)
(* among the days of a week there is one of every weekday.                 *)
LEMMA SomeDayIsAccepted ==
  ASSUME NEW t \in Texts, Parses(t), t.form # "every", NEW after \in Nat
  PROVE  \E k \in 0..Days : Accepted(t, after, k)
<1> DEFINE D == DayTicks
           day == after \div D
<1>0. /\ Days \in Nat \ {0} /\ D \in Nat \ {0} /\ At(t) \in 0..(D - 1)
      /\ day \in Nat /\ after = D * day + (after % D) /\ D * day \in Nat
      /\ after % D \in 0..(D - 1)
  BY DayTicksIs, AtIs, DivMod, ScheduleAssumption
<1>1. ASSUME NEW k \in Nat, k > 0
      PROVE  Candidate(t, after, k) > after
  <2>1. Candidate(t, after, k) = D * (day + k) + At(t)
    BY CandidateIs
  <2> HIDE DEF day, D
  <2>2. D * day + D <= D * (day + k)
    BY <1>0, <1>1, Multiples
  <2>3. D * (day + k) \in Nat
    BY <1>0
  <2> QED
    BY <1>0, <2>1, <2>2, <2>3
<1>2. CASE t.form # "weekly"
  <2>1. Candidate(t, after, 1) > after /\ Candidate(t, after, 1) \in Nat
    BY <1>1, CandidateIs
  <2>2. Accepted(t, after, 1)
    BY <1>2, <2>1 DEF Accepted, Rejected
  <2> QED
    BY <1>0, <2>2
<1>3. CASE t.form = "weekly"
  <2>1. PICK k \in 0..(Days - 1) :
           /\ (day + k) % Days = t.day
           /\ (day + Days) % Days = day % Days
    <3>1. t.day \in 0..(Days - 1)
      BY <1>3 DEF Texts
    <3> HIDE DEF day
    <3> QED
      BY <1>0, <3>1, DayOfWeek
  <2>2. k \in Nat /\ k \in 0..Days
    BY <1>0
  <2>3. CASE k > 0
    <3>1. Weekday(Candidate(t, after, k)) = t.day
      BY <2>1, <2>2, CandidateIs DEF Weekday
    <3>2. Candidate(t, after, k) > after /\ Candidate(t, after, k) \in Nat
      BY <1>1, <2>2, <2>3, CandidateIs
    <3>3. Accepted(t, after, k)
      BY <3>1, <3>2 DEF Accepted, Rejected
    <3> QED
      BY <2>2, <3>3
  <2>4. CASE k = 0
    <3>1. Days \in Nat /\ Days > 0 /\ day + 0 = day
      BY <1>0
    <3>2. Weekday(Candidate(t, after, Days)) = t.day
      <4>1. Candidate(t, after, Days) \div DayTicks = day + Days
        BY <3>1, CandidateIs
      <4> HIDE DEF day
      <4> QED
        BY <2>1, <2>4, <3>1, <4>1 DEF Weekday
    <3>3. Candidate(t, after, Days) > after /\ Candidate(t, after, Days) \in Nat
      BY <1>1, <3>1, CandidateIs
    <3>4. Accepted(t, after, Days)
      BY <3>2, <3>3 DEF Accepted, Rejected
    <3> QED
      BY <3>1, <3>4
  <2> QED
    BY <2>2, <2>3, <2>4
<1> QED
  BY <1>2, <1>3

(* next_run ends, within a week, at the first candidate that is accepted.  *)
LEMMA NextRunIs ==
  ASSUME NEW t \in Texts, Parses(t), t.form # "every", NEW after \in Nat
  PROVE  \E n \in 0..Days :
            /\ NextRun(t, after) = Candidate(t, after, n)
            /\ Accepted(t, after, n)
            /\ \A j \in 0..(n - 1) : ~Accepted(t, after, j)
<1> DEFINE found == {k \in 0..Days : Accepted(t, after, k)}
<1>1. found # {} /\ found \subseteq Nat /\ Days \in Nat
  BY SomeDayIsAccepted, ScheduleAssumption
<1>2. PICK n \in found : \A k \in found : n <= k
  BY <1>1, LeastNumber
<1>3. n \in 0..Days /\ Accepted(t, after, n)
  BY <1>2
<1>4. \A j \in 0..(n - 1) : ~Accepted(t, after, j)
  <2> SUFFICES ASSUME NEW j \in 0..(n - 1), Accepted(t, after, j) PROVE FALSE
    OBVIOUS
  <2>1. j \in found /\ ~(n <= j)
    BY <1>1, <1>3
  <2> QED
    BY <1>2, <2>1
<1>5. PICK f : Searching(t, after, f) /\ NextRun(t, after) = f[0]
  BY SearchExists, NextRunSearches
<1>6. f[0] = Candidate(t, after, n)
  BY <1>3, <1>4, <1>5, SearchFinds
<1> QED
  BY <1>3, <1>4, <1>5, <1>6

(* The reference: the first moment after its argument that the text names. *)
LEMMA NextRunIsFirstNamed ==
  ASSUME NEW t \in Texts, Parses(t), t.form # "every", NEW after \in Nat
  PROVE  /\ NextRun(t, after) \in Nat /\ NextRun(t, after) > after
         /\ Names(t, NextRun(t, after))
         /\ \A m \in (after + 1)..NextRun(t, after) :
               Names(t, m) => m = NextRun(t, after)
<1> DEFINE D == DayTicks
           day == after \div D
<1>0. /\ Days \in Nat \ {0} /\ D \in Nat \ {0} /\ At(t) \in 0..(D - 1)
      /\ day \in Nat /\ after = D * day + (after % D) /\ D * day \in Nat
      /\ after % D \in 0..(D - 1)
  BY DayTicksIs, AtIs, DivMod, ScheduleAssumption
<1>1. PICK n \in 0..Days :
         /\ NextRun(t, after) = Candidate(t, after, n)
         /\ Accepted(t, after, n)
         /\ \A j \in 0..(n - 1) : ~Accepted(t, after, j)
  BY NextRunIs
<1>2. n \in Nat
  BY <1>0
<1>3. /\ NextRun(t, after) \in Nat /\ NextRun(t, after) > after
      /\ Names(t, NextRun(t, after))
  BY <1>1, <1>2, CandidateIs DEF Accepted, Rejected, Names
<1>4. ASSUME NEW m \in (after + 1)..NextRun(t, after), Names(t, m)
      PROVE  m = NextRun(t, after)
  <2> DEFINE q == m \div D
  <2>1. m \in Nat /\ m > after /\ m <= NextRun(t, after)
    BY <1>3
  <2>2. q \in Nat /\ m = D * q + At(t) /\ D * q \in Nat
    BY <1>0, <1>4, <2>1, DivMod DEF Names
  <2>3. NextRun(t, after) = D * (day + n) + At(t)
    BY <1>1, <1>2, CandidateIs
  <2>4. \A k \in Nat : Candidate(t, after, k) = D * (day + k) + At(t)
    BY CandidateIs
  <2> HIDE DEF q, day, D
  <2>5. q >= day
    <3> SUFFICES ASSUME q < day PROVE FALSE
      BY <1>0, <2>2
    <3>1. D * q + D <= D * day
      BY <1>0, <2>2, Multiples
    <3> QED
      BY <1>0, <2>1, <2>2, <3>1
  <2>6. q <= day + n
    <3> SUFFICES ASSUME q > day + n PROVE FALSE
      BY <1>0, <1>2, <2>2
    <3>1. D * (day + n) + D <= D * q /\ D * (day + n) \in Int
      BY <1>0, <1>2, <2>2, Multiples
    <3> QED
      BY <1>0, <2>1, <2>2, <2>3, <3>1
  <2>7. CASE q = day + n
    BY <2>2, <2>3, <2>7
  <2>8. CASE q # day + n
    <3> DEFINE j == q - day
    <3>1. j \in 0..(n - 1) /\ j \in Nat /\ day + j = q
      BY <1>0, <1>2, <2>2, <2>5, <2>6, <2>8
    <3>2. Candidate(t, after, j) = m
      BY <2>2, <2>4, <3>1
    <3> HIDE DEF j
    <3>3. Rejected(t, m, after)
      BY <1>1, <3>1, <3>2 DEF Accepted
    <3>4. ~(m <= after)
      BY <2>1
    <3> QED
      BY <1>4, <3>3, <3>4 DEF Rejected, Names
  <2> QED
    BY <2>7, <2>8
<1> QED
  BY <1>3, <1>4

-----------------------------------------------------------------------------
(* What next_run promises its caller, for every calendar and schedule.     *)

Schedules == {t \in Texts : Parses(t)}

(* An interval is not empty. *)
LEMMA IntervalIs ==
  ASSUME NEW t \in Schedules, t.form = "every"
  PROVE  Interval(t) \in Nat \ {0}
<1>1. t.amount \in Nat \ {0} /\ (IF t.unit = "m" THEN MinuteTicks ELSE HourTicks) \in Nat \ {0}
  BY DayTicksIs, ScheduleAssumption DEF Schedules, Texts, Parses, MinuteTicks
<1> QED
  BY <1>1 DEF Interval

(* The next run is later than the moment it is asked for, and never before *)
(* the next run of an earlier one: what the scheduler of Workflows rests   *)
(* on when it compares next_run of the last start with the time (there, in *)
(* ScheduleAssumption).                                                    *)
THEOREM NextRunAdvances ==
  ASSUME NEW t \in Schedules, NEW a \in Nat, NEW b \in Nat
  PROVE  /\ NextRun(t, a) \in Nat /\ NextRun(t, a) > a
         /\ a <= b => NextRun(t, a) <= NextRun(t, b)
<1>1. CASE t.form = "every"
  <2>1. \A m : NextRun(t, m) = m + Interval(t)
    BY <1>1 DEF NextRun
  <2>2. Interval(t) \in Nat /\ Interval(t) > 0
    BY <1>1, IntervalIs
  <2> QED
    BY <2>1, <2>2
<1>2. CASE t.form # "every"
  <2>1. t \in Texts /\ Parses(t)
    BY DEF Schedules
  <2>2. /\ NextRun(t, a) \in Nat /\ NextRun(t, a) > a
        /\ \A m \in (a + 1)..NextRun(t, a) : Names(t, m) => m = NextRun(t, a)
    BY <1>2, <2>1, NextRunIsFirstNamed
  <2>3. NextRun(t, b) \in Nat /\ NextRun(t, b) > b /\ Names(t, NextRun(t, b))
    BY <1>2, <2>1, NextRunIsFirstNamed
  <2>4. ASSUME a <= b, NextRun(t, b) < NextRun(t, a) PROVE FALSE
    <3>1. NextRun(t, b) \in (a + 1)..NextRun(t, a)
      BY <2>2, <2>3, <2>4
    <3> QED
      BY <2>2, <2>3, <2>4, <3>1
  <2> QED
    BY <2>2, <2>3, <2>4
<1> QED
  BY <1>1, <1>2

-----------------------------------------------------------------------------
(* The scheduler that asks for the next run after each start.              *)

TypeInv == text \in Schedules /\ last \in Nat

(* What the schedule names up to some time less than a day after the next  *)
(* run is that run alone.                                                  *)
LEMMA OneIsNamed ==
  ASSUME TypeInv, text.form # "every", NEW late \in 0..(DayTicks - 1)
  PROVE  Between(last, NextRun(text, last) + late) = {NextRun(text, last)}
<1> DEFINE D == DayTicks
           next == NextRun(text, last)
<1>0. text \in Texts /\ Parses(text) /\ last \in Nat
  BY DEF TypeInv, Schedules
<1>1. /\ D \in Nat \ {0} /\ At(text) \in 0..(D - 1) /\ late \in Nat /\ late < D
      /\ next \in Nat /\ next > last /\ Names(text, next)
      /\ \A m \in (last + 1)..next : Names(text, m) => m = next
  BY <1>0, AtIs, DayTicksIs, NextRunIsFirstNamed
<1> HIDE DEF next
<1>2. ASSUME NEW m \in (last + 1)..(next + late), Names(text, m)
      PROVE  m = next
  <2>1. CASE m <= next
    <3>1. m \in (last + 1)..next
      BY <1>0, <1>1, <2>1
    <3> QED
      BY <1>1, <1>2, <3>1
  <2>2. CASE m > next
    <3>1. m \in Nat /\ m - next <= late
      BY <1>0, <1>1
    <3>2. m % D = At(text) /\ next % D = At(text)
      BY <1>1, <1>2 DEF Names
    <3> DEFINE p == next \div D
               q == m \div D
    <3>3. /\ p \in Nat /\ next = D * p + At(text) /\ D * p \in Nat
          /\ q \in Nat /\ m = D * q + At(text) /\ D * q \in Nat
      BY <1>1, <3>1, <3>2, DivMod
    <3> HIDE DEF p, q, D
    <3>4. p < q
      <4> SUFFICES ASSUME q < p \/ q = p PROVE FALSE
        BY <3>3
      <4>1. q < p => D * q + D <= D * p
        BY <1>1, <3>3, Multiples
      <4> QED
        BY <1>1, <2>2, <3>3, <4>1
    <3>5. D * p + D <= D * q
      BY <1>1, <3>3, <3>4, Multiples
    <3> QED
      BY <1>1, <3>1, <3>3, <3>5
  <2> QED
    BY <1>1, <1>2, <2>1, <2>2
<1>3. next \in (last + 1)..(next + late)
  BY <1>0, <1>1
<1> QED
  BY <1>1, <1>2, <1>3 DEF Between, next

(* A schedule that parses is never changed, and time goes on. *)
LEMMA TypeInvHolds == Spec => []TypeInv
<1>1. Init => TypeInv
  <2>1. WeekTicks - 1 \in Int
    BY DayTicksIs, ScheduleAssumption DEF WeekTicks
  <2> QED
    BY <2>1 DEF Init, TypeInv, Schedules
<1>2. TypeInv /\ [Next]_vars => TypeInv'
  <2> SUFFICES ASSUME TypeInv, [Next]_vars PROVE TypeInv'
    OBVIOUS
  <2>1. ASSUME NEW delay \in 0..MaxDelay, Start(delay) PROVE TypeInv'
    <3>1. NextRun(text, last) \in Nat
      BY NextRunAdvances DEF TypeInv
    <3> QED
      BY <2>1, <3>1, ScheduleAssumption DEF TypeInv, Start
  <2> QED
    BY <2>1 DEF Next, TypeInv, vars
<1> QED
  BY <1>1, <1>2, PTL DEF Spec

(* next_run gives the first moment after its argument that the schedule    *)
(* names, for every calendar, schedule and argument; its loop ends.        *)
THEOREM SpecNextRunIsTheFirst == Spec => []NextRunIsTheFirst
<1>1. TypeInv => NextRunIsTheFirst
  <2> SUFFICES ASSUME TypeInv, text.form # "every"
               PROVE  Between(last, NextRun(text, last)) = {NextRun(text, last)}
    BY DEF NextRunIsTheFirst
  <2>1. 0 \in 0..(DayTicks - 1) /\ NextRun(text, last) \in Nat
    BY DayTicksIs, NextRunAdvances DEF TypeInv
  <2>2. NextRun(text, last) + 0 = NextRun(text, last)
    BY <2>1
  <2> QED
    BY <2>1, <2>2, OneIsNamed
<1> QED
  BY <1>1, TypeInvHolds, PTL

(* However late the runs start, as long as it is less than a day: of the   *)
(* moments the schedule names, each run serves one, and none is skipped.   *)
THEOREM SpecEachMomentIsServedOnce ==
  MaxDelay < DayTicks => (Spec => EachMomentIsServedOnce)
<1> SUFFICES ASSUME MaxDelay < DayTicks PROVE Spec => EachMomentIsServedOnce
  OBVIOUS
<1>1. TypeInv /\ [Next]_vars =>
         [text.form # "every" => Cardinality(Between(last, last')) = 1]_vars
  <2> SUFFICES ASSUME TypeInv, NEW delay \in 0..MaxDelay, Start(delay),
                      text.form # "every"
               PROVE  Cardinality(Between(last, last')) = 1
    BY DEF Next
  <2>1. last' = NextRun(text, last) + delay /\ delay \in 0..(DayTicks - 1)
    BY DayTicksIs, ScheduleAssumption DEF Start
  <2>2. Between(last, last') = {NextRun(text, last)}
    BY <2>1, OneIsNamed
  <2> QED
    BY <2>2, FS_Singleton
<1> QED
  BY <1>1, TypeInvHolds, PTL DEF Spec, EachMomentIsServedOnce
=============================================================================
