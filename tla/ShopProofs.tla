----------------------------- MODULE ShopProofs ------------------------------
(***************************************************************************)
(* What the components of Shop promise, for any set of products, places,   *)
(* methods, texts, orders and requests.                                    *)
(***************************************************************************)
EXTENDS Shop, FiniteSetTheorems, FunctionTheorems, WellFoundedInduction, TLAPS

-----------------------------------------------------------------------------
(* Promise *)

(***************************************************************************)
(* Some naturals have a first one.                                         *)
(***************************************************************************)
LEMMA FirstOf ==
  ASSUME NEW S \in SUBSET Nat, S # {}
  PROVE  \E x \in S : \A y \in S : x <= y
<1>1. PICK x \in S : \A y \in S : ~ (<<y, x>> \in OpToRel(<, Nat))
  BY WFMin, NatLessThanWellFounded
<1>2. \A y \in S : ~ (y < x)
  BY <1>1 DEF OpToRel
<1> QED
  BY <1>2

(* What is left to count after the day that follows. *)
LeftAfter(day, left) == IF Pr!esHabil(day + 1) THEN left - 1 ELSE left

(* What the loop of finDelPlazo makes of a day, given the count of the next. *)
CountOf(g, day) ==
  [left \in 0 .. Pr!MaxTerm |->
     IF left = 0 \/ day = Pr!LastDay THEN day ELSE g[day + 1][LeftAfter(day, left)]]

(* g counts as the loop does, from day n on. *)
CountsFrom(g, n) == g = [day \in n .. Pr!LastDay |-> CountOf(g, day)]

(***************************************************************************)
(* The count is well defined: the days are counted backwards from the last *)
(* of the calendar, each one from the day that follows.                    *)
(***************************************************************************)
LEMMA CountExists == \E g : CountsFrom(g, 0)
<1> DEFINE S == {n \in 0 .. Pr!LastDay : \E g : CountsFrom(g, n)}
<1>1. PICK H \in Nat : H = Pr!LastDay /\ H > 0
  BY DEF Pr!LastDay
<1>2. ASSUME NEW f, NEW g, NEW day, day = H \/ f[day + 1] = g[day + 1]
      PROVE  CountOf(f, day) = CountOf(g, day)
  BY <1>1, <1>2 DEF CountOf
<1>3. H \in S
  <2> DEFINE g == [day \in H .. H |-> CountOf(<<>>, day)]
  <2>1. \A day \in H .. H : day = H
    BY <1>1
  <2>2. \A day \in H .. H : CountOf(<<>>, day) = CountOf(g, day)
    BY <1>2, <2>1, Zenon
  <2>3. CountsFrom(g, H)
    BY <1>1, <2>2, Zenon DEF CountsFrom
  <2> QED
    BY <1>1, <2>3
<1>4. ASSUME NEW n \in S, n > 0 PROVE n - 1 \in S
  <2>1. PICK f : f = [day \in n .. H |-> CountOf(f, day)]
    BY <1>1 DEF CountsFrom
  <2>2. n \in 1 .. H
    BY <1>1, <1>4
  <2> DEFINE g == [day \in n - 1 .. H |-> CountOf(f, day)]
  <2>3. \A day \in n .. H : day \in n - 1 .. H
    BY <1>1, <2>2
  <2>4. \A day \in n .. H : g[day] = f[day]
    BY <2>1, <2>3, Zenon
  <2>5. ASSUME NEW day \in n - 1 .. H PROVE CountOf(f, day) = CountOf(g, day)
    <3>1. day = H \/ day + 1 \in n .. H
      BY <1>1, <2>2
    <3> HIDE DEF g
    <3> QED
      BY <1>2, <2>4, <3>1, Zenon
  <2>6. g = [day \in n - 1 .. H |-> CountOf(g, day)]
    BY <2>5, Zenon
  <2>7. CountsFrom(g, n - 1)
    <3> HIDE DEF g
    <3> QED
      BY <1>1, <2>6, Zenon DEF CountsFrom
  <2>8. n - 1 \in 0 .. Pr!LastDay
    BY <1>1, <2>2
  <2> QED
    BY <2>7, <2>8
<1>5. PICK n \in S : \A m \in S : n <= m
  <2>1. S \in SUBSET Nat
    BY <1>1
  <2> HIDE DEF S
  <2> QED
    BY <1>3, <2>1, FirstOf
<1>6. n = 0
  <2>1. n \in Nat
    BY <1>1
  <2> HIDE DEF S
  <2> QED
    BY <1>4, <1>5, <2>1
<1> QED
  BY <1>6

(***************************************************************************)
(* The count of a day is what one turn of the loop makes of it.            *)
(***************************************************************************)
LEMMA CountStep ==
  ASSUME NEW day \in 0 .. Pr!LastDay, NEW left \in 0 .. Pr!MaxTerm
  PROVE  Pr!Counted[day][left]
           = IF left = 0 \/ day = Pr!LastDay THEN day
             ELSE Pr!Counted[day + 1][LeftAfter(day, left)]
<1>1. PICK g : CountsFrom(g, 0)
  BY CountExists
<1>2. CountsFrom(Pr!Counted, 0)
  BY <1>1, Zenon DEF CountsFrom, CountOf, LeftAfter, Pr!Counted
<1>3. Pr!Counted[day] = CountOf(Pr!Counted, day)
  BY <1>2, Zenon DEF CountsFrom
<1> QED
  BY <1>3 DEF CountOf

(* The working days after a day, up to another. *)
Working(day, last) == {d \in day + 1 .. last : Pr!esHabil(d)}

(***************************************************************************)
(* One more day on the left is one more working day, or none.              *)
(***************************************************************************)
LEMMA OneDayMore ==
  ASSUME NEW day \in Nat, NEW last \in Nat, day < last
  PROVE  /\ IsFiniteSet(Working(day, last)) /\ Cardinality(Working(day, last)) \in Nat
         /\ Cardinality(Working(day + 1, last)) \in Nat
         /\ Cardinality(Working(day, last))
              = Cardinality(Working(day + 1, last)) + (IF Pr!esHabil(day + 1) THEN 1 ELSE 0)
<1>1. IsFiniteSet(day + 1 .. last) /\ IsFiniteSet(day + 2 .. last)
  BY FS_Interval
<1>2. /\ IsFiniteSet(Working(day, last)) /\ Cardinality(Working(day, last)) \in Nat
      /\ IsFiniteSet(Working(day + 1, last)) /\ Cardinality(Working(day + 1, last)) \in Nat
  <2>1. Working(day, last) \subseteq day + 1 .. last
    BY DEF Working
  <2>2. Working(day + 1, last) \subseteq day + 2 .. last
    BY DEF Working
  <2> QED
    BY <1>1, <2>1, <2>2, FS_Subset, FS_CardinalityType
<1>3. \A d : d \in day + 1 .. last <=> d = day + 1 \/ d \in day + 2 .. last
  OBVIOUS
<1>4. day + 1 \notin Working(day + 1, last)
  BY DEF Working
<1>5. CASE Pr!esHabil(day + 1)
  <2>1. Working(day, last) = Working(day + 1, last) \cup {day + 1}
    BY <1>3, <1>5 DEF Working
  <2> QED
    BY <1>2, <1>4, <1>5, <2>1, FS_AddElement
<1>6. CASE ~ Pr!esHabil(day + 1)
  <2>1. Working(day, last) = Working(day + 1, last)
    BY <1>3, <1>6 DEF Working
  <2> QED
    BY <1>2, <1>6, <2>1
<1> QED
  BY <1>5, <1>6

(***************************************************************************)
(* Nothing is counted from a day to itself.                                *)
(***************************************************************************)
LEMMA NoDayMore ==
  ASSUME NEW day \in Nat
  PROVE  Cardinality(Working(day, day)) = 0
<1>1. Working(day, day) = {}
  BY DEF Working
<1> QED
  BY <1>1, FS_EmptySet

(* The loop stops at the working day it was asked for. *)
StopsRight(day, left) ==
  Cardinality(Working(day, Pr!LastDay)) >= left =>
    /\ Pr!Counted[day][left] \in day + 1 .. Pr!LastDay
    /\ Pr!esHabil(Pr!Counted[day][left])
    /\ Cardinality(Working(day, Pr!Counted[day][left])) = left

(***************************************************************************)
(* One turn of the loop.                                                   *)
(***************************************************************************)
LEMMA TurnStopsRight ==
  ASSUME NEW day \in 0 .. Pr!LastDay, NEW left \in 1 .. Pr!MaxTerm,
         Cardinality(Working(day, Pr!LastDay)) >= left,
         day # Pr!LastDay => \A l \in 1 .. Pr!MaxTerm : StopsRight(day + 1, l)
  PROVE  StopsRight(day, left)
<1>1. PICK H \in Nat : H = Pr!LastDay
  BY DEF Pr!LastDay
<1>2. PICK T \in Nat : T = Pr!MaxTerm
  BY DEF Pr!MaxTerm
<1>3. day \in Nat /\ left \in Nat /\ left >= 1 /\ left <= T
  BY <1>1, <1>2
<1>4. day < H
  <2>1. CASE day = H
    BY <1>1, <1>3, <2>1, NoDayMore
  <2> QED
    BY <1>1, <2>1
<1>5. PICK r : r = Pr!Counted[day][left]
  OBVIOUS
<1>6. r = Pr!Counted[day + 1][LeftAfter(day, left)]
  <2>1. left \in 0 .. Pr!MaxTerm
    BY <1>2, <1>3
  <2> QED
    BY <1>1, <1>3, <1>4, <1>5, <2>1, CountStep
<1>7. /\ Cardinality(Working(day, H)) \in Nat /\ Cardinality(Working(day + 1, H)) \in Nat
      /\ Cardinality(Working(day, H))
           = Cardinality(Working(day + 1, H)) + (IF Pr!esHabil(day + 1) THEN 1 ELSE 0)
  BY <1>3, <1>4, OneDayMore
<1>8. CASE LeftAfter(day, left) = 0
  <2>1. left = 1 /\ Pr!esHabil(day + 1)
    BY <1>3, <1>8 DEF LeftAfter
  <2>2. day + 1 \in 0 .. Pr!LastDay /\ 0 \in 0 .. Pr!MaxTerm
    BY <1>1, <1>2, <1>3, <1>4
  <2>3. r = day + 1
    BY <1>6, <1>8, <2>2, CountStep
  <2>4. Cardinality(Working(day, day + 1)) = 1
    <3>1. day + 1 \in Nat /\ day < day + 1
      BY <1>3
    <3>2. Cardinality(Working(day, day + 1)) = Cardinality(Working(day + 1, day + 1)) + 1
      BY <1>3, <2>1, <3>1, OneDayMore
    <3> QED
      BY <3>1, <3>2, NoDayMore
  <2>5. r \in day + 1 .. H
    BY <1>3, <1>4, <2>3
  <2> QED
    BY <1>1, <1>5, <2>1, <2>3, <2>4, <2>5 DEF StopsRight
<1>9. CASE LeftAfter(day, left) # 0
  <2>1. PICK l : l = LeftAfter(day, left)
    OBVIOUS
  <2>2. l \in 1 .. T /\ Cardinality(Working(day + 1, H)) >= l
        /\ left = l + (IF Pr!esHabil(day + 1) THEN 1 ELSE 0)
    BY <1>1, <1>3, <1>7, <1>9, <2>1 DEF LeftAfter
  <2>3. StopsRight(day + 1, l)
    BY <1>1, <1>2, <1>4, <1>3, <2>2
  <2>4. /\ r \in (day + 1) + 1 .. H /\ Pr!esHabil(r)
        /\ Cardinality(Working(day + 1, r)) = l
    BY <1>1, <1>6, <2>1, <2>2, <2>3 DEF StopsRight
  <2>5. r \in Nat /\ day < r /\ r \in day + 1 .. H
    BY <1>3, <2>4
  <2>6. Cardinality(Working(day, r)) = l + (IF Pr!esHabil(day + 1) THEN 1 ELSE 0)
    BY <1>3, <2>4, <2>5, OneDayMore
  <2> QED
    BY <1>1, <1>5, <2>2, <2>4, <2>5, <2>6 DEF StopsRight
<1> QED
  BY <1>8, <1>9

(***************************************************************************)
(* What the loop computes for every day and every term: of the first day   *)
(* of the calendar, counted back from the last, for which it did not, the  *)
(* next day would tell otherwise.                                          *)
(***************************************************************************)
LEMMA LoopStopsRight ==
  ASSUME NEW day \in 0 .. Pr!LastDay, NEW left \in 1 .. Pr!MaxTerm
  PROVE  StopsRight(day, left)
<1> DEFINE Wrong == {k \in 0 .. Pr!LastDay :
                       \E l \in 1 .. Pr!MaxTerm : ~ StopsRight(Pr!LastDay - k, l)}
<1>1. PICK H \in Nat : H = Pr!LastDay
  BY DEF Pr!LastDay
<1>2. SUFFICES ASSUME ~ StopsRight(day, left) PROVE FALSE
  OBVIOUS
<1>3. H - day \in 0 .. H /\ H - (H - day) = day
  BY <1>1
<1>4. H - day \in Wrong
  BY <1>1, <1>2, <1>3
<1>5. PICK k \in Wrong : \A m \in Wrong : k <= m
  <2>1. Wrong \in SUBSET Nat
    BY <1>1
  <2> HIDE DEF Wrong
  <2> QED
    BY <1>4, <2>1, FirstOf
<1>6. PICK l \in 1 .. Pr!MaxTerm : ~ StopsRight(H - k, l)
  BY <1>1
<1>7. k \in 0 .. H
  BY <1>1
<1>8. H - k # H => \A m \in 1 .. Pr!MaxTerm : StopsRight((H - k) + 1, m)
  <2> SUFFICES ASSUME H - k # H, NEW m \in 1 .. Pr!MaxTerm, ~ StopsRight((H - k) + 1, m)
               PROVE  FALSE
    OBVIOUS
  <2>1. k - 1 \in 0 .. H /\ H - (k - 1) = (H - k) + 1
    BY <1>7
  <2>2. k - 1 \in Wrong
    BY <1>1, <2>1
  <2> HIDE DEF Wrong
  <2> QED
    BY <1>5, <1>7, <2>2
<1>9. H - k \in 0 .. H
  BY <1>7
<1>10. StopsRight(H - k, l)
  <2>1. CASE Cardinality(Working(H - k, H)) >= l
    BY <1>1, <1>8, <1>9, <2>1, TurnStopsRight
  <2>2. CASE ~ (Cardinality(Working(H - k, H)) >= l)
    BY <1>1, <2>2 DEF StopsRight
  <2> QED
    BY <2>1, <2>2
<1> QED
  BY <1>6, <1>10

(***************************************************************************)
(* The instance of Promise counts as this module does.                     *)
(***************************************************************************)
LEMMA CountedAlike ==
  ASSUME NEW S
  PROVE  Pr!Cardinality(S) = Cardinality(S)
<1>1. IsFiniteSet(S) <=> Pr!IsFiniteSet(S)
  BY Zenon DEF IsFiniteSet, Pr!IsFiniteSet
<1> QED
  BY <1>1, Zenon DEF Cardinality, Pr!Cardinality

(***************************************************************************)
(* Every day of the calendar has a year, and the changes of the clock are  *)
(* dates.                                                                  *)
(***************************************************************************)
LEMMA YearTyped ==
  ASSUME NEW day \in Nat
  PROVE  Pr!YearOf(day) \in 2026 .. 2030
<1> DEFINE S == {y \in 2026 .. 2030 : Pr!DayNumber(y, 1, 1) <= day}
<1>1. 2026 \in S
  <2>1. Pr!DaysBefore[1] = 0
    BY DEF Pr!DaysBefore
  <2>2. Pr!DayNumber(2026, 1, 1) = 0
    BY <2>1 DEF Pr!DayNumber
  <2> QED
    BY <2>2
<1>2. \A y \in S : y \in {2026, 2027, 2028, 2029, 2030}
  OBVIOUS
<1>3. \E x \in S : \A y \in S : x >= y
  <2> HIDE DEF S
  <2> QED
    BY <1>1, <1>2
<1>4. Pr!Max(S) \in S
  <2> HIDE DEF S
  <2> QED
    BY <1>3 DEF Pr!Max
<1> QED
  BY <1>4 DEF Pr!YearOf

LEMMA SundayTyped ==
  ASSUME NEW y \in Int, NEW m \in {3, 11}, NEW n \in Int
  PROVE  Pr!NthSunday(y, m, n) \in Int
<1>1. Pr!DaysBefore[3] = 59 /\ Pr!DaysBefore[11] = 304
  BY DEF Pr!DaysBefore
<1>2. Pr!LeapDay(y) \in Int
  BY DEF Pr!LeapDay
<1>3. PICK first : first = Pr!DayNumber(y, m, 1)
  OBVIOUS
<1>4. first \in Int
  BY <1>1, <1>2, <1>3 DEF Pr!DayNumber
<1>5. Pr!getUTCDay(first) \in Int
  BY <1>4 DEF Pr!getUTCDay
<1> QED
  BY <1>3, <1>4, <1>5 DEF Pr!NthSunday

(***************************************************************************)
(* Within one day of UTC the offset of Havana is 5, 4, or one of them      *)
(* before 5:00 and the other from then on.                                 *)
(***************************************************************************)
LEMMA OffsetsOfADay ==
  ASSUME NEW day \in Nat
  PROVE  \E a \in Int, b \in Int : \A k \in 0 .. 23 :
           Pr!desfaseDeCuba(24 * day + k)
             = IF 24 * day + k >= 24 * a + 5 /\ 24 * day + k < 24 * b + 5 THEN 4 ELSE 5
<1>1. PICK y \in Int : y = Pr!YearOf(day)
  BY YearTyped
<1>2. PICK a \in Int, b \in Int : a = Pr!NthSunday(y, 3, 2) /\ b = Pr!NthSunday(y, 11, 1)
  <2>1. Pr!NthSunday(y, 3, 2) \in Int
    BY SundayTyped
  <2>2. Pr!NthSunday(y, 11, 1) \in Int
    BY SundayTyped
  <2> QED
    BY <2>1, <2>2
<1>3. \A k \in 0 .. 23 : (24 * day + k) \div 24 = day
  OBVIOUS
<1>4. ASSUME NEW k \in 0 .. 23
      PROVE  Pr!desfaseDeCuba(24 * day + k)
               = IF 24 * day + k >= 24 * a + 5 /\ 24 * day + k < 24 * b + 5 THEN 4 ELSE 5
  <2>1. (24 * day + k) \div 24 = day
    BY <1>3
  <2> QED
    BY <1>1, <1>2, <2>1 DEF Pr!desfaseDeCuba
<1> QED
  BY <1>4

(***************************************************************************)
(* The deadline is the hour at which its day ends in Cuba, also when the   *)
(* clock changes that night.                                               *)
(***************************************************************************)
LEMMA DayEnds ==
  ASSUME NEW last \in Nat, NEW midnight, midnight = 24 * (last + 1),
         NEW hour, hour = midnight + Pr!desfaseDeCuba(midnight)
  PROVE  /\ hour \in Nat /\ Pr!fechaEnCuba(hour) = last + 1
         /\ Pr!fechaEnCuba(hour - 1) = last
<1>1. PICK D \in Nat : D = last + 1
  OBVIOUS
<1>2. PICK a \in Int, b \in Int : \A k \in 0 .. 23 :
        Pr!desfaseDeCuba(24 * D + k)
          = IF 24 * D + k >= 24 * a + 5 /\ 24 * D + k < 24 * b + 5 THEN 4 ELSE 5
  BY OffsetsOfADay
<1>3. \A k \in 3 .. 5 : k \in 0 .. 23
  OBVIOUS
<1>4. Pr!desfaseDeCuba(midnight)
        = IF 24 * D >= 24 * a + 5 /\ 24 * D < 24 * b + 5 THEN 4 ELSE 5
  <2>1. 24 * D + 0 = midnight /\ 0 \in 0 .. 23
    BY <1>1
  <2>2. Pr!desfaseDeCuba(24 * D + 0)
          = IF 24 * D + 0 >= 24 * a + 5 /\ 24 * D + 0 < 24 * b + 5 THEN 4 ELSE 5
    BY <1>2, <2>1
  <2> QED
    BY <2>1, <2>2
<1>5. PICK d \in {4, 5} : /\ d = Pr!desfaseDeCuba(midnight) /\ hour = 24 * D + d
                          /\ d = IF 24 * D >= 24 * a + 5 /\ 24 * D < 24 * b + 5 THEN 4 ELSE 5
  BY <1>1, <1>4
<1>6. hour \in Nat /\ hour - 1 = 24 * D + (d - 1) /\ d \in 0 .. 23 /\ d - 1 \in 0 .. 23
  BY <1>5
<1>7. PICK e : e = Pr!desfaseDeCuba(hour)
  OBVIOUS
<1>8. PICK c : c = Pr!desfaseDeCuba(hour - 1)
  OBVIOUS
<1>9. e = IF 24 * D + d >= 24 * a + 5 /\ 24 * D + d < 24 * b + 5 THEN 4 ELSE 5
  BY <1>2, <1>5, <1>6, <1>7
<1>10. c = IF 24 * D + (d - 1) >= 24 * a + 5 /\ 24 * D + (d - 1) < 24 * b + 5 THEN 4 ELSE 5
  BY <1>2, <1>6, <1>8
<1>11. hour - e \in 24 * D .. 24 * D + 1
  BY <1>5, <1>9
<1>12. (hour - 1) - c \in 24 * D - 2 .. 24 * D - 1
  BY <1>5, <1>10
<1>13. (hour - e) \div 24 = D
  BY <1>11
<1>14. ((hour - 1) - c) \div 24 = D - 1
  BY <1>12
<1> QED
  BY <1>1, <1>6, <1>7, <1>8, <1>13, <1>14 DEF Pr!fechaEnCuba

(***************************************************************************)
(* finDelPlazo gives every payment and every term the end of its last      *)
(* working day.                                                            *)
(***************************************************************************)
LEMMA DeadlineRight ==
  ASSUME NEW from \in Instants, NEW days \in PromiseDays, days > 0
  PROVE  /\ Pr!finDelPlazo(from, days) # Pr!None
         /\ Pr!IsDeadline(Pr!finDelPlazo(from, days), from, days)
<1>1. from \in Nat /\ days \in Nat /\ from >= 5 /\ days <= Pr!MaxTerm
  BY PromiseAssumption, CalendarAssumption
<1>2. PICK paid : paid = Pr!fechaEnCuba(from)
  OBVIOUS
<1>3. paid \in Nat
  <2>1. PICK day \in Nat, k \in 0 .. 23 : from = 24 * day + k
    <3>1. PICK day \in Nat : day = from \div 24
      BY <1>1
    <3>2. from - 24 * day \in 0 .. 23 /\ from = 24 * day + (from - 24 * day)
      BY <1>1, <3>1
    <3> QED
      BY <3>2
  <2>2. Pr!desfaseDeCuba(from) \in {4, 5}
    <3>1. PICK a \in Int, b \in Int : \A j \in 0 .. 23 :
            Pr!desfaseDeCuba(24 * day + j)
              = IF 24 * day + j >= 24 * a + 5 /\ 24 * day + j < 24 * b + 5 THEN 4 ELSE 5
      BY OffsetsOfADay
    <3> QED
      BY <2>1, <3>1
  <2>3. PICK d \in {4, 5} : d = Pr!desfaseDeCuba(from)
    BY <2>2
  <2>4. (from - d) \div 24 \in Nat
    BY <1>1, <2>3
  <2> QED
    BY <1>2, <2>3, <2>4 DEF Pr!fechaEnCuba
<1>4. PICK H \in Nat : H = Pr!LastDay
  BY DEF Pr!LastDay
<1>5. Cardinality(Working(paid, H)) >= days
  <2>1. PICK turns \in Nat : turns = paid + Pr!MaxTurns /\ turns <= H
    <3>1. paid + Pr!MaxTurns <= H
      BY <1>2, <1>4, CalendarAssumption
    <3>2. paid + Pr!MaxTurns \in Nat
      BY <1>3 DEF Pr!MaxTurns
    <3> QED
      BY <3>1, <3>2
  <2>2. Cardinality(Working(paid, turns)) >= days
    BY <1>2, <2>1, CalendarAssumption DEF Working
  <2>3. IsFiniteSet(Working(paid, H))
    <3>1. IsFiniteSet(paid + 1 .. H)
      BY <1>3, FS_Interval
    <3> QED
      BY <3>1, FS_Subset DEF Working
  <2>4. Working(paid, turns) \subseteq Working(paid, H)
    BY <1>3, <2>1 DEF Working
  <2> QED
    BY <1>1, <2>2, <2>3, <2>4, FS_Subset, FS_CardinalityType
<1>6. paid <= H
  <2> SUFFICES ASSUME paid > H PROVE FALSE
    BY <1>3
  <2>1. Working(paid, H) = {}
    BY <1>3 DEF Working
  <2> QED
    BY <1>1, <1>5, <2>1, FS_EmptySet
<1>7. PICK last : last = Pr!Counted[paid][days]
  OBVIOUS
<1>8. /\ last \in paid + 1 .. H /\ Pr!esHabil(last)
      /\ Cardinality(Working(paid, last)) = days
  <2>1. paid \in 0 .. Pr!LastDay /\ days \in 1 .. Pr!MaxTerm
    <3>1. Pr!MaxTerm \in Nat
      BY DEF Pr!MaxTerm
    <3> QED
      BY <1>1, <1>3, <1>4, <1>6, <3>1
  <2>2. StopsRight(paid, days)
    BY <2>1, LoopStopsRight
  <2> QED
    BY <1>4, <1>5, <1>7, <2>2 DEF StopsRight
<1>9. PICK midnight : midnight = 24 * (last + 1)
  OBVIOUS
<1>10. PICK hour : hour = midnight + Pr!desfaseDeCuba(midnight)
  OBVIOUS
<1>11. last \in Nat
  BY <1>3, <1>8
<1>12. /\ hour \in Nat /\ Pr!fechaEnCuba(hour) = last + 1
       /\ Pr!fechaEnCuba(hour - 1) = last
  BY <1>9, <1>10, <1>11, DayEnds
<1>13. Pr!finDelPlazo(from, days) = hour
  <2>1. ~ (days <= 0)
    BY <1>1
  <2> QED
    BY <1>2, <1>7, <1>9, <1>10, <2>1, Zenon DEF Pr!finDelPlazo
<1>14. {day \in Pr!fechaEnCuba(from) + 1 .. Pr!fechaEnCuba(hour - 1) :
          Pr!getUTCDay(day) # 0 /\ day \notin Pr!feriadosCubanos(Pr!YearOf(day))}
         = Working(paid, Pr!fechaEnCuba(hour - 1))
  BY <1>2, Zenon DEF Working, Pr!esHabil
<1>15. Pr!IsDeadline(hour, from, days)
  <2>1. Pr!Cardinality(Working(paid, Pr!fechaEnCuba(hour - 1))) = days
    BY <1>8, <1>12, CountedAlike, Zenon
  <2>2. Pr!esHabil(Pr!fechaEnCuba(hour - 1))
        /\ Pr!fechaEnCuba(hour) = Pr!fechaEnCuba(hour - 1) + 1
    BY <1>8, <1>12, Zenon
  <2> QED
    BY <1>14, <2>1, <2>2, Zenon DEF Pr!IsDeadline
<1>16. hour # Pr!None
  BY <1>12 DEF Pr!None
<1> QED
  BY <1>13, <1>15, <1>16

SealedOrder(o) ==
  /\ o = [payment |-> o.payment, promiseDays |-> o.promiseDays, paidAt |-> o.paidAt,
          promisedAt |-> o.promisedAt]
  /\ o.promiseDays \in PromiseDays /\ o.paidAt \in Instants \cup {Pr!None}
  /\ o.promisedAt = IF o.paidAt = Pr!None THEN Pr!None
                    ELSE Pr!finDelPlazo(o.paidAt, o.promiseDays)

(* A sealed order is promised what its own date of payment gives, and a     *)
(* paid one is sealed.                                                      *)
PromiseInv ==
  /\ now \in Instants /\ SealedOrder(order)
  /\ order.payment = "paid" => order.paidAt # Pr!None

(***************************************************************************)
(* The first hour of the clock is one of the hours.                        *)
(***************************************************************************)
LEMMA FirstInstant == Pr!Min(Instants) \in Instants
<1>1. \E x \in Instants : \A y \in Instants : x <= y
  BY PromiseAssumption, FirstOf
<1> QED
  BY <1>1 DEF Pr!Min

(***************************************************************************)
(* sellarCobro keeps the date it finds; the promise it computes again is   *)
(* the one on record.                                                      *)
(***************************************************************************)
LEMMA SealOnce ==
  ASSUME NEW o, SealedOrder(o), NEW when \in Instants
  PROVE  LET r == Pr!sellarCobro(o, when)
         IN  /\ SealedOrder(r) /\ r.payment = o.payment /\ r.paidAt # Pr!None
             /\ o.paidAt # Pr!None => r.paidAt = o.paidAt /\ r.promisedAt = o.promisedAt
<1> DEFINE paid == [o EXCEPT !.paidAt = IF o.paidAt = Pr!None THEN when ELSE o.paidAt]
           r == Pr!sellarCobro(o, when)
<1>1. /\ paid = [payment |-> o.payment, promiseDays |-> o.promiseDays,
                 paidAt |-> IF o.paidAt = Pr!None THEN when ELSE o.paidAt,
                 promisedAt |-> o.promisedAt]
  BY DEF SealedOrder
<1>2. r = [paid EXCEPT !.promisedAt =
             IF paid.promisedAt = Pr!None THEN Pr!finDelPlazo(paid.paidAt, paid.promiseDays)
             ELSE paid.promisedAt]
  BY DEF Pr!sellarCobro
<1>3. when # Pr!None
  BY PromiseAssumption DEF Pr!None
<1>4. /\ r = [payment |-> r.payment, promiseDays |-> r.promiseDays, paidAt |-> r.paidAt,
              promisedAt |-> r.promisedAt]
      /\ r.payment = o.payment /\ r.promiseDays = o.promiseDays
      /\ r.paidAt = IF o.paidAt = Pr!None THEN when ELSE o.paidAt
      /\ r.promisedAt = IF o.promisedAt = Pr!None
                        THEN Pr!finDelPlazo(r.paidAt, o.promiseDays) ELSE o.promisedAt
  BY <1>1, <1>2
<1>5. r.promisedAt = Pr!finDelPlazo(r.paidAt, o.promiseDays)
  BY <1>3, <1>4 DEF SealedOrder
<1> HIDE DEF r, paid
<1>6. SealedOrder(r)
  BY <1>3, <1>4, <1>5 DEF SealedOrder
<1>7. o.paidAt # Pr!None => r.paidAt = o.paidAt /\ r.promisedAt = o.promisedAt
  BY <1>4, <1>5 DEF SealedOrder
<1>8. r.paidAt # Pr!None
  BY <1>3, <1>4
<1> QED
  BY <1>4, <1>6, <1>7, <1>8 DEF r

(***************************************************************************)
(* A payment status that changes leaves the seal as it is.                 *)
(***************************************************************************)
LEMMA PaymentApart ==
  ASSUME NEW o, SealedOrder(o), NEW to
  PROVE  LET r == [o EXCEPT !.payment = to]
         IN  /\ SealedOrder(r) /\ r.payment = to
             /\ r.paidAt = o.paidAt /\ r.promisedAt = o.promisedAt
BY DEF SealedOrder

PromiseKept ==
  order.paidAt # Pr!None =>
    \/ order'.paidAt = order.paidAt /\ order'.promisedAt = order.promisedAt
    \/ /\ order.payment = "paid" /\ order'.payment # "paid"
       /\ order'.paidAt = Pr!None /\ order'.promisedAt = Pr!None

(***************************************************************************)
(* Every step that touches the order keeps it sealed as it was, or takes   *)
(* the whole seal off.                                                     *)
(***************************************************************************)
LEMMA PromiseStepKeeps ==
  ASSUME PromiseInv, Pr!Next
  PROVE  PromiseInv' /\ PromiseKept
<1>1. SealedOrder(order) /\ now \in Instants
  BY DEF PromiseInv
<1>2. CASE Pr!Tick
  BY <1>1, <1>2 DEF Pr!Tick, PromiseInv, PromiseKept, SealedOrder
<1>3. ASSUME now' = now, NEW to, NEW when \in Instants,
             order' = Pr!sellarCobro([order EXCEPT !.payment = to], when)
      PROVE  PromiseInv' /\ PromiseKept
  <2>1. PICK o : o = [order EXCEPT !.payment = to]
    OBVIOUS
  <2>2. SealedOrder(o) /\ o.paidAt = order.paidAt /\ o.promisedAt = order.promisedAt
    BY <1>1, <2>1, PaymentApart
  <2>3. /\ SealedOrder(order') /\ order'.paidAt # Pr!None
        /\ o.paidAt # Pr!None => order'.paidAt = o.paidAt /\ order'.promisedAt = o.promisedAt
    BY <1>3, <2>1, <2>2, SealOnce
  <2> QED
    BY <1>1, <1>3, <2>2, <2>3 DEF PromiseInv, PromiseKept, SealedOrder
<1>4. ASSUME now' = now, NEW to, to # "paid", order' = [order EXCEPT !.payment = to]
      PROVE  PromiseInv' /\ PromiseKept
  <2>1. /\ SealedOrder(order') /\ order'.payment = to /\ order'.paidAt = order.paidAt
        /\ order'.promisedAt = order.promisedAt
    BY <1>1, <1>4, PaymentApart
  <2> QED
    BY <1>1, <1>4, <2>1 DEF PromiseInv, PromiseKept, SealedOrder
<1>5. ASSUME now' = now, NEW to, to # "paid", order.payment = "paid",
             order' = Pr!deshacerCobro([order EXCEPT !.payment = to])
      PROVE  PromiseInv' /\ PromiseKept
  <2>1. /\ order' = [payment |-> to, promiseDays |-> order.promiseDays, paidAt |-> Pr!None,
                     promisedAt |-> Pr!None]
    BY <1>1, <1>5 DEF Pr!deshacerCobro, SealedOrder
  <2> QED
    BY <1>1, <1>5, <2>1 DEF PromiseInv, PromiseKept, SealedOrder
<1>6. ASSUME NEW when \in Instants, Pr!GatewayPays(when) PROVE PromiseInv' /\ PromiseKept
  BY <1>3, <1>6 DEF Pr!GatewayPays
<1>7. CASE Pr!GatewayFails \/ Pr!RefundCompleted
  BY <1>4, <1>7 DEF Pr!GatewayFails, Pr!RefundCompleted
<1>8. ASSUME NEW to \in Pr!PaymentStatus, Pr!updatePaymentStatus(to)
      PROVE  PromiseInv' /\ PromiseKept
  <2>1. CASE to = "paid"
    BY <1>1, <1>3, <1>8, <2>1 DEF Pr!updatePaymentStatus
  <2>2. CASE to # "paid"
    BY <1>4, <1>8, <2>2 DEF Pr!updatePaymentStatus
  <2> QED
    BY <2>1, <2>2
<1>9. ASSUME NEW to \in Pr!PaymentStatus, Pr!correct(to)
      PROVE  PromiseInv' /\ PromiseKept
  <2>1. CASE to = "paid"
    BY <1>1, <1>3, <1>9, <2>1 DEF Pr!correct
  <2>2. CASE to # "paid" /\ order.payment = "paid"
    BY <1>5, <1>9, <2>2 DEF Pr!correct
  <2>3. CASE to # "paid" /\ order.payment # "paid"
    BY <1>4, <1>9, <2>3 DEF Pr!correct
  <2> QED
    BY <2>1, <2>2, <2>3
<1> QED
  BY <1>2, <1>6, <1>7, <1>8, <1>9 DEF Pr!Next

(***************************************************************************)
(* An order just placed, paid or not, is promised what it should be.       *)
(***************************************************************************)
LEMMA PromiseInit ==
  ASSUME Pr!Init
  PROVE  PromiseInv
<1>1. now \in Instants
  BY FirstInstant DEF Pr!Init
<1>2. \A days \in PromiseDays : SealedOrder(Pr!Unpaid(days))
  BY DEF SealedOrder, Pr!Unpaid
<1>3. PICK days \in PromiseDays : order \in {Pr!Unpaid(days),
                             Pr!sellarCobro([Pr!Unpaid(days) EXCEPT !.payment = "paid"], now)}
  BY DEF Pr!Init
<1>4. PICK u : u = Pr!Unpaid(days)
  OBVIOUS
<1>5. PICK o : o = [u EXCEPT !.payment = "paid"]
  OBVIOUS
<1>6. SealedOrder(u) /\ SealedOrder(o) /\ u.payment # "paid"
  BY <1>2, <1>4, <1>5, PaymentApart DEF Pr!Unpaid
<1>7. SealedOrder(Pr!sellarCobro(o, now)) /\ Pr!sellarCobro(o, now).paidAt # Pr!None
  BY <1>1, <1>6, SealOnce
<1> QED
  BY <1>1, <1>3, <1>4, <1>5, <1>6, <1>7 DEF PromiseInv

(***************************************************************************)
(* PromiseInv holds initially, and every step keeps it.                    *)
(***************************************************************************)
LEMMA PromiseInductive ==
  /\ Init => PromiseInv
  /\ PromiseInv /\ [Next]_vars => PromiseInv' /\ PromiseKept
<1>1. Init => PromiseInv
  BY PromiseInit DEF Init
<1>2. ASSUME PromiseInv, [Next]_vars PROVE PromiseInv' /\ PromiseKept
  <2>1. CASE PromiseStep
    BY <1>2, <2>1, PromiseStepKeeps DEF PromiseStep
  <2>2. CASE UNCHANGED promiseVars
    BY <1>2, <2>2 DEF promiseVars, PromiseInv, PromiseKept, SealedOrder
  <2> QED
    BY <1>2, <2>1, <2>2 DEF Next, vars, CartStep, AttemptStep, DeliveryStep, CatalogueStep,
                            ContentStep, MailStep
<1> QED
  BY <1>1, <1>2

(***************************************************************************)
(* However often the gateway repeats itself, a clerk clicks and a refund   *)
(* completes, the date of payment and the promise stand until a correction *)
(* takes the order out of paid.                                            *)
(***************************************************************************)
THEOREM PromiseHolds == Spec => PromiseStands
<1>1. PromiseInv /\ [Next]_vars => [PromiseKept]_(Pr!vars)
  BY PromiseInductive
<1> QED
  BY <1>1, PromiseInductive, PTL DEF Spec, PromiseStands, Pr!PromiseStands, PromiseKept

(***************************************************************************)
(* Whatever the day of the payment and the term, the date promised is the  *)
(* last hour in Cuba of the last of its working days, over Sundays,        *)
(* holidays, the turn of the year and the changes of the clock; and a paid *)
(* order with a term has one.                                              *)
(***************************************************************************)
THEOREM PromiseIsRight == Spec => []PromiseMatchesPayment
<1>1. ASSUME PromiseInv PROVE PromiseMatchesPayment
  <2>1. PICK days \in PromiseDays : days = order.promiseDays
    BY <1>1 DEF PromiseInv, SealedOrder
  <2>2. days \in Nat
    BY PromiseAssumption
  <2>3. ASSUME order.promisedAt # Pr!None
        PROVE  /\ order.paidAt # Pr!None
               /\ Pr!IsDeadline(order.promisedAt, order.paidAt, order.promiseDays)
    <3>1. PICK from \in Instants : from = order.paidAt
      BY <1>1, <2>3 DEF PromiseInv, SealedOrder
    <3>2. order.paidAt # Pr!None /\ order.promisedAt = Pr!finDelPlazo(from, days)
      BY <1>1, <2>1, <2>3, <3>1 DEF PromiseInv, SealedOrder
    <3>3. days > 0
      <4>1. days <= 0 => Pr!finDelPlazo(from, days) = Pr!None
        BY Zenon DEF Pr!finDelPlazo
      <4> QED
        BY <2>2, <2>3, <3>2, <4>1
    <3> QED
      BY <2>1, <3>1, <3>2, <3>3, DeadlineRight
  <2>4. ASSUME order.payment = "paid", order.promiseDays > 0
        PROVE  order.promisedAt # Pr!None
    <3>1. PICK from \in Instants : from = order.paidAt
      BY <1>1, <2>4 DEF PromiseInv, SealedOrder
    <3>2. order.promisedAt = Pr!finDelPlazo(from, days)
      BY <1>1, <2>1, <2>4, <3>1 DEF PromiseInv, SealedOrder
    <3> QED
      BY <2>1, <2>4, <3>2, DeadlineRight
  <2> QED
    BY <2>3, <2>4 DEF PromiseMatchesPayment, Pr!PromiseMatchesPayment
<1> QED
  BY <1>1, PromiseInductive, PTL DEF Spec

-----------------------------------------------------------------------------
(* Content *)

VersionsOf(V, p) == {w \in V : w.pageId = p}
Latest(V, p) == Cardinality(VersionsOf(V, p))
NumbersOf(V, p) == {v.version : v \in VersionsOf(V, p)}

(* A row, or a copy of one, shows a version on record, 0 for none. *)
PageOK(x, latest) ==
  /\ x = [state |-> x.state, slug |-> x.slug, content |-> x.content, isActive |-> x.isActive,
          startsAt |-> x.startsAt, endsAt |-> x.endsAt, published |-> x.published]
  /\ x.published \in Nat /\ x.published <= latest

RequestOK(q, V) ==
  /\ q.page \in Pages \/ q.page = Null
  /\ q.pc # "idle" => q.page \in Pages /\ PageOK(q.copy, Latest(V, q.page))

RecordOK(V) ==
  /\ IsFiniteSet(V)
  /\ \A p \in Pages : NumbersOf(V, p) = 1 .. Latest(V, p)

PagesOK(P, V) == P = [p \in Pages |-> P[p]] /\ \A p \in Pages : PageOK(P[p], Latest(V, p))

RequestsOK(R, V) == R = [r \in Requests |-> R[r]] /\ \A r \in Requests : RequestOK(R[r], V)

(* Every copy in flight points at a version that exists, so the number after *)
(* it is either taken or the next of the record.                             *)
ContentInv == RecordOK(versions) /\ PagesOK(pages, versions) /\ RequestsOK(requests, versions)

(***************************************************************************)
(* Versions are counted.                                                   *)
(***************************************************************************)
LEMMA LatestNat ==
  ASSUME NEW V, IsFiniteSet(V), NEW p
  PROVE  Latest(V, p) \in Nat /\ IsFiniteSet(VersionsOf(V, p))
<1>1. IsFiniteSet(VersionsOf(V, p))
  BY FS_Subset DEF VersionsOf
<1> QED
  BY <1>1, FS_CardinalityType DEF Latest

(***************************************************************************)
(* The cardinality of the instance is the cardinality.                     *)
(***************************************************************************)
LEMMA SameCount == \A S : Co!Cardinality(S) = Cardinality(S)
BY DEF Co!Cardinality, Cardinality

(***************************************************************************)
(* The version after the last makes the record of its page one longer, and *)
(* leaves the others as they are.                                          *)
(***************************************************************************)
LEMMA VersionAdded ==
  ASSUME NEW V, RecordOK(V), NEW p \in Pages, NEW n \in Nat, n <= Latest(V, p),
         n + 1 \notin NumbersOf(V, p),
         NEW row, row.pageId = p, row.version = n + 1, NEW W, W = V \cup {row}
  PROVE  /\ RecordOK(W) /\ Latest(W, p) = n + 1
         /\ \A q \in Pages : Latest(V, q) <= Latest(W, q)
<1>1. /\ IsFiniteSet(V) /\ IsFiniteSet(W)
      /\ Latest(V, p) \in Nat /\ IsFiniteSet(VersionsOf(V, p))
  BY FS_AddElement, LatestNat DEF RecordOK
<1>2. n = Latest(V, p)
  <2>1. ~ (n + 1 \in 1 .. Latest(V, p))
    BY DEF RecordOK
  <2> QED
    BY <1>1, <2>1
<1>3. VersionsOf(W, p) = VersionsOf(V, p) \cup {row} /\ row \notin VersionsOf(V, p)
  BY DEF VersionsOf, NumbersOf
<1>4. ASSUME NEW q \in Pages, q # p PROVE VersionsOf(W, q) = VersionsOf(V, q)
  BY <1>4 DEF VersionsOf
<1>5. Latest(W, p) = n + 1
  <2>1. PICK S : S = VersionsOf(V, p)
    OBVIOUS
  <2>2. IsFiniteSet(S) /\ row \notin S
    BY <1>1, <1>3, <2>1
  <2>3. Cardinality(S \cup {row}) = Cardinality(S) + 1
    BY <2>2, FS_AddElement
  <2>4. Latest(V, p) = Cardinality(S) /\ Latest(W, p) = Cardinality(S \cup {row})
    BY <1>3, <2>1 DEF Latest
  <2> QED
    BY <1>2, <2>3, <2>4
<1>6. NumbersOf(W, p) = NumbersOf(V, p) \cup {n + 1}
  BY <1>3 DEF NumbersOf
<1>7. 1 .. n + 1 = (1 .. n) \cup {n + 1}
  OBVIOUS
<1>8. NumbersOf(W, p) = 1 .. Latest(W, p)
  BY <1>2, <1>5, <1>6, <1>7 DEF RecordOK
<1>9. ASSUME NEW q \in Pages
      PROVE  NumbersOf(W, q) = 1 .. Latest(W, q) /\ Latest(V, q) <= Latest(W, q)
  <2>1. Latest(V, q) \in Nat
    BY <1>1, LatestNat
  <2>2. CASE q = p
    BY <1>1, <1>2, <1>5, <1>8, <2>2
  <2>3. CASE q # p
    <3>1. NumbersOf(W, q) = NumbersOf(V, q) /\ Latest(W, q) = Latest(V, q)
      BY <1>4, <2>3 DEF NumbersOf, Latest
    <3> QED
      BY <2>1, <3>1 DEF RecordOK
  <2> QED
    BY <2>2, <2>3
<1>10. RecordOK(W)
  BY <1>1, <1>9 DEF RecordOK
<1> QED
  BY <1>5, <1>9, <1>10 

(***************************************************************************)
(* A record that grows spoils no row and no copy.                          *)
(***************************************************************************)
LEMMA GrowingIsHarmless ==
  ASSUME NEW V, NEW W, IsFiniteSet(V), IsFiniteSet(W),
         \A p \in Pages : Latest(V, p) <= Latest(W, p)
  PROVE  /\ \A P : PagesOK(P, V) => PagesOK(P, W)
         /\ \A q : RequestOK(q, V) => RequestOK(q, W)
<1>1. \A p \in Pages : Latest(V, p) \in Nat /\ Latest(W, p) \in Nat
  BY LatestNat
<1>2. \A p \in Pages : \A x : PageOK(x, Latest(V, p)) => PageOK(x, Latest(W, p))
  BY <1>1 DEF PageOK
<1>3. ASSUME NEW P, PagesOK(P, V) PROVE PagesOK(P, W)
  BY <1>2, <1>3 DEF PagesOK
<1>4. ASSUME NEW q, RequestOK(q, V) PROVE RequestOK(q, W)
  BY <1>2, <1>4 DEF RequestOK
<1> QED
  BY <1>3, <1>4

(***************************************************************************)
(* What the handlers do to the rows, between them: free slugs, and save a  *)
(* copy over its row.                                                      *)
(***************************************************************************)
LEMMA PagesReclaimed ==
  ASSUME PagesOK(pages, versions), NEW slug
  PROVE  PagesOK(Co!Reclaimed(slug), versions)
BY DEF PagesOK, PageOK, Co!Reclaimed

LEMMA PageSaved ==
  ASSUME PagesOK(pages, versions), NEW p \in Pages, NEW copy,
         PageOK(copy, Latest(versions, p)), Co!Save(p, copy)
  PROVE  PagesOK(pages', versions)
BY DEF PagesOK, Co!Save

(***************************************************************************)
(* A handler changes its copy, and never the version it shows.             *)
(***************************************************************************)
LEMMA PageEdited ==
  ASSUME NEW x, NEW n, PageOK(x, n)
  PROVE  /\ \A slug : PageOK([x EXCEPT !.slug = slug], n)
         /\ \A state : PageOK([x EXCEPT !.state = state], n)
         /\ \A content, active, from, until :
              PageOK([x EXCEPT !.content = content, !.isActive = active,
                               !.startsAt = from, !.endsAt = until], n)
<1>1. ASSUME NEW slug PROVE PageOK([x EXCEPT !.slug = slug], n)
  BY DEF PageOK
<1>2. ASSUME NEW state PROVE PageOK([x EXCEPT !.state = state], n)
  BY DEF PageOK
<1>3. ASSUME NEW content, NEW active, NEW from, NEW until
      PROVE  PageOK([x EXCEPT !.content = content, !.isActive = active,
                              !.startsAt = from, !.endsAt = until], n)
  <2>1. PICK y : y = [x EXCEPT !.content = content]
    OBVIOUS
  <2>2. PICK z : z = [y EXCEPT !.isActive = active]
    OBVIOUS
  <2>3. PICK w : w = [z EXCEPT !.startsAt = from]
    OBVIOUS
  <2>4. PageOK(y, n)
    BY <2>1 DEF PageOK
  <2>5. PageOK(z, n)
    BY <2>2, <2>4 DEF PageOK
  <2>6. PageOK(w, n)
    BY <2>3, <2>5 DEF PageOK
  <2>7. PageOK([w EXCEPT !.endsAt = until], n)
    BY <2>6 DEF PageOK
  <2>8. [x EXCEPT !.content = content, !.isActive = active, !.startsAt = from, !.endsAt = until]
        = [[[[x EXCEPT !.content = content] EXCEPT !.isActive = active]
             EXCEPT !.startsAt = from] EXCEPT !.endsAt = until]
    OBVIOUS
  <2> QED
    BY <2>1, <2>2, <2>3, <2>7, <2>8
<1> QED
  BY <1>1, <1>2, <1>3

(***************************************************************************)
(* One request moves on.                                                   *)
(***************************************************************************)
LEMMA RequestMoves ==
  ASSUME RequestsOK(requests, versions), NEW r \in Requests, NEW q, RequestOK(q, versions),
         requests' = [requests EXCEPT ![r] = q]
  PROVE  RequestsOK(requests', versions)
BY DEF RequestsOK

(***************************************************************************)
(* Every handler keeps the record, and leaves the rows and the copies      *)
(* pointing into it.                                                       *)
(***************************************************************************)
LEMMA ContentStepKeeps ==
  ASSUME ContentInv, Co!Next
  PROVE  ContentInv'
<1>1. /\ IsFiniteSet(versions) /\ RecordOK(versions) /\ PagesOK(pages, versions)
      /\ RequestsOK(requests, versions)
  BY DEF ContentInv, RecordOK
<1>2. \A p \in Pages : Latest(versions, p) \in Nat
  BY <1>1, LatestNat
<1>3. RequestOK(Co!Idle, versions)
  BY DEF RequestOK, Co!Idle
<1>4. \A p \in Pages : PageOK(pages[p], Latest(versions, p))
  BY <1>1 DEF PagesOK
<1>5. ASSUME NEW p \in Pages, NEW pc, NEW copy, PageOK(copy, Latest(versions, p))
      PROVE  RequestOK([pc |-> pc, page |-> p, copy |-> copy], versions)
  BY <1>5 DEF RequestOK
<1>6. ASSUME NEW r \in Requests, versions' = versions, PagesOK(pages', versions),
             \/ Co!Done(r)
             \/ \E p \in Pages : \E pc, copy :
                  PageOK(copy, Latest(versions, p)) /\ Co!Go(r, pc, p, copy)
      PROVE  ContentInv'
  <2>1. RequestsOK(requests', versions)
    BY <1>1, <1>3, <1>5, <1>6, RequestMoves DEF Co!Done, Co!Go
  <2> QED
    BY <1>1, <1>6, <2>1 DEF ContentInv
<1>7. CASE Co!Restart
  <2>1. RequestsOK(requests', versions)
    BY <1>3, <1>7 DEF Co!Restart, RequestsOK
  <2> QED
    BY <1>1, <1>7, <2>1 DEF Co!Restart, ContentInv
<1>8. ASSUME NEW r \in Requests, NEW p \in Pages, NEW content, NEW window,
             Co!Create(r, p, content, window)
      PROVE  ContentInv'
  <2>1. PagesOK(pages', versions)
    BY <1>1, <1>8, PagesReclaimed DEF Co!Create
  <2>2. \A slug, from, until :
          PageOK([state |-> "live", slug |-> slug, content |-> content, isActive |-> TRUE,
                  startsAt |-> from, endsAt |-> until, published |-> 0], Latest(versions, p))
    BY <1>2 DEF PageOK
  <2> QED
    BY <1>6, <1>8, <2>1, <2>2 DEF Co!Create
<1>9. ASSUME NEW r \in Requests, NEW p \in Pages, NEW content, NEW active, NEW window,
             Co!Update(r, p, content, active, window)
      PROVE  ContentInv'
  <2>1. \A from, until :
          PageOK([pages[p] EXCEPT !.content = content, !.isActive = active,
                                  !.startsAt = from, !.endsAt = until], Latest(versions, p))
    BY <1>4, PageEdited
  <2> QED
    BY <1>1, <1>6, <1>9, <2>1 DEF Co!Update
<1>10. ASSUME NEW r \in Requests, NEW p \in Pages, Co!Rename(r, p)
       PROVE  ContentInv'
  <2>1. PagesOK(pages', versions)
    BY <1>1, <1>10, PagesReclaimed DEF Co!Rename
  <2>2. \A slug : PageOK([pages[p] EXCEPT !.slug = slug], Latest(versions, p))
    BY <1>4, PageEdited
  <2> QED
    BY <1>6, <1>10, <2>1, <2>2 DEF Co!Rename
<1>11. ASSUME NEW r \in Requests, NEW p \in Pages, Co!Publish(r, p)
       PROVE  ContentInv'
  BY <1>1, <1>4, <1>6, <1>11 DEF Co!Publish
<1>12. ASSUME NEW r \in Requests, NEW p \in Pages, Co!Remove(r, p)
       PROVE  ContentInv'
  <2>1. PageOK([pages[p] EXCEPT !.slug = 0], Latest(versions, p))
    BY <1>4, PageEdited
  <2> QED
    BY <1>1, <1>6, <1>12, <2>1 DEF Co!Remove
<1>13. ASSUME NEW r \in Requests, requests[r].pc # "idle"
       PROVE  /\ requests[r].page \in Pages
              /\ PageOK(requests[r].copy, Latest(versions, requests[r].page))
  BY <1>1, <1>13 DEF RequestsOK, RequestOK
<1>14. ASSUME NEW r \in Requests, Co!Insert(r) \/ Co!SaveUpdate(r) \/ Co!PointAtVersion(r)
       PROVE  ContentInv'
  <2>1. PagesOK(pages', versions)
    BY <1>1, <1>13, <1>14, PageSaved DEF Co!Insert, Co!SaveUpdate, Co!PointAtVersion
  <2> QED
    BY <1>6, <1>14, <2>1 DEF Co!Insert, Co!SaveUpdate, Co!PointAtVersion
<1>15. ASSUME NEW r \in Requests, Co!FreeSlug(r)
       PROVE  ContentInv'
  <2>1. PagesOK(pages', versions)
    BY <1>1, <1>13, <1>15, PageSaved DEF Co!FreeSlug
  <2> QED
    BY <1>6, <1>13, <1>15, <2>1 DEF Co!FreeSlug
<1>16. ASSUME NEW r \in Requests, Co!SoftDelete(r)
       PROVE  ContentInv'
  <2>1. PICK p \in Pages : p = requests[r].page
    BY <1>13, <1>16 DEF Co!SoftDelete
  <2>2. PageOK([pages[p] EXCEPT !.state = "deleted"], Latest(versions, p))
    BY <1>4, PageEdited
  <2>3. pages' = [pages EXCEPT ![p] = [pages[p] EXCEPT !.state = "deleted"]]
    BY <1>16, <2>1 DEF Co!SoftDelete
  <2>4. PagesOK(pages', versions)
    BY <1>1, <2>2, <2>3 DEF PagesOK
  <2> QED
    BY <1>6, <1>16, <2>4 DEF Co!SoftDelete
<1>17. ASSUME NEW r \in Requests, Co!InsertVersion(r)
       PROVE  ContentInv'
  <2>1. PICK p, copy : p \in Pages /\ p = requests[r].page /\ copy = requests[r].copy
    BY <1>13, <1>17 DEF Co!InsertVersion
  <2>2. PICK row : row = [pageId |-> p, version |-> copy.published + 1, content |-> copy.content]
    OBVIOUS
  <2>3. PageOK(copy, Latest(versions, p))
    BY <1>13, <1>17, <2>1 DEF Co!InsertVersion
  <2>4. CASE copy.published + 1 \in NumbersOf(versions, p)
    <3>1. versions' = versions /\ Co!Done(r) /\ pages' = pages
      BY <1>17, <2>1, <2>4 DEF Co!InsertVersion, NumbersOf, VersionsOf
    <3> QED
      BY <1>1, <1>6, <3>1
  <2>5. CASE copy.published + 1 \notin NumbersOf(versions, p)
    <3> DEFINE moved == [copy EXCEPT !.published = copy.published + 1]
    <3>1. /\ versions' = versions \cup {row} /\ pages' = pages
          /\ requests' = [requests EXCEPT ![r] = [pc |-> "point", page |-> p, copy |-> moved]]
      BY <1>17, <2>1, <2>2, <2>5 DEF Co!InsertVersion, NumbersOf, VersionsOf, Co!Go
    <3>2. copy.published \in Nat /\ copy.published <= Latest(versions, p)
      BY <2>3 DEF PageOK
    <3>3. /\ RecordOK(versions') /\ Latest(versions', p) = copy.published + 1
          /\ \A q \in Pages : Latest(versions, q) <= Latest(versions', q)
      BY <1>1, <2>1, <2>2, <2>5, <3>2, <3>1, VersionAdded
    <3>4. IsFiniteSet(versions')
      BY <3>3 DEF RecordOK
    <3>5. /\ PagesOK(pages, versions')
          /\ \A q : RequestOK(q, versions) => RequestOK(q, versions')
      BY <1>1, <3>3, <3>4, GrowingIsHarmless
    <3>6. PageOK(moved, copy.published + 1)
      BY <2>3 DEF PageOK
    <3> HIDE DEF moved
    <3>7. RequestOK([pc |-> "point", page |-> p, copy |-> moved], versions')
      BY <2>1, <3>3, <3>6 DEF RequestOK
    <3>8. RequestsOK(requests', versions')
      BY <1>1, <3>1, <3>5, <3>7 DEF RequestsOK
    <3> QED
      BY <3>1, <3>3, <3>5, <3>8 DEF ContentInv
  <2> QED
    BY <2>4, <2>5
<1> QED
  BY <1>7, <1>8, <1>9, <1>10, <1>11, <1>12, <1>14, <1>15, <1>16, <1>17 DEF Co!Next

(***************************************************************************)
(* A shop without texts.                                                   *)
(***************************************************************************)
LEMMA ContentInit ==
  ASSUME Co!Init
  PROVE  ContentInv
<1>1. \A p \in Pages : VersionsOf({}, p) = {} /\ NumbersOf({}, p) = {} /\ Latest({}, p) = 0
  BY FS_EmptySet DEF VersionsOf, NumbersOf, Latest
<1>2. RecordOK({})
  BY <1>1, FS_EmptySet DEF RecordOK
<1>3. PagesOK(pages, {})
  <2>1. PageOK(Co!NoPage, 0)
    BY DEF PageOK, Co!NoPage
  <2> QED
    BY <1>1, <2>1 DEF Co!Init, PagesOK
<1>4. RequestsOK(requests, {})
  BY DEF Co!Init, RequestsOK, RequestOK, Co!Idle
<1> QED
  BY <1>2, <1>3, <1>4 DEF Co!Init, ContentInv

(***************************************************************************)
(* Whatever requests overlap and wherever the server stops, the versions   *)
(* of every page are numbered without gaps or repetitions, and the store   *)
(* shows one of them.                                                      *)
(***************************************************************************)
THEOREM RecordIsComplete == Spec => []RecordComplete
<1>1. Init => ContentInv
  BY ContentInit DEF Init
<1>2. ContentInv /\ [Next]_vars => ContentInv'
  <2> SUFFICES ASSUME ContentInv, [Next]_vars PROVE ContentInv'
    OBVIOUS
  <2>1. CASE ContentStep
    BY <2>1, ContentStepKeeps DEF ContentStep
  <2>2. CASE UNCHANGED contentVars
    BY <2>2 DEF contentVars, ContentInv
  <2> QED
    BY <2>1, <2>2 DEF Next, vars, CartStep, AttemptStep, PromiseStep, DeliveryStep, CatalogueStep,
                      MailStep
<1>3. ContentInv => RecordComplete
  <2> SUFFICES ASSUME ContentInv, NEW p \in Pages
               PROVE  /\ NumbersOf(versions, p) = 1 .. Latest(versions, p)
                      /\ Co!Public(p) => pages[p].published \in NumbersOf(versions, p)
    <3>1. \A p, at : p \in Co!listPublishedPages \cup Co!listVisibleHomeNotices(at)
                     => Co!Public(p)
      BY DEF Co!listPublishedPages, Co!listVisibleHomeNotices
    <3> QED
      BY <3>1, SameCount, Zenon DEF RecordComplete, Co!RecordComplete, NumbersOf, VersionsOf, Latest
  <2>1. Latest(versions, p) \in Nat
    BY LatestNat DEF ContentInv, RecordOK
  <2> QED
    BY <2>1 DEF ContentInv, RecordOK, PagesOK, PageOK, Co!Public
<1> QED
  BY <1>1, <1>2, <1>3, PTL DEF Spec

-----------------------------------------------------------------------------
(* Attempts *)

Refs(C) == {c.reference : c \in C}
Upto(R, k) == {x \in R : x[2] <= k}
Untouched(X, k) == \A n \in X : n > k

(* While no attempt up to the k-th was removed there are k on record: all  *)
(* numbers below a settled one are used up.                                *)
Settled(R, X, j) == \A k \in 1 .. j : Untouched(X, k) => Cardinality(Upto(R, k)) >= k

(* The same for a number about to be used, short of itself. *)
Near(R, X, j) ==
  /\ Settled(R, X, j - 1)
  /\ Untouched(X, j) => Cardinality(Upto(R, j)) >= j - 1

Fresh(X, key, dead) == key \in dead => \E n \in X : n <= key[2]

(* References only leave the table with their numbers noted as removed. *)
Follows(R, X, S, Y) == X \subseteq Y /\ \A x \in R : x \in S \/ x[2] \in Y

RefsOK(R, X) == R \subseteq At!Key /\ IsFiniteSet(R) /\ X \subseteq 1 .. MaxAttempts

(***************************************************************************)
(* The cardinality of the instance is the cardinality.                     *)
(***************************************************************************)
LEMMA SameCountOfAttempts == \A S : At!Cardinality(S) = Cardinality(S)
BY DEF At!Cardinality, Cardinality

LEMMA UptoCounts ==
  ASSUME NEW R, IsFiniteSet(R), NEW k
  PROVE  /\ IsFiniteSet(Upto(R, k)) /\ Cardinality(Upto(R, k)) \in Nat
         /\ Cardinality(R) \in Nat /\ Cardinality(Upto(R, k)) <= Cardinality(R)
BY FS_Subset, FS_CardinalityType DEF Upto

(***************************************************************************)
(* A settled number stays settled: an attempt that leaves the table takes  *)
(* its number, and every number above, out of the claim.                   *)
(***************************************************************************)
LEMMA StaysSettled ==
  ASSUME NEW R, NEW X, NEW S, NEW Y, RefsOK(R, X), RefsOK(S, Y), Follows(R, X, S, Y),
         NEW j \in Int
  PROVE  /\ Settled(R, X, j) => Settled(S, Y, j)
         /\ Near(R, X, j) => Near(S, Y, j)
<1>1. ASSUME NEW k \in Int, Untouched(Y, k)
      PROVE  /\ Untouched(X, k) /\ Cardinality(Upto(R, k)) \in Nat
             /\ Cardinality(Upto(S, k)) \in Nat
             /\ Cardinality(Upto(R, k)) <= Cardinality(Upto(S, k))
  <2>1. \A x \in R : x[2] \in Int
    BY DEF RefsOK, At!Key
  <2>2. Upto(R, k) \subseteq Upto(S, k)
    BY <1>1, <2>1 DEF Upto, Untouched, Follows, RefsOK
  <2>3. IsFiniteSet(R) /\ IsFiniteSet(S)
    BY DEF RefsOK
  <2>4. IsFiniteSet(Upto(S, k))
    BY <2>3, UptoCounts
  <2>5. Cardinality(Upto(R, k)) <= Cardinality(Upto(S, k))
    BY <2>2, <2>4, FS_Subset
  <2>6. Untouched(X, k)
    BY <1>1 DEF Untouched, Follows
  <2> QED
    BY <2>3, <2>5, <2>6, UptoCounts
<1>2. ASSUME NEW i \in Int, Settled(R, X, i) PROVE Settled(S, Y, i)
  <2> SUFFICES ASSUME NEW k \in 1 .. i, Untouched(Y, k)
               PROVE  Cardinality(Upto(S, k)) >= k
    BY DEF Settled
  <2>1. Cardinality(Upto(R, k)) >= k
    BY <1>1, <1>2 DEF Settled
  <2> QED
    BY <1>1, <2>1
<1>3. ASSUME Near(R, X, j) PROVE Near(S, Y, j)
  <2>1. Settled(S, Y, j - 1)
    BY <1>2, <1>3 DEF Near
  <2>2. ASSUME Untouched(Y, j) PROVE Cardinality(Upto(S, j)) >= j - 1
    BY <1>1, <1>3, <2>2 DEF Near
  <2> QED
    BY <2>1, <2>2 DEF Near
<1> QED
  BY <1>2, <1>3

(***************************************************************************)
(* The count of the rows is a number all of whose predecessors are used.   *)
(***************************************************************************)
LEMMA CountIsNear ==
  ASSUME NEW R, NEW X, RefsOK(R, X), \A x \in R : Settled(R, X, x[2])
  PROVE  Near(R, X, Cardinality(R) + 1)
<1>1. Cardinality(R) \in Nat /\ \A x \in R : x[2] \in Nat
  BY FS_CardinalityType DEF RefsOK, At!Key
<1>2. ASSUME NEW k \in Nat \ {0}, Untouched(X, k)
      PROVE  Cardinality(Upto(R, k)) >= k \/ Upto(R, k) = R
  <2>1. CASE \E x \in R : x[2] >= k
    BY <1>1, <1>2, <2>1 DEF Settled
  <2>2. CASE \A x \in R : x[2] <= k
    BY <2>2 DEF Upto
  <2> QED
    BY <1>1, <2>1, <2>2
<1>3. ASSUME NEW k \in 1 .. Cardinality(R) + 1, Untouched(X, k)
      PROVE  \/ Cardinality(Upto(R, k)) >= k
             \/ Cardinality(Upto(R, k)) >= Cardinality(R)
  BY <1>1, <1>2, <1>3
<1>4. \A k : Cardinality(Upto(R, k)) \in Nat
  BY UptoCounts DEF RefsOK
<1>5. Settled(R, X, Cardinality(R))
  BY <1>1, <1>3, <1>4 DEF Settled
<1>6. Untouched(X, Cardinality(R) + 1) => Cardinality(Upto(R, Cardinality(R) + 1)) >= Cardinality(R)
  BY <1>1, <1>3, <1>4
<1> QED
  BY <1>1, <1>5, <1>6 DEF Near

(***************************************************************************)
(* ... and no attempt on record that was settled has that number.          *)
(***************************************************************************)
LEMMA CountIsFresh ==
  ASSUME NEW R, NEW X, RefsOK(R, X), NEW key, NEW dead, key[2] = Cardinality(R) + 1,
         \A x \in dead : Settled(R, X, x[2])
  PROVE  Fresh(X, key, dead)
<1>1. /\ Cardinality(R) \in Nat /\ Cardinality(Upto(R, key[2])) \in Nat
      /\ Cardinality(Upto(R, key[2])) <= Cardinality(R)
  BY UptoCounts DEF RefsOK
<1> SUFFICES ASSUME key \in dead, Untouched(X, key[2]) PROVE FALSE
  BY <1>1 DEF Fresh, Untouched, RefsOK
<1>2. Cardinality(Upto(R, key[2])) >= key[2]
  BY <1>1 DEF Settled
<1> QED
  BY <1>1, <1>2

(***************************************************************************)
(* The number is settled once its reference is in the table.               *)
(***************************************************************************)
LEMMA StoredIsSettled ==
  ASSUME NEW R, NEW X, RefsOK(R, X), NEW key \in At!Key, key \notin R, Near(R, X, key[2])
  PROVE  Settled(R \cup {key}, X, key[2])
<1> DEFINE S == R \cup {key}  n == key[2]
<1>1. RefsOK(S, X) /\ Follows(R, X, S, X)
  BY FS_AddElement DEF RefsOK, Follows
<1>2. n \in Nat \ {0} /\ n - 1 \in Int
  BY DEF At!Key
<1>3. Settled(R, X, n - 1)
  BY DEF Near
<1> HIDE DEF S
<1>4. Settled(S, X, n - 1)
  BY <1>1, <1>2, <1>3, StaysSettled
<1>5. ASSUME Untouched(X, n) PROVE Cardinality(Upto(S, n)) >= n
  <2>1. IsFiniteSet(Upto(R, n)) /\ Cardinality(Upto(R, n)) \in Nat
    BY UptoCounts DEF RefsOK
  <2>2. Upto(S, n) = Upto(R, n) \cup {key} /\ key \notin Upto(R, n)
    BY <1>2 DEF Upto, S
  <2>3. Cardinality(Upto(S, n)) = Cardinality(Upto(R, n)) + 1
    BY <2>1, <2>2, FS_AddElement
  <2>4. Cardinality(Upto(R, n)) >= n - 1
    BY <1>5 DEF Near
  <2> QED
    BY <1>2, <2>1, <2>3, <2>4
<1>6. ASSUME NEW k \in 1 .. n, Untouched(X, k) PROVE Cardinality(Upto(S, k)) >= k
  <2>1. CASE k = n
    BY <1>5, <1>6, <2>1
  <2>2. CASE k # n
    BY <1>2, <1>4, <1>6, <2>2 DEF Settled
  <2> QED
    BY <2>1, <2>2
<1>7. Settled(S, X, n)
  BY <1>6 DEF Settled
<1> QED
  BY <1>7 DEF S

(* Rows of the table, and what handlers hold of them. *)

ChargeOK(c) ==
  /\ c = [id |-> c.id, reference |-> c.reference, status |-> c.status, open |-> c.open]
  /\ c.id \in 1 .. MaxBorn /\ c.reference \in At!Key

CopyOK(c, R, X) == ChargeOK(c) /\ Settled(R, X, c.reference[2])

TableOK(C, X) ==
  /\ IsFiniteSet(C)
  /\ \A c \in C : CopyOK(c, Refs(C), X)
  /\ \A c, d \in C : c.id = d.id \/ c.reference = d.reference => c = d

Asker(h) ==
  h = [step |-> h.step, for |-> h.for, payment |-> h.payment, charge |-> h.charge,
       dead |-> h.dead]

Teller(h) == h = [step |-> h.step, for |-> h.for, charge |-> h.charge] /\ h.for = Null

DeadOK(dead, R, X) == \A x \in dead : x \in At!Key /\ Settled(R, X, x[2])

KeyOK(key, dead, R, X) == key \in At!Key /\ Near(R, X, key[2]) /\ Fresh(X, key, dead)

HandlerOK(h, R, X) ==
  \/ h.step \in {"idle", "unref"}
  \/ h.step = "delete" /\ CopyOK(h.charge, R, X)
  \/ Teller(h) /\ h.step \in {"sync", "save", "proof"} /\ CopyOK(h.charge, R, X)
  \/ /\ Asker(h) /\ h.for \in Methods /\ DeadOK(h.dead, R, X)
     /\ \/ h.step \in {"sync", "save"} /\ CopyOK(h.charge, R, X)
        \/ h.step = "count"
        \/ h.step = "call" /\ KeyOK(h.charge, h.dead, R, X)
        \/ h.step = "store" /\ KeyOK(h.charge.reference, h.dead, R, X)
        \/ /\ h.step = "ref" /\ CopyOK(h.charge, R, X)
           /\ Fresh(X, h.charge.reference, h.dead)

Holding == {"sync", "save", "proof", "delete", "ref"}

Tag(c) == <<c.id, c.reference>>
Tags(C, H) ==
  {Tag(c) : c \in C} \cup
  {Tag(H[r].charge) : r \in {q \in ChargeRequests : H[q].step \in Holding}}

(* One id, one reference, in the table and in every memory. *)
TagsOK(T) == \A t, u \in T : t[1] = u[1] => t = u

AttemptsState(C, H, X) ==
  /\ X \subseteq 1 .. MaxAttempts
  /\ TableOK(C, X)
  /\ H = [r \in ChargeRequests |-> H[r]]
  /\ \A r \in ChargeRequests : HandlerOK(H[r], Refs(C), X)
  /\ TagsOK(Tags(C, H))

AttemptsInv == AttemptsState(charges, handling, removed)

(***************************************************************************)
(* The references of a table are as many as its rows.                      *)
(***************************************************************************)
LEMMA OneRefARow ==
  ASSUME NEW C, NEW X, TableOK(C, X), X \subseteq 1 .. MaxAttempts
  PROVE  RefsOK(Refs(C), X) /\ Cardinality(Refs(C)) = Cardinality(C)
<1> DEFINE f == [c \in C |-> c.reference]
<1>1. f \in Bijection(C, Refs(C))
  <2>1. f \in [C -> Refs(C)]
    BY DEF Refs
  <2>2. \A c, d \in C : f[c] = f[d] => c = d
    BY DEF TableOK
  <2>3. \A x \in Refs(C) : \E c \in C : f[c] = x
    BY DEF Refs
  <2> QED
    BY <2>1, <2>2, <2>3 DEF Bijection, Injection, IsInjective, Surjection
<1>2. IsFiniteSet(Refs(C)) /\ Cardinality(Refs(C)) = Cardinality(C)
  BY <1>1, FS_Bijection DEF TableOK, ExistsBijection
<1>3. Refs(C) \subseteq At!Key
  BY DEF Refs, TableOK, CopyOK, ChargeOK
<1> QED
  BY <1>2, <1>3 DEF RefsOK

(***************************************************************************)
(* What holds of a handler goes on holding whatever the others do.         *)
(***************************************************************************)
LEMMA HandlerStays ==
  ASSUME NEW R, NEW X, NEW S, NEW Y, RefsOK(R, X), RefsOK(S, Y), Follows(R, X, S, Y),
         NEW h, HandlerOK(h, R, X)
  PROVE  HandlerOK(h, S, Y)
<1>1. \A x \in At!Key : x[2] \in Int
  BY DEF At!Key
<1>2. \A c : CopyOK(c, R, X) => CopyOK(c, S, Y)
  BY <1>1, StaysSettled DEF CopyOK, ChargeOK
<1>3. \A dead : DeadOK(dead, R, X) => DeadOK(dead, S, Y)
  BY <1>1, StaysSettled DEF DeadOK
<1>4. \A key, dead : Fresh(X, key, dead) => Fresh(Y, key, dead)
  BY DEF Fresh, Follows
<1>5. \A key, dead : KeyOK(key, dead, R, X) => KeyOK(key, dead, S, Y)
  BY <1>1, <1>4, StaysSettled DEF KeyOK
<1> QED
  BY <1>2, <1>3, <1>4, <1>5 DEF HandlerOK

(***************************************************************************)
(* Handlers move over a table that follows from the one before, and what   *)
(* they know by id they know by one reference.                             *)
(***************************************************************************)
LEMMA AttemptsMove ==
  ASSUME NEW C, NEW H, NEW X, AttemptsState(C, H, X),
         NEW D, NEW Y, Y \subseteq 1 .. MaxAttempts, TableOK(D, Y),
         Follows(Refs(C), X, Refs(D), Y),
         NEW T, TagsOK(T), Tags(C, H) \subseteq T, \A d \in D : Tag(d) \in T,
         NEW G, G = [q \in ChargeRequests |-> G[q]],
         \A q \in ChargeRequests :
           \/ G[q] = H[q]
           \/ HandlerOK(G[q], Refs(D), Y) /\ (G[q].step \in Holding => Tag(G[q].charge) \in T)
  PROVE  AttemptsState(D, G, Y)
<1>1. RefsOK(Refs(C), X) /\ RefsOK(Refs(D), Y)
  BY OneRefARow DEF AttemptsState
<1>2. \A q \in ChargeRequests : HandlerOK(G[q], Refs(D), Y)
  BY <1>1, HandlerStays DEF AttemptsState
<1>3. Tags(D, G) \subseteq T
  BY DEF Tags
<1>4. TagsOK(Tags(D, G))
  BY <1>3 DEF TagsOK
<1> QED
  BY <1>2, <1>4 DEF AttemptsState

(***************************************************************************)
(* One handler moves.                                                      *)
(***************************************************************************)
LEMMA AttemptGoes ==
  ASSUME NEW C, NEW H, NEW X, AttemptsState(C, H, X),
         NEW D, NEW Y, Y \subseteq 1 .. MaxAttempts, TableOK(D, Y),
         Follows(Refs(C), X, Refs(D), Y),
         NEW T, TagsOK(T), Tags(C, H) \subseteq T, \A d \in D : Tag(d) \in T,
         NEW r \in ChargeRequests, NEW h, HandlerOK(h, Refs(D), Y),
         h.step \in Holding => Tag(h.charge) \in T
  PROVE  AttemptsState(D, [H EXCEPT ![r] = h], Y)
<1> DEFINE G == [H EXCEPT ![r] = h]
<1>1. G = [q \in ChargeRequests |-> IF q = r THEN h ELSE H[q]]
  BY DEF AttemptsState
<1> HIDE DEF G
<1>2. G = [q \in ChargeRequests |-> G[q]]
  BY <1>1
<1>3. \A q \in ChargeRequests : G[q] = IF q = r THEN h ELSE H[q]
  BY <1>1
<1>4. AttemptsState(D, G, Y)
  BY <1>2, <1>3, AttemptsMove
<1> QED
  BY <1>4 DEF G

(***************************************************************************)
(* The window of a charge passes.                                          *)
(***************************************************************************)
LEMMA WindowApart ==
  ASSUME NEW c, ChargeOK(c), NEW b, NEW d, d = [c EXCEPT !.open = b]
  PROVE  ChargeOK(d) /\ Tag(d) = Tag(c) /\ d.id = c.id /\ d.reference = c.reference
BY DEF ChargeOK, Tag

(***************************************************************************)
(* A copy that is saved keeps the references of the table, or puts its own *)
(* back.                                                                   *)
(***************************************************************************)
LEMMA TableSaved ==
  ASSUME NEW C, NEW H, NEW X, AttemptsState(C, H, X),
         NEW c, CopyOK(c, Refs(C), X), Tag(c) \in Tags(C, H),
         (\E d \in C : d.id = c.id) \/ ~ \E d \in C : d.reference = c.reference,
         NEW D, D = {d \in C : d.id # c.id} \cup {c}
  PROVE  /\ TableOK(D, X) /\ Follows(Refs(C), X, Refs(D), X)
         /\ \A d \in D : Tag(d) \in Tags(C, H)
<1>1. \A d \in C : Tag(d) \in Tags(C, H)
  BY DEF Tags
<1>2. \A d \in C : d.id = c.id => d.reference = c.reference
  BY <1>1 DEF AttemptsState, TagsOK, Tag
<1>3. Follows(Refs(C), X, Refs(D), X)
  BY <1>2 DEF Follows, Refs
<1>4. RefsOK(Refs(C), X)
  BY OneRefARow DEF AttemptsState
<1>5. Refs(D) \subseteq Refs(C) \cup {c.reference} /\ c.reference \in At!Key
  BY DEF Refs, CopyOK, ChargeOK
<1>6. RefsOK(Refs(D), X)
  <2>1. PICK R, k : R = Refs(C) /\ k = c.reference
    OBVIOUS
  <2>2. IsFiniteSet(R)
    BY <1>4, <2>1 DEF RefsOK
  <2>3. IsFiniteSet(R \cup {k})
    BY <2>2, FS_AddElement
  <2>4. IsFiniteSet(Refs(D))
    BY <1>5, <2>1, <2>3, FS_Subset
  <2> QED
    BY <1>4, <1>5, <2>4 DEF RefsOK
<1>7. IsFiniteSet(D)
  BY FS_AddElement, FS_Subset DEF AttemptsState, TableOK
<1>8. ASSUME NEW d \in D PROVE CopyOK(d, Refs(D), X)
  <2>1. CopyOK(d, Refs(C), X)
    BY DEF AttemptsState, TableOK
  <2>2. d.reference[2] \in Int
    BY <2>1 DEF CopyOK, ChargeOK, At!Key
  <2> QED
    BY <1>3, <1>4, <1>6, <2>1, <2>2, StaysSettled DEF CopyOK
<1>9. ASSUME NEW d \in D, NEW e \in D, d.id = e.id \/ d.reference = e.reference PROVE d = e
  <2>1. ASSUME NEW x \in C, x.id # c.id PROVE x.reference # c.reference
    BY <1>2, <2>1 DEF AttemptsState, TableOK
  <2>2. \A x, y \in C : x.id = y.id \/ x.reference = y.reference => x = y
    BY DEF AttemptsState, TableOK
  <2> QED
    BY <1>9, <2>1, <2>2
<1> QED
  BY <1>1, <1>3, <1>7, <1>8, <1>9 DEF TableOK

(***************************************************************************)
(* The insert of a new attempt.                                            *)
(***************************************************************************)
LEMMA TableGrows ==
  ASSUME NEW C, NEW H, NEW X, AttemptsState(C, H, X),
         NEW c, ChargeOK(c), Near(Refs(C), X, c.reference[2]), c.reference \notin Refs(C),
         \A t \in Tags(C, H) : t[1] # c.id,
         NEW D, D = C \cup {c}
  PROVE  /\ TableOK(D, X) /\ Follows(Refs(C), X, Refs(D), X)
         /\ TagsOK(Tags(C, H) \cup {Tag(c)})
         /\ CopyOK(c, Refs(D), X)
<1>1. \A d \in C : Tag(d) \in Tags(C, H)
  BY DEF Tags
<1>2. Refs(D) = Refs(C) \cup {c.reference}
  BY DEF Refs
<1>3. RefsOK(Refs(C), X)
  BY OneRefARow DEF AttemptsState
<1>4. c.reference \in At!Key
  BY DEF ChargeOK
<1>5. CopyOK(c, Refs(D), X)
  <2>1. PICK key \in At!Key : key = c.reference
    BY <1>4
  <2>2. Settled(Refs(C) \cup {key}, X, key[2])
    BY <1>3, <2>1, StoredIsSettled
  <2> QED
    BY <1>2, <2>1, <2>2 DEF CopyOK
<1>6. RefsOK(Refs(D), X) /\ Follows(Refs(C), X, Refs(D), X)
  <2>1. IsFiniteSet(Refs(C) \cup {c.reference})
    BY <1>3, FS_AddElement DEF RefsOK
  <2> QED
    BY <1>2, <1>3, <1>4, <2>1 DEF RefsOK, Follows
<1>7. ASSUME NEW d \in D PROVE CopyOK(d, Refs(D), X)
  <2>1. CASE d = c
    BY <1>5, <2>1
  <2>2. CASE d \in C
    <3>1. CopyOK(d, Refs(C), X)
      BY <2>2 DEF AttemptsState, TableOK
    <3>2. d.reference[2] \in Int
      BY <3>1 DEF CopyOK, ChargeOK, At!Key
    <3> QED
      BY <1>3, <1>6, <3>1, <3>2, StaysSettled DEF CopyOK
  <2> QED
    BY <2>1, <2>2
<1>8. IsFiniteSet(D)
  BY FS_AddElement DEF AttemptsState, TableOK
<1>9. \A d \in C : d.id # c.id /\ d.reference # c.reference
  BY <1>1 DEF Tag, Refs
<1>10. TableOK(D, X)
  BY <1>7, <1>8, <1>9 DEF AttemptsState, TableOK
<1>11. TagsOK(Tags(C, H) \cup {Tag(c)})
  BY DEF AttemptsState, TagsOK, Tag
<1> QED
  BY <1>5, <1>6, <1>10, <1>11

(***************************************************************************)
(* A removal notes the number of the reference it takes.                   *)
(***************************************************************************)
LEMMA TableShrinks ==
  ASSUME NEW C, NEW H, NEW X, AttemptsState(C, H, X),
         NEW c, ChargeOK(c), Tag(c) \in Tags(C, H),
         NEW D, D = {d \in C : d.id # c.id}, NEW Y, Y = X \cup {c.reference[2]}
  PROVE  /\ TableOK(D, Y) /\ Follows(Refs(C), X, Refs(D), Y) /\ Y \subseteq 1 .. MaxAttempts
         /\ \A d \in D : Tag(d) \in Tags(C, H)
<1>1. \A d \in C : Tag(d) \in Tags(C, H)
  BY DEF Tags
<1>2. \A d \in C : d.id = c.id => d.reference = c.reference
  BY <1>1 DEF AttemptsState, TagsOK, Tag
<1>3. Follows(Refs(C), X, Refs(D), Y)
  BY <1>2 DEF Follows, Refs
<1>4. RefsOK(Refs(C), X)
  BY OneRefARow DEF AttemptsState
<1>5. Y \subseteq 1 .. MaxAttempts
  BY DEF AttemptsState, ChargeOK, At!Key
<1>6. RefsOK(Refs(D), Y)
  <2>1. Refs(D) \subseteq Refs(C)
    BY DEF Refs
  <2> QED
    BY <1>4, <1>5, <2>1, FS_Subset DEF RefsOK
<1>7. IsFiniteSet(D)
  BY FS_Subset DEF AttemptsState, TableOK
<1>8. ASSUME NEW d \in D PROVE CopyOK(d, Refs(D), Y)
  <2>1. CopyOK(d, Refs(C), X)
    BY DEF AttemptsState, TableOK
  <2>2. d.reference[2] \in Int
    BY <2>1 DEF CopyOK, ChargeOK, At!Key
  <2> QED
    BY <1>3, <1>4, <1>6, <2>1, <2>2, StaysSettled DEF CopyOK
<1> QED
  BY <1>1, <1>3, <1>5, <1>7, <1>8 DEF AttemptsState, TableOK

(***************************************************************************)
(* The next id is new to the table and to every memory.                    *)
(***************************************************************************)
LEMMA BornIsLast ==
  ASSUME AttemptsInv
  PROVE  At!Born \in Nat /\ \A t \in Tags(charges, handling) : t[1] \in Nat /\ t[1] <= At!Born
<1> DEFINE ids == {0} \cup {c.id : c \in charges} \cup
                  {handling[r].charge.id :
                     r \in {q \in ChargeRequests : handling[q].step \in
                             {"sync", "save", "proof", "delete", "ref"}}}
           mirrored == {MaxBorn - i : i \in ids}
<1>1. At!Born = At!Max(ids)
  BY DEF At!Born
<1>2. \A c \in charges : c.id \in 1 .. MaxBorn
  BY DEF AttemptsInv, AttemptsState, TableOK, CopyOK, ChargeOK
<1>3. ASSUME NEW r \in ChargeRequests, handling[r].step \in Holding
      PROVE  handling[r].charge.id \in 1 .. MaxBorn
  <2>1. HandlerOK(handling[r], Refs(charges), removed)
    BY DEF AttemptsInv, AttemptsState
  <2>2. ChargeOK(handling[r].charge)
    BY <1>3, <2>1 DEF HandlerOK, Holding, CopyOK
  <2> QED
    BY <2>2 DEF ChargeOK
<1>4. ids \subseteq 0 .. MaxBorn /\ 0 \in ids
  BY <1>2, <1>3, AttemptsAssumption DEF Holding
<1>5. \A t \in Tags(charges, handling) : t[1] \in ids
  BY DEF Tags, Tag, Holding
<1> HIDE DEF ids
<1>6. \A i \in ids : i \in Nat /\ MaxBorn - i \in Nat
  BY <1>4, AttemptsAssumption
<1>7. mirrored \subseteq Nat /\ mirrored # {}
  BY <1>4, <1>6
<1>8. PICK m \in mirrored : \A i \in mirrored : ~ (<<i, m>> \in OpToRel(<, Nat))
  BY <1>7, WFMin, NatLessThanWellFounded
<1>9. PICK x \in ids : m = MaxBorn - x
  OBVIOUS
<1>10. ASSUME NEW y \in ids PROVE x >= y
  <2>1. MaxBorn - y \in mirrored /\ ~ (MaxBorn - y < MaxBorn - x)
    BY <1>6, <1>8, <1>9 DEF OpToRel
  <2> QED
    BY <1>6, <2>1, AttemptsAssumption
<1>11. At!Max(ids) \in ids /\ \A y \in ids : At!Max(ids) >= y
  BY <1>9, <1>10 DEF At!Max
<1> QED
  BY <1>1, <1>5, <1>6, <1>11

(***************************************************************************)
(* No step of a handler, of the gateway or of time unsettles a number.     *)
(***************************************************************************)
LEMMA AttemptStepKeeps ==
  ASSUME AttemptsInv, At!Next
  PROVE  AttemptsInv'
<1> DEFINE R == Refs(charges)
           T == Tags(charges, handling)
<1>1. /\ AttemptsState(charges, handling, removed) /\ TableOK(charges, removed)
      /\ removed \subseteq 1 .. MaxAttempts /\ TagsOK(T)
  BY DEF AttemptsInv, AttemptsState
<1>2. RefsOK(R, removed) /\ Cardinality(R) = Cardinality(charges)
  BY <1>1, OneRefARow
<1>3. \A c \in charges : CopyOK(c, R, removed) /\ Tag(c) \in T
  BY <1>1 DEF TableOK, Tags
<1>4. \A r \in ChargeRequests :
        /\ HandlerOK(handling[r], R, removed)
        /\ handling[r].step \in Holding => Tag(handling[r].charge) \in T
  BY <1>1 DEF AttemptsState, Tags
<1>5. Follows(R, removed, R, removed)
  BY DEF Follows
<1> HIDE DEF T
<1>6. ASSUME NEW r \in ChargeRequests, NEW h, HandlerOK(h, R, removed),
             h.step \in Holding => Tag(h.charge) \in T,
             At!Go(r, h), charges' = charges, removed' = removed
      PROVE  AttemptsInv'
  <2>1. AttemptsState(charges, [handling EXCEPT ![r] = h], removed)
    BY <1>1, <1>3, <1>5, <1>6, AttemptGoes DEF T
  <2> QED
    BY <1>6, <2>1 DEF AttemptsInv, At!Go
<1>7. \A S, X : HandlerOK(At!Idle, S, X) /\ At!Idle.step \notin Holding
  BY DEF HandlerOK, At!Idle, Holding
<1>8. ASSUME NEW r \in ChargeRequests, At!Go(r, At!Idle), charges' = charges, removed' = removed
      PROVE  AttemptsInv'
  BY <1>6, <1>7, <1>8
<1>9. \A step, m, charge :
        LET h == At!Asking(step, m, charge)
        IN  /\ Asker(h) /\ h.step = step /\ h.for = m /\ h.charge = charge
            /\ DeadOK(h.dead, R, removed)
  <2>1. DeadOK(At!Dead, R, removed)
    BY <1>3 DEF DeadOK, At!Dead, CopyOK, ChargeOK
  <2> QED
    BY <2>1 DEF At!Asking, Asker
<1>10. \A step, charge :
        LET h == At!About(step, charge)
        IN  Teller(h) /\ h.step = step /\ h.charge = charge
  BY DEF At!About, Teller
<1>11. ASSUME NEW r \in ChargeRequests, NEW step \in {"sync", "save", "proof"}, NEW c,
              CopyOK(c, R, removed), Tag(c) \in T,
              At!Go(r, At!About(step, c)), charges' = charges, removed' = removed
       PROVE  AttemptsInv'
  <2>1. PICK h : h = At!About(step, c)
    OBVIOUS
  <2>2. Teller(h) /\ h.step = step /\ h.charge = c
    BY <1>10, <2>1
  <2>3. HandlerOK(h, R, removed)
    BY <1>11, <2>2 DEF HandlerOK
  <2> QED
    BY <1>6, <1>11, <2>1, <2>2, <2>3
<1>12. At!latestChargeFor \subseteq charges
  BY DEF At!latestChargeFor
<1>13. ASSUME NEW r \in ChargeRequests, NEW m \in Methods, At!createChargeForClient(r, m)
       PROVE  AttemptsInv'
  <2>1. PICK h : /\ At!Go(r, h)
                 /\ \/ h = At!Asking("count", m, Null)
                    \/ \E c \in charges : h = At!Asking("sync", m, c)
    BY <1>12, <1>13 DEF At!createChargeForClient
  <2>2. CASE h = At!Asking("count", m, Null)
    <3>1. HandlerOK(h, R, removed) /\ h.step \notin Holding
      BY <1>9, <2>2 DEF HandlerOK, Holding
    <3> QED
      BY <1>6, <1>13, <2>1, <3>1 DEF At!createChargeForClient
  <2>3. ASSUME NEW c \in charges, h = At!Asking("sync", m, c) PROVE AttemptsInv'
    <3>1. HandlerOK(h, R, removed) /\ Tag(h.charge) \in T
      BY <1>3, <1>9, <2>3 DEF HandlerOK
    <3> QED
      BY <1>6, <1>13, <2>1, <3>1 DEF At!createChargeForClient
  <2> QED
    BY <2>1, <2>2, <2>3
<1>14. ASSUME NEW r \in ChargeRequests, At!getChargeForClient(r) \/ At!submitProof(r)
       PROVE  AttemptsInv'
  BY <1>3, <1>11, <1>12, <1>14 DEF At!getChargeForClient, At!submitProof
<1>15. ASSUME NEW r \in ChargeRequests, NEW c \in charges, NEW status,
              At!handleWebhook(r, c, status)
       PROVE  AttemptsInv'
  <2>1. PICK d : d = [c EXCEPT !.status = status]
    OBVIOUS
  <2>2. CopyOK(d, R, removed) /\ Tag(d) \in T
    BY <1>3, <2>1 DEF CopyOK, ChargeOK, Tag
  <2> QED
    BY <1>11, <1>15, <2>1, <2>2 DEF At!handleWebhook
<1>16. ASSUME NEW r \in ChargeRequests, NEW c \in charges, At!removePaymentAttempt(r, c)
       PROVE  AttemptsInv'
  <2>1. PICK h : h = [step |-> "delete", payment |-> payment, charge |-> c]
    OBVIOUS
  <2>2. HandlerOK(h, R, removed) /\ Tag(h.charge) \in T
    BY <1>3, <2>1 DEF HandlerOK
  <2> QED
    BY <1>6, <1>16, <2>1, <2>2 DEF At!removePaymentAttempt
<1>17. CASE At!WindowPasses
  <2>1. PICK c \in charges : charges' = (charges \ {c}) \cup {[c EXCEPT !.open = FALSE]}
    BY <1>17 DEF At!WindowPasses
  <2>2. PICK d : d = [c EXCEPT !.open = FALSE]
    OBVIOUS
  <2>3. CopyOK(d, R, removed) /\ Tag(d) \in T /\ d.id = c.id
    BY <1>3, <2>2, WindowApart DEF CopyOK
  <2>4. \A e \in charges : e.id = c.id => e = c
    BY <1>1 DEF TableOK
  <2>5. charges' = {e \in charges : e.id # d.id} \cup {d}
    BY <2>1, <2>2, <2>3, <2>4
  <2>6. /\ TableOK(charges', removed) /\ Follows(R, removed, Refs(charges'), removed)
        /\ \A e \in charges' : Tag(e) \in T
    BY <1>1, <2>3, <2>5, TableSaved DEF T
  <2>7. handling' = handling /\ removed' = removed /\ handling = [q \in ChargeRequests |-> handling[q]]
    BY <1>1, <1>17 DEF At!WindowPasses, AttemptsState
  <2>8. AttemptsState(charges', handling, removed)
    BY <1>1, <2>6, <2>7, AttemptsMove DEF T
  <2> QED
    BY <2>7, <2>8 DEF AttemptsInv
<1>18. ASSUME NEW k, NEW status, At!GatewayMoves(k, status) PROVE AttemptsInv'
  BY <1>1, <1>18 DEF At!GatewayMoves, AttemptsInv
<1>19. ASSUME NEW h, HandlerOK(h, R, removed), h.step \in {"sync", "save"}, h.for # Null,
              NEW S, HandlerOK(h, S, removed),
              NEW g, g = [h EXCEPT !.step = "count", !.charge = Null]
       PROVE  HandlerOK(g, S, removed) /\ g.step \notin Holding
  <2>1. Asker(h) /\ h.for \in Methods /\ DeadOK(h.dead, S, removed)
    BY <1>19 DEF HandlerOK, Teller
  <2>2. Asker(g) /\ g.step = "count" /\ g.for = h.for /\ g.dead = h.dead
    <3>1. PICK y : y = [h EXCEPT !.step = "count"]
      OBVIOUS
    <3>2. g = [y EXCEPT !.charge = Null]
      BY <1>19, <2>1, <3>1
    <3>3. Asker(y) /\ y.step = "count" /\ y.for = h.for /\ y.dead = h.dead
      BY <2>1, <3>1 DEF Asker
    <3> QED
      BY <3>2, <3>3 DEF Asker
  <2> QED
    BY <2>1, <2>2 DEF HandlerOK, Holding
<1>20. ASSUME NEW r \in ChargeRequests, NEW c, handling[r].step \in {"sync", "save"},
              At!AfterSync(r, c), NEW S, HandlerOK(handling[r], S, removed)
       PROVE  \E g : At!Go(r, g) /\ HandlerOK(g, S, removed) /\ g.step \notin Holding
  <2>1. CASE handling[r].for = Null \/ At!isLive(c)
    BY <1>7, <1>20, <2>1 DEF At!AfterSync
  <2>2. CASE ~ (handling[r].for = Null \/ At!isLive(c))
    <3>1. PICK g : g = [handling[r] EXCEPT !.step = "count", !.charge = Null]
      OBVIOUS
    <3>2. HandlerOK(g, S, removed) /\ g.step \notin Holding
      BY <1>4, <1>19, <1>20, <2>2, <3>1
    <3> QED
      BY <1>20, <2>2, <3>1, <3>2 DEF At!AfterSync
  <2> QED
    BY <2>1, <2>2
<1>21. ASSUME NEW r \in ChargeRequests, At!syncCharge(r) PROVE AttemptsInv'
  <2>1. PICK h : h = handling[r]
    OBVIOUS
  <2>2. /\ h.step = "sync" /\ HandlerOK(h, R, removed) /\ Tag(h.charge) \in T
        /\ charges' = charges /\ removed' = removed
    BY <1>4, <1>21, <2>1 DEF At!syncCharge, Holding
  <2>3. CASE At!AfterSync(r, handling[r].charge)
    BY <1>6, <1>20, <2>1, <2>2, <2>3
  <2>4. ASSUME NEW s, At!Go(r, [handling[r] EXCEPT !.step = "save", !.charge.status = s])
        PROVE  AttemptsInv'
    <3>1. PICK c : c = [h.charge EXCEPT !.status = s]
      OBVIOUS
    <3>2. PICK g : g = [h EXCEPT !.step = "save", !.charge = c]
      OBVIOUS
    <3>3. Asker(h) \/ Teller(h)
      BY <2>2 DEF HandlerOK
    <3>4. g = [h EXCEPT !.step = "save", !.charge.status = s]
      BY <3>1, <3>2, <3>3 DEF Asker, Teller
    <3>5. CopyOK(h.charge, R, removed)
      BY <2>2 DEF HandlerOK
    <3>6. CopyOK(c, R, removed) /\ Tag(c) \in T
      BY <2>2, <3>1, <3>5 DEF CopyOK, ChargeOK, Tag
    <3>7. HandlerOK(g, R, removed) /\ g.charge = c
      <4>1. CASE Teller(h)
        <5>1. Teller(g) /\ g.step = "save" /\ g.charge = c
          <6>1. PICK y : y = [h EXCEPT !.step = "save"]
            OBVIOUS
          <6>2. g = [y EXCEPT !.charge = c]
            BY <3>2, <4>1, <6>1
          <6>3. Teller(y) /\ y.step = "save"
            BY <4>1, <6>1 DEF Teller
          <6> QED
            BY <6>2, <6>3 DEF Teller
        <5> QED
          BY <3>6, <5>1 DEF HandlerOK
      <4>2. CASE Asker(h) /\ h.for \in Methods /\ DeadOK(h.dead, R, removed)
        <5>1. Asker(g) /\ g.step = "save" /\ g.charge = c /\ g.for = h.for /\ g.dead = h.dead
          <6>1. PICK y : y = [h EXCEPT !.step = "save"]
            OBVIOUS
          <6>2. g = [y EXCEPT !.charge = c]
            BY <3>2, <4>2, <6>1
          <6>3. Asker(y) /\ y.step = "save" /\ y.for = h.for /\ y.dead = h.dead
            BY <4>2, <6>1 DEF Asker
          <6> QED
            BY <6>2, <6>3 DEF Asker
        <5> QED
          BY <3>6, <4>2, <5>1 DEF HandlerOK
      <4> QED
        BY <2>2, <4>1, <4>2 DEF HandlerOK
    <3> QED
      BY <1>6, <2>1, <2>2, <2>4, <3>4, <3>6, <3>7
  <2> QED
    BY <1>8, <1>21, <2>2, <2>3, <2>4 DEF At!syncCharge
<1>22. ASSUME NEW r \in ChargeRequests, NEW c, c = handling[r].charge,
              handling[r].step \in {"save", "proof"}, At!Saveable(c), charges' = At!Saved(c),
              removed' = removed,
              NEW g, At!Go(r, g), g.step \notin Holding, HandlerOK(g, Refs(charges'), removed)
       PROVE  AttemptsInv'
  <2>1. CopyOK(c, R, removed) /\ Tag(c) \in T
    BY <1>4, <1>22 DEF HandlerOK, Holding
  <2>2. /\ TableOK(charges', removed) /\ Follows(R, removed, Refs(charges'), removed)
        /\ \A d \in charges' : Tag(d) \in T
    BY <1>1, <1>22, <2>1, TableSaved DEF T, At!Saveable, At!Saved
  <2>3. AttemptsState(charges', [handling EXCEPT ![r] = g], removed)
    BY <1>1, <1>22, <2>2, AttemptGoes DEF T
  <2> QED
    BY <1>22, <2>3 DEF AttemptsInv, At!Go
<1>23. ASSUME NEW r \in ChargeRequests, At!SaveCharge(r) PROVE AttemptsInv'
  <2>1. PICK c : c = handling[r].charge
    OBVIOUS
  <2>2. CASE ~ At!Saveable(c)
    BY <1>8, <1>23, <2>1, <2>2 DEF At!SaveCharge
  <2>3. CASE At!Saveable(c)
    <3>1. /\ charges' = At!Saved(c) /\ At!AfterSync(r, c) /\ removed' = removed
          /\ handling[r].step = "save"
      BY <1>23, <2>1, <2>3 DEF At!SaveCharge
    <3>2. CopyOK(c, R, removed) /\ Tag(c) \in T
      BY <1>4, <2>1, <3>1 DEF HandlerOK, Holding
    <3>3. /\ TableOK(charges', removed) /\ Follows(R, removed, Refs(charges'), removed)
      BY <1>1, <2>3, <3>1, <3>2, TableSaved DEF T, At!Saveable, At!Saved
    <3>4. RefsOK(Refs(charges'), removed)
      BY <1>1, <3>3, OneRefARow
    <3>5. HandlerOK(handling[r], Refs(charges'), removed)
      BY <1>2, <1>4, <3>3, <3>4, HandlerStays
    <3>6. PICK g : At!Go(r, g) /\ HandlerOK(g, Refs(charges'), removed) /\ g.step \notin Holding
      BY <1>20, <3>1, <3>5
    <3> QED
      BY <1>22, <2>1, <2>3, <3>1, <3>6
  <2> QED
    BY <2>2, <2>3
<1>24. ASSUME NEW r \in ChargeRequests, At!SaveProof(r) PROVE AttemptsInv'
  BY <1>7, <1>8, <1>22, <1>24 DEF At!SaveProof
<1>25. ASSUME NEW r \in ChargeRequests, At!Count(r) PROVE AttemptsInv'
  <2>1. PICK h : h = handling[r]
    OBVIOUS
  <2>2. PICK key : key = <<h.for, At!attempt(charges)>>
    OBVIOUS
  <2>3. PICK g : g = [h EXCEPT !.step = "call", !.charge = key]
    OBVIOUS
  <2>4. /\ h.step = "count" /\ At!Go(r, g) /\ At!attempt(charges) <= MaxAttempts
        /\ charges' = charges /\ removed' = removed
    BY <1>25, <2>1, <2>2, <2>3 DEF At!Count
  <2>5. Asker(h) /\ h.for \in Methods /\ DeadOK(h.dead, R, removed)
    BY <1>4, <2>1, <2>4 DEF HandlerOK
  <2>6. key[2] = Cardinality(R) + 1 /\ key \in At!Key
    <3>1. Cardinality(R) \in Nat
      BY <1>2, FS_CardinalityType DEF RefsOK
    <3>2. At!attempt(charges) = Cardinality(R) + 1
      BY <1>2, SameCountOfAttempts DEF At!attempt
    <3> QED
      BY <2>2, <2>4, <2>5, <3>1, <3>2, AttemptsAssumption DEF At!Key
  <2>7. \A x \in R : Settled(R, removed, x[2])
    BY <1>3 DEF CopyOK, Refs
  <2>8. KeyOK(key, h.dead, R, removed)
    <3>1. Near(R, removed, key[2])
      BY <1>2, <2>6, <2>7, CountIsNear
    <3>2. Fresh(removed, key, h.dead)
      BY <1>2, <2>5, <2>6, CountIsFresh DEF DeadOK
    <3> QED
      BY <2>6, <3>1, <3>2 DEF KeyOK
  <2>9. /\ Asker(g) /\ g.step = "call" /\ g.charge = key /\ g.for = h.for /\ g.dead = h.dead
    <3>1. PICK y : y = [h EXCEPT !.step = "call"]
      OBVIOUS
    <3>2. g = [y EXCEPT !.charge = key]
      BY <2>3, <2>5, <3>1
    <3>3. Asker(y) /\ y.step = "call" /\ y.for = h.for /\ y.dead = h.dead
      BY <2>5, <3>1 DEF Asker
    <3> QED
      BY <3>2, <3>3 DEF Asker
  <2>10. HandlerOK(g, R, removed) /\ g.step \notin Holding
    BY <2>5, <2>8, <2>9 DEF HandlerOK, Holding
  <2> QED
    BY <1>6, <2>4, <2>10
<1>26. ASSUME NEW r \in ChargeRequests, At!callGateway(r) PROVE AttemptsInv'
  <2>1. PICK h : h = handling[r]
    OBVIOUS
  <2>2. /\ h.step = "call" /\ charges' = charges /\ removed' = removed
        /\ \/ At!Go(r, At!Idle)
           \/ \E s : At!Go(r, [h EXCEPT !.step = "store",
                                        !.charge = [reference |-> h.charge, status |-> s]])
    BY <1>26, <2>1 DEF At!callGateway
  <2>3. ASSUME NEW s, NEW g, g = [h EXCEPT !.step = "store",
                                           !.charge = [reference |-> h.charge, status |-> s]]
        PROVE  HandlerOK(g, R, removed) /\ g.step \notin Holding
    <3>1. /\ Asker(h) /\ h.for \in Methods /\ DeadOK(h.dead, R, removed)
          /\ KeyOK(h.charge, h.dead, R, removed)
      BY <1>4, <2>1, <2>2 DEF HandlerOK
    <3>2. PICK x : x = [reference |-> h.charge, status |-> s]
      OBVIOUS
    <3>3. Asker(g) /\ g.step = "store" /\ g.charge = x /\ g.for = h.for /\ g.dead = h.dead
      <4>1. PICK y : y = [h EXCEPT !.step = "store"]
        OBVIOUS
      <4>2. g = [y EXCEPT !.charge = x]
        BY <2>3, <3>1, <3>2, <4>1
      <4>3. Asker(y) /\ y.step = "store" /\ y.for = h.for /\ y.dead = h.dead
        BY <3>1, <4>1 DEF Asker
      <4> QED
        BY <4>2, <4>3 DEF Asker
    <3>4. x.reference = h.charge
      BY <3>2
    <3> QED
      BY <3>1, <3>3, <3>4 DEF HandlerOK, Holding
  <2> QED
    BY <1>6, <1>8, <2>2, <2>3
<1>27. ASSUME NEW r \in ChargeRequests, At!SaveReference(r) \/ At!ClearReference(r)
       PROVE  AttemptsInv'
  BY <1>8, <1>27 DEF At!SaveReference, At!ClearReference
<1>28. ASSUME NEW r \in ChargeRequests, At!Delete(r) PROVE AttemptsInv'
  <2>1. PICK c : c = handling[r].charge
    OBVIOUS
  <2>2. ChargeOK(c) /\ Tag(c) \in T
    BY <1>4, <1>28, <2>1 DEF At!Delete, HandlerOK, Holding, CopyOK
  <2>3. /\ charges' = {d \in charges : d.id # c.id}
        /\ removed' = removed \cup {c.reference[2]}
    BY <1>28, <2>1 DEF At!Delete
  <2>4. /\ TableOK(charges', removed') /\ Follows(R, removed, Refs(charges'), removed')
        /\ removed' \subseteq 1 .. MaxAttempts /\ \A d \in charges' : Tag(d) \in T
    BY <1>1, <2>2, <2>3, TableShrinks DEF T
  <2>5. PICK h : At!Go(r, h) /\ h.step \in {"idle", "unref"}
    BY <1>28 DEF At!Delete, At!Idle
  <2>6. HandlerOK(h, Refs(charges'), removed') /\ h.step \notin Holding
    BY <2>5 DEF HandlerOK, Holding
  <2>7. AttemptsState(charges', [handling EXCEPT ![r] = h], removed')
    BY <1>1, <2>4, <2>6, AttemptGoes DEF T
  <2> QED
    BY <2>5, <2>7 DEF AttemptsInv, At!Go
<1>29. ASSUME NEW r \in ChargeRequests, At!storeCharge(r) PROVE AttemptsInv'
  <2>1. PICK h, key : h = handling[r] /\ key = h.charge.reference
    OBVIOUS
  <2>2. /\ h.step = "store" /\ Asker(h) /\ h.for \in Methods /\ DeadOK(h.dead, R, removed)
        /\ KeyOK(key, h.dead, R, removed) /\ removed' = removed
    BY <1>4, <1>29, <2>1 DEF At!storeCharge, HandlerOK
  <2>3. ASSUME NEW d \in charges, d.reference = key, charges' = charges,
               NEW g, g = [h EXCEPT !.step = "ref", !.charge = d], At!Go(r, g)
        PROVE  AttemptsInv'
    <3>1. Asker(g) /\ g.step = "ref" /\ g.charge = d /\ g.for = h.for /\ g.dead = h.dead
      <4>1. PICK y : y = [h EXCEPT !.step = "ref"]
        OBVIOUS
      <4>2. g = [y EXCEPT !.charge = d]
        BY <2>2, <2>3, <4>1
      <4>3. Asker(y) /\ y.step = "ref" /\ y.for = h.for /\ y.dead = h.dead
        BY <2>2, <4>1 DEF Asker
      <4> QED
        BY <4>2, <4>3 DEF Asker
    <3>2. HandlerOK(g, R, removed) /\ Tag(g.charge) \in T
      BY <1>3, <2>2, <2>3, <3>1 DEF HandlerOK, KeyOK
    <3> QED
      BY <1>6, <2>2, <2>3, <3>2
  <2>4. ASSUME NEW new, ChargeOK(new), new.reference = key, new.id = At!Born + 1,
               key \notin R, charges' = charges \cup {new},
               NEW g, g = [h EXCEPT !.step = "ref", !.charge = new], At!Go(r, g)
        PROVE  AttemptsInv'
    <3>1. \A t \in T : t[1] # new.id
      BY <2>4, BornIsLast DEF T
    <3>2. /\ TableOK(charges', removed) /\ Follows(R, removed, Refs(charges'), removed)
          /\ TagsOK(T \cup {Tag(new)}) /\ CopyOK(new, Refs(charges'), removed)
      BY <1>1, <2>2, <2>4, <3>1, TableGrows DEF T, KeyOK
    <3>3. Asker(g) /\ g.step = "ref" /\ g.charge = new /\ g.for = h.for /\ g.dead = h.dead
      <4>1. PICK y : y = [h EXCEPT !.step = "ref"]
        OBVIOUS
      <4>2. g = [y EXCEPT !.charge = new]
        BY <2>2, <2>4, <4>1
      <4>3. Asker(y) /\ y.step = "ref" /\ y.for = h.for /\ y.dead = h.dead
        BY <2>2, <4>1 DEF Asker
      <4> QED
        BY <4>2, <4>3 DEF Asker
    <3>4. RefsOK(Refs(charges'), removed)
      BY <1>1, <3>2, OneRefARow
    <3>5. HandlerOK(h, Refs(charges'), removed)
      BY <1>2, <1>4, <2>1, <3>2, <3>4, HandlerStays
    <3>6. DeadOK(h.dead, Refs(charges'), removed)
      BY <2>2, <3>5 DEF HandlerOK
    <3>7. HandlerOK(g, Refs(charges'), removed)
      BY <2>2, <2>4, <3>2, <3>3, <3>6 DEF HandlerOK, KeyOK
    <3>8. \A d \in charges' : Tag(d) \in T \cup {Tag(new)}
      BY <1>3, <2>4
    <3>9. AttemptsState(charges', [handling EXCEPT ![r] = g], removed)
      BY <1>1, <3>2, <3>3, <3>7, <3>8, AttemptGoes DEF T
    <3> QED
      BY <2>2, <2>4, <3>9 DEF AttemptsInv, At!Go
  <2>5. PICK new : new = [id |-> At!Born + 1, reference |-> key, status |-> h.charge.status,
                          open |-> TRUE]
    OBVIOUS
  <2>6. At!Born < MaxBorn => ChargeOK(new)
    BY <2>2, <2>5, BornIsLast, AttemptsAssumption DEF ChargeOK, KeyOK
  <2>7. \/ \E d \in charges : /\ d.reference = key /\ charges' = charges
                              /\ At!Go(r, [h EXCEPT !.step = "ref", !.charge = d])
        \/ /\ key \notin R /\ At!Born < MaxBorn /\ charges' = charges \cup {new}
           /\ At!Go(r, [h EXCEPT !.step = "ref", !.charge = new])
    BY <1>29, <2>1, <2>5 DEF At!storeCharge, Refs
  <2> QED
    BY <2>3, <2>4, <2>5, <2>6, <2>7
<1> QED
  BY <1>13, <1>14, <1>15, <1>16, <1>17, <1>18, <1>21, <1>23, <1>24, <1>25, <1>26, <1>27, <1>28,
     <1>29 DEF At!Next, At!Arrive, At!Proceed

(***************************************************************************)
(* An order just placed, with its first attempt about to be made.          *)
(***************************************************************************)
LEMMA AttemptsInit ==
  ASSUME At!Init
  PROVE  AttemptsInv
<1>1. Refs({}) = {} /\ At!Dead = {} /\ charges = {} /\ removed = {}
  BY DEF Refs, At!Dead, At!Init
<1>2. TableOK({}, {})
  BY FS_EmptySet DEF TableOK
<1>3. PICK s \in ChargeRequests, m \in Methods :
        handling = [q \in ChargeRequests |-> IF q = s THEN At!Asking("count", m, Null) ELSE At!Idle]
  BY DEF At!Init
<1>4. PICK h : h = At!Asking("count", m, Null)
  OBVIOUS
<1>5. Asker(h) /\ h.step = "count" /\ h.for = m /\ h.dead = {}
  BY <1>1, <1>4 DEF At!Asking, Asker
<1>6. HandlerOK(h, {}, {}) /\ h.step \notin Holding
  BY <1>5 DEF HandlerOK, DeadOK, Holding
<1>7. HandlerOK(At!Idle, {}, {}) /\ At!Idle.step \notin Holding
  BY DEF HandlerOK, At!Idle, Holding
<1>8. \A q \in ChargeRequests : HandlerOK(handling[q], {}, {}) /\ handling[q].step \notin Holding
  BY <1>3, <1>4, <1>6, <1>7
<1>9. Tags({}, handling) = {}
  BY <1>8 DEF Tags
<1>10. handling = [q \in ChargeRequests |-> handling[q]]
  BY <1>3
<1> QED
  BY <1>1, <1>2, <1>8, <1>9, <1>10 DEF AttemptsInv, AttemptsState, TagsOK

(***************************************************************************)
(* A client who asks for an attempt is never handed one that was over when *)
(* the question came, unless an attempt with its number or a lower one has *)
(* been removed: for any number of requests, webhooks and lost answers.    *)
(***************************************************************************)
THEOREM RetriesAreFresh == Spec => []RetryIsFresh
<1>1. Init => AttemptsInv
  BY AttemptsInit DEF Init
<1>2. AttemptsInv /\ [Next]_vars => AttemptsInv'
  <2> SUFFICES ASSUME AttemptsInv, [Next]_vars PROVE AttemptsInv'
    OBVIOUS
  <2>1. CASE AttemptStep
    BY <2>1, AttemptStepKeeps DEF AttemptStep
  <2>2. CASE UNCHANGED attemptVars
    BY <2>2 DEF attemptVars, AttemptsInv
  <2> QED
    BY <2>1, <2>2 DEF Next, vars, CartStep, PromiseStep, DeliveryStep, CatalogueStep,
                      ContentStep, MailStep
<1>3. AttemptsInv => RetryIsFresh
  BY DEF AttemptsInv, AttemptsState, HandlerOK, Fresh, RetryIsFresh, At!RetryIsFresh
<1> QED
  BY <1>1, <1>2, <1>3, PTL DEF Spec

-----------------------------------------------------------------------------
(* Catalogue *)

(* A product on the shelves hangs off a live category, and never off a      *)
(* department.                                                              *)
Housed(product) ==
  product.state = "live" =>
    product.categoryId \in Cats /\ Cg!getChildCategoryOrThrow(product.categoryId)

CatalogueInv ==
  /\ categories \in [Cats -> Cg!Category]
  /\ products \in [Products -> Cg!Product]
  /\ banners \in [Banners -> Cg!CmsBanner]
  /\ home = [draft |-> home.draft, published |-> home.published]
  /\ \A b \in home.published.banners : b[2] \in Cg!CmsBannerTarget
  /\ \A p \in Products : Housed(products[p])

(***************************************************************************)
(* A category that keeps a parent keeps its products housed.               *)
(***************************************************************************)
LEMMA CategoryMoves ==
  ASSUME CatalogueInv, NEW c \in Cats, NEW x \in Cg!Category, x.state = "live",
         categories[c].parentId # Null => x.parentId # Null,
         categories' = [categories EXCEPT ![c] = x],
         UNCHANGED <<products, banners, home>>
  PROVE  CatalogueInv'
<1>1. categories' \in [Cats -> Cg!Category]
  BY DEF CatalogueInv
<1>2. \A k \in Cats : Cg!getChildCategoryOrThrow(k) => Cg!getChildCategoryOrThrow(k)'
  BY DEF CatalogueInv, Cg!getChildCategoryOrThrow, Cg!Live
<1>3. \A p \in Products : Housed(products[p])'
  BY <1>2 DEF CatalogueInv, Housed
<1> QED
  BY <1>1, <1>3 DEF CatalogueInv

(***************************************************************************)
(* A category that goes had no product.                                    *)
(***************************************************************************)
LEMMA CategoryGoes ==
  ASSUME CatalogueInv, NEW c \in Cats,
         \A p \in Products : products[p].state = "live" => products[p].categoryId # c,
         categories' = [categories EXCEPT ![c].state = "deleted"],
         UNCHANGED <<products, banners, home>>
  PROVE  CatalogueInv'
<1>1. categories' \in [Cats -> Cg!Category]
  <2>1. PICK x : x = [categories[c] EXCEPT !.state = "deleted"]
    OBVIOUS
  <2>2. x \in Cg!Category
    BY <2>1 DEF CatalogueInv, Cg!Category, Cg!RowState
  <2>3. categories' = [categories EXCEPT ![c] = x]
    BY <2>1
  <2> QED
    BY <2>2, <2>3 DEF CatalogueInv
<1>2. \A k \in Cats \ {c} : Cg!getChildCategoryOrThrow(k) => Cg!getChildCategoryOrThrow(k)'
  BY DEF CatalogueInv, Cg!getChildCategoryOrThrow, Cg!Live
<1>3. \A p \in Products : Housed(products[p])'
  BY <1>2 DEF CatalogueInv, Housed
<1> QED
  BY <1>1, <1>3 DEF CatalogueInv

(***************************************************************************)
(* A product changes.                                                      *)
(***************************************************************************)
LEMMA ProductMoves ==
  ASSUME CatalogueInv, NEW p \in Products, NEW x \in Cg!Product, Housed(x),
         products' = [products EXCEPT ![p] = x], UNCHANGED <<categories, banners, home>>
  PROVE  CatalogueInv'
<1>1. products' \in [Products -> Cg!Product]
  BY DEF CatalogueInv
<1>2. \A q \in Products : products'[q] = IF q = p THEN x ELSE products[q]
  BY DEF CatalogueInv
<1>3. \A q \in Products : Housed(products'[q])
  BY <1>2 DEF CatalogueInv
<1>4. \A q \in Products : Housed(products[q])'
  BY <1>3 DEF Housed, Cg!getChildCategoryOrThrow, Cg!Live
<1> QED
  BY <1>1, <1>4 DEF CatalogueInv

(***************************************************************************)
(* The cardinality of the instance is the cardinality.                     *)
(***************************************************************************)
LEMMA SameCountOfGoods == \A S : Cg!Cardinality(S) = Cardinality(S)
BY DEF Cg!Cardinality, Cardinality

(***************************************************************************)
(* Departments and categories.                                             *)
(***************************************************************************)
LEMMA TaxonomyKeeps ==
  ASSUME CatalogueInv, Cg!Taxonomy
  PROVE  CatalogueInv'
<1>1. \A c \in Cats : categories[c] \in Cg!Category /\ c # Null
  BY CatalogueAssumption DEF CatalogueInv
<1>2. ASSUME NEW c \in Cats, NEW active \in BOOLEAN, Cg!createDepartment(c, active)
      PROVE  CatalogueInv'
  <2>1. PICK x : x = [state |-> "live", parentId |-> Null, isActive |-> active]
    OBVIOUS
  <2>2. x \in Cg!Category /\ x.state = "live"
    BY <2>1 DEF Cg!Category, Cg!RowState
  <2>3. \A p \in Products : products[p].state = "live" => products[p].categoryId # c
    BY <1>2 DEF CatalogueInv, Housed, Cg!getChildCategoryOrThrow, Cg!Live, Cg!createDepartment
  <2>4. categories' = [categories EXCEPT ![c] = x] /\ UNCHANGED <<products, banners, home>>
    BY <1>2, <2>1 DEF Cg!createDepartment
  <2>5. categories' \in [Cats -> Cg!Category]
    BY <2>2, <2>4 DEF CatalogueInv
  <2>6. \A k \in Cats \ {c} : Cg!getChildCategoryOrThrow(k) => Cg!getChildCategoryOrThrow(k)'
    BY <2>4 DEF CatalogueInv, Cg!getChildCategoryOrThrow, Cg!Live
  <2>7. \A p \in Products : Housed(products[p])'
    BY <2>3, <2>4, <2>6 DEF CatalogueInv, Housed
  <2> QED
    BY <2>4, <2>5, <2>7 DEF CatalogueInv
<1>3. ASSUME NEW c \in Cats, NEW active \in BOOLEAN, Cg!updateDepartment(c, active)
      PROVE  CatalogueInv'
  <2>1. PICK x : x = [categories[c] EXCEPT !.isActive = active]
    OBVIOUS
  <2>2. /\ x \in Cg!Category /\ x.state = categories[c].state
        /\ x.parentId = categories[c].parentId
    BY <1>1, <2>1 DEF Cg!Category
  <2>3. categories' = [categories EXCEPT ![c] = x] /\ UNCHANGED <<products, banners, home>>
    BY <1>3, <2>1 DEF Cg!updateDepartment
  <2> QED
    BY <1>3, <2>2, <2>3, CategoryMoves DEF Cg!updateDepartment, Cg!getDepartment, Cg!Live
<1>4. ASSUME NEW c \in Cats, Cg!removeDepartment(c)
      PROVE  CatalogueInv'
  <2>1. \A p \in Products : products[p].state = "live" => products[p].categoryId # c
    BY <1>4 DEF CatalogueInv, Housed, Cg!getChildCategoryOrThrow, Cg!removeDepartment,
                Cg!getDepartment
  <2> QED
    BY <1>4, <2>1, CategoryGoes DEF Cg!removeDepartment
<1>5. ASSUME NEW c \in Cats, Cg!removeCategory(c)
      PROVE  CatalogueInv'
  <2> DEFINE S == {p \in Products : products[p].state = "live" /\ products[p].categoryId = c}
  <2>1. IsFiniteSet(S)
    BY FS_Subset, CatalogueAssumption
  <2>2. Cardinality(S) = 0
    BY <1>5, SameCountOfGoods DEF Cg!removeCategory, Cg!countProducts
  <2>3. S = {}
    BY <2>1, <2>2, FS_EmptySet
  <2> QED
    BY <1>5, <2>3, CategoryGoes DEF Cg!removeCategory
<1>6. ASSUME NEW c \in Cats, NEW dto \in Cg!CreateCategoryDto, Cg!createCategory(c, dto)
      PROVE  CatalogueInv'
  <2>1. PICK x : x = [state |-> "live", parentId |-> dto.departmentId, isActive |-> dto.isActive]
    OBVIOUS
  <2>2. x \in Cg!Category /\ x.state = "live" /\ x.parentId # Null
    BY <1>1, <2>1 DEF Cg!Category, Cg!RowState, Cg!CreateCategoryDto
  <2>3. categories' = [categories EXCEPT ![c] = x] /\ UNCHANGED <<products, banners, home>>
    BY <1>6, <2>1 DEF Cg!createCategory
  <2> QED
    BY <2>2, <2>3, CategoryMoves
<1>7. ASSUME NEW c \in Cats, NEW dto \in Cg!UpdateCategoryDto, Cg!updateCategory(c, dto)
      PROVE  CatalogueInv'
  <2>1. PICK parent : parent = IF dto.departmentId = Null THEN categories[c].parentId
                               ELSE dto.departmentId
    OBVIOUS
  <2>2. PICK y : y = [categories[c] EXCEPT !.parentId = parent]
    OBVIOUS
  <2>3. PICK x : x = [y EXCEPT !.isActive = dto.isActive]
    OBVIOUS
  <2>4. y \in Cg!Category /\ y.state = categories[c].state /\ y.parentId = parent
    BY <1>1, <2>1, <2>2 DEF Cg!Category, Cg!UpdateCategoryDto
  <2>5. x \in Cg!Category /\ x.state = categories[c].state /\ x.parentId = parent
    BY <2>3, <2>4 DEF Cg!Category, Cg!UpdateCategoryDto
  <2>6. categories' = [categories EXCEPT ![c] = x]
    <3>1. categories' = [categories EXCEPT ![c].parentId = parent, ![c].isActive = dto.isActive]
      BY <1>7, <2>1 DEF Cg!updateCategory
    <3>2. categories' = [[categories EXCEPT ![c].parentId = parent]
                           EXCEPT ![c].isActive = dto.isActive]
      BY <3>1
    <3>3. [categories EXCEPT ![c].parentId = parent] = [categories EXCEPT ![c] = y]
      BY <2>2
    <3>4. categories' = [[categories EXCEPT ![c] = y] EXCEPT ![c].isActive = dto.isActive]
      BY <3>2, <3>3
    <3>5. categories \in [Cats -> Cg!Category]
      BY DEF CatalogueInv
    <3> QED
      BY <2>3, <3>4, <3>5
  <2>7. UNCHANGED <<products, banners, home>> /\ categories[c].state = "live"
    BY <1>7 DEF Cg!updateCategory, Cg!getCategory, Cg!Live
  <2> QED
    BY <1>1, <2>1, <2>5, <2>6, <2>7, CategoryMoves
<1> QED
  BY <1>2, <1>3, <1>4, <1>5, <1>6, <1>7 DEF Cg!Taxonomy

(***************************************************************************)
(* Products and their stock.                                               *)
(***************************************************************************)
LEMMA GoodsKeep ==
  ASSUME CatalogueInv, Cg!Goods
  PROVE  CatalogueInv'
<1>1. \A p \in Products : products[p] \in Cg!Product /\ Housed(products[p])
  BY DEF CatalogueInv
<1>2. ASSUME NEW p \in Products, NEW dto \in Cg!CreateProductDto, Cg!Create(p, dto)
      PROVE  CatalogueInv'
  <2>1. PICK x : x = [state |-> "live", categoryId |-> dto.categoryId, isActive |-> dto.isActive]
    OBVIOUS
  <2>2. x \in Cg!Product /\ Housed(x)
    BY <1>2, <2>1 DEF Cg!Product, Cg!RowState, Cg!CreateProductDto, Cg!Create, Housed
  <2> QED
    BY <1>2, <2>1, <2>2, ProductMoves DEF Cg!Create
<1>3. ASSUME NEW p \in Products, NEW dto \in Cg!UpdateProductDto, Cg!Update(p, dto)
      PROVE  CatalogueInv'
  <2>1. PICK category : category = IF dto.categoryId = Null THEN products[p].categoryId
                                   ELSE dto.categoryId
    OBVIOUS
  <2>2. PICK y : y = [products[p] EXCEPT !.categoryId = category]
    OBVIOUS
  <2>3. PICK x : x = [y EXCEPT !.isActive = dto.isActive]
    OBVIOUS
  <2>4. y \in Cg!Product /\ y.categoryId = category /\ y.state = "live"
    BY <1>1, <1>3, <2>1, <2>2 DEF Cg!Product, Cg!UpdateProductDto, Cg!Update
  <2>5. x \in Cg!Product /\ x.categoryId = category
    BY <2>3, <2>4 DEF Cg!Product, Cg!UpdateProductDto
  <2>6. category \in Cats /\ Cg!getChildCategoryOrThrow(category)
    BY <1>1, <1>3, <2>1 DEF Housed, Cg!UpdateProductDto, Cg!Update
  <2>7. products' = [products EXCEPT ![p] = x]
    <3>1. products' = [products EXCEPT ![p].categoryId = category, ![p].isActive = dto.isActive]
      BY <1>3, <2>1 DEF Cg!Update
    <3>2. products' = [[products EXCEPT ![p].categoryId = category]
                           EXCEPT ![p].isActive = dto.isActive]
      BY <3>1
    <3>3. [products EXCEPT ![p].categoryId = category] = [products EXCEPT ![p] = y]
      BY <2>2
    <3>4. products' = [[products EXCEPT ![p] = y] EXCEPT ![p].isActive = dto.isActive]
      BY <3>2, <3>3
    <3>5. products \in [Products -> Cg!Product]
      BY DEF CatalogueInv
    <3> QED
      BY <2>3, <3>4, <3>5
  <2> QED
    BY <1>3, <2>5, <2>6, <2>7, ProductMoves DEF Housed, Cg!Update
<1>4. ASSUME NEW p \in Products, Cg!Remove(p)
      PROVE  CatalogueInv'
  <2>1. PICK x : x = [products[p] EXCEPT !.state = "deleted"]
    OBVIOUS
  <2>2. x \in Cg!Product /\ x.state = "deleted"
    BY <1>1, <2>1 DEF Cg!Product, Cg!RowState
  <2>3. Housed(x)
    BY <2>2 DEF Housed
  <2>4. products' = [products EXCEPT ![p] = x]
    BY <1>4, <2>1, Zenon DEF Cg!Remove
  <2>5. UNCHANGED <<categories, banners, home>>
    BY <1>4, Zenon DEF Cg!Remove
  <2> QED
    BY <2>2, <2>3, <2>4, <2>5, ProductMoves
<1>5. ASSUME NEW p \in Products, NEW s, NEW row, Cg!SetStock(p, s, row)
      PROVE  CatalogueInv'
  BY <1>5 DEF Cg!SetStock, CatalogueInv, Housed, Cg!getChildCategoryOrThrow, Cg!Live
<1> QED
  BY <1>2, <1>3, <1>4, <1>5 DEF Cg!Goods

(***************************************************************************)
(* Banners and the home page.                                              *)
(***************************************************************************)
LEMMA EditingKeeps ==
  ASSUME CatalogueInv, Cg!Editing
  PROVE  CatalogueInv'
<1>1. ASSUME NEW b \in Banners, NEW x \in Cg!CmsBanner, banners' = [banners EXCEPT ![b] = x],
             UNCHANGED <<categories, products, home>>
      PROVE  CatalogueInv'
  BY <1>1 DEF CatalogueInv, Housed, Cg!getChildCategoryOrThrow, Cg!Live
<1>2. ASSUME NEW b \in Banners, Cg!removeBanner(b) PROVE CatalogueInv'
  <2>1. Cg!NoBanner \in Cg!CmsBanner
    BY DEF Cg!NoBanner, Cg!CmsBanner, Cg!CmsBannerTarget
  <2> QED
    BY <1>1, <1>2, <2>1 DEF Cg!removeBanner
<1>3. ASSUME NEW b \in Banners, NEW t \in Cg!CmsBannerTarget, NEW active \in BOOLEAN,
             Cg!createBanner(b, t, active)
      PROVE  CatalogueInv'
  <2>1. PICK x : x = [state |-> "live", isActive |-> active, target |-> t]
    OBVIOUS
  <2>2. x \in Cg!CmsBanner
    BY <2>1 DEF Cg!CmsBanner
  <2> QED
    BY <1>1, <1>3, <2>1, <2>2 DEF Cg!createBanner
<1>4. ASSUME NEW b \in Banners, NEW t \in Cg!CmsBannerTarget, NEW active \in BOOLEAN,
             Cg!updateBanner(b, t, active)
      PROVE  CatalogueInv'
  <2>1. PICK y : y = [banners[b] EXCEPT !.target = t]
    OBVIOUS
  <2>2. PICK x : x = [y EXCEPT !.isActive = active]
    OBVIOUS
  <2>3. banners \in [Banners -> Cg!CmsBanner]
    BY DEF CatalogueInv
  <2>4. y \in Cg!CmsBanner
    BY <2>1, <2>3 DEF Cg!CmsBanner
  <2>5. x \in Cg!CmsBanner
    BY <2>2, <2>4 DEF Cg!CmsBanner
  <2>6. banners' = [banners EXCEPT ![b] = x]
    <3>1. banners' = [banners EXCEPT ![b].target = t, ![b].isActive = active]
      BY <1>4 DEF Cg!updateBanner
    <3>2. banners' = [[banners EXCEPT ![b].target = t] EXCEPT ![b].isActive = active]
      BY <3>1
    <3>3. [banners EXCEPT ![b].target = t] = [banners EXCEPT ![b] = y]
      BY <2>1
    <3>4. banners' = [[banners EXCEPT ![b] = y] EXCEPT ![b].isActive = active]
      BY <3>2, <3>3
    <3> QED
      BY <2>2, <2>3, <3>4
  <2> QED
    BY <1>1, <1>4, <2>5, <2>6 DEF Cg!updateBanner
<1>5. ASSUME NEW d, NEW published, \A b \in published.banners : b[2] \in Cg!CmsBannerTarget,
             home' = [draft |-> d, published |-> published],
             UNCHANGED <<categories, products, banners>>
      PROVE  CatalogueInv'
  BY <1>5 DEF CatalogueInv, Housed, Cg!getChildCategoryOrThrow, Cg!Live
<1>6. ASSUME NEW layout, Cg!updateLayout(layout) PROVE CatalogueInv'
  <2>1. home' = [draft |-> layout, published |-> home.published]
    BY <1>6 DEF Cg!updateLayout, CatalogueInv
  <2> QED
    BY <1>5, <1>6, <2>1 DEF Cg!updateLayout, CatalogueInv
<1>7. CASE Cg!Publish
  <2>1. PICK snapshot : snapshot = Cg!buildDraftSnapshot
    OBVIOUS
  <2>2. home' = [draft |-> home.draft, published |-> snapshot]
    BY <1>7, <2>1 DEF Cg!Publish, CatalogueInv
  <2>3. \A b \in Banners : banners[b].target \in Cg!CmsBannerTarget
    BY DEF CatalogueInv, Cg!CmsBanner
  <2>4. \A b \in snapshot.banners : b[2] \in Cg!CmsBannerTarget
    BY <2>1, <2>3 DEF Cg!buildDraftSnapshot
  <2> QED
    BY <1>5, <1>7, <2>2, <2>4 DEF Cg!Publish
<1> QED
  BY <1>2, <1>3, <1>4, <1>6, <1>7 DEF Cg!Editing

(***************************************************************************)
(* An empty catalogue.                                                     *)
(***************************************************************************)
LEMMA CatalogueInit ==
  ASSUME Cg!Init
  PROVE  CatalogueInv
<1>1. categories \in [Cats -> Cg!Category]
  BY DEF Cg!Init, Cg!NoCategory, Cg!Category, Cg!RowState
<1>2. products \in [Products -> Cg!Product] /\ \A p \in Products : products[p].state = "none"
  BY DEF Cg!Init, Cg!NoProduct, Cg!Product, Cg!RowState
<1>3. banners \in [Banners -> Cg!CmsBanner]
  BY DEF Cg!Init, Cg!NoBanner, Cg!CmsBanner, Cg!CmsBannerTarget
<1>4. /\ home = [draft |-> home.draft, published |-> home.published]
      /\ home.published.banners = {}
  BY DEF Cg!Init, Cg!NeverPublished
<1>5. \A p \in Products : Housed(products[p])
  BY <1>2 DEF Housed
<1> QED
  BY <1>1, <1>2, <1>3, <1>4, <1>5 DEF CatalogueInv

(***************************************************************************)
(* The stock of a category's count and the stock of its page are sums over *)
(* the same storages.                                                      *)
(***************************************************************************)
LEMMA QueriesAgree ==
  ASSUME NEW area \in Towns \cup {Null}, NEW p \in Products
  PROVE  Cg!productHasStockSql(p, area) <=> Cg!availableForArea(p, area) > 0
<1> DEFINE queried == {s \in Storages : open[s] /\ (area # Null => s \in Covering[area])}
           shelf == {s \in Covering[area] : open[s]}
<1>1. CASE area = Null
  <2>1. queried = {s \in Storages : open[s]}
    BY <1>1
  <2> QED
    BY <1>1, <2>1 DEF Cg!productHasStockSql, Cg!availableForArea, Cg!availableFor, Cg!stockMap
<1>2. CASE area # Null
  <2>1. queried = {s \in shelf : open[s]}
    BY <1>2, CatalogueAssumption
  <2>2. Cg!coveringLocationIds(area) = shelf
    BY DEF Cg!coveringLocationIds
  <2> QED
    BY <1>2, <2>1, <2>2 DEF Cg!productHasStockSql, Cg!availableForArea, Cg!stockMap
<1> QED
  BY <1>1, <1>2

(***************************************************************************)
(* A banner the store shows leads to a page that answers.                  *)
(***************************************************************************)
LEMMA ShownIsOpen ==
  ASSUME CatalogueInv, NEW t \in Cg!CmsBannerTarget, Cg!resolveBannerTarget(t)
  PROVE  Cg!Served(t)
<1>1. \/ t[1] = "product" /\ t[2] \in Products
      \/ t[1] \in {"department", "category", "nowhere"}
  BY DEF Cg!CmsBannerTarget
<1>2. CASE t[1] = "product" /\ t[2] \in Products
  <2>1. products[t[2]].state = "live" /\ products[t[2]].isActive
    BY <1>2 DEF Cg!resolveBannerTarget
  <2>2. Cg!getCategory(products[t[2]].categoryId)
    BY <1>2, <2>1 DEF CatalogueInv, Housed, Cg!getChildCategoryOrThrow, Cg!getCategory
  <2> QED
    BY <1>2, <2>1, <2>2 DEF Cg!Served, Cg!PublicProduct
<1>3. CASE t[1] = "department"
  BY <1>3 DEF Cg!resolveBannerTarget, Cg!Served, Cg!listPublicDepartments, Cg!getPublicDepartment
<1>4. CASE t[1] = "category"
  BY <1>4 DEF Cg!resolveBannerTarget, Cg!Served, Cg!listPublicCategories, Cg!getPublicCategory
<1>5. CASE t[1] = "nowhere"
  BY <1>5 DEF Cg!Served
<1> QED
  BY <1>1, <1>2, <1>3, <1>4, <1>5

(***************************************************************************)
(* Whatever happens to the catalogue after the home page is published, a   *)
(* banner on show leads to a page that answers, and every number of the    *)
(* navigation is the number of products on the page behind it.             *)
(***************************************************************************)
THEOREM StoreShowsWhatItServes == Spec => []ShownIsServed
<1>1. Init => CatalogueInv
  BY CatalogueInit DEF Init
<1>2. CatalogueInv /\ [Next]_vars => CatalogueInv'
  <2> SUFFICES ASSUME CatalogueInv, [Next]_vars PROVE CatalogueInv'
    OBVIOUS
  <2>1. CASE CatalogueStep
    <3>1. ASSUME NEW s, Cg!ToggleStorage(s) PROVE CatalogueInv'
      BY <3>1 DEF Cg!ToggleStorage, CatalogueInv, Housed, Cg!getChildCategoryOrThrow, Cg!Live
    <3> QED
      BY <2>1, <3>1, TaxonomyKeeps, GoodsKeep, EditingKeeps DEF CatalogueStep, Cg!Next
  <2>2. CASE UNCHANGED catalogueVars
    BY <2>2 DEF catalogueVars, CatalogueInv, Housed, Cg!getChildCategoryOrThrow, Cg!Live
  <2> QED
    BY <2>1, <2>2 DEF Next, vars, CartStep, AttemptStep, PromiseStep, DeliveryStep, ContentStep,
                      MailStep
<1>3. CatalogueInv => ShownIsServed
  <2> SUFFICES ASSUME CatalogueInv PROVE ShownIsServed
    OBVIOUS
  <2>1. ASSUME NEW b \in Cg!getPublishedHome.banners PROVE Cg!Served(b[2])
    <3>1. b \in home.published.banners /\ Cg!resolveBannerTarget(b[2])
      BY DEF Cg!getPublishedHome, Cg!resolveVisibleBanners
    <3> QED
      BY <3>1, ShownIsOpen DEF CatalogueInv
  <2>2. ASSUME NEW area \in Towns \cup {Null}, NEW c
        PROVE  Cg!countValidProducts(c, area) = Cg!Cardinality(Cg!findStorefront(c, area))
    <3>1. {p \in Products : /\ products[p].state = "live" /\ products[p].isActive
                            /\ products[p].categoryId = c /\ Cg!productHasStockSql(p, area)}
          = Cg!findStorefront(c, area)
      BY QueriesAgree DEF Cg!findStorefront
    <3> QED
      BY <3>1 DEF Cg!countValidProducts
  <2>3. ASSUME NEW area \in Towns \cup {Null},
               NEW d \in DOMAIN Cg!getPublicCatalog(area),
               NEW c \in DOMAIN Cg!getPublicCatalog(area)[d]
        PROVE  Cg!getPublicCatalog(area)[d][c] = Cg!Cardinality(Cg!findStorefront(c, area))
    BY <2>2 DEF Cg!getPublicCatalog
  <2> QED
    BY <2>1, <2>3 DEF ShownIsServed, Cg!ShownIsServed
<1> QED
  BY <1>1, <1>2, <1>3, PTL DEF Spec

-----------------------------------------------------------------------------
(* Delivery *)

(***************************************************************************)
(* The query of the panel and the offer to a client are written apart and  *)
(* name the same places, in any state of the storages, counters, options   *)
(* and zones, one half saved included.                                     *)
(***************************************************************************)
LEMMA WarningIsOffer == DeadEndsReported
<1>1. De!pickupPoints(Null) = De!ActivePoints
  BY DEF De!pickupPoints
<1>2. ASSUME NEW m \in De!Municipalities
      PROVE  /\ m # Null
             /\ m \in De!municipalitiesWithoutFulfillment
                  <=> /\ De!coveringLocationIds(m) # {}
                      /\ ~ \E o \in Options : De!IsOffered(o) /\ De!ReachesOption(o, m)
  BY DeliveryAssumption DEF De!Municipalities, De!municipalitiesWithoutFulfillment,
                            De!coveringLocationIds
<1>3. ASSUME NEW m \in De!Municipalities, De!coveringLocationIds(m) # {}
      PROVE  /\ De!pickupPoints(m) = {} <=> De!ActivePoints = {}
             /\ De!optionsForMunicipality(m) = {}
                  <=> ~ \E o \in Options : De!IsOffered(o) /\ De!ReachesOption(o, m)
  BY <1>2, <1>3 DEF De!pickupPoints, De!optionsForMunicipality
<1>4. ASSUME NEW m \in De!Municipalities, De!coveringLocationIds(m) # {}
      PROVE  De!NothingToOffer(m)
               <=> /\ ~ \E o \in Options : De!IsOffered(o) /\ De!ReachesOption(o, m)
                   /\ ~ (pickupEnabled /\ De!ActivePoints # {})
  BY <1>3, <1>4 DEF De!NothingToOffer, De!IsEmpty, De!availableForClient
<1>5. {m \in De!listMunicipalities : De!NothingToOffer(m)}
      = IF pickupEnabled /\ De!ActivePoints # {} THEN {} ELSE De!municipalitiesWithoutFulfillment
  <2>1. De!municipalitiesWithoutFulfillment \subseteq De!Municipalities
    BY DEF De!municipalitiesWithoutFulfillment
  <2>2. \A m : m \in De!listMunicipalities
               <=> m \in De!Municipalities /\ De!coveringLocationIds(m) # {}
    BY DEF De!listMunicipalities
  <2> QED
    BY <1>2, <1>4, <2>1, <2>2
<1> QED
  BY <1>1, <1>5 DEF DeadEndsReported, De!DeadEndsReported, De!getSettingsResponse

(***************************************************************************)
(* The panel names exactly the places that can buy and have no way to get  *)
(* their order.                                                            *)
(***************************************************************************)
THEOREM PanelNamesDeadEnds == Spec => []DeadEndsReported
<1>1. DeadEndsReported
  BY WarningIsOffer
<1> QED
  BY <1>1, PTL

PointsOK(P) ==
  /\ IsFiniteSet(P)
  /\ \A p \in P : p.id \in PointIds /\ p.location \in Locations
  /\ \A p, q \in P : p.id = q.id => p = q

OptionOK(x) ==
  /\ x = [state |-> x.state, enabled |-> x.enabled, zones |-> x.zones, threshold |-> x.threshold]
  /\ x.threshold \in Nat

OptionsOK(O) == O = [o \in Options |-> O[o]] /\ \A o \in Options : OptionOK(O[o])

(* An id names one counter, and a threshold is an amount. *)
DeliveryInv == PointsOK(points) /\ OptionsOK(options)

(***************************************************************************)
(* The cardinality of the instance is the cardinality.                     *)
(***************************************************************************)
LEMMA SameCountOfPlaces == \A S : De!Cardinality(S) = Cardinality(S)
BY DEF De!Cardinality, Cardinality

(***************************************************************************)
(* A set that is not larger than another has an injection into it.         *)
(***************************************************************************)
LEMMA SmallerInjects ==
  ASSUME NEW S, NEW U, IsFiniteSet(S), IsFiniteSet(U), Cardinality(S) <= Cardinality(U)
  PROVE  \E f \in [S -> U] : \A m, n \in S : f[m] = f[n] => m = n
<1> DEFINE a == Cardinality(S)  b == Cardinality(U)
<1>1. /\ a \in Nat /\ b \in Nat
      /\ \E g : g \in Bijection(1 .. a, S)
      /\ \E h : h \in Bijection(1 .. b, U)
  BY FS_CardinalityType DEF ExistsBijection
<1>2. PICK g : g \in Bijection(1 .. a, S)
  BY <1>1
<1>3. PICK h : h \in Bijection(1 .. b, U)
  BY <1>1
<1>4. \A n \in S : \E k \in 1 .. a : g[k] = n
  BY <1>2 DEF Bijection, Surjection
<1>5. h \in [1 .. b -> U] /\ \A j, k \in 1 .. b : h[j] = h[k] => j = k
  BY <1>3 DEF Bijection, Injection, IsInjective
<1> HIDE DEF a, b
<1> DEFINE rank == [n \in S |-> CHOOSE k \in 1 .. a : g[k] = n]
<1>6. \A n \in S : rank[n] \in 1 .. a /\ g[rank[n]] = n
  BY <1>4
<1>7. 1 .. a \subseteq 1 .. b
  BY <1>1 DEF a, b
<1> HIDE DEF rank
<1> DEFINE f == [n \in S |-> h[rank[n]]]
<1>8. f \in [S -> U] /\ \A n \in S : f[n] = h[rank[n]]
  BY <1>5, <1>6, <1>7
<1> HIDE DEF f
<1>9. ASSUME NEW m \in S, NEW n \in S, f[m] = f[n] PROVE m = n
  <2>1. rank[m] = rank[n]
    BY <1>5, <1>6, <1>7, <1>8, <1>9
  <2> QED
    BY <1>6, <2>1
<1> QED
  BY <1>8, <1>9

(***************************************************************************)
(* The counters written for a storage have ids of their own.               *)
(***************************************************************************)
LEMMA CountersWritten ==
  ASSUME PointsOK(points), NEW l \in Locations, NEW list, NEW places, IsFiniteSet(places),
         De!EnoughIds(places), NEW W, W = De!writePickupAddresses(l, list, places)
  PROVE  PointsOK(W) /\ \A p \in points, w \in W : p.id # w.id
<1> DEFINE taken == {p.id : p \in points}
           unused == PointIds \ taken
           ids == CHOOSE f \in [places -> unused] : \A m, n \in places : f[m] = f[n] => m = n
           row == [n \in places |-> [id |-> ids[n], location |-> l, address |-> list[n]]]
<1>1. IsFiniteSet(PointIds) /\ taken \subseteq PointIds
  BY DeliveryAssumption DEF PointsOK
<1>2. IsFiniteSet(taken) /\ Cardinality(taken) = Cardinality(points)
  <2> DEFINE f == [p \in points |-> p.id]
  <2>1. f \in [points -> taken]
    OBVIOUS
  <2>2. \A c, d \in points : f[c] = f[d] => c = d
    BY DEF PointsOK
  <2>3. \A x \in taken : \E c \in points : f[c] = x
    OBVIOUS
  <2>4. f \in Bijection(points, taken)
    BY <2>1, <2>2, <2>3 DEF Bijection, Injection, IsInjective, Surjection
  <2> HIDE DEF taken, f
  <2> QED
    BY <2>4, FS_Bijection DEF PointsOK, ExistsBijection
<1>3. IsFiniteSet(unused) /\ Cardinality(places) <= Cardinality(unused)
  <2>1. PointIds \cap taken = taken
    BY <1>1
  <2> HIDE DEF taken
  <2>2. /\ IsFiniteSet(PointIds \ taken)
        /\ Cardinality(PointIds \ taken) = Cardinality(PointIds) - Cardinality(taken)
    BY <1>1, <2>1, FS_Difference
  <2>3. Cardinality(places) <= Cardinality(PointIds) - Cardinality(points)
    BY SameCountOfPlaces DEF De!EnoughIds
  <2> QED
    BY <1>2, <2>2, <2>3
<1>4. \E f \in [places -> unused] : \A m, n \in places : f[m] = f[n] => m = n
  <2> HIDE DEF unused
  <2> QED
    BY <1>3, SmallerInjects
<1>5. ids \in [places -> unused] /\ \A m, n \in places : ids[m] = ids[n] => m = n
  <2> HIDE DEF unused
  <2> QED
    BY <1>4
<1>6. W = {[id |-> ids[n], location |-> l, address |-> list[n]] : n \in places}
  BY DEF De!writePickupAddresses
<1> HIDE DEF ids
<1>7. W = {row[n] : n \in places} /\ row \in [places -> W]
  BY <1>6
<1>8. IsFiniteSet(W)
  <2>1. row \in Surjection(places, W)
    BY <1>7 DEF Surjection
  <2> HIDE DEF row
  <2> QED
    BY <2>1, FS_Surjection
<1>9. \A w \in W : w.id \in unused /\ w.location = l
  BY <1>5, <1>6
<1>10. \A v, w \in W : v.id = w.id => v = w
  BY <1>5, <1>6
<1> QED
  BY <1>8, <1>9, <1>10 DEF PointsOK

(***************************************************************************)
(* Some of the counters there were, and some new ones.                     *)
(***************************************************************************)
LEMMA CountersKept ==
  ASSUME NEW P, NEW W, PointsOK(P), PointsOK(W), \A p \in P, w \in W : p.id # w.id,
         NEW Q, Q \subseteq P \cup W
  PROVE  PointsOK(Q)
<1>1. IsFiniteSet(Q)
  BY FS_Union, FS_Subset DEF PointsOK
<1> QED
  BY <1>1 DEF PointsOK

(***************************************************************************)
(* The lists of addresses have finitely many places.                       *)
(***************************************************************************)
LEMMA ListsAreFinite ==
  ASSUME NEW list \in De!AddressLists
  PROVE  IsFiniteSet(DOMAIN list)
<1>1. DOMAIN list = 1 .. 0 \/ DOMAIN list = 1 .. 1 \/ DOMAIN list = 1 .. 2
  BY DEF De!AddressLists
<1>2. \A n \in Int : IsFiniteSet(1 .. n)
  BY FS_Interval
<1>3. 0 \in Int /\ 1 \in Int /\ 2 \in Int
  OBVIOUS
<1> QED
  BY <1>1, <1>2, <1>3, Zenon

(***************************************************************************)
(* Storages.                                                               *)
(***************************************************************************)
LEMMA StoragesKeepCounters ==
  ASSUME DeliveryInv, NEW l \in Locations, De!create(l) \/ De!update(l) \/ De!remove(l)
  PROVE  DeliveryInv'
<1>1. options' = options
  BY DEF De!create, De!update, De!remove
<1>2. CASE De!create(l)
  <2>1. PICK list \in De!AddressLists :
          /\ De!EnoughIds(DOMAIN list)
          /\ points' = points \cup De!writePickupAddresses(l, list, DOMAIN list)
    BY <1>2 DEF De!create
  <2>2. PICK W : W = De!writePickupAddresses(l, list, DOMAIN list)
    OBVIOUS
  <2>3. PointsOK(W) /\ \A p \in points, w \in W : p.id # w.id
    BY <2>1, <2>2, ListsAreFinite, CountersWritten DEF DeliveryInv
  <2>4. PointsOK(points')
    BY <2>1, <2>2, <2>3, CountersKept DEF DeliveryInv
  <2> QED
    BY <1>1, <2>4 DEF DeliveryInv
<1>3. ASSUME NEW list \in De!AddressLists, points' \in De!reconcilePickupAddresses(l, list)
      PROVE  DeliveryInv'
  <2>1. PICK before, new, rows :
          /\ before = {p \in points : p.location = l} /\ rows \subseteq before
          /\ new \subseteq DOMAIN list /\ De!EnoughIds(new)
          /\ points' = (points \ before) \cup rows \cup De!writePickupAddresses(l, list, new)
    BY <1>3 DEF De!reconcilePickupAddresses
  <2>2. PICK W : W = De!writePickupAddresses(l, list, new)
    OBVIOUS
  <2>3. IsFiniteSet(new)
    BY <2>1, ListsAreFinite, FS_Subset
  <2>4. PointsOK(W) /\ \A p \in points, w \in W : p.id # w.id
    BY <2>1, <2>2, <2>3, CountersWritten DEF DeliveryInv
  <2>5. points' \subseteq points \cup W
    BY <2>1, <2>2
  <2>6. PointsOK(points')
    BY <2>4, <2>5, CountersKept DEF DeliveryInv
  <2> QED
    BY <1>1, <2>6 DEF DeliveryInv
<1>4. CASE points' = points
  BY <1>1, <1>4 DEF DeliveryInv
<1> QED
  BY <1>2, <1>3, <1>4 DEF De!update, De!remove

(***************************************************************************)
(* Delivery options.                                                       *)
(***************************************************************************)
LEMMA OptionsKeepAmounts ==
  ASSUME DeliveryInv, NEW o \in Options, De!createOption(o) \/ De!updateOption(o) \/ De!removeOption(o)
  PROVE  DeliveryInv'
<1>1. points' = points /\ OptionOK(options[o])
  BY DEF De!createOption, De!updateOption, De!removeOption, DeliveryInv, OptionsOK
<1>2. ASSUME NEW x, OptionOK(x), options' = [options EXCEPT ![o] = x] PROVE DeliveryInv'
  <2>1. OptionsOK(options')
    BY <1>2 DEF DeliveryInv, OptionsOK
  <2> QED
    BY <1>1, <2>1 DEF DeliveryInv
<1>3. CASE De!createOption(o)
  <2>1. PICK enabled \in BOOLEAN, threshold \in Thresholds :
          options' = [options EXCEPT ![o] =
            [state |-> "live", enabled |-> enabled, zones |-> {}, threshold |-> threshold]]
    BY <1>3 DEF De!createOption
  <2>2. OptionOK([state |-> "live", enabled |-> enabled, zones |-> {}, threshold |-> threshold])
    BY DeliveryAssumption DEF OptionOK
  <2> QED
    BY <1>2, <2>1, <2>2
<1>4. CASE De!updateOption(o)
  <2>1. PICK enabled \in BOOLEAN, threshold \in Thresholds :
          \/ options' = [options EXCEPT ![o].enabled = enabled, ![o].threshold = threshold]
          \/ options' = [options EXCEPT ![o].enabled = enabled, ![o].threshold = threshold,
                                        ![o].zones = {}]
    BY <1>4 DEF De!updateOption
  <2>2. PICK x : x = options[o]
    OBVIOUS
  <2>3. PICK y : y = [x EXCEPT !.enabled = enabled]
    OBVIOUS
  <2>4. PICK z : z = [y EXCEPT !.threshold = threshold]
    OBVIOUS
  <2>5. PICK w : w = [z EXCEPT !.zones = {}]
    OBVIOUS
  <2>6. OptionOK(y)
    BY <1>1, <2>2, <2>3 DEF OptionOK
  <2>7. OptionOK(z)
    BY <2>4, <2>6, DeliveryAssumption DEF OptionOK
  <2>8. OptionOK(w)
    BY <2>5, <2>7 DEF OptionOK
  <2>9. options = [k \in Options |-> options[k]]
    BY DEF DeliveryInv, OptionsOK
  <2>10. [options EXCEPT ![o].enabled = enabled] = [options EXCEPT ![o] = y]
    BY <2>2, <2>3
  <2>11. [[options EXCEPT ![o].enabled = enabled] EXCEPT ![o].threshold = threshold]
         = [options EXCEPT ![o] = z]
    BY <2>4, <2>9, <2>10
  <2>12. [[[options EXCEPT ![o].enabled = enabled] EXCEPT ![o].threshold = threshold]
           EXCEPT ![o].zones = {}]
         = [options EXCEPT ![o] = w]
    BY <2>5, <2>9, <2>11
  <2>13. options' \in {[options EXCEPT ![o] = z], [options EXCEPT ![o] = w]}
    BY <2>1, <2>11, <2>12
  <2> QED
    BY <1>2, <2>7, <2>8, <2>13
<1>5. CASE De!removeOption(o)
  <2>1. options' = [options EXCEPT ![o].state = "deleted", ![o].zones = {}]
    BY <1>5 DEF De!removeOption
  <2>2. PICK x : x = options[o]
    OBVIOUS
  <2>3. PICK y : y = [x EXCEPT !.state = "deleted"]
    OBVIOUS
  <2>4. PICK z : z = [y EXCEPT !.zones = {}]
    OBVIOUS
  <2>5. OptionOK(y)
    BY <1>1, <2>2, <2>3 DEF OptionOK
  <2>6. OptionOK(z)
    BY <2>4, <2>5 DEF OptionOK
  <2>7. options = [k \in Options |-> options[k]]
    BY DEF DeliveryInv, OptionsOK
  <2>8. [options EXCEPT ![o].state = "deleted"] = [options EXCEPT ![o] = y]
    BY <2>2, <2>3
  <2>9. [[options EXCEPT ![o].state = "deleted"] EXCEPT ![o].zones = {}]
        = [options EXCEPT ![o] = z]
    BY <2>4, <2>7, <2>8
  <2> QED
    BY <1>2, <2>1, <2>6, <2>9
<1> QED
  BY <1>3, <1>4, <1>5

LEMMA ZonesKeepAmounts ==
  ASSUME DeliveryInv, De!replaceZones
  PROVE  DeliveryInv'
<1>1. PICK o, added : /\ o = saving.option
                      /\ options' = [options EXCEPT ![o].zones = @ \cup added]
  BY DEF De!replaceZones
<1>2. points' = points /\ options = [k \in Options |-> options[k]]
  BY DEF De!replaceZones, DeliveryInv, OptionsOK
<1>3. CASE o \notin Options
  BY <1>1, <1>2, <1>3 DEF DeliveryInv
<1>4. CASE o \in Options
  <2>1. PICK x : x = options[o]
    OBVIOUS
  <2>2. PICK y : y = [x EXCEPT !.zones = x.zones \cup added]
    OBVIOUS
  <2>3. OptionOK(x)
    BY <1>4, <2>1 DEF DeliveryInv, OptionsOK
  <2>4. OptionOK(y)
    BY <2>2, <2>3 DEF OptionOK
  <2>5. options' = [options EXCEPT ![o] = y]
    BY <1>1, <2>1, <2>2
  <2>6. OptionsOK(options')
    BY <1>4, <2>4, <2>5 DEF DeliveryInv, OptionsOK
  <2> QED
    BY <1>2, <2>6 DEF DeliveryInv
<1> QED
  BY <1>3, <1>4

(***************************************************************************)
(* The option or the counter that checkout settles on is one on offer.     *)
(***************************************************************************)
LEMMA PickedIsOffered ==
  ASSUME NEW id, NEW offered, De!Picked(id, offered) # Null
  PROVE  De!Picked(id, offered) \in offered
<1> DEFINE chosen == {c \in offered : IF id = Null THEN De!Cardinality(offered) = 1 ELSE c = id}
<1>1. De!Picked(id, offered) = IF chosen = {} THEN Null ELSE CHOOSE c \in chosen : TRUE
  BY DEF De!Picked
<1>2. chosen # {}
  BY <1>1
<1>3. (CHOOSE c \in chosen : TRUE) \in chosen
  BY <1>2
<1> QED
  BY <1>1, <1>2, <1>3

(***************************************************************************)
(* A counter on offer is found by its id.                                  *)
(***************************************************************************)
LEMMA CounterFound ==
  ASSUME DeliveryInv, NEW p \in De!ActivePoints
  PROVE  /\ De!LocationOf(p.id) = p.location /\ De!IsServing(p.location)
         /\ p.location \in Locations
<1>1. p \in points /\ De!IsServing(p.location)
  BY DEF De!ActivePoints
<1>2. (CHOOSE q \in points : q.id = p.id) = p
  BY <1>1 DEF DeliveryInv, PointsOK
<1> QED
  BY <1>1, <1>2 DEF De!LocationOf, DeliveryInv, PointsOK

(***************************************************************************)
(* Delivery is free from the threshold on.                                 *)
(***************************************************************************)
LEMMA FeeFromThreshold ==
  ASSUME DeliveryInv, NEW choice, choice.option \in Options, choice.fee = FEE,
         NEW subtotal \in Subtotals
  PROVE  De!feeConPromocion(choice, subtotal) = 0
           <=> options[choice.option].threshold \in 1 .. subtotal
<1>1. options[choice.option].threshold \in Nat
  BY DEF DeliveryInv, OptionsOK, OptionOK
<1> QED
  BY <1>1, DeliveryAssumption DEF De!feeConPromocion

(***************************************************************************)
(* A choice that checkout accepts can be served.                           *)
(***************************************************************************)
LEMMA ChoiceServable ==
  ASSUME DeliveryInv, NEW m \in De!Municipalities \cup {Null}, ~ De!NothingToOffer(m),
         NEW input \in De!ChoicesAt(m), De!resolveChoice(input) # Null
  PROVE  De!Servable(m, De!resolveChoice(input))
<1> DEFINE offer  == De!availableForClient(m)
           type   == IF input.type # Null THEN input.type
                     ELSE IF offer.deliveryOptions # {} THEN "delivery" ELSE "pickup"
           point  == De!Picked(input.point, {p.id : p \in offer.pickupPoints})
           option == De!Picked(input.option, offer.deliveryOptions)
<1>1. input.municipality = m /\ type \in {"pickup", "delivery"}
  BY DEF De!ChoicesAt
<1>2. offer.deliveryOptions = De!optionsForMunicipality(m)
  BY DEF De!availableForClient
<1>3. offer.pickupPoints = (IF pickupEnabled THEN De!pickupPoints(m) ELSE {})
  BY DEF De!availableForClient
<1>4. offer.pickupPoints \subseteq De!ActivePoints
  BY <1>3 DEF De!pickupPoints
<1>5. m # Null => De!coveringLocationIds(m) # {}
  <2>1. offer.deliveryOptions # {} \/ offer.pickupPoints # {}
    BY DEF De!NothingToOffer, De!IsEmpty
  <2> QED
    BY <1>2, <1>3, <2>1 DEF De!optionsForMunicipality, De!pickupPoints
<1>6. PICK choice : choice = De!resolveChoice(input)
  OBVIOUS
<1>7. /\ type = "pickup" => /\ point # Null
                            /\ choice = [type |-> type, option |-> Null,
                                         location |-> De!LocationOf(point), fee |-> 0]
      /\ type = "delivery" => /\ option # Null
                              /\ choice = [type |-> type, option |-> option,
                                           location |-> Null, fee |-> FEE]
  BY <1>1, <1>6 DEF De!resolveChoice, De!NothingToOffer
<1> HIDE DEF offer, type
<1>8. m # Null => \E l \in De!resolveAllowedLocationIds(m, choice) :
                     l \in De!coveringLocationIds(m)
  BY <1>5 DEF De!resolveAllowedLocationIds
<1>9. CASE type = "pickup"
  <2>1. choice.type = "pickup" /\ choice.location = De!LocationOf(point)
    BY <1>7, <1>9
  <2>2. point \in {p.id : p \in offer.pickupPoints}
    BY <1>7, <1>9, PickedIsOffered
  <2>3. PICK p \in De!ActivePoints : point = p.id
    BY <1>4, <2>2
  <2>4. De!IsServing(choice.location) /\ choice.location \in Locations
    BY <2>1, <2>3, CounterFound
  <2>5. choice.location \in De!resolveAllowedLocationIds(m, choice)
    BY <2>4, DeliveryAssumption DEF De!resolveAllowedLocationIds
  <2> QED
    BY <1>6, <1>8, <2>1, <2>4, <2>5 DEF De!Servable
<1>10. CASE type = "delivery"
  <2>1. choice.type = "delivery" /\ choice.option = option /\ choice.fee = FEE
    BY <1>7, <1>10
  <2>2. option \in De!optionsForMunicipality(m)
    BY <1>2, <1>7, <1>10, PickedIsOffered
  <2>3. De!IsOffered(choice.option) /\ choice.option \in Options
    BY <2>1, <2>2 DEF De!optionsForMunicipality
  <2>4. \A subtotal \in Subtotals :
          De!feeConPromocion(choice, subtotal) = 0
            <=> options[choice.option].threshold \in 1 .. subtotal
    BY <2>1, <2>3, FeeFromThreshold
  <2> QED
    BY <1>6, <1>8, <2>1, <2>3, <2>4 DEF De!Servable
<1> QED
  BY <1>1, <1>9, <1>10

(***************************************************************************)
(* Whatever administrators do to storages, counters, options and zones, a  *)
(* checkout that is accepted has somewhere to take the goods from, and its *)
(* delivery is free just from the threshold on.                            *)
(***************************************************************************)
THEOREM AcceptedCanBeServed == Spec => []AcceptedIsServable
<1>1. Init => DeliveryInv
  <2> SUFFICES ASSUME De!Init PROVE DeliveryInv
    BY DEF Init
  <2>1. PointsOK(points)
    BY FS_EmptySet DEF De!Init, PointsOK
  <2>2. OptionOK(De!NoOption)
    BY DEF OptionOK, De!NoOption
  <2>3. OptionsOK(options)
    BY <2>2 DEF De!Init, OptionsOK
  <2> QED
    BY <2>1, <2>3 DEF DeliveryInv
<1>2. DeliveryInv /\ [Next]_vars => DeliveryInv'
  <2> SUFFICES ASSUME DeliveryInv, [Next]_vars PROVE DeliveryInv'
    OBVIOUS
  <2>1. CASE DeliveryStep
    <3>1. CASE De!updateSettings
      BY <3>1 DEF De!updateSettings, DeliveryInv
    <3> QED
      BY <2>1, <3>1, StoragesKeepCounters, OptionsKeepAmounts, ZonesKeepAmounts
         DEF DeliveryStep, De!Next
  <2>2. CASE UNCHANGED deliveryVars
    BY <2>2 DEF deliveryVars, DeliveryInv
  <2> QED
    BY <2>1, <2>2 DEF Next, vars, CartStep, AttemptStep, PromiseStep, CatalogueStep, ContentStep,
                      MailStep
<1>3. DeliveryInv => AcceptedIsServable
  BY ChoiceServable DEF AcceptedIsServable, De!AcceptedIsServable
<1> QED
  BY <1>1, <1>2, <1>3, PTL DEF Spec

-----------------------------------------------------------------------------
(* Mail *)

Reminder(o, m) == <<Ma!pickup_reminder(m), o>>

Pass ==
  [pc : {"idle", "query", "loop", "done"}, now : 0 .. MaxDay,
   milestone : 0 .. Len(PICKUP_REMINDER_DAYS) + 1, candidates : SUBSET OrderIds]

MailTypes ==
  /\ today \in 0 .. MaxDay
  /\ waiting \in [OrderIds -> Ma!Order]
  /\ sweep \in [Sweepers -> Pass]
  /\ sending = [c \in Ma!Callers |-> [stage |-> sending[c].stage, email |-> sending[c].email]]
  /\ copies \in [DOMAIN copies -> Nat] /\ unheard \in [DOMAIN unheard -> Nat]

(* A caller waits for the mail it should: a pass for the reminder of an     *)
(* order it has taken off its list, anybody else for no reminder.           *)
Waiting(c) ==
  /\ sending[c].stage \in {"none", "posting", "accepted"}
  /\ c \in Slots /\ sending[c].stage # "none" => sending[c].email[1][1] # "pickup_reminder"
  /\ c \in Sweepers =>
       /\ sweep[c].now <= today
       /\ sweep[c].pc \in {"query", "loop"} =>
            sweep[c].milestone \in 1 .. Len(PICKUP_REMINDER_DAYS)
       /\ sweep[c].pc = "done" => sweep[c].milestone = Len(PICKUP_REMINDER_DAYS) + 1
       /\ sending[c].stage # "none" =>
            /\ sweep[c].pc = "loop"
            /\ \E o \in OrderIds \ sweep[c].candidates :
                 sending[c].email = Reminder(o, PICKUP_REMINDER_DAYS[sweep[c].milestone])

(* The pass s owes the order its reminder. *)
Due(s, o, m) ==
  /\ waiting[o].status = "confirmed" /\ waiting[o].payment = "paid"
  /\ sweep[s].now - waiting[o].paidAt \in m .. PICKUP_CUSTODY_DAYS - 1

Done(s, o, m) == Ma!Logged(Reminder(o, m)) \/ <<s, o, m>> \in missed

(* The reminder is still on the list of the pass, or on its way. *)
Trying(s, o, m) ==
  /\ sweep[s].pc = "loop" /\ m = PICKUP_REMINDER_DAYS[sweep[s].milestone]
  /\ \/ o \in sweep[s].candidates
     \/ sending[s].stage # "none" /\ sending[s].email = Reminder(o, m)

(* What the pass owes for the milestones it has come to. *)
Reached(s, j) ==
  \/ sweep[s].pc \in {"query", "loop", "done"} /\ j < sweep[s].milestone
  \/ sweep[s].pc = "loop" /\ j = sweep[s].milestone

Paid(s) ==
  \A j \in 1 .. Len(PICKUP_REMINDER_DAYS), o \in PickupOrders :
    LET m == PICKUP_REMINDER_DAYS[j]
    IN  Reached(s, j) /\ Due(s, o, m) => Done(s, o, m) \/ Trying(s, o, m)

PassInv == (\A c \in Ma!Callers : Waiting(c)) /\ (\A s \in Sweepers : Paid(s))

(***************************************************************************)
(* The milestones are positive numbers of days.                            *)
(***************************************************************************)
LEMMA MilestonesPositive ==
  /\ Len(PICKUP_REMINDER_DAYS) \in Nat \ {0}
  /\ \A j \in 1 .. Len(PICKUP_REMINDER_DAYS) : PICKUP_REMINDER_DAYS[j] \in Nat \ {0}
BY MailAssumption

(***************************************************************************)
(* A pass that does not move stays right while the clock and the log grow, *)
(* nothing tried is forgotten and no order becomes due to it.              *)
(***************************************************************************)
LEMMA OthersStay ==
  ASSUME MailTypes, PassInv, NEW c \in Ma!Callers,
         sending'[c] = sending[c], c \in Sweepers => sweep'[c] = sweep[c],
         today <= today', today' \in 0 .. MaxDay,
         \A e : Ma!Logged(e) => Ma!Logged(e)',
         \A o, m : <<c, o, m>> \in missed => <<c, o, m>> \in missed',
         \A o \in PickupOrders, j \in 1 .. Len(PICKUP_REMINDER_DAYS) :
           c \in Sweepers /\ Due(c, o, PICKUP_REMINDER_DAYS[j])'
             => Due(c, o, PICKUP_REMINDER_DAYS[j])
  PROVE  Waiting(c)' /\ (c \in Sweepers => Paid(c)')
<1>1. Waiting(c)'
  <2>1. c \in Sweepers => sweep[c] \in Pass
    BY DEF MailTypes
  <2> QED
    BY <2>1 DEF PassInv, Waiting, MailTypes, Pass
<1>2. ASSUME c \in Sweepers PROVE Paid(c)'
  <2>1. Paid(c)
    BY <1>2 DEF PassInv
  <2> SUFFICES ASSUME NEW j \in 1 .. Len(PICKUP_REMINDER_DAYS), NEW o \in PickupOrders,
                      NEW m, m = PICKUP_REMINDER_DAYS[j],
                      Reached(c, j)', Due(c, o, m)'
               PROVE  Done(c, o, m)' \/ Trying(c, o, m)'
    BY DEF Paid
  <2>2. Reached(c, j) /\ Due(c, o, m)
    BY <1>2 DEF Reached
  <2>3. Done(c, o, m) \/ Trying(c, o, m)
    BY <2>1, <2>2 DEF Paid
  <2>4. Done(c, o, m) => Done(c, o, m)'
    BY DEF Done
  <2>5. Trying(c, o, m) => Trying(c, o, m)'
    BY <1>2 DEF Trying
  <2> QED
    BY <2>3, <2>4, <2>5
<1> QED
  BY <1>1, <1>2

(***************************************************************************)
(* What holds of all the others when only the caller c moves.              *)
(***************************************************************************)
LEMMA OneMoves ==
  ASSUME MailTypes, PassInv, NEW c \in Ma!Callers,
         Waiting(c)', c \in Sweepers => Paid(c)',
         \A k \in Ma!Callers \ {c} :
           sending'[k] = sending[k] /\ (k \in Sweepers => sweep'[k] = sweep[k]),
         today <= today', today' \in 0 .. MaxDay,
         \A e : Ma!Logged(e) => Ma!Logged(e)',
         \A k \in Ma!Callers \ {c} : \A o, m : <<k, o, m>> \in missed => <<k, o, m>> \in missed',
         \A k \in Sweepers \ {c}, o \in PickupOrders, j \in 1 .. Len(PICKUP_REMINDER_DAYS) :
           Due(k, o, PICKUP_REMINDER_DAYS[j])' => Due(k, o, PICKUP_REMINDER_DAYS[j])
  PROVE  PassInv'
<1>1. ASSUME NEW k \in Ma!Callers \ {c} PROVE Waiting(k)' /\ (k \in Sweepers => Paid(k)')
  BY <1>1, OthersStay
<1>2. \A k \in Ma!Callers : Waiting(k)' /\ (k \in Sweepers => Paid(k)')
  BY <1>1
<1>3. Sweepers \subseteq Ma!Callers
  BY DEF Ma!Callers
<1> QED
  BY <1>2, <1>3 DEF PassInv

(***************************************************************************)
(* A mail that ends leaves its row or its mark.                            *)
(***************************************************************************)
LEMMA MailEnds ==
  ASSUME MailTypes, PassInv, NEW c \in Ma!Callers, sending[c].stage # "none",
         sending' = [sending EXCEPT ![c] = Ma!NoMail],
         UNCHANGED <<today, waiting, sweep>>,
         \A e : Ma!Logged(e) => Ma!Logged(e)', missed \subseteq missed',
         \A o, m : c \in Sweepers /\ sending[c].email = Reminder(o, m) => Done(c, o, m)'
  PROVE  PassInv'
<1>1. /\ sending'[c] = Ma!NoMail
      /\ \A k \in Ma!Callers \ {c} : sending'[k] = sending[k]
  BY DEF MailTypes
<1>2. \A k, o, m : Due(k, o, m)' <=> Due(k, o, m)
  BY DEF Due
<1>3. Waiting(c)'
  BY <1>1 DEF Waiting, PassInv, Ma!NoMail
<1>4. ASSUME c \in Sweepers PROVE Paid(c)'
  <2>1. Paid(c)
    BY <1>4 DEF PassInv
  <2> SUFFICES ASSUME NEW j \in 1 .. Len(PICKUP_REMINDER_DAYS), NEW o \in PickupOrders,
                      NEW m, m = PICKUP_REMINDER_DAYS[j],
                      Reached(c, j)', Due(c, o, m)'
               PROVE  Done(c, o, m)' \/ Trying(c, o, m)'
    BY DEF Paid
  <2>2. Reached(c, j) /\ Due(c, o, m)
    BY <1>2 DEF Reached
  <2>3. Done(c, o, m) \/ Trying(c, o, m)
    BY <2>1, <2>2 DEF Paid
  <2>4. Done(c, o, m) => Done(c, o, m)'
    BY DEF Done
  <2>5. Trying(c, o, m) => Done(c, o, m)' \/ Trying(c, o, m)'
    BY <1>4 DEF Trying
  <2> QED
    BY <2>3, <2>4, <2>5
<1>5. today <= today' /\ today' \in 0 .. MaxDay
  BY DEF MailTypes
<1> QED
  BY <1>1, <1>2, <1>3, <1>4, <1>5, OneMoves

(***************************************************************************)
(* The log only grows.                                                     *)
(***************************************************************************)
LEMMA LogGrows ==
  ASSUME DOMAIN log \subseteq DOMAIN log'
  PROVE  \A e : Ma!Logged(e) => Ma!Logged(e)'
BY DEF Ma!Logged, Ma!BagToSet

(***************************************************************************)
(* Accepted, refused, recorded or given up: the mails in flight.           *)
(***************************************************************************)
LEMMA FlightKeeps ==
  ASSUME MailTypes, PassInv, NEW c \in Ma!Callers,
         \/ Ma!Accept(c) \/ Ma!Reject(c) \/ Ma!Timeout(c)
         \/ \E saved \in BOOLEAN : Ma!record(c, saved)
  PROVE  PassInv'
<1>1. CASE Ma!Accept(c)
  <2>1. /\ sending'[c] = [stage |-> "accepted", email |-> sending[c].email]
        /\ sending[c].stage # "none"
        /\ \A k \in Ma!Callers \ {c} : sending'[k] = sending[k]
    BY <1>1 DEF Ma!Accept, MailTypes
  <2>2. UNCHANGED <<today, waiting, sweep, log, missed>>
    BY <1>1 DEF Ma!Accept
  <2>3. \A k, o, m : /\ Due(k, o, m)' <=> Due(k, o, m)
                     /\ Done(k, o, m)' <=> Done(k, o, m)
                     /\ Reached(k, m)' <=> Reached(k, m)
    BY <2>2 DEF Due, Done, Reached, Ma!Logged
  <2>4. \A e : Ma!Logged(e) => Ma!Logged(e)'
    BY <2>2 DEF Ma!Logged
  <2>5. Waiting(c)'
    BY <2>1, <2>2 DEF Waiting, PassInv
  <2>6. \A o, m : Trying(c, o, m)' <=> Trying(c, o, m)
    BY <2>1, <2>2 DEF Trying
  <2>7. c \in Sweepers => Paid(c)'
    BY <2>3, <2>6 DEF PassInv, Paid
  <2>8. today <= today' /\ today' \in 0 .. MaxDay
    BY <2>2 DEF MailTypes
  <2> QED
    BY <2>1, <2>2, <2>3, <2>4, <2>5, <2>7, <2>8, OneMoves
<1>2. ASSUME NEW st, st # "SENT", Ma!Returned(c, sending[c].email, st), sending[c].stage # "none",
             UNCHANGED <<today, waiting, sweep, log>>
      PROVE  PassInv'
  <2>1. \A e : Ma!Logged(e) => Ma!Logged(e)'
    BY <1>2 DEF Ma!Logged
  <2>2. missed \subseteq missed' /\ sending' = [sending EXCEPT ![c] = Ma!NoMail]
    BY <1>2 DEF Ma!Returned
  <2>3. ASSUME NEW o, NEW m, c \in Sweepers, sending[c].email = Reminder(o, m)
        PROVE  Done(c, o, m)'
    BY <1>2, <2>3 DEF Ma!Returned, Done, Reminder, Ma!pickup_reminder
  <2> QED
    BY <1>2, <2>1, <2>2, <2>3, MailEnds
<1>3. CASE Ma!Reject(c)
  BY <1>2, <1>3 DEF Ma!Reject
<1>4. CASE Ma!Timeout(c)
  BY <1>2, <1>4 DEF Ma!Timeout
<1>5. CASE Ma!record(c, FALSE)
  BY <1>2, <1>5 DEF Ma!record
<1>6. CASE Ma!record(c, TRUE)
  <2>1. /\ sending[c].stage # "none" /\ UNCHANGED <<today, waiting, sweep>>
        /\ missed' = missed /\ sending' = [sending EXCEPT ![c] = Ma!NoMail]
    BY <1>6 DEF Ma!record, Ma!Returned
  <2>2. DOMAIN log' = DOMAIN log \cup {<<sending[c].email, today>>}
    BY <1>6 DEF Ma!record, Ma!(+), Ma!SetToBag
  <2>3. \A e : Ma!Logged(e) => Ma!Logged(e)'
    BY <2>2, LogGrows
  <2>4. \A e : e = sending[c].email => Ma!Logged(e)'
    <3>1. ASSUME NEW e, e = sending[c].email
          PROVE  \E row \in DOMAIN log' : row[1] = e
      <4>1. PICK row : row = <<e, today>>
        OBVIOUS
      <4>2. row \in DOMAIN log' /\ row[1] = e
        BY <2>2, <3>1, <4>1
      <4> QED
        BY <4>2
    <3> QED
      BY <3>1 DEF Ma!Logged, Ma!BagToSet
  <2>5. ASSUME NEW o, NEW m, c \in Sweepers, sending[c].email = Reminder(o, m)
        PROVE  Done(c, o, m)'
    BY <2>4, <2>5 DEF Done, Ma!Logged
  <2> QED
    BY <2>1, <2>3, <2>5, MailEnds
<1> QED
  BY <1>1, <1>3, <1>4, <1>5, <1>6

(***************************************************************************)
(* A mail handed to the mailer is on its way or over, and then marked if a *)
(* pass asked for it.                                                      *)
(***************************************************************************)
LEMMA MailBegins ==
  ASSUME NEW c, NEW o, NEW template,
         Ma!dispatch(c, o, template) \/ Ma!send(c, <<template, o>>)
  PROVE  \/ /\ sending' = [sending EXCEPT ![c] = [stage |-> "posting", email |-> <<template, o>>]]
            /\ missed' = missed
         \/ /\ sending' = [sending EXCEPT ![c] = Ma!NoMail]
            /\ missed' = IF c \in Sweepers THEN missed \cup {<<c, o, template[2]>>} ELSE missed
<1>1. CASE Ma!send(c, <<template, o>>)
  BY <1>1 DEF Ma!send, Ma!Returned
<1>2. CASE Ma!Returned(c, <<template, o>>, "null")
  BY <1>2 DEF Ma!Returned
<1> QED
  BY <1>1, <1>2 DEF Ma!dispatch

(***************************************************************************)
(* The notices of orders and the welcomes are nobody's reminder, and an    *)
(* order just paid is not due to a pass that began before.                 *)
(***************************************************************************)
LEMMA NoticesKeep ==
  ASSUME MailTypes, PassInv, NEW c \in Slots,
         \/ \E o \in OrderIds :
              Ma!paymentReceived(c, o) \/ Ma!delivered(c, o) \/ Ma!cancelled(c, o)
         \/ \E a \in Addresses : Ma!Welcome(c, a)
  PROVE  PassInv'
<1>1. c \in Ma!Callers /\ c \notin Sweepers
  BY MailAssumption DEF Ma!Callers
<1>2. ASSUME NEW o, NEW template, template[1] # "pickup_reminder",
             Ma!dispatch(c, o, template) \/ Ma!send(c, <<template, o>>),
             UNCHANGED <<today, log, sweep>>,
             \A k \in Sweepers, q \in PickupOrders, j \in 1 .. Len(PICKUP_REMINDER_DAYS) :
               Due(k, q, PICKUP_REMINDER_DAYS[j])' => Due(k, q, PICKUP_REMINDER_DAYS[j])
      PROVE  PassInv'
  <2>1. /\ missed' = missed
        /\ \/ sending' = [sending EXCEPT ![c] = [stage |-> "posting", email |-> <<template, o>>]]
           \/ sending' = [sending EXCEPT ![c] = Ma!NoMail]
    BY <1>1, <1>2, MailBegins
  <2>2. /\ \/ sending'[c] = [stage |-> "posting", email |-> <<template, o>>]
           \/ sending'[c] = Ma!NoMail
        /\ \A k \in Ma!Callers \ {c} : sending'[k] = sending[k]
    BY <1>1, <2>1 DEF MailTypes
  <2>3. Waiting(c)'
    BY <1>1, <1>2, <2>2 DEF Waiting, Ma!NoMail
  <2>4. \A e : Ma!Logged(e) => Ma!Logged(e)'
    BY <1>2 DEF Ma!Logged
  <2>5. today <= today' /\ today' \in 0 .. MaxDay
    BY <1>2 DEF MailTypes
  <2> QED
    BY <1>1, <1>2, <2>1, <2>2, <2>3, <2>4, <2>5, OneMoves
<1>3. ASSUME NEW k \in Sweepers PROVE sweep[k].now \in Int /\ sweep[k].now <= today
  <2>1. Waiting(k) /\ sweep[k] \in Pass
    BY DEF PassInv, Ma!Callers, MailTypes
  <2> QED
    BY <2>1 DEF Waiting, Pass
<1>4. ASSUME NEW o \in OrderIds, Ma!paymentReceived(c, o) PROVE PassInv'
  <2>1. ASSUME NEW k \in Sweepers, NEW q \in PickupOrders,
               NEW j \in 1 .. Len(PICKUP_REMINDER_DAYS),
               Due(k, q, PICKUP_REMINDER_DAYS[j])'
        PROVE  Due(k, q, PICKUP_REMINDER_DAYS[j])
    <3>1. q \in OrderIds /\ sweep' = sweep
      BY <1>4, MailAssumption DEF Ma!paymentReceived, Ma!Notice
    <3>2. CASE q = o
      <4>1. waiting'[q].paidAt = today
        BY <1>4, <3>1, <3>2 DEF Ma!paymentReceived, MailTypes, Ma!Order
      <4>2. sweep[k].now - today >= 1
        BY <2>1, <3>1, <4>1, MilestonesPositive, MailAssumption DEF Due
      <4> QED
        BY <1>3, <4>2 DEF MailTypes
    <3>3. CASE q # o
      <4>1. waiting'[q] = waiting[q]
        BY <1>4, <3>1, <3>3 DEF Ma!paymentReceived, MailTypes
      <4> QED
        BY <2>1, <3>1, <4>1 DEF Due
    <3> QED
      BY <3>2, <3>3
  <2>2. PICK t : t = <<"payment_received", 0>>
    OBVIOUS
  <2>3. t[1] # "pickup_reminder" /\ Ma!dispatch(c, o, t) /\ UNCHANGED <<today, log, sweep>>
    BY <1>4, <2>2 DEF Ma!paymentReceived, Ma!Notice
  <2> QED
    BY <1>2, <2>1, <2>3
<1>5. ASSUME NEW o \in OrderIds, Ma!delivered(c, o) \/ Ma!cancelled(c, o) PROVE PassInv'
  <2>1. ASSUME NEW k \in Sweepers, NEW q \in PickupOrders,
               NEW j \in 1 .. Len(PICKUP_REMINDER_DAYS),
               Due(k, q, PICKUP_REMINDER_DAYS[j])'
        PROVE  Due(k, q, PICKUP_REMINDER_DAYS[j])
    <3>1. q \in OrderIds /\ sweep' = sweep
      BY <1>5, MailAssumption DEF Ma!delivered, Ma!cancelled, Ma!Notice
    <3>2. q = o => waiting'[q].status # "confirmed"
      BY <1>5, <3>1 DEF Ma!delivered, Ma!cancelled, MailTypes, Ma!Order
    <3>3. q # o => waiting'[q] = waiting[q]
      BY <1>5, <3>1 DEF Ma!delivered, Ma!cancelled, MailTypes
    <3> QED
      BY <2>1, <3>1, <3>2, <3>3 DEF Due
  <2>2. PICK t : t \in {<<"order_delivered", 0>>, <<"order_cancelled", 0>>} /\ Ma!dispatch(c, o, t)
    BY <1>5 DEF Ma!delivered, Ma!cancelled, Ma!Notice
  <2>3. t[1] # "pickup_reminder" /\ UNCHANGED <<today, log, sweep>>
    BY <1>5, <2>2 DEF Ma!delivered, Ma!cancelled, Ma!Notice
  <2> QED
    BY <1>2, <2>1, <2>2, <2>3
<1>6. ASSUME NEW a \in Addresses, Ma!Welcome(c, a) PROVE PassInv'
  <2>1. \A k, q, m : Due(k, q, m)' <=> Due(k, q, m)
    BY <1>6 DEF Due, Ma!Welcome
  <2>2. Ma!welcome[1] # "pickup_reminder"
    BY DEF Ma!welcome
  <2> QED
    BY <1>2, <1>6, <2>1, <2>2 DEF Ma!Welcome
<1> QED
  BY <1>4, <1>5, <1>6

(***************************************************************************)
(* A pass begins, asks, reminds and goes on to the next milestone.         *)
(***************************************************************************)
LEMMA PassesKeep ==
  ASSUME MailTypes, PassInv, NEW s \in Sweepers,
         Ma!Sweep(s) \/ Ma!Query(s) \/ Ma!Remind(s) \/ Ma!NextMilestone(s)
  PROVE  PassInv'
<1>1. s \in Ma!Callers /\ Waiting(s) /\ Paid(s) /\ sweep[s] \in Pass
  BY DEF Ma!Callers, PassInv, MailTypes
<1>2. UNCHANGED <<today, waiting, log>>
  BY DEF Ma!Sweep, Ma!Query, Ma!Remind, Ma!NextMilestone
<1>3. \A e : Ma!Logged(e) <=> Ma!Logged(e)'
  BY <1>2 DEF Ma!Logged
<1>4. today <= today' /\ today' \in 0 .. MaxDay
  BY <1>2 DEF MailTypes
<1>5. ASSUME \A k \in Sweepers \ {s} : sweep'[k] = sweep[k],
             \A k \in Ma!Callers \ {s} : sending'[k] = sending[k],
             \A k \in Ma!Callers \ {s} : \A o, m : <<k, o, m>> \in missed
                                                     => <<k, o, m>> \in missed',
             Waiting(s)', Paid(s)'
      PROVE  PassInv'
  <2>1. \A k \in Sweepers \ {s} : \A o, m : Due(k, o, m)' <=> Due(k, o, m)
    BY <1>2, <1>5 DEF Due
  <2> QED
    BY <1>1, <1>3, <1>4, <1>5, <2>1, OneMoves
<1>6. CASE Ma!Sweep(s)
  <2>1. sweep'[s] = [pc |-> "query", now |-> today, milestone |-> 1, candidates |-> {}]
    BY <1>6 DEF Ma!Sweep, MailTypes
  <2>2. sending' = sending /\ sending[s].stage = "none"
    BY <1>1, <1>6 DEF Ma!Sweep, Waiting
  <2>3. Waiting(s)'
    BY <1>2, <1>1, <2>1, <2>2, MilestonesPositive, MailAssumption DEF Waiting, MailTypes
  <2>4. Paid(s)'
    BY <2>1 DEF Paid, Reached
  <2>5. \A k \in Ma!Callers \ {s} : \A o, m : <<k, o, m>> \in missed => <<k, o, m>> \in missed'
    BY <1>6 DEF Ma!Sweep
  <2>6. \A k \in Sweepers \ {s} : sweep'[k] = sweep[k]
    BY <1>6 DEF Ma!Sweep, MailTypes
  <2> QED
    BY <1>5, <2>2, <2>3, <2>4, <2>5, <2>6
<1>7. CASE Ma!Query(s)
  <2> DEFINE i == sweep[s].milestone
  <2>1. i \in 1 .. Len(PICKUP_REMINDER_DAYS)
    BY <1>1, <1>7 DEF Ma!Query, Waiting
  <2>2. /\ sweep'[s].pc = "loop" /\ sweep'[s].now = sweep[s].now /\ sweep'[s].milestone = i
        /\ sweep'[s].candidates = Ma!Candidates(sweep[s].now, PICKUP_REMINDER_DAYS[i])
    BY <1>1, <1>7 DEF Ma!Query, MailTypes, Pass
  <2>3. sending' = sending /\ sending[s].stage = "none" /\ missed' = missed
    BY <1>1, <1>7 DEF Ma!Query, Waiting
  <2>4. Waiting(s)'
    BY <1>1, <1>2, <2>1, <2>2, <2>3, MailAssumption DEF Waiting
  <2>5. Paid(s)'
    <3> SUFFICES ASSUME NEW j \in 1 .. Len(PICKUP_REMINDER_DAYS), NEW o \in PickupOrders,
                        NEW m, m = PICKUP_REMINDER_DAYS[j],
                        Reached(s, j)', Due(s, o, m)'
                 PROVE  Done(s, o, m)' \/ Trying(s, o, m)'
      BY DEF Paid
    <3>1. Due(s, o, m)
      BY <1>2, <2>2 DEF Due
    <3>2. CASE j < i
      <4>1. Reached(s, j)
        BY <1>7, <3>2 DEF Reached, Ma!Query
      <4>2. Done(s, o, m) \/ Trying(s, o, m)
        BY <1>1, <3>1, <4>1 DEF Paid
      <4>3. ~ Trying(s, o, m)
        BY <1>7 DEF Trying, Ma!Query
      <4> QED
        BY <1>3, <2>3, <4>2, <4>3 DEF Done
    <3>3. CASE j = i
      <4>1. sweep[s].now \in Int /\ waiting[o].paidAt \in Int /\ m \in Int
        BY <1>1, MilestonesPositive, MailAssumption DEF Pass, MailTypes, Ma!Order
      <4>2. waiting[o].paidAt <= sweep[s].now - m
            /\ waiting[o].paidAt > sweep[s].now - PICKUP_CUSTODY_DAYS
        <5>1. PICK hour \in Int, paidAt \in Int, custody \in Int :
                /\ hour = sweep[s].now /\ paidAt = waiting[o].paidAt
                /\ custody = PICKUP_CUSTODY_DAYS
          BY <4>1, MailAssumption
        <5>2. hour - paidAt \in m .. custody - 1
          BY <3>1, <5>1, Zenon DEF Due
        <5>3. paidAt <= hour - m /\ paidAt > hour - custody
          BY <4>1, <5>1, <5>2
        <5> QED
          BY <5>1, <5>3, Zenon
      <4>3. Ma!Logged(Reminder(o, m)) \/ o \in Ma!Candidates(sweep[s].now, m)
        BY <3>1, <4>2 DEF Due, Ma!Candidates, Reminder
      <4>4. Ma!Logged(Reminder(o, m)) => Done(s, o, m)'
        BY <1>3 DEF Done
      <4>5. o \in Ma!Candidates(sweep[s].now, m) => Trying(s, o, m)'
        BY <2>2, <3>3 DEF Trying
      <4> QED
        BY <4>3, <4>4, <4>5
    <3>4. j < i \/ j = i
      BY <2>1, <2>2 DEF Reached
    <3> QED
      BY <3>2, <3>3, <3>4
  <2>6. \A k \in Sweepers \ {s} : sweep'[k] = sweep[k]
    BY <1>7 DEF Ma!Query, MailTypes
  <2> QED
    BY <1>5, <2>3, <2>4, <2>5, <2>6
<1>8. CASE Ma!Remind(s)
  <2> DEFINE i == sweep[s].milestone
             n == PICKUP_REMINDER_DAYS[i]
  <2>1. PICK q \in sweep[s].candidates :
          /\ sweep' = [sweep EXCEPT ![s].candidates = @ \ {q}]
          /\ Ma!dispatch(s, q, Ma!pickup_reminder(n))
    BY <1>8 DEF Ma!Remind
  <2>2. /\ sweep'[s].pc = "loop" /\ sweep'[s].now = sweep[s].now /\ sweep'[s].milestone = i
        /\ sweep'[s].candidates = sweep[s].candidates \ {q} /\ sweep[s].pc = "loop"
        /\ sending[s].stage = "none" /\ q \in OrderIds
    BY <1>1, <1>8, <2>1 DEF Ma!Remind, MailTypes, Pass
  <2>3. \/ /\ sending' = [sending EXCEPT ![s] = [stage |-> "posting", email |-> Reminder(q, n)]]
           /\ missed' = missed
        \/ /\ sending' = [sending EXCEPT ![s] = Ma!NoMail]
           /\ missed' = missed \cup {<<s, q, Ma!pickup_reminder(n)[2]>>}
    BY <2>1, MailBegins DEF Reminder
  <2>4. /\ \/ sending'[s] = [stage |-> "posting", email |-> Reminder(q, n)]
           \/ sending'[s] = Ma!NoMail /\ <<s, q, n>> \in missed'
        /\ missed \subseteq missed'
        /\ \A k \in Ma!Callers \ {s} : sending'[k] = sending[k]
    BY <1>1, <2>3 DEF MailTypes, Ma!pickup_reminder
  <2>5. Waiting(s)'
    BY <1>1, <1>2, <2>2, <2>4, MailAssumption DEF Waiting, Ma!NoMail
  <2>6. Paid(s)'
    <3> SUFFICES ASSUME NEW j \in 1 .. Len(PICKUP_REMINDER_DAYS), NEW o \in PickupOrders,
                        NEW m, m = PICKUP_REMINDER_DAYS[j],
                        Reached(s, j)', Due(s, o, m)'
                 PROVE  Done(s, o, m)' \/ Trying(s, o, m)'
      BY DEF Paid
    <3>1. Due(s, o, m) /\ Reached(s, j)
      BY <1>2, <2>2 DEF Due, Reached
    <3>2. CASE Done(s, o, m)
      BY <1>3, <2>4, <3>2 DEF Done
    <3>3. CASE Trying(s, o, m)
      <4>1. m = n /\ o \in sweep[s].candidates
        BY <2>2, <3>3 DEF Trying
      <4>2. CASE o = q /\ sending'[s] = [stage |-> "posting", email |-> Reminder(q, n)]
        BY <2>2, <4>1, <4>2 DEF Trying
      <4>3. CASE o = q /\ <<s, q, n>> \in missed'
        BY <4>1, <4>3 DEF Done
      <4>4. CASE o # q
        BY <2>2, <4>1, <4>4 DEF Trying
      <4> QED
        BY <2>4, <4>2, <4>3, <4>4
    <3> QED
      BY <1>1, <3>1, <3>2, <3>3 DEF Paid
  <2>7. \A k \in Sweepers \ {s} : sweep'[k] = sweep[k]
    BY <2>1 DEF MailTypes
  <2> QED
    BY <1>5, <2>4, <2>5, <2>6, <2>7
<1>9. CASE Ma!NextMilestone(s)
  <2> DEFINE i == sweep[s].milestone
  <2>1. i \in 1 .. Len(PICKUP_REMINDER_DAYS)
    BY <1>1, <1>9 DEF Ma!NextMilestone, Waiting
  <2>2. /\ sweep'[s].pc = IF i = Len(PICKUP_REMINDER_DAYS) THEN "done" ELSE "query"
        /\ sweep'[s].now = sweep[s].now /\ sweep'[s].milestone = i + 1
        /\ sweep[s].pc = "loop" /\ sending[s].stage = "none" /\ sweep[s].candidates = {}
    BY <1>1, <1>9 DEF Ma!NextMilestone, MailTypes, Pass
  <2>3. sending' = sending /\ missed' = missed
    BY <1>9 DEF Ma!NextMilestone
  <2>4. Waiting(s)'
    BY <1>1, <1>2, <2>1, <2>2, <2>3, MilestonesPositive, MailAssumption DEF Waiting
  <2>5. Paid(s)'
    <3> SUFFICES ASSUME NEW j \in 1 .. Len(PICKUP_REMINDER_DAYS), NEW o \in PickupOrders,
                        NEW m, m = PICKUP_REMINDER_DAYS[j],
                        Reached(s, j)', Due(s, o, m)'
                 PROVE  Done(s, o, m)' \/ Trying(s, o, m)'
      BY DEF Paid
    <3>1. Due(s, o, m)
      BY <1>2, <2>2 DEF Due
    <3>2. Reached(s, j)
      BY <2>1, <2>2 DEF Reached
    <3>3. Done(s, o, m) \/ Trying(s, o, m)
      BY <1>1, <3>1, <3>2 DEF Paid
    <3>4. ~ Trying(s, o, m)
      BY <2>2 DEF Trying
    <3> QED
      BY <1>3, <2>3, <3>3, <3>4 DEF Done
  <2>6. \A k \in Sweepers \ {s} : sweep'[k] = sweep[k]
    BY <1>9 DEF Ma!NextMilestone, MailTypes
  <2> QED
    BY <1>5, <2>3, <2>4, <2>5, <2>6
<1> QED
  BY <1>6, <1>7, <1>8, <1>9

(***************************************************************************)
(* A new day, and a new deployment.                                        *)
(***************************************************************************)
LEMMA WorldKeeps ==
  ASSUME MailTypes, PassInv, Ma!Tick \/ \E c \in BOOLEAN : Ma!Restart(c)
  PROVE  PassInv'
<1>1. CASE Ma!Tick
  <2>1. /\ UNCHANGED <<waiting, log, sweep, sending, missed>>
        /\ today <= today' /\ today' \in 0 .. MaxDay
    BY <1>1, MailAssumption DEF Ma!Tick, MailTypes
  <2>2. \A e : Ma!Logged(e) => Ma!Logged(e)'
    BY <2>1 DEF Ma!Logged
  <2>3. \A k, o, m : Due(k, o, m)' <=> Due(k, o, m)
    BY <2>1 DEF Due
  <2>4. ASSUME NEW c \in Ma!Callers PROVE Waiting(c)' /\ (c \in Sweepers => Paid(c)')
    BY <2>1, <2>2, <2>3, OthersStay
  <2> QED
    BY <2>4 DEF PassInv, Ma!Callers
<1>2. ASSUME NEW b \in BOOLEAN, Ma!Restart(b) PROVE PassInv'
  <2>1. /\ \A s \in Sweepers : sweep'[s] = Ma!NoPass
        /\ \A c \in Ma!Callers : sending'[c] = Ma!NoMail
        /\ today' \in 0 .. MaxDay
    BY <1>2 DEF Ma!Restart, MailTypes
  <2>2. ASSUME NEW c \in Ma!Callers PROVE Waiting(c)'
    BY <2>1, MailAssumption DEF Waiting, Ma!NoPass, Ma!NoMail
  <2>3. ASSUME NEW s \in Sweepers PROVE Paid(s)'
    BY <2>1 DEF Paid, Reached, Ma!NoPass
  <2> QED
    BY <2>2, <2>3 DEF PassInv
<1> QED
  BY <1>1, <1>2

(* The passes that wait for the answer to a mail the provider has taken. *)
AcceptedBy(e) == {s \in Sweepers : sending[s].stage = "accepted" /\ sending[s].email = e}

TryingTo(o, m) == {s \in Sweepers : Trying(s, o, m)}

(***************************************************************************)
(* Of c copies u left no row and those of A have none yet: the others have *)
(* one, and there are no more of these, with the passes that may still     *)
(* send one, than passes.                                                  *)
(***************************************************************************)
Tally(c, u, A, T) ==
  /\ c \in Nat /\ u \in Nat
  /\ u + Cardinality(A) <= c
  /\ c + Cardinality(T) <= Cardinality(Sweepers) + u + Cardinality(A)

NoneLogged(c, u, A) == c = u + Cardinality(A)

Tallied(o, m) ==
  LET e == Reminder(o, m)
      c == Ma!CopiesOf(e, copies)
      u == Ma!CopiesOf(e, unheard)
  IN  /\ Tally(c, u, AcceptedBy(e), TryingTo(o, m))
      /\ NoneLogged(c, u, AcceptedBy(e)) \/ Ma!Logged(e)

(***************************************************************************)
(* Sets of passes are finite and no larger than all of them.               *)
(***************************************************************************)
LEMMA PassesCount ==
  ASSUME NEW T \in SUBSET Sweepers
  PROVE  /\ IsFiniteSet(T) /\ Cardinality(T) \in Nat /\ Cardinality(Sweepers) \in Nat
         /\ Cardinality(T) <= Cardinality(Sweepers)
         /\ \A S \in SUBSET T : Cardinality(S) \in Nat /\ Cardinality(S) <= Cardinality(T)
         /\ \A s \in T : Cardinality(T \ {s}) = Cardinality(T) - 1
         /\ \A s \in Sweepers \ T : Cardinality(T \cup {s}) = Cardinality(T) + 1
BY MailAssumption, FS_Subset, FS_CardinalityType, FS_AddElement, FS_RemoveElement

(***************************************************************************)
(* How the tally of a reminder moves: nothing is added, a mail is taken by *)
(* the provider, its row saved, its answer lost, a pass asks the log, the  *)
(* server restarts.                                                        *)
(***************************************************************************)
LEMMA TallyMoves ==
  ASSUME NEW A \in SUBSET Sweepers, NEW T \in SUBSET Sweepers, NEW U \in SUBSET Sweepers,
         A \subseteq T, NEW c, NEW u, Tally(c, u, A, T)
  PROVE  /\ U \subseteq T => Tally(c, u, A, U)
         /\ \A s \in Sweepers \ A :
              /\ Tally(c + 1, u, A \cup {s}, T)
              /\ NoneLogged(c, u, A) => NoneLogged(c + 1, u, A \cup {s})
         /\ \A s \in A : U \subseteq T \ {s} => Tally(c, u, A \ {s}, U)
         /\ \A s \in A : U \subseteq T =>
              /\ Tally(c, u + 1, A \ {s}, U)
              /\ NoneLogged(c, u, A) => NoneLogged(c, u + 1, A \ {s})
         /\ NoneLogged(c, u, A) => Tally(c, u, A, U)
         /\ Tally(c, u + Cardinality(A), {}, {})
         /\ NoneLogged(c, u, A) => NoneLogged(c, u + Cardinality(A), {})
<1>1. Cardinality({}) = 0
  BY FS_EmptySet
<1>2. U \subseteq T => Cardinality(U) <= Cardinality(T)
  BY PassesCount
<1>3. \A s \in T : U \subseteq T \ {s} => Cardinality(U) <= Cardinality(T) - 1
  <2> SUFFICES ASSUME NEW s \in T, U \subseteq T \ {s}
               PROVE  Cardinality(U) <= Cardinality(T) - 1
    OBVIOUS
  <2>1. T \ {s} \in SUBSET Sweepers
    OBVIOUS
  <2>2. Cardinality(U) <= Cardinality(T \ {s})
    BY <2>1, PassesCount
  <2> QED
    BY <2>2, PassesCount
<1>4. /\ Cardinality(A) \in Nat /\ Cardinality(T) \in Nat /\ Cardinality(U) \in Nat
      /\ Cardinality(Sweepers) \in Nat
      /\ Cardinality(T) <= Cardinality(Sweepers) /\ Cardinality(U) <= Cardinality(Sweepers)
      /\ Cardinality(A) <= Cardinality(T)
  BY PassesCount
<1>5. \A s \in A : Cardinality(A \ {s}) = Cardinality(A) - 1 /\ s \in T
  BY PassesCount
<1>6. \A s \in Sweepers \ A : Cardinality(A \cup {s}) = Cardinality(A) + 1
  BY PassesCount
<1>7. U \subseteq T => Tally(c, u, A, U)
  BY <1>2, <1>4 DEF Tally
<1>8. \A s \in Sweepers \ A :
        /\ Tally(c + 1, u, A \cup {s}, T)
        /\ NoneLogged(c, u, A) => NoneLogged(c + 1, u, A \cup {s})
  BY <1>4, <1>6 DEF Tally, NoneLogged
<1>9. \A s \in A : U \subseteq T \ {s} => Tally(c, u, A \ {s}, U)
  BY <1>3, <1>4, <1>5 DEF Tally
<1>10. \A s \in A : U \subseteq T =>
         /\ Tally(c, u + 1, A \ {s}, U)
         /\ NoneLogged(c, u, A) => NoneLogged(c, u + 1, A \ {s})
  BY <1>2, <1>4, <1>5 DEF Tally, NoneLogged
<1>11. NoneLogged(c, u, A) => Tally(c, u, A, U)
  BY <1>4 DEF Tally, NoneLogged
<1>12. /\ Tally(c, u + Cardinality(A), {}, {})
       /\ NoneLogged(c, u, A) => NoneLogged(c, u + Cardinality(A), {})
  BY <1>1, <1>4 DEF Tally, NoneLogged
<1> QED
  BY <1>7, <1>8, <1>9, <1>10, <1>11, <1>12

(* A bag with one more copy of x. *)
Added(b, x) ==
  [e \in DOMAIN b \cup {x} |->
     (IF e \in DOMAIN b THEN b[e] ELSE 0) + (IF e \in {x} THEN 1 ELSE 0)]

(***************************************************************************)
(* One more copy counts once, and only for its own mail.                   *)
(***************************************************************************)
LEMMA OneMoreCopy ==
  ASSUME NEW b, b \in [DOMAIN b -> Nat], NEW x
  PROVE  /\ Added(b, x) \in [DOMAIN Added(b, x) -> Nat]
         /\ \A e : /\ Ma!CopiesOf(e, b) \in Nat
                   /\ Ma!CopiesOf(e, Added(b, x)) =
                        IF e = x THEN Ma!CopiesOf(e, b) + 1 ELSE Ma!CopiesOf(e, b)
<1>1. DOMAIN Added(b, x) = DOMAIN b \cup {x}
  BY DEF Added
<1>2. Added(b, x) \in [DOMAIN Added(b, x) -> Nat]
  BY DEF Added
<1>3. ASSUME NEW e
      PROVE  /\ Ma!CopiesOf(e, b) \in Nat
             /\ Ma!CopiesOf(e, Added(b, x)) =
                  IF e = x THEN Ma!CopiesOf(e, b) + 1 ELSE Ma!CopiesOf(e, b)
  <2>1. Ma!CopiesOf(e, b) = IF e \in DOMAIN b THEN b[e] ELSE 0
    BY DEF Ma!CopiesOf, Ma!BagIn, Ma!BagToSet
  <2>2. Ma!CopiesOf(e, Added(b, x)) =
          IF e \in DOMAIN b \cup {x} THEN Added(b, x)[e] ELSE 0
    BY <1>1 DEF Ma!CopiesOf, Ma!BagIn, Ma!BagToSet
  <2>3. e \in DOMAIN b \cup {x} =>
          Added(b, x)[e] = (IF e \in DOMAIN b THEN b[e] ELSE 0) + (IF e = x THEN 1 ELSE 0)
    BY DEF Added
  <2> QED
    BY <2>1, <2>2, <2>3
<1> QED
  BY <1>2, <1>3

(***************************************************************************)
(* Where a mail in flight stands, seen from one reminder.                  *)
(***************************************************************************)
LEMMA InFlight ==
  ASSUME MailTypes, PassInv, NEW c \in Ma!Callers, sending[c].stage # "none",
         NEW o, NEW m
  PROVE  /\ AcceptedBy(Reminder(o, m)) \subseteq TryingTo(o, m)
         /\ sending[c].email = Reminder(o, m) =>
              c \in Sweepers /\ c \in TryingTo(o, m) /\ o \notin sweep[c].candidates
<1>1. ASSUME NEW k \in Ma!Callers, sending[k].stage # "none", sending[k].email = Reminder(o, m)
      PROVE  k \in Sweepers /\ k \in TryingTo(o, m) /\ o \notin sweep[k].candidates
  <2>1. Waiting(k)
    BY DEF PassInv
  <2>2. k \in Sweepers
    BY <1>1, <2>1 DEF Waiting, Ma!Callers, Reminder, Ma!pickup_reminder
  <2>3. PICK q \in OrderIds \ sweep[k].candidates :
          sending[k].email = Reminder(q, PICKUP_REMINDER_DAYS[sweep[k].milestone])
    BY <1>1, <2>1, <2>2 DEF Waiting
  <2>4. q = o /\ m = PICKUP_REMINDER_DAYS[sweep[k].milestone]
    BY <1>1, <2>3 DEF Reminder, Ma!pickup_reminder
  <2>5. sweep[k].pc = "loop"
    BY <1>1, <2>1, <2>2 DEF Waiting
  <2> QED
    BY <1>1, <2>2, <2>3, <2>4, <2>5 DEF TryingTo, Trying
<1> QED
  BY <1>1 DEF AcceptedBy, Ma!Callers

(***************************************************************************)
(* The mails in flight keep every tally.                                   *)
(***************************************************************************)
LEMMA FlightTallied ==
  ASSUME MailTypes, PassInv, NEW c \in Ma!Callers, NEW o, NEW m, Tallied(o, m),
         \/ Ma!Accept(c) \/ Ma!Reject(c) \/ Ma!Timeout(c)
         \/ \E saved \in BOOLEAN : Ma!record(c, saved)
  PROVE  Tallied(o, m)'
<1> DEFINE e == Reminder(o, m)
           x == sending[c].email
<1>1. sending[c].stage # "none" /\ sweep' = sweep
  BY DEF Ma!Accept, Ma!Reject, Ma!Timeout, Ma!record
<1>2. /\ AcceptedBy(e) \subseteq TryingTo(o, m)
      /\ x = e => c \in Sweepers /\ c \in TryingTo(o, m) /\ o \notin sweep[c].candidates
  BY <1>1, InFlight
<1>3. AcceptedBy(e) \in SUBSET Sweepers /\ TryingTo(o, m) \in SUBSET Sweepers
      /\ TryingTo(o, m)' \in SUBSET Sweepers
  BY DEF AcceptedBy, TryingTo
<1> DEFINE a == AcceptedBy(e)
           t == TryingTo(o, m)
           n == Ma!CopiesOf(e, copies)
           u == Ma!CopiesOf(e, unheard)
<1>4. Tally(n, u, a, t) /\ (NoneLogged(n, u, a) \/ Ma!Logged(e))
  BY DEF Tallied
<1>5. CASE Ma!Accept(c)
  <2>1. /\ sending'[c] = [stage |-> "accepted", email |-> x]
        /\ \A k \in Ma!Callers \ {c} : sending'[k] = sending[k]
        /\ sending[c].stage = "posting"
    BY <1>5 DEF Ma!Accept, MailTypes
  <2>2. UNCHANGED <<unheard, log>>
    BY <1>5 DEF Ma!Accept
  <2>3. copies' = Added(copies, x)
    BY <1>5 DEF Ma!Accept, Ma!(+), Ma!SetToBag, Added
  <2>4. u' = u /\ n' = IF e = x THEN n + 1 ELSE n
    BY <2>2, <2>3, OneMoreCopy DEF MailTypes
  <2>5. Ma!Logged(e)' <=> Ma!Logged(e)
    BY <2>2 DEF Ma!Logged
  <2>6. t' = t
    BY <1>1, <2>1 DEF TryingTo, Trying, Ma!Callers
  <2>7. CASE x = e
    <3>1. a' = a \cup {c} /\ c \in Sweepers \ a
      BY <1>2, <2>1, <2>7 DEF AcceptedBy, Ma!Callers
    <3> HIDE DEF a, t, n, u
    <3>2. Tally(n + 1, u, a \cup {c}, t) /\ (NoneLogged(n, u, a) => NoneLogged(n + 1, u, a \cup {c}))
      BY <1>2, <1>3, <1>4, <3>1, TallyMoves DEF a, t
    <3>3. Tally(n', u', a', t') /\ (NoneLogged(n, u, a) => NoneLogged(n', u', a'))
      BY <2>4, <2>6, <2>7, <3>1, <3>2
    <3> QED
      BY <1>4, <2>5, <3>3 DEF Tallied, a, t, n, u
  <2>8. CASE x # e
    <3>1. a' = a
      BY <2>1, <2>8 DEF AcceptedBy, Ma!Callers
    <3> QED
      BY <1>4, <2>4, <2>5, <2>6, <2>8, <3>1 DEF Tallied
  <2> QED
    BY <2>7, <2>8
<1>6. ASSUME sending' = [sending EXCEPT ![c] = Ma!NoMail]
      PROVE  /\ a' = a \ {c} /\ t' \subseteq t
             /\ x = e => c \notin t'
             /\ x # e \/ sending[c].stage # "accepted" => a' = a
  <2>1. sending'[c] = Ma!NoMail /\ \A k \in Ma!Callers \ {c} : sending'[k] = sending[k]
    BY <1>6 DEF MailTypes
  <2>2. a' = a \ {c}
    BY <2>1 DEF AcceptedBy, Ma!Callers, Ma!NoMail
  <2>3. t' \subseteq t /\ (x = e => c \notin t')
    BY <1>1, <1>2, <2>1 DEF TryingTo, Trying, Ma!Callers, Ma!NoMail
  <2>4. x # e \/ sending[c].stage # "accepted" => c \notin a
    BY DEF AcceptedBy
  <2> QED
    BY <2>2, <2>3, <2>4
<1>7. CASE Ma!Reject(c)
  <2>1. /\ UNCHANGED <<copies, unheard, log>> /\ sending' = [sending EXCEPT ![c] = Ma!NoMail]
        /\ sending[c].stage # "accepted"
    BY <1>7 DEF Ma!Reject, Ma!Returned
  <2>2. a' = a /\ t' \subseteq t /\ n' = n /\ u' = u /\ (Ma!Logged(e)' <=> Ma!Logged(e))
    BY <1>6, <2>1 DEF Ma!Logged
  <2> HIDE DEF a, t, n, u
  <2>3. Tally(n, u, a, t')
    BY <1>2, <1>3, <1>4, <2>2, TallyMoves DEF a, t
  <2> QED
    BY <1>4, <2>2, <2>3 DEF Tallied, a, t, n, u
<1>8. CASE Ma!Timeout(c) \/ Ma!record(c, FALSE)
  <2>1. /\ UNCHANGED <<copies, log>> /\ sending' = [sending EXCEPT ![c] = Ma!NoMail]
        /\ sending[c].stage = "accepted"
    BY <1>8 DEF Ma!Timeout, Ma!record, Ma!Returned
  <2>2. unheard' = Added(unheard, x)
    BY <1>8 DEF Ma!Timeout, Ma!record, Ma!(+), Ma!SetToBag, Added
  <2>3. n' = n /\ u' = (IF e = x THEN u + 1 ELSE u) /\ (Ma!Logged(e)' <=> Ma!Logged(e))
    BY <2>1, <2>2, OneMoreCopy DEF MailTypes, Ma!Logged
  <2>4. a' = a \ {c} /\ t' \subseteq t /\ (x # e => a' = a)
    BY <1>6, <2>1
  <2>5. x = e => c \in a
    BY <1>2, <2>1 DEF AcceptedBy
  <2> HIDE DEF a, t, n, u
  <2>6. CASE x = e
    <3>1. Tally(n, u + 1, a \ {c}, t') /\ (NoneLogged(n, u, a) => NoneLogged(n, u + 1, a \ {c}))
      BY <1>2, <1>3, <1>4, <2>4, <2>5, <2>6, TallyMoves DEF a, t
    <3> QED
      BY <1>4, <2>3, <2>4, <2>6, <3>1 DEF Tallied, a, t, n, u
  <2>7. CASE x # e
    <3>1. Tally(n, u, a, t')
      BY <1>2, <1>3, <1>4, <2>4, TallyMoves DEF a, t
    <3> QED
      BY <1>4, <2>3, <2>4, <2>7, <3>1 DEF Tallied, a, t, n, u
  <2> QED
    BY <2>6, <2>7
<1>9. CASE Ma!record(c, TRUE)
  <2>1. /\ UNCHANGED <<copies, unheard>> /\ sending' = [sending EXCEPT ![c] = Ma!NoMail]
        /\ sending[c].stage = "accepted"
    BY <1>9 DEF Ma!record, Ma!Returned
  <2>2. DOMAIN log' = DOMAIN log \cup {<<x, today>>}
    BY <1>9 DEF Ma!record, Ma!(+), Ma!SetToBag
  <2>3. n' = n /\ u' = u /\ (Ma!Logged(e) => Ma!Logged(e)')
    BY <2>1, <2>2 DEF Ma!Logged, Ma!BagToSet
  <2>4. ASSUME x = e PROVE Ma!Logged(e)'
    <3>1. PICK row : row = <<x, today>>
      OBVIOUS
    <3>2. row \in DOMAIN log' /\ row[1] = e
      BY <2>2, <2>4, <3>1
    <3> QED
      BY <3>2 DEF Ma!Logged, Ma!BagToSet
  <2>5. a' = a \ {c} /\ t' \subseteq t /\ (x # e => a' = a) /\ (x = e => c \notin t')
    BY <1>6, <2>1
  <2>6. x = e => c \in a
    BY <1>2, <2>1 DEF AcceptedBy
  <2> HIDE DEF a, t, n, u
  <2>7. CASE x = e
    <3>1. t' \subseteq t \ {c} /\ c \in a
      BY <2>5, <2>6, <2>7
    <3>2. /\ a \in SUBSET Sweepers /\ t \in SUBSET Sweepers /\ t' \in SUBSET Sweepers
          /\ a \subseteq t
      BY <1>2, <1>3 DEF a, t
    <3>3. Tally(n, u, a \ {c}, t')
      BY <1>4, <3>1, <3>2, TallyMoves
    <3> QED
      BY <2>3, <2>4, <2>5, <2>7, <3>3 DEF Tallied, a, t, n, u
  <2>8. CASE x # e
    <3>1. Tally(n, u, a, t')
      BY <1>2, <1>3, <1>4, <2>5, TallyMoves DEF a, t
    <3> QED
      BY <1>4, <2>3, <2>5, <2>8, <3>1 DEF Tallied, a, t, n, u
  <2> QED
    BY <2>7, <2>8
<1> QED
  BY <1>5, <1>7, <1>8, <1>9

(***************************************************************************)
(* A pass asks the log before it takes an order on, and sends to each of   *)
(* its list once.                                                          *)
(***************************************************************************)
LEMMA PassesTallied ==
  ASSUME MailTypes, PassInv, NEW s \in Sweepers, NEW o, NEW m, Tallied(o, m),
         Ma!Sweep(s) \/ Ma!Query(s) \/ Ma!Remind(s) \/ Ma!NextMilestone(s)
  PROVE  Tallied(o, m)'
<1> DEFINE e == Reminder(o, m)
           a == AcceptedBy(e)
           t == TryingTo(o, m)
           n == Ma!CopiesOf(e, copies)
           u == Ma!CopiesOf(e, unheard)
<1>1. UNCHANGED <<copies, unheard, log>>
  BY DEF Ma!Sweep, Ma!Query, Ma!Remind, Ma!NextMilestone
<1>2. n' = n /\ u' = u /\ (Ma!Logged(e)' <=> Ma!Logged(e))
  BY <1>1 DEF Ma!Logged
<1>3. /\ a \in SUBSET Sweepers /\ t \in SUBSET Sweepers /\ t' \in SUBSET Sweepers
  BY DEF AcceptedBy, TryingTo
<1>4. a \subseteq t
  <2>1. ASSUME NEW k \in a PROVE k \in t
    <3>1. k \in Ma!Callers /\ sending[k].stage # "none"
      BY DEF AcceptedBy, Ma!Callers
    <3> QED
      BY <3>1, InFlight
  <2> QED
    BY <2>1
<1>5. Tally(n, u, a, t) /\ (NoneLogged(n, u, a) \/ Ma!Logged(e))
  BY DEF Tallied
<1>6. s \in Ma!Callers /\ Waiting(s) /\ sweep[s] \in Pass
  BY DEF Ma!Callers, PassInv, MailTypes
<1>7. ASSUME a' = a, t' \subseteq t PROVE Tallied(o, m)'
  <2> HIDE DEF a, t, n, u
  <2>1. Tally(n, u, a, t')
    BY <1>3, <1>4, <1>5, <1>7, TallyMoves
  <2> QED
    BY <1>2, <1>5, <1>7, <2>1 DEF Tallied, a, t, n, u
<1>8. ASSUME a' = a, ~ Ma!Logged(e) PROVE Tallied(o, m)'
  <2> HIDE DEF a, t, n, u
  <2>1. Tally(n, u, a, t')
    BY <1>3, <1>4, <1>5, <1>8, TallyMoves
  <2> QED
    BY <1>2, <1>5, <1>8, <2>1 DEF Tallied, a, t, n, u
<1>9. CASE Ma!Sweep(s) \/ Ma!NextMilestone(s)
  <2>1. /\ sweep'[s].pc # "loop" /\ sending' = sending
        /\ \A k \in Sweepers \ {s} : sweep'[k] = sweep[k]
    BY <1>9 DEF Ma!Sweep, Ma!NextMilestone, MailTypes, Pass
  <2>2. a' = a /\ t' \subseteq t
    BY <2>1 DEF AcceptedBy, TryingTo, Trying
  <2> QED
    BY <1>7, <2>2
<1>10. CASE Ma!Query(s)
  <2> DEFINE i == sweep[s].milestone
  <2>1. /\ sending' = sending /\ \A k \in Sweepers \ {s} : sweep'[k] = sweep[k]
        /\ sweep'[s].milestone = i /\ sending[s].stage = "none"
        /\ sweep'[s].candidates = Ma!Candidates(sweep[s].now, PICKUP_REMINDER_DAYS[i])
    BY <1>6, <1>10 DEF Ma!Query, MailTypes, Pass, Waiting
  <2>2. a' = a
    BY <2>1 DEF AcceptedBy
  <2>3. CASE s \in t'
    <3>1. m = PICKUP_REMINDER_DAYS[i] /\ o \in Ma!Candidates(sweep[s].now, m)
      BY <2>1, <2>3 DEF TryingTo, Trying
    <3>2. ~ Ma!Logged(e)
      BY <3>1 DEF Ma!Candidates, Reminder
    <3> QED
      BY <1>8, <2>2, <3>2
  <2>4. CASE s \notin t'
    <3>1. t' \subseteq t
      BY <2>1, <2>4 DEF TryingTo, Trying
    <3> QED
      BY <1>7, <2>2, <3>1
  <2> QED
    BY <2>3, <2>4
<1>11. CASE Ma!Remind(s)
  <2> DEFINE i == sweep[s].milestone
             d == PICKUP_REMINDER_DAYS[i]
  <2>1. PICK q \in sweep[s].candidates :
          /\ sweep' = [sweep EXCEPT ![s].candidates = @ \ {q}]
          /\ Ma!dispatch(s, q, Ma!pickup_reminder(d))
    BY <1>11 DEF Ma!Remind
  <2>2. /\ sweep'[s].pc = "loop" /\ sweep'[s].milestone = i /\ sweep[s].pc = "loop"
        /\ sweep'[s].candidates = sweep[s].candidates \ {q}
        /\ sending[s].stage = "none"
        /\ \A k \in Sweepers \ {s} : sweep'[k] = sweep[k]
    BY <1>6, <1>11, <2>1 DEF Ma!Remind, MailTypes, Pass
  <2>3. \/ sending' = [sending EXCEPT ![s] = [stage |-> "posting", email |-> Reminder(q, d)]]
        \/ sending' = [sending EXCEPT ![s] = Ma!NoMail]
    BY <2>1, MailBegins DEF Reminder
  <2>4. /\ \/ sending'[s] = [stage |-> "posting", email |-> Reminder(q, d)]
           \/ sending'[s] = Ma!NoMail
        /\ \A k \in Ma!Callers \ {s} : sending'[k] = sending[k]
    BY <1>6, <2>3 DEF MailTypes
  <2>5. a' = a
    BY <2>2, <2>4 DEF AcceptedBy, Ma!Callers, Ma!NoMail
  <2>6. t' \subseteq t
    <3>1. ASSUME NEW k \in t' PROVE k \in t
      <4>1. CASE k # s
        BY <2>2, <2>4, <4>1 DEF TryingTo, Trying, Ma!Callers
      <4>2. CASE k = s
        <5>1. /\ m = d
              /\ \/ o \in sweep[s].candidates \ {q}
                 \/ sending'[s].email = Reminder(o, m) /\ sending'[s].stage # "none"
          BY <2>2, <4>2 DEF TryingTo, Trying
        <5>2. o \in sweep[s].candidates
          BY <2>4, <5>1 DEF Ma!NoMail, Reminder
        <5> QED
          BY <2>2, <4>2, <5>1, <5>2 DEF TryingTo, Trying
      <4> QED
        BY <4>1, <4>2
    <3> QED
      BY <3>1
  <2> QED
    BY <1>7, <2>5, <2>6
<1> QED
  BY <1>9, <1>10, <1>11

(***************************************************************************)
(* Nobody else sends reminders.                                            *)
(***************************************************************************)
LEMMA NoticesTallied ==
  ASSUME MailTypes, NEW c \in Slots, NEW o, NEW m, Tallied(o, m),
         \/ \E q \in OrderIds :
              Ma!paymentReceived(c, q) \/ Ma!delivered(c, q) \/ Ma!cancelled(c, q)
         \/ \E a \in Addresses : Ma!Welcome(c, a)
  PROVE  Tallied(o, m)'
<1>1. UNCHANGED <<copies, unheard, log, sweep>>
  BY DEF Ma!paymentReceived, Ma!delivered, Ma!cancelled, Ma!Welcome, Ma!Notice
<1>2. PICK q, template : Ma!dispatch(c, q, template) \/ Ma!send(c, <<template, q>>)
  BY DEF Ma!paymentReceived, Ma!delivered, Ma!cancelled, Ma!Welcome, Ma!Notice
<1>3. \A s \in Sweepers : sending'[s] = sending[s]
  BY <1>2, MailBegins, MailAssumption DEF MailTypes, Ma!Callers
<1> QED
  BY <1>1, <1>3 DEF Tallied, TryingTo, Trying, AcceptedBy, Ma!Logged

(***************************************************************************)
(* What a restart loses is counted: the rows of the mails in flight.       *)
(***************************************************************************)
LEMMA RestartTallied ==
  ASSUME MailTypes, PassInv, NEW b \in BOOLEAN, Ma!Restart(b)
  PROVE  /\ unheard' \in [DOMAIN unheard' -> Nat]
         /\ \A o, m : Tallied(o, m) => Tallied(o, m)'
<1> DEFINE wait == {k \in Ma!Callers : sending[k].stage = "accepted"}
           for(e) == {k \in wait : sending[k].email = e}
<1>1. ASSUME NEW e PROVE Ma!Cardinality(for(e)) = Cardinality(for(e)) /\ Cardinality(for(e)) \in Nat
  <2>1. IsFiniteSet(Ma!Callers)
    BY MailAssumption, FS_Union DEF Ma!Callers
  <2>2. for(e) \in SUBSET Ma!Callers
    OBVIOUS
  <2>3. IsFiniteSet(for(e))
    BY <2>1, <2>2, FS_Subset
  <2>4. Cardinality(for(e)) \in Nat
    BY <2>3, FS_CardinalityType
  <2> QED
    BY <2>4 DEF Ma!Cardinality, Cardinality
<1>2. unheard' = [e \in DOMAIN unheard \cup {sending[k].email : k \in wait} |->
                    (IF e \in DOMAIN unheard THEN unheard[e] ELSE 0)
                    + (IF e \in {sending[k].email : k \in wait} THEN Ma!Cardinality(for(e)) ELSE 0)]
  BY DEF Ma!Restart, Ma!Lost, Ma!(+)
<1>3. unheard' \in [DOMAIN unheard' -> Nat]
  <2> HIDE DEF wait, for
  <2> QED
    BY <1>1, <1>2 DEF MailTypes
<1>4. ASSUME NEW o, NEW m, Tallied(o, m) PROVE Tallied(o, m)'
  <2> DEFINE e == Reminder(o, m)
             a == AcceptedBy(e)
             t == TryingTo(o, m)
             n == Ma!CopiesOf(e, copies)
             u == Ma!CopiesOf(e, unheard)
  <2>1. a \in SUBSET Sweepers /\ t \in SUBSET Sweepers
    BY DEF AcceptedBy, TryingTo
  <2>2. for(e) = a
    <3>1. ASSUME NEW k \in for(e) PROVE k \in a
      BY InFlight DEF AcceptedBy
    <3>2. ASSUME NEW k \in a PROVE k \in for(e)
      BY DEF AcceptedBy, Ma!Callers
    <3> QED
      BY <3>1, <3>2
  <2>3. a \subseteq t
    <3>1. ASSUME NEW k \in a PROVE k \in t
      <4>1. k \in Ma!Callers /\ sending[k].stage # "none"
        BY DEF AcceptedBy, Ma!Callers
      <4> QED
        BY <4>1, InFlight
    <3> QED
      BY <3>1
  <2>4. Tally(n, u, a, t) /\ (NoneLogged(n, u, a) \/ Ma!Logged(e))
    BY <1>4 DEF Tallied
  <2>5. u' = u + Cardinality(a)
    <3>1. u = IF e \in DOMAIN unheard THEN unheard[e] ELSE 0
      BY DEF Ma!CopiesOf, Ma!BagIn, Ma!BagToSet
    <3>2. u' = IF e \in DOMAIN unheard' THEN unheard'[e] ELSE 0
      BY DEF Ma!CopiesOf, Ma!BagIn, Ma!BagToSet
    <3>3. Ma!Cardinality(for(e)) = Cardinality(a) /\ Cardinality(a) \in Nat
      BY <1>1, <2>2
    <3>4. u \in Nat
      BY <3>1 DEF MailTypes
    <3>5. CASE e \in {sending[k].email : k \in wait}
      <4> HIDE DEF wait, for, e, a, u
      <4>1. u' = unheard'[e]
        BY <1>2, <3>2, <3>5 DEF e
      <4>2. unheard'[e] = (IF e \in DOMAIN unheard THEN unheard[e] ELSE 0) + Ma!Cardinality(for(e))
        BY <1>2, <3>5
      <4> QED
        BY <3>1, <3>3, <4>1, <4>2
    <3>6. CASE e \notin {sending[k].email : k \in wait}
      <4>1. for(e) = {}
        BY <3>6
      <4>2. Cardinality(a) = 0
        BY <2>2, <4>1, FS_EmptySet
      <4> HIDE DEF wait, for, e, a, u
      <4>3. u' = IF e \in DOMAIN unheard THEN unheard'[e] ELSE 0
        BY <1>2, <3>2, <3>6 DEF e
      <4>4. e \in DOMAIN unheard => unheard'[e] = unheard[e] + 0
        BY <1>2, <3>6
      <4> QED
        BY <3>1, <3>4, <4>2, <4>3, <4>4 DEF MailTypes
    <3> QED
      BY <3>5, <3>6
  <2>6. n' = n /\ (Ma!Logged(e)' <=> Ma!Logged(e))
    BY DEF Ma!Restart, Ma!Logged
  <2>7. a' = {} /\ t' = {}
    <3>1. \A s \in Sweepers : sending'[s] = Ma!NoMail /\ sweep'[s] = Ma!NoPass
      BY DEF Ma!Restart, Ma!Callers
    <3> QED
      BY <3>1 DEF AcceptedBy, TryingTo, Trying, Ma!NoMail, Ma!NoPass
  <2> HIDE DEF a, t, n, u, wait, for
  <2>8. /\ Tally(n, u + Cardinality(a), {}, {})
        /\ NoneLogged(n, u, a) => NoneLogged(n, u + Cardinality(a), {})
    BY <2>1, <2>3, <2>4, TallyMoves
  <2> QED
    BY <2>4, <2>5, <2>6, <2>7, <2>8 DEF Tallied, a, t, n, u
<1> QED
  BY <1>3, <1>4

MailInv == MailTypes /\ PassInv /\ \A o, m : Tallied(o, m)

(***************************************************************************)
(* Changing one caller's mail keeps the form of the table of mails.        *)
(***************************************************************************)
LEMMA MailsStay ==
  ASSUME MailTypes, NEW c \in Ma!Callers, NEW x, x = [stage |-> x.stage, email |-> x.email],
         sending' = [sending EXCEPT ![c] = x]
  PROVE  sending' = [k \in Ma!Callers |-> [stage |-> sending'[k].stage,
                                          email |-> sending'[k].email]]
<1>1. sending = [k \in Ma!Callers |-> [stage |-> sending[k].stage, email |-> sending[k].email]]
  BY DEF MailTypes
<1>2. sending' = [k \in Ma!Callers |-> sending'[k]]
  BY <1>1
<1>3. \A k \in Ma!Callers : sending'[k] = [stage |-> sending'[k].stage, email |-> sending'[k].email]
  BY <1>1
<1> QED
  BY <1>2, <1>3

(***************************************************************************)
(* Every step of the mail keeps its types.                                 *)
(***************************************************************************)
LEMMA MailTyped ==
  ASSUME MailTypes, PassInv, Ma!Next
  PROVE  MailTypes'
<1>1. Ma!NoMail = [stage |-> Ma!NoMail.stage, email |-> Ma!NoMail.email]
  BY DEF Ma!NoMail
<1>2. ASSUME NEW c \in Ma!Callers, NEW st, Ma!Returned(c, sending[c].email, st),
             UNCHANGED <<today, waiting, sweep, copies>>,
             unheard' \in [DOMAIN unheard' -> Nat]
      PROVE  MailTypes'
  <2>1. sending' = [sending EXCEPT ![c] = Ma!NoMail]
    BY <1>2 DEF Ma!Returned
  <2>2. sending' = [k \in Ma!Callers |-> [stage |-> sending'[k].stage,
                                          email |-> sending'[k].email]]
    BY <1>1, <2>1, MailsStay
  <2> QED
    BY <1>2, <2>2 DEF MailTypes
<1>3. ASSUME NEW c \in Ma!Callers, Ma!Accept(c) PROVE MailTypes'
  <2>1. copies' = Added(copies, sending[c].email)
    BY <1>3 DEF Ma!Accept, Ma!(+), Ma!SetToBag, Added
  <2>2. copies' \in [DOMAIN copies' -> Nat]
    BY <2>1, OneMoreCopy DEF MailTypes
  <2>3. PICK x : x = [stage |-> "accepted", email |-> sending[c].email]
    OBVIOUS
  <2>4. sending[c] = [stage |-> sending[c].stage, email |-> sending[c].email]
    BY DEF MailTypes
  <2>5. [sending[c] EXCEPT !.stage = "accepted"] = x
    BY <2>3, <2>4
  <2>6. sending' = [sending EXCEPT ![c] = x]
    <3>1. sending' = [sending EXCEPT ![c].stage = "accepted"]
      BY <1>3 DEF Ma!Accept
    <3> QED
      BY <2>5, <3>1, Zenon
  <2>7. x = [stage |-> x.stage, email |-> x.email]
    BY <2>3
  <2>8. sending' = [k \in Ma!Callers |-> [stage |-> sending'[k].stage,
                                          email |-> sending'[k].email]]
    BY <2>6, <2>7, MailsStay
  <2> QED
    BY <1>3, <2>2, <2>8 DEF Ma!Accept, MailTypes
<1>4. ASSUME NEW c \in Ma!Callers, Ma!Reject(c) PROVE MailTypes'
  BY <1>2, <1>4 DEF Ma!Reject, MailTypes
<1>5. ASSUME NEW c \in Ma!Callers, Ma!Timeout(c) \/ Ma!record(c, FALSE) PROVE MailTypes'
  <2>1. unheard' = Added(unheard, sending[c].email)
    BY <1>5 DEF Ma!Timeout, Ma!record, Ma!(+), Ma!SetToBag, Added
  <2>2. unheard' \in [DOMAIN unheard' -> Nat]
    BY <2>1, OneMoreCopy DEF MailTypes
  <2> QED
    BY <1>2, <1>5, <2>2 DEF Ma!Timeout, Ma!record
<1>6. ASSUME NEW c \in Ma!Callers, Ma!record(c, TRUE) PROVE MailTypes'
  BY <1>2, <1>6 DEF Ma!record, MailTypes
<1>7. ASSUME NEW c \in Ma!Callers, NEW o, NEW template,
             Ma!dispatch(c, o, template) \/ Ma!send(c, <<template, o>>)
      PROVE  sending' = [k \in Ma!Callers |-> [stage |-> sending'[k].stage,
                                              email |-> sending'[k].email]]
  <2>1. PICK x : /\ sending' = [sending EXCEPT ![c] = x]
                 /\ x \in {[stage |-> "posting", email |-> <<template, o>>], Ma!NoMail}
    BY <1>7, MailBegins
  <2>2. x = [stage |-> x.stage, email |-> x.email]
    BY <1>1, <2>1
  <2> QED
    BY <2>1, <2>2, MailsStay
<1>8. ASSUME NEW c \in Slots, NEW o \in OrderIds,
             Ma!paymentReceived(c, o) \/ Ma!delivered(c, o) \/ Ma!cancelled(c, o)
      PROVE  MailTypes'
  <2>1. UNCHANGED <<today, sweep, copies, unheard>>
    BY <1>8 DEF Ma!paymentReceived, Ma!delivered, Ma!cancelled, Ma!Notice
  <2>2. PICK template : Ma!dispatch(c, o, template)
    BY <1>8 DEF Ma!paymentReceived, Ma!delivered, Ma!cancelled, Ma!Notice
  <2>3. waiting' \in [OrderIds -> Ma!Order]
    BY <1>8 DEF Ma!paymentReceived, Ma!delivered, Ma!cancelled, MailTypes, Ma!Order
  <2>4. c \in Ma!Callers
    BY DEF Ma!Callers
  <2> QED
    BY <1>7, <2>1, <2>2, <2>3, <2>4 DEF MailTypes
<1>9. ASSUME NEW c \in Slots, NEW a \in Addresses, Ma!Welcome(c, a) PROVE MailTypes'
  BY <1>7, <1>9 DEF Ma!Welcome, Ma!Callers, MailTypes
<1>10. ASSUME NEW s \in Sweepers, Ma!Sweep(s) \/ Ma!Query(s) \/ Ma!NextMilestone(s)
       PROVE  MailTypes'
  <2>1. UNCHANGED <<today, waiting, sending, copies, unheard>>
    BY <1>10 DEF Ma!Sweep, Ma!Query, Ma!NextMilestone
  <2>2. Waiting(s) /\ sweep[s] \in Pass
    BY DEF PassInv, MailTypes, Ma!Callers
  <2>3. CASE Ma!Sweep(s)
    BY <2>1, <2>3, MilestonesPositive DEF Ma!Sweep, MailTypes, Pass
  <2>4. CASE Ma!Query(s)
    <3>1. \A day, m : Ma!Candidates(day, m) \in SUBSET OrderIds
      BY MailAssumption DEF Ma!Candidates
    <3>2. PICK found : /\ found = Ma!Candidates(sweep[s].now,
                                     PICKUP_REMINDER_DAYS[sweep[s].milestone])
                       /\ found \in SUBSET OrderIds
      BY <3>1, Zenon
    <3>3. sweep' = [sweep EXCEPT ![s].pc = "loop", ![s].candidates = found]
      BY <2>4, <3>2, Zenon DEF Ma!Query
    <3>4. PICK row : row = [pc |-> "loop", now |-> sweep[s].now,
                            milestone |-> sweep[s].milestone, candidates |-> found]
      OBVIOUS
    <3>5. row \in Pass
      BY <2>2, <3>2, <3>4 DEF Pass
    <3>6. sweep \in [Sweepers -> Pass]
      BY DEF MailTypes
    <3>7. sweep' = [sweep EXCEPT ![s] = row]
      <4>1. PICK x : x = [sweep[s] EXCEPT !.pc = "loop"]
        OBVIOUS
      <4>2. PICK y : y = [x EXCEPT !.candidates = found]
        OBVIOUS
      <4>3. sweep' = [sweep EXCEPT ![s] = y]
        BY <3>3, <3>6, <4>1, <4>2
      <4>4. PICK hour, milestone, candidates, pc :
              sweep[s] = [pc |-> pc, now |-> hour, milestone |-> milestone,
                          candidates |-> candidates]
        BY <2>2 DEF Pass
      <4>5. x = [pc |-> "loop", now |-> hour, milestone |-> milestone,
                 candidates |-> candidates]
        BY <4>1, <4>4
      <4>6. y = [pc |-> "loop", now |-> hour, milestone |-> milestone, candidates |-> found]
        BY <4>2, <4>5
      <4>7. hour = sweep[s].now /\ milestone = sweep[s].milestone
        BY <4>4
      <4>8. y = row
        BY <3>4, <4>6, <4>7, Zenon
      <4> QED
        BY <4>3, <4>8, Zenon
    <3>8. sweep' \in [Sweepers -> Pass]
      BY <3>5, <3>6, <3>7
    <3> QED
      BY <2>1, <3>8 DEF MailTypes
  <2>5. CASE Ma!NextMilestone(s)
    <3>1. sweep[s].milestone + 1 \in 0 .. Len(PICKUP_REMINDER_DAYS) + 1
      BY <2>2, <2>5, MilestonesPositive DEF Ma!NextMilestone, Waiting
    <3> QED
      BY <2>1, <2>5, <3>1 DEF Ma!NextMilestone, MailTypes, Pass
  <2> QED
    BY <1>10, <2>3, <2>4, <2>5
<1>11. ASSUME NEW s \in Sweepers, Ma!Remind(s) PROVE MailTypes'
  <2>1. PICK q \in sweep[s].candidates :
          /\ sweep' = [sweep EXCEPT ![s].candidates = @ \ {q}]
          /\ Ma!dispatch(s, q, Ma!pickup_reminder(PICKUP_REMINDER_DAYS[sweep[s].milestone]))
    BY <1>11 DEF Ma!Remind
  <2>2. sweep' \in [Sweepers -> Pass]
    BY <2>1 DEF MailTypes, Pass
  <2>3. s \in Ma!Callers
    BY DEF Ma!Callers
  <2> QED
    BY <1>7, <1>11, <2>1, <2>2, <2>3 DEF Ma!Remind, MailTypes
<1>12. CASE Ma!Tick
  BY <1>12, MailAssumption DEF Ma!Tick, MailTypes
<1>13. ASSUME NEW b \in BOOLEAN, Ma!Restart(b) PROVE MailTypes'
  <2>1. unheard' \in [DOMAIN unheard' -> Nat]
    BY <1>13, RestartTallied
  <2>2. Ma!NoPass \in Pass
    BY MilestonesPositive, MailAssumption DEF Ma!NoPass, Pass
  <2> QED
    BY <1>13, <2>1, <2>2 DEF Ma!Restart, MailTypes, Ma!NoMail
<1> QED
  BY <1>3, <1>4, <1>5, <1>6, <1>8, <1>9, <1>10, <1>11, <1>12, <1>13 DEF Ma!Next

(***************************************************************************)
(* Nothing is owed and nothing sent when the shop opens.                   *)
(***************************************************************************)
LEMMA MailInit ==
  ASSUME Ma!Init
  PROVE  MailInv
<1>1. MailTypes
  <2>1. Ma!NoPass \in Pass
    BY MilestonesPositive, MailAssumption DEF Ma!NoPass, Pass
  <2>2. waiting \in [OrderIds -> Ma!Order]
    BY MailAssumption DEF Ma!Init, Ma!Order
  <2> QED
    BY <2>1, <2>2, MailAssumption
       DEF Ma!Init, MailTypes, Ma!NoMail, Ma!EmptyBag, Ma!SetToBag
<1>2. PassInv
  <2>1. /\ \A s \in Sweepers : sweep[s] = Ma!NoPass
        /\ \A c \in Ma!Callers : sending[c] = Ma!NoMail
        /\ today = 0
    BY DEF Ma!Init
  <2> QED
    BY <2>1 DEF PassInv, Waiting, Paid, Reached, Ma!NoPass, Ma!NoMail
<1>3. ASSUME NEW o, NEW m PROVE Tallied(o, m)
  <2>1. /\ \A s \in Sweepers : sweep[s] = Ma!NoPass /\ sending[s] = Ma!NoMail
    BY DEF Ma!Init, Ma!Callers
  <2>2. AcceptedBy(Reminder(o, m)) = {} /\ TryingTo(o, m) = {}
    BY <2>1 DEF AcceptedBy, TryingTo, Trying, Ma!NoPass, Ma!NoMail
  <2>3. Ma!CopiesOf(Reminder(o, m), copies) = 0 /\ Ma!CopiesOf(Reminder(o, m), unheard) = 0
    BY DEF Ma!Init, Ma!EmptyBag, Ma!SetToBag, Ma!CopiesOf, Ma!BagIn, Ma!BagToSet
  <2>4. Cardinality({}) = 0 /\ Cardinality(Sweepers) \in Nat
    BY FS_EmptySet, FS_CardinalityType, MailAssumption
  <2> QED
    BY <2>2, <2>3, <2>4 DEF Tallied, Tally, NoneLogged
<1> QED
  BY <1>1, <1>2, <1>3 DEF MailInv

(***************************************************************************)
(* The passes of the reminder job and the mails in flight, whatever days   *)
(* are missed, answers lost, rows refused, passes overlap and servers      *)
(* restart, keep the books of the reminders.                               *)
(***************************************************************************)
LEMMA MailKeeps == Spec => []MailInv
<1>1. Init => MailInv
  BY MailInit DEF Init
<1>2. MailInv /\ [Next]_vars => MailInv'
  <2> SUFFICES ASSUME MailInv, [Next]_vars PROVE MailInv'
    OBVIOUS
  <2>1. MailTypes /\ PassInv /\ \A o, m : Tallied(o, m)
    BY DEF MailInv
  <2>2. CASE MailStep
    <3>1. Ma!Next
      BY <2>2 DEF MailStep
    <3>2. MailTypes'
      BY <2>1, <3>1, MailTyped
    <3>3. PassInv'
      BY <2>1, <3>1, FlightKeeps, NoticesKeep, PassesKeep, WorldKeeps DEF Ma!Next
    <3>4. ASSUME NEW o, NEW m PROVE Tallied(o, m)'
      <4>1. Tallied(o, m)
        BY <2>1
      <4>2. CASE Ma!Tick
        BY <4>1, <4>2 DEF Ma!Tick, Tallied, TryingTo, Trying, AcceptedBy, Ma!Logged
      <4> QED
        BY <2>1, <3>1, <4>1, <4>2, FlightTallied, PassesTallied, NoticesTallied, RestartTallied
           DEF Ma!Next
    <3> QED
      BY <3>2, <3>3, <3>4 DEF MailInv
  <2>3. CASE UNCHANGED mailVars
    <3>1. MailTypes' /\ PassInv'
      BY <2>1, <2>3 DEF mailVars, MailTypes, PassInv, Waiting, Paid, Reached, Due, Done, Trying,
                        Ma!Logged
    <3>2. ASSUME NEW o, NEW m PROVE Tallied(o, m)'
      <4>1. TryingTo(o, m)' = TryingTo(o, m)
        BY <2>3 DEF mailVars, TryingTo, Trying
      <4>2. \A e : AcceptedBy(e)' = AcceptedBy(e) /\ Ma!Logged(e)' = Ma!Logged(e)
        BY <2>3 DEF mailVars, AcceptedBy, Ma!Logged
      <4>3. copies' = copies /\ unheard' = unheard
        BY <2>3 DEF mailVars
      <4>4. Tallied(o, m)
        BY <2>1
      <4> QED
        BY <4>1, <4>2, <4>3, <4>4 DEF Tallied
    <3> QED
      BY <3>1, <3>2 DEF MailInv
  <2> QED
    BY <2>2, <2>3 DEF Next, vars, CartStep, AttemptStep, PromiseStep, DeliveryStep,
                      CatalogueStep, ContentStep
<1> QED
  BY <1>1, <1>2, PTL DEF Spec

(***************************************************************************)
(* For any milestones, orders and number of overlapping passes: when a     *)
(* pass ends, whoever still waits at the counter and had reached a         *)
(* milestone has that reminder in the log, or this very pass tried it.     *)
(***************************************************************************)
THEOREM MissedAreMadeUp == Spec => []MissedIsMadeUp
<1>1. MailInv => MissedIsMadeUp
  <2> SUFFICES ASSUME MailInv, NEW s \in Sweepers, sweep[s].pc = "done",
                      NEW o \in Ma!pendingPickups, NEW m \in Ma!Milestones,
                      waiting[o].status = "confirmed",
                      sweep[s].now - waiting[o].paidAt \in m .. PICKUP_CUSTODY_DAYS - 1
               PROVE  Ma!Logged(Reminder(o, m)) \/ <<s, o, m>> \in missed
    BY DEF MissedIsMadeUp, Ma!MissedIsMadeUp, Reminder
  <2>1. Paid(s) /\ Waiting(s)
    BY DEF MailInv, PassInv, Ma!Callers
  <2>2. PICK j \in 1 .. Len(PICKUP_REMINDER_DAYS) : m = PICKUP_REMINDER_DAYS[j]
    BY MailAssumption DEF Ma!Milestones, Ma!Range
  <2>3. Reached(s, j)
    BY <2>1, MilestonesPositive DEF Reached, Waiting
  <2>4. Due(s, o, m) /\ o \in PickupOrders
    BY DEF Due, Ma!pendingPickups
  <2>5. Done(s, o, m) \/ Trying(s, o, m)
    BY <2>1, <2>2, <2>3, <2>4 DEF Paid
  <2> QED
    BY <2>5 DEF Done, Trying
<1> QED
  BY <1>1, MailKeeps, PTL

(***************************************************************************)
(* For any orders and milestones: a client gets a reminder at most once    *)
(* for each pass that can overlap, plus once for every copy of it that     *)
(* left no row in the log.                                                 *)
(***************************************************************************)
THEOREM RemindersAreBounded == Spec => []RemindersBounded
<1>1. MailInv => RemindersBounded
  <2> SUFFICES ASSUME MailInv, NEW o \in OrderIds, NEW m \in Ma!Milestones
               PROVE  Ma!CopiesOf(Reminder(o, m), copies)
                        <= Ma!Cardinality(Sweepers) + Ma!CopiesOf(Reminder(o, m), unheard)
    BY DEF RemindersBounded, Ma!RemindersBounded, Reminder
  <2> DEFINE a == AcceptedBy(Reminder(o, m))
             t == TryingTo(o, m)
  <2>1. Tally(Ma!CopiesOf(Reminder(o, m), copies), Ma!CopiesOf(Reminder(o, m), unheard), a, t)
    BY DEF MailInv, Tallied
  <2>2. a \in SUBSET Sweepers /\ t \in SUBSET Sweepers
    BY DEF AcceptedBy, TryingTo
  <2>3. a \subseteq t
    <3>1. ASSUME NEW k \in a PROVE k \in t
      <4>1. k \in Ma!Callers /\ sending[k].stage # "none"
        BY DEF AcceptedBy, Ma!Callers
      <4> QED
        BY <4>1, InFlight DEF MailInv
    <3> QED
      BY <3>1
  <2> HIDE DEF a, t
  <2>4. /\ Cardinality(a) \in Nat /\ Cardinality(t) \in Nat /\ Cardinality(a) <= Cardinality(t)
        /\ Cardinality(Sweepers) \in Nat
    BY <2>2, <2>3, PassesCount
  <2>5. Ma!Cardinality(Sweepers) = Cardinality(Sweepers)
    BY DEF Ma!Cardinality, Cardinality
  <2> QED
    BY <2>1, <2>4, <2>5 DEF Tally
<1> QED
  BY <1>1, MailKeeps, PTL

-----------------------------------------------------------------------------
(* Cart *)

(***************************************************************************)
(* A bounded set of quantities has a largest one.                          *)
(***************************************************************************)
LEMMA LargestQuantity ==
  ASSUME NEW S \in SUBSET (0 .. MaxInCart), 0 \in S
  PROVE  /\ Ca!Max(S) \in S /\ Ca!Max(S) \in Nat
         /\ \A y \in S : y <= Ca!Max(S)
<1> DEFINE T == {MaxInCart - x : x \in S}
<1>1. S \subseteq Nat /\ T \subseteq Nat /\ T # {}
  <2>1. \A x \in S : x \in Nat /\ MaxInCart - x \in Nat
    BY CartAssumption
  <2> QED
    BY <2>1
<1>2. \E x \in S : \A y \in S : x >= y
  <2>1. PICK t \in T : \A u \in T : ~ (<<u, t>> \in OpToRel(<, Nat))
    BY <1>1, WFMin, NatLessThanWellFounded
  <2>2. PICK x \in S : t = MaxInCart - x
    OBVIOUS
  <2>3. ASSUME NEW y \in S PROVE x >= y
    <3>1. MaxInCart - y \in T /\ ~ (MaxInCart - y < MaxInCart - x)
      BY <1>1, <2>1, <2>2 DEF OpToRel
    <3> QED
      BY <1>1, <3>1, CartAssumption
  <2> QED
    BY <2>3
<1>3. Ca!Max(S) \in S /\ \A y \in S : Ca!Max(S) >= y
  BY <1>2 DEF Ca!Max
<1> QED
  BY <1>1, <1>3

(***************************************************************************)
(* The least of two numbers.                                               *)
(***************************************************************************)
LEMMA LeastOfTwo ==
  ASSUME NEW a \in Nat, NEW b \in Nat
  PROVE  Ca!Min({a, b}) = IF a <= b THEN a ELSE b
<1>1. \E x \in {a, b} : \A y \in {a, b} : x <= y
  OBVIOUS
<1>2. Ca!Min({a, b}) \in {a, b} /\ \A y \in {a, b} : Ca!Min({a, b}) <= y
  BY <1>1 DEF Ca!Min
<1> QED
  BY <1>2

(* The largest number of units of p that orders brought back. *)
Brought(p, b, s) == Ca!Max({b[o].lines[p] : o \in s[p]} \cup {0})

CartRow(x) == x = [id |-> x.id, quantity |-> x.quantity] /\ x.quantity \in 0 .. MaxInCart

(* A cart, what was asked for by hand, the orders and what they brought.    *)
CartGood(c, a, s, b) ==
  /\ c = [p \in CartProducts |-> c[p]] /\ \A p \in CartProducts : CartRow(c[p])
  /\ a \in Ca!Lines
  /\ s \in [CartProducts -> SUBSET CartOrders]
  /\ b \in [CartOrders -> Ca!Purchase]
  /\ \A p \in CartProducts : c[p].quantity <= a[p] + Brought(p, b, s)

(* The orders after the write. *)
BoughtAfter(w) ==
  IF w.op \in {"checkout", "return", "revive"}
  THEN [bought EXCEPT ![w.order] = [status |-> w.to, lines |-> w.lines]]
  ELSE bought

WriteGood(w) ==
  CartGood(Ca!Written(w), Ca!AskedAfter(w), Ca!SourceAfter(w), BoughtAfter(w))

(* The cart is right, and so is what the handler in progress is to write.   *)
CartInv ==
  /\ CartGood(cart, asked, source, bought)
  /\ pending = [r \in CartRequests |-> pending[r]]
  /\ \A r \in CartRequests : pending[r] # Ca!Idle => WriteGood(pending[r])

(***************************************************************************)
(* What came back is a number, at least that of every order it came from,  *)
(* and no more than any bound of them all.                                 *)
(***************************************************************************)
LEMMA BroughtBounds ==
  ASSUME NEW p \in CartProducts, NEW b \in [CartOrders -> Ca!Purchase],
         NEW s \in [CartProducts -> SUBSET CartOrders]
  PROVE  /\ Brought(p, b, s) \in Nat
         /\ \A o \in s[p] : b[o].lines[p] \in Nat /\ b[o].lines[p] <= Brought(p, b, s)
         /\ Brought(p, b, s) = 0 \/ \E o \in s[p] : Brought(p, b, s) = b[o].lines[p]
<1> DEFINE S == {b[o].lines[p] : o \in s[p]} \cup {0}
<1>1. \A o \in s[p] : b[o].lines[p] \in 0 .. MaxInCart
  BY DEF Ca!Purchase, Ca!Lines
<1>2. S \in SUBSET (0 .. MaxInCart) /\ 0 \in S
  BY <1>1, CartAssumption
<1>3. /\ Brought(p, b, s) \in S /\ Brought(p, b, s) \in Nat
      /\ \A y \in S : y <= Brought(p, b, s)
  <2> HIDE DEF S
  <2>1. Ca!Max(S) \in S /\ Ca!Max(S) \in Nat /\ \A y \in S : y <= Ca!Max(S)
    BY <1>2, LargestQuantity
  <2> QED
    BY <2>1 DEF Brought, S
<1> QED
  BY <1>1, <1>3, CartAssumption

(***************************************************************************)
(* RowWith is the row with that quantity.                                  *)
(***************************************************************************)
LEMMA RowIs ==
  ASSUME \A x \in CartProducts : CartRow(cart[x]), NEW p \in CartProducts,
         NEW q \in 1 .. MaxInCart
  PROVE  /\ CartRow(Ca!RowWith(p, q)) /\ Ca!RowWith(p, q).quantity = q
         /\ Ca!RowWith(p, q) # Ca!NoLine
<1>1. CartRow(cart[p]) /\ q \in Nat /\ q > 0 /\ q \in 0 .. MaxInCart
  BY CartAssumption
<1>2. PICK f : f = Ca!FreshId(p)
  OBVIOUS
<1>3. Ca!RowWith(p, q) = IF cart[p] = Ca!NoLine THEN [id |-> f, quantity |-> q]
                         ELSE [id |-> cart[p].id, quantity |-> q]
  BY <1>1, <1>2 DEF Ca!RowWith, CartRow
<1>4. PICK row : row = Ca!RowWith(p, q)
  OBVIOUS
<1>5. row = [id |-> row.id, quantity |-> row.quantity] /\ row.quantity = q
  BY <1>3, <1>4
<1>6. row # Ca!NoLine
  BY <1>1, <1>5 DEF Ca!NoLine
<1> QED
  BY <1>1, <1>4, <1>5, <1>6 DEF CartRow

(***************************************************************************)
(* The cart after a write, line by line.                                   *)
(***************************************************************************)
LEMMA WrittenIs ==
  ASSUME NEW w, w.op # "checkout"
  PROVE  /\ Ca!Written(w) = [p \in CartProducts |-> Ca!Written(w)[p]]
         /\ \A p \in CartProducts :
              Ca!Written(w)[p] = IF w.save[p] # Ca!NoLine THEN w.save[p]
                                 ELSE IF cart[p].id = w.drop[p] THEN Ca!NoLine ELSE cart[p]
BY DEF Ca!Written

(***************************************************************************)
(* A write that saves good rows or removes some leaves a cart.             *)
(***************************************************************************)
LEMMA WrittenRows ==
  ASSUME NEW w, w.op # "checkout", \A p \in CartProducts : CartRow(cart[p]),
         \A p \in CartProducts : w.save[p] # Ca!NoLine => CartRow(w.save[p])
  PROVE  /\ Ca!Written(w) = [p \in CartProducts |-> Ca!Written(w)[p]]
         /\ \A p \in CartProducts :
              /\ CartRow(Ca!Written(w)[p])
              /\ w.save[p] = Ca!NoLine => Ca!Written(w)[p].quantity <= cart[p].quantity
              /\ w.save[p] # Ca!NoLine => Ca!Written(w)[p].quantity = w.save[p].quantity
<1>1. CartRow(Ca!NoLine) /\ Ca!NoLine.quantity = 0
  BY CartAssumption DEF CartRow, Ca!NoLine
<1>2. ASSUME NEW p \in CartProducts
      PROVE  /\ CartRow(Ca!Written(w)[p])
             /\ w.save[p] = Ca!NoLine => Ca!Written(w)[p].quantity <= cart[p].quantity
             /\ w.save[p] # Ca!NoLine => Ca!Written(w)[p].quantity = w.save[p].quantity
  <2>1. Ca!Written(w)[p] = IF w.save[p] # Ca!NoLine THEN w.save[p]
                           ELSE IF cart[p].id = w.drop[p] THEN Ca!NoLine ELSE cart[p]
    BY WrittenIs
  <2>2. CartRow(cart[p]) /\ cart[p].quantity \in Nat
    BY CartAssumption DEF CartRow
  <2> QED
    BY <1>1, <2>1, <2>2
<1> QED
  BY <1>2, WrittenIs

(***************************************************************************)
(* addItem adds what is asked for.                                         *)
(***************************************************************************)
LEMMA AddGood ==
  ASSUME CartGood(cart, asked, source, bought), NEW p \in CartProducts,
         NEW q \in 1 .. MaxInCart, cart[p].quantity + q <= MaxInCart,
         NEW w, w = [Ca!Plain("add", p, q, Ca!SomeOrder) EXCEPT
                       !.save[p] = Ca!RowWith(p, cart[p].quantity + q)]
  PROVE  WriteGood(w)
<1>1. /\ \A x \in CartProducts : CartRow(cart[x]) /\ cart[x].quantity \in Nat
      /\ asked \in Ca!Lines /\ source \in [CartProducts -> SUBSET CartOrders]
      /\ bought \in [CartOrders -> Ca!Purchase]
      /\ \A x \in CartProducts : asked[x] \in Nat /\ asked[x] \in 0 .. MaxInCart
      /\ q \in Nat
  BY CartAssumption DEF CartGood, CartRow, Ca!Lines
<1>2. PICK row : row = Ca!RowWith(p, cart[p].quantity + q)
  OBVIOUS
<1>3. CartRow(row) /\ row.quantity = cart[p].quantity + q /\ row # Ca!NoLine
  <2>1. cart[p].quantity + q \in 1 .. MaxInCart
    BY <1>1, CartAssumption
  <2> QED
    BY <1>1, <1>2, <2>1, RowIs
<1>4. /\ w.op = "add" /\ w.product = p /\ w.quantity = q
      /\ w.save = [Ca!NothingSaved EXCEPT ![p] = row]
  BY <1>2 DEF Ca!Plain
<1>5. \A x \in CartProducts : w.save[x] = IF x = p THEN row ELSE Ca!NoLine
  BY <1>4 DEF Ca!NothingSaved
<1>6. /\ Ca!Written(w) = [x \in CartProducts |-> Ca!Written(w)[x]]
      /\ \A x \in CartProducts :
           /\ CartRow(Ca!Written(w)[x])
           /\ x # p => Ca!Written(w)[x].quantity <= cart[x].quantity
           /\ x = p => Ca!Written(w)[x].quantity = cart[p].quantity + q
  <2>1. w.op # "checkout" /\ \A x \in CartProducts : w.save[x] # Ca!NoLine => CartRow(w.save[x])
    BY <1>3, <1>4, <1>5
  <2>2. /\ Ca!Written(w) = [x \in CartProducts |-> Ca!Written(w)[x]]
        /\ \A x \in CartProducts :
             /\ CartRow(Ca!Written(w)[x])
             /\ w.save[x] = Ca!NoLine => Ca!Written(w)[x].quantity <= cart[x].quantity
             /\ w.save[x] # Ca!NoLine => Ca!Written(w)[x].quantity = w.save[x].quantity
    BY <1>1, <2>1, WrittenRows
  <2> QED
    BY <1>3, <1>5, <2>2
<1>7. Ca!SourceAfter(w) = source /\ BoughtAfter(w) = bought
  BY <1>4 DEF Ca!SourceAfter, BoughtAfter
<1>8. Ca!AskedAfter(w) = [asked EXCEPT ![p] = Ca!Min({MaxInCart, asked[p] + q})]
  BY <1>4 DEF Ca!AskedAfter
<1>9. PICK n : n = Ca!Min({MaxInCart, asked[p] + q})
  OBVIOUS
<1>10. n = IF MaxInCart <= asked[p] + q THEN MaxInCart ELSE asked[p] + q
  BY <1>1, <1>9, LeastOfTwo, CartAssumption
<1>11. Ca!AskedAfter(w) \in Ca!Lines /\ \A x \in CartProducts :
         Ca!AskedAfter(w)[x] = IF x = p THEN n ELSE asked[x]
  <2>1. n \in 0 .. MaxInCart
    BY <1>1, <1>10, CartAssumption
  <2>2. Ca!AskedAfter(w) = [asked EXCEPT ![p] = n]
    BY <1>8, <1>9
  <2> QED
    BY <1>1, <2>1, <2>2 DEF Ca!Lines
<1>12. ASSUME NEW x \in CartProducts
       PROVE  Ca!Written(w)[x].quantity <= Ca!AskedAfter(w)[x] + Brought(x, bought, source)
  <2>1. Brought(x, bought, source) \in Nat
    BY <1>1, BroughtBounds
  <2>2. cart[x].quantity <= asked[x] + Brought(x, bought, source)
    BY DEF CartGood
  <2>3. Ca!Written(w)[x].quantity \in Nat
    <3>1. CartRow(Ca!Written(w)[x])
      BY <1>6
    <3> QED
      BY <3>1, CartAssumption DEF CartRow
  <2>4. CASE x = p
    BY <1>1, <1>6, <1>10, <1>11, <2>1, <2>2, <2>4, CartAssumption
  <2>5. CASE x # p
    BY <1>1, <1>6, <1>11, <2>1, <2>2, <2>3, <2>5
  <2> QED
    BY <2>4, <2>5
<1> QED
  BY <1>1, <1>6, <1>7, <1>11, <1>12 DEF WriteGood, CartGood

(***************************************************************************)
(* updateItem and removeItem leave what the client says, and nothing that  *)
(* came back.                                                              *)
(***************************************************************************)
LEMMA SetGood ==
  ASSUME CartGood(cart, asked, source, bought), NEW p \in CartProducts,
         NEW w, w.product = p,
         \/ /\ w.op = "update" /\ w.quantity \in 1 .. MaxInCart
            /\ w.save = [Ca!NothingSaved EXCEPT ![p] = Ca!RowWith(p, w.quantity)]
         \/ /\ w.op = "remove" /\ w.quantity = 0
            /\ w.save = Ca!NothingSaved
            /\ w.drop = [Ca!NothingDropped EXCEPT ![p] = cart[p].id]
  PROVE  WriteGood(w)
<1>1. /\ \A x \in CartProducts : CartRow(cart[x]) /\ cart[x].quantity \in Nat
      /\ asked \in Ca!Lines /\ source \in [CartProducts -> SUBSET CartOrders]
      /\ bought \in [CartOrders -> Ca!Purchase]
      /\ \A x \in CartProducts : asked[x] \in Nat
      /\ w.quantity \in 0 .. MaxInCart /\ w.quantity \in Nat
  BY CartAssumption DEF CartGood, CartRow, Ca!Lines
<1>2. w.op = "update" => /\ CartRow(Ca!RowWith(p, w.quantity))
                         /\ Ca!RowWith(p, w.quantity).quantity = w.quantity
                         /\ Ca!RowWith(p, w.quantity) # Ca!NoLine
  BY <1>1, RowIs
<1>3. /\ \A x \in CartProducts : x # p => w.save[x] = Ca!NoLine
      /\ w.op = "update" => w.save[p] = Ca!RowWith(p, w.quantity)
      /\ w.op = "remove" => w.save[p] = Ca!NoLine /\ w.drop[p] = cart[p].id
      /\ w.op \in {"update", "remove"}
  BY DEF Ca!NothingSaved, Ca!NothingDropped
<1>4. w.op # "checkout" /\ \A x \in CartProducts : w.save[x] # Ca!NoLine => CartRow(w.save[x])
  BY <1>2, <1>3
<1>5. /\ Ca!Written(w) = [x \in CartProducts |-> Ca!Written(w)[x]]
      /\ \A x \in CartProducts :
           /\ CartRow(Ca!Written(w)[x])
           /\ w.save[x] = Ca!NoLine => Ca!Written(w)[x].quantity <= cart[x].quantity
           /\ w.save[x] # Ca!NoLine => Ca!Written(w)[x].quantity = w.save[x].quantity
  BY <1>1, <1>4, WrittenRows
<1>6. Ca!Written(w)[p].quantity = w.quantity
  <2>1. CASE w.op = "update"
    BY <1>2, <1>3, <1>5, <2>1
  <2>2. CASE w.op = "remove"
    <3>1. Ca!Written(w)[p] = Ca!NoLine
      BY <1>3, <1>4, <2>2, WrittenIs
    <3> QED
      BY <2>2, <3>1 DEF Ca!NoLine
  <2> QED
    BY <1>3, <2>1, <2>2
<1>7. PICK a : a = Ca!AskedAfter(w)
  OBVIOUS
<1>8. PICK s : s = Ca!SourceAfter(w)
  OBVIOUS
<1>9. a \in Ca!Lines /\ \A x \in CartProducts : a[x] = IF x = p THEN w.quantity ELSE asked[x]
  <2>1. a = [asked EXCEPT ![p] = w.quantity]
    BY <1>3, <1>7 DEF Ca!AskedAfter
  <2> QED
    BY <1>1, <2>1 DEF Ca!Lines
<1>10. /\ s \in [CartProducts -> SUBSET CartOrders]
       /\ \A x \in CartProducts : s[x] = IF x = p THEN {} ELSE source[x]
  <2>1. s = [source EXCEPT ![p] = {}]
    BY <1>3, <1>8 DEF Ca!SourceAfter
  <2> QED
    BY <1>1, <2>1
<1>11. BoughtAfter(w) = bought
  BY <1>3 DEF BoughtAfter
<1>12. ASSUME NEW x \in CartProducts
       PROVE  Ca!Written(w)[x].quantity <= a[x] + Brought(x, bought, s)
  <2>1. Brought(x, bought, s) \in Nat
    BY <1>1, <1>10, BroughtBounds
  <2>2. CASE x = p
    BY <1>1, <1>6, <1>9, <2>1, <2>2
  <2>3. CASE x # p
    <3>1. Brought(x, bought, s) = Brought(x, bought, source)
      BY <1>10, <2>3 DEF Brought
    <3>2. cart[x].quantity <= asked[x] + Brought(x, bought, source)
      BY DEF CartGood
    <3>3. Ca!Written(w)[x].quantity \in Nat
      <4>1. CartRow(Ca!Written(w)[x])
        BY <1>5
      <4> QED
        BY <4>1, CartAssumption DEF CartRow
    <3> QED
      BY <1>1, <1>3, <1>5, <1>9, <2>1, <2>3, <3>1, <3>2, <3>3
  <2> QED
    BY <2>2, <2>3
<1> QED
  BY <1>1, <1>5, <1>7, <1>8, <1>9, <1>10, <1>11, <1>12 DEF WriteGood, CartGood

(***************************************************************************)
(* An empty cart exceeds nothing: after checkout and after clear.          *)
(***************************************************************************)
LEMMA EmptyGood ==
  ASSUME NEW b \in [CartOrders -> Ca!Purchase]
  PROVE  CartGood(Ca!NothingSaved, Ca!NoLines, [p \in CartProducts |-> {}], b)
<1>1. CartRow(Ca!NoLine) /\ Ca!NoLine.quantity = 0
  BY CartAssumption DEF CartRow, Ca!NoLine
<1>2. PICK s : s = [p \in CartProducts |-> {}]
  OBVIOUS
<1>3. /\ s \in [CartProducts -> SUBSET CartOrders] /\ Ca!NoLines \in Ca!Lines
      /\ \A p \in CartProducts : Ca!NoLines[p] = 0 /\ Ca!NothingSaved[p] = Ca!NoLine
      /\ Ca!NothingSaved = [p \in CartProducts |-> Ca!NothingSaved[p]]
  BY <1>2, CartAssumption DEF Ca!NoLines, Ca!Lines, Ca!NothingSaved
<1>4. \A p \in CartProducts : Brought(p, b, s) \in Nat
  BY <1>3, BroughtBounds
<1>5. \A p \in CartProducts : Ca!NothingSaved[p].quantity <= Ca!NoLines[p] + Brought(p, b, s)
  BY <1>1, <1>3, <1>4
<1>6. \A p \in CartProducts : CartRow(Ca!NothingSaved[p])
  BY <1>1, <1>3
<1>7. CartGood(Ca!NothingSaved, Ca!NoLines, s, b)
  BY <1>3, <1>5, <1>6 DEF CartGood
<1> QED
  BY <1>2, <1>7

(***************************************************************************)
(* checkout turns the whole cart into an order.                            *)
(***************************************************************************)
LEMMA CheckoutGood ==
  ASSUME CartGood(cart, asked, source, bought), NEW o \in CartOrders,
         NEW w, w.op = "checkout", w.order = o, w.to = "pending", w.lines = Ca!getCart
  PROVE  WriteGood(w)
<1>1. w.lines \in Ca!Lines
  BY DEF Ca!getCart, Ca!Lines, CartGood, CartRow
<1>2. BoughtAfter(w) \in [CartOrders -> Ca!Purchase]
  BY <1>1 DEF BoughtAfter, CartGood, Ca!Purchase
<1>3. /\ Ca!Written(w) = Ca!NothingSaved /\ Ca!AskedAfter(w) = Ca!NoLines
      /\ Ca!SourceAfter(w) = [p \in CartProducts |-> {}]
  BY DEF Ca!Written, Ca!NothingSaved, Ca!AskedAfter, Ca!SourceAfter
<1> QED
  BY <1>2, <1>3, EmptyGood DEF WriteGood

(***************************************************************************)
(* The lines of an order come back, and leave when it is revived: what     *)
(* other orders brought is the same.                                       *)
(***************************************************************************)
LEMMA BroughtMoves ==
  ASSUME NEW p \in CartProducts, NEW b \in [CartOrders -> Ca!Purchase],
         NEW d \in [CartOrders -> Ca!Purchase], \A x \in CartOrders : d[x].lines = b[x].lines,
         NEW s \in [CartProducts -> SUBSET CartOrders],
         NEW t \in [CartProducts -> SUBSET CartOrders], NEW o \in CartOrders
  PROVE  /\ s[p] \subseteq t[p] => Brought(p, b, s) <= Brought(p, d, t)
         /\ s[p] \subseteq t[p] \cup {o} =>
              Brought(p, b, s) <= Brought(p, d, t) \/ Brought(p, b, s) = b[o].lines[p]
<1>1. /\ Brought(p, b, s) \in Nat /\ Brought(p, d, t) \in Nat
      /\ \A x \in t[p] : d[x].lines[p] <= Brought(p, d, t)
      /\ Brought(p, b, s) = 0 \/ \E x \in s[p] : Brought(p, b, s) = b[x].lines[p]
  BY BroughtBounds
<1>2. CASE Brought(p, b, s) = 0
  BY <1>1, <1>2
<1>3. ASSUME NEW x \in s[p], Brought(p, b, s) = b[x].lines[p]
      PROVE  x \in t[p] => Brought(p, b, s) <= Brought(p, d, t)
  <2>1. x \in CartOrders
    OBVIOUS
  <2> QED
    BY <1>1, <1>3, <2>1
<1> QED
  BY <1>1, <1>2, <1>3

(***************************************************************************)
(* A cancelled or expired order brings its lines back: the larger quantity *)
(* stays.                                                                  *)
(***************************************************************************)
LEMMA ReturnGood ==
  ASSUME CartGood(cart, asked, source, bought), NEW o \in CartOrders,
         NEW to \in {"cancelled", "expired"},
         NEW w, w.op = "return", w.order = o, w.to = to, w.lines = bought[o].lines,
         w.save = Ca!devolverAlCarrito(bought[o].lines)
  PROVE  WriteGood(w)
<1> DEFINE lines == bought[o].lines
<1>1. /\ \A x \in CartProducts : CartRow(cart[x]) /\ cart[x].quantity \in Nat
      /\ asked \in Ca!Lines /\ source \in [CartProducts -> SUBSET CartOrders]
      /\ bought \in [CartOrders -> Ca!Purchase] /\ lines \in Ca!Lines
      /\ \A x \in CartProducts : asked[x] \in Nat /\ lines[x] \in 0 .. MaxInCart /\ lines[x] \in Nat
  BY CartAssumption DEF CartGood, CartRow, Ca!Lines, Ca!Purchase
<1>2. ASSUME NEW x \in CartProducts, lines[x] > cart[x].quantity
      PROVE  /\ CartRow(Ca!RowWith(x, lines[x])) /\ Ca!RowWith(x, lines[x]).quantity = lines[x]
             /\ Ca!RowWith(x, lines[x]) # Ca!NoLine
  <2>1. lines[x] \in 1 .. MaxInCart
    BY <1>1, <1>2, CartAssumption
  <2> QED
    BY <1>1, <2>1, RowIs
<1>3. \A x \in CartProducts :
        w.save[x] = IF lines[x] > cart[x].quantity THEN Ca!RowWith(x, lines[x]) ELSE Ca!NoLine
  BY DEF Ca!devolverAlCarrito
<1>4. w.op # "checkout" /\ \A x \in CartProducts : w.save[x] # Ca!NoLine => CartRow(w.save[x])
  BY <1>2, <1>3
<1>5. /\ Ca!Written(w) = [x \in CartProducts |-> Ca!Written(w)[x]]
      /\ \A x \in CartProducts :
           /\ CartRow(Ca!Written(w)[x])
           /\ w.save[x] = Ca!NoLine => Ca!Written(w)[x].quantity <= cart[x].quantity
           /\ w.save[x] # Ca!NoLine => Ca!Written(w)[x].quantity = w.save[x].quantity
  BY <1>1, <1>4, WrittenRows
<1>6. PICK s : s = Ca!SourceAfter(w)
  OBVIOUS
<1>7. PICK b : b = BoughtAfter(w)
  OBVIOUS
<1>8. /\ s \in [CartProducts -> SUBSET CartOrders]
      /\ \A x \in CartProducts : s[x] = IF lines[x] > 0 THEN source[x] \cup {o} ELSE source[x]
  <2>1. s = [x \in CartProducts |-> IF lines[x] > 0 THEN source[x] \cup {o} ELSE source[x]]
    BY <1>6 DEF Ca!SourceAfter
  <2> QED
    BY <1>1, <2>1
<1>9. /\ b \in [CartOrders -> Ca!Purchase]
      /\ \A x \in CartOrders : b[x].lines = bought[x].lines
  <2>1. b = [bought EXCEPT ![o] = [status |-> to, lines |-> lines]]
    BY <1>7 DEF BoughtAfter
  <2> QED
    BY <1>1, <2>1 DEF Ca!Purchase
<1>10. Ca!AskedAfter(w) = asked
  BY DEF Ca!AskedAfter
<1>11. ASSUME NEW x \in CartProducts
       PROVE  Ca!Written(w)[x].quantity <= asked[x] + Brought(x, b, s)
  <2>1. /\ Brought(x, b, s) \in Nat /\ Brought(x, bought, source) \in Nat
        /\ \A k \in s[x] : b[k].lines[x] <= Brought(x, b, s)
    BY <1>1, <1>8, <1>9, BroughtBounds
  <2>2. Brought(x, bought, source) <= Brought(x, b, s)
    BY <1>1, <1>8, <1>9, BroughtMoves
  <2>3. cart[x].quantity <= asked[x] + Brought(x, bought, source)
    BY DEF CartGood
  <2>4. Ca!Written(w)[x].quantity \in Nat
    <3>1. CartRow(Ca!Written(w)[x])
      BY <1>5
    <3> QED
      BY <3>1, CartAssumption DEF CartRow
  <2>5. CASE lines[x] > cart[x].quantity
    <3>1. Ca!Written(w)[x].quantity = lines[x] /\ lines[x] > 0
      BY <1>1, <1>2, <1>3, <1>5, <2>5
    <3>2. lines[x] <= Brought(x, b, s)
      BY <1>8, <1>9, <2>1, <3>1
    <3> QED
      BY <1>1, <2>1, <3>1, <3>2
  <2>6. CASE ~ (lines[x] > cart[x].quantity)
    <3>1. Ca!Written(w)[x].quantity <= cart[x].quantity
      BY <1>3, <1>5, <2>6
    <3> QED
      BY <1>1, <2>1, <2>2, <2>3, <2>4, <3>1
  <2> QED
    BY <2>5, <2>6
<1> QED
  BY <1>1, <1>5, <1>6, <1>7, <1>8, <1>9, <1>10, <1>11 DEF WriteGood, CartGood

(***************************************************************************)
(* A revived order takes its lines out again.                              *)
(***************************************************************************)
LEMMA ReviveGood ==
  ASSUME CartGood(cart, asked, source, bought), NEW o \in CartOrders,
         NEW w, w.op = "revive", w.order = o, w.to = "pending", w.lines = bought[o].lines,
         w.save = Ca!quitarDelCarrito(bought[o].lines).save,
         w.drop = Ca!quitarDelCarrito(bought[o].lines).drop
  PROVE  WriteGood(w)
<1> DEFINE lines == bought[o].lines
           rest(x) == cart[x].quantity - lines[x]
<1>1. /\ \A x \in CartProducts : CartRow(cart[x]) /\ cart[x].quantity \in Nat
                                 /\ cart[x].quantity <= MaxInCart
      /\ asked \in Ca!Lines /\ source \in [CartProducts -> SUBSET CartOrders]
      /\ bought \in [CartOrders -> Ca!Purchase] /\ lines \in Ca!Lines
      /\ \A x \in CartProducts : asked[x] \in Nat /\ lines[x] \in Nat
  BY CartAssumption DEF CartGood, CartRow, Ca!Lines, Ca!Purchase
<1>2. ASSUME NEW x \in CartProducts, lines[x] > 0, cart[x].quantity > lines[x]
      PROVE  /\ CartRow(Ca!RowWith(x, rest(x))) /\ Ca!RowWith(x, rest(x)).quantity = rest(x)
             /\ Ca!RowWith(x, rest(x)) # Ca!NoLine
  <2>1. rest(x) \in 1 .. MaxInCart
    BY <1>1, <1>2, CartAssumption
  <2> QED
    BY <1>1, <2>1, RowIs
<1>3. \A x \in CartProducts :
        /\ w.save[x] = IF lines[x] > 0 /\ cart[x].quantity > lines[x]
                       THEN Ca!RowWith(x, rest(x)) ELSE Ca!NoLine
        /\ w.drop[x] = IF lines[x] > 0 /\ cart[x].quantity <= lines[x] THEN cart[x].id ELSE 0
  BY DEF Ca!quitarDelCarrito
<1>4. w.op # "checkout" /\ \A x \in CartProducts : w.save[x] # Ca!NoLine => CartRow(w.save[x])
  BY <1>2, <1>3
<1>5. /\ Ca!Written(w) = [x \in CartProducts |-> Ca!Written(w)[x]]
      /\ \A x \in CartProducts :
           /\ CartRow(Ca!Written(w)[x])
           /\ w.save[x] = Ca!NoLine => Ca!Written(w)[x].quantity <= cart[x].quantity
           /\ w.save[x] # Ca!NoLine => Ca!Written(w)[x].quantity = w.save[x].quantity
  BY <1>1, <1>4, WrittenRows
<1>6. PICK s : s = Ca!SourceAfter(w)
  OBVIOUS
<1>7. PICK b : b = BoughtAfter(w)
  OBVIOUS
<1>8. /\ s \in [CartProducts -> SUBSET CartOrders]
      /\ \A x \in CartProducts : s[x] = source[x] \ {o}
  <2>1. s = [x \in CartProducts |-> source[x] \ {o}]
    BY <1>6 DEF Ca!SourceAfter
  <2> QED
    BY <1>1, <2>1
<1>9. /\ b \in [CartOrders -> Ca!Purchase]
      /\ \A x \in CartOrders : b[x].lines = bought[x].lines
  <2>1. b = [bought EXCEPT ![o] = [status |-> "pending", lines |-> lines]]
    BY <1>7 DEF BoughtAfter
  <2> QED
    BY <1>1, <2>1 DEF Ca!Purchase
<1>10. Ca!AskedAfter(w) = asked
  BY DEF Ca!AskedAfter
<1>11. ASSUME NEW x \in CartProducts
       PROVE  Ca!Written(w)[x].quantity <= asked[x] + Brought(x, b, s)
  <2>1. Brought(x, b, s) \in Nat /\ Brought(x, bought, source) \in Nat
    BY <1>1, <1>8, <1>9, BroughtBounds
  <2>2. Brought(x, bought, source) <= Brought(x, b, s) \/ Brought(x, bought, source) = lines[x]
    <3>1. source[x] \subseteq s[x] \cup {o}
      BY <1>8
    <3> QED
      BY <1>1, <1>8, <1>9, <3>1, BroughtMoves
  <2>3. cart[x].quantity <= asked[x] + Brought(x, bought, source)
    BY DEF CartGood
  <2>4. Ca!Written(w)[x].quantity \in Nat
    <3>1. CartRow(Ca!Written(w)[x])
      BY <1>5
    <3> QED
      BY <3>1, CartAssumption DEF CartRow
  <2>5. CASE lines[x] = 0
    <3>1. Ca!Written(w)[x].quantity <= cart[x].quantity
      BY <1>3, <1>5, <2>5
    <3> QED
      BY <1>1, <2>1, <2>2, <2>3, <2>4, <2>5, <3>1
  <2>6. CASE lines[x] > 0 /\ cart[x].quantity > lines[x]
    <3>1. Ca!Written(w)[x].quantity = cart[x].quantity - lines[x]
      BY <1>2, <1>3, <1>5, <2>6
    <3> QED
      BY <1>1, <2>1, <2>2, <2>3, <2>6, <3>1
  <2>7. CASE lines[x] > 0 /\ cart[x].quantity <= lines[x]
    <3>1. w.save[x] = Ca!NoLine /\ w.drop[x] = cart[x].id
      BY <1>1, <1>3, <2>7
    <3>2. Ca!Written(w)[x] = Ca!NoLine
      BY <1>4, <3>1, WrittenIs
    <3> QED
      BY <1>1, <2>1, <3>2 DEF Ca!NoLine
  <2> QED
    BY <1>1, <2>5, <2>6, <2>7
<1> QED
  BY <1>1, <1>5, <1>6, <1>7, <1>8, <1>9, <1>10, <1>11 DEF WriteGood, CartGood

(***************************************************************************)
(* A handler that starts, with a write that is right.                      *)
(***************************************************************************)
LEMMA CartBegins ==
  ASSUME NEW r, CartRequests = {r}, CartInv, NEW w, WriteGood(w), Ca!Begin(r, w)
  PROVE  CartInv'
<1>1. pending' = [x \in CartRequests |-> pending'[x]] /\ pending'[r] = w
  BY DEF CartInv, Ca!Begin
<1>2. UNCHANGED <<cart, bought, asked, source>>
  BY DEF Ca!Begin
<1>3. CartGood(cart', asked', source', bought')
  BY <1>2 DEF CartInv
<1>4. (WriteGood(pending[r]))'
  <2>1. CartGood(Ca!Written(w), Ca!AskedAfter(w), Ca!SourceAfter(w), BoughtAfter(w))
    BY DEF WriteGood
  <2>2. /\ Ca!Written(pending[r])' = Ca!Written(w)
        /\ Ca!AskedAfter(pending[r])' = Ca!AskedAfter(w)
        /\ Ca!SourceAfter(pending[r])' = Ca!SourceAfter(w)
        /\ BoughtAfter(pending[r])' = BoughtAfter(w)
    BY <1>1, <1>2 DEF Ca!Written, Ca!AskedAfter, Ca!SourceAfter, BoughtAfter
  <2> QED
    BY <2>1, <2>2 DEF WriteGood
<1> QED
  BY <1>1, <1>3, <1>4 DEF CartInv

(***************************************************************************)
(* Of requests that come one after the other, each keeps the cart right.   *)
(***************************************************************************)
LEMMA CartStepKeeps ==
  ASSUME NEW r, CartRequests = {r}, CartInv, Ca!Next
  PROVE  CartInv'
<1>1. CartGood(cart, asked, source, bought) /\ (pending[r] # Ca!Idle => WriteGood(pending[r]))
  BY DEF CartInv
<1>2. CASE Ca!Clear(r)
  <2>1. /\ cart' = Ca!NothingSaved /\ asked' = Ca!NoLines /\ source' = [p \in CartProducts |-> {}]
        /\ bought' = bought /\ pending' = pending /\ pending[r] = Ca!Idle
    BY <1>2 DEF Ca!Clear
  <2>2. CartGood(cart', asked', source', bought')
    BY <1>1, <2>1, EmptyGood DEF CartGood
  <2> QED
    BY <2>1, <2>2 DEF CartInv, Ca!Idle
<1>3. ASSUME NEW p \in CartProducts, NEW q \in 1 .. MaxInCart, Ca!AddItem(r, p, q)
      PROVE  CartInv'
  <2>1. PICK w : w = [Ca!Plain("add", p, q, Ca!SomeOrder) EXCEPT
                        !.save[p] = Ca!RowWith(p, cart[p].quantity + q)]
    OBVIOUS
  <2>2. Ca!Begin(r, w) /\ cart[p].quantity + q <= MaxInCart
    BY <1>3, <2>1 DEF Ca!AddItem
  <2> QED
    BY <1>1, <2>1, <2>2, AddGood, CartBegins
<1>4. ASSUME NEW p \in CartProducts, NEW q \in 1 .. MaxInCart, Ca!UpdateItem(r, p, q)
      PROVE  CartInv'
  <2>1. PICK w : w = [Ca!Plain("update", p, q, Ca!SomeOrder) EXCEPT !.save[p] = Ca!RowWith(p, q)]
    OBVIOUS
  <2>2. Ca!Begin(r, w)
    BY <1>4, <2>1 DEF Ca!UpdateItem
  <2>3. /\ w.op = "update" /\ w.product = p /\ w.quantity = q
        /\ w.save = [Ca!NothingSaved EXCEPT ![p] = Ca!RowWith(p, w.quantity)]
    BY <2>1 DEF Ca!Plain
  <2>4. WriteGood(w)
    BY <1>1, <2>3, SetGood
  <2> QED
    BY <2>2, <2>4, CartBegins
<1>5. ASSUME NEW p \in CartProducts, Ca!RemoveItem(r, p)
      PROVE  CartInv'
  <2>1. PICK w : w = [Ca!Plain("remove", p, 0, Ca!SomeOrder) EXCEPT !.drop[p] = cart[p].id]
    OBVIOUS
  <2>2. Ca!Begin(r, w)
    BY <1>5, <2>1 DEF Ca!RemoveItem
  <2>3. /\ w.op = "remove" /\ w.product = p /\ w.quantity = 0
        /\ w.save = Ca!NothingSaved
        /\ w.drop = [Ca!NothingDropped EXCEPT ![p] = cart[p].id]
    BY <2>1 DEF Ca!Plain
  <2>4. WriteGood(w)
    BY <1>1, <2>3, SetGood
  <2> QED
    BY <2>2, <2>4, CartBegins
<1>6. ASSUME NEW o \in CartOrders, Ca!Checkout(r, o)
      PROVE  CartInv'
  <2>1. PICK w : w = [Ca!Plain("checkout", Ca!SomeProduct, 0, o) EXCEPT
                        !.to = "pending", !.lines = Ca!getCart]
    OBVIOUS
  <2>2. Ca!Begin(r, w)
    BY <1>6, <2>1 DEF Ca!Checkout
  <2>3. w.op = "checkout" /\ w.order = o /\ w.to = "pending" /\ w.lines = Ca!getCart
    BY <2>1 DEF Ca!Plain
  <2>4. WriteGood(w)
    BY <1>1, <2>3, CheckoutGood
  <2> QED
    BY <2>2, <2>4, CartBegins
<1>7. ASSUME NEW o \in CartOrders, NEW to \in {"cancelled", "expired"}, Ca!Return(r, o, to)
      PROVE  CartInv'
  <2>1. PICK w : w = [Ca!Plain("return", Ca!SomeProduct, 0, o) EXCEPT
                        !.to = to, !.lines = bought[o].lines,
                        !.save = Ca!devolverAlCarrito(bought[o].lines)]
    OBVIOUS
  <2>2. Ca!Begin(r, w)
    BY <1>7, <2>1 DEF Ca!Return
  <2>3. /\ w.op = "return" /\ w.order = o /\ w.to = to /\ w.lines = bought[o].lines
        /\ w.save = Ca!devolverAlCarrito(bought[o].lines)
    BY <2>1 DEF Ca!Plain
  <2>4. WriteGood(w)
    BY <1>1, <2>3, ReturnGood
  <2> QED
    BY <2>2, <2>4, CartBegins
<1>8. ASSUME NEW o \in CartOrders, Ca!Revive(r, o)
      PROVE  CartInv'
  <2>1. PICK out : out = Ca!quitarDelCarrito(bought[o].lines)
    OBVIOUS
  <2>2. PICK w : w = [Ca!Plain("revive", Ca!SomeProduct, 0, o) EXCEPT
                        !.to = "pending", !.lines = bought[o].lines,
                        !.save = out.save, !.drop = out.drop]
    OBVIOUS
  <2>3. Ca!Begin(r, w)
    BY <1>8, <2>1, <2>2 DEF Ca!Revive
  <2>4. /\ w.op = "revive" /\ w.order = o /\ w.to = "pending" /\ w.lines = bought[o].lines
        /\ w.save = out.save /\ w.drop = out.drop
    BY <2>2 DEF Ca!Plain
  <2>5. WriteGood(w)
    BY <1>1, <2>1, <2>4, ReviveGood
  <2> QED
    BY <2>3, <2>5, CartBegins
<1>9. CASE Ca!Commit(r)
  <2>1. WriteGood(pending[r])
    BY <1>1, <1>9 DEF Ca!Commit
  <2>2. /\ cart' = Ca!Written(pending[r]) /\ asked' = Ca!AskedAfter(pending[r])
        /\ source' = Ca!SourceAfter(pending[r]) /\ bought' = BoughtAfter(pending[r])
        /\ pending' = [pending EXCEPT ![r] = Ca!Idle]
    BY <1>9 DEF Ca!Commit, BoughtAfter
  <2>3. CartGood(cart', asked', source', bought')
    BY <2>1, <2>2 DEF WriteGood
  <2>4. pending' = [x \in CartRequests |-> pending'[x]] /\ pending'[r] = Ca!Idle
    BY <2>2 DEF CartInv
  <2> QED
    BY <2>3, <2>4 DEF CartInv, Ca!Idle
<1>10. CASE Ca!Abort(r)
  <2>1. /\ pending' = [pending EXCEPT ![r] = Ca!Idle]
        /\ UNCHANGED <<cart, bought, asked, source>>
    BY <1>10 DEF Ca!Abort
  <2>2. pending' = [x \in CartRequests |-> pending'[x]] /\ pending'[r] = Ca!Idle
    BY <2>1 DEF CartInv
  <2>3. CartGood(cart', asked', source', bought')
    BY <1>1, <2>1
  <2> QED
    BY <2>2, <2>3 DEF CartInv, Ca!Idle
<1> QED
  BY <1>2, <1>3, <1>4, <1>5, <1>6, <1>7, <1>8, <1>9, <1>10 DEF Ca!Next

(***************************************************************************)
(* A client starts with an empty cart and no orders.                       *)
(***************************************************************************)
LEMMA CartInit == Ca!Init => CartInv
<1> SUFFICES ASSUME Ca!Init PROVE CartInv
  OBVIOUS
<1>1. bought \in [CartOrders -> Ca!Purchase]
  BY CartAssumption DEF Ca!Init, Ca!Purchase, Ca!Lines, Ca!NoLines
<1>2. CartGood(cart, asked, source, bought)
  BY <1>1, EmptyGood DEF Ca!Init
<1> QED
  BY <1>2 DEF Ca!Init, CartInv

(***************************************************************************)
(* For a client whose requests come one after the other, with the sweep    *)
(* and the late payments among them: however often orders expire, are      *)
(* cancelled, revived and made again, and whichever transactions roll      *)
(* back, a line of the cart holds no more than what was put in by hand     *)
(* plus the largest of the orders that came back into it.                  *)
(***************************************************************************)
THEOREM UnitsReturnOnce ==
  ASSUME NEW r, CartRequests = {r}
  PROVE  Spec => []NoExcess
<1>1. Init => CartInv
  BY CartInit DEF Init
<1>2. CartInv /\ [Next]_vars => CartInv'
  <2> SUFFICES ASSUME CartInv, [Next]_vars PROVE CartInv'
    OBVIOUS
  <2>1. CASE CartStep
    BY <2>1, CartStepKeeps DEF CartStep
  <2>2. CASE UNCHANGED cartVars
    <3>1. /\ cart' = cart /\ asked' = asked /\ source' = source /\ bought' = bought
          /\ pending' = pending
      BY <2>2 DEF cartVars
    <3>2. ASSUME NEW w PROVE WriteGood(w)' <=> WriteGood(w)
      BY <3>1 DEF WriteGood, Ca!Written, Ca!AskedAfter, Ca!SourceAfter, BoughtAfter
    <3>3. CartGood(cart', asked', source', bought') /\ pending' = [q \in CartRequests |-> pending'[q]]
      BY <3>1 DEF CartInv
    <3>4. \A q \in CartRequests : pending'[q] # Ca!Idle => WriteGood(pending[q])'
      BY <3>1, <3>2 DEF CartInv
    <3> QED
      BY <3>3, <3>4 DEF CartInv
  <2> QED
    BY <2>1, <2>2 DEF Next, vars, AttemptStep, PromiseStep, DeliveryStep, CatalogueStep,
                      ContentStep, MailStep
<1>3. CartInv => NoExcess
  BY DEF CartInv, CartGood, Brought, NoExcess, Ca!NoExcess
<1> QED
  BY <1>1, <1>2, <1>3, PTL DEF Spec
=============================================================================
