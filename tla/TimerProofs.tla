----------------------------- MODULE TimerProofs -----------------------------
(***************************************************************************)
(* Proofs about Timer, for wheels of any sizes and any timers: how often a *)
(* timer is called, in which slot it waits, and when it is dispatched.     *)
(*                                                                         *)
(* A timer in near waits for tick to reach its slot.  One in far[l] waits  *)
(* for expand() to open its slot; the invariant says that this comes in    *)
(* time, and that the slot opens exactly when the wait that is left fits   *)
(* the wheels below.  The arithmetic of slots is that of numbers written   *)
(* with digits of different weights, Span[l].                              *)
(***************************************************************************)
EXTENDS Timer, WellFoundedInduction, TLAPS

-----------------------------------------------------------------------------
(* The invariants                                                          *)

\* No timer stands in a slot before addTimeCall has given out its id.
OnlyGiven ==
    /\ \A s \in 0..Near - 1 : near[s] \subseteq 1..lastID
    /\ \A l \in Lvls : \A s \in 0..Far - 1 : far[l][s] \subseteq 1..lastID

Typed == TypeOK /\ OnlyGiven

\* The callback of a timer is reset when, and only when, remove() has found it;
\* until then its calls add up, and one with finite times never counts below 0.
CountedOne(id) ==
    /\ callback[id] <=> id \notin stopped
    /\ times[id] > 0 => remainTimes[id] >= 0
    /\ id \notin stopped /\ times[id] > 0 =>
            times[id] = calls[id] + OnItsWay(id) + remainTimes[id]

Counted == Typed /\ \A id \in 1..lastID : CountedOne(id)

\* A timer that is scheduled has a call left, and one that is due at once has
\* no other.
Alive ==
    \A id \in scheduleList :
        /\ remainTimes[id] # 0
        /\ interval[id] = 0 => remainTimes[id] = 1

\* What stands in the wheels and has calls left is scheduled.
Ended ==
    \A id \in Ids :
        Places(id) # {} /\ remainTimes[id] # 0 => id \in scheduleList

\* How many ticks a timer in the wheel has still to wait.  One with an
\* interval of 0 has none, unless it missed the slot and waits a turn.
Left(id) ==
    IF interval[id] # 0 THEN interval[id] - elapsed[id]
    ELSE IF elapsed[id] = 0 /\ timerPc # "tick" THEN 0 ELSE Near - elapsed[id]

\* A timer in near stands in the slot that tick reaches when it is due.
WaitsNear(id, s) ==
    /\ Left(id) \in IF timerPc = "tick" THEN 1..Near ELSE 0..Near - 1
    /\ s = (tick + Left(id)) % Near

\* A timer in far[l] stands in the slot that expand() empties while it has
\* some ticks to wait, fewer than those of a slot of l, and before the wheel
\* has turned once.
WaitsFar(id, l, s) ==
    /\ interval[id] # 0
    /\ index[id] = (tick + Left(id)) % Turn
    /\ s = Digit(index[id], l)
    /\ Left(id) - (index[id] % Span[l - 1])
            \in (IF timerPc = "expand" THEN 0 ELSE 1)..Span[l] - 1

\* A timer waits in one slot, or in none and then for ever.
Waits(id) ==
    \/ /\ interval[id] < Turn
       /\ \E s \in 0..Near - 1 : Places(id) = {<<0, s>>} /\ WaitsNear(id, s)
    \/ /\ interval[id] < Turn
       /\ \E l \in Lvls : \E s \in 0..Far - 1 :
              Places(id) = {<<l, s>>} /\ WaitsFar(id, l, s)
    \/ interval[id] >= Turn /\ Places(id) = {} /\ elapsed[id] = 0

InPlace == \A id \in scheduleList : Waits(id)

Wheels == Typed /\ Alive /\ Ended /\ InPlace

-----------------------------------------------------------------------------
(* Division                                                                *)

\* A set of naturals that is not empty has a smallest element: what stands in
\* here for a proof by induction.
LEMMA Smallest ==
    ASSUME NEW T \in SUBSET Nat, T # {}
    PROVE  \E x \in T : \A y \in T : x <= y
<1> DEFINE R == OpToRel(<, Nat)
<1>1. \E x \in T : \A y \in T : ~(<<y, x>> \in R)
    BY WFMin, NatLessThanWellFounded
<1>2. \A x, y \in T : <<y, x>> \in R <=> y < x
    BY DEF OpToRel
<1>3. \A x, y \in T : ~(y < x) => x <= y
    OBVIOUS
<1> HIDE DEF R
<1> QED BY <1>1, <1>2, <1>3

\* Quotient and remainder.
LEMMA DivMod ==
    ASSUME NEW a \in Int, NEW b \in Nat, b > 0
    PROVE  /\ a % b \in 0..b - 1 /\ a \div b \in Int
           /\ a = b * (a \div b) + (a % b)
    OBVIOUS

\* Over a grid of pitch b, the next point after x is not past y.
LEMMA Less ==
    ASSUME NEW b \in Nat, NEW x \in Int, NEW y \in Int, x < y
    PROVE  b * x + b <= b * y
    OBVIOUS

\* They are the only numbers of their kind.
LEMMA DivModUnique ==
    ASSUME NEW a \in Int, NEW b \in Nat, b > 0, NEW q \in Int, NEW r \in 0..b - 1,
           a = b * q + r
    PROVE  a \div b = q /\ a % b = r
<1>1. PICK qq \in Int, rr \in 0..b - 1 : qq = a \div b /\ rr = a % b /\ a = b * qq + rr
    BY DivMod
<1>2. ~(q < qq) BY <1>1, Less
<1>3. ~(qq < q) BY <1>1, Less
<1>4. q = qq BY <1>2, <1>3
<1> QED BY <1>1, <1>4

LEMMA ModSmall ==
    ASSUME NEW b \in Nat, NEW a \in 0..b - 1
    PROVE  a % b = a
<1>1. b > 0 /\ a = b * 0 + a
    OBVIOUS
<1> QED BY <1>1, DivModUnique

\* Two numbers that differ by a multiple of b.
Congruent(a, c, b) == \E q \in Int : a = c + b * q

LEMMA ModSame ==
    ASSUME NEW a \in Int, NEW c \in Int, NEW b \in Nat, b > 0, Congruent(a, c, b)
    PROVE  a % b = c % b
<1>1. PICK q \in Int : a = c + b * q
    BY DEF Congruent
<1>2. PICK d \in Int, r \in 0..b - 1 : d = c \div b /\ r = c % b /\ c = b * d + r
    BY DivMod
<1>3. a = b * (d + q) + r
    BY <1>1, <1>2
<1>4. d + q \in Int
    OBVIOUS
<1>5. a % b = r
    BY <1>3, <1>4, DivModUnique
<1> QED BY <1>2, <1>5

LEMMA ModMod ==
    ASSUME NEW a \in Int, NEW b \in Nat, b > 0, NEW q \in Nat, q > 0
    PROVE  \A c \in Nat : c = b * q => (a % c) % b = a % b
<1> SUFFICES ASSUME NEW c \in Nat
             PROVE  c = b * q => (a % c) % b = a % b
    OBVIOUS
<1>1. CASE c = b * q
  <2>1. c > 0
      BY <1>1
  <2>2. PICK d \in Int, r \in Int :
            d = a \div c /\ r = a % c /\ a = c * d + r
      BY <2>1, DivMod
  <2>3. PICK k \in Int : k = q * d
      OBVIOUS
  <2>4. c * d = b * k
      BY <1>1, <2>3
  <2>5. a = r + b * k
      BY <2>2, <2>4
  <2>6. a % b = r % b
    <3>1. Congruent(a, r, b)
        BY <2>5 DEF Congruent
    <3> QED BY <3>1, ModSame
  <2> QED BY <2>2, <2>6
<1> QED BY <1>1

LEMMA ModPlus ==
    ASSUME NEW a \in Int, NEW n \in Int, NEW b \in Nat, b > 0
    PROVE  ((a % b) + n) % b = (a + n) % b
<1>1. PICK d \in Int, r \in 0..b - 1 : d = a \div b /\ r = a % b /\ a = b * d + r
    BY DivMod
<1>2. PICK u \in Int, v \in Int : u = a + n /\ v = r + n
    BY <1>1
<1>3. u = v + b * d
    BY <1>1, <1>2
<1>4. u % b = v % b
  <2>1. Congruent(u, v, b)
      BY <1>3 DEF Congruent
  <2> QED BY <2>1, ModSame
<1> QED BY <1>1, <1>2, <1>4

\* A number modulo f * w is its digit of weight w and what is below it.
LEMMA ModDigit ==
    ASSUME NEW x \in Int, NEW w \in Nat, w > 0, NEW f \in Nat, f > 0,
           NEW s \in Nat, s = f * w
    PROVE  x % s = (x % w) + w * ((x \div w) % f)
<1>1. PICK d \in Int, m \in 0..w - 1 : d = x \div w /\ m = x % w /\ x = w * d + m
    BY DivMod
<1>2. PICK e \in Int, g \in 0..f - 1 : e = d \div f /\ g = d % f /\ d = f * e + g
    BY DivMod
<1>3. x = s * e + (m + w * g)
  <2>1. w * (f * e + g) = (f * w) * e + w * g
      OBVIOUS
  <2> QED BY <1>1, <1>2, <2>1
<1>4. m + w * g \in 0..s - 1
  <2>1. w * g + w <= w * f
      BY Less
  <2> QED BY <2>1
<1>5. s > 0
    OBVIOUS
<1>6. x % s = m + w * g
    BY <1>3, <1>4, <1>5, DivModUnique
<1> QED BY <1>1, <1>2, <1>6

-----------------------------------------------------------------------------
(* Slots and digits                                                        *)

\* What the assumptions say of the sizes of the wheels.
LEMMA Constants ==
    /\ Near \in Nat /\ Near > 0 /\ Far \in Nat /\ Far > 1
    /\ Levels \in Nat /\ Levels > 0
    /\ \A l \in 0..Levels : Span[l] \in Nat /\ Span[l] > 0
    /\ \A l \in Lvls : l - 1 \in 0..Levels /\ Span[l] = Far * Span[l - 1]
    /\ Turn \in Nat /\ Turn > 0 /\ Span[0] = Near
    /\ MaxTimers \in Nat
BY TimerAssumption DEF Lvls, Turn

LEMMA DigitRange ==
    ASSUME NEW x \in Nat, NEW l \in Lvls
    PROVE  Digit(x, l) \in 0..Far - 1
<1>1. PICK w \in Nat : w = Span[l - 1] /\ w > 0
    BY Constants
<1>2. x \div w \in Int
    BY <1>1, DivMod
<1>3. Far > 0
    BY Constants
<1>4. (x \div w) % Far \in 0..Far - 1
    BY <1>2, <1>3, Constants, DivMod
<1> QED BY <1>1, <1>4 DEF Digit

\* The turn of a wheel is a multiple of the turn of every wheel below it.
LEMMA Nested ==
    ASSUME NEW k \in 0..Levels, NEW l \in 0..Levels, k <= l
    PROVE  \E q \in Nat : q > 0 /\ Span[l] = Span[k] * q
<1> DEFINE Bad == {m \in 0..Levels : /\ k <= m
                     /\ ~\E q \in Nat : q > 0 /\ Span[m] = Span[k] * q}
<1>1. SUFFICES ASSUME Bad # {} PROVE FALSE
    OBVIOUS
<1>2. Bad \in SUBSET Nat
    BY Constants
<1>3. PICK m \in Bad : \A y \in Bad : m <= y
  <2> HIDE DEF Bad
  <2> QED BY <1>1, <1>2, Smallest
<1>4. m \in 0..Levels /\ k <= m /\ ~\E q \in Nat : q > 0 /\ Span[m] = Span[k] * q
    OBVIOUS
<1>5. m # k
  <2>1. Span[k] = Span[k] * 1
      BY Constants
  <2> QED BY <1>4, <2>1
<1>6. m - 1 \in 0..Levels /\ k <= m - 1 /\ m \in Lvls
    BY <1>4, <1>5, Constants DEF Lvls
<1>7. m - 1 \notin Bad
    BY <1>3, <1>6, Constants
<1>8. PICK q \in Nat : q > 0 /\ Span[m - 1] = Span[k] * q
    BY <1>6, <1>7
<1>9. PICK w \in Nat, v \in Nat : w = Span[k] /\ v = Span[m - 1]
    BY <1>6, Constants
<1>10. Span[m] = Far * v /\ v = w * q
    BY <1>6, <1>8, <1>9, Constants
<1>11. PICK f \in Nat : f = Far /\ f > 0
    BY Constants
<1>12. f * (w * q) = w * (f * q) /\ f * q \in Nat /\ f * q > 0
    BY <1>8, <1>11
<1>13. Span[m] = Span[k] * (f * q)
    BY <1>9, <1>10, <1>11, <1>12
<1> QED BY <1>4, <1>12, <1>13

\* A turn of wheel l is made of the slot of l and of a turn of the wheel below.
LEMMA ModLevel ==
    ASSUME NEW x \in Nat, NEW l \in Lvls
    PROVE  x % Span[l] = (x % Span[l - 1]) + Span[l - 1] * Digit(x, l)
<1>1. PICK w \in Nat, s \in Nat, f \in Nat :
          w = Span[l - 1] /\ s = Span[l] /\ f = Far
    BY Constants DEF Lvls
<1>2. w > 0 /\ f > 0 /\ s = f * w
    BY <1>1, Constants
<1>3. x % s = (x % w) + w * ((x \div w) % f)
    BY <1>2, ModDigit
<1> QED BY <1>1, <1>3 DEF Digit

\* While the digits above wheel k are 0, the wheels above it have not moved.
LEMMA ZerosBetween ==
    ASSUME NEW x \in Nat, NEW k \in 0..Levels, NEW l \in 0..Levels, k <= l,
           \A j \in k + 1..l : Digit(x, j) = 0
    PROVE  x % Span[l] = x % Span[k]
<1> DEFINE Bad == {m \in 0..Levels : k <= m /\ m <= l /\ x % Span[m] # x % Span[k]}
<1>1. SUFFICES ASSUME Bad # {} PROVE FALSE
    OBVIOUS
<1>2. Bad \in SUBSET Nat
    BY Constants
<1>3. PICK m \in Bad : \A y \in Bad : m <= y
  <2> HIDE DEF Bad
  <2> QED BY <1>1, <1>2, Smallest
<1>4. m \in 0..Levels /\ k <= m /\ m <= l /\ x % Span[m] # x % Span[k]
    OBVIOUS
<1>5. m # k
    BY <1>4
<1>6. m - 1 \in 0..Levels /\ k <= m - 1 /\ m - 1 <= l /\ m \in Lvls /\ m \in k + 1..l
    BY <1>4, <1>5, Constants DEF Lvls
<1>7. m - 1 \notin Bad
    BY <1>3, <1>6, Constants
<1>8. x % Span[m - 1] = x % Span[k]
    BY <1>6, <1>7
<1>9. Digit(x, m) = 0
    BY <1>6
<1>10. x % Span[m] = (x % Span[m - 1]) + Span[m - 1] * 0
    BY <1>6, <1>9, ModLevel
<1>11. PICK w \in Nat : w = Span[m - 1] /\ w > 0
    BY <1>6, Constants
<1>12. x % w \in Int /\ w * 0 = 0
    BY <1>11, DivMod
<1>13. x % Span[m] = x % Span[m - 1]
    BY <1>10, <1>11, <1>12
<1> QED BY <1>4, <1>8, <1>13

\* Where a wheel begins a turn, the wheels below it stand at slot 0.
LEMMA ZeroDigits ==
    ASSUME NEW x \in Nat, NEW l \in 0..Levels, x % Span[l] = 0
    PROVE  /\ x % Near = 0
           /\ \A k \in 1..l : Digit(x, k) = 0
<1>1. ASSUME NEW k \in 0..l
      PROVE  x % Span[k] = 0
  <2>1. k \in 0..Levels /\ k <= l /\ Levels \in Nat
      BY Constants
  <2>2. PICK q \in Nat : q > 0 /\ Span[l] = Span[k] * q
      BY <2>1, Nested
  <2>3. PICK w \in Nat, s \in Nat : w = Span[k] /\ s = Span[l] /\ w > 0 /\ s = w * q
      BY <2>1, <2>2, Constants
  <2>4. (x % s) % w = x % w
    <3>0. w > 0 /\ q > 0
        BY <2>2, <2>3
    <3>1. \A c \in Nat : c = w * q => (x % c) % w = x % w
        BY <3>0, ModMod
    <3> QED BY <2>3, <3>1
  <2>5. 0 % w = 0
      BY <2>3, ModSmall
  <2> QED BY <2>3, <2>4, <2>5
<1>2. x % Near = 0
    BY <1>1, Constants
<1>3. ASSUME NEW k \in 1..l
      PROVE  Digit(x, k) = 0
  <2>1. k \in Lvls /\ k \in 0..l /\ k - 1 \in 0..l
      BY Constants DEF Lvls
  <2>2. x % Span[k] = 0 /\ x % Span[k - 1] = 0
      BY <1>1, <2>1
  <2>3. 0 = 0 + Span[k - 1] * Digit(x, k)
      BY <2>1, <2>2, ModLevel
  <2>4. PICK w \in Nat, d \in Nat : w = Span[k - 1] /\ w > 0 /\ d = Digit(x, k)
      BY <2>1, Constants, DigitRange
  <2>5. 0 = w * d
      BY <2>3, <2>4
  <2>6. d = 0
      BY <2>4, <2>5
  <2> QED BY <2>4, <2>6
<1> QED BY <1>2, <1>3

\* expand() reaches exactly the wheels whose slot begins at tick.
LEMMA CarryReaches ==
    ASSUME tick \in Nat
    PROVE  Expanded = {l \in Lvls : tick % Span[l - 1] = 0}
<1>1. ASSUME NEW l \in Lvls
      PROVE  l \in Expanded <=> tick % Span[l - 1] = 0
  <2>1. l \in 1..Levels /\ l - 1 \in 0..Levels /\ 0 \in 0..Levels /\ 0 <= l - 1
      BY Constants DEF Lvls
  <2>2. CASE tick % Span[l - 1] = 0
    <3>1. tick % Near = 0 /\ \A k \in 1..l - 1 : Digit(tick, k) = 0
        BY <2>1, <2>2, ZeroDigits
    <3> QED BY <2>2, <3>1 DEF Expanded
  <2>3. CASE l \in Expanded
    <3>1. tick % Near = 0 /\ \A k \in 1..l - 1 : Digit(tick, k) = 0
        BY <2>3 DEF Expanded
    <3>2. \A k \in 0 + 1..l - 1 : Digit(tick, k) = 0
        BY <3>1
    <3>3. tick % Span[l - 1] = tick % Span[0]
        BY <2>1, <3>2, ZerosBetween
    <3> QED BY <2>3, <3>1, <3>3, Constants
  <2> QED BY <2>2, <2>3
<1>2. Expanded \subseteq Lvls
    BY DEF Expanded
<1> QED BY <1>1, <1>2

\* insert()'s shifted comparison: whether the interval is below a turn of l.
LEMMA Fits ==
    ASSUME NEW n \in Nat, NEW l \in Lvls
    PROVE  n \div Span[l - 1] < Far <=> n < Span[l]
<1>1. PICK w \in Nat, s \in Nat, f \in Nat :
          w = Span[l - 1] /\ s = Span[l] /\ f = Far
    BY Constants DEF Lvls
<1>2. w > 0 /\ s = f * w
    BY <1>1, Constants
<1>3. PICK d \in Int, m \in 0..w - 1 : d = n \div w /\ n = w * d + m
    BY <1>2, DivMod
<1>4. d < f => w * d + w <= w * f
    BY Less
<1>5. f < d => w * f + w <= w * d
    BY Less
<1>6. d = f => w * d = w * f
    OBVIOUS
<1>7. w * f = s
    BY <1>2
<1>8. PICK a \in Int : a = w * d
    OBVIOUS
<1>9. d < f <=> n < s
    BY <1>3, <1>4, <1>5, <1>6, <1>7, <1>8
<1> QED BY <1>1, <1>3, <1>9

\* insert() chooses one slot, or none beyond a turn of all the wheels.
LEMMA InsertsOnce ==
    ASSUME NEW n \in Nat, NEW x \in Nat
    PROVE  /\ n < Near => InsertPlace(n, x) = {<<0, x % Near>>}
           /\ n >= Near /\ n < Turn => \E l \in Lvls :
                 /\ InsertPlace(n, x) = {<<l, Digit(x, l)>>}
                 /\ Span[l - 1] <= n /\ n < Span[l]
           /\ n >= Near /\ n >= Turn => InsertPlace(n, x) = {}
<1> DEFINE fits == {l \in Lvls : n \div Span[l - 1] < Far}
<1> DEFINE first == {m \in fits : \A k \in fits : m <= k}
<1>1. fits = {l \in Lvls : n < Span[l]}
    BY Fits
<1>2. InsertPlace(n, x) = IF n < Near THEN {<<0, x % Near>>}
                          ELSE {<<l, Digit(x, l)>> : l \in first}
    BY DEF InsertPlace
<1> HIDE DEF fits
<1>3. ASSUME n >= Near, n < Turn
      PROVE  \E l \in Lvls :
                 /\ InsertPlace(n, x) = {<<l, Digit(x, l)>>}
                 /\ Span[l - 1] <= n /\ n < Span[l]
  <2>1. Levels \in fits
      BY <1>1, <1>3, Constants DEF Turn, Lvls
  <2>2. fits \in SUBSET Nat
      BY <1>1, Constants DEF Lvls
  <2>3. PICK l \in fits : \A k \in fits : l <= k
      BY <2>1, <2>2, Smallest
  <2>4. first = {l}
    <3>1. l \in first
        BY <2>3
    <3>2. ASSUME NEW m \in first PROVE m = l
      <4>1. m \in fits /\ m <= l /\ l <= m
          BY <2>3
      <4> QED BY <2>2, <4>1
    <3> HIDE DEF first
    <3> QED BY <3>1, <3>2
  <2>5. l \in Lvls /\ n < Span[l] /\ l \in 1..Levels
      BY <1>1 DEF Lvls
  <2>6. Span[l - 1] <= n
    <3>1. CASE l = 1
        BY <1>3, <3>1, Constants
    <3>2. CASE l # 1
      <4>1. l - 1 \in Lvls /\ l - 1 < l /\ l - 1 \in 0..Levels
          BY <2>5, <3>2, Constants DEF Lvls
      <4>2. l - 1 \notin fits
          BY <2>2, <2>3, <4>1
      <4> QED BY <1>1, <4>1, <4>2, Constants
    <3> QED BY <3>1, <3>2
  <2>7. InsertPlace(n, x) = {<<l, Digit(x, l)>>}
      BY <1>2, <1>3, <2>4, Constants
  <2> QED BY <2>5, <2>6, <2>7
<1>4. ASSUME n >= Near, n >= Turn
      PROVE  InsertPlace(n, x) = {}
  <2>1. ASSUME NEW l \in Lvls
        PROVE  Span[l] <= n
    <3>1. l \in 0..Levels /\ Levels \in 0..Levels /\ l <= Levels
        BY Constants DEF Lvls
    <3>2. PICK q \in Nat : q > 0 /\ Span[Levels] = Span[l] * q
        BY <3>1, Nested
    <3>3. PICK w \in Nat : w = Span[l] /\ Turn = w * q
        BY <3>1, <3>2, Constants DEF Turn
    <3>4. w <= w * q
        BY <3>2
    <3> QED BY <1>4, <3>3, <3>4, Constants
  <2>2. fits = {}
      BY <1>1, <2>1, Constants DEF Lvls
  <2> QED BY <1>2, <1>4, <2>2, Constants
<1> QED BY <1>2, <1>3, <1>4

LEMMA ModTwice ==
    ASSUME NEW b \in Nat, b > 0, NEW a \in 0..b + b - 1
    PROVE  a % b = IF a < b THEN a ELSE a - b
<1>1. CASE a < b
  <2>1. a \in 0..b - 1
      BY <1>1
  <2> QED BY <1>1, <2>1, ModSmall
<1>2. CASE ~(a < b)
  <2>1. PICK c \in 0..b - 1 : c = a - b
      BY <1>2
  <2>2. a = b * 1 + c
      BY <2>1
  <2>3. a % b = c
      BY <2>2, DivModUnique
  <2> QED BY <1>2, <2>1, <2>3
<1> QED BY <1>1, <1>2

\* Max of a set of numbers up to n.
LEMMA Largest ==
    ASSUME NEW n \in Nat, NEW T \in SUBSET (1..n), T # {}
    PROVE  Max(T) \in T /\ \A y \in T : y <= Max(T)
<1> DEFINE below == {n - y : y \in T}
<1>1. below \in SUBSET Nat /\ below # {}
  <2>1. \A y \in T : n - y \in Nat
      OBVIOUS
  <2>2. PICK y : y \in T
      OBVIOUS
  <2>3. n - y \in below
      BY <2>2
  <2> QED BY <2>1, <2>3
<1>2. PICK d \in below : \A e \in below : d <= e
  <2> HIDE DEF below
  <2> QED BY <1>1, Smallest
<1>3. PICK m \in T : d = n - m
    OBVIOUS
<1>4. ASSUME NEW y \in T PROVE m >= y
  <2>1. n - y \in below
      OBVIOUS
  <2>2. d <= n - y
      BY <1>2, <2>1
  <2> QED BY <1>3, <2>2
<1>5. \E z \in T : \A y \in T : z >= y
    BY <1>4
<1>6. Max(T) \in T /\ \A y \in T : Max(T) >= y
    BY <1>5 DEF Max
<1> QED BY <1>6

\* move() chooses one slot, and passes over digits that are 0 only.
LEMMA MovesOnce ==
    ASSUME NEW x \in Nat, NEW level \in 0..Levels
    PROVE  \/ /\ MovePlace(x, level) = <<0, x % Near>>
              /\ x % Span[level] = x % Near
           \/ \E k \in Lvls :
                 /\ k <= level
                 /\ MovePlace(x, level) = <<k, Digit(x, k)>>
                 /\ Digit(x, k) # 0
                 /\ x % Span[level] = x % Span[k]
<1> DEFINE nonzero == {l \in 1..level : Digit(x, l) # 0}
<1>0. level \in Nat /\ Levels \in Nat /\ level <= Levels /\ 0 \in 0..Levels
    BY Constants
<1>1. CASE nonzero = {}
  <2>1. \A j \in 0 + 1..level : Digit(x, j) = 0
      BY <1>1
  <2>2. x % Span[level] = x % Span[0]
      BY <1>0, <2>1, ZerosBetween
  <2>3. MovePlace(x, level) = <<0, x % Near>>
      BY <1>1 DEF MovePlace
  <2> QED BY <2>2, <2>3, Constants
<1>2. CASE nonzero # {}
  <2>1. PICK k : k = Max(nonzero)
      OBVIOUS
  <2>2. k \in nonzero /\ \A y \in nonzero : y <= k
    <3>1. nonzero \in SUBSET (1..level)
        OBVIOUS
    <3> HIDE DEF nonzero
    <3> QED BY <1>0, <1>2, <2>1, <3>1, Largest
  <2>3. k \in Lvls /\ k \in 0..Levels /\ k <= level /\ Digit(x, k) # 0
      BY <1>0, <2>2 DEF Lvls
  <2>4. \A j \in k + 1..level : Digit(x, j) = 0
    <3> SUFFICES ASSUME NEW j \in k + 1..level PROVE Digit(x, j) = 0
        OBVIOUS
    <3>1. j \in 1..level /\ ~(j <= k)
        BY <1>0, <2>3
    <3>2. j \notin nonzero
        BY <2>2, <3>1
    <3> QED BY <3>1, <3>2
  <2>5. x % Span[level] = x % Span[k]
      BY <2>3, <2>4, ZerosBetween
  <2>6. MovePlace(x, level) = <<k, Digit(x, k)>>
      BY <1>2, <2>1 DEF MovePlace
  <2> QED BY <2>3, <2>5, <2>6
<1> QED BY <1>1, <1>2

\* A slot that expand() empties has waited exactly so long that what is left
\* of a timer's wait is what its index leaves over in that wheel.
LEMMA OpenedInTime ==
    ASSUME NEW t \in 0..Turn - 1, NEW x \in 0..Turn - 1, NEW r \in Nat,
           NEW l \in Lvls,
           x = (t + r) % Turn, t % Span[l - 1] = 0, Digit(t, l) = Digit(x, l),
           r - (x % Span[l - 1]) \in 0..Span[l] - 1
    PROVE  r = x % Span[l - 1]
<1>1. PICK w \in Nat, s \in Nat : w = Span[l - 1] /\ s = Span[l] /\ w > 0 /\ s > 0
    BY Constants DEF Lvls
<1>2. Turn \in Nat /\ Turn > 0
    BY Constants
<1>3. PICK m \in Int, a \in 0..s - 1, d \in Int :
          m = x % w /\ a = x % s /\ d = w * Digit(x, l)
  <2>1. x % w \in Int /\ x % s \in 0..s - 1
      BY <1>1, DivMod
  <2>2. Digit(x, l) \in Int
      BY <1>2, DigitRange
  <2> QED BY <2>1, <2>2
<1>4. a = m + d
    BY <1>1, <1>2, <1>3, ModLevel
<1>5. t % s = d
  <2>1. t \in Nat
      BY <1>2
  <2>2. t % s = 0 + w * Digit(t, l)
      BY <1>1, <2>1, ModLevel
  <2> QED BY <1>3, <2>2
<1>6. PICK g \in 0..s - 1 : g = r - m
    BY <1>1, <1>3
<1>7. (t + r) % s = a
  <2>1. l \in 0..Levels /\ Levels \in 0..Levels /\ l <= Levels
      BY Constants DEF Lvls
  <2>2. PICK q \in Nat : q > 0 /\ Span[Levels] = Span[l] * q
      BY <2>1, Nested
  <2>3. Turn = s * q /\ q > 0
      BY <1>1, <2>2 DEF Turn
  <2>4. PICK u \in Int : u = t + r
      BY <1>2
  <2>5. \A c \in Nat : c = s * q => (u % c) % s = u % s
    <3>1. q > 0 /\ s > 0
        BY <1>1, <2>3
    <3> QED BY <3>1, ModMod
  <2>6. (u % Turn) % s = u % s
      BY <1>2, <2>3, <2>5
  <2> QED BY <1>3, <2>4, <2>6
<1>8. ((t % s) + r) % s = (t + r) % s
  <2>1. s > 0 /\ t \in Int /\ r \in Int
      BY <1>1, <1>2
  <2>2. \A i, j \in Int : ((i % s) + j) % s = (i + j) % s
      BY <2>1, ModPlus
  <2> QED BY <2>1, <2>2
<1>9. (d + r) % s = a
    BY <1>5, <1>7, <1>8
<1>10. d + r = a + g /\ a + g \in 0..s + s - 1
    BY <1>4, <1>6
<1>11. (a + g) % s = IF a + g < s THEN a + g ELSE a + g - s
  <2>1. PICK e \in 0..s + s - 1 : e = a + g
      BY <1>10
  <2>2. e % s = IF e < s THEN e ELSE e - s
      BY <1>1, ModTwice
  <2> QED BY <2>1, <2>2
<1>12. g = 0
    BY <1>9, <1>10, <1>11
<1> QED BY <1>1, <1>3, <1>6, <1>12

\* And once no more than that is left, expand() does empty the slot.
LEMMA ReachedWhenDue ==
    ASSUME NEW t \in 0..Turn - 1, NEW x \in 0..Turn - 1, NEW l \in Lvls,
           NEW r \in Nat, r = x % Span[l - 1], x = (t + r) % Turn
    PROVE  t % Span[l - 1] = 0 /\ Digit(t, l) = Digit(x, l)
<1>1. PICK w \in Nat : w = Span[l - 1] /\ w > 0
    BY Constants DEF Lvls
<1>2. Turn \in Nat /\ Turn > 0
    BY Constants
<1>3. PICK q \in Int : q = x \div w /\ x = w * q + r /\ r \in 0..w - 1
  <2>1. x \in Int /\ w > 0
      BY <1>1, <1>2
  <2>2. x % w \in 0..w - 1 /\ x \div w \in Int /\ x = w * (x \div w) + (x % w)
      BY <2>1, DivMod
  <2> QED BY <1>1, <2>2
<1>4. PICK y \in Int : y = w * q
    OBVIOUS
<1>5. y >= 0
  <2>1. q >= 0
    <3>1. q < 0 => w * q + w <= w * 0
        BY Less
    <3> QED BY <1>2, <1>3, <3>1
  <2> QED BY <1>4, <2>1
<1>6. r <= x
    BY <1>3, <1>4, <1>5
<1>7. t + r \in 0..Turn + Turn - 1
    BY <1>2, <1>6
<1>8. (t + r) % Turn = IF t + r < Turn THEN t + r ELSE t + r - Turn
    BY <1>2, <1>7, ModTwice
<1>9. t = y
    BY <1>2, <1>3, <1>4, <1>5, <1>8
<1>10. PICK z \in 0..w - 1 : z = 0
    BY <1>1
<1>11. t = w * q + z /\ t \in Int
    BY <1>2, <1>4, <1>9, <1>10
<1>12. t \div w = q /\ t % w = z
  <2>1. w > 0
      BY <1>1
  <2> QED BY <1>11, <2>1, DivModUnique
<1> QED BY <1>1, <1>3, <1>10, <1>12 DEF Digit

-----------------------------------------------------------------------------
(* Types                                                                   *)

LEMMA TypedInit == Init => Typed
<1>1. SUFFICES ASSUME Init PROVE Typed
    OBVIOUS
<1>2. TypeOK
  <2>1. tick \in 0..Turn - 1 /\ index \in [Ids -> 0..Turn - 1]
      BY <1>1, Constants DEF Init
  <2>2. near \in [0..Near - 1 -> SUBSET Ids]
      BY <1>1 DEF Init
  <2>3. far \in [Lvls -> [0..Far - 1 -> SUBSET Ids]]
      BY <1>1 DEF Init
  <2>4. lastID \in 0..MaxTimers /\ scheduleList \subseteq 1..lastID
      BY <1>1, Constants DEF Init
  <2>5. /\ remainTimes \in [Ids -> Int] /\ times \in [Ids -> Int]
        /\ interval \in [Ids -> Nat] /\ elapsed \in [Ids -> Nat]
        /\ callback \in [Ids -> BOOLEAN]
        /\ dispatchList \in [Ids -> Nat] /\ callList \in [Ids -> Nat]
        /\ calls \in [Ids -> Nat]
      BY <1>1 DEF Init
  <2>6. \A id \in Ids : ~(calls[id] > 0 \/ dispatchList[id] > 0 \/ callList[id] > 0)
      BY <1>1 DEF Init
  <2>7. timerPc = "sleep" /\ isExit = FALSE /\ removed = {} /\ stopped = {}
      BY <1>1 DEF Init
  <2>8. /\ calling \in 0..lastID /\ crashed \in BOOLEAN
        /\ owed \in [Ids -> Nat] /\ late \in [Ids -> Nat]
    <3>1. calling = 0 /\ crashed = FALSE /\ lastID = 0
        BY <1>1 DEF Init
    <3>2. 0 \in 0..0
        OBVIOUS
    <3>3. owed = [id \in Ids |-> 0] /\ late = [id \in Ids |-> 0]
        BY <1>1 DEF Init
    <3> QED BY <3>1, <3>2, <3>3
  <2> QED BY <2>1, <2>2, <2>3, <2>4, <2>5, <2>6, <2>7, <2>8 DEF TypeOK
<1>3. OnlyGiven
    BY <1>1 DEF Init, OnlyGiven
<1> QED BY <1>2, <1>3 DEF Typed

\* Putting timers into slots keeps the wheels' type.
LEMMA PutTyped ==
    ASSUME NEW place, NEW G, DOMAIN place \subseteq G,
           NEW nr \in [0..Near - 1 -> SUBSET G],
           NEW fr \in [Lvls -> [0..Far - 1 -> SUBSET G]]
    PROVE  /\ PutNear(nr, place) \in [0..Near - 1 -> SUBSET G]
           /\ PutFar(fr, place) \in [Lvls -> [0..Far - 1 -> SUBSET G]]
BY DEF PutNear, PutFar

LEMMA WheelsTyped ==
    Typed => /\ near \in [0..Near - 1 -> SUBSET (1..lastID)]
             /\ far \in [Lvls -> [0..Far - 1 -> SUBSET (1..lastID)]]
             /\ 1..lastID \subseteq Ids /\ lastID \in 0..MaxTimers
             /\ tick \in Nat
<1>1. SUFFICES ASSUME Typed PROVE
             /\ near \in [0..Near - 1 -> SUBSET (1..lastID)]
             /\ far \in [Lvls -> [0..Far - 1 -> SUBSET (1..lastID)]]
             /\ 1..lastID \subseteq Ids /\ lastID \in 0..MaxTimers
             /\ tick \in Nat
    OBVIOUS
<1>2. near \in [0..Near - 1 -> SUBSET (1..lastID)]
    BY <1>1 DEF Typed, TypeOK, OnlyGiven
<1>3. far \in [Lvls -> [0..Far - 1 -> SUBSET (1..lastID)]]
  <2>1. far \in [Lvls -> [0..Far - 1 -> SUBSET Ids]]
      BY <1>1 DEF Typed, TypeOK
  <2>2. \A l \in Lvls : far[l] \in [0..Far - 1 -> SUBSET (1..lastID)]
      BY <1>1, <2>1 DEF Typed, OnlyGiven
  <2> QED BY <2>1, <2>2
<1>4. lastID \in 0..MaxTimers /\ tick \in 0..Turn - 1
    BY <1>1 DEF Typed, TypeOK
<1>5. 1..lastID \subseteq Ids /\ tick \in Nat
    BY <1>4, Constants DEF Ids
<1> QED BY <1>2, <1>3, <1>4, <1>5

LEMMA WheelsTypedAgain ==
    ASSUME NEW last \in 0..MaxTimers, last = lastID',
           near' \in [0..Near - 1 -> SUBSET (1..last)],
           far' \in [Lvls -> [0..Far - 1 -> SUBSET (1..last)]]
    PROVE  /\ OnlyGiven'
           /\ near' \in [0..Near - 1 -> SUBSET Ids]
           /\ far' \in [Lvls -> [0..Far - 1 -> SUBSET Ids]]
<1>1. 1..last \subseteq Ids
    BY Constants DEF Ids
<1>2. near' \in [0..Near - 1 -> SUBSET Ids]
    BY <1>1
<1>3. far' \in [Lvls -> [0..Far - 1 -> SUBSET Ids]]
  <2>1. \A l \in Lvls : far'[l] \in [0..Far - 1 -> SUBSET Ids]
      BY <1>1
  <2> QED BY <2>1
<1>4. OnlyGiven'
    BY DEF OnlyGiven
<1> QED BY <1>2, <1>3, <1>4

LEMMA TypedAddTimeCall ==
    ASSUME NEW n \in Intervals, NEW t \in Times
    PROVE  Typed /\ AddTimeCall(n, t) => Typed'
<1> DEFINE id == lastID + 1
<1> DEFINE x == (tick + n) % Turn
<1> DEFINE p == [i \in {id} |-> InsertPlace(n, x)]
<1>1. SUFFICES ASSUME Typed, AddTimeCall(n, t) PROVE Typed'
    OBVIOUS
<1>2. n \in Nat /\ t \in Int
    BY TimerAssumption
<1>3. id \in Ids /\ id \in 0..MaxTimers /\ lastID' = id /\ lastID \in Nat
    BY <1>1, Constants DEF Typed, TypeOK, AddTimeCall, Ids
<1>4. x \in 0..Turn - 1
    BY <1>1, <1>2, Constants, DivMod, WheelsTyped
<1>5. /\ near' = PutNear(near, p) /\ far' = PutFar(far, p)
      /\ index' = [index EXCEPT ![id] = x]
      /\ scheduleList' = scheduleList \cup {id}
      /\ remainTimes' = [remainTimes EXCEPT ![id] = t]
      /\ interval' = [interval EXCEPT ![id] = n]
      /\ callback' = [callback EXCEPT ![id] = TRUE]
      /\ elapsed' = [elapsed EXCEPT ![id] = 0]
      /\ times' = [times EXCEPT ![id] = t]
      /\ tick' = tick /\ dispatchList' = dispatchList /\ callList' = callList
      /\ timerPc' = timerPc /\ isExit' = isExit /\ calls' = calls
      /\ removed' = removed /\ stopped' = stopped
      /\ owed' = owed /\ late' = late
      /\ calling' = calling /\ crashed' = crashed
    BY <1>1 DEF AddTimeCall, updating
<1>6. /\ near' \in [0..Near - 1 -> SUBSET (1..id)]
      /\ far' \in [Lvls -> [0..Far - 1 -> SUBSET (1..id)]]
  <2>1. 1..lastID \subseteq 1..id /\ id \in 1..id
      BY <1>3
  <2>2. near \in [0..Near - 1 -> SUBSET (1..id)]
      BY <1>1, <2>1, WheelsTyped
  <2>3. far \in [Lvls -> [0..Far - 1 -> SUBSET (1..id)]]
    <3>1. \A l \in Lvls : far[l] \in [0..Far - 1 -> SUBSET (1..id)]
        BY <1>1, <2>1, WheelsTyped
    <3> QED BY <1>1, <3>1, WheelsTyped
  <2>4. DOMAIN p \subseteq 1..id
      BY <2>1
  <2> HIDE DEF p, id
  <2> QED BY <1>5, <2>2, <2>3, <2>4, PutTyped
<1>7. OnlyGiven' /\ near' \in [0..Near - 1 -> SUBSET Ids]
                /\ far' \in [Lvls -> [0..Far - 1 -> SUBSET Ids]]
  <2> HIDE DEF id
  <2> QED BY <1>3, <1>6, WheelsTypedAgain
<1>8. TypeOK'
  <2> HIDE DEF id, x, p
  <2>1. scheduleList' \subseteq 1..lastID' /\ removed' \subseteq 1..lastID'
    <3>1. id = lastID + 1
        BY DEF id
    <3>2. scheduleList \subseteq 1..lastID /\ removed \subseteq 1..lastID
        BY <1>1 DEF Typed, TypeOK
    <3> QED BY <1>3, <1>5, <3>1, <3>2
  <2>2. \A i \in Ids : calls'[i] > 0 \/ dispatchList'[i] > 0 \/ callList'[i] > 0
                         => i <= lastID'
    <3>1. id = lastID + 1
        BY DEF id
    <3> QED BY <1>1, <1>3, <1>5, <3>1 DEF Typed, TypeOK, Ids
  <2>3. index' \in [Ids -> 0..Turn - 1] /\ tick' \in 0..Turn - 1
      BY <1>1, <1>4, <1>5 DEF Typed, TypeOK
  <2>4. calling' \in 0..lastID' /\ crashed' \in BOOLEAN
    <3>1. id = lastID + 1
        BY DEF id
    <3>2. calling \in 0..lastID /\ crashed \in BOOLEAN
        BY <1>1 DEF Typed, TypeOK
    <3> QED BY <1>3, <1>5, <3>1, <3>2
  <2> QED BY <1>1, <1>2, <1>3, <1>5, <1>7, <2>1, <2>2, <2>3, <2>4 DEF Typed, TypeOK
<1> QED BY <1>7, <1>8 DEF Typed

\* dispatch() keeps the types.
LEMMA TypedDispatch == Typed /\ Dispatch => Typed'
<1> DEFINE slot == tick % Near
<1> DEFINE x(id) == (tick + interval[id]) % Turn
<1> DEFINE p == [id \in Again |-> InsertPlace(interval[id], x(id))]
<1>1. SUFFICES ASSUME Typed, Dispatch PROVE Typed'
    OBVIOUS
<1>2. tick \in Nat /\ slot \in 0..Near - 1
    BY <1>1, Constants, DivMod, WheelsTyped
<1>3. Due \subseteq 1..lastID /\ Again \subseteq Due /\ 1..lastID \subseteq Ids
    BY <1>1, <1>2, WheelsTyped DEF Due, Again
<1>4. \A id \in Ids : x(id) \in 0..Turn - 1
  <2> SUFFICES ASSUME NEW id \in Ids PROVE x(id) \in 0..Turn - 1
      OBVIOUS
  <2>1. PICK a \in Int : a = tick + interval[id]
      BY <1>1, <1>2 DEF Typed, TypeOK
  <2>2. a % Turn \in 0..Turn - 1
      BY Constants, DivMod
  <2> QED BY <2>1, <2>2
<1>5. /\ near' = [PutNear(near, p) EXCEPT ![slot] = {}] /\ far' = PutFar(far, p)
      /\ lastID' = lastID
    BY <1>1 DEF Dispatch
<1>6. /\ near' \in [0..Near - 1 -> SUBSET (1..lastID)]
      /\ far' \in [Lvls -> [0..Far - 1 -> SUBSET (1..lastID)]]
  <2>1. DOMAIN p \subseteq 1..lastID
      BY <1>3
  <2> HIDE DEF p, slot
  <2>2. /\ PutNear(near, p) \in [0..Near - 1 -> SUBSET (1..lastID)]
        /\ PutFar(far, p) \in [Lvls -> [0..Far - 1 -> SUBSET (1..lastID)]]
      BY <1>1, <2>1, PutTyped, WheelsTyped
  <2> QED BY <1>2, <1>5, <2>2
<1>7. OnlyGiven' /\ near' \in [0..Near - 1 -> SUBSET Ids]
                /\ far' \in [Lvls -> [0..Far - 1 -> SUBSET Ids]]
  <2>1. PICK last \in 0..MaxTimers : last = lastID' /\ last = lastID
      BY <1>1, <1>5, WheelsTyped
  <2> QED BY <1>6, <2>1, WheelsTypedAgain
<1>8. index' \in [Ids -> 0..Turn - 1]
  <2>1. index' = [id \in Ids |-> IF id \in Again THEN x(id) ELSE index[id]]
      BY <1>1 DEF Dispatch
  <2> HIDE DEF x
  <2> QED BY <1>1, <1>4, <2>1 DEF Typed, TypeOK
<1>9. remainTimes' \in [Ids -> Int] /\ elapsed' \in [Ids -> Nat]
      /\ dispatchList' \in [Ids -> Nat]
    BY <1>1 DEF Typed, TypeOK, Dispatch, AfterCall
<1>10. \A id \in Ids : calls'[id] > 0 \/ dispatchList'[id] > 0 \/ callList'[id] > 0
                         => id <= lastID'
  <2> SUFFICES ASSUME NEW id \in Ids,
                      calls'[id] > 0 \/ dispatchList'[id] > 0 \/ callList'[id] > 0
               PROVE  id <= lastID
      BY <1>5
  <2>1. calls' = calls /\ callList' = callList
        /\ (id \notin Due => dispatchList'[id] = dispatchList[id])
      BY <1>1 DEF Dispatch, updating
  <2>2. CASE id \in Due
      BY <1>1, <1>3, <2>2 DEF Typed, TypeOK
  <2>3. CASE id \notin Due
    <3>1. calls[id] > 0 \/ dispatchList[id] > 0 \/ callList[id] > 0
        BY <2>1, <2>3
    <3> QED BY <1>1, <3>1 DEF Typed, TypeOK
  <2> QED BY <2>2, <2>3
<1>11. scheduleList' \subseteq 1..lastID'
    BY <1>1, <1>5 DEF Typed, TypeOK, Dispatch
<1>12. timerPc' = "tick" /\ UNCHANGED <<tick, lastID, interval, callback, callList, calling,
              crashed, isExit, times, calls, removed, stopped, owed, late>>
    BY <1>1 DEF Dispatch, updating
<1>13. TypeOK'
    BY <1>1, <1>7, <1>8, <1>9, <1>10, <1>11, <1>12 DEF Typed, TypeOK
<1> QED BY <1>7, <1>13 DEF Typed

LEMMA TypedExpand == Typed /\ Expand => Typed'
<1> DEFINE moved == UNION {far[l][Digit(tick, l)] : l \in Expanded}
<1> DEFINE p == [id \in moved |->
                    {MovePlace(index[id], l - 1) :
                        l \in {m \in Expanded : id \in far[m][Digit(tick, m)]}}]
<1> DEFINE cleared == [l \in Lvls |-> [s \in 0..Far - 1 |->
                          IF l \in Expanded /\ s = Digit(tick, l)
                          THEN {} ELSE far[l][s]]]
<1>1. SUFFICES ASSUME Typed, Expand PROVE Typed'
    OBVIOUS
<1>2. /\ near' = PutNear(near, p) /\ far' = PutFar(cleared, p)
      /\ timerPc' \in {"dispatch", "sleep"}
      /\ UNCHANGED <<tick, lastID, index, scheduleList, fields, dispatchList,
                     updating, isExit, histories>>
    BY <1>1 DEF Expand
<1>3. /\ near \in [0..Near - 1 -> SUBSET (1..lastID)]
      /\ far \in [Lvls -> [0..Far - 1 -> SUBSET (1..lastID)]]
      /\ tick \in Nat
    BY <1>1, WheelsTyped
<1>4. moved \subseteq 1..lastID
  <2> SUFFICES ASSUME NEW l \in Expanded PROVE far[l][Digit(tick, l)] \subseteq 1..lastID
      OBVIOUS
  <2>1. l \in Lvls
      BY DEF Expanded
  <2>2. Digit(tick, l) \in 0..Far - 1
      BY <1>3, <2>1, DigitRange
  <2> QED BY <1>3, <2>1, <2>2
<1>5. cleared \in [Lvls -> [0..Far - 1 -> SUBSET (1..lastID)]]
    BY <1>3
<1>6. DOMAIN p \subseteq 1..lastID
    BY <1>4
<1> HIDE DEF p, cleared, moved
<1>7. /\ near' \in [0..Near - 1 -> SUBSET (1..lastID)]
      /\ far' \in [Lvls -> [0..Far - 1 -> SUBSET (1..lastID)]]
    BY <1>2, <1>3, <1>5, <1>6, PutTyped
<1>8. OnlyGiven' /\ near' \in [0..Near - 1 -> SUBSET Ids]
                /\ far' \in [Lvls -> [0..Far - 1 -> SUBSET Ids]]
  <2>1. PICK last \in 0..MaxTimers : last = lastID' /\ last = lastID
      BY <1>1, <1>2, WheelsTyped
  <2> QED BY <1>7, <2>1, WheelsTypedAgain
<1>9. TypeOK'
    BY <1>1, <1>2, <1>8 DEF Typed, TypeOK, fields, histories, updating
<1> QED BY <1>8, <1>9 DEF Typed

LEMMA TypedNext == Typed /\ [Next]_vars => Typed'
<1>1. SUFFICES ASSUME Typed, [Next]_vars PROVE Typed'
    OBVIOUS
<1>2. ASSUME UNCHANGED <<near, far, lastID>> PROVE OnlyGiven'
    BY <1>1, <1>2 DEF Typed, OnlyGiven
<1>3. CASE Wake
  <2>1. TypeOK'
      BY <1>1, <1>3 DEF Wake, Typed, TypeOK, wheel, fields, histories, updating
  <2> QED BY <1>2, <1>3, <2>1 DEF Typed, Wake, wheel
<1>4. CASE Tick
  <2>1. tick' \in 0..Turn - 1
    <3>1. PICK a \in Int : a = tick + 1
        BY <1>1, WheelsTyped
    <3>2. a % Turn \in 0..Turn - 1
        BY Constants, DivMod
    <3> QED BY <1>4, <3>1, <3>2 DEF Tick, NextTick
  <2>2. elapsed' \in [Ids -> Nat]
    <3>1. \A id \in Ids : elapsed[id] \in Nat
        BY <1>1 DEF Typed, TypeOK
    <3> QED BY <1>4, <3>1 DEF Tick
  <2>3. TypeOK'
      BY <1>1, <1>4, <2>1, <2>2 DEF Tick, Typed, TypeOK, wheel, fields, updating
  <2> QED BY <1>2, <1>4, <2>3 DEF Typed, Tick, wheel
<1>5. CASE Update
  <2>1. TypeOK'
      BY <1>1, <1>5 DEF Update, Typed, TypeOK, wheel, fields, histories, updating
  <2> QED BY <1>2, <1>5, <2>1 DEF Typed, Update, wheel
<1>6. ASSUME NEW id \in Ids, Check(id) PROVE Typed'
  <2>1. callList' \in [Ids -> Nat] /\ \A i \in Ids : callList'[i] > 0 => callList[i] > 0
    <3>1. callList \in [Ids -> Nat] /\ callList[id] \in Nat /\ callList[id] - 1 \in Nat
        BY <1>1, <1>6 DEF Check, Typed, TypeOK
    <3>2. callList' = [callList EXCEPT ![id] = callList[id] - 1]
        BY <1>6 DEF Check
    <3> QED BY <1>6, <3>1, <3>2 DEF Check
  <2>2. calling' \in 0..lastID'
    <3>1. id \in 0..lastID /\ 0 \in 0..lastID
        BY <1>1, <1>6, Constants DEF Check, Typed, TypeOK, Ids
    <3> QED BY <1>6, <3>1 DEF Check
  <2>3. TypeOK'
      BY <1>1, <1>6, <2>1, <2>2 DEF Check, Typed, TypeOK, wheel, fields, histories
  <2> QED BY <1>2, <1>6, <2>3 DEF Typed, Check, wheel
<1>10. ASSUME NEW id \in Ids, Call(id) PROVE Typed'
  <2>1. calls' \in [Ids -> Nat] /\ late' \in [Ids -> Nat]
    <3>1. /\ calls \in [Ids -> Nat] /\ late \in [Ids -> Nat]
          /\ calls[id] + 1 \in Nat /\ late[id] + 1 \in Nat
        BY <1>1 DEF Typed, TypeOK
    <3>2. calls' \in [Ids -> Nat]
        BY <1>10, <3>1 DEF Call
    <3>3. late' \in [Ids -> Nat]
        BY <1>10, <3>1 DEF Call
    <3> QED BY <3>2, <3>3
  <2>2. \A i \in Ids : calls'[i] > 0 \/ dispatchList'[i] > 0 \/ callList'[i] > 0
                          => i <= lastID'
    <3>1. id <= lastID
        BY <1>1, <1>10 DEF Call, Typed, TypeOK
    <3>2. \A i \in Ids : i # id => calls'[i] = calls[i]
        BY <1>1, <1>10 DEF Call, Typed, TypeOK
    <3> QED BY <1>1, <1>10, <3>1, <3>2 DEF Call, Typed, TypeOK
  <2>3. calling' \in 0..lastID'
      BY <1>1, <1>10, Constants DEF Call, Typed, TypeOK
  <2>4. TypeOK'
      BY <1>1, <1>10, <2>1, <2>2, <2>3 DEF Call, Typed, TypeOK, wheel, fields
  <2> QED BY <1>2, <1>10, <2>4 DEF Typed, Call, wheel
<1>11. ASSUME NEW id \in Ids, CallEmpty(id) PROVE Typed'
  <2>1. TypeOK'
      BY <1>1, <1>11 DEF CallEmpty, Typed, TypeOK, wheel, fields, histories
  <2> QED BY <1>2, <1>11, <2>1 DEF Typed, CallEmpty, wheel
<1>7. CASE Destroy
  <2>1. TypeOK'
      BY <1>1, <1>7 DEF Destroy, Typed, TypeOK, wheel, fields, histories, updating
  <2> QED BY <1>2, <1>7, <2>1 DEF Typed, Destroy, wheel
<1>8. ASSUME NEW id \in Ids, Remove(id) PROVE Typed'
  <2>1. TypeOK'
    <3>1. removed' \subseteq 1..lastID /\ stopped' \subseteq removed'
      <4>1. removed' = removed \cup {id} /\ stopped' \subseteq stopped \cup {id}
          BY <1>8 DEF Remove
      <4>2. id \in 1..lastID
          BY <1>1, <1>8 DEF Remove, Typed, TypeOK, Ids
      <4> QED BY <1>1, <4>1, <4>2 DEF Typed, TypeOK
    <3>2. scheduleList' \subseteq 1..lastID
        BY <1>1, <1>8 DEF Remove, Typed, TypeOK
    <3>3. remainTimes' \in [Ids -> Int] /\ callback' \in [Ids -> BOOLEAN]
          /\ elapsed' \in [Ids -> Nat]
      <4>1. CASE id \in scheduleList
        <5>1. /\ remainTimes' = [remainTimes EXCEPT ![id] = 0]
              /\ callback' = [callback EXCEPT ![id] = FALSE]
              /\ elapsed' = [elapsed EXCEPT ![id] = 0]
            BY <1>8, <4>1 DEF Remove
        <5> QED BY <1>1, <5>1 DEF Typed, TypeOK
      <4>2. CASE id \notin scheduleList
          BY <1>1, <1>8, <4>2 DEF Remove, Typed, TypeOK
      <4> QED BY <4>1, <4>2
    <3>4. owed' \in [Ids -> Nat]
      <4>1. Checked(id) \in Nat /\ OnItsWay(id) \in Nat
          BY <1>1 DEF Checked, OnItsWay, Typed, TypeOK
      <4> QED BY <1>1, <1>8, <4>1 DEF Remove, Typed, TypeOK
    <3> QED BY <1>1, <1>8, <3>1, <3>2, <3>3, <3>4 DEF Remove, Typed, TypeOK, wheel, updating
  <2> QED BY <1>2, <1>8, <2>1 DEF Typed, Remove, wheel
<1>9. CASE UNCHANGED vars
  <2>1. TypeOK'
      BY <1>1, <1>9 DEF vars, Typed, TypeOK, wheel, fields, histories, updating
  <2> QED BY <1>2, <1>9, <2>1 DEF Typed, vars, wheel
<1> QED BY <1>1, <1>3, <1>4, <1>5, <1>6, <1>7, <1>8, <1>9, <1>10, <1>11, TypedAddTimeCall,
           TypedDispatch, TypedExpand DEF Next, TimerThread, Calls, Terminated

\* The type invariant of Timer: tick and the indices stay within a turn of all
\* the wheels, only ids that addTimeCall has returned are scheduled, removed,
\* dispatched or called, for wheels of any size and any timers.
THEOREM TypeCorrect == Spec => []TypeOK
<1>1. Typed => TypeOK
    BY DEF Typed
<1> QED BY TypedInit, TypedNext, <1>1, PTL DEF Spec

-----------------------------------------------------------------------------
(* Counting calls                                                          *)

LEMMA CountedInit == Init => Counted
BY TypedInit DEF Init, Counted

LEMMA CountedNext == Counted /\ [Next]_vars => Counted'
<1>1. SUFFICES ASSUME Counted, [Next]_vars PROVE Counted'
    OBVIOUS
<1>2. Typed /\ Typed'
    BY <1>1, TypedNext DEF Counted
<1>3. 1..lastID \subseteq Ids /\ lastID \in Nat /\ \A id \in 1..lastID : CountedOne(id)
    BY <1>1, <1>2, WheelsTyped DEF Counted
<1>4. ASSUME UNCHANGED <<lastID, callback, stopped, times, remainTimes, calls, callList,
                         dispatchList, calling>>
      PROVE  Counted'
    BY <1>2, <1>3, <1>4 DEF Counted, CountedOne, OnItsWay, Checked
<1>5. ASSUME lastID' = lastID, \A id \in 1..lastID : CountedOne(id)'
      PROVE  Counted'
    BY <1>2, <1>5 DEF Counted
<1>6. CASE Wake \/ Tick \/ Expand \/ Destroy \/ UNCHANGED vars
    BY <1>4, <1>6 DEF Wake, Tick, Expand, Destroy, vars, fields, histories, updating
<1>7. ASSUME NEW n \in Intervals, NEW t \in Times, AddTimeCall(n, t) PROVE Counted'
  <2>1. t \in Int
      BY TimerAssumption
  <2>2. /\ lastID' = lastID + 1 /\ lastID + 1 \in Ids
        /\ callback' = [callback EXCEPT ![lastID + 1] = TRUE]
        /\ times' = [times EXCEPT ![lastID + 1] = t]
        /\ remainTimes' = [remainTimes EXCEPT ![lastID + 1] = t]
        /\ UNCHANGED <<calls, callList, dispatchList, calling, stopped>>
      BY <1>3, <1>7, Constants DEF AddTimeCall, Ids, updating
  <2>3. ASSUME NEW i \in Ids, i = lastID + 1 PROVE CountedOne(i)'
    <3>1. calls[lastID + 1] = 0 /\ callList[lastID + 1] = 0 /\ dispatchList[lastID + 1] = 0
      <4>1. i = lastID + 1 /\ ~(i <= lastID)
          BY <1>3, <2>3
      <4>2. calls[i] \in Nat /\ callList[i] \in Nat /\ dispatchList[i] \in Nat
          BY <1>2 DEF Typed, TypeOK
      <4>3. ~(calls[i] > 0 \/ dispatchList[i] > 0 \/ callList[i] > 0)
          BY <1>2, <4>1 DEF Typed, TypeOK
      <4>4. calls[i] = 0 /\ callList[i] = 0 /\ dispatchList[i] = 0
          BY <4>2, <4>3
      <4> QED BY <4>1, <4>4
    <3>2. lastID + 1 \notin stopped
        BY <1>2, <1>3 DEF Typed, TypeOK
    <3>3. /\ callback \in [Ids -> BOOLEAN] /\ times \in [Ids -> Int]
          /\ remainTimes \in [Ids -> Int]
        BY <1>2 DEF Typed, TypeOK
    <3>4. calling' # i
        BY <1>2, <1>3, <2>2, <2>3 DEF Typed, TypeOK
    <3>5. /\ callback'[i] = TRUE /\ i \notin stopped' /\ times'[i] = t
          /\ remainTimes'[i] = t
          /\ calls'[i] = 0 /\ callList'[i] = 0 /\ dispatchList'[i] = 0
        BY <2>2, <2>3, <3>1, <3>2, <3>3
    <3> QED BY <2>1, <3>4, <3>5 DEF CountedOne, OnItsWay, Checked
  <2>4. ASSUME NEW id \in 1..lastID PROVE CountedOne(id)'
    <3>1. id # lastID + 1 /\ CountedOne(id) /\ id \in Ids
        BY <1>3
    <3> QED BY <1>2, <2>2, <3>1 DEF CountedOne, OnItsWay, Checked, Typed, TypeOK
  <2>5. \A id \in 1..lastID + 1 : id \in 1..lastID \/ id = lastID + 1
      BY <1>3
  <2>6. \A id \in 1..lastID + 1 : CountedOne(id)'
    <3> SUFFICES ASSUME NEW id \in 1..lastID + 1 PROVE CountedOne(id)'
        OBVIOUS
    <3>1. CASE id \in 1..lastID
        BY <2>4, <3>1
    <3>2. CASE id = lastID + 1
        BY <2>2, <2>3, <3>2
    <3> QED BY <2>5, <3>1, <3>2
  <2> QED BY <1>2, <2>2, <2>6 DEF Counted
<1>8. ASSUME NEW i \in Ids, Remove(i) PROVE Counted'
  <2>1. CASE i \notin scheduleList
      BY <1>4, <1>8, <2>1 DEF Remove, updating
  <2>2. CASE i \in scheduleList
    <3>1. /\ remainTimes' = [remainTimes EXCEPT ![i] = 0]
          /\ callback' = [callback EXCEPT ![i] = FALSE]
          /\ stopped' = stopped \cup {i}
          /\ UNCHANGED <<lastID, times, calls, callList, dispatchList, calling>>
        BY <1>8, <2>2 DEF Remove, updating
    <3>2. ASSUME NEW id \in 1..lastID PROVE CountedOne(id)'
      <4>1. /\ callback \in [Ids -> BOOLEAN] /\ remainTimes \in [Ids -> Int]
            /\ id \in Ids /\ CountedOne(id)
          BY <1>2, <1>3 DEF Typed, TypeOK
      <4>2. CASE id # i
          BY <3>1, <4>1, <4>2 DEF CountedOne, OnItsWay, Checked
      <4>3. CASE id = i
          BY <3>1, <4>1, <4>3 DEF CountedOne, OnItsWay, Checked
      <4> QED BY <4>2, <4>3
    <3> QED BY <1>5, <3>1, <3>2
  <2> QED BY <2>1, <2>2
<1>9. CASE Dispatch
  <2>1. /\ remainTimes' = [id \in Ids |-> IF id \in Due THEN AfterCall(id) ELSE remainTimes[id]]
        /\ dispatchList' = [id \in Ids |->
                IF id \in Due /\ (times[id] # -1 \/ dispatchList[id] < MaxLag)
                THEN dispatchList[id] + 1 ELSE dispatchList[id]]
        /\ UNCHANGED <<lastID, callback, stopped, times, calls, callList, calling>>
      BY <1>9 DEF Dispatch, updating
  <2>2. ASSUME NEW id \in 1..lastID PROVE CountedOne(id)'
    <3>1. /\ calls[id] \in Nat /\ callList[id] \in Nat /\ dispatchList[id] \in Nat
          /\ remainTimes[id] \in Int /\ times[id] \in Int /\ id \in Ids /\ CountedOne(id)
        BY <1>2, <1>3 DEF Typed, TypeOK
    <3>2. CASE id \notin Due
        BY <2>1, <3>1, <3>2 DEF CountedOne, OnItsWay, Checked
    <3>3. CASE id \in Due
      <4>1. remainTimes[id] # 0
          BY <3>3 DEF Due
      <4>2. remainTimes'[id] = AfterCall(id)
          BY <2>1, <3>1, <3>3
      <4>3. times[id] > 0 => /\ dispatchList'[id] = dispatchList[id] + 1
                             /\ remainTimes'[id] = remainTimes[id] - 1
                             /\ remainTimes[id] > 0
          BY <2>1, <3>1, <3>3, <4>1, <4>2 DEF CountedOne, AfterCall
      <4>4. /\ callback'[id] = callback[id] /\ stopped' = stopped
            /\ times'[id] = times[id] /\ calls'[id] = calls[id]
            /\ callList'[id] = callList[id] /\ calling' = calling
          BY <2>1
      <4>5. callback'[id] <=> id \notin stopped'
          BY <3>1, <4>4 DEF CountedOne
      <4>6. times'[id] > 0 => remainTimes'[id] >= 0
          BY <3>1, <4>3, <4>4
      <4>7. id \notin stopped' /\ times'[id] > 0 =>
            times'[id] = calls'[id] + OnItsWay(id)' + remainTimes'[id]
          BY <3>1, <4>3, <4>4 DEF CountedOne, OnItsWay, Checked
      <4> QED BY <4>5, <4>6, <4>7 DEF CountedOne
    <3> QED BY <3>2, <3>3
  <2> QED BY <1>5, <2>1, <2>2
<1>10. CASE Update
  <2>1. /\ \A id \in Ids : callList[id] = 0
        /\ callList' = dispatchList /\ dispatchList' = [id \in Ids |-> 0]
        /\ UNCHANGED <<lastID, callback, stopped, times, calls, remainTimes, calling>>
      BY <1>10 DEF Update, UpdateIdle, fields, histories
  <2>2. ASSUME NEW id \in 1..lastID PROVE CountedOne(id)'
    <3>1. /\ calls[id] \in Nat /\ dispatchList[id] \in Nat
          /\ remainTimes[id] \in Int /\ id \in Ids /\ CountedOne(id)
        BY <1>2, <1>3 DEF Typed, TypeOK
    <3> QED BY <2>1, <3>1 DEF CountedOne, OnItsWay, Checked
  <2> QED BY <1>5, <2>1, <2>2
<1>11. ASSUME NEW i \in Ids, Check(i) PROVE Counted'
  <2>1. /\ calling = 0 /\ calling' = IF callback[i] THEN i ELSE 0
        /\ callList[i] > 0 /\ callList' = [callList EXCEPT ![i] = callList[i] - 1]
        /\ UNCHANGED <<lastID, callback, stopped, times, calls, dispatchList, remainTimes>>
      BY <1>11 DEF Check, fields, histories
  <2>2. ASSUME NEW id \in 1..lastID PROVE CountedOne(id)'
    <3>1. /\ calls[id] \in Nat /\ callList[id] \in Nat /\ dispatchList[id] \in Nat
          /\ remainTimes[id] \in Int /\ times[id] \in Int /\ id \in Ids /\ CountedOne(id)
          /\ callList \in [Ids -> Nat]
        BY <1>2, <1>3 DEF Typed, TypeOK
    <3>4. id # 0
        OBVIOUS
    <3>2. CASE id # i
      <4>1. callList'[id] = callList[id] /\ calling' # id /\ calling # id
          BY <2>1, <3>1, <3>2, <3>4
      <4> QED BY <2>1, <3>1, <4>1 DEF CountedOne, OnItsWay, Checked
    <3>3. CASE id = i
      <4>1. callList'[id] = callList[id] - 1
          BY <2>1, <3>1, <3>3
      <4>2. id \notin stopped => Checked(id) = 0 /\ Checked(id)' = 1
          BY <2>1, <3>1, <3>3, <3>4 DEF CountedOne, Checked
      <4> QED BY <2>1, <3>1, <4>1, <4>2 DEF CountedOne, OnItsWay
    <3> QED BY <3>2, <3>3
  <2> QED BY <1>5, <2>1, <2>2
<1>12. ASSUME NEW i \in Ids, Call(i) PROVE Counted'
  <2>1. /\ calling = i /\ calling' = 0
        /\ calls' = IF times[i] # -1 THEN [calls EXCEPT ![i] = calls[i] + 1] ELSE calls
        /\ UNCHANGED <<lastID, callback, stopped, times, callList, dispatchList, remainTimes>>
      BY <1>12 DEF Call, fields
  <2>2. ASSUME NEW id \in 1..lastID PROVE CountedOne(id)'
    <3>1. /\ calls[id] \in Nat /\ callList[id] \in Nat /\ dispatchList[id] \in Nat
          /\ remainTimes[id] \in Int /\ times[id] \in Int /\ id \in Ids /\ CountedOne(id)
          /\ calls \in [Ids -> Nat]
        BY <1>2, <1>3 DEF Typed, TypeOK
    <3>4. id # 0
        OBVIOUS
    <3>2. CASE id # i
        BY <2>1, <3>1, <3>2, <3>4 DEF CountedOne, OnItsWay, Checked
    <3>3. CASE id = i
      <4>1. times[id] > 0 => calls'[id] = calls[id] + 1
          BY <2>1, <3>1, <3>3
      <4>2. Checked(id) = 1 /\ Checked(id)' = 0
          BY <2>1, <3>1, <3>3, <3>4 DEF Checked
      <4> QED BY <2>1, <3>1, <4>1, <4>2 DEF CountedOne, OnItsWay
    <3> QED BY <3>2, <3>3
  <2> QED BY <1>5, <2>1, <2>2
<1>13. ASSUME NEW i \in Ids, CallEmpty(i) PROVE Counted'
    BY <1>4, <1>13 DEF CallEmpty, fields, histories
<1> QED BY <1>1, <1>6, <1>7, <1>8, <1>9, <1>10, <1>11, <1>12, <1>13
       DEF Next, TimerThread, Calls, Terminated

\* However a timer's calls are spread over the wheel, dispatchList and update()'s
\* list, and however often they are swapped, no call of it is lost or made twice,
\* for any number of timers with any times.
THEOREM EachCallOnce == Spec => []CallsConserved
<1>1. Counted => CallsConserved
    BY DEF Counted, CountedOne, CallsConserved
<1> QED BY CountedInit, CountedNext, <1>1, PTL DEF Spec

-----------------------------------------------------------------------------
(* Where timers stand                                                      *)

At(nr, fr, id) ==
    {q \in Spots : IF q[1] = 0 THEN id \in nr[q[2]] ELSE id \in fr[q[1]][q[2]]}

LEMMA SpotIs ==
    ASSUME NEW q
    PROVE  q \in Spots <=> \/ \E s \in 0..Near - 1 : q = <<0, s>>
                           \/ \E l \in Lvls : \E s \in 0..Far - 1 : q = <<l, s>> /\ l # 0
<1>1. \A l \in Lvls : l # 0
    BY DEF Lvls
<1> QED BY <1>1 DEF Spots

\* Where a timer stands after insertions.
LEMMA PutAt ==
    ASSUME NEW nr, NEW fr, NEW place, NEW id
    PROVE  At(PutNear(nr, place), PutFar(fr, place), id)
              = At(nr, fr, id) \cup
                (IF id \in DOMAIN place THEN place[id] \cap Spots ELSE {})
<1>1. ASSUME NEW s \in 0..Near - 1
      PROVE  id \in PutNear(nr, place)[s] <=>
             id \in nr[s] \/ (id \in DOMAIN place /\ <<0, s>> \in place[id])
    BY DEF PutNear
<1>2. ASSUME NEW l \in Lvls, NEW s \in 0..Far - 1
      PROVE  id \in PutFar(fr, place)[l][s] <=>
             id \in fr[l][s] \/ (id \in DOMAIN place /\ <<l, s>> \in place[id])
    BY DEF PutFar
<1>3. ASSUME NEW q \in Spots
      PROVE  q \in At(PutNear(nr, place), PutFar(fr, place), id) <=>
             q \in At(nr, fr, id) \/ (id \in DOMAIN place /\ q \in place[id])
  <2>1. CASE \E s \in 0..Near - 1 : q = <<0, s>>
      BY <1>1, <2>1 DEF At
  <2>2. CASE \E l \in Lvls : \E s \in 0..Far - 1 : q = <<l, s>> /\ l # 0
      BY <1>2, <2>2 DEF At
  <2> QED BY <2>1, <2>2, SpotIs
<1>4. At(PutNear(nr, place), PutFar(fr, place), id) \subseteq Spots
      /\ At(nr, fr, id) \subseteq Spots
    BY DEF At
<1> QED BY <1>3, <1>4

LEMMA PlacesAt ==
    ASSUME NEW id
    PROVE  Places(id) = At(near, far, id) /\ Places(id)' = At(near', far', id)
BY DEF Places, At

LEMMA InsertsInSpots ==
    ASSUME NEW n \in Nat, NEW x \in Nat
    PROVE  InsertPlace(n, x) \subseteq Spots
<1>1. x % Near \in 0..Near - 1
    BY Constants, DivMod
<1>2. CASE n < Near
    BY <1>1, <1>2, Constants, InsertsOnce, SpotIs
<1>3. CASE n >= Near /\ n < Turn
  <2>1. PICK l \in Lvls : InsertPlace(n, x) = {<<l, Digit(x, l)>>}
      BY <1>3, InsertsOnce
  <2>2. Digit(x, l) \in 0..Far - 1 /\ l # 0
      BY DigitRange DEF Lvls
  <2> QED BY <2>1, <2>2, SpotIs
<1>4. CASE n >= Near /\ n >= Turn
    BY <1>4, InsertsOnce
<1> QED BY <1>2, <1>3, <1>4, Constants

\* addTimeCall() adds the new timer to one slot and moves no other.
LEMMA AddPlaces ==
    ASSUME Typed, NEW n \in Nat, NEW t, AddTimeCall(n, t), NEW id
    PROVE  Places(id)' = IF id = lastID + 1 THEN InsertPlace(n, (tick + n) % Turn)
                         ELSE Places(id)
<1> DEFINE x == (tick + n) % Turn
<1> DEFINE p == [i \in {lastID + 1} |-> InsertPlace(n, x)]
<1>1. x \in Nat
    BY Constants, DivMod, WheelsTyped
<1>2. near' = PutNear(near, p) /\ far' = PutFar(far, p)
    BY DEF AddTimeCall
<1>3. Places(id)' = Places(id) \cup (IF id \in DOMAIN p THEN p[id] \cap Spots ELSE {})
  <2> HIDE DEF p
  <2> QED BY <1>2, PutAt, PlacesAt
<1>4. CASE id # lastID + 1
    BY <1>3, <1>4
<1>5. CASE id = lastID + 1
  <2>1. id \notin 1..lastID
      BY <1>5, WheelsTyped
  <2>2. Places(id) = {}
    <3>1. \A s \in 0..Near - 1 : id \notin near[s]
        BY <2>1, WheelsTyped
    <3>2. \A l \in Lvls : \A s \in 0..Far - 1 : id \notin far[l][s]
      <4> SUFFICES ASSUME NEW l \in Lvls, NEW s \in 0..Far - 1 PROVE id \notin far[l][s]
          OBVIOUS
      <4>1. far[l] \in [0..Far - 1 -> SUBSET (1..lastID)]
          BY WheelsTyped
      <4> QED BY <2>1, <4>1
    <3> QED BY <3>1, <3>2, SpotIs DEF Places
  <2>3. id \in DOMAIN p /\ p[id] = InsertPlace(n, x)
      BY <1>5
  <2>4. InsertPlace(n, x) \subseteq Spots
      BY <1>1, InsertsInSpots
  <2> QED BY <1>3, <1>5, <2>2, <2>3, <2>4
<1> QED BY <1>4, <1>5

\* dispatch() inserts again what has calls left and empties its slot.
LEMMA DispatchPlaces ==
    ASSUME Typed, Dispatch, NEW id \in Ids
    PROVE  Places(id)' = (Places(id) \cup
                IF id \in Again THEN InsertPlace(interval[id], (tick + interval[id]) % Turn)
                ELSE {}) \ {<<0, tick % Near>>}
<1> DEFINE x(i) == (tick + interval[i]) % Turn
<1> DEFINE p == [i \in Again |-> InsertPlace(interval[i], x(i))]
<1> DEFINE nr == PutNear(near, p)
<1> DEFINE slot == tick % Near
<1>1. near' = [nr EXCEPT ![slot] = {}] /\ far' = PutFar(far, p)
    BY DEF Dispatch
<1>2. At(nr, far', id) = Places(id) \cup (IF id \in DOMAIN p THEN p[id] \cap Spots ELSE {})
  <2> HIDE DEF p
  <2> QED BY <1>1, PutAt, PlacesAt
<1>3. slot \in 0..Near - 1
    BY Constants, DivMod, WheelsTyped
<1>4. DOMAIN nr = 0..Near - 1
    BY DEF PutNear
<1>5. At(near', far', id) = At(nr, far', id) \ {<<0, slot>>}
  <2> HIDE DEF nr, slot
  <2>1. \A s \in 0..Near - 1 : near'[s] = IF s = slot THEN {} ELSE nr[s]
      BY <1>1, <1>3, <1>4
  <2>2. ASSUME NEW q \in Spots
        PROVE  q \in At(near', far', id) <=> q \in At(nr, far', id) /\ q # <<0, slot>>
    <3>1. CASE \E s \in 0..Near - 1 : q = <<0, s>>
        BY <2>1, <3>1 DEF At
    <3>2. CASE \E l \in Lvls : \E s \in 0..Far - 1 : q = <<l, s>> /\ l # 0
        BY <3>2 DEF At
    <3> QED BY <3>1, <3>2, SpotIs
  <2>3. At(near', far', id) \subseteq Spots /\ At(nr, far', id) \subseteq Spots
      BY DEF At
  <2> QED BY <2>2, <2>3
<1>6. ASSUME id \in Again
      PROVE  p[id] \cap Spots = InsertPlace(interval[id], x(id))
  <2>1. PICK n \in Nat : n = interval[id]
      BY DEF Typed, TypeOK
  <2>2. x(id) \in Nat
      BY <2>1, Constants, DivMod, WheelsTyped
  <2>3. InsertPlace(interval[id], x(id)) \subseteq Spots
      BY <2>1, <2>2, InsertsInSpots
  <2> QED BY <1>6, <2>3
<1>7. Places(id)' = At(near', far', id)
    BY PlacesAt
<1>8. DOMAIN p = Again
    OBVIOUS
<1> HIDE DEF p, nr
<1> QED BY <1>2, <1>5, <1>6, <1>7, <1>8

Opened == {<<l, Digit(tick, l)>> : l \in Expanded}

LEMMA MovesInSpots ==
    ASSUME NEW x \in Nat, NEW level \in 0..Levels
    PROVE  MovePlace(x, level) \in Spots
<1>1. x % Near \in 0..Near - 1
    BY Constants, DivMod
<1>2. CASE MovePlace(x, level) = <<0, x % Near>>
    BY <1>1, <1>2, SpotIs
<1>3. ASSUME NEW k \in Lvls, MovePlace(x, level) = <<k, Digit(x, k)>>
      PROVE  MovePlace(x, level) \in Spots
  <2>1. Digit(x, k) \in 0..Far - 1 /\ k # 0
      BY DigitRange DEF Lvls
  <2> QED BY <1>3, <2>1, SpotIs
<1> QED BY <1>2, <1>3, MovesOnce

\* expand() takes out of the slots it opens, and move() puts in.
LEMMA ExpandPlaces ==
    ASSUME Typed, Expand, NEW id \in Ids
    PROVE  Places(id)' = (Places(id) \ Opened) \cup
                {MovePlace(index[id], l - 1) :
                    l \in {m \in Expanded : <<m, Digit(tick, m)>> \in Places(id)}}
<1> DEFINE moved == UNION {far[l][Digit(tick, l)] : l \in Expanded}
<1> DEFINE from(i) == {m \in Expanded : i \in far[m][Digit(tick, m)]}
<1> DEFINE p == [i \in moved |-> {MovePlace(index[i], l - 1) : l \in from(i)}]
<1> DEFINE cleared == [l \in Lvls |-> [s \in 0..Far - 1 |->
                          IF l \in Expanded /\ s = Digit(tick, l)
                          THEN {} ELSE far[l][s]]]
<1>1. near' = PutNear(near, p) /\ far' = PutFar(cleared, p)
    BY DEF Expand
<1>2. ASSUME NEW l \in Expanded
      PROVE  l \in Lvls /\ Digit(tick, l) \in 0..Far - 1 /\ l # 0 /\ l - 1 \in 0..Levels
  <2>1. l \in Lvls
      BY DEF Expanded
  <2>2. tick \in Nat
      BY WheelsTyped
  <2> QED BY <2>1, <2>2, DigitRange, Constants DEF Lvls
<1>3. Places(id)' = At(near, cleared, id) \cup
                    (IF id \in DOMAIN p THEN p[id] \cap Spots ELSE {})
  <2> HIDE DEF p, cleared
  <2> QED BY <1>1, PutAt, PlacesAt
<1>4. At(near, cleared, id) = Places(id) \ Opened
  <2>1. ASSUME NEW q \in Spots
        PROVE  q \in At(near, cleared, id) <=> q \in At(near, far, id) /\ q \notin Opened
    <3>1. CASE \E s \in 0..Near - 1 : q = <<0, s>>
      <4>1. q \notin Opened
          BY <1>2, <3>1 DEF Opened
      <4> QED BY <3>1, <4>1 DEF At
    <3>2. CASE \E l \in Lvls : \E s \in 0..Far - 1 : q = <<l, s>> /\ l # 0
      <4>1. PICK l \in Lvls, s \in 0..Far - 1 : q = <<l, s>> /\ l # 0
          BY <3>2
      <4>2. q \in Opened <=> l \in Expanded /\ s = Digit(tick, l)
          BY <4>1 DEF Opened
      <4>3. cleared[l][s] = IF q \in Opened THEN {} ELSE far[l][s]
          BY <4>2
      <4> HIDE DEF cleared
      <4> QED BY <4>1, <4>3 DEF At
    <3> QED BY <3>1, <3>2, SpotIs
  <2>2. At(near, cleared, id) \subseteq Spots /\ At(near, far, id) \subseteq Spots
      BY DEF At
  <2> HIDE DEF cleared
  <2> QED BY <2>1, <2>2, PlacesAt
<1>5. from(id) = {m \in Expanded : <<m, Digit(tick, m)>> \in Places(id)}
  <2>1. ASSUME NEW m \in Expanded
        PROVE  <<m, Digit(tick, m)>> \in Places(id) <=> id \in far[m][Digit(tick, m)]
    <3>1. <<m, Digit(tick, m)>> \in Spots /\ m # 0
        BY <1>2, SpotIs
    <3> QED BY <3>1 DEF Places
  <2> QED BY <2>1
<1>6. id \in DOMAIN p <=> from(id) # {}
    OBVIOUS
<1>7. {MovePlace(index[id], l - 1) : l \in from(id)} \subseteq Spots
  <2>1. PICK x \in Nat : x = index[id]
      BY Constants DEF Typed, TypeOK
  <2>2. ASSUME NEW l \in from(id) PROVE MovePlace(x, l - 1) \in Spots
    <3>1. l \in Expanded
        OBVIOUS
    <3>2. l - 1 \in 0..Levels
        BY <1>2, <3>1
    <3> QED BY <3>2, MovesInSpots
  <2> QED BY <2>1, <2>2
<1>8. id \in DOMAIN p => p[id] = {MovePlace(index[id], l - 1) : l \in from(id)}
    OBVIOUS
<1>9. from(id) = {} => {MovePlace(index[id], l - 1) : l \in from(id)} = {}
    OBVIOUS
<1>10. Places(id)' = (Places(id) \ Opened) \cup
                     {MovePlace(index[id], l - 1) : l \in from(id)}
  <2> HIDE DEF p, from, cleared
  <2> QED BY <1>3, <1>4, <1>6, <1>7, <1>8, <1>9
<1> QED BY <1>5, <1>10

LEMMA ModTurn ==
    ASSUME NEW a \in Int
    PROVE  (a % Turn) % Near = a % Near /\ a % Turn \in 0..Turn - 1
<1>1. 0 \in 0..Levels /\ Levels \in 0..Levels /\ 0 <= Levels
    BY Constants
<1>2. PICK q \in Nat : q > 0 /\ Span[Levels] = Span[0] * q
    BY <1>1, Nested
<1>3. PICK w \in Nat, u \in Nat : w = Near /\ u = Turn /\ w > 0 /\ u = w * q
    BY <1>2, Constants DEF Turn
<1>4. \A c \in Nat : c = w * q => (a % c) % w = a % w
  <2>1. w > 0 /\ q > 0
      BY <1>2, <1>3
  <2> QED BY <2>1, ModMod
<1>5. (a % u) % w = a % w
    BY <1>3, <1>4
<1>6. a % Turn \in 0..Turn - 1
    BY Constants, DivMod
<1> QED BY <1>3, <1>5, <1>6

\* A timer that was just inserted waits where it should, at any tick.
LEMMA InsertedWaits ==
    ASSUME Typed, NEW id \in Ids, NEW n \in Nat, NEW x \in 0..Turn - 1,
           x = (tick + n) % Turn,
           tick' = tick, interval'[id] = n, elapsed'[id] = 0, index'[id] = x,
           Places(id)' = InsertPlace(n, x)
    PROVE  Waits(id)'
<1>1. tick \in Nat /\ x \in Nat
    BY Constants, WheelsTyped
<1>2. CASE n < Near
  <2>1. Places(id)' = {<<0, x % Near>>}
      BY <1>1, <1>2, InsertsOnce
  <2>2. x % Near = (tick + n) % Near /\ x % Near \in 0..Near - 1
    <3>1. PICK a \in Int : a = tick + n
        BY <1>1
    <3>2. (a % Turn) % Near = a % Near /\ a % Near \in 0..Near - 1
        BY ModTurn, DivMod, Constants
    <3> QED BY <3>1, <3>2
  <2>3. interval'[id] < Turn
    <3>1. 0 \in 0..Levels /\ Levels \in 0..Levels /\ 0 <= Levels
        BY Constants
    <3>2. PICK q \in Nat : q > 0 /\ Span[Levels] = Span[0] * q
        BY <3>1, Nested
    <3>3. PICK w \in Nat : w = Near /\ Turn = w * q
        BY <3>2, Constants DEF Turn
    <3>4. w <= w * q
        BY <3>2
    <3> QED BY <1>2, <3>3, <3>4, Constants
  <2>4. WaitsNear(id, x % Near)'
    <3>1. CASE n # 0 \/ timerPc' # "tick"
      <4>1. Left(id)' = n
          BY <3>1 DEF Left
      <4> QED BY <1>2, <2>2, <3>1, <4>1, Constants DEF WaitsNear
    <3>2. CASE n = 0 /\ timerPc' = "tick"
      <4>1. Left(id)' = Near
          BY <3>2, Constants DEF Left
      <4>2. (tick + Near) % Near = (tick + n) % Near
        <5>1. PICK w \in Nat, u \in Int, v \in Int :
                  w = Near /\ w > 0 /\ u = tick + Near /\ v = tick + n
            BY <1>1, Constants
        <5>2. PICK e \in Int : e = 1
            OBVIOUS
        <5>3. u = v + w * e /\ w > 0
            BY <1>1, <3>2, <5>1, <5>2
        <5>4. u % w = v % w
          <6>1. Congruent(u, v, w)
              BY <5>2, <5>3 DEF Congruent
          <6> QED BY <5>3, <6>1, ModSame
        <5> QED BY <5>1, <5>4
      <4> QED BY <2>2, <3>2, <4>1, <4>2, Constants DEF WaitsNear
    <3> QED BY <3>1, <3>2
  <2> QED BY <2>1, <2>2, <2>3, <2>4 DEF Waits
<1>3. CASE n >= Near /\ n < Turn
  <2>1. PICK l \in Lvls : /\ InsertPlace(n, x) = {<<l, Digit(x, l)>>}
                          /\ Span[l - 1] <= n /\ n < Span[l]
      BY <1>1, <1>3, InsertsOnce
  <2>2. Left(id)' = n /\ interval'[id] # 0
      BY <1>3, Constants DEF Left
  <2>3. Digit(x, l) \in 0..Far - 1
      BY <1>1, DigitRange
  <2>4. n - (x % Span[l - 1]) \in 1..Span[l] - 1
    <3>1. PICK w \in Nat, s \in Nat : w = Span[l - 1] /\ s = Span[l] /\ w > 0
        BY Constants DEF Lvls
    <3>2. x % w \in 0..w - 1
        BY <1>1, <3>1, DivMod
    <3> QED BY <2>1, <3>1, <3>2
  <2>5. WaitsFar(id, l, Digit(x, l))'
    <3>1. WaitsFar(id, l, Digit(x, l))' <=>
            /\ interval'[id] # 0
            /\ index'[id] = (tick' + Left(id)') % Turn
            /\ Digit(x, l) = Digit(index'[id], l)
            /\ Left(id)' - (index'[id] % Span[l - 1])
                   \in (IF timerPc' = "expand" THEN 0 ELSE 1)..Span[l] - 1
        BY DEF WaitsFar, Digit
    <3>2. n - (x % Span[l - 1]) \in (IF timerPc' = "expand" THEN 0 ELSE 1)..Span[l] - 1
      <4>1. PICK g \in 1..Span[l] - 1 : g = n - (x % Span[l - 1])
          BY <2>4
      <4>2. g \in (IF timerPc' = "expand" THEN 0 ELSE 1)..Span[l] - 1
          BY Constants DEF Lvls
      <4> QED BY <4>1, <4>2
    <3> QED BY <2>2, <3>1, <3>2
  <2> QED BY <1>3, <2>1, <2>3, <2>5 DEF Waits
<1>4. CASE n >= Near /\ n >= Turn
  <2>1. Places(id)' = {}
      BY <1>1, <1>4, InsertsOnce
  <2> QED BY <1>4, <2>1 DEF Waits
<1> QED BY <1>2, <1>3, <1>4, Constants

LEMMA LeftInt ==
    ASSUME Typed, NEW id \in Ids
    PROVE  Left(id) \in Int /\ interval[id] \in Nat /\ elapsed[id] \in Nat
<1>1. interval[id] \in Nat /\ elapsed[id] \in Nat
    BY DEF Typed, TypeOK
<1> QED BY <1>1, Constants DEF Left

\* A timer that expand() moved waits where it should.
LEMMA MovedWaits ==
    ASSUME Typed, timerPc = "expand", timerPc' \in {"dispatch", "sleep"},
           UNCHANGED <<tick, index, interval, elapsed>>,
           NEW id \in Ids, NEW l \in Lvls, interval[id] < Turn,
           WaitsFar(id, l, Digit(tick, l)), l \in Expanded,
           Places(id)' = {MovePlace(index[id], l - 1)}
    PROVE  Waits(id)'
<1>1. PICK t \in 0..Turn - 1, x \in 0..Turn - 1, r \in Int, w \in Nat, s \in Nat :
          /\ t = tick /\ x = index[id] /\ r = Left(id)
          /\ w = Span[l - 1] /\ s = Span[l] /\ w > 0
  <2>1. tick \in 0..Turn - 1 /\ index[id] \in 0..Turn - 1 /\ Left(id) \in Int
      BY LeftInt DEF Typed, TypeOK
  <2>2. Span[l - 1] \in Nat /\ Span[l] \in Nat /\ Span[l - 1] > 0
      BY Constants DEF Lvls
  <2> QED BY <2>1, <2>2
<1>2. /\ interval[id] # 0 /\ x = (t + r) % Turn /\ Digit(t, l) = Digit(x, l)
      /\ r - (x % w) \in 0..s - 1
    BY <1>1 DEF WaitsFar
<1>3. t \in Nat /\ x \in Nat /\ l - 1 \in 0..Levels
    BY <1>1, Constants
<1>4. t % w = 0
  <2>1. Expanded = {k \in Lvls : tick % Span[k - 1] = 0}
      BY <1>1, <1>3, CarryReaches
  <2> QED BY <1>1, <2>1
<1>5. x % w \in Nat
    BY <1>1, <1>3, DivMod
<1>6. r \in Nat
    BY <1>2, <1>5
<1>7. r = x % w
    BY <1>1, <1>2, <1>4, <1>6, OpenedInTime
<1>8. Left(id)' = r
    BY <1>1, <1>2 DEF Left
<1>9. CASE /\ MovePlace(x, l - 1) = <<0, x % Near>>
           /\ x % Span[l - 1] = x % Near
  <2>1. r = x % Near /\ r \in 0..Near - 1
      BY <1>1, <1>3, <1>7, <1>9, Constants, DivMod
  <2>2. x % Near = (t + r) % Near
    <3>1. PICK a \in Int : a = t + r
        BY <1>3, <1>6
    <3>2. (a % Turn) % Near = a % Near
        BY ModTurn
    <3> QED BY <1>2, <3>1, <3>2
  <2>3. WaitsNear(id, x % Near)'
      BY <1>1, <1>8, <2>1, <2>2 DEF WaitsNear
  <2>4. Places(id)' = {<<0, x % Near>>} /\ interval'[id] < Turn /\ x % Near \in 0..Near - 1
      BY <1>1, <1>9, <2>1
  <2> QED BY <2>3, <2>4 DEF Waits
<1>10. ASSUME NEW k \in Lvls,
              MovePlace(x, l - 1) = <<k, Digit(x, k)>>,
              Digit(x, k) # 0, x % Span[l - 1] = x % Span[k]
       PROVE  Waits(id)'
  <2>1. PICK v \in Nat, u \in Nat, d \in 0..Far - 1 :
            v = Span[k - 1] /\ v > 0 /\ u = Span[k] /\ d = Digit(x, k) /\ u > 0
    <3>1. Digit(x, k) \in 0..Far - 1
        BY <1>3, DigitRange
    <3> QED BY <3>1, Constants DEF Lvls
  <2>2. r = x % u
      BY <1>1, <1>7, <1>10, <2>1
  <2>3. x % u = (x % v) + v * d
      BY <1>3, <2>1, ModLevel
  <2>4. r \in 0..u - 1 /\ x % v \in 0..v - 1
      BY <1>3, <2>1, <2>2, DivMod
  <2>5. d \in Nat /\ d > 0
      BY <1>10, <2>1, Constants
  <2>6. v * d >= v
      BY <2>5
  <2>7. r - (x % v) \in 1..u - 1
    <3>1. PICK e \in Nat, m \in Nat : e = v * d /\ m = x % v
        BY <2>4, <2>5
    <3> QED BY <2>1, <2>2, <2>3, <2>4, <2>6, <3>1
  <2>8. WaitsFar(id, k, Digit(x, k))'
    <3>1. WaitsFar(id, k, Digit(x, k))' <=>
            /\ interval'[id] # 0
            /\ index'[id] = (tick' + Left(id)') % Turn
            /\ Digit(x, k) = Digit(index'[id], k)
            /\ Left(id)' - (index'[id] % Span[k - 1])
                   \in (IF timerPc' = "expand" THEN 0 ELSE 1)..Span[k] - 1
        BY DEF WaitsFar, Digit
    <3> QED BY <1>1, <1>2, <1>8, <2>1, <2>7, <3>1
  <2>9. Places(id)' = {<<k, Digit(x, k)>>} /\ interval'[id] < Turn
        /\ Digit(x, k) \in 0..Far - 1
      BY <1>1, <1>10, <2>1
  <2> QED BY <2>8, <2>9 DEF Waits
<1> QED BY <1>3, <1>9, <1>10, MovesOnce

\* A slot that expand() leaves shut holds nothing that it should have moved.
LEMMA ShutWaits ==
    ASSUME Typed, NEW id \in Ids, NEW l \in Lvls, NEW s \in 0..Far - 1,
           WaitsFar(id, l, s), <<l, s>> \notin Opened
    PROVE  Left(id) - (index[id] % Span[l - 1]) # 0
<1>1. SUFFICES ASSUME Left(id) - (index[id] % Span[l - 1]) = 0 PROVE FALSE
    OBVIOUS
<1>2. PICK t \in 0..Turn - 1, x \in 0..Turn - 1, r \in Int, w \in Nat :
          t = tick /\ x = index[id] /\ r = Left(id) /\ w = Span[l - 1] /\ w > 0
  <2>1. tick \in 0..Turn - 1 /\ index[id] \in 0..Turn - 1 /\ Left(id) \in Int
      BY LeftInt DEF Typed, TypeOK
  <2>2. Span[l - 1] \in Nat /\ Span[l - 1] > 0
      BY Constants DEF Lvls
  <2> QED BY <2>1, <2>2
<1>3. t \in Nat /\ x \in Nat
    BY Constants
<1>4. x % w \in Nat
    BY <1>2, <1>3, DivMod
<1>5. r = x % w
    BY <1>1, <1>2, <1>4
<1>6. x = (t + r) % Turn /\ s = Digit(x, l)
    BY <1>2 DEF WaitsFar
<1>7. t % Span[l - 1] = 0 /\ Digit(t, l) = Digit(x, l)
    BY <1>2, <1>4, <1>5, <1>6, ReachedWhenDue
<1>8. Expanded = {k \in Lvls : tick % Span[k - 1] = 0}
    BY <1>2, <1>3, CarryReaches
<1>9. l \in Expanded
    BY <1>2, <1>7, <1>8
<1> QED BY <1>2, <1>6, <1>7, <1>9 DEF Opened

-----------------------------------------------------------------------------
(* Every step keeps the timers in their slots                              *)

\* What a step leaves alone while a timer goes on waiting.
LEMMA KeepsWaiting ==
    ASSUME NEW id, Waits(id), Places(id)' = Places(id), tick' = tick,
           index'[id] = index[id], interval'[id] = interval[id], elapsed'[id] = elapsed[id],
           timerPc' = timerPc \/ {timerPc, timerPc'} \cap {"tick", "expand"} = {}
    PROVE  Waits(id)'
<1>1. Left(id)' = Left(id)
    BY DEF Left
<1>2. \A s : WaitsNear(id, s) => WaitsNear(id, s)'
    BY <1>1 DEF WaitsNear
<1>3. \A l, s : WaitsFar(id, l, s) => WaitsFar(id, l, s)'
    BY <1>1 DEF WaitsFar, Digit
<1> QED BY <1>2, <1>3 DEF Waits

LEMMA SamePlaces ==
    ASSUME NEW id, near' = near, far' = far
    PROVE  Places(id)' = Places(id)
BY DEF Places

LEMMA WheelsInit == Init => Wheels
<1>1. SUFFICES ASSUME Init PROVE Wheels
    OBVIOUS
<1>2. Typed
    BY <1>1, TypedInit
<1>3. ASSUME NEW id PROVE Places(id) = {}
  <2>1. \A s \in 0..Near - 1 : id \notin near[s]
      BY <1>1 DEF Init
  <2>2. \A l \in Lvls : \A s \in 0..Far - 1 : id \notin far[l][s]
      BY <1>1 DEF Init
  <2> QED BY <2>1, <2>2, SpotIs DEF Places
<1> QED BY <1>1, <1>2, <1>3 DEF Init, Wheels, Alive, Ended, InPlace

LEMMA WheelsFrame ==
    ASSUME Wheels, Typed',
           UNCHANGED <<tick, near, far, index, scheduleList, remainTimes, interval, elapsed>>,
           timerPc' = timerPc \/ {timerPc, timerPc'} \cap {"tick", "expand"} = {}
    PROVE  Wheels'
<1>1. \A id : Places(id)' = Places(id)
    BY SamePlaces
<1>2. Alive'
    BY DEF Wheels, Alive
<1>3. Ended'
    BY <1>1 DEF Wheels, Ended
<1>4. ASSUME NEW id \in scheduleList' PROVE Waits(id)'
  <2>1. Waits(id)
      BY DEF Wheels, InPlace
  <2> QED BY <1>1, <2>1, KeepsWaiting
<1> QED BY <1>2, <1>3, <1>4 DEF Wheels, InPlace

LEMMA WheelsAddTimeCall ==
    ASSUME Wheels, Typed', NEW n \in Intervals, NEW t \in Times, AddTimeCall(n, t)
    PROVE  Wheels'
<1> DEFINE x == (tick + n) % Turn
<1>1. n \in Nat /\ t \in Int /\ t # 0 /\ (n = 0 => t = 1)
    BY TimerAssumption DEF AddTimeCall
<1>2. Typed
    BY DEF Wheels
<1>3. PICK new \in Ids : new = lastID + 1 /\ new \notin 1..lastID
    BY <1>2, WheelsTyped, Constants DEF AddTimeCall, Ids
<1>4. /\ scheduleList' = scheduleList \cup {new}
      /\ remainTimes' = [remainTimes EXCEPT ![new] = t]
      /\ interval' = [interval EXCEPT ![new] = n]
      /\ elapsed' = [elapsed EXCEPT ![new] = 0]
      /\ index' = [index EXCEPT ![new] = x]
      /\ tick' = tick /\ timerPc' = timerPc
    BY <1>3 DEF AddTimeCall
<1>5. \A id : Places(id)' = IF id = new THEN InsertPlace(n, x) ELSE Places(id)
    BY <1>1, <1>2, <1>3, AddPlaces
<1>6. /\ scheduleList \subseteq 1..lastID /\ 1..lastID \subseteq Ids
      /\ remainTimes \in [Ids -> Int] /\ interval \in [Ids -> Nat]
      /\ elapsed \in [Ids -> Nat] /\ index \in [Ids -> 0..Turn - 1]
    BY <1>2, WheelsTyped DEF Typed, TypeOK
<1>7. x \in 0..Turn - 1
  <2>1. PICK a \in Int : a = tick + n
      BY <1>1, <1>2, WheelsTyped
  <2> QED BY <2>1, ModTurn
<1> HIDE DEF x
<1>8. Alive'
    BY <1>1, <1>4, <1>6 DEF Wheels, Alive
<1>9. Ended'
    BY <1>4, <1>5, <1>6 DEF Wheels, Ended
<1>10. Waits(new)'
    BY <1>1, <1>2, <1>4, <1>5, <1>6, <1>7, InsertedWaits DEF x
<1>11. ASSUME NEW id \in scheduleList PROVE Waits(id)'
  <2>1. Waits(id) /\ id # new /\ id \in Ids
      BY <1>3, <1>6 DEF Wheels, InPlace
  <2> QED BY <1>4, <1>5, <1>6, <2>1, KeepsWaiting
<1> QED BY <1>4, <1>8, <1>9, <1>10, <1>11 DEF Wheels, InPlace

LEMMA WheelsRemove ==
    ASSUME Wheels, Typed', NEW i \in Ids, Remove(i)
    PROVE  Wheels'
<1>1. CASE i \notin scheduleList
    BY <1>1, WheelsFrame DEF Remove, wheel
<1>2. CASE i \in scheduleList
  <2>1. /\ scheduleList' = scheduleList \ {i}
        /\ remainTimes' = [remainTimes EXCEPT ![i] = 0]
        /\ elapsed' = [elapsed EXCEPT ![i] = 0]
        /\ UNCHANGED <<near, far, index, interval, tick, timerPc>>
      BY <1>2 DEF Remove, wheel
  <2>2. /\ scheduleList \subseteq Ids
        /\ remainTimes \in [Ids -> Int] /\ elapsed \in [Ids -> Nat]
      BY WheelsTyped DEF Wheels, Typed, TypeOK
  <2>3. \A id : Places(id)' = Places(id)
      BY <2>1, SamePlaces
  <2>4. Alive'
      BY <2>1, <2>2 DEF Wheels, Alive
  <2>5. Ended'
      BY <2>1, <2>2, <2>3 DEF Wheels, Ended
  <2>6. ASSUME NEW id \in scheduleList' PROVE Waits(id)'
    <3>1. Waits(id) /\ id # i /\ id \in Ids
        BY <2>1, <2>2 DEF Wheels, InPlace
    <3> QED BY <2>1, <2>2, <2>3, <3>1, KeepsWaiting
  <2> QED BY <2>4, <2>5, <2>6 DEF Wheels, InPlace
<1> QED BY <1>1, <1>2

\* ++tick brings every timer in the wheels a tick nearer.
LEMMA WheelsTick ==
    ASSUME Wheels, Typed', Tick
    PROVE  Wheels'
<1>1. /\ timerPc = "tick" /\ timerPc' = "expand" /\ tick' = (tick + 1) % Turn
      /\ elapsed' = [id \in Ids |->
            IF /\ id \in scheduleList /\ interval[id] < Turn
               /\ elapsed[id] <= interval[id] + Near
            THEN elapsed[id] + 1 ELSE elapsed[id]]
      /\ UNCHANGED <<near, far, index, scheduleList, remainTimes, interval>>
    BY DEF Tick, NextTick, wheel, fields
<1>2. Typed /\ tick \in Nat /\ scheduleList \subseteq Ids
    BY WheelsTyped DEF Wheels, Typed, TypeOK
<1>3. \A id : Places(id)' = Places(id)
    BY <1>1, SamePlaces
<1>4. Alive' /\ Ended'
    BY <1>1, <1>3 DEF Wheels, Alive, Ended
<1>5. ASSUME NEW id \in scheduleList PROVE Waits(id)'
  <2>1. id \in Ids /\ Waits(id) /\ Left(id) \in Int
        /\ interval[id] \in Nat /\ elapsed[id] \in Nat
      BY <1>2, LeftInt DEF Wheels, InPlace
  <2>2. ASSUME interval[id] < Turn, Left(id) >= 1 \/ (interval[id] # 0 /\ Left(id) >= 0)
        PROVE  Left(id)' = Left(id) - 1
    <3>1. elapsed[id] <= interval[id] + Near
        BY <1>1, <2>1, <2>2, Constants DEF Left
    <3>2. elapsed'[id] = elapsed[id] + 1
        BY <1>1, <2>1, <2>2, <3>1
    <3> QED BY <1>1, <2>1, <3>2, Constants DEF Left
  <2>3. ASSUME NEW b \in Nat, b > 0, NEW r \in Int, b = Near \/ b = Turn
        PROVE  (((tick + 1) % Turn) + (r - 1)) % b = (tick + r) % b
    <3>1. PICK a \in Int, c \in Int : a = tick + 1 /\ c = r - 1
        BY <1>2
    <3>2. PICK d \in Int, e \in Int : d = a % Turn /\ e = a % b
        BY <3>1, <2>3, Constants, DivMod
    <3>3. d % b = a % b
      <4>1. CASE b = Near
          BY <3>2, <4>1, ModTurn
      <4>2. CASE b = Turn
        <5>1. d \in 0..b - 1
            BY <3>2, <4>2, ModTurn
        <5>2. d % b = d
            BY <2>3, <5>1, ModSmall
        <5> QED BY <3>2, <4>2, <5>2
      <4> QED BY <2>3, <4>1, <4>2
    <3>4. ASSUME NEW y \in Int, NEW z \in Int PROVE ((y % b) + z) % b = (y + z) % b
        BY <2>3, <3>4, ModPlus
    <3>5. (d + c) % b = (a + c) % b
      <4>1. ((d % b) + c) % b = (d + c) % b
          BY <3>4
      <4>2. ((a % b) + c) % b = (a + c) % b
          BY <3>4
      <4> QED BY <3>3, <4>1, <4>2
    <3>6. a + c = tick + r
        BY <1>2, <3>1
    <3> QED BY <3>1, <3>2, <3>5, <3>6
  <2>4. ASSUME NEW s \in 0..Near - 1, Places(id) = {<<0, s>>}, interval[id] < Turn,
               WaitsNear(id, s)
        PROVE  Waits(id)'
    <3>1. Left(id) \in 1..Near /\ s = (tick + Left(id)) % Near
        BY <1>1, <2>4 DEF WaitsNear
    <3>2. Left(id)' = Left(id) - 1
        BY <2>2, <2>4, <3>1
    <3>3. s = (tick' + Left(id)') % Near
        BY <1>1, <2>1, <2>3, <3>1, <3>2, Constants
    <3>4. Left(id)' \in 0..Near - 1
        BY <3>1, <3>2, Constants
    <3>5. WaitsNear(id, s)'
        BY <1>1, <3>3, <3>4 DEF WaitsNear
    <3> QED BY <1>1, <1>3, <2>4, <3>5 DEF Waits
  <2>5. ASSUME NEW l \in Lvls, NEW s \in 0..Far - 1, Places(id) = {<<l, s>>},
               interval[id] < Turn, WaitsFar(id, l, s)
        PROVE  Waits(id)'
    <3>1. /\ interval[id] # 0 /\ index[id] = (tick + Left(id)) % Turn
          /\ s = Digit(index[id], l)
          /\ Left(id) - (index[id] % Span[l - 1]) \in 1..Span[l] - 1
        BY <1>1, <2>5 DEF WaitsFar
    <3>2. PICK r \in Int, m \in Nat : r = Left(id) /\ m = index[id] % Span[l - 1]
      <4>1. PICK w \in Nat, x \in Nat : w = Span[l - 1] /\ w > 0 /\ x = index[id]
        <5>1. Span[l - 1] \in Nat /\ Span[l - 1] > 0
            BY Constants
        <5>2. index[id] \in Nat
            BY <1>2, <2>1, Constants DEF Typed, TypeOK
        <5> QED BY <5>1, <5>2
      <4>2. x % w \in Nat
          BY <4>1, DivMod
      <4> QED BY <2>1, <4>1, <4>2
    <3>3. r - m \in 1..Span[l] - 1 /\ Span[l] \in Nat
        BY <3>1, <3>2, Constants DEF Lvls
    <3>4. Left(id)' = r - 1
        BY <2>2, <2>5, <3>1, <3>2, <3>3
    <3>5. index'[id] = (tick' + Left(id)') % Turn
        BY <1>1, <2>3, <3>1, <3>2, <3>4, Constants
    <3>6. (r - 1) - m \in 0..Span[l] - 1
        BY <3>2, <3>3
    <3>7. WaitsFar(id, l, s)' <=>
            /\ interval'[id] # 0
            /\ index'[id] = (tick' + Left(id)') % Turn
            /\ s = Digit(index'[id], l)
            /\ Left(id)' - (index'[id] % Span[l - 1])
                   \in (IF timerPc' = "expand" THEN 0 ELSE 1)..Span[l] - 1
        BY DEF WaitsFar, Digit
    <3>8. WaitsFar(id, l, s)'
        BY <1>1, <3>1, <3>2, <3>4, <3>5, <3>6, <3>7
    <3> QED BY <1>1, <1>3, <2>5, <3>8 DEF Waits
  <2>6. ASSUME interval[id] >= Turn, Places(id) = {}, elapsed[id] = 0
        PROVE  Waits(id)'
      BY <1>1, <1>3, <2>1, <2>6, Constants DEF Waits
  <2> QED BY <2>1, <2>4, <2>5, <2>6 DEF Waits
<1> QED BY <1>1, <1>4, <1>5 DEF Wheels, InPlace

\* An interval shorter than near does not come back to the same slot.
LEMMA OtherSlot ==
    ASSUME NEW t \in Nat, NEW n \in Nat, n > 0, n < Near
    PROVE  (t + n) % Near # t % Near
<1>1. PICK b \in Nat : b = Near /\ b > 0
    BY Constants
<1>2. PICK a \in 0..b - 1 : a = t % b
    BY <1>1, DivMod
<1>3. ASSUME NEW y \in Int, NEW z \in Int PROVE ((y % b) + z) % b = (y + z) % b
    BY <1>1, <1>3, ModPlus
<1>4. (a + n) % b = (t + n) % b
  <2>1. ((t % b) + n) % b = (t + n) % b
    <3>1. t \in Int /\ n \in Int
        OBVIOUS
    <3> QED BY <3>1, <1>3
  <2> QED BY <1>2, <2>1
<1>5. PICK e \in 0..b + b - 1 : e = a + n
    BY <1>1
<1>6. e % b = IF e < b THEN e ELSE e - b
    BY <1>1, ModTwice
<1>7. (a + n) % b # a
    BY <1>1, <1>5, <1>6
<1> QED BY <1>1, <1>2, <1>4, <1>7

\* What dispatch() finds in the current slot is due, and waits nowhere else.
LEMMA DueNow ==
    ASSUME Wheels, timerPc = "dispatch", NEW id \in Due
    PROVE  /\ id \in Ids /\ id \in scheduleList
           /\ Places(id) = {<<0, tick % Near>>}
           /\ interval[id] < Turn /\ Left(id) = 0
<1>1. Typed /\ tick \in Nat
    BY WheelsTyped DEF Wheels
<1>2. tick % Near \in 0..Near - 1
    BY <1>1, Constants, DivMod
<1>3. id \in near[tick % Near] /\ remainTimes[id] # 0
    BY DEF Due
<1>4. id \in Ids
    BY <1>1, <1>2, <1>3 DEF Typed, TypeOK
<1>5. <<0, tick % Near>> \in Places(id)
    BY <1>2, <1>3, SpotIs DEF Places
<1>6. id \in scheduleList /\ Waits(id)
    BY <1>3, <1>4, <1>5 DEF Wheels, Ended, InPlace
<1>7. \A l \in Lvls : l # 0
    BY DEF Lvls
<1>8. PICK s \in 0..Near - 1 :
          Places(id) = {<<0, s>>} /\ WaitsNear(id, s) /\ interval[id] < Turn
    BY <1>5, <1>6, <1>7 DEF Waits
<1>9. s = tick % Near
    BY <1>5, <1>8
<1>10. PICK r \in 0..Near - 1 : r = Left(id) /\ (tick + r) % Near = tick % Near
    BY <1>8, <1>9 DEF WaitsNear
<1>11. r = 0
  <2>1. r > 0 => (tick + r) % Near # tick % Near
      BY <1>1, Constants, OtherSlot
  <2> QED BY <1>10, <2>1, Constants
<1> QED BY <1>4, <1>6, <1>8, <1>9, <1>10, <1>11

LEMMA WheelsDispatch ==
    ASSUME Wheels, Typed', Dispatch
    PROVE  Wheels'
<1> DEFINE slot == tick % Near
<1> DEFINE x(id) == (tick + interval[id]) % Turn
<1>1. /\ timerPc = "dispatch" /\ timerPc' = "tick" /\ tick' = tick
      /\ index' = [id \in Ids |-> IF id \in Again THEN x(id) ELSE index[id]]
      /\ elapsed' = [id \in Ids |-> IF id \in Due THEN 0 ELSE elapsed[id]]
      /\ remainTimes' = [id \in Ids |->
            IF id \in Due THEN AfterCall(id) ELSE remainTimes[id]]
      /\ scheduleList' = scheduleList \ (Due \ Again)
      /\ interval' = interval
    BY DEF Dispatch
<1>2. /\ Typed /\ tick \in Nat /\ scheduleList \subseteq Ids
      /\ slot \in 0..Near - 1 /\ Again \subseteq Due
      /\ remainTimes \in [Ids -> Int] /\ interval \in [Ids -> Nat]
  <2>1. Typed
      BY DEF Wheels
  <2>2. tick \in Nat
      BY <2>1, WheelsTyped
  <2>3. slot \in 0..Near - 1
      BY <2>2, Constants, DivMod
  <2>4. scheduleList \subseteq Ids
      BY <2>1, WheelsTyped DEF Typed, TypeOK
  <2>5. Again \subseteq Due
      BY DEF Again
  <2> QED BY <2>1, <2>2, <2>3, <2>4, <2>5 DEF Typed, TypeOK
<1>3. \A id \in Ids : Places(id)' = (Places(id) \cup
            IF id \in Again THEN InsertPlace(interval[id], x(id)) ELSE {}) \ {<<0, slot>>}
    BY <1>2, DispatchPlaces
<1> HIDE DEF x
<1>4. ASSUME NEW id \in Again
      PROVE  /\ remainTimes[id] # 1 /\ AfterCall(id) # 0 /\ interval[id] # 0
             /\ id \in Ids /\ id \in scheduleList
  <2>1. id \in Due /\ id \in Ids /\ id \in scheduleList
      BY <1>1, <1>2, DueNow
  <2>2. AfterCall(id) = -1 \/ AfterCall(id) > 0
      BY DEF Again
  <2>3. remainTimes[id] \in Int
      BY <1>2, <2>1
  <2>4. remainTimes[id] # 1 /\ AfterCall(id) # 0
      BY <2>2, <2>3 DEF AfterCall
  <2> QED BY <2>1, <2>4 DEF Wheels, Alive
<1>5. Alive'
  <2> SUFFICES ASSUME NEW id \in scheduleList'
               PROVE  /\ remainTimes'[id] # 0
                      /\ interval'[id] = 0 => remainTimes'[id] = 1
      BY DEF Alive
  <2>1. id \in scheduleList /\ id \in Ids /\ (id \in Due => id \in Again)
      BY <1>1, <1>2
  <2>2. CASE id \in Due
      BY <1>1, <1>4, <2>1, <2>2
  <2>3. CASE id \notin Due
      BY <1>1, <2>1, <2>3 DEF Wheels, Alive
  <2> QED BY <2>2, <2>3
<1>6. Ended'
  <2> SUFFICES ASSUME NEW id \in Ids, Places(id)' # {}, remainTimes'[id] # 0
               PROVE  id \in scheduleList'
      BY DEF Ended
  <2>1. CASE id \in Again
      BY <1>1, <1>4, <2>1
  <2>2. CASE id \in Due \ Again
      BY <1>1, <1>3, <2>2, DueNow
  <2>3. CASE id \notin Due
    <3>1. Places(id) # {} /\ remainTimes[id] # 0
        BY <1>1, <1>2, <1>3, <2>3
    <3> QED BY <1>1, <2>3, <3>1 DEF Wheels, Ended
  <2> QED BY <2>1, <2>2, <2>3
<1>7. ASSUME NEW id \in scheduleList', id \in Due PROVE Waits(id)'
  <2>1. id \in Again /\ id \in Ids /\ interval[id] # 0
      BY <1>1, <1>4, <1>7
  <2>2. PICK n \in Nat : n = interval[id] /\ n > 0
      BY <1>2, <2>1
  <2>3. Places(id) = {<<0, slot>>} /\ n < Turn
      BY <1>1, <1>7, <2>2, DueNow
  <2>4. x(id) \in 0..Turn - 1 /\ x(id) = (tick + n) % Turn
    <3>1. PICK a \in Int : a = tick + n
        BY <1>2
    <3> QED BY <2>2, <3>1, ModTurn DEF x
  <2>5. <<0, slot>> \notin InsertPlace(n, x(id))
    <3>0. x(id) \in Nat
        BY <2>4, Constants
    <3>1. CASE n < Near
      <4>1. PICK a \in Int : a = tick + n
          BY <1>2
      <4>2. x(id) % Near = (tick + n) % Near
          BY <2>4, <4>1, ModTurn
      <4>3. (tick + n) % Near # slot
          BY <1>2, <2>2, <3>1, OtherSlot
      <4> QED BY <3>0, <3>1, <4>2, <4>3, InsertsOnce
    <3>2. CASE n >= Near
      <4>1. PICK l \in Lvls : InsertPlace(n, x(id)) = {<<l, Digit(x(id), l)>>}
          BY <2>3, <3>0, <3>2, InsertsOnce
      <4> QED BY <4>1 DEF Lvls
    <3> QED BY <3>1, <3>2, Constants
  <2>6. Places(id)' = InsertPlace(n, x(id))
      BY <1>3, <2>1, <2>2, <2>3, <2>5
  <2>7. interval'[id] = n /\ elapsed'[id] = 0 /\ index'[id] = x(id)
      BY <1>1, <1>7, <2>1, <2>2
  <2> HIDE DEF slot
  <2> QED BY <1>1, <1>2, <2>1, <2>4, <2>6, <2>7, InsertedWaits
<1>8. ASSUME NEW id \in scheduleList', id \notin Due PROVE Waits(id)'
  <2>1. /\ id \in Ids /\ id \notin Again /\ id \in scheduleList /\ Waits(id)
        /\ remainTimes[id] # 0
      BY <1>1, <1>2, <1>8 DEF Wheels, InPlace, Alive
  <2>2. <<0, slot>> \notin Places(id)
    <3>1. id \notin near[slot]
        BY <1>8, <2>1 DEF Due
    <3> QED BY <3>1 DEF Places
  <2>3. Places(id)' = Places(id)
      BY <1>3, <2>1, <2>2
  <2>4. index'[id] = index[id] /\ elapsed'[id] = elapsed[id] /\ interval'[id] = interval[id]
      BY <1>1, <1>8, <2>1
  <2>5. /\ Left(id) \in Int /\ interval[id] \in Nat /\ elapsed[id] \in Nat
      BY <1>2, <2>1, LeftInt
  <2>6. Left(id) # 0 \/ interval[id] # 0 => Left(id)' = Left(id)
      BY <1>1, <2>4, <2>5 DEF Left
  <2>7. ASSUME NEW s \in 0..Near - 1, Places(id) = {<<0, s>>}, interval[id] < Turn,
               WaitsNear(id, s)
        PROVE  Waits(id)'
    <3>1. s # slot
        BY <2>2, <2>7
    <3>2. Left(id) \in 0..Near - 1 /\ s = (tick + Left(id)) % Near
        BY <1>1, <2>7 DEF WaitsNear
    <3>3. Left(id) # 0
      <4>1. tick + 0 = tick
          BY <1>2
      <4> QED BY <3>1, <3>2, <4>1
    <3>4. Left(id)' = Left(id) /\ Left(id) \in 1..Near
        BY <2>6, <3>2, <3>3, Constants
    <3>5. WaitsNear(id, s)'
        BY <1>1, <3>2, <3>4 DEF WaitsNear
    <3> QED BY <2>3, <2>4, <2>7, <3>5 DEF Waits
  <2>8. ASSUME NEW l \in Lvls, NEW s \in 0..Far - 1, Places(id) = {<<l, s>>},
               interval[id] < Turn, WaitsFar(id, l, s)
        PROVE  Waits(id)'
    <3>1. interval[id] # 0
        BY <2>8 DEF WaitsFar
    <3>2. Left(id)' = Left(id)
        BY <2>6, <3>1
    <3>3. WaitsFar(id, l, s)'
        BY <1>1, <2>4, <2>8, <3>2 DEF WaitsFar, Digit
    <3> QED BY <2>3, <2>4, <2>8, <3>3 DEF Waits
  <2>9. ASSUME interval[id] >= Turn, Places(id) = {}, elapsed[id] = 0
        PROVE  Waits(id)'
      BY <2>3, <2>4, <2>9 DEF Waits
  <2> QED BY <2>1, <2>7, <2>8, <2>9 DEF Waits
<1> QED BY <1>5, <1>6, <1>7, <1>8 DEF Wheels, InPlace

LEMMA WheelsExpand ==
    ASSUME Wheels, Typed', Expand
    PROVE  Wheels'
<1>1. /\ timerPc = "expand" /\ timerPc' \in {"dispatch", "sleep"}
      /\ UNCHANGED <<tick, index, scheduleList, remainTimes, interval, elapsed>>
    BY DEF Expand, fields, histories
<1>2. /\ Typed /\ tick \in Nat /\ scheduleList \subseteq Ids
    BY WheelsTyped DEF Wheels, Typed, TypeOK
<1>3. \A id \in Ids : Places(id)' = (Places(id) \ Opened) \cup
                {MovePlace(index[id], l - 1) :
                    l \in {m \in Expanded : <<m, Digit(tick, m)>> \in Places(id)}}
    BY <1>2, ExpandPlaces
<1>4. Alive'
    BY <1>1 DEF Wheels, Alive
<1>5. Ended'
  <2> SUFFICES ASSUME NEW id \in Ids, Places(id)' # {}, remainTimes'[id] # 0
               PROVE  id \in scheduleList'
      BY DEF Ended
  <2>1. Places(id) # {}
      BY <1>3
  <2> QED BY <1>1, <2>1 DEF Wheels, Ended
<1>6. ASSUME NEW id \in scheduleList' PROVE Waits(id)'
  <2>1. /\ id \in Ids /\ Waits(id) /\ Left(id) \in Int
        /\ interval[id] \in Nat /\ elapsed[id] \in Nat
      BY <1>1, <1>2, LeftInt DEF Wheels, InPlace
  <2>2. Left(id)' = Left(id)
      BY <1>1, <2>1 DEF Left
  <2>3. \A m \in Expanded : m \in Lvls /\ m # 0
      BY DEF Expanded, Lvls
  <2>4. ASSUME NEW s \in 0..Near - 1, Places(id) = {<<0, s>>}, interval[id] < Turn,
               WaitsNear(id, s)
        PROVE  Waits(id)'
    <3>1. <<0, s>> \notin Opened
        BY <2>3 DEF Opened
    <3>2. {m \in Expanded : <<m, Digit(tick, m)>> \in Places(id)} = {}
        BY <2>3, <2>4
    <3>3. Places(id)' = {<<0, s>>}
        BY <1>3, <2>1, <2>4, <3>1, <3>2
    <3>4. WaitsNear(id, s)'
        BY <1>1, <2>2, <2>4 DEF WaitsNear
    <3> QED BY <1>1, <2>4, <3>3, <3>4 DEF Waits
  <2>5. ASSUME NEW l \in Lvls, NEW s \in 0..Far - 1, Places(id) = {<<l, s>>},
               interval[id] < Turn, WaitsFar(id, l, s)
        PROVE  Waits(id)'
    <3>1. CASE <<l, s>> \in Opened
      <4>1. l \in Expanded /\ s = Digit(tick, l)
          BY <3>1 DEF Opened
      <4>2. {m \in Expanded : <<m, Digit(tick, m)>> \in Places(id)} = {l}
          BY <2>5, <4>1
      <4>3. Places(id)' = {MovePlace(index[id], l - 1)}
        <5>1. Places(id) \ Opened = {}
            BY <2>5, <3>1
        <5>2. {MovePlace(index[id], m - 1) :
                  m \in {m \in Expanded : <<m, Digit(tick, m)>> \in Places(id)}}
                = {MovePlace(index[id], l - 1)}
            BY <4>2
        <5> QED BY <1>3, <2>1, <5>1, <5>2
      <4> QED BY <1>1, <1>2, <2>1, <2>5, <4>1, <4>3, MovedWaits
    <3>2. CASE <<l, s>> \notin Opened
      <4>1. {m \in Expanded : <<m, Digit(tick, m)>> \in Places(id)} = {}
          BY <2>5, <3>2 DEF Opened
      <4>2. Places(id)' = {<<l, s>>}
          BY <1>3, <2>1, <2>5, <3>2, <4>1
      <4>3. Left(id) - (index[id] % Span[l - 1]) # 0
          BY <1>2, <2>1, <2>5, <3>2, ShutWaits
      <4>4. /\ interval[id] # 0
            /\ index[id] = (tick + Left(id)) % Turn
            /\ s = Digit(index[id], l)
            /\ Left(id) - (index[id] % Span[l - 1]) \in 0..Span[l] - 1
          BY <1>1, <2>5 DEF WaitsFar
      <4>5. PICK g \in 0..Span[l] - 1 : g = Left(id) - (index[id] % Span[l - 1])
          BY <4>4
      <4>6. g \in 1..Span[l] - 1
        <5>1. g # 0 /\ Span[l] \in Nat
            BY <4>3, <4>5, Constants DEF Lvls
        <5> QED BY <5>1
      <4>7. WaitsFar(id, l, s)' <=>
            /\ interval'[id] # 0
            /\ index'[id] = (tick' + Left(id)') % Turn
            /\ s = Digit(index'[id], l)
            /\ Left(id)' - (index'[id] % Span[l - 1])
                   \in (IF timerPc' = "expand" THEN 0 ELSE 1)..Span[l] - 1
          BY DEF WaitsFar, Digit
      <4>8. WaitsFar(id, l, s)'
          BY <1>1, <2>2, <4>4, <4>5, <4>6, <4>7
      <4> QED BY <1>1, <2>5, <4>2, <4>8 DEF Waits
    <3> QED BY <3>1, <3>2
  <2>6. ASSUME interval[id] >= Turn, Places(id) = {}, elapsed[id] = 0
        PROVE  Waits(id)'
    <3>1. {m \in Expanded : <<m, Digit(tick, m)>> \in Places(id)} = {}
        BY <2>6
    <3>2. Places(id)' = {}
        BY <1>3, <2>1, <2>6, <3>1
    <3> QED BY <1>1, <2>6, <3>2 DEF Waits
  <2> QED BY <2>1, <2>4, <2>5, <2>6 DEF Waits
<1> QED BY <1>4, <1>5, <1>6 DEF Wheels, InPlace

LEMMA WheelsNext == Wheels /\ [Next]_vars => Wheels'
<1>1. SUFFICES ASSUME Wheels, [Next]_vars PROVE Wheels'
    OBVIOUS
<1>2. Typed'
    BY <1>1, TypedNext DEF Wheels
<1>3. CASE Wake
  <2>1. {timerPc, timerPc'} \cap {"tick", "expand"} = {}
      BY <1>3 DEF Wake
  <2> QED BY <1>1, <1>2, <1>3, <2>1, WheelsFrame DEF Wake, wheel, fields, histories
<1>4. CASE Update \/ Destroy \/ Calls \/ UNCHANGED vars
    BY <1>1, <1>2, <1>4, WheelsFrame
       DEF Update, Destroy, Calls, Check, Call, CallEmpty, vars, wheel, fields, histories
<1> QED BY <1>1, <1>2, <1>3, <1>4, WheelsAddTimeCall, WheelsRemove, WheelsTick,
           WheelsDispatch, WheelsExpand DEF Next, TimerThread, Terminated

\* A timer that is scheduled stands in exactly one slot of one wheel, or in none
\* when its interval is longer than a turn of all wheels: insert(), dispatch() and
\* the carries of expand() lose and double none, for wheels of any sizes and any
\* number of timers.
THEOREM EachInOneSlot == Spec => []InOneSlot
<1>1. Wheels => InOneSlot
  <2> SUFFICES ASSUME Wheels, NEW id \in scheduleList
               PROVE  \E p \in Spots :
                         Places(id) = IF interval[id] < Turn THEN {p} ELSE {}
      BY DEF InOneSlot
  <2>1. Typed /\ id \in Ids /\ Waits(id)
      BY WheelsTyped DEF Wheels, Typed, TypeOK, InPlace
  <2>2. interval[id] \in Nat
      BY <2>1, LeftInt
  <2>3. CASE interval[id] < Turn
    <3>1. ~(interval[id] >= Turn)
        BY <2>2, <2>3, Constants
    <3>2. PICK p \in Spots : Places(id) = {p}
      <4>1. ASSUME NEW s \in 0..Near - 1 PROVE <<0, s>> \in Spots
          BY SpotIs
      <4>2. ASSUME NEW l \in Lvls, NEW s \in 0..Far - 1 PROVE <<l, s>> \in Spots
          BY SpotIs DEF Lvls
      <4> QED BY <2>1, <3>1, <4>1, <4>2 DEF Waits
    <3> QED BY <2>3, <3>2
  <2>4. CASE ~(interval[id] < Turn)
    <3>1. Places(id) = {}
        BY <2>1, <2>4 DEF Waits
    <3>2. <<0, 0>> \in Spots
        BY Constants, SpotIs
    <3> QED BY <2>4, <3>1, <3>2
  <2> QED BY <2>3, <2>4
<1> QED BY WheelsInit, WheelsNext, <1>1, PTL DEF Spec

\* No timer waits longer than its interval, through whichever wheels it moves, at
\* whatever tick addTimeCall was called, before or after a carry, and across the
\* wrap of tick; one with an interval of 0 not longer than a turn of near.
THEOREM NoneLate == Spec => []NeverLate
<1>1. Wheels => NeverLate
  <2> SUFFICES ASSUME Wheels, NEW id \in scheduleList
               PROVE  elapsed[id] <= IF interval[id] = 0 THEN Near ELSE interval[id]
      BY DEF NeverLate
  <2>1. /\ Typed /\ id \in Ids /\ Waits(id)
      BY WheelsTyped DEF Wheels, Typed, TypeOK, InPlace
  <2>2. Left(id) \in Int /\ interval[id] \in Nat /\ elapsed[id] \in Nat
      BY <2>1, LeftInt
  <2>3. Left(id) >= 0 \/ elapsed[id] = 0
    <3>1. ASSUME NEW s \in 0..Near - 1, WaitsNear(id, s) PROVE Left(id) >= 0
        BY <2>2, <3>1, Constants DEF WaitsNear
    <3>2. ASSUME NEW l \in Lvls, NEW s \in 0..Far - 1, WaitsFar(id, l, s)
          PROVE  Left(id) >= 0
      <4>1. PICK w \in Nat, x \in Nat : w = Span[l - 1] /\ w > 0 /\ x = index[id]
        <5>1. Span[l - 1] \in Nat /\ Span[l - 1] > 0
            BY Constants
        <5>2. index[id] \in Nat
            BY <2>1, Constants DEF Typed, TypeOK
        <5> QED BY <5>1, <5>2
      <4>2. PICK m \in Nat : m = x % w
          BY <4>1, DivMod
      <4>3. Left(id) - m >= 0
          BY <2>2, <3>2, <4>1, <4>2, Constants DEF WaitsFar
      <4> QED BY <2>2, <4>3
    <3> QED BY <2>1, <3>1, <3>2 DEF Waits
  <2> QED BY <2>2, <2>3, Constants DEF Left
<1> QED BY WheelsInit, WheelsNext, <1>1, PTL DEF Spec

\* dispatch() takes a timer only when its interval has gone by, to the tick.
THEOREM NoneEarly == Spec => NeverEarly
<1>1. Wheels /\ [Next]_vars =>
          [\A id \in Ids :
              dispatchList'[id] > dispatchList[id] =>
                  \/ elapsed[id] = interval[id]
                  \/ interval[id] = 0 /\ elapsed[id] = Near]_vars
  <2>1. SUFFICES ASSUME Wheels, [Next]_vars, NEW id \in Ids,
                        dispatchList'[id] > dispatchList[id]
                 PROVE  \/ elapsed[id] = interval[id]
                        \/ interval[id] = 0 /\ elapsed[id] = Near
      OBVIOUS
  <2>2. dispatchList[id] \in Nat
      BY <2>1 DEF Wheels, Typed, TypeOK
  <2>3. CASE Dispatch
    <3>1. id \in Due /\ timerPc = "dispatch"
        BY <2>1, <2>2, <2>3 DEF Dispatch
    <3>2. Left(id) = 0 /\ interval[id] \in Nat /\ elapsed[id] \in Nat
        BY <2>1, <3>1, DueNow, LeftInt DEF Wheels
    <3> QED BY <3>1, <3>2, Constants DEF Left
  <2>4. CASE UNCHANGED dispatchList
      BY <2>1, <2>2, <2>4
  <2>5. CASE Update
      BY <2>1, <2>2, <2>5 DEF Update
  <2> QED BY <2>1, <2>3, <2>4, <2>5 DEF Next, TimerThread, Calls, Terminated, Wake, Tick,
             Expand, Destroy, AddTimeCall, Remove, Check, Call, CallEmpty, vars
<1> QED BY WheelsInit, WheelsNext, <1>1, PTL DEF Spec, NeverEarly

-----------------------------------------------------------------------------
(* Removing                                                                *)

\* What remove() came too late for covers the calls made since and the one that
\* update() is about to make; when the timer was not found, those that stand in
\* the two lists as well.
SilentOne(id) ==
    /\ id \notin scheduleList
    /\ IF id \in stopped THEN late[id] + Checked(id) <= owed[id]
                          ELSE late[id] + OnItsWay(id) <= owed[id]

Silent ==
    /\ Counted /\ Wheels
    /\ \A id \in removed : SilentOne(id)
    /\ \A id \in Ids : id \notin removed => late[id] = 0
    /\ crashed => calling \in Ids /\ ~callback[calling]

LEMMA SilentInit == Init => Silent
BY CountedInit, WheelsInit DEF Init, Silent

LEMMA SilentNext == Silent /\ [Next]_vars => Silent'
<1>1. SUFFICES ASSUME Silent, [Next]_vars PROVE Silent'
    OBVIOUS
<1>2. Counted' /\ Wheels' /\ Typed /\ Wheels /\ Counted
    BY <1>1, CountedNext, WheelsNext DEF Silent, Wheels
<1>3. /\ removed \subseteq 1..lastID /\ 1..lastID \subseteq Ids
      /\ stopped \subseteq removed /\ scheduleList \subseteq 1..lastID
      /\ late \in [Ids -> Nat] /\ owed \in [Ids -> Nat] /\ callList \in [Ids -> Nat]
      /\ dispatchList \in [Ids -> Nat] /\ callback \in [Ids -> BOOLEAN]
      /\ lastID \in Nat /\ calling \in 0..lastID
  <2>1. /\ removed \subseteq 1..lastID /\ stopped \subseteq removed
        /\ scheduleList \subseteq 1..lastID /\ callback \in [Ids -> BOOLEAN]
        /\ calling \in 0..lastID
      BY <1>2 DEF Typed, TypeOK
  <2>2. /\ late \in [Ids -> Nat] /\ owed \in [Ids -> Nat] /\ callList \in [Ids -> Nat]
        /\ dispatchList \in [Ids -> Nat]
      BY <1>2 DEF Typed, TypeOK
  <2>3. 1..lastID \subseteq Ids /\ lastID \in Nat
      BY <1>2, WheelsTyped, Constants
  <2> QED BY <2>1, <2>2, <2>3
<1>4. \A id \in removed : SilentOne(id) /\ id \in Ids
    BY <1>1, <1>3 DEF Silent
<1>5. ASSUME scheduleList' \subseteq scheduleList,
             UNCHANGED <<removed, stopped, late, owed, callList, dispatchList, calling,
                         crashed, callback>>
      PROVE  Silent'
    BY <1>1, <1>2, <1>4, <1>5 DEF Silent, SilentOne, OnItsWay, Checked
<1>6. CASE Wake \/ Tick \/ Expand \/ Destroy \/ UNCHANGED vars
    BY <1>5, <1>6 DEF Wake, Tick, Expand, Destroy, vars, fields, histories, updating
<1>7. ASSUME NEW n \in Intervals, NEW t \in Times, AddTimeCall(n, t) PROVE Silent'
  <2>1. /\ scheduleList' = scheduleList \cup {lastID + 1} /\ ~crashed
        /\ UNCHANGED <<removed, stopped, late, owed, callList, dispatchList, calling, crashed>>
      BY <1>7 DEF AddTimeCall, Running, updating
  <2>2. \A id \in removed : id # lastID + 1
      BY <1>3
  <2> QED BY <1>1, <1>2, <1>4, <2>1, <2>2 DEF Silent, SilentOne, OnItsWay, Checked
<1>8. ASSUME NEW i \in Ids, Remove(i) PROVE Silent'
  <2>1. /\ removed' = removed \cup {i} /\ i \notin removed /\ ~crashed
        /\ UNCHANGED <<late, callList, dispatchList, calling, crashed>>
      BY <1>8 DEF Remove, Running, updating
  <2>2. late[i] = 0 /\ i \notin stopped
      BY <1>1, <1>3, <2>1 DEF Silent
  <2>3. /\ Checked(i)' = Checked(i) /\ OnItsWay(i)' = OnItsWay(i)
        /\ Checked(i) \in Nat /\ OnItsWay(i) \in Nat
      BY <1>3, <2>1 DEF Checked, OnItsWay
  <2>4. SilentOne(i)'
    <3>1. CASE i \in scheduleList
      <4>1. /\ i \in stopped' /\ i \notin scheduleList'
            /\ owed' = [owed EXCEPT ![i] = Checked(i)]
          BY <1>8, <3>1 DEF Remove
      <4> QED BY <1>3, <2>1, <2>2, <2>3, <4>1 DEF SilentOne
    <3>2. CASE i \notin scheduleList
      <4>1. /\ i \notin stopped' /\ i \notin scheduleList'
            /\ owed' = [owed EXCEPT ![i] = OnItsWay(i)]
          BY <1>8, <2>2, <3>2 DEF Remove
      <4> QED BY <1>3, <2>1, <2>2, <2>3, <4>1 DEF SilentOne
    <3> QED BY <3>1, <3>2
  <2>5. ASSUME NEW id \in removed PROVE SilentOne(id)'
    <3>1. id # i /\ SilentOne(id)
        BY <1>4, <2>1
    <3>2. /\ owed'[id] = owed[id] /\ id \notin scheduleList'
          /\ (id \in stopped' <=> id \in stopped)
        BY <1>3, <1>8, <3>1 DEF Remove, SilentOne
    <3> QED BY <2>1, <3>1, <3>2 DEF SilentOne, OnItsWay, Checked
  <2> QED BY <1>1, <1>2, <2>1, <2>4, <2>5 DEF Silent
<1>9. CASE timerPc = "dispatch" /\ Dispatch
  <2>1. \A id \in removed : id \notin Due
      BY <1>2, <1>4, <1>9, DueNow DEF SilentOne
  <2>2. /\ \A id \in Ids : id \notin Due => dispatchList'[id] = dispatchList[id]
        /\ scheduleList' \subseteq scheduleList
        /\ UNCHANGED <<removed, stopped, late, owed, callList, calling, crashed, callback>>
      BY <1>9 DEF Dispatch, updating
  <2> QED BY <1>1, <1>2, <1>4, <2>1, <2>2 DEF Silent, SilentOne, OnItsWay, Checked
<1>10. CASE Update
  <2>1. /\ \A id \in Ids : callList[id] = 0
        /\ callList' = dispatchList /\ dispatchList' = [id \in Ids |-> 0]
        /\ UNCHANGED <<scheduleList, removed, stopped, late, owed, calling, crashed, callback>>
      BY <1>10 DEF Update, UpdateIdle, fields, histories
  <2>2. \A id \in Ids : OnItsWay(id)' = OnItsWay(id) /\ Checked(id)' = Checked(id)
      BY <1>3, <2>1 DEF OnItsWay, Checked
  <2> QED BY <1>1, <1>2, <1>4, <2>1, <2>2 DEF Silent, SilentOne
<1>11. ASSUME NEW i \in Ids, Check(i) PROVE Silent'
  <2>1. /\ calling = 0 /\ calling' = IF callback[i] THEN i ELSE 0
        /\ callList[i] > 0 /\ callList' = [callList EXCEPT ![i] = callList[i] - 1]
        /\ UNCHANGED <<scheduleList, removed, stopped, late, owed, dispatchList, crashed,
                       callback>>
      BY <1>11 DEF Check, fields, histories
  <2>2. ~crashed
      BY <1>1, <2>1, Constants DEF Silent, Ids
  <2>3. ASSUME NEW id \in removed PROVE SilentOne(id)'
    <3>1. id \in Ids /\ SilentOne(id) /\ Checked(id) = 0 /\ late[id] \in Nat
        BY <1>3, <1>4, <2>1 DEF Checked, Ids
    <3>2. id \in stopped => Checked(id)' = 0
      <4>1. id \in stopped => ~callback[id]
          BY <1>2, <1>3 DEF Counted, CountedOne
      <4>2. id # 0
          BY <3>1 DEF Ids
      <4> QED BY <2>1, <4>1, <4>2 DEF Checked
    <3>3. OnItsWay(id)' <= OnItsWay(id)
      <4>1. CASE id = i
        <5>1. callList'[id] = callList[id] - 1 /\ Checked(id)' \in {0, 1}
            BY <1>3, <2>1, <4>1 DEF Checked
        <5> QED BY <1>3, <2>1, <3>1, <5>1 DEF OnItsWay
      <4>2. CASE id # i
        <5>1. callList'[id] = callList[id] /\ Checked(id)' = 0
            BY <1>3, <2>1, <3>1, <4>2 DEF Checked, Ids
        <5> QED BY <1>3, <2>1, <3>1, <5>1 DEF OnItsWay
      <4> QED BY <4>1, <4>2
    <3>4. OnItsWay(id)' \in Int /\ OnItsWay(id) \in Int /\ owed[id] \in Nat
      <4>1. callList' \in [Ids -> Nat] /\ dispatchList' \in [Ids -> Nat]
          BY <1>2 DEF Counted, Typed, TypeOK
      <4> QED BY <1>3, <3>1, <4>1 DEF OnItsWay, Checked
    <3> QED BY <2>1, <3>1, <3>2, <3>3, <3>4 DEF SilentOne
  <2> QED BY <1>1, <1>2, <2>1, <2>2, <2>3 DEF Silent
<1>12. ASSUME NEW i \in Ids, Call(i) PROVE Silent'
  <2>1. /\ calling = i /\ calling' = 0 /\ ~crashed
        /\ late' = IF i \in removed THEN [late EXCEPT ![i] = late[i] + 1] ELSE late
        /\ UNCHANGED <<scheduleList, removed, stopped, owed, callList, dispatchList, crashed,
                       callback>>
      BY <1>12 DEF Call, fields
  <2>2. ASSUME NEW id \in removed PROVE SilentOne(id)'
    <3>1. /\ id \in Ids /\ SilentOne(id) /\ late[id] \in Nat /\ owed[id] \in Nat
          /\ callList[id] \in Nat /\ dispatchList[id] \in Nat
        BY <1>3, <1>4
    <3>2. CASE id = i
      <4>1. late'[id] = late[id] + 1 /\ Checked(id) = 1 /\ Checked(id)' = 0
          BY <1>3, <2>1, <3>1, <3>2 DEF Checked, Ids
      <4> QED BY <2>1, <3>1, <4>1 DEF SilentOne, OnItsWay
    <3>3. CASE id # i
      <4>1. late'[id] = late[id] /\ Checked(id)' = Checked(id)
          BY <1>3, <2>1, <3>1, <3>3 DEF Checked, Ids
      <4> QED BY <2>1, <3>1, <4>1 DEF SilentOne, OnItsWay
    <3> QED BY <3>2, <3>3
  <2> QED BY <1>1, <1>2, <1>3, <2>1, <2>2 DEF Silent
<1>13. ASSUME NEW i \in Ids, CallEmpty(i) PROVE Silent'
  <2>1. /\ calling = i /\ ~callback[i] /\ crashed'
        /\ UNCHANGED <<scheduleList, removed, stopped, late, owed, callList, dispatchList,
                       calling, callback>>
      BY <1>13 DEF CallEmpty, fields, histories
  <2> QED BY <1>1, <1>2, <1>4, <2>1 DEF Silent, SilentOne, OnItsWay, Checked
<1>14. Dispatch => timerPc = "dispatch"
    BY DEF Dispatch
<1> QED BY <1>1, <1>6, <1>7, <1>8, <1>9, <1>10, <1>11, <1>12, <1>13, <1>14
       DEF Next, TimerThread, Calls, Terminated

\* After remove() has returned, a timer it found makes at most the one call whose
\* check update() had passed before, and a timer it did not find only the calls that
\* were on their way; and only in place of that one call is an empty function called.
\* For any number of timers, with finite times and without end.
THEOREM RemovedIsSilent == Spec => []RemoveStops
<1>1. Silent => RemoveStops
  <2> SUFFICES ASSUME Silent PROVE RemoveStops
      OBVIOUS
  <2>1. /\ Typed /\ Counted /\ removed \subseteq Ids /\ stopped \subseteq removed
        /\ late \in [Ids -> Nat] /\ owed \in [Ids -> Nat] /\ callList \in [Ids -> Nat]
        /\ dispatchList \in [Ids -> Nat] /\ calling \in 0..lastID
      BY WheelsTyped DEF Silent, Counted, Typed, TypeOK
  <2>2. ASSUME NEW id \in removed PROVE late[id] + Checked(id) <= owed[id]
      BY <2>1 DEF Silent, SilentOne, OnItsWay, Checked
  <2>3. \A id \in removed : Checked(id) \in {0, 1} /\ late[id] \in Nat /\ owed[id] \in Nat
      BY <2>1 DEF Checked
  <2>4. \A id \in removed : late[id] <= owed[id]
      BY <2>2, <2>3
  <2>5. ASSUME crashed PROVE calling \in removed /\ late[calling] < owed[calling]
    <3>1. calling \in Ids /\ ~callback[calling]
        BY <2>5 DEF Silent
    <3>2. calling \in 1..lastID
        BY <2>1, <3>1 DEF Ids
    <3>3. calling \in removed
        BY <2>1, <3>1, <3>2 DEF Counted, CountedOne
    <3>4. Checked(calling) = 1
        BY DEF Checked
    <3> QED BY <2>2, <2>3, <3>3, <3>4
  <2> QED BY <2>4, <2>5 DEF RemoveStops
<1> QED BY SilentInit, SilentNext, <1>1, PTL DEF Spec
=============================================================================
