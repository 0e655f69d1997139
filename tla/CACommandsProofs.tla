-------------------------- MODULE CACommandsProofs --------------------------
(***************************************************************************)
(* What a script sees of the commands, for any readings of the clock, any  *)
(* validities, any base and any limit of a duration: numbers survive the   *)
(* way to text and back, and on that the agreement of the index, the       *)
(* published list and what `ca list` and `ca verify` print depends.        *)
(***************************************************************************)
EXTENDS CACommands, WellFoundedInduction, TLAPS

----------------------------------------------------------------------------
(* Induction over numbers, in the one form that needs no operator as a     *)
(* parameter: a set of numbers that has an element has a least one.        *)

Less == {pair \in Nat \X Nat : pair[1] < pair[2]}

LEMMA LeastElement ==
    ASSUME NEW T, T \subseteq Nat, T # {}
    PROVE  \E x \in T : \A y \in T : ~(y < x)
  <1>1. IsWellFoundedOn(Less, Nat)
    BY NatLessThanWellFounded DEF OpToRel, Less
  <1>2. PICK x \in T : \A y \in T : ~(<<y, x>> \in Less)
    BY <1>1, WFMin
  <1>3. ASSUME NEW y \in T, y < x PROVE <<y, x>> \in Less
    BY <1>3 DEF Less
  <1> QED
    BY <1>2, <1>3

LEMMA DivMod ==
    ASSUME NEW n \in Nat
    PROVE  /\ n \div Base \in Nat
           /\ n % Base \in 0 .. Base - 1
           /\ n = ((n \div Base) * Base) + (n % Base)
           /\ n >= Base => n \div Base < n
  <1>1. n \div Base \in Nat /\ n % Base \in 0 .. Base - 1 /\ n = ((n \div Base) * Base) + (n % Base)
    BY SerialsAssumption
  <1> DEFINE q == n \div Base
  <1> HIDE DEF q
  <1>2. n >= Base => q < n
    BY <1>1, SerialsAssumption DEF q
  <1> QED
    BY <1>1, <1>2 DEF q

----------------------------------------------------------------------------
(* Reading: the value of a text, digit by digit *)

Reads(f, ds, n) == f = [i \in 0 .. n |-> IF i = 0 THEN 0 ELSE f[i - 1] * Base + ds[i]]

Reading(ds) == CHOOSE f : Reads(f, ds, Len(ds))

ValueOf(ds) == Reading(ds)[Len(ds)]

LEMMA ParseIsValue == ASSUME NEW t PROVE ParseSerial(t) = ValueOf(t.digits)
  BY DEF ParseSerial, ValueOf, Reading, Reads

LEMMA ReadingExists ==
    ASSUME NEW ds \in Seq(Nat), NEW n \in Nat
    PROVE  \E f : Reads(f, ds, n)
  <1> DEFINE Bad == {m \in Nat : ~\E f : Reads(f, ds, m)}
  <1> SUFFICES ASSUME Bad # {} PROVE FALSE
    OBVIOUS
  <1>1. PICK m \in Bad : \A k \in Bad : ~(k < m)
    BY LeastElement
  <1>2. CASE m = 0
    <2>1. Reads([i \in 0 .. 0 |-> 0], ds, 0)
      BY DEF Reads
    <2> QED
      BY <1>1, <1>2, <2>1
  <1>3. CASE m # 0
    <2>1. m - 1 \in Nat /\ m - 1 \notin Bad
      BY <1>1, <1>3
    <2>2. PICK g : Reads(g, ds, m - 1)
      BY <2>1
    <2> DEFINE f == [i \in 0 .. m |-> IF i = m THEN g[m - 1] * Base + ds[m] ELSE g[i]]
    <2>3. ASSUME NEW i \in 0 .. m
          PROVE  f[i] = IF i = 0 THEN 0 ELSE f[i - 1] * Base + ds[i]
      <3>1. CASE i = m
        BY <3>1, <1>3, <2>1
      <3>2. CASE i # m
        <4>1. i \in 0 .. m - 1 /\ f[i] = g[i]
          BY <3>2
        <4>2. g[i] = IF i = 0 THEN 0 ELSE g[i - 1] * Base + ds[i]
          BY <4>1, <2>2 DEF Reads
        <4>3. i # 0 => i - 1 \in 0 .. m /\ i - 1 # m /\ f[i - 1] = g[i - 1]
          BY <4>1, <2>1
        <4> QED
          BY <4>1, <4>2, <4>3
      <3> QED
        BY <3>1, <3>2
    <2>4. Reads(f, ds, m)
      <3> HIDE DEF f
      <3>1. f = [i \in 0 .. m |-> f[i]]
        BY DEF f
      <3> QED
        BY <2>3, <3>1 DEF Reads
    <2> QED
      BY <2>4, <1>1
  <1> QED
    BY <1>2, <1>3

LEMMA ReadingIs ==
    ASSUME NEW ds \in Seq(Nat)
    PROVE  /\ Reading(ds)[0] = 0
           /\ \A i \in 1 .. Len(ds) : Reading(ds)[i] = Reading(ds)[i - 1] * Base + ds[i]
  <1> DEFINE f == Reading(ds)
  <1>1. Reads(f, ds, Len(ds))
    <2>1. \E g : Reads(g, ds, Len(ds))
      BY ReadingExists
    <2> QED
      BY <2>1 DEF Reading
  <1>2. \A i \in 0 .. Len(ds) : f[i] = IF i = 0 THEN 0 ELSE f[i - 1] * Base + ds[i]
    <2> HIDE DEF f
    <2> QED
      BY <1>1 DEF Reads
  <1> QED
    BY <1>2

(* A digit more: the value so far is moved up by one place. *)
LEMMA ReadOneMore ==
    ASSUME NEW ds \in Seq(Nat), NEW d \in Nat
    PROVE  ValueOf(Append(ds, d)) = ValueOf(ds) * Base + d
  <1> DEFINE es == Append(ds, d)
             f  == Reading(ds)
             g  == Reading(es)
             Bad == {i \in Nat : i <= Len(ds) /\ f[i] # g[i]}
  <1>1. es \in Seq(Nat) /\ Len(es) = Len(ds) + 1 /\ es[Len(es)] = d
        /\ \A i \in 1 .. Len(ds) : es[i] = ds[i]
    OBVIOUS
  <1>2. f[0] = 0 /\ \A i \in 1 .. Len(ds) : f[i] = f[i - 1] * Base + ds[i]
    BY ReadingIs
  <1>3. g[0] = 0 /\ \A i \in 1 .. Len(es) : g[i] = g[i - 1] * Base + es[i]
    <2> HIDE DEF es
    <2> QED
      BY <1>1, ReadingIs
  <1> HIDE DEF es, f, g
  <1>4. Bad = {}
    <2> SUFFICES ASSUME Bad # {} PROVE FALSE
      OBVIOUS
    <2>1. PICK i \in Bad : \A k \in Bad : ~(k < i)
      BY LeastElement
    <2>2. i # 0 /\ i \in 1 .. Len(ds) /\ i \in 1 .. Len(es) /\ i - 1 \in 0 .. Len(ds)
      BY <1>1, <1>2, <1>3
    <2>3. f[i - 1] = g[i - 1]
      BY <2>1, <2>2
    <2> QED
      BY <1>1, <1>2, <1>3, <2>2, <2>3
  <1>5. f[Len(ds)] = g[Len(ds)] /\ Len(es) \in 1 .. Len(es) /\ Len(es) - 1 = Len(ds)
    BY <1>1, <1>4
  <1>6. g[Len(es)] = f[Len(ds)] * Base + d
    BY <1>1, <1>3, <1>5
  <1> QED
    BY <1>6 DEF ValueOf, es, f, g

----------------------------------------------------------------------------
(* Writing: the digits of a number *)

Writes(f, n) ==
    f = [i \in 0 .. n |-> IF i < Base THEN << i >> ELSE Append(f[i \div Base], i % Base)]

Writing(n) == CHOOSE f : Writes(f, n)

LEMMA WritesAre ==
    ASSUME NEW f, NEW n \in Nat, Writes(f, n), NEW i \in 0 .. n
    PROVE  f[i] = IF i < Base THEN << i >> ELSE Append(f[i \div Base], i % Base)
  BY DEF Writes

LEMMA WritingsAgree ==
    ASSUME NEW f, NEW g, NEW n \in Nat, NEW m \in Nat, Writes(f, n), Writes(g, m),
           NEW i \in 0 .. n, i \in 0 .. m
    PROVE  f[i] = g[i]
  <1> DEFINE Bad == {k \in Nat : k <= n /\ k <= m /\ f[k] # g[k]}
  <1> SUFFICES ASSUME Bad # {} PROVE FALSE
    OBVIOUS
  <1>1. PICK k \in Bad : \A j \in Bad : ~(j < k)
    BY LeastElement
  <1>2. k \in 0 .. n /\ k \in 0 .. m
    OBVIOUS
  <1>3. f[k] = IF k < Base THEN << k >> ELSE Append(f[k \div Base], k % Base)
    BY <1>2, WritesAre
  <1>4. g[k] = IF k < Base THEN << k >> ELSE Append(g[k \div Base], k % Base)
    BY <1>2, WritesAre
  <1>5. k >= Base => k \div Base \in Nat /\ k \div Base < k
    BY DivMod
  <1>6. k >= Base => f[k \div Base] = g[k \div Base]
    BY <1>1, <1>5
  <1>7. ~(k < Base) => k >= Base
    BY SerialsAssumption
  <1> QED
    BY <1>3, <1>4, <1>6, <1>7

LEMMA WritingExists == ASSUME NEW n \in Nat PROVE \E f : Writes(f, n)
  <1> DEFINE Bad == {m \in Nat : ~\E f : Writes(f, m)}
  <1> SUFFICES ASSUME Bad # {} PROVE FALSE
    OBVIOUS
  <1>1. PICK m \in Bad : \A k \in Bad : ~(k < m)
    BY LeastElement
  <1>2. CASE m = 0
    <2> DEFINE f == [i \in 0 .. 0 |-> << i >>]
    <2>1. f = [i \in 0 .. 0 |-> IF i < Base THEN << i >> ELSE Append(f[i \div Base], i % Base)]
      BY SerialsAssumption
    <2>2. Writes(f, 0)
      <3> HIDE DEF f
      <3> QED
        BY <2>1 DEF Writes
    <2> QED
      BY <1>1, <1>2, <2>2
  <1>3. CASE m # 0
    <2>1. m - 1 \in Nat /\ m - 1 \notin Bad
      BY <1>1, <1>3
    <2>2. PICK g : Writes(g, m - 1)
      BY <2>1
    <2> DEFINE f == [i \in 0 .. m |->
                        IF i = m
                        THEN IF m < Base THEN << m >> ELSE Append(g[m \div Base], m % Base)
                        ELSE g[i]]
    <2>3. ASSUME NEW i \in 0 .. m
          PROVE  f[i] = IF i < Base THEN << i >> ELSE Append(f[i \div Base], i % Base)
      <3>1. i >= Base => i \div Base \in 0 .. m - 1
        BY DivMod
      <3>2. i >= Base => f[i \div Base] = g[i \div Base]
        <4> HIDE DEF f
        <4>1. \A j \in 0 .. m - 1 : f[j] = g[j]
          BY DEF f
        <4> QED
          BY <3>1, <4>1
      <3>3. ~(i < Base) => i >= Base
        BY SerialsAssumption
      <3>4. CASE i = m
        <4>1. f[i] = IF m < Base THEN << m >> ELSE Append(g[m \div Base], m % Base)
          BY <3>4
        <4> HIDE DEF f
        <4> QED
          BY <4>1, <3>2, <3>3, <3>4
      <3>5. CASE i # m
        <4>1. f[i] = g[i] /\ i \in 0 .. m - 1
          BY <3>5
        <4>2. g[i] = IF i < Base THEN << i >> ELSE Append(g[i \div Base], i % Base)
          BY <2>1, <2>2, <4>1, WritesAre
        <4> HIDE DEF f
        <4> QED
          BY <4>1, <4>2, <3>2, <3>3
      <3> QED
        BY <3>4, <3>5
    <2>4. Writes(f, m)
      <3>1. f = [i \in 0 .. m |-> f[i]]
        OBVIOUS
      <3> HIDE DEF f
      <3> QED
        BY <2>3, <3>1 DEF Writes
    <2> QED
      BY <2>4, <1>1
  <1> QED
    BY <1>2, <1>3

LEMMA DigitsAre ==
    ASSUME NEW n \in Nat
    PROVE  Digits[n] = IF n < Base THEN << n >> ELSE Append(Digits[n \div Base], n % Base)
  <1> DEFINE all == [m \in Nat |-> Writing(m)[m]]
             Body(f, m) == IF m < Base THEN << m >> ELSE Append(f[m \div Base], m % Base)
  <1>1. ASSUME NEW m \in Nat PROVE Writes(Writing(m), m)
    BY WritingExists DEF Writing
  <1>2. ASSUME NEW m \in Nat PROVE all[m] = Body(all, m)
    <2>1. Writing(m)[m] = Body(Writing(m), m)
      BY <1>1, WritesAre
    <2>2. m >= Base => /\ m \div Base \in Nat
                       /\ m \div Base \in 0 .. m
                       /\ m \div Base \in 0 .. m \div Base
      BY DivMod
    <2>3. m >= Base => Writing(m)[m \div Base] = Writing(m \div Base)[m \div Base]
      BY <1>1, <2>2, WritingsAgree
    <2>4. ~(m < Base) => m >= Base
      BY SerialsAssumption
    <2> QED
      BY <2>1, <2>2, <2>3, <2>4
  <1>3. all = [m \in Nat |-> Body(all, m)]
    <2>1. all = [m \in Nat |-> all[m]]
      OBVIOUS
    <2> HIDE DEF all, Body
    <2> QED
      BY <1>2, <2>1
  <1>4. Digits = [m \in Nat |-> Body(Digits, m)]
    <2> HIDE DEF all
    <2> QED
      BY <1>3 DEF Digits
  <1> QED
    BY <1>4

(* A number of more than one digit is written with at least two. *)
LEMMA DigitsShape ==
    ASSUME NEW n \in Nat
    PROVE  /\ Digits[n] \in Seq(Nat)
           /\ Len(Digits[n]) >= 1
           /\ n >= Base => Len(Digits[n]) >= 2
  <1> DEFINE Good(m) == /\ Digits[m] \in Seq(Nat)
                        /\ Len(Digits[m]) >= 1
                        /\ m >= Base => Len(Digits[m]) >= 2
             Bad == {m \in Nat : ~Good(m)}
  <1> SUFFICES ASSUME Bad # {} PROVE FALSE
    OBVIOUS
  <1>1. PICK m \in Bad : \A k \in Bad : ~(k < m)
    BY LeastElement
  <1>2. m \in Nat /\ ~Good(m)
    OBVIOUS
  <1>3. CASE m < Base
    <2>1. Digits[m] = << m >>
      BY <1>2, <1>3, DigitsAre
    <2>2. ~(m >= Base)
      BY <1>2, <1>3, SerialsAssumption
    <2>3. << m >> \in Seq(Nat) /\ Len(<< m >>) = 1
      BY <1>2
    <2>4. Good(m)
      BY <2>1, <2>2, <2>3
    <2> QED
      BY <1>2, <2>4
  <1>4. CASE ~(m < Base)
    <2>1. m >= Base
      BY <1>2, <1>4, SerialsAssumption
    <2>2. m \div Base \in Nat /\ m % Base \in Nat /\ m \div Base < m
      <3>1. m % Base \in 0 .. Base - 1
        BY <1>2, DivMod
      <3>2. m % Base \in Nat
        BY <3>1, SerialsAssumption
      <3> QED
        BY <1>2, <2>1, <3>2, DivMod
    <2>3. Good(m \div Base)
      BY <1>1, <2>2
    <2>4. Digits[m] = Append(Digits[m \div Base], m % Base)
      BY <1>2, <1>4, DigitsAre
    <2>5. \A ds \in Seq(Nat), d \in Nat :
            Append(ds, d) \in Seq(Nat) /\ Len(Append(ds, d)) = Len(ds) + 1
      OBVIOUS
    <2>6. Digits[m] \in Seq(Nat) /\ Len(Digits[m]) = Len(Digits[m \div Base]) + 1
      BY <2>2, <2>3, <2>4, <2>5
    <2>7. Good(m)
      BY <2>3, <2>6
    <2> QED
      BY <1>2, <2>7
  <1> QED
    BY <1>3, <1>4

LEMMA ReadNothing == ValueOf(<< >>) = 0
  <1>1. << >> \in Seq(Nat) /\ Len(<< >>) = 0
    OBVIOUS
  <1> QED
    BY <1>1, ReadingIs DEF ValueOf

LEMMA ReadOne == ASSUME NEW d \in Nat PROVE ValueOf(<< d >>) = d
  <1>1. << >> \in Seq(Nat) /\ << d >> = Append(<< >>, d)
    OBVIOUS
  <1>2. ValueOf(<< d >>) = ValueOf(<< >>) * Base + d
    BY <1>1, ReadOneMore
  <1> QED
    BY <1>2, ReadNothing, SerialsAssumption

LEMMA DigitsReadBack == ASSUME NEW n \in Nat PROVE ValueOf(Digits[n]) = n
  <1> DEFINE Bad == {m \in Nat : ValueOf(Digits[m]) # m}
  <1> SUFFICES ASSUME Bad # {} PROVE FALSE
    OBVIOUS
  <1>1. PICK m \in Bad : \A k \in Bad : ~(k < m)
    BY LeastElement
  <1>2. CASE m < Base
    BY <1>2, DigitsAre, ReadOne
  <1>3. CASE ~(m < Base)
    <2>1. m >= Base
      BY <1>3, SerialsAssumption
    <2>2. /\ m \div Base \in Nat /\ m % Base \in Nat /\ m \div Base < m
          /\ m = ((m \div Base) * Base) + (m % Base)
      BY <2>1, DivMod, SerialsAssumption
    <2>3. ValueOf(Digits[m \div Base]) = m \div Base
      BY <1>1, <2>2
    <2>4. Digits[m] = Append(Digits[m \div Base], m % Base)
      BY <1>3, DigitsAre
    <2>5. ValueOf(Digits[m]) = ValueOf(Digits[m \div Base]) * Base + (m % Base)
      BY <2>2, <2>4, DigitsShape, ReadOneMore
    <2> QED
      BY <2>2, <2>3, <2>5
  <1> QED
    BY <1>2, <1>3

(* CON-DI-002: whatever the base, a number that was written is the number  *)
(* that is read, so two numbers have two texts (FormatSerial, ReadCounter).*)
THEOREM NumbersReadBack == \A n \in Nat : ParseSerial(FormatSerial(n)) = n
  <1> SUFFICES ASSUME NEW n \in Nat PROVE ParseSerial(FormatSerial(n)) = n
    OBVIOUS
  <1>1. ParseSerial(FormatSerial(n)) = ValueOf(FormatSerial(n).digits)
    BY ParseIsValue
  <1>2. CASE n < Base
    <2>1. FormatSerial(n).digits = << 0, n >>
      BY <1>2 DEF FormatSerial
    <2>2. << 0 >> \in Seq(Nat) /\ << 0, n >> = Append(<< 0 >>, n)
      OBVIOUS
    <2>3. ValueOf(<< 0, n >>) = ValueOf(<< 0 >>) * Base + n
      BY <2>2, ReadOneMore
    <2> QED
      BY <1>1, <2>1, <2>3, ReadOne, SerialsAssumption
  <1>3. CASE ~(n < Base)
    BY <1>1, <1>3, DigitsReadBack DEF FormatSerial
  <1> QED
    BY <1>2, <1>3

LEMMA TextShape ==
    ASSUME NEW n \in Nat
    PROVE  /\ Len(FormatSerial(n).digits) >= 2
           /\ FormatSerial(n) = [digits |-> FormatSerial(n).digits, upper |-> FALSE]
           /\ FormatSerial(n) # NoText
  <1>1. Len(FormatSerial(n).digits) >= 2
    <2>1. CASE n < Base
      <3>1. FormatSerial(n).digits = << 0, n >>
        BY <2>1 DEF FormatSerial
      <3> QED
        BY <3>1
    <2>2. CASE ~(n < Base)
      <3>1. n >= Base
        BY <2>2, SerialsAssumption
      <3>2. FormatSerial(n).digits = Digits[n]
        BY <2>2 DEF FormatSerial
      <3> QED
        BY <3>1, <3>2, DigitsShape
    <2> QED
      BY <2>1, <2>2
  <1>2. NoText.digits = << >> /\ Len(<< >>) = 0
    BY DEF NoText
  <1>3. FormatSerial(n) # NoText
    BY <1>1, <1>2
  <1>4. FormatSerial(n) = [digits |-> FormatSerial(n).digits, upper |-> FALSE]
    BY DEF FormatSerial
  <1> QED
    BY <1>1, <1>3, <1>4

----------------------------------------------------------------------------
(* Periods *)

LEMMA RemainderOf ==
    ASSUME NEW q \in Int, NEW r \in 0 .. Second - 1
    PROVE  (Second * q + r) % Second = r
  BY TimeAssumption

LEMMA WholeHours ==
    ASSUME NEW t \in Int, NEW n \in Int
    PROVE  /\ (t + n * Hour) % Second = t % Second
           /\ t % Second \in Int
  <1> DEFINE q == t \div Second
             r == t % Second
             h == Hour \div Second
  <1>1. q \in Int /\ r \in 0 .. Second - 1 /\ t = Second * q + r
    BY TimeAssumption
  <1>2. h \in Int /\ Hour = Second * h
    BY TimeAssumption
  <1> HIDE DEF q, r, h
  <1>3. t + n * Hour = Second * (q + n * h) + r
    <2>1. n * Hour = Second * (n * h)
      BY <1>2, TimeAssumption
    <2>2. n * h \in Int
      BY <1>2
    <2>3. Second * (q + n * h) = Second * q + Second * (n * h)
      BY <1>1, <2>2, TimeAssumption
    <2> QED
      BY <1>1, <2>1, <2>2, <2>3, TimeAssumption
  <1>4. q + n * h \in Int
    BY <1>1, <1>2
  <1>5. (Second * (q + n * h) + r) % Second = r
    BY <1>1, <1>4, RemainderOf
  <1> QED
    BY <1>1, <1>3, <1>5, TimeAssumption DEF r

LEMMA WordHolds == ASSUME NEW x \in Nat, x < Limit PROVE Word(x) = x
  BY TimeAssumption DEF Word

(* A number of days that fits in a duration does not wrap around on the    *)
(* way there.                                                              *)
LEMMA DaysHold ==
    ASSUME NEW days \in Days, days > 0, Representable(days)
    PROVE  DaysLater(days) = days * HoursPerDay * Hour
  <1> DEFINE hours == days * HoursPerDay
  <1>1. days \in Nat /\ hours \in Nat
    BY TimeAssumption
  <1> HIDE DEF hours
  <1>2. hours * Hour \in Nat /\ hours <= hours * Hour
    BY <1>1, TimeAssumption
  <1>3. hours * Hour < Limit
    BY DEF Representable, hours
  <1>4. hours < Limit
    BY <1>1, <1>2, <1>3, TimeAssumption
  <1>5. Word(hours) = hours /\ Word(hours * Hour) = hours * Hour
    BY <1>1, <1>2, <1>3, <1>4, WordHolds
  <1> QED
    BY <1>5 DEF DaysLater, hours

LEMMA PeriodHolds ==
    ASSUME NEW t \in Int, NEW days \in Days, days > 0, Representable(days)
    PROVE  WholeSeconds(t + DaysLater(days)) = WholeSeconds(t) + days * HoursPerDay * Hour
  <1> DEFINE hours == days * HoursPerDay
  <1>1. hours \in Int
    BY TimeAssumption
  <1> HIDE DEF hours
  <1>2. (t + hours * Hour) % Second = t % Second /\ t % Second \in Int
    BY <1>1, WholeHours
  <1>3. DaysLater(days) = hours * Hour
    BY DaysHold DEF hours
  <1>4. hours * Hour \in Int
    BY <1>1, TimeAssumption
  <1>5. WholeSeconds(t + hours * Hour) = WholeSeconds(t) + hours * Hour
    BY <1>2, <1>4 DEF WholeSeconds
  <1> QED
    BY <1>3, <1>5 DEF hours

----------------------------------------------------------------------------
(* The inductive invariant *)

NumberIn(es, i) == ParseSerial(es[i].serial)

ClockOK == now \in Times

RootOK ==
    \A r \in root :
        /\ r.signer \in Keys
        /\ r.serial = 1
        /\ \A q \in root : q.signer = r.signer

NothingBeforeInit ==
    root = {} =>
        /\ serial = NoText
        /\ crlnumber = NoText
        /\ index = << >>
        /\ certs = {}
        /\ crl = {}

CountersOK ==
    root # {} =>
        /\ \E n \in 2 .. MaxSerial + 1 : serial = FormatSerial(n)
        /\ \E m \in 1 .. MaxCRLNumber + 1 : crlnumber = FormatSerial(m)

Listed ==
    [ serial   : {FormatSerial(n) : n \in Serials},
      notAfter : {WholeSeconds(t + DaysLater(days)) : t \in Times, days \in Days},
      status   : {"active", "revoked"},
      reason   : DOMAIN ReasonCodes \cup {NoReason} ]

IndexOK == index \in Seq(Listed)

(* Serials are given out in order, each one below the counter. *)
NumbersIncrease ==
    /\ \A i \in DOMAIN index : NumberIn(index, i) < ParseSerial(serial)
    /\ \A i, j \in DOMAIN index : i < j => NumberIn(index, i) < NumberIn(index, j)

RevokedHaveReason ==
    \A i \in DOMAIN index : index[i].status = "revoked" => index[i].reason \in DOMAIN ReasonCodes

CertsOK ==
    \A c \in certs :
        /\ SignedByRoot(c)
        /\ c.serial \in Serials
        /\ \E i \in DOMAIN index : NumberIn(index, i) = c.serial /\ index[i].notAfter = c.notAfter

PeriodsOK ==
    \A c \in root \cup certs :
        /\ c.asked \in Days /\ c.asked > 0
        /\ \E t \in Times :
            /\ c.notBefore = WholeSeconds(t)
            /\ c.notAfter = WholeSeconds(t + DaysLater(c.asked))

(* There is one list, and the index has revoked all it revokes. *)
ListOK ==
    \A l \in crl :
        /\ l.number \in 1 .. MaxCRLNumber
        /\ l.revoked \subseteq RevokedOnList

CmdInv ==
    /\ ClockOK
    /\ RootOK
    /\ NothingBeforeInit
    /\ CountersOK
    /\ IndexOK
    /\ NumbersIncrease
    /\ RevokedHaveReason
    /\ CertsOK
    /\ PeriodsOK
    /\ ListOK

----------------------------------------------------------------------------
(* Every command keeps it *)

LEMMA CmdInit == Init => CmdInv
  <1> SUFFICES ASSUME Init PROVE CmdInv
    OBVIOUS
  <1>1. ClockOK /\ RootOK /\ NothingBeforeInit /\ CountersOK
    BY DEF Init, ClockOK, RootOK, NothingBeforeInit, CountersOK
  <1>2. IndexOK /\ NumbersIncrease /\ RevokedHaveReason
    BY DEF Init, IndexOK, NumbersIncrease, RevokedHaveReason
  <1>3. CertsOK /\ PeriodsOK /\ ListOK
    BY DEF Init, CertsOK, PeriodsOK, ListOK
  <1> QED
    BY <1>1, <1>2, <1>3 DEF CmdInv

LEMMA NothingWritten ==
    ASSUME CmdInv, UNCHANGED directory, now' \in Times
    PROVE  CmdInv'
  <1>1. ClockOK' /\ RootOK' /\ NothingBeforeInit' /\ CountersOK'
    BY DEF CmdInv, directory, ClockOK, RootOK, NothingBeforeInit, CountersOK
  <1>2. IndexOK' /\ NumbersIncrease' /\ RevokedHaveReason'
    BY DEF CmdInv, directory, IndexOK, NumbersIncrease, NumberIn, RevokedHaveReason
  <1>3. CertsOK'
    BY DEF CmdInv, directory, CertsOK, NumberIn, SignedByRoot
  <1>4. PeriodsOK' /\ ListOK'
    BY DEF CmdInv, directory, PeriodsOK, ListOK, RevokedOnList
  <1> QED
    BY <1>1, <1>2, <1>3, <1>4 DEF CmdInv

LEMMA EndsKeeps == ASSUME CmdInv, NEW code, Ends(code) PROVE CmdInv'
  BY NothingWritten DEF Ends, CmdInv, ClockOK

LEMMA InitKeeps ==
    ASSUME CmdInv, NEW a \in InitArgs, RunInit(a)
    PROVE  CmdInv'
  <1>1. CASE UsageError \/ Fails
    BY <1>1, EndsKeeps DEF UsageError, Fails
  <1>2. CASE ~(UsageError \/ Fails)
    <2>1. /\ InitArgsOK(a) /\ ~IsInitialized
          /\ serial' = FormatSerial(2) /\ crlnumber' = FormatSerial(1) /\ index' = << >>
          /\ UNCHANGED <<now, certs, crl>>
      BY <1>2 DEF RunInit
    <2>2. PICK k \in Keys : root' = {Issue(1, k, a.days)}
      BY <1>2 DEF RunInit
    <2>3. certs' = {} /\ crl' = {}
      BY <2>1 DEF CmdInv, NothingBeforeInit, IsInitialized
    <2>4. ClockOK' /\ NothingBeforeInit'
      BY <2>1, <2>2 DEF CmdInv, ClockOK, NothingBeforeInit
    <2>5. RootOK'
      BY <2>2 DEF RootOK, Issue
    <2>6. CountersOK'
      BY <2>1, BoundsAssumption DEF CountersOK
    <2>7. IndexOK' /\ NumbersIncrease' /\ RevokedHaveReason'
      BY <2>1 DEF IndexOK, NumbersIncrease, RevokedHaveReason
    <2>8. CertsOK' /\ ListOK'
      BY <2>3 DEF CertsOK, ListOK
    <2>9. PeriodsOK'
      <3>1. a.days \in Days /\ a.days > 0
        BY <2>1 DEF InitArgs, InitArgsOK
      <3> QED
        BY <2>2, <2>3, <3>1 DEF PeriodsOK, Issue, CmdInv, ClockOK
    <2> QED
      BY <2>4, <2>5, <2>6, <2>7, <2>8, <2>9 DEF CmdInv
  <1> QED
    BY <1>1, <1>2

LEMMA SignKeeps ==
    ASSUME CmdInv, NEW a \in SignArgs, RunSign(a)
    PROVE  CmdInv'
  <1>1. CASE UsageError \/ Fails
    BY <1>1, EndsKeeps DEF UsageError, Fails
  <1>2. CASE ~(UsageError \/ Fails)
    <2>1. /\ SignArgsOK(a)
          /\ ParseSerial(serial) <= MaxSerial
          /\ serial' = FormatSerial(ParseSerial(serial) + 1)
          /\ UNCHANGED <<now, root, crlnumber, crl>>
      BY <1>2 DEF RunSign
    <2>2. PICK r \in root :
            LET c == Issue(ParseSerial(serial), r.signer, a.days) IN
            /\ certs' = certs \cup {c}
            /\ index' = Append(index, [ serial   |-> FormatSerial(c.serial),
                                        notAfter |-> c.notAfter,
                                        status   |-> "active",
                                        reason   |-> NoReason ])
      BY <1>2 DEF RunSign
    <2>3. PICK n \in 2 .. MaxSerial + 1 : serial = FormatSerial(n)
      BY <2>2 DEF CmdInv, CountersOK
    <2>4. n \in Nat /\ ParseSerial(serial) = n /\ n \in Serials /\ n + 1 \in 2 .. MaxSerial + 1
      BY <2>1, <2>3, NumbersReadBack, BoundsAssumption DEF Serials
    <2>cert. PICK c : c = Issue(n, r.signer, a.days)
      OBVIOUS
    <2> DEFINE e == [ serial   |-> FormatSerial(n),
                      notAfter |-> c.notAfter,
                      status   |-> "active",
                      reason   |-> NoReason ]
    <2>5. certs' = certs \cup {c} /\ index' = Append(index, e) /\ serial' = FormatSerial(n + 1)
      BY <2>1, <2>2, <2>4, <2>cert DEF Issue
    <2>6. a.days \in Days /\ a.days > 0 /\ now \in Times
      BY <2>1 DEF SignArgs, SignArgsOK, CmdInv, ClockOK
    <2>7. /\ c.serial = n /\ c.signer = r.signer /\ c.asked = a.days
          /\ c.notBefore = WholeSeconds(now)
          /\ c.notAfter = WholeSeconds(now + DaysLater(a.days))
      BY <2>cert DEF Issue
    <2>8. /\ e \in Listed /\ e.serial = FormatSerial(n)
          /\ e.notAfter = c.notAfter /\ e.status = "active"
      BY <2>4, <2>6, <2>7 DEF Listed
    <2> HIDE DEF e
    <2>9. index \in Seq(Listed)
      BY DEF CmdInv, IndexOK
    <2>10. /\ index' \in Seq(Listed)
           /\ DOMAIN index' = DOMAIN index \cup {Len(index) + 1}
           /\ \A i \in DOMAIN index : index'[i] = index[i] /\ i < Len(index) + 1
           /\ index'[Len(index) + 1] = e
           /\ DOMAIN index \subseteq Nat
      BY <2>5, <2>8, <2>9
    <2>11. \A i \in DOMAIN index : NumberIn(index', i) = NumberIn(index, i)
      BY <2>10 DEF NumberIn
    <2>12. NumberIn(index', Len(index) + 1) = n /\ ParseSerial(serial') = n + 1
      <3>1. ParseSerial(FormatSerial(n)) = n /\ ParseSerial(FormatSerial(n + 1)) = n + 1
        BY <2>4, NumbersReadBack
      <3>2. index'[Len(index) + 1].serial = FormatSerial(n)
        BY <2>8, <2>10
      <3>3. NumberIn(index', Len(index) + 1) = ParseSerial(index'[Len(index) + 1].serial)
        BY DEF NumberIn
      <3>4. ParseSerial(serial') = n + 1
        BY <2>5, <3>1
      <3>5. NumberIn(index', Len(index) + 1) = n
        BY <3>1, <3>2, <3>3
      <3> QED
        BY <3>4, <3>5
    <2>13. \A i \in DOMAIN index : NumberIn(index, i) \in Nat
      <3> SUFFICES ASSUME NEW i \in DOMAIN index PROVE NumberIn(index, i) \in Nat
        OBVIOUS
      <3>1. index[i] \in Listed
        BY <2>9
      <3>2. PICK m \in Serials : index[i].serial = FormatSerial(m)
        BY <3>1 DEF Listed
      <3>3. m \in Nat
        BY DEF Serials
      <3> QED
        BY <3>2, <3>3, NumbersReadBack DEF NumberIn
    <2>14. ClockOK' /\ RootOK' /\ NothingBeforeInit'
      BY <2>1, <2>2 DEF CmdInv, ClockOK, RootOK, NothingBeforeInit
    <2>15. CountersOK' /\ IndexOK'
      BY <2>1, <2>4, <2>5, <2>10 DEF CmdInv, CountersOK, IndexOK
    <2>16. NumbersIncrease'
      <3>1. \A i \in DOMAIN index : NumberIn(index, i) < n
        BY <2>4 DEF CmdInv, NumbersIncrease
      <3>2. \A i \in DOMAIN index' : NumberIn(index', i) < ParseSerial(serial)'
        BY <2>4, <2>10, <2>11, <2>12, <2>13, <3>1
      <3>3. \A i, j \in DOMAIN index' : i < j => NumberIn(index', i) < NumberIn(index', j)
        BY <2>4, <2>10, <2>11, <2>12, <2>13, <3>1, <2>9 DEF CmdInv, NumbersIncrease
      <3> QED
        BY <3>2, <3>3 DEF NumbersIncrease
    <2>17. RevokedHaveReason'
      BY <2>8, <2>10 DEF CmdInv, RevokedHaveReason
    <2>18. CertsOK'
      <3>1. SignedByRoot(c)'
        BY <2>1, <2>7 DEF SignedByRoot
      <3>2. \A b \in certs : SignedByRoot(b)'
        BY <2>1 DEF CmdInv, CertsOK, SignedByRoot
      <3>3. \A b \in certs :
                \E i \in DOMAIN index' :
                    NumberIn(index', i) = b.serial /\ index'[i].notAfter = b.notAfter
        BY <2>10, <2>11 DEF CmdInv, CertsOK
      <3>4. \A b \in certs : b.serial \in Serials
        BY DEF CmdInv, CertsOK
      <3> QED
        BY <2>4, <2>5, <2>7, <2>8, <2>10, <2>12, <3>1, <3>2, <3>3, <3>4 DEF CertsOK
    <2>19. PeriodsOK'
      BY <2>1, <2>5, <2>6, <2>7 DEF CmdInv, PeriodsOK
    <2>20. ListOK'
      <3>1. \A b \in RevokedOnList : b \in RevokedOnList'
        BY <2>10 DEF RevokedOnList
      <3> QED
        BY <2>1, <3>1 DEF CmdInv, ListOK
    <2> QED
      BY <2>14, <2>15, <2>16, <2>17, <2>18, <2>19, <2>20 DEF CmdInv
  <1> QED
    BY <1>1, <1>2

LEMMA MarkedIsListed ==
    ASSUME NEW d \in Listed, NEW r \in DOMAIN ReasonCodes
    PROVE  /\ MarkRevoked(d, r) \in Listed
           /\ MarkRevoked(d, r).serial = d.serial
           /\ MarkRevoked(d, r).notAfter = d.notAfter
           /\ MarkRevoked(d, r).reason = r
  <1> DEFINE S == {FormatSerial(n) : n \in Serials}
             T == {WholeSeconds(t + DaysLater(days)) : t \in Times, days \in Days}
             R == DOMAIN ReasonCodes \cup {NoReason}
             e == [d EXCEPT !.status = "revoked", !.reason = r]
  <1>1. d \in [serial : S, notAfter : T, status : {"active", "revoked"}, reason : R] /\ r \in R
    BY DEF Listed
  <1> HIDE DEF S, T, R
  <1>2. /\ e \in [serial : S, notAfter : T, status : {"active", "revoked"}, reason : R]
        /\ e.serial = d.serial /\ e.notAfter = d.notAfter /\ e.reason = r
    BY <1>1
  <1> QED
    BY <1>2 DEF MarkRevoked, Listed, S, T, R

LEMMA RevokeKeeps ==
    ASSUME CmdInv, NEW a \in RevokeArgs, RunRevoke(a)
    PROVE  CmdInv'
  <1>1. CASE UsageError \/ Fails
    BY <1>1, EndsKeeps DEF UsageError, Fails
  <1>2. CASE ~(UsageError \/ Fails)
    <2>1. RevokeArgsOK(a) /\ UNCHANGED <<now, root, serial, crlnumber, certs, crl>>
      BY <1>2 DEF RunRevoke
    <2>2. PICK i \in DOMAIN index :
            /\ index[i].status # "revoked"
            /\ index' = [index EXCEPT ![i] = MarkRevoked(index[i], a.reason)]
      BY <1>2 DEF RunRevoke, Revocable
    <2>3. PICK e : e = MarkRevoked(index[i], a.reason)
      OBVIOUS
    <2>4. a.reason \in DOMAIN ReasonCodes
      BY <2>1 DEF RevokeArgsOK
    <2>5. index \in Seq(Listed) /\ index[i] \in Listed
      BY DEF CmdInv, IndexOK
    <2>6. /\ e \in Listed
          /\ e.serial = index[i].serial /\ e.notAfter = index[i].notAfter
          /\ e.reason = a.reason
      BY <2>3, <2>4, <2>5, MarkedIsListed
    <2>7. /\ index' \in Seq(Listed)
          /\ DOMAIN index' = DOMAIN index
          /\ index'[i] = e
          /\ \A j \in DOMAIN index : j # i => index'[j] = index[j]
      BY <2>2, <2>3, <2>5, <2>6
    <2>8. \A j \in DOMAIN index : NumberIn(index', j) = NumberIn(index, j)
      BY <2>6, <2>7 DEF NumberIn
    <2>9. ClockOK' /\ RootOK' /\ CountersOK'
      BY <2>1 DEF CmdInv, ClockOK, RootOK, CountersOK
    <2>10. NothingBeforeInit'
      <3>1. index # << >>
        BY <2>2
      <3> QED
        BY <2>1, <3>1 DEF CmdInv, NothingBeforeInit
    <2>11. IndexOK' /\ NumbersIncrease'
      BY <2>1, <2>7, <2>8 DEF CmdInv, IndexOK, NumbersIncrease
    <2>12. RevokedHaveReason'
      BY <2>4, <2>6, <2>7 DEF CmdInv, RevokedHaveReason
    <2>13. CertsOK'
      <3>1. \A c \in certs : SignedByRoot(c)'
        BY <2>1 DEF CmdInv, CertsOK, SignedByRoot
      <3>2. \A j \in DOMAIN index : index'[j].notAfter = index[j].notAfter
        BY <2>6, <2>7
      <3> QED
        BY <2>1, <2>7, <2>8, <3>1, <3>2 DEF CmdInv, CertsOK
    <2>14. PeriodsOK'
      BY <2>1 DEF CmdInv, PeriodsOK
    <2>15. ListOK'
      <3>1. \A j \in DOMAIN index : index[j].status = "revoked" => index'[j] = index[j]
        BY <2>2, <2>7
      <3>2. RevokedOnList \subseteq RevokedOnList'
        BY <2>7, <3>1 DEF RevokedOnList
      <3> QED
        BY <2>1, <3>2 DEF CmdInv, ListOK
    <2> QED
      BY <2>9, <2>10, <2>11, <2>12, <2>13, <2>14, <2>15 DEF CmdInv
  <1> QED
    BY <1>1, <1>2

LEMMA CRLKeeps ==
    ASSUME CmdInv, NEW a \in CRLArgs, RunCRL(a)
    PROVE  CmdInv'
  <1>1. CASE UsageError \/ Fails
    BY <1>1, EndsKeeps DEF UsageError, Fails
  <1>2. CASE ~(UsageError \/ Fails)
    <2>1. /\ IsInitialized
          /\ ParseSerial(crlnumber) <= MaxCRLNumber
          /\ crlnumber' = FormatSerial(ParseSerial(crlnumber) + 1)
          /\ \A l \in crl' : l.number = ParseSerial(crlnumber) /\ l.revoked = RevokedOnList
          /\ UNCHANGED <<now, root, serial, index, certs>>
      BY <1>2 DEF RunCRL
    <2>2. PICK m \in 1 .. MaxCRLNumber + 1 : crlnumber = FormatSerial(m)
      BY <2>1 DEF CmdInv, CountersOK, IsInitialized
    <2>3. ParseSerial(crlnumber) = m /\ m \in 1 .. MaxCRLNumber /\ m + 1 \in 1 .. MaxCRLNumber + 1
      BY <2>1, <2>2, NumbersReadBack, BoundsAssumption
    <2>4. ClockOK' /\ RootOK' /\ NothingBeforeInit'
      BY <2>1 DEF CmdInv, ClockOK, RootOK, NothingBeforeInit, IsInitialized
    <2>5. CountersOK'
      BY <2>1, <2>3 DEF CmdInv, CountersOK
    <2>6. IndexOK' /\ NumbersIncrease' /\ RevokedHaveReason'
      BY <2>1 DEF CmdInv, IndexOK, NumbersIncrease, RevokedHaveReason
    <2>7. CertsOK' /\ PeriodsOK'
      BY <2>1 DEF CmdInv, CertsOK, SignedByRoot, PeriodsOK
    <2>8. ListOK'
      BY <2>1, <2>3 DEF ListOK, RevokedOnList
    <2> QED
      BY <2>4, <2>5, <2>6, <2>7, <2>8 DEF CmdInv
  <1> QED
    BY <1>1, <1>2

LEMMA StepKeeps == ASSUME CmdInv, [Next]_vars PROVE CmdInv'
  <1>1. CASE UNCHANGED vars
    BY <1>1, NothingWritten DEF vars, directory, CmdInv, ClockOK
  <1>2. CASE \E t \in Times : SetClock(t)
    BY <1>2, NothingWritten DEF SetClock
  <1>3. CASE RunUnknown
    BY <1>3, EndsKeeps DEF RunUnknown, UsageError
  <1>4. CASE \E a \in InitArgs : RunInit(a)
    BY <1>4, InitKeeps
  <1>5. CASE \E a \in SignArgs : RunSign(a)
    BY <1>5, SignKeeps
  <1>6. CASE \E a \in RevokeArgs : RunRevoke(a)
    BY <1>6, RevokeKeeps
  <1>7. CASE \E a \in CRLArgs : RunCRL(a)
    BY <1>7, CRLKeeps
  <1>8. CASE \E parses \in BOOLEAN : RunList(parses)
    BY <1>8, EndsKeeps DEF RunList, UsageError, Fails, Succeeds
  <1>9. CASE \E a \in VerifyArgs, certificate \in {{}} \cup {{c} : c \in Presented} :
                RunVerify(a, certificate)
    BY <1>9, EndsKeeps DEF RunVerify, UsageError, Fails, Succeeds
  <1> QED
    BY <1>1, <1>2, <1>3, <1>4, <1>5, <1>6, <1>7, <1>8, <1>9 DEF Next

(* The index, the texts, the certificates and the list keep together       *)
(* whatever commands are run and wherever the clock is set.                *)
THEOREM CommandsInvariance == Spec => []CmdInv
  <1>1. CmdInv /\ [Next]_vars => CmdInv'
    BY StepKeeps
  <1> QED
    BY CmdInit, <1>1, PTL DEF Spec

----------------------------------------------------------------------------
(* What `ca list` and `ca verify` say of a certificate *)

(* CON-DI-002: numbers are kept as text of two digits at least, signers    *)
(* are keys, statuses are those of CON-INV-004.                            *)
THEOREM CommandTypes == Spec => []TypeOK
  <1>1. CmdInv => TypeOK
    <2> SUFFICES ASSUME CmdInv PROVE TypeOK
      OBVIOUS
    <2> DEFINE texts == ({serial, crlnumber} \ {NoText}) \cup {index[i].serial : i \in DOMAIN index}
    <2>1. \A t \in texts : \E n \in Nat : t = FormatSerial(n)
      <3>1. \A t \in {serial, crlnumber} \ {NoText} : \E n \in Nat : t = FormatSerial(n)
        <4>1. root # {} => \A t \in {serial, crlnumber} : \E n \in Nat : t = FormatSerial(n)
          BY BoundsAssumption DEF CmdInv, CountersOK
        <4> QED
          BY <4>1 DEF CmdInv, NothingBeforeInit
      <3>2. \A i \in DOMAIN index : \E n \in Nat : index[i].serial = FormatSerial(n)
        <4> SUFFICES ASSUME NEW i \in DOMAIN index
                     PROVE  \E n \in Nat : index[i].serial = FormatSerial(n)
          OBVIOUS
        <4>1. index[i] \in Listed
          BY DEF CmdInv, IndexOK
        <4> QED
          BY <4>1 DEF Listed, Serials
      <3> QED
        BY <3>1, <3>2
    <2>2. \A t \in texts : Len(t.digits) >= 2 /\ ~t.upper
      <3> SUFFICES ASSUME NEW t \in texts PROVE Len(t.digits) >= 2 /\ ~t.upper
        OBVIOUS
      <3>1. PICK n \in Nat : t = FormatSerial(n)
        BY <2>1
      <3> HIDE DEF texts
      <3>2. Len(t.digits) >= 2
        BY <3>1, TextShape
      <3>3. t.upper = FALSE
        BY <3>1 DEF FormatSerial
      <3> QED
        BY <3>2, <3>3
    <2>3. \A c \in root \cup certs : c.signer \in Keys /\ c.serial \in {1} \cup Serials
      BY DEF CmdInv, RootOK, CertsOK, SignedByRoot
    <2>4. \A i \in DOMAIN index : index[i].status \in {"active", "revoked"}
      <3>1. \A i \in DOMAIN index : index[i] \in Listed
        BY DEF CmdInv, IndexOK
      <3> QED
        BY <3>1 DEF Listed
    <2> QED
      BY <2>2, <2>3, <2>4 DEF TypeOK, CmdInv, ClockOK, ListOK
  <1> QED
    BY <1>1, CommandsInvariance, PTL

LEMMA EntryFound ==
    ASSUME CmdInv, NEW c \in certs
    PROVE  \E i \in DOMAIN index :
              /\ EntryOf(c) = index[i]
              /\ NumberIn(index, i) = c.serial
              /\ index[i].notAfter = c.notAfter
              /\ \A j \in DOMAIN index : NumberIn(index, j) = c.serial => j = i
  <1>1. PICK i \in DOMAIN index : NumberIn(index, i) = c.serial /\ index[i].notAfter = c.notAfter
    BY DEF CmdInv, CertsOK
  <1>2. DOMAIN index \subseteq Nat /\ c.serial \in Nat
    BY DEF CmdInv, IndexOK, CertsOK, Serials
  <1>3. \A j \in DOMAIN index : NumberIn(index, j) = c.serial => j = i
    BY <1>1, <1>2 DEF CmdInv, NumbersIncrease
  <1>4. EntryOf(c) = index[i]
    BY <1>1, <1>3 DEF EntryOf, NumberIn
  <1> QED
    BY <1>1, <1>3, <1>4

(* The codes of a list and the names of the index, there and back. *)
LEMMA ReasonsReadBack ==
    ASSUME NEW r \in DOMAIN ReasonCodes
    PROVE  ReasonNames[ReasonCode(r)] = r /\ r \notin {"ok", "not checked"}
  <1>1. DOMAIN ReasonCodes = {"unspecified", "keyCompromise", "affiliationChanged",
                              "superseded", "cessationOfOperation"}
    BY DEF ReasonCodes
  <1>2. ReasonCodes[r] \in {0, 1, 3, 4, 5}
        /\ \A q \in DOMAIN ReasonCodes : ReasonCodes[q] = ReasonCodes[r] => q = r
    BY <1>1 DEF ReasonCodes
  <1>3. ReasonNames[ReasonCodes[r]] = r
    BY <1>2 DEF ReasonNames
  <1> QED
    BY <1>1, <1>3 DEF ReasonCode

(* Entries of a list that bear the serial of a certificate can only be of  *)
(* its own entry in the index.                                             *)
LEMMA HitsAreItsEntry ==
    ASSUME CmdInv, NEW c \in certs,
           NEW H, H # {}, H \subseteq RevokedOnList, \A e \in H : e.serial = c.serial
    PROVE  /\ EntryOf(c).status = "revoked"
           /\ ReasonNames[(CHOOSE e \in H : TRUE).code] = EntryOf(c).reason
           /\ EntryOf(c).reason \notin {"ok", "not checked"}
  <1>1. PICK i \in DOMAIN index :
          /\ EntryOf(c) = index[i]
          /\ \A j \in DOMAIN index : NumberIn(index, j) = c.serial => j = i
    BY EntryFound
  <1>2. PICK hit : hit = (CHOOSE e \in H : TRUE)
    OBVIOUS
  <1>3. hit \in H
    BY <1>2
  <1>4. PICK j \in DOMAIN index :
          /\ index[j].status = "revoked"
          /\ hit = [serial |-> ParseSerial(index[j].serial), code |-> ReasonCode(index[j].reason)]
    BY <1>3 DEF RevokedOnList
  <1>5. NumberIn(index, j) = c.serial /\ hit.code = ReasonCode(index[j].reason)
    BY <1>3, <1>4 DEF NumberIn
  <1>6. j = i
    BY <1>1, <1>5
  <1>7. index[i].reason \in DOMAIN ReasonCodes
    BY <1>4, <1>6 DEF CmdInv, RevokedHaveReason
  <1> QED
    BY <1>1, <1>2, <1>4, <1>5, <1>6, <1>7, ReasonsReadBack

Hits(c) == {e \in UNION {l.revoked : l \in crl} : e.serial = c.serial}

LEMMA RevocationIs ==
    ASSUME NEW c
    PROVE  /\ Hits(c) = {} => Revocation(c) \in {"ok", "not checked"}
           /\ Hits(c) # {} => Revocation(c) = ReasonNames[(CHOOSE e \in Hits(c) : TRUE).code]
  <1>1. Revocation(c) = CASE crl = {}                    -> "not checked"
                          [] crl # {} /\ Hits(c) = {}    -> "ok"
                          [] OTHER ->
                                ReasonNames[(CHOOSE e \in Hits(c) : TRUE).code]
    BY DEF Revocation, Hits
  <1>2. Hits(c) # {} => crl # {}
    BY DEF Hits
  <1> QED
    BY <1>1, <1>2

LEMMA HitsAreListed ==
    ASSUME CmdInv, NEW c
    PROVE  Hits(c) \subseteq RevokedOnList /\ \A e \in Hits(c) : e.serial = c.serial
  BY DEF Hits, CmdInv, ListOK

(* A certificate of the authority is reported by the list or not at all. *)
LEMMA ReportedIsListed ==
    ASSUME CmdInv, NEW c \in certs
    PROVE  /\ Verdict(c).revocation = Revocation(c)
           /\ Verdict(c).valid <=> InPeriod(c) /\ Revocation(c) \in {"ok", "not checked"}
           /\ Hits(c) = {} <=> Revocation(c) \in {"ok", "not checked"}
           /\ Hits(c) # {} => /\ EntryOf(c).status = "revoked"
                              /\ Revocation(c) = EntryOf(c).reason
  <1>1. SignedByRoot(c)
    BY DEF CmdInv, CertsOK
  <1>2. /\ Verdict(c).revocation = Revocation(c)
        /\ Verdict(c).valid <=> InPeriod(c) /\ Revocation(c) \in {"ok", "not checked"}
    BY <1>1 DEF Verdict
  <1>3. Hits(c) # {} => /\ EntryOf(c).status = "revoked"
                        /\ ReasonNames[(CHOOSE e \in Hits(c) : TRUE).code] = EntryOf(c).reason
                        /\ EntryOf(c).reason \notin {"ok", "not checked"}
    BY HitsAreListed, HitsAreItsEntry
  <1> QED
    BY <1>2, <1>3, RevocationIs

(* CON-DI-006, CON-INV-003: a certificate a list makes `ca verify` report  *)
(* as revoked is listed as revoked for that reason (GenerateCRL,           *)
(* VerifyCert, ListCerts).                                                 *)
THEOREM ReportedAsRecorded == Spec => []RevokedIsListed
  <1>1. CmdInv => RevokedIsListed
    BY ReportedIsListed DEF RevokedIsListed, DisplayStatus
  <1> QED
    BY <1>1, CommandsInvariance, PTL

(* CON-BD-014, CON-BD-017: under any list what `ca list` shows as active   *)
(* verifies as VALID, and with a current one nothing else does, at every   *)
(* reading of the clock not before the issue, however long the period and  *)
(* whether or not it has wrapped around (ListCerts, VerifyCert).           *)
THEOREM ListAgreesWithVerify == Spec => []ListAndVerifyAgree
  <1>1. CmdInv => ListAndVerifyAgree
    <2> SUFFICES ASSUME CmdInv, NEW c \in certs, now >= c.notBefore
                 PROVE  /\ DisplayStatus(EntryOf(c)) = "active" => Verdict(c).valid
                        /\ ListIsCurrent /\ Verdict(c).valid
                                => DisplayStatus(EntryOf(c)) = "active"
      BY DEF ListAndVerifyAgree
    <2>1. PICK i \in DOMAIN index :
            /\ EntryOf(c) = index[i]
            /\ NumberIn(index, i) = c.serial
            /\ index[i].notAfter = c.notAfter
      BY EntryFound
    <2>2. ~(now < c.notBefore)
      <3>1. \A t \in Times : WholeSeconds(t) \in Int
        BY TimeAssumption DEF WholeSeconds
      <3>2. now \in Int /\ c.notBefore \in Int
        BY <3>1, TimeAssumption DEF CmdInv, ClockOK, PeriodsOK
      <3> QED
        BY <3>2
    <2>3. ListIsCurrent /\ index[i].status = "revoked" => Hits(c) # {}
      <3> SUFFICES ASSUME ListIsCurrent, index[i].status = "revoked" PROVE Hits(c) # {}
        OBVIOUS
      <3>1. PICK e : e = [ serial |-> ParseSerial(index[i].serial),
                         code   |-> ReasonCode(index[i].reason) ]
        OBVIOUS
      <3>2. e \in RevokedOnList /\ e.serial = c.serial
        BY <2>1, <3>1 DEF RevokedOnList, NumberIn
      <3> QED
        BY <3>2 DEF ListIsCurrent, Hits
    <2>4. Hits(c) # {} => index[i].status = "revoked"
      BY <2>1, ReportedIsListed
    <2>5. Verdict(c).valid <=> (InPeriod(c) /\ Hits(c) = {})
      BY ReportedIsListed
    <2>6. InPeriod(c) <=> ~(now > index[i].notAfter)
      BY <2>1, <2>2 DEF InPeriod
    <2>7. DisplayStatus(index[i]) = "active"
            <=> (index[i].status # "revoked" /\ ~(now > index[i].notAfter))
      BY DEF DisplayStatus
    <2> QED
      BY <2>1, <2>3, <2>4, <2>5, <2>6, <2>7
  <1> QED
    BY <1>1, CommandsInvariance, PTL

(* CON-INV-003: a certificate once reported as revoked is reported so for  *)
(* ever, for the same reason, wherever the clock is set (VerifyCert).      *)
THEOREM RevocationIsForEver == Spec => RevokedForEver
  <1> DEFINE Kept ==
        \A c \in certs :
            Verdict(c).revocation \notin {"ok", "not checked"} =>
                Verdict(c)'.revocation = Verdict(c).revocation
  <1>1. CmdInv /\ [Next]_vars => Kept
    <2> SUFFICES ASSUME CmdInv, [Next]_vars, NEW c \in certs,
                        Verdict(c).revocation \notin {"ok", "not checked"}
                 PROVE  Verdict(c)'.revocation = Verdict(c).revocation
      OBVIOUS
    <2>1. SignedByRoot(c) /\ Hits(c) # {} /\ Verdict(c).revocation = EntryOf(c).reason
      BY ReportedIsListed DEF CmdInv, CertsOK
    <2>2. root # {}
      BY DEF CmdInv, NothingBeforeInit
    <2>3. CASE UNCHANGED <<root, crl>>
      <3>1. SignedByRoot(c)' /\ Revocation(c)' = Revocation(c)
        BY <2>1, <2>3 DEF SignedByRoot, Revocation
      <3>2. Verdict(c)'.revocation = Revocation(c)'
        BY <3>1 DEF Verdict
      <3> QED
        BY <3>1, <3>2, ReportedIsListed
    <2>4. CASE ~UNCHANGED <<root, crl>>
      <3>1. PICK a \in CRLArgs : RunCRL(a)
        BY <2>2, <2>4 DEF Next, vars, directory, SetClock, RunUnknown, UsageError, Fails, Succeeds,
                         Ends, RunInit, IsInitialized, RunSign, RunRevoke, RunList, RunVerify
      <3>2. UNCHANGED root /\ \E l : crl' = {l} /\ l.revoked = RevokedOnList
        <4>1. ~(UsageError \/ Fails)
          BY <2>4 DEF UsageError, Fails, Ends, directory
        <4>2. PICK l : /\ crl' = {l}
                       /\ l = [ number     |-> ParseSerial(crlnumber),
                                revoked    |-> RevokedOnList,
                                thisUpdate |-> WholeSeconds(now),
                                nextUpdate |-> WholeSeconds(now + HoursLater(a.hours)),
                                asked      |-> a.hours ]
          BY <3>1, <4>1 DEF RunCRL
        <4>3. UNCHANGED root
          BY <3>1, <4>1 DEF RunCRL
        <4>4. PICK R : R = RevokedOnList
          OBVIOUS
        <4>5. l.revoked = R
          BY <4>2, <4>4
        <4> QED
          BY <4>2, <4>3, <4>4, <4>5
      <3>3. PICK H : H = {e \in UNION {l.revoked : l \in crl'} : e.serial = c.serial}
        OBVIOUS
      <3>4. H = {e \in RevokedOnList : e.serial = c.serial}
        BY <3>2, <3>3
      <3>5. H # {}
        BY <2>1, <3>4, HitsAreListed
      <3>6. ReasonNames[(CHOOSE e \in H : TRUE).code] = EntryOf(c).reason
        <4>1. H \subseteq RevokedOnList /\ \A e \in H : e.serial = c.serial
          BY <3>4
        <4> QED
          BY <3>5, <4>1, HitsAreItsEntry
      <3>7. crl' # {}
        BY <3>2
      <3>8. Revocation(c)' = ReasonNames[(CHOOSE e \in H : TRUE).code]
        BY <3>3, <3>5, <3>7 DEF Revocation
      <3>9. SignedByRoot(c)'
        BY <2>1, <3>2 DEF SignedByRoot
      <3>10. Verdict(c)'.revocation = Revocation(c)'
        BY <3>9 DEF Verdict
      <3> QED
        BY <2>1, <3>6, <3>8, <3>10
    <2> QED
      BY <2>3, <2>4
  <1>2. CmdInv /\ [Next]_vars => [Kept]_vars
    BY <1>1
  <1> QED
    BY <1>2, CommandsInvariance, PTL DEF Spec, RevokedForEver

(* CON-BD-004, CON-BD-017: for every number of days a duration can hold, a *)
(* certificate is in its period for exactly that long (SignCSR).           *)
THEOREM PeriodsAreKept == Spec => []PeriodAsAsked
  <1>1. CmdInv => PeriodAsAsked
    <2> SUFFICES ASSUME CmdInv, NEW c \in certs \cup root, Representable(c.asked)
                 PROVE  Verdict(c).expiryOK <=>
                            /\ c.notBefore <= now
                            /\ now <= c.notBefore + c.asked * HoursPerDay * Hour
      BY DEF PeriodAsAsked
    <2>1. /\ c.asked \in Days /\ c.asked > 0
          /\ \E t \in Times : /\ c.notBefore = WholeSeconds(t)
                             /\ c.notAfter = WholeSeconds(t + DaysLater(c.asked))
      BY DEF CmdInv, PeriodsOK
    <2>2. PICK t \in Times : /\ c.notBefore = WholeSeconds(t)
                             /\ c.notAfter = WholeSeconds(t + DaysLater(c.asked))
      BY <2>1
    <2>3. t \in Int /\ now \in Int
      BY TimeAssumption DEF CmdInv, ClockOK
    <2> DEFINE length == c.asked * HoursPerDay * Hour
    <2>4. c.notAfter = c.notBefore + length
      BY <2>1, <2>2, <2>3, PeriodHolds
    <2>5. c.notBefore \in Int /\ length \in Int
      <3>1. c.asked \in Int
        BY <2>1, TimeAssumption
      <3>2. length \in Int
        BY <3>1, TimeAssumption
      <3>3. WholeSeconds(t) \in Int
        BY <2>3, TimeAssumption DEF WholeSeconds
      <3> QED
        BY <2>2, <3>2, <3>3
    <2>6. SignedByRoot(c)
      BY DEF CmdInv, CertsOK, SignedByRoot
    <2>7. Verdict(c).expiryOK <=> InPeriod(c)
      BY <2>6 DEF Verdict
    <2> HIDE DEF length
    <2>8. InPeriod(c) <=> (c.notBefore <= now /\ now <= c.notBefore + length)
      BY <2>3, <2>4, <2>5 DEF InPeriod
    <2> QED
      BY <2>7, <2>8 DEF length
  <1> QED
    BY <1>1, CommandsInvariance, PTL

LEMMA Respelled ==
    ASSUME NEW ds, NEW u, NEW v
    PROVE  [[digits |-> ds, upper |-> u] EXCEPT !.upper = v] = [digits |-> ds, upper |-> v]
  OBVIOUS

(* CON-BD-007: the text printed for a certificate, in either case, is that *)
(* of no other, and revokes it (FormatSerial, runRevoke, RevokeCert).      *)
THEOREM TextsAreNames == Spec => []SerialTextIsItsName
  <1>1. CmdInv => SerialTextIsItsName
    <2> SUFFICES ASSUME CmdInv, NEW i \in DOMAIN index
                 PROVE  /\ \A t \in Arguments :
                            Finds(t, i) => ParseSerial(t) = ParseSerial(index[i].serial)
                        /\ \A upper \in {FALSE, HasLetter(index[i].serial.digits)} :
                            Finds([index[i].serial EXCEPT !.upper = upper], i)
      BY DEF SerialTextIsItsName
    <2>1. ASSUME NEW t \in Arguments, Finds(t, i)
          PROVE  ParseSerial(t) = ParseSerial(index[i].serial)
      <3>1. index[i].serial = ToLower(t)
        BY <2>1 DEF Finds, IsFirstMatch
      <3>2. ToLower(t).digits = t.digits
        BY DEF Arguments, Text, ToLower
      <3> QED
        BY <3>1, <3>2, ParseIsValue
    <2>2. ASSUME NEW upper \in BOOLEAN
          PROVE  Finds([index[i].serial EXCEPT !.upper = upper], i)
      <3>1. index \in Seq(Listed) /\ index[i] \in Listed
        BY DEF CmdInv, IndexOK
      <3>2. PICK n \in Serials : index[i].serial = FormatSerial(n)
        BY <3>1 DEF Listed
      <3>3. ToLower([index[i].serial EXCEPT !.upper = upper]) = index[i].serial
        <4>1. PICK ds : index[i].serial = [digits |-> ds, upper |-> FALSE]
          BY <3>2 DEF FormatSerial
        <4>2. [index[i].serial EXCEPT !.upper = upper] = [digits |-> ds, upper |-> upper]
          BY <4>1, Respelled
        <4>3. ToLower([digits |-> ds, upper |-> upper]) = [digits |-> ds, upper |-> FALSE]
          BY Respelled DEF ToLower
        <4> QED
          BY <4>1, <4>2, <4>3
      <3>4. \A j \in DOMAIN index : index[j].serial = index[i].serial => j = i
        <4>1. \A j \in DOMAIN index : NumberIn(index, j) \in Nat
          <5> SUFFICES ASSUME NEW j \in DOMAIN index PROVE NumberIn(index, j) \in Nat
            OBVIOUS
          <5>1. index[j] \in Listed
            BY <3>1
          <5>2. PICK m \in Serials : index[j].serial = FormatSerial(m)
            BY <5>1 DEF Listed
          <5>3. m \in Nat
            BY DEF Serials
          <5> QED
            BY <5>2, <5>3, NumbersReadBack DEF NumberIn
        <4>2. \A j \in DOMAIN index :
                index[j].serial = index[i].serial => NumberIn(index, j) = NumberIn(index, i)
          BY DEF NumberIn
        <4>3. DOMAIN index \subseteq Nat
          BY <3>1
        <4> QED
          BY <4>1, <4>2, <4>3 DEF CmdInv, NumbersIncrease
      <3>5. DOMAIN index \subseteq Nat
        BY <3>1
      <3> QED
        BY <3>3, <3>4, <3>5 DEF Finds, IsFirstMatch
    <2>3. HasLetter(index[i].serial.digits) \in BOOLEAN
      BY DEF HasLetter
    <2> QED
      BY <2>1, <2>2, <2>3
  <1> QED
    BY <1>1, CommandsInvariance, PTL

=============================================================================
